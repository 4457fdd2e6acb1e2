---------------------- MODULE PendingInteractions_proofs ----------------------
(***************************************************************************)
(* What the registry of questions promises, proved for any number of       *)
(* questions, turns, calls and lost connections.                           *)
(*                                                                         *)
(* The argument: a question that is no longer waiting never changes again  *)
(* (Finish is only ever given questions that wait), so that the four       *)
(* events that race for it -- an answer, a deadline, a Stop and a close -- *)
(* are ordered by the registry, and what the asker reads later is what was *)
(* acknowledged.                                                           *)
(*                                                                         *)
(* What the renderer shows is a second argument: each frame tells what was *)
(* true at its revision, and what the renderer shows wrong is put right by *)
(* a frame or a snapshot on its way, or was overtaken (PromptBooks).  The  *)
(* reply to a Stop, which clears all prompts, meets only questions that    *)
(* were asked since the Stop released the others (StopGood).               *)
(***************************************************************************)
EXTENDS PendingInteractions, FiniteSetTheorems, TLAPS

Statuses == {"absent", "waiting", "submitted", "expired", "interrupted"}
Places == {"new", "made", "asked", "woken", "done", "turned_away"}
Outcomes == {"none", "submitted", "expired", "interrupted"}

\* What the rows of one question say together.
QuestionBook(q) ==
  /\ status[q] = "absent" <=> pc[q] \in {"new", "turned_away"}
  /\ status[q] # "absent" <=> stamp[q] > 0
  /\ pc[q] \in {"woken", "done"} => status[q] # "waiting" /\ outcome[q] = status[q]
  /\ q \in accepted <=> status[q] = "submitted"

RegistryTyped ==
  /\ status \in [Questions -> Statuses] /\ stamp \in [Questions -> Nat] /\ revision \in Nat
  /\ \A q \in Questions : stamp[q] <= revision
  /\ pc \in [Questions -> Places] /\ outcome \in [Questions -> Outcomes]
  /\ accepted \subseteq Questions

RegistryGood == RegistryTyped /\ \A q \in Questions : QuestionBook(q)

\* The questions the registry has ever had.
Born == {q \in Questions : stamp[q] > 0}

FrameTypes == {"request", "resolved", "complete", "answered", "stopped", "resumed"}
Frames == [type : FrameTypes, q : Questions \cup {NoQuestion}, rev : Nat, waiting : SUBSET Questions]

\* What can be on its way to the renderer: nothing of it is ahead of the registry.
GoodFrames ==
  {f \in Frames : f.rev <= revision /\ f.waiting \subseteq Born /\ (f.type = "request" => f.q \in Born)}

Calls == [type : {"answer", "stop"}, q : Questions \cup {NoQuestion}]
GoodCalls == {c \in Calls : c.type = "answer" => c.q \in Questions}

RendererGood == shown \subseteq Born /\ seen \in 0 .. revision

ResumeGood ==
  /\ resume \in [at : {"no", "asked", "bound", "taken"}, rev : Nat, waiting : SUBSET Questions]
  /\ resume.rev <= revision /\ resume.waiting \subseteq Born
  /\ resume.at # "no" => connected

LinkGood ==
  /\ inbox \in Seq(GoodFrames) /\ outbox \in Seq(GoodCalls)
  /\ transport \in BOOLEAN /\ connected \in BOOLEAN /\ (transport => connected)

SessionTyped ==
  /\ plan \in Scenarios
  /\ running \in BOOLEAN /\ cancelReq \in BOOLEAN /\ caller \in BOOLEAN
  /\ stopping \in {"no", "latched", "released"} /\ life \in {"live", "closing", "closed"}
  /\ refused \cup missed \cup late \subseteq Questions /\ cleared \subseteq late

\* A Stop that will still be answered has its latch, and once it has released what waits
\* only what was asked since then waits for the user.
StopGood ==
  /\ NoneAfterStop
  /\ caller => cancelReq /\ stopping # "no"
  /\ caller /\ stopping = "released" =>
       \A q \in Questions : status[q] = "waiting" /\ Mode[q] # "live" => q \in late

\* The inductive invariant.
IndInv ==
  RegistryGood /\ RendererGood /\ ResumeGood /\ LinkGood /\ SessionTyped /\ StopGood

\* The registry only goes on.
Grows == revision \in Nat /\ revision' \in Nat /\ revision <= revision' /\ Born \subseteq Born'

-----------------------------------------------------------------------------
(* The registry.                                                           *)

LEMMA CountIsBounded ==
  ASSUME NEW qs, qs \subseteq Questions, NEW rs, rs \subseteq qs
  PROVE  Cardinality(rs) \in Nat /\ Cardinality(qs) \in Nat /\ Cardinality(rs) <= Cardinality(qs)
BY InteractionAssumption, FS_Subset, FS_CardinalityType

LEMMA CountIsPositive ==
  ASSUME NEW qs, qs \subseteq Questions, NEW q \in qs
  PROVE  Cardinality(qs) > 0
BY InteractionAssumption, FS_Subset, FS_CardinalityType, FS_EmptySet

\* A question that ends was waiting.
LEMMA FinishKeeps ==
  ASSUME RegistryGood, NEW qs \in SUBSET Waiting, NEW st \in {"submitted", "expired", "interrupted"},
         Finish(qs, st), UNCHANGED askers,
         accepted' = IF st = "submitted" THEN accepted \cup qs ELSE accepted
  PROVE  /\ RegistryGood' /\ Grows
         /\ \A q \in Questions : status'[q] = "waiting" => status[q] = "waiting" /\ q \notin qs
<1> DEFINE before(q) == {r \in qs : stamp[r] <= stamp[q]}
<1>1. qs \subseteq Questions /\ \A q \in qs : status[q] = "waiting"
  BY DEF Waiting
<1>2. Cardinality(qs) \in Nat /\ \A q \in Questions : Cardinality(before(q)) \in 0 .. Cardinality(qs)
  <2> SUFFICES ASSUME NEW q \in Questions
               PROVE  Cardinality(qs) \in Nat /\ Cardinality(before(q)) \in 0 .. Cardinality(qs)
    BY <1>1, CountIsBounded
  <2> QED BY <1>1, CountIsBounded
<1>3. \A q \in qs : Cardinality(before(q)) > 0
  BY <1>1, CountIsPositive DEF RegistryGood, RegistryTyped
<1>4. /\ status' = [q \in Questions |-> IF q \in qs THEN st ELSE status[q]]
      /\ stamp' = [q \in Questions |-> IF q \in qs THEN revision + Cardinality(before(q)) ELSE stamp[q]]
      /\ revision' = revision + Cardinality(qs)
  BY DEF Finish
<1> HIDE DEF before
<1>5. stamp' \in [Questions -> Nat] /\ revision' \in Nat /\ \A q \in Questions : stamp'[q] <= revision'
  BY <1>2, <1>4 DEF RegistryGood, RegistryTyped
<1>6. \A q \in Questions : stamp'[q] > 0 <=> stamp[q] > 0
  <2> SUFFICES ASSUME NEW q \in Questions
               PROVE  stamp'[q] > 0 <=> stamp[q] > 0
    OBVIOUS
  <2>1. CASE q \in qs
    BY <2>1, <1>1, <1>2, <1>3, <1>4 DEF RegistryGood, RegistryTyped, QuestionBook
  <2>2. CASE q \notin qs
    BY <2>2, <1>4
  <2> QED BY <2>1, <2>2
<1>7. RegistryTyped'
  BY <1>1, <1>4, <1>5 DEF RegistryGood, RegistryTyped, askers, Statuses
<1>8. ASSUME NEW q \in Questions
      PROVE  QuestionBook(q)'
  BY <1>1, <1>4, <1>6 DEF RegistryGood, RegistryTyped, QuestionBook, askers
<1>9. Grows
  BY <1>2, <1>4, <1>5, <1>6 DEF Grows, Born, RegistryGood, RegistryTyped
<1> QED BY <1>1, <1>4, <1>7, <1>8, <1>9 DEF RegistryGood

LEMMA CreateKeeps ==
  ASSUME RegistryGood, NEW q \in Questions, pc[q] = "new", Create(q), NEW place \in {"made", "asked"},
         pc' = [pc EXCEPT ![q] = place], UNCHANGED <<outcome, accepted>>
  PROVE  RegistryGood' /\ Grows /\ q \in Born' /\ stamp'[q] = revision' /\ status'[q] = "waiting"
<1>1. status[q] = "absent" /\ q \notin accepted
  BY DEF RegistryGood, QuestionBook
<1> QED BY <1>1 DEF RegistryGood, RegistryTyped, QuestionBook, Create, Grows, Born, Statuses, Places

\* The asker goes on and the registry rests.
LEMMA AskerKeeps ==
  ASSUME RegistryGood, NEW q \in Questions, UNCHANGED <<registry, accepted>>,
         \/ pc[q] = "new" /\ pc' = [pc EXCEPT ![q] = "turned_away"] /\ outcome' = outcome
         \/ pc[q] = "made" /\ pc' = [pc EXCEPT ![q] = "asked"] /\ outcome' = outcome
         \/ pc[q] = "woken" /\ pc' = [pc EXCEPT ![q] = "done"] /\ outcome' = outcome
         \/ /\ pc[q] = "asked" /\ status[q] # "waiting"
            /\ pc' = [pc EXCEPT ![q] = "woken"] /\ outcome' = [outcome EXCEPT ![q] = status[q]]
  PROVE  RegistryGood'
BY DEF RegistryGood, RegistryTyped, QuestionBook, registry, Places, Statuses, Outcomes

LEMMA RegistryRests ==
  ASSUME RegistryGood, UNCHANGED <<registry, askers, accepted>>
  PROVE  RegistryGood'
BY DEF RegistryGood, RegistryTyped, QuestionBook, registry, askers

LEMMA StillGrows ==
  ASSUME RegistryGood, UNCHANGED registry
  PROVE  Grows
BY DEF RegistryGood, RegistryTyped, Grows, Born, registry

-----------------------------------------------------------------------------
(* The link.                                                               *)

LEMMA SeqGrows ==
  ASSUME NEW S, NEW T, S \subseteq T, NEW s \in Seq(S)
  PROVE  s \in Seq(T)
OBVIOUS

LEMMA SeqSteps ==
  ASSUME NEW T, NEW s \in Seq(T)
  PROVE  (s # <<>> => Tail(s) \in Seq(T)) /\ \A x \in T : Append(s, x) \in Seq(T)
OBVIOUS

LEMMA FramesStayGood ==
  ASSUME Grows
  PROVE  GoodFrames \subseteq GoodFrames'
BY DEF Grows, GoodFrames, Frames

LEMMA InboxGrows ==
  ASSUME Grows, LinkGood
  PROVE  inbox \in Seq(GoodFrames')
BY FramesStayGood, SeqGrows DEF LinkGood

LEMMA RendererRests ==
  ASSUME RendererGood, Grows, UNCHANGED renderer
  PROVE  RendererGood'
BY DEF RendererGood, Grows, renderer

LEMMA ResumeRests ==
  ASSUME ResumeGood, Grows, UNCHANGED <<resume, connected>>
  PROVE  ResumeGood'
BY DEF ResumeGood, Grows

\* Frames on their way, a call more or less.
LEMMA LinkRests ==
  ASSUME LinkGood, Grows, UNCHANGED <<transport, connected>>,
         \/ inbox' = inbox
         \/ \E f \in GoodFrames' : inbox' = Append(inbox, f) \/ Send(f)
         \/ Heard,
         \/ outbox' = outbox
         \/ outbox # <<>> /\ outbox' = Tail(outbox)
         \/ \E c \in GoodCalls : outbox' = Append(outbox, c)
  PROVE  LinkGood'
<1>1. inbox \in Seq(GoodFrames')
  BY InboxGrows
<1>2. inbox' \in Seq(GoodFrames')
  <2> DEFINE T == GoodFrames'
  <2>1. inbox \in Seq(T)
    BY <1>1
  <2>2. (inbox # <<>> => Tail(inbox) \in Seq(T)) /\ \A f \in T : Append(inbox, f) \in Seq(T)
    <3> HIDE DEF T
    <3> QED BY <2>1, SeqSteps
  <2>3. \/ inbox' = inbox
        \/ \E f \in T : inbox' = Append(inbox, f)
        \/ inbox # <<>> /\ inbox' = Tail(inbox)
    BY DEF Send, Heard
  <2> HIDE DEF T
  <2>4. inbox' \in Seq(T)
    BY <2>1, <2>2, <2>3
  <2> QED BY <2>4 DEF T
<1>3. outbox' \in Seq(GoodCalls)
  <2>1. outbox \in Seq(GoodCalls)
    BY DEF LinkGood
  <2> QED BY <2>1, SeqSteps
<1> QED BY <1>2, <1>3 DEF LinkGood, GoodCalls, Calls
-----------------------------------------------------------------------------
(* One lemma per group of actions.                                         *)

LEMMA InitGood == Init => IndInv
<1> SUFFICES ASSUME Init
             PROVE  IndInv
  OBVIOUS
<1>1. RegistryGood
  BY DEF Init, RegistryGood, RegistryTyped, QuestionBook, Statuses, Places, Outcomes
<1>2. RendererGood /\ ResumeGood
  BY DEF Init, RendererGood, ResumeGood, NoResume
<1>3. LinkGood
  BY DEF Init, LinkGood
<1>4. SessionTyped /\ StopGood
  BY DEF Init, SessionTyped, StopGood, NoneAfterStop
<1> QED BY <1>1, <1>2, <1>3, <1>4 DEF IndInv

\* The frame of a question that was just created or has just changed.
LEMMA FrameIsGood ==
  ASSUME NEW q \in Born, NEW rev \in 0 .. revision, revision \in Nat, NEW type \in FrameTypes
  PROVE  Frame(type, q, rev, {}) \in GoodFrames
BY DEF Frame, GoodFrames, Frames, Born

LEMMA SessionFrameIsGood ==
  ASSUME revision \in Nat, NEW type \in {"complete", "stopped"}
  PROVE  Frame(type, NoQuestion, 0, {}) \in GoodFrames
BY DEF Frame, GoodFrames, Frames, FrameTypes

LEMMA AskTurnKeeps ==
  ASSUME IndInv, NEW q \in Questions, AskTurn(q)
  PROVE  IndInv'
<1> USE DEF IndInv
<1>1. CASE TurnLive
  <2>1. /\ Create(q) /\ pc' = [pc EXCEPT ![q] = "asked"] /\ UNCHANGED <<outcome, accepted>>
        /\ pc[q] = "new" /\ Send(Frame("request", q, revision + 1, {})) /\ ~cancelReq
        /\ UNCHANGED <<session, transport, resume, outbox, connected, renderer, refused, missed, late, cleared, plan>>
    BY <1>1 DEF AskTurn, TurnLive, history, bounds
  <2>2. RegistryGood' /\ Grows /\ q \in Born' /\ revision' = revision + 1 /\ revision' \in Nat
    BY <2>1, CreateKeeps DEF Create, Grows
  <2>3. Frame("request", q, revision + 1, {}) \in GoodFrames'
    BY <2>2 DEF Frame, GoodFrames, Frames, FrameTypes, Born
  <2>4. LinkGood'
    BY <2>1, <2>2, <2>3, LinkRests
  <2>5. RendererGood' /\ ResumeGood'
    BY <2>1, <2>2, RendererRests, ResumeRests
  <2>6. SessionTyped' /\ StopGood'
    BY <2>1 DEF SessionTyped, StopGood, NoneAfterStop, session
  <2> QED BY <2>2, <2>4, <2>5, <2>6
<1>2. CASE ~TurnLive
  <2>1. /\ pc[q] = "new" /\ pc' = [pc EXCEPT ![q] = "turned_away"] /\ outcome' = outcome
        /\ UNCHANGED <<registry, accepted, inbox, session, transport, resume, outbox, connected, renderer,
                       refused, missed, late, cleared, plan>>
    BY <1>2 DEF AskTurn, history, bounds
  <2>2. RegistryGood' /\ Grows
    BY <2>1, AskerKeeps, StillGrows
  <2>3. LinkGood' /\ RendererGood' /\ ResumeGood'
    BY <2>1, <2>2, LinkRests, RendererRests, ResumeRests
  <2>4. SessionTyped' /\ StopGood'
    BY <2>1 DEF SessionTyped, StopGood, NoneAfterStop, session, registry
  <2> QED BY <2>2, <2>3, <2>4
<1> QED BY <1>1, <1>2

LEMMA AskElseKeeps ==
  ASSUME IndInv, NEW q \in Questions, AskLive(q) \/ AskPlain(q)
  PROVE  IndInv'
<1> USE DEF IndInv
<1>1. /\ pc[q] = "new" /\ Mode[q] # "turn" /\ late \subseteq late' /\ late' \subseteq late \cup {q}
      /\ UNCHANGED <<outcome, accepted, inbox, session, transport, resume, outbox, connected, renderer,
                     refused, missed, cleared, plan>>
      /\ Create(q) /\ Mode[q] # "live" /\ stopping = "released" => q \in late'
      /\ \/ Create(q) /\ pc' = [pc EXCEPT ![q] = "made"]
         \/ pc' = [pc EXCEPT ![q] = "turned_away"] /\ UNCHANGED registry
  BY DEF AskLive, AskPlain, link, history, bounds
<1>2. RegistryGood' /\ Grows
  BY <1>1, CreateKeeps, AskerKeeps, StillGrows
<1>3. LinkGood' /\ RendererGood' /\ ResumeGood'
  BY <1>1, <1>2, LinkRests, RendererRests, ResumeRests
<1>4. SessionTyped' /\ StopGood'
  <2>1. SessionTyped'
    BY <1>1 DEF SessionTyped, session
  <2>2. \A p \in Questions : status'[p] = "waiting" => status[p] = "waiting" \/ (p = q /\ Create(q))
    BY <1>1 DEF registry, Create, RegistryGood, RegistryTyped
  <2>3. StopGood'
    BY <1>1, <2>2 DEF StopGood, NoneAfterStop, session
  <2> QED BY <2>1, <2>3
<1> QED BY <1>2, <1>3, <1>4

LEMMA EmitKeeps ==
  ASSUME IndInv, NEW q \in Questions, Emit(q) \/ Resolve(q) \/ Wake(q)
  PROVE  IndInv'
<1> USE DEF IndInv
<1>1. /\ UNCHANGED <<registry, accepted, session, transport, resume, outbox, connected, renderer,
                     refused, missed, late, cleared, plan>>
      /\ \/ /\ pc[q] = "made" /\ pc' = [pc EXCEPT ![q] = "asked"] /\ outcome' = outcome
            /\ Send(Frame("request", q, stamp[q], {}))
         \/ /\ pc[q] = "woken" /\ pc' = [pc EXCEPT ![q] = "done"] /\ outcome' = outcome
            /\ Send(Frame("resolved", q, stamp[q], {}))
         \/ /\ pc[q] = "asked" /\ status[q] # "waiting" /\ inbox' = inbox
            /\ pc' = [pc EXCEPT ![q] = "woken"] /\ outcome' = [outcome EXCEPT ![q] = status[q]]
  BY DEF Emit, Resolve, Wake, link, history, bounds
<1>2. RegistryGood' /\ Grows
  BY <1>1, AskerKeeps, StillGrows
<1>3. q \in Born /\ stamp[q] \in 0 .. revision /\ revision \in Nat /\ GoodFrames \subseteq GoodFrames'
  BY <1>1, <1>2, FramesStayGood DEF RegistryGood, RegistryTyped, QuestionBook, Born
<1>4. \/ inbox' = inbox
      \/ \E f \in GoodFrames' : Send(f)
  BY <1>1, <1>3, FrameIsGood DEF FrameTypes
<1>5. LinkGood' /\ RendererGood' /\ ResumeGood'
  BY <1>1, <1>2, <1>4, LinkRests, RendererRests, ResumeRests
<1>6. SessionTyped' /\ StopGood'
  BY <1>1 DEF SessionTyped, StopGood, NoneAfterStop, session, registry
<1> QED BY <1>2, <1>5, <1>6

LEMMA ExpireKeeps ==
  ASSUME IndInv, NEW q \in Questions, Expire(q)
  PROVE  IndInv'
<1> USE DEF IndInv
<1>1. {q} \in SUBSET Waiting /\ Finish({q}, "expired")
      /\ UNCHANGED <<askers, session, transport, resume, inbox, outbox, connected, renderer, accepted,
                     refused, missed, late, cleared, plan>>
  BY DEF Expire, Waiting, link, history, bounds
<1>2. RegistryGood' /\ Grows /\ \A p \in Questions : status'[p] = "waiting" => status[p] = "waiting"
  BY <1>1, FinishKeeps
<1>3. LinkGood' /\ RendererGood' /\ ResumeGood'
  BY <1>1, <1>2, LinkRests, RendererRests, ResumeRests
<1>4. SessionTyped' /\ StopGood'
  BY <1>1, <1>2 DEF SessionTyped, StopGood, NoneAfterStop, session
<1> QED BY <1>2, <1>3, <1>4

\* An answer is acknowledged in the step that ends its question.
LEMMA RespondKeeps ==
  ASSUME IndInv, Respond
  PROVE  IndInv'
<1> USE DEF IndInv
<1> DEFINE q == Head(outbox).q
<1>1. outbox # <<>> /\ outbox' = Tail(outbox) /\ q \in Questions
  BY DEF Respond, LinkGood, GoodCalls, Calls
<1>2. /\ UNCHANGED <<askers, session, transport, resume, connected, renderer, refused, missed, late, cleared, plan>>
      /\ inbox' = Append(inbox, Frame("answered", q, 0, {}))
      /\ \/ status[q] = "waiting" /\ Finish({q}, "submitted") /\ accepted' = accepted \cup {q}
         \/ UNCHANGED <<registry, accepted>>
  BY DEF Respond, bounds
<1> HIDE DEF q
<1>3. RegistryGood' /\ Grows /\ \A p \in Questions : status'[p] = "waiting" => status[p] = "waiting"
  <2>1. CASE status[q] = "waiting" /\ Finish({q}, "submitted") /\ accepted' = accepted \cup {q}
    <3>1. {q} \in SUBSET Waiting
      BY <1>1, <2>1 DEF Waiting
    <3> QED BY <1>2, <2>1, <3>1, FinishKeeps
  <2>2. CASE UNCHANGED <<registry, accepted>>
    BY <1>2, <2>2, RegistryRests, StillGrows DEF registry
  <2> QED BY <1>2, <2>1, <2>2
<1>4. Frame("answered", q, 0, {}) \in GoodFrames'
  BY <1>1, <1>3 DEF Frame, GoodFrames, Frames, FrameTypes, Grows
<1>5. LinkGood' /\ RendererGood' /\ ResumeGood'
  BY <1>1, <1>2, <1>3, <1>4, LinkRests, RendererRests, ResumeRests
<1>6. SessionTyped' /\ StopGood'
  BY <1>2, <1>3 DEF SessionTyped, StopGood, NoneAfterStop, session
<1> QED BY <1>3, <1>5, <1>6

\* A Stop, a replaced turn or a close releases whatever waits.
LEMMA ReleaseKeeps ==
  ASSUME IndInv, StopRelease \/ Replace \/ CloseClear
  PROVE  IndInv'
<1> USE DEF IndInv
<1>1. /\ Waiting \in SUBSET Waiting /\ Finish(Waiting, "interrupted")
      /\ UNCHANGED <<askers, running, caller, transport, resume, inbox, outbox, connected, renderer, accepted,
                     refused, missed, late, cleared, plan>>
      /\ stopping' \in {"no", "latched", "released"} /\ life' \in {"live", "closing", "closed"}
      /\ (stopping # "no" => stopping' # "no")
      /\ cancelReq' = cancelReq \/ cancelReq' = TRUE
  BY DEF StopRelease, Replace, CloseClear, link, history, bounds, SessionTyped
<1>2. RegistryGood' /\ Grows /\ \A p \in Questions : status'[p] # "waiting"
  <2>1. RegistryGood' /\ Grows
        /\ \A p \in Questions : status'[p] = "waiting" => status[p] = "waiting" /\ p \notin Waiting
    BY <1>1, FinishKeeps
  <2> QED BY <2>1 DEF Waiting
<1>3. LinkGood' /\ RendererGood' /\ ResumeGood'
  BY <1>1, <1>2, LinkRests, RendererRests, ResumeRests
<1>4. SessionTyped'
  BY <1>1 DEF SessionTyped
<1>5. StopGood'
  BY <1>1, <1>2 DEF StopGood, NoneAfterStop
<1> QED BY <1>2, <1>3, <1>4, <1>5

\* session.interrupt answers.
LEMMA StopReplyKeeps ==
  ASSUME IndInv, StopReply
  PROVE  IndInv'
<1> USE DEF IndInv
<1>1. /\ UNCHANGED <<registry, askers, running, cancelReq, life, accepted, transport, resume, outbox, connected,
                     renderer, refused, missed, late, cleared, plan>>
      /\ stopping = "released" /\ stopping' = "no" /\ caller' = FALSE
      /\ inbox' = inbox \/ inbox' = Append(inbox, Frame("stopped", NoQuestion, 0, {}))
  BY DEF StopReply, history, bounds
<1>2. RegistryGood' /\ Grows
  BY <1>1, RegistryRests, StillGrows
<1>3. Frame("stopped", NoQuestion, 0, {}) \in GoodFrames'
  BY <1>2 DEF Frame, GoodFrames, Frames, FrameTypes, Grows
<1>4. LinkGood' /\ RendererGood' /\ ResumeGood'
  BY <1>1, <1>2, <1>3, LinkRests, RendererRests, ResumeRests
<1>5. SessionTyped'
  BY <1>1 DEF SessionTyped
<1>6. StopGood'
  BY <1>1 DEF StopGood, NoneAfterStop, registry
<1> QED BY <1>2, <1>4, <1>5, <1>6

\* Turns, the latch of a Stop, the mark of a close.
LEMMA SessionKeeps ==
  ASSUME IndInv, TurnStarts \/ TurnEnds \/ StopLatch \/ CloseMark
  PROVE  IndInv'
<1> USE DEF IndInv
<1>1. /\ UNCHANGED <<registry, askers, accepted, transport, resume, connected, renderer, refused, missed, late, cleared, plan>>
      /\ inbox' = inbox \/ Send(Frame("complete", NoQuestion, 0, {}))
      /\ outbox' = outbox \/ (outbox # <<>> /\ outbox' = Tail(outbox))
  BY DEF TurnStarts, TurnEnds, StopLatch, CloseMark, link, history, bounds
<1>2. RegistryGood' /\ Grows
  BY <1>1, RegistryRests, StillGrows
<1>3. Frame("complete", NoQuestion, 0, {}) \in GoodFrames'
  BY <1>2 DEF Frame, GoodFrames, Frames, FrameTypes, Grows
<1>4. LinkGood' /\ RendererGood' /\ ResumeGood'
  BY <1>1, <1>2, <1>3, LinkRests, RendererRests, ResumeRests
<1>5. SessionTyped'
  BY <1>1 DEF SessionTyped, TurnStarts, TurnEnds, StopLatch, CloseMark
<1>6. StopGood'
  <2> USE DEF StopGood, NoneAfterStop, registry
  <2>1. CASE TurnStarts
    BY <1>1, <2>1 DEF TurnStarts
  <2>2. CASE TurnEnds
    BY <1>1, <2>2 DEF TurnEnds
  <2>3. CASE StopLatch
    <3>1. stopping = "no" /\ stopping' # "released" /\ late' = late
      BY <1>1, <2>3 DEF StopLatch, history
    <3>2. CASE life = "live"
      <4>1. outbox # <<>> /\ cancelReq' = TRUE /\ stopping' = "latched" /\ caller' = TRUE
        BY <2>3, <3>2 DEF StopLatch
      <4> QED BY <3>1, <4>1
    <3>3. CASE life # "live"
      <4>1. UNCHANGED <<cancelReq, stopping, caller, status>>
        BY <1>1, <2>3, <3>3 DEF StopLatch
      <4> QED BY <3>1, <4>1
    <3> QED BY <3>2, <3>3
  <2>4. CASE CloseMark
    BY <1>1, <2>4 DEF CloseMark
  <2> QED BY <2>1, <2>2, <2>3, <2>4
<1> QED BY <1>2, <1>4, <1>5, <1>6

\* The connection is lost, and a new one resumes the session.
LEMMA DisconnectKeeps ==
  ASSUME IndInv, Disconnect
  PROVE  IndInv'
<1> USE DEF IndInv
<1>1. RegistryGood' /\ Grows
  BY RegistryRests, StillGrows DEF Disconnect, history
<1>2. RendererGood'
  BY <1>1, RendererRests DEF Disconnect
<1>3. ResumeGood'
  BY <1>1 DEF Disconnect, ResumeGood, NoResume, Grows
<1>4. LinkGood'
  <2> DEFINE T == GoodFrames'
  <2>1. <<>> \in Seq(T) /\ <<>> \in Seq(GoodCalls)
    OBVIOUS
  <2>2. inbox' \in Seq(GoodFrames') /\ outbox' \in Seq(GoodCalls)
    BY <2>1 DEF Disconnect
  <2>3. transport' = FALSE /\ connected' = FALSE
    BY DEF Disconnect
  <2> QED BY <2>2, <2>3 DEF LinkGood, GoodCalls, Calls
<1>5. SessionTyped' /\ StopGood'
  BY DEF Disconnect, SessionTyped, StopGood, NoneAfterStop, registry, session, history
<1> QED BY <1>1, <1>2, <1>3, <1>4, <1>5

LEMMA ResumeKeeps ==
  ASSUME IndInv, Reconnect \/ ResumeBind \/ ResumeSnapshot \/ ResumeReply
  PROVE  IndInv'
<1> USE DEF IndInv
<1>1. /\ UNCHANGED <<registry, askers, session, outbox, renderer, accepted, refused, missed, late, cleared, plan>>
      /\ RegistryGood' /\ Grows
  BY RegistryRests, StillGrows DEF Reconnect, ResumeBind, ResumeSnapshot, ResumeReply, history, bounds
<1>2. Waiting \subseteq Born
  BY DEF Waiting, Born, RegistryGood, QuestionBook
<1>3. ResumeGood'
  <2> USE DEF ResumeGood, registry, Born, NoResume
  <2>1. CASE Reconnect
    BY <1>1, <2>1 DEF Reconnect, Grows
  <2>2. CASE ResumeBind
    BY <1>1, <2>2 DEF ResumeBind
  <2>3. CASE ResumeSnapshot
    BY <1>1, <1>2, <2>3 DEF ResumeSnapshot, Grows
  <2>4. CASE ResumeReply
    BY <1>1, <2>4 DEF ResumeReply, Grows
  <2> QED BY <2>1, <2>2, <2>3, <2>4
<1>4. /\ \/ inbox' = inbox
         \/ \E f \in GoodFrames' : inbox' = Append(inbox, f)
      /\ transport' \in BOOLEAN /\ connected' \in BOOLEAN /\ (transport' => connected')
  <2> USE DEF ResumeGood, LinkGood
  <2>1. CASE Reconnect
    BY <2>1 DEF Reconnect
  <2>2. CASE ResumeBind
    BY <2>2 DEF ResumeBind
  <2>3. CASE ResumeSnapshot
    BY <2>3 DEF ResumeSnapshot
  <2>4. CASE ResumeReply
    <3>1. Frame("resumed", NoQuestion, resume.rev, resume.waiting) \in GoodFrames
      BY DEF Frame, GoodFrames, Frames, FrameTypes
    <3>2. Frame("resumed", NoQuestion, resume.rev, resume.waiting) \in GoodFrames'
      BY <1>1, <3>1, FramesStayGood
    <3> QED BY <2>4, <3>2 DEF ResumeReply
  <2> QED BY <2>1, <2>2, <2>3, <2>4
<1>5. LinkGood'
  <2> DEFINE T == GoodFrames'
  <2>1. inbox \in Seq(T)
    BY <1>1, InboxGrows
  <2> HIDE DEF T
  <2>2. \/ inbox' = inbox
        \/ \E f \in T : inbox' = Append(inbox, f)
    BY <1>4 DEF T
  <2>3. inbox' \in Seq(T)
    BY <2>1, <2>2, SeqSteps
  <2>4. inbox' \in Seq(GoodFrames')
    BY <2>3 DEF T
  <2> QED BY <1>1, <1>4, <2>4 DEF LinkGood, GoodCalls, Calls
<1>6. RendererGood' /\ SessionTyped'
  BY <1>1, RendererRests DEF SessionTyped, session
<1>7. StopGood'
  BY <1>1 DEF StopGood, NoneAfterStop, registry, session
<1> QED BY <1>1, <1>3, <1>5, <1>6, <1>7

\* The user answers or presses Stop.
LEMMA UserKeeps ==
  ASSUME IndInv, Stop \/ \E q \in Questions : Answer(q)
  PROVE  IndInv'
<1> USE DEF IndInv
<1>1. /\ UNCHANGED <<registry, askers, session, transport, resume, inbox, connected, renderer, accepted,
                     refused, missed, late, cleared, plan>>
      /\ \E c \in GoodCalls : outbox' = Append(outbox, c)
  BY DEF Stop, Answer, history, GoodCalls, Calls
<1>2. RegistryGood' /\ Grows
  BY <1>1, RegistryRests, StillGrows
<1>3. LinkGood' /\ RendererGood' /\ ResumeGood'
  BY <1>1, <1>2, LinkRests, RendererRests, ResumeRests
<1>4. SessionTyped' /\ StopGood'
  BY <1>1 DEF SessionTyped, StopGood, NoneAfterStop, registry, session
<1> QED BY <1>2, <1>3, <1>4

\* The renderer hears a frame.
LEMMA HearKeeps ==
  ASSUME IndInv, Hear
  PROVE  IndInv'
<1> USE DEF IndInv
<1> DEFINE f == Head(inbox)
<1>1. Heard /\ f \in GoodFrames
  BY DEF Hear, HearRequest, HearEnd, HearTurnEnd, HearResumed, Heard, LinkGood
<1>2. /\ UNCHANGED <<registry, askers, session, transport, resume, outbox, connected, accepted, plan>>
      /\ RegistryGood' /\ Grows
  BY RegistryRests, StillGrows DEF Hear, HearRequest, HearEnd, HearTurnEnd, HearResumed, history, bounds
<1>3. LinkGood' /\ ResumeGood'
  BY <1>1, <1>2, LinkRests, ResumeRests
<1>4. /\ seen' = seen \/ seen' = Newest(f.rev)
      /\ \/ shown' \subseteq shown
         \/ f.type = "request" /\ shown' = shown \cup {f.q}
         \/ shown' = f.waiting
      /\ refused' \subseteq refused \cup {f.q} /\ (refused' = refused \/ f.type = "request")
      /\ missed' = missed \/ missed' = missed \cup Unrepaired(f.waiting)
      /\ late' = late /\ (cleared' = cleared \/ cleared' = cleared \cup (shown \cap late))
  <2>1. CASE HearRequest
    BY <2>1 DEF HearRequest
  <2>2. CASE HearEnd
    BY <2>2 DEF HearEnd, history
  <2>3. CASE HearTurnEnd
    BY <2>3 DEF HearTurnEnd
  <2>4. CASE HearResumed
    BY <2>4 DEF HearResumed
  <2> QED BY <2>1, <2>2, <2>3, <2>4 DEF Hear
<1> HIDE DEF f
<1>5. RendererGood'
  BY <1>1, <1>2, <1>4 DEF RendererGood, GoodFrames, Frames, Newest, registry, Born, RegistryGood, RegistryTyped
<1>6. SessionTyped' /\ StopGood'
  <2>1. SessionTyped'
    BY <1>1, <1>2, <1>4 DEF SessionTyped, session, GoodFrames, Frames, Unrepaired, RendererGood, Born, Waiting
  <2>2. StopGood'
    BY <1>2, <1>4 DEF StopGood, NoneAfterStop, registry, session
  <2> QED BY <2>1, <2>2
<1> QED BY <1>2, <1>3, <1>5, <1>6

LEMMA StutterKeeps ==
  ASSUME IndInv, UNCHANGED vars
  PROVE  IndInv'
<1> USE DEF IndInv
<1>1. RegistryGood' /\ Grows
  BY RegistryRests, StillGrows DEF vars, history
<1>2. LinkGood' /\ RendererGood' /\ ResumeGood'
  BY <1>1, LinkRests, RendererRests, ResumeRests DEF vars, link
<1>3. SessionTyped' /\ StopGood'
  BY DEF vars, SessionTyped, StopGood, NoneAfterStop, registry, session, link, history, bounds
<1> QED BY <1>1, <1>2, <1>3

LEMMA StepKeeps == IndInv /\ [Next]_vars => IndInv'
<1> SUFFICES ASSUME IndInv, [Next]_vars
             PROVE  IndInv'
  OBVIOUS
<1>1. CASE \E q \in Questions : Asker(q)
  BY <1>1, AskTurnKeeps, AskElseKeeps, EmitKeeps, ExpireKeeps DEF Asker
<1>2. CASE Gateway
  BY <1>2, SessionKeeps, RespondKeeps, ReleaseKeeps, StopReplyKeeps, ResumeKeeps DEF Gateway
<1>3. CASE Hear
  BY <1>3, HearKeeps
<1>4. CASE Stop \/ \E q \in Questions : Answer(q)
  BY <1>4, UserKeeps
<1>5. CASE Disconnect
  BY <1>5, DisconnectKeeps
<1>6. CASE Reconnect
  BY <1>6, ResumeKeeps
<1>7. CASE UNCHANGED vars
  BY <1>7, StutterKeeps
<1> QED BY <1>1, <1>2, <1>3, <1>4, <1>5, <1>6, <1>7 DEF Next

-----------------------------------------------------------------------------
(* The prompts.                                                            *)

\* The question has ended.
Ended(q) == status[q] \notin {"absent", "waiting"}

\* The user has to answer it: background work does not hold up a turn.
Asks(q) == status[q] = "waiting" /\ Mode[q] # "live"

TurnEnd == {"complete", "stopped"}

\* The frames on their way to the renderer, the reply of session.resume among them once
\* its snapshot is taken.
Reply == IF resume.at = "taken" THEN {Frame("resumed", NoQuestion, resume.rev, resume.waiting)} ELSE {}
OnWay == ToSet(inbox) \cup Reply

\* The frame opens the prompt of q, or it closes it for good.
Opens(f, q) == (f.type = "request" /\ f.q = q) \/ (f.type = "resumed" /\ q \in f.waiting)
Closes(f, q) ==
  /\ f.rev >= stamp[q]
  /\ (f.type = "resolved" /\ f.q = q) \/ (f.type = "resumed" /\ q \notin f.waiting)

\* A frame tells of q what was true at its revision.
FrameBook(f, q) ==
  /\ Ended(q) /\ Opens(f, q) => f.rev <= stamp[q]
  /\ status[q] = "waiting" /\ Opens(f, q) => f.rev >= stamp[q]
  /\ status[q] = "waiting" /\ f.type = "resumed" /\ q \notin f.waiting => f.rev < stamp[q]
  /\ f.type \in {"resolved", "answered"} /\ f.q = q => Ended(q)

\* Nothing is sent to the renderer, or a snapshot has still to be taken for it.
CutOff == life # "live" \/ ~connected \/ resume.at \in {"asked", "bound"}

\* The renderer has heard that q is over, or will.
OverIsHeard(q) ==
  \/ pc[q] \in {"made", "asked", "woken"} \/ CutOff
  \/ \E f \in OnWay : Closes(f, q)
  \/ q \in missed
  \/ q \notin shown /\ seen >= stamp[q]

\* The renderer has heard that q waits, or will.
AskIsHeard(q) ==
  \/ pc[q] = "made" \/ CutOff
  \/ \E f \in OnWay : Opens(f, q)
  \/ q \in shown \cup refused \cup missed \cup cleared

\* The frame clears the prompt of q, unless q is one of the questions l.
Clears(f, q, l) == f.type = "complete" \/ (f.type = "stopped" /\ q \notin l)

\* No end of a turn follows a frame that opens q's prompt.
CalmAfter(s, q, l) == \A i, j \in DOMAIN s : i < j /\ Opens(s[i], q) => ~Clears(s[j], q, l)

NotCleared(q) ==
  (q \in shown => \A f \in ToSet(inbox) : ~Clears(f, q, late)) /\ CalmAfter(inbox, q, late)

PromptBook(q) ==
  /\ \A f \in OnWay : FrameBook(f, q)
  /\ q \in shown /\ status[q] = "waiting" => seen >= stamp[q]
  /\ Ended(q) => OverIsHeard(q)
  /\ Asks(q) => AskIsHeard(q) /\ NotCleared(q)

\* A live session that is not bound to the renderer's connection is being resumed,
\* without a connection nothing is on its way, and only a question can be answered.
LinkBook ==
  /\ connected /\ life = "live" /\ ~transport => resume.at = "asked"
  /\ ~connected => inbox = <<>> /\ outbox = <<>> /\ resume.at = "no" /\ ~caller
  /\ \A i \in DOMAIN outbox : outbox[i].type = "answer" => outbox[i].q \in Born

PromptBooks == LinkBook /\ \A q \in Questions : PromptBook(q)

-----------------------------------------------------------------------------
(* What a step does to the frames on their way.                            *)

LEMMA OneMore ==
  ASSUME NEW T, NEW s \in Seq(T), NEW f
  PROVE  ToSet(Append(s, f)) = ToSet(s) \cup {f}
<1> DEFINE u == Append(s, f)
<1>1. /\ DOMAIN s = 1 .. Len(s) /\ Len(s) \in Nat /\ DOMAIN u = 1 .. (Len(s) + 1)
      /\ (\A i \in 1 .. Len(s) : u[i] = s[i]) /\ u[Len(s) + 1] = f
  OBVIOUS
<1> HIDE DEF u
<1>2. DOMAIN u = DOMAIN s \cup {Len(s) + 1} /\ Len(s) + 1 \notin DOMAIN s
  BY <1>1
<1>3. ToSet(u) = ToSet(s) \cup {f}
  BY <1>1, <1>2 DEF ToSet
<1> QED BY <1>3 DEF u

LEMMA OneLess ==
  ASSUME NEW T, NEW s \in Seq(T), s # <<>>
  PROVE  ToSet(s) = ToSet(Tail(s)) \cup {Head(s)}
<1> DEFINE u == Tail(s)
<1>1. /\ DOMAIN s = 1 .. Len(s) /\ Len(s) \in Nat \ {0} /\ DOMAIN u = 1 .. (Len(s) - 1)
      /\ (\A i \in 1 .. (Len(s) - 1) : u[i] = s[i + 1]) /\ Head(s) = s[1]
  OBVIOUS
<1> HIDE DEF u
<1>2. \A i \in DOMAIN s : i = 1 \/ (i - 1 \in DOMAIN u /\ u[i - 1] = s[i])
  BY <1>1
<1>3. \A i \in DOMAIN u : i + 1 \in DOMAIN s /\ u[i] = s[i + 1]
  BY <1>1
<1>4. 1 \in DOMAIN s
  BY <1>1
<1>5. ToSet(s) = ToSet(u) \cup {Head(s)}
  BY <1>1, <1>2, <1>3, <1>4 DEF ToSet
<1> QED BY <1>5 DEF u

LEMMA CalmWithOneMore ==
  ASSUME NEW T, NEW s \in Seq(T), NEW f, NEW q, NEW l, CalmAfter(s, q, l), ~Clears(f, q, l)
  PROVE  CalmAfter(Append(s, f), q, l)
<1> DEFINE u == Append(s, f)
<1>1. /\ DOMAIN s = 1 .. Len(s) /\ Len(s) \in Nat /\ DOMAIN u = 1 .. (Len(s) + 1)
      /\ (\A i \in 1 .. Len(s) : u[i] = s[i]) /\ u[Len(s) + 1] = f
  OBVIOUS
<1> HIDE DEF u
<1> SUFFICES ASSUME NEW i \in DOMAIN u, NEW j \in DOMAIN u, i < j, Opens(u[i], q)
             PROVE  ~Clears(u[j], q, l)
  BY DEF CalmAfter, u
<1>2. CASE j = Len(s) + 1
  BY <1>1, <1>2
<1>3. CASE j # Len(s) + 1
  <2>1. i \in DOMAIN s /\ j \in DOMAIN s /\ u[i] = s[i] /\ u[j] = s[j]
    BY <1>1, <1>3
  <2> QED BY <2>1 DEF CalmAfter
<1> QED BY <1>2, <1>3

LEMMA CalmWithOneLess ==
  ASSUME NEW T, NEW s \in Seq(T), s # <<>>, NEW q, NEW l, CalmAfter(s, q, l)
  PROVE  /\ CalmAfter(Tail(s), q, l)
         /\ Opens(Head(s), q) => \A f \in ToSet(Tail(s)) : ~Clears(f, q, l)
<1> DEFINE u == Tail(s)
<1>1. /\ DOMAIN s = 1 .. Len(s) /\ Len(s) \in Nat \ {0} /\ DOMAIN u = 1 .. (Len(s) - 1)
      /\ (\A i \in 1 .. (Len(s) - 1) : u[i] = s[i + 1]) /\ Head(s) = s[1]
  OBVIOUS
<1> HIDE DEF u
<1>2. \A i \in DOMAIN u : i \in Nat /\ i + 1 \in DOMAIN s /\ 1 < i + 1 /\ u[i] = s[i + 1]
  BY <1>1
<1>3. CalmAfter(u, q, l)
  <2> SUFFICES ASSUME NEW i \in DOMAIN u, NEW j \in DOMAIN u, i < j, Opens(u[i], q)
               PROVE  ~Clears(u[j], q, l)
    BY DEF CalmAfter
  <2>1. i + 1 \in DOMAIN s /\ j + 1 \in DOMAIN s /\ i + 1 < j + 1 /\ u[i] = s[i + 1] /\ u[j] = s[j + 1]
    BY <1>2
  <2> QED BY <2>1 DEF CalmAfter
<1>4. ASSUME Opens(Head(s), q), NEW i \in DOMAIN u
      PROVE  ~Clears(u[i], q, l)
  <2>1. 1 \in DOMAIN s /\ i + 1 \in DOMAIN s /\ 1 < i + 1 /\ u[i] = s[i + 1] /\ Opens(s[1], q)
    BY <1>1, <1>2, <1>4
  <2> QED BY <2>1 DEF CalmAfter
<1> QED BY <1>3, <1>4 DEF u, ToSet

LEMMA CalmWithMore ==
  ASSUME NEW s, NEW q, NEW l, NEW k, l \subseteq k, CalmAfter(s, q, l)
  PROVE  CalmAfter(s, q, k)
BY DEF CalmAfter, Clears

LEMMA ClearsLess ==
  ASSUME NEW f, NEW q, NEW l
  PROVE  /\ f.type \notin TurnEnd => ~Clears(f, q, l)
         /\ \A k : l \subseteq k /\ ~Clears(f, q, l) => ~Clears(f, q, k)
BY DEF Clears, TurnEnd

\* What is on its way, the revision of each frame, and whom it can tell of.
LEMMA OnWayIsGood ==
  ASSUME IndInv
  PROVE  OnWay \subseteq GoodFrames
<1>1. ToSet(inbox) \subseteq GoodFrames
  BY DEF IndInv, LinkGood, ToSet
<1>2. Reply \subseteq GoodFrames
  BY DEF IndInv, ResumeGood, Reply, Frame, GoodFrames, Frames, FrameTypes
<1> QED BY <1>1, <1>2 DEF OnWay

\* What a step may do to the row of q: it is left alone, ends, or is created.
RowStays(q) == status'[q] = status[q] /\ stamp'[q] = stamp[q]
RowEnds(q) ==
  status[q] = "waiting" /\ status'[q] \in {"submitted", "expired", "interrupted"} /\ stamp'[q] >= revision
RowMade(q) == status[q] = "absent" /\ status'[q] = "waiting" /\ stamp'[q] = revision + 1

LEMMA FrameBookStays ==
  ASSUME IndInv, IndInv', NEW q \in Questions, NEW f \in GoodFrames, FrameBook(f, q),
         RowStays(q) \/ RowEnds(q) \/ RowMade(q)
  PROVE  FrameBook(f, q)'
<1>1. f.rev \in Nat /\ f.rev <= revision /\ revision \in Nat /\ stamp[q] \in Nat /\ stamp'[q] \in Nat
  BY DEF GoodFrames, Frames, IndInv, RegistryGood, RegistryTyped
<1>2. CASE RowStays(q)
  BY <1>2 DEF RowStays, FrameBook, Ended, Opens
<1>3. CASE RowEnds(q)
  BY <1>1, <1>3 DEF RowEnds, FrameBook, Ended, Opens
<1>4. CASE RowMade(q)
  <2>1. q \notin Born
    BY <1>4 DEF RowMade, Born, IndInv, RegistryGood, QuestionBook
  <2>2. ~Opens(f, q)
    BY <2>1 DEF Opens, GoodFrames
  <2> QED BY <1>1, <1>4, <2>2 DEF RowMade, FrameBook, Ended, Opens
<1> QED BY <1>2, <1>3, <1>4

\* A step of the gateway may send one more frame.
Sends(f) == inbox' = Append(inbox, f)

LEMMA SentIsOnWay ==
  ASSUME IndInv, NEW f, Sends(f), resume' = resume
  PROVE  OnWay' = OnWay \cup {f} /\ ToSet(inbox)' = ToSet(inbox) \cup {f}
<1>1. ToSet(inbox') = ToSet(inbox) \cup {f}
  BY OneMore DEF IndInv, LinkGood, Sends
<1> QED BY <1>1 DEF OnWay, Reply

LEMMA OnWayStays ==
  ASSUME inbox' = inbox, resume' = resume
  PROVE  OnWay' = OnWay /\ ToSet(inbox)' = ToSet(inbox)
BY DEF OnWay, Reply, ToSet

\* The renderer rests, and so do the connection and session.resume.
RendererIdle ==
  /\ UNCHANGED <<shown, seen, refused, missed, cleared, resume, connected>>
  /\ late \subseteq late' /\ (life' = life \/ life' # "live")

\* Of a question the step leaves alone.
LEMMA PromptOfRow ==
  ASSUME IndInv, IndInv', NEW q \in Questions, PromptBook(q), RendererIdle, RowStays(q),
         \/ inbox' = inbox
         \/ \E f : Sends(f) /\ FrameBook(f, q)' /\ (Asks(q) => ~Clears(f, q, late)),
         \/ pc'[q] = pc[q]
         \/ pc'[q] \in {"made", "asked", "woken"} /\ pc[q] # "made"
         \/ CutOff'
         \/ Ended(q) /\ \E f : Sends(f) /\ Closes(f, q)
         \/ ~Ended(q) /\ \E f : Sends(f) /\ Opens(f, q)
         \/ ~Ended(q) /\ ~Asks(q)
         \/ Ended(q) /\ pc'[q] \in {"made", "asked", "woken"}
  PROVE  PromptBook(q)'
<1>1. OnWay \subseteq OnWay' /\ \A f : Sends(f) => f \in OnWay'
  BY SentIsOnWay, OnWayStays DEF RendererIdle
<1>2. \A f \in OnWay' : FrameBook(f, q)'
  <2>1. \A f \in OnWay : FrameBook(f, q)'
    BY FrameBookStays, OnWayIsGood DEF PromptBook
  <2> QED BY <2>1, SentIsOnWay, OnWayStays DEF RendererIdle
<1>3. (q \in shown /\ status[q] = "waiting" => seen >= stamp[q])'
  BY DEF PromptBook, RowStays, RendererIdle
<1>4. CutOff => CutOff'
  BY DEF CutOff, RendererIdle
<1>5. (Ended(q) => OverIsHeard(q))'
  BY <1>1, <1>4 DEF PromptBook, OverIsHeard, Ended, Closes, RowStays, RendererIdle
<1>6. (Asks(q) => AskIsHeard(q))'
  BY <1>1, <1>4 DEF PromptBook, AskIsHeard, Asks, Ended, Opens, RowStays, RendererIdle
<1>7. ASSUME Asks(q)'
      PROVE  NotCleared(q)'
  <2>1. Asks(q) /\ NotCleared(q)
    BY <1>7 DEF Asks, RowStays, PromptBook
  <2>2. CASE inbox' = inbox
    BY <2>1, <2>2, CalmWithMore, ClearsLess, OnWayStays DEF NotCleared, RendererIdle
  <2>3. ASSUME NEW f, Sends(f), ~Clears(f, q, late)
        PROVE  NotCleared(q)'
    <3>1. CalmAfter(inbox', q, late)
      BY <2>1, <2>3, CalmWithOneMore DEF NotCleared, Sends, IndInv, LinkGood
    <3>2. ToSet(inbox)' = ToSet(inbox) \cup {f}
      BY <2>3, SentIsOnWay DEF RendererIdle
    <3> QED BY <2>1, <2>3, <3>1, <3>2, CalmWithMore, ClearsLess DEF NotCleared, RendererIdle
  <2> QED BY <2>1, <2>2, <2>3
<1> QED BY <1>2, <1>3, <1>5, <1>6, <1>7 DEF PromptBook

\* Of a question that ends: its asker has still to say so.
LEMMA PromptOfEnd ==
  ASSUME IndInv, IndInv', NEW q \in Questions, PromptBook(q), RendererIdle, RowEnds(q), pc' = pc,
         inbox' = inbox \/ \E f : Sends(f) /\ FrameBook(f, q)'
  PROVE  PromptBook(q)'
<1>1. \A f \in OnWay' : FrameBook(f, q)'
  <2>1. \A f \in OnWay : FrameBook(f, q)'
    BY FrameBookStays, OnWayIsGood DEF PromptBook
  <2> QED BY <2>1, SentIsOnWay, OnWayStays DEF RendererIdle
<1>2. pc[q] \in {"made", "asked"}
  BY DEF IndInv, RegistryGood, RegistryTyped, QuestionBook, Places, RowEnds
<1> QED BY <1>1, <1>2 DEF PromptBook, OverIsHeard, Ended, Asks, RowEnds

\* Of a question that is created: no frame tells of it yet but its own request.
LEMMA PromptOfMade ==
  ASSUME IndInv, IndInv', NEW q \in Questions, PromptBook(q), RendererIdle, RowMade(q),
         \/ inbox' = inbox /\ (pc'[q] = "made" \/ CutOff')
         \/ Sends(Frame("request", q, revision + 1, {}))
  PROVE  PromptBook(q)'
<1>0. PICK f : f = Frame("request", q, revision + 1, {})
  OBVIOUS
<1>1. q \notin Born /\ revision \in Nat
  BY DEF RowMade, Born, IndInv, RegistryGood, RegistryTyped, QuestionBook
<1>2. q \notin shown /\ \A g \in OnWay : ~Opens(g, q)
  BY <1>1, OnWayIsGood DEF Opens, GoodFrames, IndInv, RendererGood
<1>3. FrameBook(f, q)' /\ Opens(f, q)' /\ f.type \notin TurnEnd
  <2>1. f.type = "request" /\ f.q = q /\ f.rev = revision + 1
    BY <1>0 DEF Frame
  <2> QED BY <1>1, <2>1 DEF FrameBook, Opens, Ended, RowMade, TurnEnd
<1>4. inbox' = inbox \/ Sends(f)
  BY <1>0
<1>5. \A g \in OnWay' : FrameBook(g, q)'
  <2>1. \A g \in OnWay : FrameBook(g, q)'
    BY FrameBookStays, OnWayIsGood DEF PromptBook
  <2> QED BY <1>3, <1>4, <2>1, SentIsOnWay, OnWayStays DEF RendererIdle
<1>6. AskIsHeard(q)'
  <2>1. CASE Sends(f)
    <3>1. f \in OnWay'
      BY <2>1, SentIsOnWay DEF RendererIdle
    <3> QED BY <1>3, <3>1 DEF AskIsHeard
  <2> QED BY <1>0, <2>1 DEF AskIsHeard
<1>7. CalmAfter(inbox, q, late)'
  <2>1. CalmAfter(inbox, q, late)
    <3>1. \A i \in DOMAIN inbox : inbox[i] \in OnWay
      BY DEF OnWay, ToSet
    <3> QED BY <1>2, <3>1 DEF CalmAfter
  <2>2. inbox \in Seq(GoodFrames)
    BY DEF IndInv, LinkGood
  <2>3. CASE inbox' = inbox
    BY <2>1, <2>3, CalmWithMore DEF RendererIdle
  <2>4. CASE Sends(f)
    <3>1. CalmAfter(inbox', q, late)
      BY <1>3, <2>1, <2>2, <2>4, CalmWithOneMore, ClearsLess DEF Sends
    <3> QED BY <3>1, CalmWithMore DEF RendererIdle
  <2> QED BY <1>4, <2>3, <2>4
<1>8. q \notin shown'
  BY <1>2 DEF RendererIdle
<1> QED BY <1>5, <1>6, <1>7, <1>8 DEF PromptBook, NotCleared, RowMade, Ended

-----------------------------------------------------------------------------
(* One lemma per group of actions, for the prompts.                        *)

LEMMA FinishRows ==
  ASSUME IndInv, NEW qs \in SUBSET Waiting, NEW st \in {"submitted", "expired", "interrupted"},
         Finish(qs, st), NEW q \in Questions
  PROVE  (q \in qs => RowEnds(q)) /\ (q \notin qs => RowStays(q))
<1>1. CASE q \in qs
  <2> DEFINE n == Cardinality({r \in qs : stamp[r] <= stamp[q]})
  <2>1. n \in Nat /\ revision \in Nat
    BY CountIsBounded DEF Waiting, IndInv, RegistryGood, RegistryTyped
  <2>2. status'[q] = st /\ stamp'[q] = revision + n /\ status[q] = "waiting"
    BY <1>1 DEF Finish, Waiting
  <2> HIDE DEF n
  <2> QED BY <1>1, <2>1, <2>2 DEF RowEnds
<1>2. CASE q \notin qs
  BY <1>2 DEF Finish, RowStays
<1> QED BY <1>1, <1>2

LEMMA CreateRows ==
  ASSUME IndInv, NEW q \in Questions, pc[q] = "new", Create(q), NEW p \in Questions
  PROVE  (p = q => RowMade(p)) /\ (p # q => RowStays(p))
BY DEF Create, RowMade, RowStays, IndInv, RegistryGood, RegistryTyped, QuestionBook

\* Questions end.
LEMMA PromptsOfFinish ==
  ASSUME IndInv, IndInv', NEW q \in Questions, PromptBook(q), RendererIdle, pc' = pc,
         NEW qs \in SUBSET Waiting, NEW st \in {"submitted", "expired", "interrupted"}, Finish(qs, st),
         \/ inbox' = inbox
         \/ \E f : Sends(f) /\ FrameBook(f, q)' /\ (Asks(q) /\ q \notin qs => ~Clears(f, q, late))
  PROVE  PromptBook(q)'
<1>1. (q \in qs => RowEnds(q)) /\ (q \notin qs => RowStays(q))
  BY FinishRows
<1>2. CASE q \in qs
  BY <1>1, <1>2, PromptOfEnd
<1>3. CASE q \notin qs
  BY <1>1, <1>3, PromptOfRow
<1> QED BY <1>2, <1>3

\* A frame about another question, or about a turn, says nothing of q.
LEMMA OtherFrame ==
  ASSUME NEW q \in Questions, NEW f, f.type # "resumed", f.q # q
  PROVE  FrameBook(f, q)'
BY DEF FrameBook, Opens

LEMMA AboutTurn ==
  ASSUME NEW q \in Questions, NEW type \in {"complete", "stopped"}
  PROVE  FrameBook(Frame(type, NoQuestion, 0, {}), q)'
<1>1. PICK f : f = Frame(type, NoQuestion, 0, {})
  OBVIOUS
<1>2. FrameBook(f, q)'
  BY <1>1 DEF FrameBook, Opens, Frame
<1> QED BY <1>1, <1>2

\* What is not sent is not sent because the link is cut off.
LEMMA SentOrCutOff ==
  ASSUME LinkBook, NEW f, Send(f)
  PROVE  Sends(f) \/ (CutOff /\ inbox' = inbox)
BY DEF LinkBook, Send, Sends, CutOff

LEMMA AskTurnPrompts ==
  ASSUME IndInv, IndInv', LinkBook, NEW q \in Questions, PromptBook(q), NEW r \in Questions, AskTurn(r)
  PROVE  PromptBook(q)'
<1>1. RendererIdle /\ pc[r] = "new"
  BY DEF AskTurn, RendererIdle, session, renderer, history
<1>2. CASE TurnLive
  <2>1. PICK f : f = Frame("request", r, revision + 1, {})
    OBVIOUS
  <2>2. Create(r) /\ pc' = [pc EXCEPT ![r] = "asked"] /\ Send(f) /\ f.type = "request" /\ f.q = r
    BY <1>2, <2>1 DEF AskTurn, Frame
  <2>3. Sends(f) \/ (CutOff' /\ inbox' = inbox)
    BY <1>1, <2>2, SentOrCutOff DEF CutOff, RendererIdle
  <2>4. (q = r => RowMade(q)) /\ (q # r => RowStays(q))
    BY <1>1, <2>2, CreateRows
  <2>5. CASE q = r
    BY <1>1, <2>1, <2>3, <2>4, <2>5, PromptOfMade
  <2>6. CASE q # r
    <3>1. FrameBook(f, q)' /\ f.type \notin TurnEnd /\ pc'[q] = pc[q]
      BY <2>2, <2>6, OtherFrame DEF TurnEnd, IndInv, RegistryGood, RegistryTyped
    <3> QED BY <1>1, <2>3, <2>4, <2>6, <3>1, ClearsLess, PromptOfRow
  <2> QED BY <2>5, <2>6
<1>3. CASE ~TurnLive
  <2>1. RowStays(q) /\ inbox' = inbox /\ (pc'[q] = pc[q] \/ status[q] = "absent")
    BY <1>1, <1>3 DEF AskTurn, RowStays, registry, IndInv, RegistryGood, RegistryTyped, QuestionBook
  <2> QED BY <1>1, <2>1, PromptOfRow DEF Ended, Asks
<1> QED BY <1>2, <1>3

LEMMA AskElsePrompts ==
  ASSUME IndInv, IndInv', NEW q \in Questions, PromptBook(q), NEW r \in Questions, AskLive(r) \/ AskPlain(r)
  PROVE  PromptBook(q)'
<1>1. /\ RendererIdle /\ pc[r] = "new" /\ inbox' = inbox
      /\ \/ Create(r) /\ pc' = [pc EXCEPT ![r] = "made"]
         \/ pc' = [pc EXCEPT ![r] = "turned_away"] /\ UNCHANGED registry
  BY DEF AskLive, AskPlain, RendererIdle, session, renderer, history, link
<1>2. CASE Create(r) /\ pc' = [pc EXCEPT ![r] = "made"]
  <2>1. (q = r => RowMade(q)) /\ (q # r => RowStays(q))
    BY <1>1, <1>2, CreateRows
  <2>2. (q = r => pc'[q] = "made") /\ (q # r => pc'[q] = pc[q])
    BY <1>2 DEF IndInv, RegistryGood, RegistryTyped
  <2> QED BY <1>1, <2>1, <2>2, PromptOfMade, PromptOfRow
<1>3. CASE pc' = [pc EXCEPT ![r] = "turned_away"] /\ UNCHANGED registry
  <2>1. RowStays(q) /\ (pc'[q] = pc[q] \/ status[q] = "absent")
    BY <1>1, <1>3 DEF RowStays, registry, IndInv, RegistryGood, RegistryTyped, QuestionBook
  <2> QED BY <1>1, <2>1, PromptOfRow DEF Ended, Asks
<1> QED BY <1>1, <1>2, <1>3

\* The request and the resolution carry the revision of the question.
LEMMA TellPrompts ==
  ASSUME IndInv, IndInv', LinkBook, NEW q \in Questions, PromptBook(q), NEW r \in Questions,
         Emit(r) \/ Resolve(r)
  PROVE  PromptBook(q)'
<1>1. PICK f : f = Frame(IF pc[r] = "made" THEN "request" ELSE "resolved", r, stamp[r], {})
  OBVIOUS
<1>2. /\ RendererIdle /\ RowStays(q) /\ Send(f)
      /\ pc[r] \in {"made", "woken"} /\ (q # r => pc'[q] = pc[q])
      /\ pc'[r] = IF pc[r] = "made" THEN "asked" ELSE "done"
  BY <1>1 DEF Emit, Resolve, RendererIdle, RowStays, registry, session, renderer, history, IndInv,
    RegistryGood, RegistryTyped
<1>3. /\ f.type = IF pc[r] = "made" THEN "request" ELSE "resolved"
      /\ f.q = r /\ f.rev = stamp[r] /\ f.type \notin TurnEnd
  BY <1>1 DEF Frame, TurnEnd
<1>4. Sends(f) \/ (CutOff' /\ inbox' = inbox)
  BY <1>2, SentOrCutOff DEF CutOff, RendererIdle
<1>5. CASE q # r
  <2>1. FrameBook(f, q)'
    BY <1>3, <1>5, OtherFrame
  <2> QED BY <1>2, <1>3, <1>4, <1>5, <2>1, ClearsLess, PromptOfRow
<1>6. CASE q = r
  <2>1. stamp[q] \in Nat /\ stamp'[q] = stamp[q] /\ status'[q] = status[q]
    BY <1>2 DEF IndInv, RegistryGood, RegistryTyped, RowStays
  <2>2. CASE pc[q] = "made"
    <3>1. f.type = "request" /\ Opens(f, q) /\ pc'[q] = "asked"
      BY <1>2, <1>3, <1>6, <2>2 DEF Opens
    <3>2. FrameBook(f, q)'
      BY <1>3, <1>6, <2>1, <3>1 DEF FrameBook
    <3> QED BY <1>2, <1>3, <1>4, <3>1, <3>2, ClearsLess, PromptOfRow
  <2>3. CASE pc[q] = "woken"
    <3>1. f.type = "resolved" /\ Ended(q) /\ Ended(q)'
      BY <1>2, <1>3, <1>6, <2>1, <2>3 DEF Ended, IndInv, RegistryGood, QuestionBook
    <3>2. Closes(f, q) /\ FrameBook(f, q)'
      BY <1>3, <1>6, <2>1, <3>1 DEF Closes, FrameBook, Opens
    <3> QED BY <1>2, <1>3, <1>4, <3>1, <3>2, ClearsLess, PromptOfRow
  <2> QED BY <1>2, <1>6, <2>2, <2>3
<1> QED BY <1>5, <1>6

LEMMA WakePrompts ==
  ASSUME IndInv, IndInv', NEW q \in Questions, PromptBook(q), NEW r \in Questions, Wake(r)
  PROVE  PromptBook(q)'
<1>1. /\ RendererIdle /\ RowStays(q) /\ inbox' = inbox
      /\ pc'[q] = pc[q] \/ (pc[q] = "asked" /\ pc'[q] = "woken")
  BY DEF Wake, RendererIdle, RowStays, registry, session, renderer, history, link, IndInv,
    RegistryGood, RegistryTyped
<1> QED BY <1>1, PromptOfRow

LEMMA ExpirePrompts ==
  ASSUME IndInv, IndInv', NEW q \in Questions, PromptBook(q), NEW r \in Questions, Expire(r)
  PROVE  PromptBook(q)'
<1>1. /\ RendererIdle /\ pc' = pc /\ inbox' = inbox
      /\ {r} \in SUBSET Waiting /\ Finish({r}, "expired")
  BY DEF Expire, RendererIdle, session, renderer, history, link, askers, Waiting
<1> QED BY <1>1, PromptsOfFinish

\* The acknowledgement of an answer is a frame of a question that has ended.
LEMMA RespondPrompts ==
  ASSUME IndInv, IndInv', LinkBook, NEW q \in Questions, PromptBook(q), Respond
  PROVE  PromptBook(q)'
<1>1. PICK r : r = Head(outbox).q
  OBVIOUS
<1>2. PICK f : f = Frame("answered", r, 0, {})
  OBVIOUS
<1>3. /\ RendererIdle /\ pc' = pc /\ Sends(f)
      /\ \/ status[r] = "waiting" /\ Finish({r}, "submitted")
         \/ status[r] # "waiting" /\ UNCHANGED registry
  BY <1>1, <1>2 DEF Respond, RendererIdle, session, renderer, askers, Sends
<1>4. r \in Questions /\ r \in Born
  <2>1. outbox \in Seq(GoodCalls) /\ outbox # <<>> /\ Head(outbox).type = "answer"
    BY DEF Respond, IndInv, LinkGood
  <2>2. Head(outbox) = outbox[1] /\ 1 \in DOMAIN outbox
    BY <2>1
  <2> QED BY <1>1, <2>1, <2>2 DEF LinkBook, Born
<1>5. f.type = "answered" /\ f.q = r /\ f.type \notin TurnEnd
  BY <1>2 DEF Frame, TurnEnd
<1>6. status[r] # "absent"
  BY <1>4 DEF Born, IndInv, RegistryGood, QuestionBook
<1>7. CASE status[r] = "waiting" /\ Finish({r}, "submitted")
  <2>1. {r} \in SUBSET Waiting
    BY <1>4, <1>7 DEF Waiting
  <2>2. RowEnds(r)
    BY <1>4, <1>7, <2>1, FinishRows
  <2>3. FrameBook(f, q)'
    BY <1>5, <2>2 DEF FrameBook, Opens, Ended, RowEnds
  <2> QED BY <1>3, <1>5, <1>7, <2>1, <2>3, ClearsLess, PromptsOfFinish
<1>8. CASE status[r] # "waiting" /\ UNCHANGED registry
  <2>1. RowStays(q) /\ RowStays(r)
    BY <1>8 DEF RowStays, registry
  <2>2. FrameBook(f, q)'
    BY <1>5, <1>6, <1>8, <2>1 DEF FrameBook, Opens, Ended, RowStays
  <2> QED BY <1>3, <1>5, <2>1, <2>2, ClearsLess, PromptOfRow
<1> QED BY <1>3, <1>7, <1>8

LEMMA ReleasePrompts ==
  ASSUME IndInv, IndInv', NEW q \in Questions, PromptBook(q), StopRelease \/ Replace \/ CloseClear
  PROVE  PromptBook(q)'
<1>1. /\ RendererIdle /\ pc' = pc /\ inbox' = inbox
      /\ Waiting \in SUBSET Waiting /\ Finish(Waiting, "interrupted")
  BY DEF StopRelease, Replace, CloseClear, RendererIdle, renderer, history, link, askers
<1> QED BY <1>1, PromptsOfFinish

\* The reply to a Stop clears no prompt that waits, but of what was asked since its release.
LEMMA StopReplyPrompts ==
  ASSUME IndInv, IndInv', NEW q \in Questions, PromptBook(q), StopReply
  PROVE  PromptBook(q)'
<1>1. PICK f : f = Frame("stopped", NoQuestion, 0, {})
  OBVIOUS
<1>2. RendererIdle /\ pc' = pc /\ RowStays(q) /\ (inbox' = inbox \/ (Sends(f) /\ caller))
  BY <1>1 DEF StopReply, RendererIdle, RowStays, registry, renderer, history, askers, Sends
<1>3. FrameBook(f, q)'
  BY <1>1, AboutTurn
<1>4. f.type = "stopped" /\ (caller /\ Asks(q) => q \in late)
  BY <1>1 DEF Frame, Asks, IndInv, StopGood, StopReply
<1>5. caller /\ Asks(q) => ~Clears(f, q, late)
  BY <1>4 DEF Clears
<1> QED BY <1>2, <1>3, <1>5, PromptOfRow

\* A turn ends when nobody waits for the user in it.
LEMMA TurnEndsPrompts ==
  ASSUME IndInv, IndInv', LinkBook, NEW q \in Questions, PromptBook(q), TurnEnds
  PROVE  PromptBook(q)'
<1>1. PICK f : f = Frame("complete", NoQuestion, 0, {})
  OBVIOUS
<1>2. RendererIdle /\ pc' = pc /\ RowStays(q) /\ (inbox' = inbox \/ Sends(f))
  BY <1>1 DEF TurnEnds, RendererIdle, RowStays, registry, renderer, history, askers, Sends, Send
<1>3. FrameBook(f, q)'
  BY <1>1, AboutTurn
<1>4. ~Asks(q)
  BY DEF TurnEnds, Asks, Open, IndInv, RegistryGood, RegistryTyped, QuestionBook, Places
<1> QED BY <1>2, <1>3, <1>4, PromptOfRow

LEMMA OthersPrompts ==
  ASSUME IndInv, IndInv', NEW q \in Questions, PromptBook(q),
         \/ TurnStarts \/ StopLatch \/ CloseMark \/ Stop
         \/ \E r \in Questions : Answer(r)
  PROVE  PromptBook(q)'
<1>1. RendererIdle /\ pc' = pc /\ RowStays(q) /\ inbox' = inbox
  BY DEF TurnStarts, StopLatch, CloseMark, Stop, Answer, RendererIdle, RowStays, registry, renderer,
    history, askers, session, link
<1> QED BY <1>1, PromptOfRow

\* The renderer rests while its connection goes and comes.
LEMMA LinkPrompts ==
  ASSUME IndInv, IndInv', LinkBook, NEW q \in Questions, PromptBook(q),
         Disconnect \/ Reconnect \/ ResumeBind \/ ResumeSnapshot \/ ResumeReply
  PROVE  PromptBook(q)'
<1>1. /\ status' = status /\ stamp' = stamp /\ pc' = pc /\ revision' = revision /\ life' = life
      /\ shown' = shown /\ seen' = seen /\ refused' = refused /\ missed' = missed
      /\ late' = late /\ cleared' = cleared
  BY DEF Disconnect, Reconnect, ResumeBind, ResumeSnapshot, ResumeReply, registry, askers, session,
    renderer, history
<1>2. RowStays(q)
  BY <1>1 DEF RowStays
<1>3. \A f \in OnWay : FrameBook(f, q)'
  BY <1>2, FrameBookStays, OnWayIsGood DEF PromptBook
<1>4. CASE Disconnect
  <2>1. inbox' = <<>> /\ resume'.at = "no" /\ connected' = FALSE
    BY <1>4 DEF Disconnect, NoResume
  <2>2. OnWay' = {} /\ ToSet(inbox)' = {} /\ CutOff'
    BY <2>1 DEF OnWay, Reply, ToSet, CutOff
  <2>3. CalmAfter(inbox, q, late)'
    BY <2>1 DEF CalmAfter
  <2> QED BY <1>1, <2>2, <2>3 DEF PromptBook, NotCleared, OverIsHeard, AskIsHeard
<1>5. CASE Reconnect \/ ResumeBind
  <2>1. inbox' = inbox /\ resume'.at \in {"asked", "bound"} /\ resume.at # "taken"
    BY <1>5 DEF Reconnect, ResumeBind, LinkBook, NoResume, IndInv, ResumeGood
  <2>2. OnWay' \subseteq OnWay /\ ToSet(inbox)' = ToSet(inbox) /\ CutOff'
    BY <2>1 DEF OnWay, Reply, ToSet, CutOff
  <2>3. CalmAfter(inbox, q, late) => CalmAfter(inbox, q, late)'
    BY <1>1, <2>1
  <2> QED BY <1>1, <1>3, <2>2, <2>3 DEF PromptBook, NotCleared, OverIsHeard, AskIsHeard, Asks, Ended
<1>6. CASE ResumeSnapshot
  <2>1. PICK f : f = Frame("resumed", NoQuestion, revision, Waiting)
    OBVIOUS
  <2>2. f.type = "resumed" /\ f.rev = revision /\ f.waiting = Waiting
    BY <2>1 DEF Frame
  <2>3. /\ inbox' = inbox /\ resume.at = "bound" /\ resume'.at = "taken"
        /\ Frame("resumed", NoQuestion, resume'.rev, resume'.waiting) = f
    BY <1>6, <2>1 DEF ResumeSnapshot
  <2>4. OnWay' = OnWay \cup {f} /\ ToSet(inbox)' = ToSet(inbox)
    BY <2>3 DEF OnWay, Reply, ToSet
  <2>5. stamp[q] \in Nat /\ revision \in Nat /\ stamp[q] <= revision
    BY DEF IndInv, RegistryGood, RegistryTyped
  <2>6. FrameBook(f, q)' /\ (Ended(q) => Closes(f, q)') /\ (Asks(q) => Opens(f, q))
    BY <1>1, <2>2, <2>5 DEF FrameBook, Closes, Opens, Ended, Asks, Waiting
  <2>7. CalmAfter(inbox, q, late) => CalmAfter(inbox, q, late)'
    BY <1>1, <2>3
  <2>8. f \in OnWay' /\ \A g \in OnWay' : FrameBook(g, q)'
    BY <1>3, <2>4, <2>6
  <2>9. (Ended(q) => OverIsHeard(q))' /\ (Asks(q) => AskIsHeard(q))'
    BY <1>1, <2>6, <2>8 DEF OverIsHeard, AskIsHeard, Ended, Asks, Opens
  <2> QED BY <1>1, <2>4, <2>7, <2>8, <2>9 DEF PromptBook, NotCleared, Asks
<1>7. CASE ResumeReply
  <2>1. PICK f : f = Frame("resumed", NoQuestion, resume.rev, resume.waiting)
    OBVIOUS
  <2>2. resume.at = "taken" /\ resume'.at = "no" /\ Sends(f) /\ f.type \notin TurnEnd /\ connected' = connected
    BY <1>7, <2>1 DEF ResumeReply, NoResume, Sends, Frame, TurnEnd
  <2>3. inbox \in Seq(GoodFrames)
    BY DEF IndInv, LinkGood
  <2>4. ToSet(inbox') = ToSet(inbox) \cup {f}
    BY <2>2, <2>3, OneMore DEF Sends
  <2>5. OnWay' = OnWay /\ ToSet(inbox)' = ToSet(inbox) \cup {f}
    BY <2>1, <2>2, <2>4 DEF OnWay, Reply
  <2>6. CalmAfter(inbox, q, late) => CalmAfter(inbox, q, late)'
    BY <1>1, <2>2, <2>3, CalmWithOneMore, ClearsLess DEF Sends
  <2>7. CutOff' = CutOff
    BY <1>1, <2>2 DEF CutOff
  <2>8. (Ended(q) => OverIsHeard(q))' /\ (Asks(q) => AskIsHeard(q))'
    BY <1>1, <2>5, <2>7 DEF PromptBook, OverIsHeard, AskIsHeard, Ended, Asks, Opens, Closes
  <2>9. ~Clears(f, q, late) /\ (Asks(q)' => NotCleared(q))
    BY <1>1, <2>2, ClearsLess DEF PromptBook, Asks
  <2>10. (Asks(q) => NotCleared(q))'
    BY <1>1, <2>5, <2>6, <2>9 DEF NotCleared, Asks
  <2> QED BY <1>1, <1>3, <2>5, <2>8, <2>10 DEF PromptBook
<1> QED BY <1>4, <1>5, <1>6, <1>7

\* The first frame reaches the renderer.
LEMMA HeardFrames ==
  ASSUME IndInv, Heard, resume' = resume, late' = late, NEW f, f = Head(inbox), NEW q
  PROVE  /\ OnWay = OnWay' \cup {f} /\ f \in GoodFrames /\ f \in ToSet(inbox)
         /\ ToSet(inbox)' \subseteq ToSet(inbox)
         /\ CalmAfter(inbox, q, late) => CalmAfter(inbox, q, late)'
         /\ CalmAfter(inbox, q, late) /\ Opens(f, q) => \A g \in ToSet(inbox)' : ~Clears(g, q, late)
<1>1. inbox \in Seq(GoodFrames) /\ inbox # <<>> /\ inbox' = Tail(inbox)
  BY DEF IndInv, LinkGood, Heard
<1>2. ToSet(inbox) = ToSet(inbox') \cup {f}
  BY <1>1, OneLess
<1>3. OnWay = OnWay' \cup {f}
  BY <1>2 DEF OnWay, Reply
<1>4. /\ CalmAfter(inbox, q, late) => CalmAfter(inbox, q, late)'
      /\ CalmAfter(inbox, q, late) /\ Opens(f, q) => \A g \in ToSet(inbox)' : ~Clears(g, q, late)
  BY <1>1, CalmWithOneLess
<1> QED BY <1>1, <1>2, <1>3, <1>4

LEMMA HearPrompts ==
  ASSUME IndInv, IndInv', NEW q \in Questions, PromptBook(q), Hear
  PROVE  PromptBook(q)'
<1>1. PICK f : f = Head(inbox)
  OBVIOUS
<1>2. /\ Heard /\ status' = status /\ stamp' = stamp /\ pc' = pc /\ life' = life
      /\ resume' = resume /\ connected' = connected /\ late' = late
  BY DEF Hear, HearRequest, HearEnd, HearTurnEnd, HearResumed, registry, askers, session, history
<1>3. /\ OnWay = OnWay' \cup {f} /\ f \in GoodFrames /\ f \in ToSet(inbox)
      /\ ToSet(inbox)' \subseteq ToSet(inbox)
      /\ CalmAfter(inbox, q, late) => CalmAfter(inbox, q, late)'
      /\ CalmAfter(inbox, q, late) /\ Opens(f, q) => \A g \in ToSet(inbox)' : ~Clears(g, q, late)
  BY <1>1, <1>2, HeardFrames
<1>4. FrameBook(f, q) /\ \A g \in OnWay' : FrameBook(g, q)'
  BY <1>2, <1>3 DEF PromptBook, FrameBook, Ended, Opens
<1>5. /\ f.rev \in Nat /\ seen \in Nat /\ stamp[q] \in Nat /\ seen' \in Nat
      /\ missed \subseteq Questions /\ shown \subseteq Questions
  BY <1>3 DEF GoodFrames, Frames, IndInv, RendererGood, RegistryGood, RegistryTyped, SessionTyped, Born
<1>6. CutOff' = CutOff
  BY <1>2 DEF CutOff
\* What the frame does to the prompt of q.
<1>7. /\ seen' >= seen /\ missed \subseteq missed' /\ refused \subseteq refused'
      /\ cleared \subseteq cleared'
      /\ f.type \notin TurnEnd => seen' >= f.rev
  <2>1. Newest(f.rev) >= seen /\ Newest(f.rev) >= f.rev
    BY <1>5 DEF Newest
  <2>2. CASE HearRequest
    BY <1>1, <1>5, <2>1, <2>2 DEF HearRequest
  <2>3. CASE HearEnd
    BY <1>1, <1>5, <2>1, <2>3 DEF HearEnd, history
  <2>4. CASE HearTurnEnd
    BY <1>1, <1>5, <2>1, <2>4 DEF HearTurnEnd, history, TurnEnd
  <2>5. CASE HearResumed
    BY <1>1, <1>5, <2>1, <2>5 DEF HearResumed
  <2> QED BY <2>2, <2>3, <2>4, <2>5 DEF Hear
<1>8. q \in shown' /\ q \notin shown => Opens(f, q) /\ f.rev > seen
  <2>1. CASE HearRequest
    BY <1>1, <2>1 DEF HearRequest, Opens
  <2>2. CASE HearEnd
    BY <1>1, <2>2 DEF HearEnd
  <2>3. CASE HearTurnEnd
    BY <1>1, <2>3 DEF HearTurnEnd
  <2>4. CASE HearResumed
    BY <1>1, <2>4 DEF HearResumed, Opens
  <2> QED BY <2>1, <2>2, <2>3, <2>4 DEF Hear
<1>9. (q \in shown /\ status[q] = "waiting" => seen >= stamp[q])'
  <2> SUFFICES ASSUME q \in shown', status[q] = "waiting"
               PROVE  seen' >= stamp[q]
    BY <1>2
  <2>1. CASE q \in shown
    BY <1>5, <1>7, <2>1 DEF PromptBook
  <2>2. CASE q \notin shown
    <3>1. Opens(f, q) /\ f.rev >= stamp[q]
      BY <1>4, <1>8, <2>2 DEF FrameBook
    <3>2. f.type \notin TurnEnd
      BY <3>1 DEF Opens, TurnEnd
    <3> QED BY <1>5, <1>7, <3>1, <3>2
  <2> QED BY <2>1, <2>2
<1>10. ASSUME Ended(q)
       PROVE  OverIsHeard(q)'
  <2>1. OverIsHeard(q)
    BY <1>10 DEF PromptBook
  <2>2. CASE q \notin shown /\ seen >= stamp[q]
    <3>1. q \notin shown'
      BY <1>4, <1>5, <1>8, <1>10, <2>2 DEF FrameBook
    <3> QED BY <1>2, <1>5, <1>7, <2>2, <3>1 DEF OverIsHeard
  <2>3. CASE Closes(f, q)
    <3>1. seen' >= stamp[q]
      BY <1>5, <1>7, <2>3 DEF Closes, TurnEnd
    <3>2. q \notin shown' \/ q \in missed'
      <4>1. CASE f.type = "resolved"
        BY <1>1, <2>3, <4>1 DEF Closes, Hear, HearRequest, HearEnd, HearTurnEnd, HearResumed
      <4>2. CASE f.type = "resumed"
        <5>1. HearResumed /\ q \notin f.waiting /\ q \notin Waiting
          BY <1>1, <1>10, <2>3, <4>2 DEF Closes, Hear, HearRequest, HearEnd, HearTurnEnd, Ended, Waiting
        <5> QED BY <1>1, <5>1 DEF HearResumed, Unrepaired
      <4> QED BY <2>3, <4>1, <4>2 DEF Closes
    <3> QED BY <1>2, <3>1, <3>2 DEF OverIsHeard
  <2>4. CASE \E g \in OnWay' : Closes(g, q)
    BY <1>2, <2>4 DEF OverIsHeard, Closes
  <2> QED BY <1>2, <1>3, <1>6, <1>7, <2>1, <2>2, <2>3, <2>4 DEF OverIsHeard
<1>11. ASSUME Asks(q)
       PROVE  AskIsHeard(q)' /\ NotCleared(q)'
  <2>1. AskIsHeard(q) /\ NotCleared(q) /\ status[q] = "waiting"
    BY <1>11 DEF PromptBook, Asks
  <2>2. q \in shown' => \A g \in ToSet(inbox)' : ~Clears(g, q, late)
    BY <1>3, <1>8, <2>1 DEF NotCleared
  <2>3. q \in shown => q \in shown' \cup cleared'
    <3> SUFFICES ASSUME q \in shown
                 PROVE  q \in shown' \cup cleared'
      OBVIOUS
    <3>1. ~Clears(f, q, late) /\ seen >= stamp[q]
      BY <1>3, <2>1 DEF NotCleared, PromptBook
    <3>2. CASE f.type \in TurnEnd
      <4>1. HearTurnEnd /\ f.type = "stopped" /\ q \in late
        BY <1>1, <3>1, <3>2 DEF Clears, TurnEnd, Hear, HearRequest, HearEnd, HearResumed
      <4> QED BY <1>1, <4>1 DEF HearTurnEnd
    <3>3. CASE f.type \notin TurnEnd
      <4>1. ~(f.type \in {"resolved", "answered"} /\ f.q = q)
        BY <1>4, <2>1 DEF FrameBook, Ended
      <4>2. f.type = "resumed" /\ q \notin f.waiting => ~(f.rev > seen)
        BY <1>4, <1>5, <2>1, <3>1 DEF FrameBook
      <4> QED BY <1>1, <3>3, <4>1, <4>2 DEF Hear, HearRequest, HearEnd, HearTurnEnd, HearResumed, TurnEnd
    <3> QED BY <3>2, <3>3
  <2>4. Opens(f, q) => q \in shown' \cup refused' \cup missed'
    <3>1. CASE f.type = "request" /\ f.q = q
      BY <1>1, <3>1 DEF Hear, HearRequest, HearEnd, HearTurnEnd, HearResumed
    <3>2. CASE f.type = "resumed" /\ q \in f.waiting
      <4>1. HearResumed /\ q \in Waiting
        BY <1>1, <2>1, <3>2 DEF Hear, HearRequest, HearEnd, HearTurnEnd, Waiting
      <4> QED BY <1>1, <3>2, <4>1 DEF HearResumed, Unrepaired
    <3> QED BY <3>1, <3>2 DEF Opens
  <2>5. AskIsHeard(q)'
    <3>1. CASE pc[q] = "made" \/ CutOff
      BY <1>2, <1>6, <3>1 DEF AskIsHeard
    <3>2. ASSUME NEW g \in OnWay, Opens(g, q)
          PROVE  AskIsHeard(q)'
      BY <1>3, <2>4, <3>2 DEF AskIsHeard, Opens
    <3>3. CASE q \in shown \cup refused \cup missed \cup cleared
      BY <1>7, <2>3, <3>3 DEF AskIsHeard
    <3> QED BY <2>1, <3>1, <3>2, <3>3 DEF AskIsHeard
  <2> QED BY <1>2, <1>3, <2>1, <2>2, <2>5 DEF NotCleared
<1>12. (Ended(q)' <=> Ended(q)) /\ (Asks(q)' <=> Asks(q))
  BY <1>2 DEF Ended, Asks
<1> QED BY <1>4, <1>9, <1>10, <1>11, <1>12 DEF PromptBook

LEMMA RowOfStep ==
  ASSUME IndInv, NEW q \in Questions, Next
  PROVE  RowStays(q) \/ RowEnds(q) \/ RowMade(q)
<1>1. UNCHANGED registry => RowStays(q)
  BY DEF registry, RowStays
<1>2. ASSUME NEW r \in Questions, Asker(r)
      PROVE  RowStays(q) \/ RowEnds(q) \/ RowMade(q)
  <2>1. CASE UNCHANGED registry
    BY <1>1, <2>1
  <2>2. CASE pc[r] = "new" /\ Create(r)
    BY <2>2, CreateRows
  <2>3. CASE Expire(r)
    <3>1. {r} \in SUBSET Waiting /\ Finish({r}, "expired")
      BY <2>3 DEF Expire, Waiting
    <3> QED BY <3>1, FinishRows
  <2> QED BY <1>2, <2>1, <2>2, <2>3 DEF Asker, AskTurn, AskLive, AskPlain, Emit, Wake, Resolve
<1>3. CASE Respond
  <2> DEFINE r == Head(outbox).q
  <2>1. r \in Questions
    BY <1>3 DEF Respond, IndInv, LinkGood, GoodCalls, Calls
  <2>2. (status[r] = "waiting" /\ Finish({r}, "submitted")) \/ UNCHANGED registry
    BY <1>3 DEF Respond, registry
  <2> HIDE DEF r
  <2>3. CASE status[r] = "waiting" /\ Finish({r}, "submitted")
    <3>1. {r} \in SUBSET Waiting
      BY <2>1, <2>3 DEF Waiting
    <3> QED BY <2>3, <3>1, FinishRows
  <2> QED BY <1>1, <2>2, <2>3
<1>4. CASE StopRelease \/ Replace \/ CloseClear
  <2>1. Waiting \in SUBSET Waiting /\ Finish(Waiting, "interrupted")
    BY <1>4 DEF StopRelease, Replace, CloseClear
  <2> QED BY <2>1, FinishRows
<1>5. CASE \/ TurnStarts \/ TurnEnds \/ StopLatch \/ StopReply \/ CloseMark \/ ResumeBind \/ ResumeSnapshot \/ ResumeReply
           \/ Hear \/ Stop \/ Disconnect \/ Reconnect
           \/ \E r \in Questions : Answer(r)
  BY <1>1, <1>5 DEF TurnStarts, TurnEnds, StopLatch, StopReply, CloseMark, ResumeBind, ResumeSnapshot, ResumeReply,
    Hear, HearRequest, HearEnd, HearTurnEnd, HearResumed, Stop, Disconnect, Reconnect, Answer
<1> QED BY <1>2, <1>3, <1>4, <1>5 DEF Next, Gateway

LEMMA NobodyForgotten ==
  ASSUME IndInv, IndInv', Next
  PROVE  Born \subseteq Born'
<1> SUFFICES ASSUME NEW q \in Born
             PROVE  q \in Born'
  OBVIOUS
<1>1. q \in Questions /\ stamp[q] > 0
  BY DEF Born
<1>2. status'[q] = "waiting" \/ Ended(q)' \/ stamp'[q] = stamp[q]
  BY <1>1, RowOfStep DEF RowStays, RowEnds, RowMade, Ended
<1>3. (status[q] # "absent" => stamp[q] > 0)'
  BY <1>1 DEF IndInv, RegistryGood, QuestionBook
<1> QED BY <1>1, <1>2, <1>3 DEF Born, Ended

LEMMA CallsKept ==
  ASSUME NEW s \in Seq(GoodCalls), NEW B, \A i \in DOMAIN s : s[i].type = "answer" => s[i].q \in B,
         NEW u,
         \/ u = s
         \/ s # <<>> /\ u = Tail(s)
         \/ \E c : u = Append(s, c) /\ (c.type = "answer" => c.q \in B)
         \/ u = <<>>
  PROVE  \A i \in DOMAIN u : u[i].type = "answer" => u[i].q \in B
<1>1. CASE u = s \/ u = <<>>
  BY <1>1
<1>2. CASE s # <<>> /\ u = Tail(s)
  <2>1. \A i \in DOMAIN u : i + 1 \in DOMAIN s /\ u[i] = s[i + 1]
    BY <1>2
  <2> QED BY <2>1
<1>3. ASSUME NEW c, u = Append(s, c), c.type = "answer" => c.q \in B
      PROVE  \A i \in DOMAIN u : u[i].type = "answer" => u[i].q \in B
  <2>1. \A i \in DOMAIN u : (i \in DOMAIN s /\ u[i] = s[i]) \/ u[i] = c
    BY <1>3
  <2> QED BY <1>3, <2>1
<1> QED BY <1>1, <1>2, <1>3

LEMMA LinkBookKept ==
  ASSUME IndInv, IndInv', LinkBook, Next
  PROVE  LinkBook'
<1> USE DEF IndInv
<1>1. Born \subseteq Born' /\ (transport => connected) /\ outbox \in Seq(GoodCalls) /\ shown \subseteq Born
  BY NobodyForgotten DEF LinkGood, RendererGood
<1>2. \/ outbox' = outbox
      \/ outbox # <<>> /\ outbox' = Tail(outbox)
      \/ connected /\ \E c : outbox' = Append(outbox, c) /\ (c.type = "answer" => c.q \in Born)
      \/ outbox' = <<>>
  <2>1. CASE \E q \in Questions : Asker(q)
    BY <2>1 DEF Asker, AskTurn, AskLive, AskPlain, Emit, Expire, Wake, Resolve, link
  <2>2. CASE Gateway
    BY <2>2 DEF Gateway, TurnStarts, TurnEnds, Respond, StopLatch, StopRelease, StopReply, Replace, CloseMark,
      CloseClear, ResumeBind, ResumeSnapshot, ResumeReply, link
  <2>3. CASE Hear
    BY <2>3 DEF Hear, HearRequest, HearEnd, HearTurnEnd, HearResumed
  <2>4. CASE Stop
    <3>1. PICK c : c = [type |-> "stop", q |-> NoQuestion]
      OBVIOUS
    <3>2. connected /\ outbox' = Append(outbox, c) /\ c.type # "answer"
      BY <2>4, <3>1 DEF Stop
    <3> QED BY <3>2
  <2>5. ASSUME NEW q \in Questions, Answer(q)
        PROVE  connected /\ \E c : outbox' = Append(outbox, c) /\ (c.type = "answer" => c.q \in Born)
    <3>1. PICK c : c = [type |-> "answer", q |-> q]
      OBVIOUS
    <3>2. connected /\ outbox' = Append(outbox, c) /\ c.q \in Born
      BY <1>1, <2>5, <3>1 DEF Answer
    <3> QED BY <3>2
  <2>6. CASE Disconnect \/ Reconnect
    BY <2>6 DEF Disconnect, Reconnect
  <2> QED BY <2>1, <2>2, <2>3, <2>4, <2>5, <2>6 DEF Next
<1>3. \A i \in DOMAIN outbox' : outbox'[i].type = "answer" => outbox'[i].q \in Born'
  <2>1. \A i \in DOMAIN outbox : outbox[i].type = "answer" => outbox[i].q \in Born
    BY DEF LinkBook
  <2>2. \A i \in DOMAIN outbox' : outbox'[i].type = "answer" => outbox'[i].q \in Born
    BY <1>1, <1>2, <2>1, CallsKept
  <2> QED BY <1>1, <2>2
<1>4. CASE Disconnect
  <2>1. connected' = FALSE /\ inbox' = <<>> /\ outbox' = <<>> /\ resume'.at = "no" /\ caller' = FALSE
    BY <1>4 DEF Disconnect, NoResume
  <2> QED BY <1>3, <2>1 DEF LinkBook
<1>5. CASE Reconnect \/ ResumeBind
  <2>1. connected' /\ (transport' \/ resume'.at = "asked")
    BY <1>5 DEF Reconnect, ResumeBind, NoResume, ResumeGood
  <2> QED BY <1>3, <2>1 DEF LinkBook
<1>6. CASE ResumeSnapshot \/ ResumeReply
  <2>1. connected' /\ resume.at # "asked" /\ UNCHANGED <<connected, transport, life>>
    BY <1>6 DEF ResumeSnapshot, ResumeReply, ResumeGood, session
  <2> QED BY <1>3, <2>1 DEF LinkBook
<1>7. CASE ~(Disconnect \/ Reconnect \/ ResumeBind \/ ResumeSnapshot \/ ResumeReply)
  <2>1. UNCHANGED <<connected, transport, resume>> /\ (life' = "live" => life = "live")
    <3>1. CASE \E q \in Questions : Asker(q)
      BY <3>1 DEF Asker, AskTurn, AskLive, AskPlain, Emit, Expire, Wake, Resolve, link, session
    <3>2. CASE Gateway
      BY <1>7, <3>2 DEF Gateway, TurnStarts, TurnEnds, Respond, StopLatch, StopRelease, StopReply, Replace, CloseMark,
      CloseClear, link, session
    <3>3. CASE Hear
      BY <3>3 DEF Hear, HearRequest, HearEnd, HearTurnEnd, HearResumed, session
    <3>4. CASE Stop \/ \E q \in Questions : Answer(q)
      BY <3>4 DEF Stop, Answer, session
    <3> QED BY <1>7, <3>1, <3>2, <3>3, <3>4 DEF Next
  <2>2. (inbox' = inbox /\ (caller' => caller)) \/ connected \/ inbox # <<>> \/ outbox # <<>> \/ caller
    <3>1. CASE \E q \in Questions : Asker(q)
      BY <1>1, <3>1 DEF Asker, AskTurn, AskLive, AskPlain, Emit, Expire, Wake, Resolve, link, session, Send
    <3>2. CASE Gateway
      <4>1. CASE StopLatch \/ Respond
        BY <4>1 DEF StopLatch, Respond
      <4>2. CASE StopReply
        BY <4>2 DEF StopReply
      <4>3. CASE TurnEnds
        BY <1>1, <4>3 DEF TurnEnds, Send
      <4>4. CASE TurnStarts \/ StopRelease \/ Replace \/ CloseMark \/ CloseClear
        BY <4>4 DEF TurnStarts, StopRelease, Replace, CloseMark, CloseClear, link
      <4> QED BY <1>7, <3>2, <4>1, <4>2, <4>3, <4>4 DEF Gateway
    <3>3. CASE Hear
      BY <3>3 DEF Hear, HearRequest, HearEnd, HearTurnEnd, HearResumed, Heard
    <3>4. CASE Stop \/ \E q \in Questions : Answer(q)
      BY <3>4 DEF Stop, Answer, session
    <3> QED BY <1>7, <3>1, <3>2, <3>3, <3>4 DEF Next
  <2> QED BY <1>2, <1>3, <2>1, <2>2 DEF LinkBook
<1> QED BY <1>4, <1>5, <1>6, <1>7

LEMMA PromptsInit == Init => PromptBooks
<1> SUFFICES ASSUME Init
             PROVE  PromptBooks
  OBVIOUS
<1>1. LinkBook
  BY DEF Init, LinkBook, NoResume
<1>2. OnWay = {}
  BY DEF Init, OnWay, Reply, NoResume, ToSet
<1> QED BY <1>1, <1>2 DEF Init, PromptBooks, PromptBook, Ended, Asks

LEMMA PromptsStep ==
  ASSUME IndInv, IndInv', PromptBooks, [Next]_vars
  PROVE  PromptBooks'
<1>1. LinkBook /\ \A q \in Questions : PromptBook(q)
  BY DEF PromptBooks
<1>2. CASE Next
  <2>1. LinkBook'
    BY <1>1, <1>2, LinkBookKept
  <2>2. ASSUME NEW q \in Questions
        PROVE  PromptBook(q)'
    <3>1. PromptBook(q)
      BY <1>1
    <3>2. ASSUME NEW r \in Questions, Asker(r)
          PROVE  PromptBook(q)'
      BY <1>1, <3>1, <3>2, AskTurnPrompts, AskElsePrompts, TellPrompts, WakePrompts, ExpirePrompts DEF Asker
    <3>3. CASE Gateway
      BY <1>1, <3>1, <3>3, RespondPrompts, ReleasePrompts, StopReplyPrompts, TurnEndsPrompts, OthersPrompts, LinkPrompts
        DEF Gateway
    <3>4. CASE Hear
      BY <3>1, <3>4, HearPrompts
    <3>5. CASE Stop \/ \E r \in Questions : Answer(r)
      BY <3>1, <3>5, OthersPrompts
    <3>6. CASE Disconnect \/ Reconnect
      BY <1>1, <3>1, <3>6, LinkPrompts
    <3> QED BY <1>2, <3>2, <3>3, <3>4, <3>5, <3>6 DEF Next
  <2> QED BY <2>1, <2>2 DEF PromptBooks
<1>3. CASE UNCHANGED vars
  <2>1. /\ UNCHANGED <<status, stamp, pc, life, caller, transport, resume, inbox, outbox, connected, shown, seen,
                       refused, missed, late, cleared>>
    BY <1>3 DEF vars, registry, askers, session, link, renderer, history
  <2>2. LinkBook'
    BY <1>1, <2>1 DEF LinkBook, Born
  <2>3. \A q \in Questions : PromptBook(q)'
    BY <1>1, <2>1 DEF PromptBook, OnWay, Reply, ToSet, FrameBook, Ended, Asks, Opens, OverIsHeard, AskIsHeard,
      NotCleared, CalmAfter, Clears, CutOff, Closes
  <2> QED BY <2>2, <2>3 DEF PromptBooks
<1> QED BY <1>2, <1>3

-----------------------------------------------------------------------------
(* The theorems.                                                           *)

\* Registry, renderer and link keep their books in every reachable state.
THEOREM PendingInvariance == Spec => []IndInv
BY InitGood, StepKeeps, PTL DEF Spec

\* Every reachable state is well typed; nothing the renderer has heard is ahead of the
\* registry, and what it shows was once created there.
THEOREM PendingTypeCorrect == Spec => []PendingTypeOK
<1>1. IndInv => PendingTypeOK
  BY DEF IndInv, PendingTypeOK, RegistryGood, RegistryTyped, RendererGood, ResumeGood, LinkGood,
    SessionTyped, StopGood, Statuses, Places, Outcomes, Born
<1> QED BY <1>1, PendingInvariance, PTL

\* An answer, a deadline, a Stop and a close race for a question; the thread that asked gets
\* the answer exactly if its sender was told that it was accepted (_respond, _block).
THEOREM AnswersCount == Spec => []AcceptedAnswerCounts
<1>1. IndInv => AcceptedAnswerCounts
  BY DEF IndInv, RegistryGood, QuestionBook, AcceptedAnswerCounts
<1> QED BY <1>1, PendingInvariance, PTL

\* After session.interrupt, or a prompt that replaces the turn, has released the questions
\* of a turn none of its browser's waits until a prompt of the user takes the latch back,
\* although its tools go on asking and turns of other origin start.
THEOREM StopIsFinal == Spec => []NoneAfterStop
<1>1. IndInv => NoneAfterStop
  BY DEF IndInv, StopGood
<1> QED BY <1>1, PendingInvariance, PTL

\* The frames on their way to the renderer keep their books too: what each tells of a
\* question was true at its revision, and whatever the renderer shows wrong is put right by
\* one of them, by a frame still to be sent, or was left by a snapshot or a request that
\* was overtaken, or by the reply to a Stop that met a question younger than its release.
THEOREM PromptInvariance == Spec => [](IndInv /\ PromptBooks)
<1>1. IndInv /\ PromptBooks /\ [Next]_vars => (IndInv /\ PromptBooks)'
  BY StepKeeps, PromptsStep
<1> QED BY <1>1, InitGood, PromptsInit, PTL DEF Spec

\* When nothing is on its way any more nobody is shown a prompt that is over, and nobody
\* waits for an answer the user cannot give, through any number of lost connections,
\* reconnects, late replies and Stops, whose release of the waits and reply are two steps
\* with the tools still running in between.  Excepted are overtaken requests and
\* snapshots, and a question asked between the release of a Stop and its reply, if the
\* reply cleared its prompt: all of them are shown by the counterexamples the runs made by
\* hand find (store/prompts.ts, pending-interactions.ts, use-prompt-actions.ts).
THEOREM PromptsAreRight == Spec => []PromptsMatch
<1>1. IndInv /\ PromptBooks => PromptsMatch
  <2> SUFFICES ASSUME IndInv, PromptBooks, Settled
               PROVE  /\ shown \subseteq Waiting \cup missed
                      /\ {q \in Waiting : Mode[q] # "live"} \subseteq shown \cup refused \cup missed \cup cleared
    BY DEF PromptsMatch
  <2>1. OnWay = {} /\ ~CutOff
    BY DEF Settled, OnWay, Reply, ToSet, CutOff
  <2>2. ASSUME NEW q \in shown
        PROVE  q \in Waiting \cup missed
    <3>1. q \in Questions /\ stamp[q] > 0
      BY DEF IndInv, RendererGood, Born
    <3>2. status[q] # "absent"
      BY <3>1 DEF IndInv, RegistryGood, QuestionBook
    <3>3. CASE Ended(q)
      <4>1. OverIsHeard(q)
        BY <3>1, <3>3 DEF PromptBooks, PromptBook
      <4>2. pc[q] \notin {"made", "asked", "woken"}
        BY <3>1, <3>3 DEF Settled, Open, Ended
      <4> QED BY <2>1, <2>2, <4>1, <4>2 DEF OverIsHeard
    <3> QED BY <3>1, <3>2, <3>3 DEF Ended, Waiting
  <2>3. ASSUME NEW q \in Waiting, Mode[q] # "live"
        PROVE  q \in shown \cup refused \cup missed \cup cleared
    <3>1. q \in Questions /\ Asks(q)
      BY <2>3 DEF Waiting, Asks
    <3>2. AskIsHeard(q)
      BY <3>1 DEF PromptBooks, PromptBook
    <3>3. pc[q] # "made"
      BY <3>1 DEF Settled, Open
    <3> QED BY <2>1, <3>2, <3>3 DEF AskIsHeard
  <2> QED BY <2>2, <2>3
<1> QED BY <1>1, PromptInvariance, PTL
=============================================================================
