-------------------------- MODULE GatewayLink_proofs --------------------------
(***************************************************************************)
(* The safety of the gateway link, proved for any number of requests,      *)
(* sockets, calls, faults and wake signals.                                *)
(*                                                                         *)
(* The argument has two books that do not depend on each other.  In        *)
(* SocketBook the one attempt that is pending, the current socket and the  *)
(* state tell one story, so that an event of any other socket finds        *)
(* nothing to change.  In CallBook an id is used once, so that whatever    *)
(* frame carries it belongs to the request that waits under it.            *)
(***************************************************************************)
EXTENDS GatewayLink, TLAPS

ReadyStates == {"none", "connecting", "open", "closing", "closed"}
ClientStates == {"idle", "connecting", "open", "closed", "error"}
Frames == [id : Ids, of : Requests, on : Sockets, reply : BOOLEAN]

SocketsTyped ==
  /\ ready \in [Sockets -> ReadyStates]
  /\ current \in 0 .. MaxSockets /\ cancelConnect \in 0 .. MaxSockets
  /\ state \in ClientStates
  /\ attempt \in [Sockets -> {"none", "pending", "resolved", "rejected"}]

CallsTyped ==
  /\ nextId \in 0 .. MaxIds
  /\ pending \in [Ids -> Requests \cup {NoRequest}]
  /\ result \in [Requests -> {"none", "waiting", "answer", "closed", "unsent", "late"}]
  /\ got \in [Requests -> Requests \cup {NoRequest}]
  /\ wire \subseteq Frames

\* Somebody waits for socket k: everything is about k.
PendingAttempt(k) ==
  current = k /\ cancelConnect = k /\ ready[k] = "connecting" /\ state = "connecting"

SocketBook ==
  /\ \A k \in Sockets : attempt[k] = "pending" => PendingAttempt(k)
  /\ state = "connecting" => current # 0 /\ attempt[current] = "pending"
  /\ state = "open" <=> current # 0 /\ ready[current] \in {"open", "closing"}
  /\ current # 0 => ready[current] \in {"connecting", "open", "closing"}
  /\ current # 0 /\ ready[current] = "connecting" => attempt[current] = "pending"

CallBook ==
  /\ \A i \in Ids : pending[i] # NoRequest => i <= nextId /\ result[pending[i]] = "waiting"
  /\ \A i, j \in Ids : pending[i] # NoRequest /\ pending[i] = pending[j] => i = j
  /\ \A f \in wire : f.id <= nextId /\ (pending[f.id] # NoRequest => pending[f.id] = f.of)
  /\ AnswersAreOwn

\* No request starts to wait.
NoneStartsToWait == \A r \in Requests : result'[r] = "waiting" => result[r] = "waiting"

SocketsGood == SocketsTyped /\ SocketBook
CallsGood == CallsTyped /\ CallBook

-----------------------------------------------------------------------------
(* The operations of the client.                                           *)

LEMMA NothingCalled ==
  ASSUME CallsGood, UNCHANGED callsMade
  PROVE  CallsGood' /\ NoneStartsToWait
BY DEF CallsGood, CallsTyped, CallBook, callsMade, NoneStartsToWait, AnswersAreOwn

LEMMA SocketsKept ==
  ASSUME SocketsGood, UNCHANGED sockets
  PROVE  SocketsGood'
BY DEF SocketsGood, SocketsTyped, SocketBook, PendingAttempt, sockets

\* rejectAllPending leaves no call waiting under an id.
LEMMA RejectKeeps ==
  ASSUME CallsGood, RejectAllPending
  PROVE  CallsGood' /\ NoneStartsToWait
BY DEF CallsGood, CallsTyped, CallBook, RejectAllPending, NoneStartsToWait, AnswersAreOwn, Frames

LEMMA ConnectKeeps ==
  ASSUME SocketsGood, NEW k \in Sockets, Connect(k)
  PROVE  SocketsGood'
BY ClientAssumption DEF SocketsGood, SocketsTyped, SocketBook, PendingAttempt, Connect, ConnectReturns, Usable,
  Sockets, ReadyStates, ClientStates

LEMMA CloseKeeps ==
  ASSUME SocketsGood, CloseClient
  PROVE  SocketsGood'
BY ClientAssumption DEF SocketsGood, SocketsTyped, SocketBook, PendingAttempt, CloseClient,
  Sockets, ReadyStates, ClientStates

\* The events of a socket, whether it is the current one or not.
SocketStep(k) ==
  \/ SocketOpens(k) \/ SocketFails(k) \/ SocketCloses(k) \/ SocketClosed(k) \/ ConnectTimesOut(k)

LEMMA SocketStepKeeps ==
  ASSUME SocketsGood, NEW k \in Sockets, SocketStep(k)
  PROVE  SocketsGood'
<1> USE ClientAssumption DEF SocketsGood, SocketsTyped, SocketBook, PendingAttempt, Settle,
          Sockets, ReadyStates, ClientStates
<1>1. CASE SocketOpens(k)
  BY <1>1 DEF SocketOpens
<1>2. CASE SocketFails(k)
  BY <1>2 DEF SocketFails
<1>3. CASE SocketCloses(k)
  BY <1>3 DEF SocketCloses
<1>4. CASE SocketClosed(k)
  BY <1>4 DEF SocketClosed
<1>5. CASE ConnectTimesOut(k)
  BY <1>5 DEF ConnectTimesOut
<1> QED BY <1>1, <1>2, <1>3, <1>4, <1>5 DEF SocketStep

LEMMA SocketStepCalls ==
  ASSUME CallsGood, NEW k \in Sockets, SocketStep(k)
  PROVE  CallsGood' /\ NoneStartsToWait
BY RejectKeeps, NothingCalled DEF SocketStep, SocketOpens, SocketFails, SocketCloses,
  SocketClosed, ConnectTimesOut

\* A call gets an id that no frame and no promise has.
LEMMA CallKeeps ==
  ASSUME CallsGood, SocketsGood, NEW r \in Requests, result[r] # "waiting", Call(r)
  PROVE  CallsGood'
<1> USE ClientAssumption DEF CallsGood, CallsTyped, CallBook, SocketsGood, SocketsTyped, AnswersAreOwn, Frames, Ids, Sockets
<1>1. CASE Usable
  <2> DEFINE id == nextId + 1
  <2>1. /\ id \in Ids /\ nextId' = id
        /\ pending' = [pending EXCEPT ![id] = r] /\ result' = [result EXCEPT ![r] = "waiting"]
        /\ wire' = wire \cup {[id |-> id, of |-> r, on |-> current, reply |-> FALSE]}
        /\ got' = got /\ current \in Sockets
    BY <1>1 DEF Call, FreshId, Usable
  <2>2. CallsTyped'
    <3>1. nextId' \in 0 .. MaxIds /\ pending' \in [Ids -> Requests \cup {NoRequest}]
      BY <2>1
    <3>2. result' \in [Requests -> {"none", "waiting", "answer", "closed", "unsent", "late"}]
      BY <2>1
    <3>3. wire' \subseteq Frames
      <4>1. [id |-> id, of |-> r, on |-> current, reply |-> FALSE] \in Frames
        BY <2>1
      <4> QED BY <2>1, <4>1
    <3> QED BY <2>1, <3>1, <3>2, <3>3
  <2>3. \A i \in Ids : pending'[i] # NoRequest => i <= nextId' /\ result'[pending'[i]] = "waiting"
    BY <2>1
  <2>4. \A i, j \in Ids : pending'[i] # NoRequest /\ pending'[i] = pending'[j] => i = j
    BY <2>1
  <2>5. \A f \in wire' : f.id <= nextId' /\ (pending'[f.id] # NoRequest => pending'[f.id] = f.of)
    <3> SUFFICES ASSUME NEW f \in wire'
                 PROVE  f.id <= nextId' /\ (pending'[f.id] # NoRequest => pending'[f.id] = f.of)
      OBVIOUS
    <3>1. CASE f \in wire
      <4>1. f.id \in Ids /\ f.id <= nextId /\ f.id # id
        BY <3>1
      <4> QED BY <4>1, <2>1, <3>1
    <3>2. CASE f = [id |-> id, of |-> r, on |-> current, reply |-> FALSE]
      BY <3>2, <2>1
    <3> QED BY <2>1, <3>1, <3>2
  <2>6. AnswersAreOwn'
    BY <2>1
  <2> QED BY <2>2, <2>3, <2>4, <2>5, <2>6
<1>2. CASE ~Usable
  BY <1>2 DEF Call
<1> QED BY <1>1, <1>2

LEMMA CallWaits ==
  ASSUME CallsGood, NEW r \in Requests, Call(r)
  PROVE  \A q \in Requests \ {r} : result'[q] = result[q]
BY DEF CallsGood, CallsTyped, Call, Usable

LEMMA CallTimerKeeps ==
  ASSUME CallsGood, NEW i \in Ids, CallTimesOut(i)
  PROVE  CallsGood' /\ NoneStartsToWait
BY DEF CallsGood, CallsTyped, CallBook, CallTimesOut, AnswersAreOwn, Frames, NoneStartsToWait

LEMMA ServeKeeps ==
  ASSUME CallsGood, NEW f \in wire, Serve(f)
  PROVE  CallsGood' /\ NoneStartsToWait
BY DEF CallsGood, CallsTyped, CallBook, Serve, AnswersAreOwn, Frames, NoneStartsToWait

LEMMA MessageKeeps ==
  ASSUME CallsGood, NEW f \in wire, HandleMessage(f)
  PROVE  CallsGood' /\ NoneStartsToWait
<1> USE DEF CallsGood, CallsTyped, CallBook, AnswersAreOwn, Frames, NoneStartsToWait
<1>1. CASE current = f.on /\ pending[f.id] # NoRequest
  BY <1>1 DEF HandleMessage
<1>2. CASE ~(current = f.on /\ pending[f.id] # NoRequest)
  BY <1>2 DEF HandleMessage
<1> QED BY <1>1, <1>2
-----------------------------------------------------------------------------
(* The hooks.                                                              *)

MachineStates == {"idle", "config", "mint", "connect", "refresh", "done", "failed"}
Stages == {"new", "first", "recovering", "resend", "second", "answered", "failed"}

\* The timer runs only after the boot, while nobody reconnects and the effect is mounted.
TimerBook ==
  /\ timer => at["boot"] = "done" /\ at["reconnect"] = "idle" /\ ~cancelled
  /\ at["reconnect"] # "idle" => at["boot"] = "done"
  /\ at["ensure"] \in {"idle", "config", "connect"}

MachinesTyped ==
  /\ at \in [Machines -> MachineStates] /\ awaits \in [Machines -> 0 .. MaxSockets]
  /\ timer \in BOOLEAN /\ cancelled \in BOOLEAN /\ lostInBoot \in BOOLEAN
  /\ mirror \in ClientStates

\* A request that is yet to be sent waits for no answer.
StageBook ==
  /\ stage \in [Requests -> Stages]
  /\ \A r \in Requests : stage[r] \in {"new", "recovering", "resend"} => result[r] # "waiting"

BoundsTyped ==
  /\ plan \in Scenarios /\ faults \in 0 .. plan.faults /\ wakes \in 0 .. plan.wakes

MachinesGood == MachinesTyped /\ TimerBook

\* The inductive invariant.
IndInv == SocketsGood /\ CallsGood /\ MachinesGood /\ StageBook /\ BoundsTyped

LEMMA InitGood == LinkInit => IndInv
<1> SUFFICES ASSUME LinkInit
             PROVE  IndInv
  OBVIOUS
<1>1. SocketsGood
  BY ClientAssumption DEF LinkInit, ClientInit, SocketsGood, SocketsTyped, SocketBook, PendingAttempt,
    ReadyStates, ClientStates
<1>2. CallsGood
  BY ClientAssumption DEF LinkInit, ClientInit, CallsGood, CallsTyped, CallBook, AnswersAreOwn
<1>3. MachinesGood
  <2>1. at = [m \in Machines |-> IF m = "boot" THEN "config" ELSE "idle"]
    BY DEF LinkInit, Machines
  <2>2. awaits = [m \in Machines |-> 0] /\ ~timer /\ mirror = "idle" /\ timer = FALSE
        /\ cancelled = FALSE /\ lostInBoot = FALSE
    BY DEF LinkInit
  <2>3. MachinesTyped
    <3>1. at \in [Machines -> MachineStates]
      BY <2>1 DEF MachineStates
    <3>2. awaits \in [Machines -> 0 .. MaxSockets]
      BY <2>2, ClientAssumption
    <3> QED BY <2>2, <3>1, <3>2 DEF MachinesTyped, ClientStates
  <2>4. TimerBook
    BY <2>1, <2>2 DEF TimerBook, Machines
  <2> QED BY <2>3, <2>4 DEF MachinesGood
<1>4. StageBook
  BY DEF LinkInit, ClientInit, StageBook, Stages
<1>5. BoundsTyped
  BY LinkAssumption DEF LinkInit, BoundsTyped, Scenario
<1> QED BY <1>1, <1>2, <1>3, <1>4, <1>5 DEF IndInv

\* What a handler of the state does to the timer, when the machines wait or go to connect.
LEMMA HandlerKeeps ==
  ASSUME MachinesGood, OnState, UNCHANGED cancelled,
         \/ at' = at
         \/ \E m \in Machines : at[m] = "mint" /\ at' = [at EXCEPT ![m] = "connect"]
         \/ at' = [at EXCEPT !["ensure"] = "connect"]
  PROVE  TimerBook' /\ timer' \in BOOLEAN /\ lostInBoot' \in BOOLEAN
BY DEF MachinesGood, MachinesTyped, TimerBook, OnState, BootCompleted, Reconnecting, Machines, MachineStates

LEMMA ClientRests ==
  ASSUME IndInv, UNCHANGED clientVars
  PROVE  SocketsGood' /\ CallsGood' /\ NoneStartsToWait
BY NothingCalled, SocketsKept DEF IndInv, clientVars

LEMMA StagesRest ==
  ASSUME StageBook, NoneStartsToWait, UNCHANGED stage
  PROVE  StageBook'
BY DEF StageBook, NoneStartsToWait

LEMMA MachinesRest ==
  ASSUME MachinesGood, UNCHANGED <<at, awaits, timer, cancelled, mirror, lostInBoot>>
  PROVE  MachinesGood'
BY DEF MachinesGood, MachinesTyped, TimerBook

LEMMA BoundsRest ==
  ASSUME BoundsTyped, UNCHANGED linkBounds
  PROVE  BoundsTyped'
BY DEF BoundsTyped, linkBounds

LEMMA FaultCounted ==
  ASSUME BoundsTyped, Fault
  PROVE  BoundsTyped'
BY LinkAssumption DEF BoundsTyped, Fault, Scenario

\* A wake signal or the reconnect timer.
LEMMA AttemptKeeps ==
  ASSUME MachinesGood, at["boot"] = "done", Attempt, timer' = FALSE,
         UNCHANGED <<awaits, cancelled, mirror, lostInBoot>>
  PROVE  MachinesGood'
BY DEF MachinesGood, MachinesTyped, TimerBook, Attempt, Reconnecting, Machines, MachineStates

-----------------------------------------------------------------------------
(* What a settled promise resumes.                                         *)

LEMMA ConnectEndsKeeps ==
  ASSUME IndInv, NEW m \in Machines, ConnectEnds(m)
  PROVE  IndInv'
<1>1. SocketsGood' /\ CallsGood' /\ StageBook' /\ BoundsTyped'
  BY ClientRests, StagesRest, BoundsRest DEF ConnectEnds, IndInv
<1>2. MachinesGood'
  <2> USE ClientAssumption DEF MachinesGood, MachinesTyped, TimerBook, Machines, MachineStates
  <2>1. CASE awaits[m] # 0 /\ attempt[awaits[m]] = "rejected" /\ m = "boot"
    BY <2>1 DEF ConnectEnds, ConnectOver, AwaitFails, IndInv
  <2>2. CASE awaits[m] # 0 /\ attempt[awaits[m]] = "rejected" /\ m = "reconnect"
    BY <2>2 DEF ConnectEnds, ConnectOver, AwaitFails, AttemptEnds, IndInv
  <2>3. CASE ~(awaits[m] # 0 /\ attempt[awaits[m]] = "rejected")
    BY <2>3 DEF ConnectEnds, ConnectOver, IndInv
  <2> QED BY <2>1, <2>2, <2>3 DEF ConnectEnds
<1> QED BY <1>1, <1>2 DEF IndInv

LEMMA EnsureEndsKeeps ==
  ASSUME IndInv, EnsureEnds
  PROVE  IndInv'
<1>1. SocketsGood' /\ CallsGood' /\ NoneStartsToWait /\ BoundsTyped'
  BY ClientRests, BoundsRest DEF EnsureEnds, IndInv
<1>2. MachinesGood'
  BY ClientAssumption DEF EnsureEnds, IndInv, MachinesGood, MachinesTyped, TimerBook, Machines, MachineStates
<1>3. StageBook'
  BY <1>1 DEF EnsureEnds, IndInv, StageBook, Stages, NoneStartsToWait
<1> QED BY <1>1, <1>2, <1>3 DEF IndInv

LEMMA RequestGoesOn ==
  ASSUME IndInv, NEW r \in Requests, FirstOver(r) \/ SecondOver(r)
  PROVE  IndInv'
<1>1. SocketsGood' /\ CallsGood' /\ NoneStartsToWait /\ BoundsTyped'
  BY ClientRests, BoundsRest DEF FirstOver, SecondOver, IndInv
<1>2. MachinesGood'
  BY ClientAssumption DEF FirstOver, SecondOver, IndInv, MachinesGood, MachinesTyped, TimerBook, Machines, MachineStates
<1>3. StageBook'
  BY <1>1 DEF FirstOver, SecondOver, CallOver, IndInv, StageBook, Stages, NoneStartsToWait
<1> QED BY <1>1, <1>2, <1>3 DEF IndInv

\* A request is sent, or sent again.
LEMMA RequestIsSent ==
  ASSUME IndInv, NEW r \in Requests, Ask(r) \/ Resend(r)
  PROVE  IndInv'
<1>1. stage[r] \in {"new", "resend"} /\ Call(r)
  BY DEF Ask, Resend
<1>2. CallsGood' /\ \A q \in Requests \ {r} : result'[q] = result[q]
  BY <1>1, CallKeeps, CallWaits DEF IndInv, StageBook
<1>3. SocketsGood'
  BY <1>1, SocketsKept DEF IndInv, Call
<1>4. MachinesGood' /\ BoundsTyped'
  BY MachinesRest, BoundsRest DEF IndInv, Ask, Resend
<1>5. StageBook'
  BY <1>2 DEF IndInv, Ask, Resend, StageBook, Stages
<1> QED BY <1>2, <1>3, <1>4, <1>5 DEF IndInv

-----------------------------------------------------------------------------
(* Tasks.                                                                  *)

LEMMA ConfigKeeps ==
  ASSUME IndInv, NEW m \in Machines, ConfigArrives(m) \/ ConfigFails(m)
  PROVE  IndInv'
<1>1. SocketsGood' /\ CallsGood' /\ StageBook' /\ BoundsTyped'
  BY ClientRests, StagesRest, BoundsRest, FaultCounted DEF ConfigArrives, ConfigFails, IndInv
<1>2. MachinesGood'
  <2> USE DEF MachinesGood, MachinesTyped, TimerBook, Machines, MachineStates, IndInv
  <2>1. CASE ConfigArrives(m)
    BY <2>1 DEF ConfigArrives
  <2>2. CASE ConfigFails(m) /\ m = "boot"
    BY <2>2 DEF ConfigFails, AwaitFails
  <2>3. CASE ConfigFails(m) /\ m = "reconnect"
    BY <2>3 DEF ConfigFails, AwaitFails, AttemptEnds
  <2> QED BY <2>1, <2>2, <2>3 DEF ConfigFails
<1> QED BY <1>1, <1>2 DEF IndInv

LEMMA EnsureConfigKeeps ==
  ASSUME IndInv, EnsureConfigFails
  PROVE  IndInv'
<1>1. SocketsGood' /\ CallsGood' /\ NoneStartsToWait /\ BoundsTyped'
  BY ClientRests, FaultCounted DEF EnsureConfigFails, IndInv
<1>2. MachinesGood'
  BY DEF EnsureConfigFails, IndInv, MachinesGood, MachinesTyped, TimerBook, Machines, MachineStates
<1>3. StageBook'
  BY <1>1 DEF EnsureConfigFails, IndInv, StageBook, Stages, NoneStartsToWait
<1> QED BY <1>1, <1>2, <1>3 DEF IndInv

LEMMA MintedKeeps ==
  ASSUME IndInv, NEW m \in Machines, Minted(m)
  PROVE  IndInv'
<1> USE DEF IndInv
<1>1. CASE ConnectReturns
  <2>1. UNCHANGED clientVars /\ UNCHANGED stage /\ UNCHANGED linkBounds
    BY <1>1 DEF Minted
  <2>2. SocketsGood' /\ CallsGood' /\ StageBook' /\ BoundsTyped'
    BY <2>1, ClientRests, StagesRest, BoundsRest
  <2>3. MachinesGood'
    BY <1>1, ClientAssumption DEF Minted, MachinesGood, MachinesTyped, TimerBook, Machines, MachineStates
  <2> QED BY <2>2, <2>3
<1>2. CASE ~ConnectReturns
  <2>1. PICK k \in Sockets : Connect(k) /\ awaits' = [awaits EXCEPT ![m] = k] /\ OnState
    BY <1>2 DEF Minted
  <2>2. SocketsGood'
    BY <2>1, ConnectKeeps
  <2>3. CallsGood' /\ NoneStartsToWait
    BY <2>1, NothingCalled DEF Connect
  <2>4. StageBook' /\ BoundsTyped'
    BY <2>3, StagesRest, BoundsRest DEF Minted
  <2>5. TimerBook' /\ timer' \in BOOLEAN /\ lostInBoot' \in BOOLEAN
    BY <2>1, HandlerKeeps DEF Minted
  <2>6. MachinesTyped'
    BY <2>1, <2>5, ClientAssumption DEF Minted, MachinesGood, MachinesTyped, Machines, MachineStates, Sockets
  <2> QED BY <2>2, <2>3, <2>4, <2>5, <2>6 DEF MachinesGood
<1> QED BY <1>1, <1>2

LEMMA RefreshKeeps ==
  ASSUME IndInv, BootRefreshFails \/ \E m \in Machines : RefreshEnds(m)
  PROVE  IndInv'
<1>1. SocketsGood' /\ CallsGood' /\ StageBook' /\ BoundsTyped'
  BY ClientRests, StagesRest, BoundsRest, FaultCounted DEF RefreshEnds, BootRefreshFails, IndInv
<1>2. MachinesGood'
  <2> USE DEF MachinesGood, MachinesTyped, TimerBook, Machines, MachineStates, IndInv
  <2>1. CASE BootRefreshFails
    BY <2>1 DEF BootRefreshFails, AwaitFails
  <2>2. CASE \E m \in Machines : RefreshEnds(m)
    <3>1. PICK m \in Machines : RefreshEnds(m)
      BY <2>2
    <3>2. CASE m = "boot"
      BY <3>1, <3>2 DEF RefreshEnds
    <3>3. CASE m = "reconnect"
      BY <3>1, <3>3 DEF RefreshEnds, AttemptEnds
    <3>4. CASE m = "ensure"
      BY <3>1, <3>4 DEF RefreshEnds, AttemptEnds
    <3> QED BY <3>2, <3>3, <3>4
  <2> QED BY <2>1, <2>2
<1> QED BY <1>1, <1>2 DEF IndInv

LEMMA WakeKeeps ==
  ASSUME IndInv, TimerFires \/ Wake
  PROVE  IndInv'
<1>1. SocketsGood' /\ CallsGood' /\ StageBook'
  BY ClientRests, StagesRest DEF TimerFires, Wake, IndInv
<1>2. MachinesGood'
  BY AttemptKeeps DEF TimerFires, Wake, IndInv, BootCompleted, MachinesGood, TimerBook
<1>3. BoundsTyped'
  BY LinkAssumption DEF TimerFires, Wake, IndInv, BoundsTyped, Scenario, linkBounds
<1> QED BY <1>1, <1>2, <1>3 DEF IndInv

LEMMA RenderKeeps ==
  ASSUME IndInv, Render
  PROVE  IndInv'
<1>1. SocketsGood' /\ CallsGood' /\ StageBook' /\ BoundsTyped'
  BY ClientRests, StagesRest, BoundsRest DEF Render, IndInv
<1>2. MachinesGood'
  BY DEF Render, IndInv, MachinesGood, MachinesTyped, TimerBook, SocketsGood, SocketsTyped
<1> QED BY <1>1, <1>2 DEF IndInv

LEMMA UnmountKeeps ==
  ASSUME IndInv, Unmount
  PROVE  IndInv'
<1>1. SocketsGood' /\ CallsGood' /\ StageBook' /\ BoundsTyped'
  BY CloseKeeps, RejectKeeps, StagesRest, BoundsRest DEF Unmount, CloseClient, IndInv
<1>2. MachinesGood'
  BY DEF Unmount, IndInv, MachinesGood, MachinesTyped, TimerBook
<1> QED BY <1>1, <1>2 DEF IndInv

LEMMA SocketEventKeeps ==
  ASSUME IndInv, NEW k \in Sockets, SocketEvent(k) \/ SocketFault(k)
  PROVE  IndInv'
<1>1. SocketStep(k) /\ Heard
  BY DEF SocketEvent, SocketFault, SocketStep
<1>2. SocketsGood' /\ CallsGood' /\ NoneStartsToWait
  BY <1>1, SocketStepKeeps, SocketStepCalls DEF IndInv
<1>3. StageBook' /\ BoundsTyped'
  BY <1>1, <1>2, StagesRest, BoundsRest, FaultCounted DEF IndInv, Heard, SocketEvent, SocketFault
<1>4. TimerBook' /\ timer' \in BOOLEAN /\ lostInBoot' \in BOOLEAN
  BY <1>1, HandlerKeeps DEF IndInv, Heard
<1>5. MachinesGood'
  BY <1>1, <1>4 DEF IndInv, Heard, MachinesGood, MachinesTyped
<1> QED BY <1>2, <1>3, <1>5 DEF IndInv

LEMMA TrafficKeeps ==
  ASSUME IndInv, Traffic \/ \E i \in Ids : CallTimer(i)
  PROVE  IndInv'
<1>1. CallsGood' /\ NoneStartsToWait
  BY ServeKeeps, MessageKeeps, CallTimerKeeps DEF Traffic, CallTimer, IndInv
<1>2. SocketsGood'
  BY SocketsKept DEF Traffic, CallTimer, Serve, HandleMessage, CallTimesOut, IndInv
<1>3. MachinesGood' /\ StageBook' /\ BoundsTyped'
  BY <1>1, MachinesRest, StagesRest, BoundsRest DEF Traffic, CallTimer, machines, IndInv
<1> QED BY <1>1, <1>2, <1>3 DEF IndInv

LEMMA StutterKeeps ==
  ASSUME IndInv, UNCHANGED linkVars
  PROVE  IndInv'
<1>1. SocketsGood' /\ CallsGood' /\ NoneStartsToWait
  BY ClientRests DEF linkVars
<1> QED BY <1>1, MachinesRest, StagesRest, BoundsRest DEF IndInv, linkVars, machines

LEMMA StepKeeps == IndInv /\ [LinkNext]_linkVars => IndInv'
<1> SUFFICES ASSUME IndInv, [LinkNext]_linkVars
             PROVE  IndInv'
  OBVIOUS
<1>1. CASE Resume
  BY <1>1, EnsureEndsKeeps, ConnectEndsKeeps, RequestGoesOn, RequestIsSent DEF Resume
<1>2. CASE EnsureConfigFails \/ BootRefreshFails \/ TimerFires \/ Wake \/ Render \/ Unmount
  BY <1>2, EnsureConfigKeeps, RefreshKeeps, WakeKeeps, RenderKeeps, UnmountKeeps
<1>3. CASE Traffic \/ \E i \in Ids : CallTimer(i)
  BY <1>3, TrafficKeeps
<1>4. CASE \E m \in Machines : ConfigArrives(m) \/ ConfigFails(m) \/ Minted(m) \/ RefreshEnds(m)
  BY <1>4, ConfigKeeps, MintedKeeps, RefreshKeeps
<1>5. CASE \E r \in Requests : Ask(r)
  BY <1>5, RequestIsSent
<1>6. CASE \E k \in Sockets : SocketEvent(k) \/ SocketFault(k)
  BY <1>6, SocketEventKeeps
<1>7. CASE UNCHANGED linkVars
  BY <1>7, StutterKeeps
<1> QED BY <1>1, <1>2, <1>3, <1>4, <1>5, <1>6, <1>7 DEF LinkNext

-----------------------------------------------------------------------------
(* The theorems.                                                           *)

\* The sockets, the calls and the hooks keep their books in every reachable state.
THEOREM LinkInvariance == LinkSpec => []IndInv
BY InitGood, StepKeeps, PTL DEF LinkSpec

\* Every reachable state is well typed, the state is `open' exactly while the current socket
\* is, and the reconnect timer runs only after the boot while nobody else reconnects.
THEOREM LinkTypeCorrect == LinkSpec => []LinkTypeOK
<1>1. IndInv => LinkTypeOK
  <2> SUFFICES ASSUME IndInv
               PROVE  LinkTypeOK
    OBVIOUS
  <2>1. ClientTypeOK
    BY DEF IndInv, SocketsGood, SocketsTyped, SocketBook, CallsGood, CallsTyped, CallBook, ClientTypeOK,
      ReadyStates, ClientStates, Frames
  <2> QED BY <2>1 DEF IndInv, MachinesGood, MachinesTyped, TimerBook, StageBook, BoundsTyped, LinkTypeOK,
            MachineStates, ClientStates, Stages
<1> QED BY <1>1, LinkInvariance, PTL

\* Nobody awaits a connect() that nothing can end, whichever of boot(), attemptReconnect(),
\* ensureGatewayOpen(), close() and the events of replaced sockets came first.
THEOREM AttemptsAreAttended == LinkSpec => []AttemptAttended
<1>1. IndInv => AttemptAttended
  BY ClientAssumption DEF IndInv, SocketsGood, SocketsTyped, SocketBook, PendingAttempt, AttemptAttended, Sockets
<1> QED BY <1>1, LinkInvariance, PTL

\* No answer settles another request, however late it comes and on whatever socket.
THEOREM AnswersBelong == LinkSpec => []AnswersAreOwn
<1>1. IndInv => AnswersAreOwn
  BY DEF IndInv, CallsGood, CallBook
<1> QED BY <1>1, LinkInvariance, PTL
=============================================================================
