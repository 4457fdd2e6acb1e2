----------------------------- MODULE GatewayLink -----------------------------
(***************************************************************************)
(* How the desktop renderer keeps its connection to the gateway:           *)
(* use-gateway-boot.ts connects at the start and reconnects, and           *)
(* use-gateway-request.ts repeats a call that met a lost connection.  Both *)
(* drive the one client of JsonRpcClient, whose connect() returns at once  *)
(* when the other is at it.                                                *)
(*                                                                         *)
(* Events of the browser, timers and replies of the main process come when *)
(* nothing is left to resume; what a settled promise resumes comes first.  *)
(***************************************************************************)
EXTENDS JsonRpcClient

CONSTANT Scenarios   \* the bounds a behaviour may have

\* In one behaviour `requests' are made, so many connections, replies of the main
\* process or handshakes fail, and so many wake signals come; may the window go?
Scenario == [requests : SUBSET Requests, faults : Nat, wakes : Nat, unmount : BOOLEAN]

ASSUME LinkAssumption == Scenarios \subseteq Scenario

VARIABLES
  plan,      \* the scenario of this behaviour
  at,        \* where boot(), attemptReconnect() and ensureGatewayOpen() are
  awaits,    \* of each, the socket whose connect() it awaits, 0 if that returned at once
  timer,     \* is the reconnect timer armed?
  cancelled, \* has the effect been cleaned up?
  mirror,    \* gatewayStateRef.current, the state as of the last render
  stage,     \* of each request, where requestGateway() is
  lostInBoot,  \* history: the connection was lost while boot() refreshed
  faults, wakes

machines == <<at, awaits, timer, cancelled, mirror, stage, lostInBoot>>
linkBounds == <<plan, faults, wakes>>
linkVars == <<clientVars, machines, linkBounds>>

Machines == {"boot", "reconnect", "ensure"}

LinkTypeOK ==
  /\ ClientTypeOK /\ plan \in Scenarios
  /\ at \in [Machines -> {"idle", "config", "mint", "connect", "refresh", "done", "failed"}]
  /\ awaits \in [Machines -> 0 .. MaxSockets]
  /\ timer \in BOOLEAN /\ cancelled \in BOOLEAN /\ lostInBoot \in BOOLEAN
  /\ timer => at["boot"] = "done" /\ at["reconnect"] = "idle" /\ ~cancelled
  /\ mirror \in {"idle", "connecting", "open", "closed", "error"}
  /\ stage \in [Requests -> {"new", "first", "recovering", "resend", "second",
                             "answered", "failed"}]
  /\ faults \in 0 .. plan.faults /\ wakes \in 0 .. plan.wakes

LinkInit ==
  /\ ClientInit /\ plan \in Scenarios
  /\ at = [boot |-> "config", reconnect |-> "idle", ensure |-> "idle"]
  /\ awaits = [m \in Machines |-> 0]
  /\ timer = FALSE /\ cancelled = FALSE /\ mirror = "idle" /\ lostInBoot = FALSE
  /\ stage = [r \in Requests |-> "new"]
  /\ faults = 0 /\ wakes = 0

BootCompleted == at["boot"] = "done"
Reconnecting == at["reconnect"] # "idle"

\* The state handler of the boot hook: it arms the reconnect timer, or clears it.
OnState ==
  /\ timer' = IF state' = state \/ cancelled THEN timer
              ELSE IF state' = "open" THEN FALSE
              ELSE timer \/ (BootCompleted /\ state' \in {"closed", "error"} /\ ~Reconnecting)
  /\ lostInBoot' = IF state' = "open" THEN FALSE
                   ELSE lostInBoot \/ (at["boot"] = "refresh" /\ state' # state)

-----------------------------------------------------------------------------
(* What settled promises resume.                                           *)

\* The connect() that m awaits is over.
ConnectOver(m) ==
  at[m] = "connect" /\ (awaits[m] # 0 => attempt[awaits[m]] \in {"resolved", "rejected"})

\* The promise of the call of r is settled.
CallOver(r) == stage[r] \in {"first", "second"} /\ result[r] # "waiting"

\* Nothing is left to resume: the next task may begin.
Quiet ==
  /\ \A m \in Machines : ~ConnectOver(m)
  /\ \A r \in Requests : ~CallOver(r) /\ stage[r] # "resend"

\* Seeded fault: only an error schedules the next attempt.
AttemptEndsWell(failed) ==
  /\ at' = [at EXCEPT !["reconnect"] = "idle"]
  /\ timer' = (timer \/ (~cancelled /\ state # "open" /\ failed))

\* The end of attemptReconnect(), its finally.
AttemptEnds(failed) ==
  /\ at' = [at EXCEPT !["reconnect"] = "idle"]
  /\ timer' = (timer \/ (~cancelled /\ state # "open"))

\* What m does when an await of it fails.
AwaitFails(m) ==
  CASE m = "boot" -> at' = [at EXCEPT ![m] = "failed"] /\ UNCHANGED timer
    [] m = "reconnect" -> AttemptEnds(TRUE)

\* boot() or attemptReconnect() after connect().
ConnectEnds(m) ==
  /\ m # "ensure" /\ ConnectOver(m)
  /\ IF awaits[m] # 0 /\ attempt[awaits[m]] = "rejected" THEN AwaitFails(m)
     ELSE IF ~cancelled THEN at' = [at EXCEPT ![m] = "refresh"] /\ UNCHANGED timer
     ELSE at' = [at EXCEPT ![m] = IF m = "boot" THEN "failed" ELSE "idle"] /\ UNCHANGED timer
  /\ awaits' = [awaits EXCEPT ![m] = 0]
  /\ UNCHANGED <<clientVars, cancelled, mirror, stage, lostInBoot, linkBounds>>

\* ensureGatewayOpen() is over: the requests that share it go on, or give up.
EnsureEnds ==
  /\ ConnectOver("ensure")
  /\ at' = [at EXCEPT !["ensure"] = "idle"] /\ awaits' = [awaits EXCEPT !["ensure"] = 0]
  /\ LET lost == awaits["ensure"] # 0 /\ attempt[awaits["ensure"]] = "rejected"
     IN stage' = [r \in Requests |->
                    IF stage[r] # "recovering" THEN stage[r]
                    ELSE IF lost THEN "failed" ELSE "resend"]
  /\ UNCHANGED <<clientVars, timer, cancelled, mirror, lostInBoot, linkBounds>>

\* requestGateway() after the first call: a call that met no connection, or lost it, asks
\* for one; by the state as of the last render there may be nothing to do.
FirstOver(r) ==
  /\ stage[r] = "first" /\ CallOver(r)
  /\ LET lost == result[r] \in {"unsent", "closed"} /\ ~cancelled IN
     /\ stage' = [stage EXCEPT ![r] = IF result[r] = "answer" THEN "answered"
                                      ELSE IF ~lost THEN "failed"
                                      ELSE IF mirror = "open" THEN "resend" ELSE "recovering"]
     /\ at' = IF lost /\ mirror # "open" /\ at["ensure"] = "idle"
              THEN [at EXCEPT !["ensure"] = "config"] ELSE at
  /\ UNCHANGED <<clientVars, awaits, timer, cancelled, mirror, lostInBoot, linkBounds>>

\* The call is repeated, once.
Resend(r) ==
  /\ stage[r] = "resend"
  /\ Call(r)
  /\ stage' = [stage EXCEPT ![r] = "second"]
  /\ UNCHANGED <<at, awaits, timer, cancelled, mirror, lostInBoot, linkBounds>>

SecondOver(r) ==
  /\ stage[r] = "second" /\ CallOver(r)
  /\ stage' = [stage EXCEPT ![r] = IF result[r] = "answer" THEN "answered" ELSE "failed"]
  /\ UNCHANGED <<clientVars, at, awaits, timer, cancelled, mirror, lostInBoot, linkBounds>>

Resume ==
  \/ EnsureEnds
  \/ \E m \in Machines : ConnectEnds(m)
  \/ \E r \in Requests : FirstOver(r) \/ Resend(r) \/ SecondOver(r)

-----------------------------------------------------------------------------
(* Tasks.                                                                  *)

Fault == faults < plan.faults /\ faults' = faults + 1 /\ UNCHANGED <<plan, wakes>>

\* getConnection() answers boot() or attemptReconnect().
ConfigArrives(m) ==
  /\ Quiet /\ m # "ensure" /\ at[m] = "config"
  /\ at' = [at EXCEPT ![m] = IF ~cancelled THEN "mint"
                             ELSE IF m = "boot" THEN "failed" ELSE "idle"]
  /\ UNCHANGED <<clientVars, awaits, timer, cancelled, mirror, stage, lostInBoot, linkBounds>>

ConfigFails(m) ==
  /\ Quiet /\ m # "ensure" /\ at[m] = "config" /\ Fault
  /\ AwaitFails(m)
  /\ UNCHANGED <<clientVars, awaits, cancelled, mirror, stage, lostInBoot>>

EnsureConfigFails ==
  /\ Quiet /\ at["ensure"] = "config" /\ Fault
  /\ at' = [at EXCEPT !["ensure"] = "idle"]
  /\ stage' = [r \in Requests |-> IF stage[r] = "recovering" THEN "failed" ELSE stage[r]]
  /\ UNCHANGED <<clientVars, awaits, timer, cancelled, mirror, lostInBoot>>

\* The URL is there (a failure to mint it falls back on the cached one): m connects.  The
\* hook does not look at `cancelled' here.  Of ensureGatewayOpen() the two awaits are one.
Minted(m) ==
  /\ Quiet /\ at[m] = IF m = "ensure" THEN "config" ELSE "mint"
  /\ at' = [at EXCEPT ![m] = "connect"]
  /\ IF ConnectReturns
     THEN /\ awaits' = [awaits EXCEPT ![m] = 0]
          /\ UNCHANGED <<clientVars, timer, lostInBoot>>
     ELSE \E k \in Sockets :
            Connect(k) /\ awaits' = [awaits EXCEPT ![m] = k] /\ OnState
  /\ UNCHANGED <<cancelled, mirror, stage, linkBounds>>

\* The refreshes, over HTTP: those of attemptReconnect() cannot fail.
RefreshEnds(m) ==
  /\ Quiet /\ at[m] = "refresh"
  /\ IF m = "boot"
     THEN at' = [at EXCEPT ![m] = IF cancelled THEN "failed" ELSE "done"] /\ UNCHANGED timer
     ELSE AttemptEnds(FALSE)
  /\ UNCHANGED <<clientVars, awaits, cancelled, mirror, stage, lostInBoot, linkBounds>>

BootRefreshFails ==
  /\ Quiet /\ at["boot"] = "refresh" /\ Fault
  /\ AwaitFails("boot")
  /\ UNCHANGED <<clientVars, awaits, cancelled, mirror, stage, lostInBoot>>

\* attemptReconnect(), from its timer or from a wake signal.
Attempt ==
  at' = IF cancelled \/ Reconnecting \/ state = "open" THEN at
        ELSE [at EXCEPT !["reconnect"] = "config"]

TimerFires ==
  /\ Quiet /\ timer
  /\ timer' = FALSE /\ Attempt
  /\ UNCHANGED <<clientVars, awaits, cancelled, mirror, stage, lostInBoot, linkBounds>>

\* reconnectNow(): power resume, the network is back, the window is visible.
Wake ==
  /\ Quiet /\ BootCompleted /\ ~cancelled
  /\ wakes < plan.wakes /\ wakes' = wakes + 1
  /\ timer' = FALSE /\ Attempt
  /\ UNCHANGED <<clientVars, awaits, cancelled, mirror, stage, lostInBoot, plan, faults>>

\* React renders and runs the effect that copies the state.
Render ==
  /\ Quiet /\ ~cancelled /\ mirror # state
  /\ mirror' = state
  /\ UNCHANGED <<clientVars, at, awaits, timer, cancelled, stage, lostInBoot, linkBounds>>

\* The cleanup of the boot hook, which no longer hears of the state.
Unmount ==
  /\ Quiet /\ plan.unmount /\ ~cancelled
  /\ cancelled' = TRUE /\ timer' = FALSE
  /\ CloseClient
  /\ UNCHANGED <<at, awaits, mirror, stage, lostInBoot, linkBounds>>

\* The renderer calls requestGateway().
Ask(r) ==
  /\ Quiet /\ ~cancelled /\ r \in plan.requests /\ stage[r] = "new"
  /\ Call(r)
  /\ stage' = [stage EXCEPT ![r] = "first"]
  /\ UNCHANGED <<at, awaits, timer, cancelled, mirror, lostInBoot, linkBounds>>

\* The state handler hears what an event changed; the machines wait.
Heard == OnState /\ UNCHANGED <<at, awaits, cancelled, mirror, stage>>

\* A handshake ends well, a socket that is closing closes.
SocketEvent(k) ==
  /\ Quiet
  /\ SocketOpens(k) \/ (ready[k] = "closing" /\ SocketClosed(k))
  /\ Heard
  /\ UNCHANGED linkBounds

\* The handshake fails or takes too long, the connection is dropped or closed.
SocketFault(k) ==
  /\ Quiet /\ Fault
  /\ \/ SocketFails(k) \/ SocketCloses(k) \/ ConnectTimesOut(k)
     \/ ready[k] = "open" /\ SocketClosed(k)
  /\ Heard

\* Calls go out and replies come in.
Traffic ==
  /\ Quiet
  /\ \E f \in wire : Serve(f) \/ HandleMessage(f)
  /\ UNCHANGED <<machines, linkBounds>>

CallTimer(i) == Quiet /\ CallTimesOut(i) /\ UNCHANGED <<machines, linkBounds>>

LinkNext ==
  \/ Resume \/ EnsureConfigFails \/ BootRefreshFails \/ TimerFires \/ Wake \/ Render
  \/ Unmount \/ Traffic
  \/ \E m \in Machines : ConfigArrives(m) \/ ConfigFails(m) \/ Minted(m) \/ RefreshEnds(m)
  \/ \E r \in Requests : Ask(r)
  \/ \E i \in Ids : CallTimer(i)
  \/ \E k \in Sockets : SocketEvent(k) \/ SocketFault(k)

LinkSpec == LinkInit /\ [][LinkNext]_linkVars

\* Promises resume, the main process answers and timers fire; a handshake that is not
\* failed succeeds, and a socket that is closing closes.  An event that is due waits while
\* there is something to resume, again and again: hence strong fairness.
LinkFairSpec ==
  /\ LinkSpec
  /\ WF_linkVars(Resume) /\ WF_linkVars(TimerFires)
  /\ \A m \in Machines : WF_linkVars(ConfigArrives(m) \/ Minted(m) \/ RefreshEnds(m))
  /\ SF_linkVars(\E k \in Sockets : SocketEvent(k))
  /\ SF_linkVars(\E i \in Ids : CallTimer(i))

-----------------------------------------------------------------------------
(* What the two hooks promise together.                                    *)

\* After the boot a lost connection comes back, whatever fails a finite number of times
\* and whoever is at it, unless it was lost during the last steps of the boot; and every
\* request is answered or fails.
LinkRecovers ==
  /\ BootCompleted /\ ~lostInBoot ~> state = "open" \/ cancelled
  /\ \A r \in Requests : stage[r] = "first" ~> stage[r] \in {"answered", "failed"}

\* Once the boot has succeeded, a connection that is not open has somebody who brings it
\* back: use-gateway-boot.ts:71 says "Once the initial boot succeeds we treat any
\* non-open state as recoverable and reconnect with backoff".
ReconnectOwned ==
  BootCompleted /\ ~cancelled /\ state \in {"closed", "error"} /\ Quiet
    => timer \/ Reconnecting

\* A request is repeated on an open connection: use-gateway-request.ts:57 says the
\* reconnect "brings the live socket back".
ResentWhenOpen ==
  [][\A r \in Requests :
       stage[r] = "resend" /\ stage'[r] = "second" => result'[r] # "unsent"]_linkVars
=============================================================================
