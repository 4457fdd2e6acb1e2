--------------------------- MODULE JsonRpcClient ---------------------------
(***************************************************************************)
(* The client of the renderer for the gateway's websocket:                 *)
(* JsonRpcGatewayClient in apps/shared/src/json-rpc-gateway.ts.            *)
(*                                                                         *)
(* It keeps one current socket; the events of the sockets it has replaced  *)
(* or given up still come.  An action is one task of the browser; what a   *)
(* promise resumes is left to the callers of this module.                  *)
(***************************************************************************)
EXTENDS Naturals, FiniteSets

CONSTANTS
  Requests,    \* what the callers ask for
  NoRequest,   \* no entry in the map
  MaxSockets,  \* bound: sockets ever made
  MaxIds       \* bound: calls ever made

ASSUME ClientAssumption ==
  /\ IsFiniteSet(Requests) /\ NoRequest \notin Requests
  /\ MaxSockets \in Nat /\ MaxIds \in Nat

VARIABLES
  ready,         \* readyState of each socket, "none" before it is made
  current,       \* this.socket, 0 for null
  state,         \* this.state
  attempt,       \* of each socket, the promise of the connect() that made it
  cancelConnect, \* the attempt this.cancelConnect cancels, 0 for null
  nextId,        \* this.nextId
  pending,       \* this.pending: of each id, the request whose promise it settles
  result,        \* of each request, the state of the promise of its last call
  got,           \* of each request, the request its answer belongs to
  wire           \* frames on their way: [id, of, on, reply]

sockets == <<ready, current, state, attempt, cancelConnect>>
callsMade == <<nextId, pending, result, got, wire>>
clientVars == <<sockets, callsMade>>

Sockets == 1 .. MaxSockets
Ids == 1 .. MaxIds

ClientTypeOK ==
  /\ ready \in [Sockets -> {"none", "connecting", "open", "closing", "closed"}]
  /\ current \in 0 .. MaxSockets /\ cancelConnect \in 0 .. MaxSockets
  /\ state \in {"idle", "connecting", "open", "closed", "error"}
  /\ state = "open" <=> current # 0 /\ ready[current] \in {"open", "closing"}
  /\ attempt \in [Sockets -> {"none", "pending", "resolved", "rejected"}]
  /\ nextId \in 0 .. MaxIds
  /\ pending \in [Ids -> Requests \cup {NoRequest}]
  /\ \A i \in Ids : pending[i] # NoRequest => i <= nextId /\ result[pending[i]] = "waiting"
  /\ result \in [Requests -> {"none", "waiting", "answer", "closed", "unsent", "late"}]
  /\ got \in [Requests -> Requests \cup {NoRequest}]
  /\ wire \subseteq [id : Ids, of : Requests, on : Sockets, reply : BOOLEAN]

ClientInit ==
  /\ ready = [k \in Sockets |-> "none"] /\ current = 0 /\ state = "idle"
  /\ attempt = [k \in Sockets |-> "none"] /\ cancelConnect = 0
  /\ nextId = 0 /\ pending = [i \in Ids |-> NoRequest]
  /\ result = [r \in Requests |-> "none"] /\ got = [r \in Requests |-> NoRequest]
  /\ wire = {}

\* The socket request() and connect() find usable.
Usable == current # 0 /\ ready[current] = "open"

\* rejectAllPending
RejectAllPending ==
  /\ result' = [r \in Requests |->
                  IF \E i \in Ids : pending[i] = r THEN "closed" ELSE result[r]]
  /\ pending' = [i \in Ids |-> NoRequest]
  /\ UNCHANGED <<nextId, got, wire>>

-----------------------------------------------------------------------------
(* connect() and close().                                                  *)

\* connect() has nothing to do, or somebody else is at it: it returns at once.
ConnectReturns == Usable \/ state = "connecting"

\* connect() makes socket k; its promise is pending.
Connect(k) ==
  /\ ~ConnectReturns
  /\ ready[k] = "none" /\ \A j \in 1 .. k - 1 : ready[j] # "none"
  /\ ready' = [ready EXCEPT ![k] = "connecting"]
  /\ current' = k /\ state' = "connecting"
  /\ attempt' = [attempt EXCEPT ![k] = "pending"] /\ cancelConnect' = k
  /\ UNCHANGED callsMade

\* Seeded fault: the connect() under way is not cancelled.
CloseAttemptKept ==
  /\ current' = 0 /\ state' = "closed"
  /\ ready' = [k \in Sockets |-> IF k = current /\ ready[k] \in {"connecting", "open"}
                                 THEN "closing" ELSE ready[k]]
  /\ cancelConnect' = 0
  /\ RejectAllPending
  /\ UNCHANGED attempt

\* close()
CloseClient ==
  /\ current' = 0 /\ state' = "closed"
  /\ ready' = [k \in Sockets |-> IF k = current /\ ready[k] \in {"connecting", "open"}
                                 THEN "closing" ELSE ready[k]]
  /\ attempt' = [k \in Sockets |-> IF k = cancelConnect THEN "rejected" ELSE attempt[k]]
  /\ cancelConnect' = 0
  /\ RejectAllPending

\* The attempt of socket k is settled, and cleaned up.
Settle(k, how) ==
  /\ attempt' = [attempt EXCEPT ![k] = how]
  /\ cancelConnect' = IF cancelConnect = k THEN 0 ELSE cancelConnect

\* `open': the handshake ended.
SocketOpens(k) ==
  /\ ready[k] = "connecting"
  /\ ready' = [ready EXCEPT ![k] = "open"]
  /\ IF attempt[k] = "pending" /\ current = k
     THEN Settle(k, "resolved") /\ state' = "open"
     ELSE UNCHANGED <<attempt, cancelConnect, state>>
  /\ UNCHANGED <<current, callsMade>>

\* `error' and `close', one after the other: the handshake failed.
SocketFails(k) ==
  /\ ready[k] = "connecting"
  /\ ready' = [ready EXCEPT ![k] = "closed"]
  /\ IF current = k
     THEN /\ current' = 0 /\ state' = "closed"
          /\ Settle(k, "rejected")
          /\ RejectAllPending
     ELSE UNCHANGED <<current, state, attempt, cancelConnect, callsMade>>

\* The other side has begun to close socket k.
SocketCloses(k) ==
  /\ ready[k] = "open"
  /\ ready' = [ready EXCEPT ![k] = "closing"]
  /\ UNCHANGED <<current, state, attempt, cancelConnect, callsMade>>

\* `close': socket k is gone, dropped or closed.
SocketClosed(k) ==
  /\ ready[k] \in {"open", "closing"}
  /\ ready' = [ready EXCEPT ![k] = "closed"]
  /\ IF current = k THEN current' = 0 /\ state' = "closed" /\ RejectAllPending
     ELSE UNCHANGED <<current, state, callsMade>>
  /\ UNCHANGED <<attempt, cancelConnect>>

\* The timer of a connect().
ConnectTimesOut(k) ==
  /\ attempt[k] = "pending"
  /\ Settle(k, "rejected")
  /\ IF current = k
     THEN current' = 0 /\ ready' = [ready EXCEPT ![k] = "closing"]
     ELSE UNCHANGED <<current, ready>>
  /\ state' = "error"
  /\ UNCHANGED callsMade

-----------------------------------------------------------------------------
(* Calls.                                                                  *)

\* Seeded fault: an id that is free again is used again.
ReusedId == Cardinality({i \in Ids : pending[i] # NoRequest}) + 1

\* createRequestId(++this.nextId)
FreshId == nextId + 1

\* request(): a call for r, or a rejection.
Call(r) ==
  /\ IF Usable
     THEN LET id == FreshId IN
          /\ nextId < MaxIds
          /\ nextId' = nextId + 1
          /\ pending' = [pending EXCEPT ![id] = r]
          /\ result' = [result EXCEPT ![r] = "waiting"]
          /\ wire' = wire \cup {[id |-> id, of |-> r, on |-> current, reply |-> FALSE]}
     ELSE /\ result' = [result EXCEPT ![r] = "unsent"]
          /\ UNCHANGED <<nextId, pending, wire>>
  /\ UNCHANGED <<sockets, got>>

\* The timer of a call.
CallTimesOut(i) ==
  /\ pending[i] # NoRequest
  /\ pending' = [pending EXCEPT ![i] = NoRequest]
  /\ result' = [result EXCEPT ![pending[i]] = "late"]
  /\ UNCHANGED <<sockets, nextId, got, wire>>

\* The gateway serves a call, in any order, and replies on the socket it came by.
Serve(f) ==
  /\ ~f.reply /\ ready[f.on] = "open"
  /\ wire' = (wire \ {f}) \cup {[f EXCEPT !.reply = TRUE]}
  /\ UNCHANGED <<sockets, nextId, pending, result, got>>

\* handleMessage: a reply settles the call with its id, if it came by the current
\* socket.
HandleMessage(f) ==
  /\ f.reply /\ ready[f.on] = "open"
  /\ wire' = wire \ {f}
  /\ IF current = f.on /\ pending[f.id] # NoRequest
     THEN /\ result' = [result EXCEPT ![pending[f.id]] = "answer"]
          /\ got' = [got EXCEPT ![pending[f.id]] = f.of]
          /\ pending' = [pending EXCEPT ![f.id] = NoRequest]
     ELSE UNCHANGED <<result, got, pending>>
  /\ UNCHANGED <<sockets, nextId>>

-----------------------------------------------------------------------------
(* What the client promises.                                               *)

\* Whoever awaits connect() is attended: its socket is the current one and close() and
\* the timer can end the wait; and the state is `connecting' only during such a wait,
\* since every other connect() relies on it.
AttemptAttended ==
  /\ \A k \in Sockets : attempt[k] = "pending" =>
       current = k /\ cancelConnect = k /\ ready[k] = "connecting"
  /\ state = "connecting" => \E k \in Sockets : attempt[k] = "pending"

\* An answer is that of the request it settles, through timeouts, retries and replaced
\* sockets whose replies come late.
AnswersAreOwn == \A r \in Requests : result[r] = "answer" => got[r] = r
=============================================================================
