--------------------------- MODULE TradeWsClient ----------------------------
(***************************************************************************)
(* The request/response clients over one WebSocket of                       *)
(* ws/futures_trade_ws.py and ws/spot_trade_ws.py, which share their code:  *)
(* any number of threads call, one background thread receives and, when the *)
(* connection is lost, reconnects, one thread closes the client.            *)
(*                                                                          *)
(* The exchange and the network are those the code relies on: an answer     *)
(* carries the id of its request and comes back on the connection the       *)
(* request went out on, a lost connection loses what is under way on it,    *)
(* and a request older than recvWindow (5 s), hence one whose call has      *)
(* timed out (10 s), is refused.                                            *)
(***************************************************************************)
EXTENDS Integers, FiniteSets

CONSTANTS Requests,         \* one id for each call of _request
          MaxConnections,   \* bound: connections made
          KafkaConfigured   \* a kafka_storage is given: its writes may raise

ASSUME ClientAssumption ==
  /\ MaxConnections \in Nat \ {0}
  /\ KafkaConfigured \in BOOLEAN

Connections == 1..MaxConnections

VARIABLES call,       \* where each call of _request is
          outcome,    \* how it returned or raised
          pending,    \* keys of _pending
          result,     \* status in the result of its _PendingRequest
          connected,  \* _connected
          ws,         \* number of the connection in _ws, 0 for None
          link,       \* state of each connection
          recv,       \* where the receiving thread is
          msg,        \* the message it holds: an answer, or NoAnswer
          stop,       \* _stop_event
          closer,     \* where close() is
          requests,   \* <<connection, id>>: requests under way
          answers,    \* <<connection, id, status>>: answers under way
          effect      \* what the exchange did with each request

clientVars == <<call, outcome, pending, result>>
socketVars == <<connected, ws, link, recv, msg>>
networkVars == <<requests, answers, effect>>
vars == <<clientVars, socketVars, networkVars, stop, closer>>

NoAnswer == [id |-> "none", status |-> "none"]
Statuses == {"200", "error"}
Outcomes == {"result", "api_error", "timeout", "not_connected", "send_failed", "kafka_failed"}
\* The calls that have put their id into _pending and not yet removed it.
Entered == {"registered", "waiting", "answered", "timed_out", "failed"}

TypeOK ==
  /\ call \in [Requests -> Entered \cup {"new", "done"}]
  /\ outcome \in [Requests -> Outcomes \cup {"none"}]
  /\ pending = {r \in Requests : call[r] \in Entered}
  /\ result \in [Requests -> Statuses \cup {"none"}]
  /\ connected \in BOOLEAN
  /\ ws \in 0..MaxConnections
  /\ link \in [Connections -> {"unused", "up", "lost", "closed"}]
  /\ recv \in {"connecting", "opening", "reading", "received", "found", "none"}
  /\ msg \in [id : Requests, status : Statuses] \cup {NoAnswer}
  /\ stop \in BOOLEAN
  /\ closer \in {"open", "stopping", "joining", "closed"}
  /\ requests \subseteq Connections \X Requests
  /\ answers \subseteq Connections \X Requests \X Statuses
  /\ effect \in [Requests -> {"none", "executed", "refused"}]

\* The constructor has been called; its own thread runs _connect first.
Init ==
  /\ call = [r \in Requests |-> "new"]
  /\ outcome = [r \in Requests |-> "none"]
  /\ pending = {}
  /\ result = [r \in Requests |-> "none"]
  /\ connected = FALSE
  /\ ws = 0
  /\ link = [k \in Connections |-> "unused"]
  /\ recv = "connecting"
  /\ msg = NoAnswer
  /\ stop = FALSE
  /\ closer = "open"
  /\ requests = {}
  /\ answers = {}
  /\ effect = [r \in Requests |-> "none"]

-----------------------------------------------------------------------------
(***************************************************************************)
(* _request, _request_list, _request_position                               *)
(***************************************************************************)

Finish(r, o) ==
  /\ call' = [call EXCEPT ![r] = "done"]
  /\ outcome' = [outcome EXCEPT ![r] = o]
  /\ pending' = pending \ {r}

\* The client exists only once its constructor has connected.
Refuse(r) ==
  /\ call[r] = "new" /\ ws # 0
  /\ ~connected
  /\ Finish(r, "not_connected")
  /\ UNCHANGED <<result, socketVars, networkVars, stop, closer>>

\* Mutant: the entry is made only after the request is sent.
RegisterLate(r) ==
  /\ call[r] = "new"
  /\ connected
  /\ call' = [call EXCEPT ![r] = "registered"]
  /\ UNCHANGED <<outcome, pending, result, socketVars, networkVars, stop, closer>>

Register(r) ==
  /\ call[r] = "new"
  /\ connected
  /\ call' = [call EXCEPT ![r] = "registered"]
  /\ pending' = pending \cup {r}
  /\ UNCHANGED <<outcome, result, socketVars, networkVars, stop, closer>>

\* _ws.send on whatever connection _ws is by now.  A lost connection takes the
\* bytes or raises; a closed one raises.
Send(r) ==
  /\ call[r] = "registered"
  /\ \/ /\ link[ws] = "up"
        /\ call' = [call EXCEPT ![r] = "waiting"]
        /\ requests' = requests \cup {<<ws, r>>}
     \/ /\ link[ws] = "lost"
        /\ call' = [call EXCEPT ![r] = "waiting"]
        /\ UNCHANGED requests
     \/ /\ link[ws] \in {"lost", "closed"}
        /\ call' = [call EXCEPT ![r] = "failed"]
        /\ UNCHANGED requests
  /\ UNCHANGED <<outcome, pending, result, socketVars, answers, effect, stop, closer>>

\* Mutant: pending.wait() without its timeout.
WakeUpAnswered(r) ==
  /\ call[r] = "waiting" /\ result[r] # "none"
  /\ call' = [call EXCEPT ![r] = "answered"]
  /\ UNCHANGED <<outcome, pending, result, socketVars, networkVars, stop, closer>>

WakeUp(r) ==
  /\ call[r] = "waiting"
  /\ \/ result[r] # "none" /\ call' = [call EXCEPT ![r] = "answered"]
     \/ result[r] = "none" /\ call' = [call EXCEPT ![r] = "timed_out"]
  /\ UNCHANGED <<outcome, pending, result, socketVars, networkVars, stop, closer>>

\* Mutant: the status of the response is not looked at.
ReturnUnchecked(r) ==
  /\ \/ call[r] = "failed" /\ Finish(r, "send_failed")
     \/ call[r] = "timed_out" /\ Finish(r, "timeout")
     \/ call[r] = "answered" /\ Finish(r, "result")
  /\ UNCHANGED <<result, socketVars, networkVars, stop, closer>>

\* finally: _pending.pop, then the status of the response and the Kafka write.
Return(r) ==
  /\ \/ call[r] = "failed" /\ Finish(r, "send_failed")
     \/ call[r] = "timed_out" /\ Finish(r, "timeout")
     \/ /\ call[r] = "answered"
        /\ \/ result[r] = "error" /\ Finish(r, "api_error")
           \/ result[r] = "200" /\ Finish(r, "result")
           \/ result[r] = "200" /\ KafkaConfigured /\ Finish(r, "kafka_failed")
  /\ UNCHANGED <<result, socketVars, networkVars, stop, closer>>

-----------------------------------------------------------------------------
(***************************************************************************)
(* The receiving thread: _connect and _recv_loop                            *)
(***************************************************************************)

TryConnect ==
  /\ recv = "connecting"
  /\ recv' = IF stop THEN "none" ELSE "opening"
  /\ UNCHANGED <<clientVars, connected, ws, link, msg, networkVars, stop, closer>>

\* Mutant: a failed attempt is the last.
ConnectGivesUp ==
  /\ recv = "opening"
  /\ recv' = "none"
  /\ UNCHANGED <<clientVars, connected, ws, link, msg, networkVars, stop, closer>>

ConnectFails ==
  /\ recv = "opening"
  /\ recv' = "connecting"
  /\ UNCHANGED <<clientVars, connected, ws, link, msg, networkVars, stop, closer>>

\* create_connection returns, whatever happened meanwhile; a new thread takes
\* the place of the one that called _connect.
Connect ==
  /\ recv = "opening"
  /\ ws < MaxConnections
  /\ ws' = ws + 1
  /\ link' = [link EXCEPT ![ws + 1] = "up"]
  /\ connected' = TRUE
  /\ recv' = "reading"
  /\ UNCHANGED <<clientVars, msg, networkVars, stop, closer>>

\* The head of the loop sees the stop event: after any message, read timeout
\* or exception.
StopReading ==
  /\ recv = "reading" /\ stop
  /\ recv' = "none"
  /\ UNCHANGED <<clientVars, connected, ws, link, msg, networkVars, stop, closer>>

NoticeLoss ==
  /\ recv = "reading" /\ ~stop
  /\ link[ws] = "lost"
  /\ connected' = FALSE
  /\ recv' = "connecting"
  /\ UNCHANGED <<clientVars, ws, link, msg, networkVars, stop, closer>>

Receive ==
  /\ recv = "reading"
  /\ link[ws] = "up"
  /\ \E r \in Requests, s \in Statuses :
       /\ <<ws, r, s>> \in answers
       /\ answers' = answers \ {<<ws, r, s>>}
       /\ msg' = [id |-> r, status |-> s]
  /\ recv' = "received"
  /\ UNCHANGED <<clientVars, connected, ws, link, requests, effect, stop, closer>>

\* if req_id in self._pending
LookUp ==
  /\ recv = "received"
  /\ \/ msg.id \in pending /\ recv' = "found" /\ UNCHANGED msg
     \/ msg.id \notin pending /\ recv' = "reading" /\ msg' = NoAnswer
  /\ UNCHANGED <<clientVars, connected, ws, link, networkVars, stop, closer>>

\* Mutant: the answer goes to whoever waits.
SetAnyResult ==
  /\ recv = "found"
  /\ \E r \in pending : result' = [result EXCEPT ![r] = msg.status]
  /\ recv' = "reading"
  /\ msg' = NoAnswer
  /\ UNCHANGED <<call, outcome, pending, connected, ws, link, networkVars, stop, closer>>

\* self._pending[req_id].set_result(msg): a KeyError when the caller has given
\* up in between, which the loop logs.
SetResult ==
  /\ recv = "found"
  /\ \/ msg.id \in pending /\ result' = [result EXCEPT ![msg.id] = msg.status]
     \/ msg.id \notin pending /\ UNCHANGED result
  /\ recv' = "reading"
  /\ msg' = NoAnswer
  /\ UNCHANGED <<call, outcome, pending, connected, ws, link, networkVars, stop, closer>>

-----------------------------------------------------------------------------
(***************************************************************************)
(* close()                                                                  *)
(***************************************************************************)

CloseStops ==
  /\ closer = "open" /\ ws # 0
  /\ stop' = TRUE
  /\ closer' = "stopping"
  /\ UNCHANGED <<clientVars, socketVars, networkVars>>

CloseSocket ==
  /\ closer = "stopping"
  /\ link' = [link EXCEPT ![ws] = "closed"]
  /\ requests' = {p \in requests : p[1] # ws}
  /\ answers' = {p \in answers : p[1] # ws}
  /\ closer' = "joining"
  /\ UNCHANGED <<clientVars, connected, ws, recv, msg, effect, stop>>

\* join(timeout=5) returns whether or not the thread has ended.
CloseReturns ==
  /\ closer = "joining"
  /\ closer' = "closed"
  /\ UNCHANGED <<clientVars, socketVars, networkVars, stop>>

-----------------------------------------------------------------------------
(***************************************************************************)
(* The network and the exchange                                             *)
(***************************************************************************)

LoseConnection(k) ==
  /\ link[k] = "up" /\ k < MaxConnections
  /\ link' = [link EXCEPT ![k] = "lost"]
  /\ requests' = {p \in requests : p[1] # k}
  /\ answers' = {p \in answers : p[1] # k}
  /\ UNCHANGED <<clientVars, connected, ws, recv, msg, effect, stop, closer>>

ExchangeActs(k, r) ==
  /\ <<k, r>> \in requests
  /\ requests' = requests \ {<<k, r>>}
  /\ \/ /\ call[r] = "waiting"
        /\ effect' = [effect EXCEPT ![r] = "executed"]
        /\ answers' = answers \cup {<<k, r, "200">>}
     \/ /\ effect' = [effect EXCEPT ![r] = "refused"]
        /\ answers' = answers \cup {<<k, r, "error">>}
  /\ UNCHANGED <<clientVars, socketVars, stop, closer>>

-----------------------------------------------------------------------------

Proceed(r) == Send(r) \/ WakeUp(r) \/ Return(r)
Receiver == TryConnect \/ StopReading \/ NoticeLoss \/ Receive \/ LookUp \/ SetResult
Close == CloseStops \/ CloseSocket \/ CloseReturns

Next ==
  \/ \E r \in Requests : Refuse(r) \/ Register(r) \/ Proceed(r)
  \/ Receiver \/ Connect \/ ConnectFails
  \/ Close
  \/ \E k \in Connections : LoseConnection(k) \/ \E r \in Requests : ExchangeActs(k, r)

Spec == Init /\ [][Next]_vars

\* The threads run, and an endpoint that is tried for ever answers at last.
Fairness ==
  /\ \A r \in Requests : WF_vars(Proceed(r))
  /\ WF_vars(Receiver)
  /\ WF_vars(Connect \/ ConnectFails)
  /\ SF_vars(Connect)

FairSpec == Spec /\ Fairness

-----------------------------------------------------------------------------
(***************************************************************************)
(* Properties                                                               *)
(***************************************************************************)

\* What a call reports is what the exchange did with its own request: a result
\* or a failed Kafka write means executed, an error, a refusal to send or a
\* failed send means not executed; only a timeout says nothing.
OutcomeTrue ==
  \A r \in Requests :
    /\ outcome[r] \in {"result", "kafka_failed"} => effect[r] = "executed"
    /\ outcome[r] = "api_error" => effect[r] = "refused"
    /\ outcome[r] \in {"not_connected", "send_failed"} => effect[r] = "none"

\* The receiving thread throws an answer away only when its call has returned:
\* however fast the answer is, its entry is there before.
NoAnswerDropped ==
  [][(recv \in {"received", "found"} /\ recv' = "reading" /\ result' = result)
       => (result[msg.id] # "none" \/ call[msg.id] = "done")]_vars

\* A call implements what TradeRequest promises its caller.
Phase(r) ==
  CASE call[r] = "new" -> "idle"
    [] call[r] \in Entered -> "open"
    [] outcome[r] = "result" -> "result"
    [] outcome[r] \in {"timeout", "kafka_failed"} -> "unknown"
    [] OTHER -> "refused"

Promise == INSTANCE TradeRequest WITH
  phase <- [r \in Requests |-> Phase(r)],
  executed <- [r \in Requests |-> effect[r] = "executed"]
ImplementsRequest == Promise!Spec

\* A call returns, whatever becomes of the connection and of its answer.
EveryCallReturns ==
  \A r \in Requests : call[r] = "registered" ~> call[r] = "done"

\* A lost connection is replaced until the client is closed.
Reconnects == recv = "connecting" ~> recv = "reading" \/ stop

\* futures_trade_ws.py:367: close() closes the connection and releases what
\* the client holds.
ClosedMeansClosed ==
  closer = "closed" /\ recv = "none" => \A k \in Connections : link[k] # "up"

=============================================================================
