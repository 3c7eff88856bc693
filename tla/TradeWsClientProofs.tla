------------------------ MODULE TradeWsClientProofs -------------------------
(***************************************************************************)
(* The trade clients: what a call reports is true, no answer is lost on its *)
(* way to a call, and the client implements TradeRequest, for any number of *)
(* calls and connections.                                                   *)
(***************************************************************************)
EXTENDS TradeWsClient, TLAPS

-----------------------------------------------------------------------------
(***************************************************************************)
(* The inductive invariant                                                  *)
(***************************************************************************)

\* Calls and close() find a client whose constructor has connected.
ClientExists ==
  /\ connected \/ recv \in {"reading", "received", "found"} => ws # 0
  /\ \A r \in Requests : call[r] \in Entered => ws # 0
  /\ recv \in {"received", "found"} => msg \in [id : Requests, status : Statuses]

\* A call has an outcome when it has returned, and wakes up before its timeout
\* only because there is a result.
OutcomeOnReturn ==
  \A r \in Requests :
    /\ outcome[r] # "none" <=> call[r] = "done"
    /\ call[r] = "answered" => result[r] # "none"

Unsent(r) ==
  \/ call[r] \in {"new", "registered", "failed"}
  \/ outcome[r] \in {"not_connected", "send_failed"}

\* A request is under way on one connection at most, after it was sent and
\* before the exchange has acted on it.
UnderWayOnce ==
  \A r \in Requests :
    /\ Unsent(r) => effect[r] = "none"
    /\ \A k \in Connections : <<k, r>> \in requests =>
         /\ ~Unsent(r)
         /\ effect[r] = "none"
         /\ \A j \in Connections : <<j, r>> \in requests => j = k

Verdict(s) == IF s = "200" THEN "executed" ELSE "refused"

\* Whoever holds an answer - the network, the receiving thread, the entry of
\* the call - holds the one of that request.
AnswersTrue ==
  /\ \A k \in Connections, r \in Requests, s \in Statuses :
       <<k, r, s>> \in answers => effect[r] = Verdict(s)
  /\ recv \in {"received", "found"} => effect[msg.id] = Verdict(msg.status)
  /\ \A r \in Requests : result[r] # "none" => effect[r] = Verdict(result[r])

ClientInv ==
  TypeOK /\ ClientExists /\ OutcomeOnReturn /\ UnderWayOnce /\ AnswersTrue /\ OutcomeTrue

-----------------------------------------------------------------------------
LEMMA ClientInitInv == Init => ClientInv
<1> SUFFICES ASSUME Init PROVE ClientInv
  OBVIOUS
<1>1. pending = {r \in Requests : call[r] \in Entered}
  BY DEF Init, Entered
<1>2. ws \in 0..MaxConnections
  BY ClientAssumption DEF Init, ClientAssumption
<1>3. TypeOK
  BY <1>1, <1>2 DEF Init, TypeOK
<1>4. ClientExists /\ OutcomeOnReturn /\ UnderWayOnce /\ AnswersTrue /\ OutcomeTrue
  BY DEF Init, ClientExists, OutcomeOnReturn, UnderWayOnce, AnswersTrue, OutcomeTrue, Unsent, Entered
<1> QED BY <1>3, <1>4 DEF ClientInv

LEMMA ClientStutters == ClientInv /\ UNCHANGED vars => ClientInv'
BY DEF ClientInv, vars, clientVars, socketVars, networkVars, TypeOK, ClientExists, OutcomeOnReturn,
       UnderWayOnce, AnswersTrue, OutcomeTrue, Unsent

-----------------------------------------------------------------------------
(***************************************************************************)
(* _request                                                                 *)
(***************************************************************************)

LEMMA RefuseInv ==
  ASSUME ClientInv, NEW r \in Requests, Refuse(r)
  PROVE  ClientInv'
<1> USE DEF Refuse, Finish, socketVars, networkVars
<1>1. TypeOK'
  BY DEF ClientInv, TypeOK, Entered, Outcomes
<1>2. ClientExists' /\ OutcomeOnReturn'
  BY DEF ClientInv, TypeOK, ClientExists, OutcomeOnReturn, Entered
<1>3. UnderWayOnce' /\ AnswersTrue' /\ OutcomeTrue'
  BY DEF ClientInv, TypeOK, OutcomeOnReturn, UnderWayOnce, AnswersTrue, OutcomeTrue, Unsent
<1> QED BY <1>1, <1>2, <1>3 DEF ClientInv

LEMMA RegisterInv ==
  ASSUME ClientInv, NEW r \in Requests, Register(r)
  PROVE  ClientInv'
<1> USE DEF Register, socketVars, networkVars
<1>1. TypeOK'
  BY DEF ClientInv, TypeOK, Entered
<1>2. ClientExists' /\ OutcomeOnReturn'
  BY DEF ClientInv, TypeOK, ClientExists, OutcomeOnReturn, Entered
<1>3. UnderWayOnce' /\ AnswersTrue' /\ OutcomeTrue'
  BY DEF ClientInv, TypeOK, OutcomeOnReturn, UnderWayOnce, AnswersTrue, OutcomeTrue, Unsent
<1> QED BY <1>1, <1>2, <1>3 DEF ClientInv

LEMMA SendInv ==
  ASSUME ClientInv, NEW r \in Requests, Send(r)
  PROVE  ClientInv'
<1> USE DEF Send, socketVars
<1>1. ws \in Connections
  BY ClientAssumption DEF ClientInv, TypeOK, ClientExists, Entered, Connections, ClientAssumption
<1>2. TypeOK'
  BY <1>1 DEF ClientInv, TypeOK, Entered
<1>3. ClientExists' /\ OutcomeOnReturn'
  BY DEF ClientInv, TypeOK, ClientExists, OutcomeOnReturn, Entered
<1>4. UnderWayOnce'
  BY <1>1 DEF ClientInv, TypeOK, OutcomeOnReturn, UnderWayOnce, Unsent
<1>5. AnswersTrue' /\ OutcomeTrue'
  BY DEF ClientInv, TypeOK, AnswersTrue, OutcomeTrue
<1> QED BY <1>2, <1>3, <1>4, <1>5 DEF ClientInv

LEMMA WakeUpInv ==
  ASSUME ClientInv, NEW r \in Requests, WakeUp(r)
  PROVE  ClientInv'
<1> USE DEF WakeUp, socketVars, networkVars
<1>1. TypeOK'
  BY DEF ClientInv, TypeOK, Entered
<1>2. ClientExists' /\ OutcomeOnReturn'
  BY DEF ClientInv, TypeOK, ClientExists, OutcomeOnReturn, Entered
<1>3. UnderWayOnce' /\ AnswersTrue' /\ OutcomeTrue'
  BY DEF ClientInv, TypeOK, OutcomeOnReturn, UnderWayOnce, AnswersTrue, OutcomeTrue, Unsent
<1> QED BY <1>1, <1>2, <1>3 DEF ClientInv

LEMMA ReturnInv ==
  ASSUME ClientInv, NEW r \in Requests, Return(r)
  PROVE  ClientInv'
<1> USE DEF Return, Finish, socketVars, networkVars
<1>1. TypeOK'
  BY DEF ClientInv, TypeOK, Entered, Outcomes
<1>2. ClientExists' /\ OutcomeOnReturn'
  BY DEF ClientInv, TypeOK, ClientExists, OutcomeOnReturn, Entered
<1>3. UnderWayOnce'
  BY DEF ClientInv, TypeOK, OutcomeOnReturn, UnderWayOnce, Unsent
<1>4. AnswersTrue' /\ OutcomeTrue'
  BY DEF ClientInv, TypeOK, OutcomeOnReturn, UnderWayOnce, AnswersTrue, OutcomeTrue, Unsent, Verdict
<1> QED BY <1>1, <1>2, <1>3, <1>4 DEF ClientInv

-----------------------------------------------------------------------------
(***************************************************************************)
(* The receiving thread                                                     *)
(***************************************************************************)

\* Steps that neither deliver a message nor touch a call.
LEMMA ConnectionInv ==
  ASSUME ClientInv, TryConnect \/ ConnectFails \/ Connect \/ StopReading \/ NoticeLoss
  PROVE  ClientInv'
<1> USE DEF TryConnect, ConnectFails, Connect, StopReading, NoticeLoss, clientVars, networkVars
<1>1. TypeOK'
  <2>1. ws' \in 0..MaxConnections /\ link' \in [Connections -> {"unused", "up", "lost", "closed"}]
    BY ClientAssumption DEF ClientInv, TypeOK, ClientAssumption
  <2>2. recv' \in {"connecting", "opening", "reading", "received", "found", "none"}
        /\ connected' \in BOOLEAN
    BY DEF ClientInv, TypeOK
  <2> QED BY <2>1, <2>2 DEF ClientInv, TypeOK
<1>2. ClientExists'
  BY DEF ClientInv, TypeOK, ClientExists
<1>3. OutcomeOnReturn' /\ UnderWayOnce' /\ AnswersTrue' /\ OutcomeTrue'
  BY DEF ClientInv, OutcomeOnReturn, UnderWayOnce, AnswersTrue, OutcomeTrue, Unsent
<1> QED BY <1>1, <1>2, <1>3 DEF ClientInv

LEMMA ReceiveInv ==
  ASSUME ClientInv, Receive
  PROVE  ClientInv'
<1>1. PICK r \in Requests, s \in Statuses :
        /\ <<ws, r, s>> \in answers
        /\ answers' = answers \ {<<ws, r, s>>}
        /\ msg' = [id |-> r, status |-> s]
  BY DEF Receive
<1>2. ws \in Connections
  BY <1>1 DEF ClientInv, TypeOK
<1>3. TypeOK'
  BY <1>1 DEF Receive, clientVars, ClientInv, TypeOK
<1>4. ClientExists' /\ OutcomeOnReturn' /\ UnderWayOnce' /\ OutcomeTrue'
  BY <1>1 DEF Receive, clientVars, ClientInv, ClientExists, OutcomeOnReturn, UnderWayOnce, OutcomeTrue, Unsent
<1>5. AnswersTrue'
  BY <1>1, <1>2 DEF Receive, clientVars, ClientInv, AnswersTrue
<1> QED BY <1>3, <1>4, <1>5 DEF ClientInv

LEMMA LookUpInv ==
  ASSUME ClientInv, LookUp
  PROVE  ClientInv'
<1> USE DEF LookUp, clientVars, networkVars
<1>1. TypeOK'
  BY DEF ClientInv, TypeOK
<1>2. ClientExists' /\ OutcomeOnReturn' /\ UnderWayOnce' /\ OutcomeTrue'
  BY DEF ClientInv, ClientExists, OutcomeOnReturn, UnderWayOnce, OutcomeTrue, Unsent
<1>3. AnswersTrue'
  BY DEF ClientInv, AnswersTrue
<1> QED BY <1>1, <1>2, <1>3 DEF ClientInv

LEMMA SetResultInv ==
  ASSUME ClientInv, SetResult
  PROVE  ClientInv'
<1> USE DEF SetResult, networkVars
<1>1. msg.id \in Requests /\ msg.status \in Statuses /\ effect[msg.id] = Verdict(msg.status)
  BY DEF ClientInv, ClientExists, AnswersTrue
<1>2. TypeOK'
  BY <1>1 DEF ClientInv, TypeOK
<1>3. ClientExists' /\ UnderWayOnce' /\ OutcomeTrue'
  BY DEF ClientInv, ClientExists, UnderWayOnce, OutcomeTrue, Unsent
<1>4. OutcomeOnReturn' /\ AnswersTrue'
  BY <1>1 DEF ClientInv, TypeOK, OutcomeOnReturn, AnswersTrue, Statuses
<1> QED BY <1>2, <1>3, <1>4 DEF ClientInv

-----------------------------------------------------------------------------
(***************************************************************************)
(* close(), the network and the exchange                                    *)
(***************************************************************************)

LEMMA CloseInv ==
  ASSUME ClientInv, Close
  PROVE  ClientInv'
<1> USE DEF Close, CloseStops, CloseSocket, CloseReturns, clientVars, socketVars, networkVars
<1>1. TypeOK'
  BY DEF ClientInv, TypeOK
<1>2. ClientExists' /\ OutcomeOnReturn' /\ OutcomeTrue'
  BY DEF ClientInv, ClientExists, OutcomeOnReturn, OutcomeTrue
<1>3. UnderWayOnce' /\ AnswersTrue'
  BY DEF ClientInv, UnderWayOnce, AnswersTrue, Unsent
<1> QED BY <1>1, <1>2, <1>3 DEF ClientInv

LEMMA LoseConnectionInv ==
  ASSUME ClientInv, NEW k \in Connections, LoseConnection(k)
  PROVE  ClientInv'
<1> USE DEF LoseConnection, clientVars
<1>1. TypeOK'
  BY DEF ClientInv, TypeOK
<1>2. ClientExists' /\ OutcomeOnReturn' /\ OutcomeTrue'
  BY DEF ClientInv, ClientExists, OutcomeOnReturn, OutcomeTrue
<1>3. UnderWayOnce' /\ AnswersTrue'
  BY DEF ClientInv, UnderWayOnce, AnswersTrue, Unsent
<1> QED BY <1>1, <1>2, <1>3 DEF ClientInv

LEMMA ExchangeActsInv ==
  ASSUME ClientInv, NEW k \in Connections, NEW r \in Requests, ExchangeActs(k, r)
  PROVE  ClientInv'
<1> USE DEF ExchangeActs, clientVars, socketVars
<1>1. effect[r] = "none" /\ ~Unsent(r)
  BY DEF ClientInv, UnderWayOnce
<1>2. PICK s \in Statuses : /\ answers' = answers \cup {<<k, r, s>>}
                            /\ effect' = [effect EXCEPT ![r] = Verdict(s)]
  BY DEF Verdict, Statuses
<1>3. TypeOK'
  BY <1>2 DEF ClientInv, TypeOK, Verdict
<1>4. ClientExists' /\ OutcomeOnReturn'
  BY DEF ClientInv, ClientExists, OutcomeOnReturn
<1>5. UnderWayOnce'
  BY <1>1, <1>2 DEF ClientInv, TypeOK, UnderWayOnce, Unsent
<1>6. AnswersTrue'
  BY <1>1, <1>2 DEF ClientInv, TypeOK, ClientExists, AnswersTrue, Verdict
<1>7. OutcomeTrue'
  BY <1>1, <1>2 DEF ClientInv, TypeOK, OutcomeTrue, Unsent
<1> QED BY <1>3, <1>4, <1>5, <1>6, <1>7 DEF ClientInv

-----------------------------------------------------------------------------
LEMMA ClientStepInv == ClientInv /\ [Next]_vars => ClientInv'
<1> SUFFICES ASSUME ClientInv, [Next]_vars PROVE ClientInv'
  OBVIOUS
<1>1. CASE UNCHANGED vars
  BY <1>1, ClientStutters
<1>2. ASSUME NEW r \in Requests, Refuse(r) \/ Register(r) \/ Proceed(r)
      PROVE  ClientInv'
  BY <1>2, RefuseInv, RegisterInv, SendInv, WakeUpInv, ReturnInv DEF Proceed
<1>3. CASE Receiver \/ Connect \/ ConnectFails
  BY <1>3, ConnectionInv, ReceiveInv, LookUpInv, SetResultInv DEF Receiver
<1>4. CASE Close
  BY <1>4, CloseInv
<1>5. ASSUME NEW k \in Connections, LoseConnection(k) \/ \E r \in Requests : ExchangeActs(k, r)
      PROVE  ClientInv'
  BY <1>5, LoseConnectionInv, ExchangeActsInv
<1> QED BY <1>1, <1>2, <1>3, <1>4, <1>5 DEF Next

LEMMA ClientInvAlways == Spec => []ClientInv
BY ClientInitInv, ClientStepInv, PTL DEF Spec

\* The entries of _pending are those of the calls that have not returned, and
\* every variable has its type.
THEOREM ClientTypeCorrect == Spec => []TypeOK
<1>1. ClientInv => TypeOK
  BY DEF ClientInv
<1> QED BY <1>1, ClientInvAlways, PTL

\* What _request returns or raises says truly what the exchange did with the
\* request, through losses, reconnections, timeouts and close().
THEOREM OutcomeTrueAlways == Spec => []OutcomeTrue
<1>1. ClientInv => OutcomeTrue
  BY DEF ClientInv
<1> QED BY <1>1, ClientInvAlways, PTL

-----------------------------------------------------------------------------
(***************************************************************************)
(* What becomes of an answer                                                *)
(***************************************************************************)

\* A message that the receiving thread does not hand over finds a result, or
\* a call that has returned: an entry that is missing was there and is gone.
THEOREM NoAnswerDroppedAlways == Spec => NoAnswerDropped
<1> DEFINE Dropped == recv \in {"received", "found"} /\ recv' = "reading" /\ result' = result
<1>1. ClientInv /\ [Next]_vars =>
        [Dropped => (result[msg.id] # "none" \/ call[msg.id] = "done")]_vars
  <2> SUFFICES ASSUME ClientInv, [Next]_vars, Dropped, call[msg.id] # "done"
               PROVE  result[msg.id] # "none"
    OBVIOUS
  <2>1. msg.id \in Requests /\ msg.status \in Statuses /\ effect[msg.id] # "none"
    BY DEF ClientInv, ClientExists, AnswersTrue, Verdict
  <2>2. msg.id \in pending
    BY <2>1 DEF ClientInv, TypeOK, UnderWayOnce, Unsent, Entered
  <2>3. LookUp \/ SetResult
    BY DEF Next, Refuse, Register, Proceed, Send, WakeUp, Return, Receiver, TryConnect, StopReading,
           NoticeLoss, Receive, Connect, ConnectFails, Close, CloseStops, CloseSocket, CloseReturns,
           LoseConnection, ExchangeActs, socketVars, vars
  <2>4. result' = [result EXCEPT ![msg.id] = msg.status]
    BY <2>2, <2>3 DEF LookUp, SetResult
  <2> QED BY <2>1, <2>4 DEF ClientInv, TypeOK, Statuses
<1> QED BY <1>1, ClientInvAlways, PTL DEF Spec, NoAnswerDropped

-----------------------------------------------------------------------------
(***************************************************************************)
(* Refinement                                                               *)
(***************************************************************************)

\* Phase, one implication for each of its values.
PhaseOfCalls ==
  \A r \in Requests :
    /\ call[r] = "new" => Phase(r) = "idle"
    /\ call[r] \in Entered => Phase(r) = "open"
    /\ outcome[r] = "result" => Phase(r) = "result"
    /\ outcome[r] \in {"timeout", "kafka_failed"} => Phase(r) = "unknown"
    /\ outcome[r] \in {"api_error", "not_connected", "send_failed"} => Phase(r) = "refused"

LEMMA PhaseIs == ClientInv => PhaseOfCalls
<1> SUFFICES ASSUME ClientInv PROVE PhaseOfCalls
  OBVIOUS
<1>1. \A r \in Requests :
        /\ outcome[r] = "none" <=> call[r] # "done"
        /\ call[r] \in Entered \cup {"new", "done"}
        /\ call[r] \in Entered => call[r] \notin {"new", "done"}
  BY DEF ClientInv, TypeOK, OutcomeOnReturn, Entered
<1> QED BY <1>1 DEF Phase, PhaseOfCalls

LEMMA PhaseStays ==
  ASSUME NEW r \in Requests, call'[r] = call[r], outcome'[r] = outcome[r]
  PROVE  Phase(r)' = Phase(r)
BY DEF Phase

LEMMA InitPromises == Init => Promise!Init
<1> SUFFICES ASSUME Init PROVE Promise!Init
  OBVIOUS
<1>1. \A r \in Requests : Phase(r) = "idle"
  BY ClientInitInv, PhaseIs DEF Init, PhaseOfCalls
<1>2. \A r \in Requests : effect[r] # "executed"
  BY DEF Init
<1> QED BY <1>1, <1>2 DEF Promise!Init

phases == [r \in Requests |-> Phase(r)]
executions == [r \in Requests |-> effect[r] = "executed"]

\* A call that returns tells what the exchange did, where it can know.
LEMMA ReturnPromises ==
  ASSUME ClientInv, ClientInv', NEW r \in Requests, Refuse(r) \/ Return(r)
  PROVE  Promise!Return(r)
<1>1. PhaseOfCalls /\ PhaseOfCalls'
  BY PhaseIs, PTL
<1>2. /\ call[r] \in Entered \cup {"new"}
      /\ outcome'[r] \in Outcomes
      /\ \A q \in Requests : q # r => call'[q] = call[q] /\ outcome'[q] = outcome[q]
      /\ effect' = effect
  BY DEF ClientInv, TypeOK, Refuse, Return, Finish, Entered, Outcomes, networkVars
<1>3. Phase(r) \in {"idle", "open"}
  BY <1>1, <1>2 DEF PhaseOfCalls
<1>4. /\ Phase(r)' \in {"result", "refused", "unknown"}
      /\ Phase(r)' = "result" => effect[r] = "executed"
      /\ Phase(r)' = "refused" => effect[r] # "executed"
  BY <1>1, <1>2 DEF PhaseOfCalls, ClientInv, OutcomeTrue, Outcomes
<1>5. \A q \in Requests : q # r => Phase(q)' = Phase(q)
  BY <1>2, PhaseStays
<1>6. phases' = [phases EXCEPT ![r] = Phase(r)']
  BY <1>5 DEF phases
<1>7. executions' = executions
  BY <1>2 DEF executions
<1>8. executions[r] <=> effect[r] = "executed"
  BY DEF executions
<1> QED BY <1>3, <1>4, <1>6, <1>7, <1>8 DEF Promise!Return, phases, executions

LEMMA OpenPromises ==
  ASSUME ClientInv, ClientInv', NEW r \in Requests, Register(r)
  PROVE  Promise!Open(r)
<1>1. PhaseOfCalls /\ PhaseOfCalls'
  BY PhaseIs, PTL
<1>2. /\ call[r] = "new" /\ call'[r] \in Entered
      /\ \A q \in Requests : q # r => call'[q] = call[q] /\ outcome'[q] = outcome[q]
      /\ effect' = effect
  BY DEF ClientInv, TypeOK, Register, Entered, networkVars
<1>3. Phase(r) = "idle" /\ Phase(r)' = "open"
  BY <1>1, <1>2 DEF PhaseOfCalls
<1>4. \A q \in Requests : q # r => Phase(q)' = Phase(q)
  BY <1>2, PhaseStays
<1> QED BY <1>2, <1>3, <1>4 DEF Promise!Open

LEMMA ExchangePromises ==
  ASSUME ClientInv, NEW k \in Connections, NEW r \in Requests, ExchangeActs(k, r)
  PROVE  Promise!Execute(r) \/ UNCHANGED <<phases, executions>>
<1>1. PhaseOfCalls
  BY PhaseIs
<1>2. effect \in [Requests -> {"none", "executed", "refused"}] /\ effect[r] = "none"
  BY DEF ClientInv, TypeOK, UnderWayOnce, ExchangeActs
<1>3. phases' = phases
  <2>1. \A q \in Requests : Phase(q)' = Phase(q)
    BY PhaseStays DEF ExchangeActs, clientVars
  <2> QED BY <2>1 DEF phases
<1>4. CASE call[r] = "waiting" /\ effect' = [effect EXCEPT ![r] = "executed"]
  <2>1. Phase(r) = "open"
    BY <1>1, <1>4 DEF PhaseOfCalls, Entered
  <2>2. executions' = [executions EXCEPT ![r] = TRUE]
    BY <1>2, <1>4 DEF executions
  <2> QED BY <1>2, <1>3, <2>1, <2>2 DEF Promise!Execute, phases, executions
<1>5. CASE effect' = [effect EXCEPT ![r] = "refused"]
  <2>1. \A q \in Requests : effect'[q] = "executed" <=> effect[q] = "executed"
    BY <1>2, <1>5
  <2> QED BY <1>3, <2>1 DEF executions
<1> QED BY <1>4, <1>5 DEF ExchangeActs

\* A step that leaves the exchange alone, opens no call and returns from none.
LEMMA InvisibleStep ==
  ASSUME ClientInv, ClientInv', UNCHANGED <<outcome, effect>>,
         \A r \in Requests : call'[r] = call[r] \/ (call[r] \in Entered /\ call'[r] \in Entered)
  PROVE  UNCHANGED <<phases, executions>>
<1>1. PhaseOfCalls /\ PhaseOfCalls'
  BY PhaseIs, PTL
<1>2. \A r \in Requests : Phase(r)' = Phase(r)
  BY <1>1, PhaseStays DEF PhaseOfCalls
<1> QED BY <1>2 DEF phases, executions

LEMMA StepPromises ==
  ASSUME ClientInv, ClientInv', [Next]_vars
  PROVE  [Promise!Next]_<<phases, executions>>
<1>1. CASE \E r \in Requests : Refuse(r) \/ Return(r)
  BY <1>1, ReturnPromises DEF Promise!Next
<1>2. CASE \E r \in Requests : Register(r)
  BY <1>2, OpenPromises DEF Promise!Next
<1>3. CASE \E k \in Connections, r \in Requests : ExchangeActs(k, r)
  BY <1>3, ExchangePromises DEF Promise!Next
<1>4. ASSUME NEW r \in Requests, Send(r) \/ WakeUp(r)
      PROVE  UNCHANGED <<phases, executions>>
  <2>1. UNCHANGED <<outcome, effect>>
    BY <1>4 DEF Send, WakeUp, networkVars
  <2>2. \A q \in Requests : call'[q] = call[q] \/ (call[q] \in Entered /\ call'[q] \in Entered)
    BY <1>4 DEF ClientInv, TypeOK, Send, WakeUp, Entered
  <2> QED BY <2>1, <2>2, InvisibleStep
<1>5. CASE Receiver \/ Connect \/ ConnectFails \/ Close \/ \E k \in Connections : LoseConnection(k)
  <2>1. UNCHANGED <<call, outcome, effect>>
    BY <1>5 DEF Receiver, TryConnect, StopReading, NoticeLoss, Receive, LookUp, SetResult, Connect,
                ConnectFails, Close, CloseStops, CloseSocket, CloseReturns, LoseConnection,
                clientVars, networkVars
  <2> QED BY <2>1, InvisibleStep
<1>6. CASE UNCHANGED vars
  BY <1>6, InvisibleStep DEF vars, clientVars, networkVars
<1> QED BY <1>1, <1>2, <1>3, <1>4, <1>5, <1>6 DEF Next, Proceed

\* A call of the client is a call of TradeRequest: each step opens it, has the
\* exchange execute it, returns from it, or is invisible.
THEOREM RequestImplemented == Spec => ImplementsRequest
<1>1. ClientInv /\ ClientInv' /\ [Next]_vars => [Promise!Next]_<<phases, executions>>
  BY StepPromises
<1> QED BY <1>1, InitPromises, ClientInvAlways, PTL
           DEF Spec, ImplementsRequest, Promise!Spec, phases, executions

=============================================================================
