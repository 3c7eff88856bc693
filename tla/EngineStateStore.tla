-------------------------- MODULE EngineStateStore --------------------------
(***************************************************************************)
(* The SQLite store of a strategy engine (engine/state_store.py): one row   *)
(* of signal_state per signal, and the cursor kept in engine_kv.  The store *)
(* survives a crash of the process.  Every operation below is one           *)
(* transaction of the code, taken under the store's lock and committed.     *)
(*                                                                          *)
(* Abstractions.  An order_id is the order it identifies, a client_order_id *)
(* the signal it is derived from, NoOrder is NULL.  updated_at_ms is read   *)
(* only by list_reconcile_candidates, which compares it with other rows     *)
(* (the relation older) and with the reconcile lag (the set fresh).         *)
(***************************************************************************)
EXTENDS TradingSignals

VARIABLES status,    \* status of the signal's row, "NONE" without a row
          orderId,   \* order_id of the row
          clientId,  \* client_order_id of the row
          older,     \* <<s, t>>: the row of s was updated before the row of t
          fresh,     \* rows updated less than reconcile_lag_sec ago
          dbCursor   \* engine_kv['cursor_ms'], NoCursor when never written

storeVars == <<status, orderId, clientId, older, fresh, dbCursor>>

NoCursor == -1

-----------------------------------------------------------------------------

RowStatus ==
  {"RECEIVED", "REJECTED", "SENT", "ACKED", "FILLED", "CANCELED",
   "REJECTED_BY_EXCHANGE", "EXPIRED", "FAILED"}

FinalStatuses ==
  {"REJECTED", "FILLED", "CANCELED", "REJECTED_BY_EXCHANGE", "EXPIRED"}

\* Mutants: every decided row is a candidate; an acknowledged row is not.
ReconcileStatusesWide == RowStatus \ {"RECEIVED"}
ReconcileStatusesNarrow == {"SENT", "FAILED"}

ReconcileStatuses == {"SENT", "ACKED", "FAILED"}

Recorded == {s \in Signals : status[s] # "NONE"}

IsFinal(s) == status[s] \in FinalStatuses

StoreTypeOK ==
  /\ status \in [Signals -> RowStatus \cup {"NONE"}]
  /\ orderId \in [Signals -> Orders \cup {NoOrder}]
  /\ clientId \in [Signals -> Signals \cup {NoOrder}]
  /\ older \subseteq Signals \X Signals
  /\ fresh \subseteq Signals
  /\ dbCursor \in Nat \cup {NoCursor}

InitStore ==
  /\ status = [s \in Signals |-> "NONE"]
  /\ orderId = [s \in Signals |-> NoOrder]
  /\ clientId = [s \in Signals |-> NoOrder]
  /\ older = {}
  /\ fresh = {}
  /\ dbCursor = NoCursor

-----------------------------------------------------------------------------

\* updated_at_ms = now: the row of s is the last updated one.
Touch(s) ==
  /\ older' = {p \in older : p[1] # s} \cup {<<t, s>> : t \in Recorded \ {s}}
  /\ fresh' = fresh \cup {s}

\* INSERT ... ON CONFLICT: a new row takes the ids the signal names, whatever
\* its action; an existing row keeps its status and its ids.
SaveReceived(s) ==
  /\ IF s \in Recorded
     THEN UNCHANGED <<status, orderId, clientId>>
     ELSE /\ status' = [status EXCEPT ![s] = "RECEIVED"]
          /\ orderId' = [orderId EXCEPT ![s] = OrderId[s]]
          /\ clientId' = [clientId EXCEPT ![s] = OrigClientId[s]]
  /\ Touch(s)
  /\ UNCHANGED dbCursor

\* COALESCE: an id that is not given leaves that column of the row alone.
UpdateStatus(s, st, order, client) ==
  /\ status' = [status EXCEPT ![s] = st]
  /\ orderId' = [orderId EXCEPT ![s] = IF order = NoOrder THEN @ ELSE order]
  /\ clientId' = [clientId EXCEPT ![s] = IF client = NoOrder THEN @ ELSE client]
  /\ Touch(s)
  /\ UNCHANGED dbCursor

SetCursor(c) ==
  /\ dbCursor' = c
  /\ UNCHANGED <<status, orderId, clientId, older, fresh>>

\* The rows list_reconcile_candidates selects before ORDER BY and LIMIT.
Candidates == {s \in Signals : status[s] \in ReconcileStatuses} \ fresh

ListReconcileCandidates(limit) ==
  {s \in Candidates :
     Cardinality({t \in Candidates : <<t, s>> \in older}) < limit}

\* Time passes: the least recently updated fresh row leaves the reconcile lag.
Age ==
  /\ \E s \in fresh :
       /\ \A t \in fresh : <<t, s>> \notin older
       /\ fresh' = fresh \ {s}
  /\ UNCHANGED <<status, orderId, clientId, older, dbCursor>>

=============================================================================
