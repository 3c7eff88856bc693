--------------------------- MODULE TradingSignals ---------------------------
(***************************************************************************)
(* The trading signals an engine works on (engine/models.py): what each     *)
(* field the engine decides on holds, for every signal a producer may       *)
(* insert.  signal_id is a natural number, which orders ids as the query's  *)
(* ORDER BY does; the fields that only travel to the exchange (side,        *)
(* quantity, price, ...) are left out.                                      *)
(***************************************************************************)
EXTENDS Integers, FiniteSets

CONSTANTS Signals,     \* signal ids
          Ts,          \* signal_ts_ms of each
          Priority,    \* priority of each
          Invalid,     \* signals whose row TradingSignal.from_row refuses
          Symbol,      \* symbol of each
          Action,      \* action of each
          OrderId,     \* order_id of each: the order it names, or NoOrder
          OrigClientId,\* orig_client_order_id of each: the signal it comes from
          NoOrder,     \* an id that is NULL
          MaxOrders    \* bound: orders placed under one client order id

Actions == {"PLACE_ORDER", "CANCEL_ORDER", "CANCEL_ALL_ORDERS"}

\* deterministic_client_order_id gives every attempt to place the order of a
\* signal the same client order id, here the signal itself; the exchange tells
\* the attempts apart: <<s, n>> is the order id of the n-th order placed for s.
\* An id that no order has is one of these that is never placed.
Orders == Signals \X (1..MaxOrders)

ASSUME SignalAssumption ==
  /\ Signals \subseteq Nat
  /\ IsFiniteSet(Signals)
  /\ NoOrder \notin Signals
  /\ Ts \in [Signals -> Nat]
  /\ Priority \in [Signals -> Int]
  /\ Invalid \subseteq Signals
  /\ Action \in [Signals -> Actions]
  /\ MaxOrders \in Nat
  /\ NoOrder \notin Orders
  /\ OrderId \in [Signals -> Orders \cup {NoOrder}]
  /\ OrigClientId \in [Signals -> Signals \cup {NoOrder}]

Places(s) == Action[s] = "PLACE_ORDER"

\* The ids of s identify no order but its own.  Only CANCEL_ORDER needs ids,
\* yet from_row takes them from a row of any action, and a client order id that
\* no order has from every row whose producer leaves the column to its default.
NamesNoOther(s) ==
  /\ OrderId[s] = NoOrder
  /\ OrigClientId[s] \in Signals \ {s} => ~Places(OrigClientId[s])

=============================================================================
