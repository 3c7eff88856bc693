------------------------------ MODULE Exchange ------------------------------
(***************************************************************************)
(* The orders on the exchange, as the execution adapters of                 *)
(* engine/executor.py and the trade clients they call rely on it: a client  *)
(* order id is unique among the open orders only, an open order settles at  *)
(* any time, an order that is not open cannot be canceled.                  *)
(***************************************************************************)
EXTENDS TradingSignals

CONSTANTS PlaceResults,  \* order statuses an accepted order.place answers
          Settlements    \* statuses in which an open order ends

OrderStatus == {"NEW", "FILLED", "CANCELED", "REJECTED", "EXPIRED"}
ClosedStatus == OrderStatus \ {"NEW"}

ASSUME ExchangeAssumption ==
  /\ PlaceResults \subseteq OrderStatus
  /\ Settlements \subseteq ClosedStatus

VARIABLES orders,        \* status of every order, "NONE" before it is placed
          placed         \* how many orders have been placed for a signal

exchangeVars == <<orders, placed>>

ExchangeTypeOK ==
  /\ orders \in [Orders -> OrderStatus \cup {"NONE"}]
  /\ placed \in [Signals -> Nat]

InitExchange ==
  /\ orders = [o \in Orders |-> "NONE"]
  /\ placed = [s \in Signals |-> 0]

Exists(o) == o \in Orders /\ orders[o] # "NONE"
Open(o) == o \in Orders /\ orders[o] = "NEW"

\* The order that a request's order id and client order id identify: the order
\* id decides when there is one; a client order id names its latest order.
Identified(order, client) ==
  IF order # NoOrder \/ client = NoOrder THEN order ELSE <<client, placed[client]>>

PlaceOrder(s, result) ==
  /\ \A n \in 1..MaxOrders : ~Open(<<s, n>>)
  /\ placed[s] < MaxOrders
  /\ placed' = [placed EXCEPT ![s] = @ + 1]
  /\ orders' = [orders EXCEPT ![<<s, placed'[s]>>] = result]

CancelOrder(o) ==
  /\ Open(o)
  /\ orders' = [orders EXCEPT ![o] = "CANCELED"]
  /\ UNCHANGED placed

CancelOpenOrders(symbol) ==
  /\ orders' = [o \in Orders |-> IF Symbol[o[1]] = symbol /\ Open(o)
                                 THEN "CANCELED" ELSE orders[o]]
  /\ UNCHANGED placed

Settle ==
  /\ \E o \in Orders : \E e \in Settlements :
       /\ Open(o)
       /\ orders' = [orders EXCEPT ![o] = e]
  /\ UNCHANGED placed

=============================================================================
