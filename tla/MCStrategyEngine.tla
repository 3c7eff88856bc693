-------------------------- MODULE MCStrategyEngine --------------------------
(***************************************************************************)
(* Instances of StrategyEngine.  Signal 1 places an order; 2 and 3 carry a  *)
(* later timestamp, the same for both, and 3 has the higher priority.       *)
(***************************************************************************)
EXTENDS StrategyEngine

MCTs == [s \in Signals |-> IF s = 1 THEN 1 ELSE 2]
MCPriority == [s \in Signals |-> IF s = 3 THEN 5 ELSE 0]
MCSymbol == [s \in Signals |-> "BTCUSDT"]

\* 2 cancels the order of 1, which it names by its client order id.
MCPlaceAndCancel == [s \in Signals |-> IF s = 2 THEN "CANCEL_ORDER" ELSE "PLACE_ORDER"]
MCNoOrderId == [s \in Signals |-> NoOrder]
MCCancelsByClientId == [s \in Signals |-> IF s = 2 THEN 1 ELSE NoOrder]

\* 2 places a second order and 3 cancels all of them.  The row of 3 names the
\* order of 1, the row of 2 a client order id that no order has.
MCPlaceAndCancelAll == [s \in Signals |-> IF s = 3 THEN "CANCEL_ALL_ORDERS" ELSE "PLACE_ORDER"]
MCNamesFirst == [s \in Signals |-> IF s = 3 THEN <<1, 1>> ELSE NoOrder]
MCForeignClientId == [s \in Signals |-> IF s = 2 THEN 3 ELSE NoOrder]

=============================================================================
