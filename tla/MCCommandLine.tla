--------------------------- MODULE MCCommandLine ---------------------------
(***************************************************************************)
(* One position of each kind of margin, a process that asks for all         *)
(* positions and one that asks for the first only.                          *)
(***************************************************************************)
EXTENDS CommandLine

CONSTANTS s1, s2, p1, p2

MCAsked == [s \in Syncers |-> IF s = s1 THEN Positions ELSE {p1}]

MCBook ==
  [s \in Symbols |->
     IF s = "BTCUSDT" THEN [side |-> "LONG", entry |-> 2, quantity |-> 1, leverage |-> 2]
     ELSE [side |-> "SHORT", entry |-> 3, quantity |-> 2, leverage |-> 1]]

MCStreamOf == [s \in Symbols |-> IF s = "BTCUSDT" THEN "usdt" ELSE "coin"]

=============================================================================
