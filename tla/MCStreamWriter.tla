--------------------------- MODULE MCStreamWriter ---------------------------
(***************************************************************************)
(* Instances of StreamWriter.  Record 2 comes late, from a window before    *)
(* that of record 1; record 3 is of that window too, of another symbol;     *)
(* record 4 repeats the window of record 1.                                 *)
(***************************************************************************)
EXTENDS StreamWriter

MCStores == <<"influxdb", "kafka">>
MCSymbol == [r \in Records |-> IF r = 3 THEN "ETHUSDT" ELSE "BTCUSDT"]
MCSampled == [r \in Records |-> <<2, 1, 1, 2>>[r]]
MCUnsampled == [r \in Records |-> NoWindow]

=============================================================================
