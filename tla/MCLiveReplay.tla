---------------------------- MODULE MCLiveReplay ----------------------------
(* LiveReplay over a market that closes for two instants.                  *)
EXTENDS LiveReplay

MCPairs == <<"EUR_USD", "USD_JPY">>
MCTraded == {0, 1, 2, 5}
=============================================================================
