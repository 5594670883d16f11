----------------------------- MODULE MCEngineV3 -----------------------------
(* EngineV3 with the setups TLC gives a cycle: a clean one and one for each *)
(* way in which it may fall short.                                         *)
EXTENDS EngineV3

Good == [permission |-> "allow", grade |-> "A", direction |-> "bullish",
         confidence |-> 80, flagged |-> FALSE]
Plain == [entry |-> 100, stop |-> 90, target |-> 115, atr |-> 10, complete |-> TRUE]
Clean == [news |-> Good, market |-> Good, chart |-> Good, geometry |-> Plain,
          inWindow |-> TRUE, nearEnd |-> FALSE, spread |-> 5, maxSpread |-> 15,
          slippage |-> 1, maxSlippage |-> 4, pairStatus |-> "production",
          broker |-> "practice", atrValid |-> TRUE, units |-> 10, overRiskCap |-> FALSE]

MCSetups ==
    {Clean,
     [Clean EXCEPT !.atrValid = FALSE],
     [Clean EXCEPT !.units = 0],
     [Clean EXCEPT !.news = Missing],
     [Clean EXCEPT !.chart.direction = "bearish"],
     [Clean EXCEPT !.market.flagged = TRUE],
     [Clean EXCEPT !.geometry.target = 111],
     [Clean EXCEPT !.spread = 14],
     [Clean EXCEPT !.slippage = -1],
     [Clean EXCEPT !.broker = "sandbox"],
     [Clean EXCEPT !.pairStatus = "monitoring", !.broker = "live"]}
MCLosses == {0, 1}
=============================================================================
