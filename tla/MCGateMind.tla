------------------------------- MODULE MCGateMind -------------------------------
(***************************************************************************)
(* A handful of calls that differ in one respect each: what every rule of  *)
(* the ladder answers to, and pairs that share an audit id.                *)
(***************************************************************************)
EXTENDS GateMind

Brain(vote, grade) ==
    [present |-> TRUE, decision |-> vote, grade |-> grade, evidence |-> TRUE,
     good |-> TRUE, block |-> FALSE, flags |-> {}]

CallOf(news, market, chart, day, hour, symbol) ==
    [trio |-> [r \in Role |-> CASE r = "news" -> news [] r = "market" -> market
                                [] OTHER -> chart],
     now |-> [day |-> day, hour |-> hour], symbol |-> symbol]

Quiet == Brain("WAIT", "B")

Buy == Brain("BUY", "A")

Missing == [Quiet EXCEPT !.present = FALSE]

Killed == [Quiet EXCEPT !.flags = {"kill"}]

At(news, market, chart) == CallOf(news, market, chart, 0, 7, "EUR_USD")

\* One call for each answer of each rule: the chart buys and nobody objects, the same but for a
\* kill flag (and so with the same id) or for an unknown one, a vetoer objects or blocks, the
\* chart is below its grade or only watches, a brain is missing; and the first and last hour of a
\* window, the hour after one, and a Sunday evening.
MCCalls ==
    {At(Quiet, Quiet, Buy), At(Killed, Quiet, Buy), At(Quiet, Quiet, [Buy EXCEPT !.flags = {"unknown"}]),
     At(Quiet, Brain("SELL", "B"), Buy), At(Brain("BLOCK", "B"), Quiet, Buy),
     At(Brain("SELL", "A+"), Quiet, Brain("SELL", "A")),
     At(Quiet, Quiet, Brain("BUY", "B")), At(Brain("BUY", "A"), Quiet, Brain("WAIT", "A")),
     At(Missing, Quiet, Buy),
     CallOf(Quiet, Quiet, Brain("WAIT", "A"), 0, 20, "USD_JPY"),
     CallOf(Quiet, Quiet, Buy, 6, 20, "other"), CallOf(Quiet, Quiet, Buy, 0, 7, "USD_JPY")}
================================================================================
