------------------------------ MODULE MCPipeline ------------------------------
(***************************************************************************)
(* Small instances of Pipeline for TLC.                                    *)
(***************************************************************************)
EXTENDS PipelineSafety

Calm == [fair |-> 10, bid |-> 9, ask |-> 11, depth |-> 5, stale |-> FALSE,
         act |-> 2, bidAct |-> 2, askAct |-> 2]
\* the market moved up: resting sells of Calm now cross the bid
Up == [Calm EXCEPT !.fair = 13, !.bid = 12, !.ask = 14]
\* a broken sequence: the book stays as it is but is stale
Broken == [Calm EXCEPT !.stale = TRUE]
Thin == [Calm EXCEPT !.depth = 0]

CoreViews == {InitialView, Calm, Up, Thin}
CoreTrades == {[side |-> "sell", price |-> 8, amount |-> 3],
               [side |-> "buy", price |-> 12, amount |-> 1]}

\* after a sell shock only the bid side is active, and the fair price slips
BidOnly == [Calm EXCEPT !.askAct = 0]
Slipped == [BidOnly EXCEPT !.fair = 9]
RiskViews == {Calm, Slipped}
RiskTrades == {[side |-> "sell", price |-> 8, amount |-> 1],
               [side |-> "sell", price |-> 7, amount |-> 3],
               [side |-> "buy", price |-> 11, amount |-> 2]}
SomeStops == {{}, {"stop_sell"}}
Fees == {-1, 1}
===============================================================================
