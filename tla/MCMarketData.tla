----------------------------- MODULE MCMarketData -----------------------------
(***************************************************************************)
(* A small instance of MarketData for TLC: a book in order, a crossed one, *)
(* a delta that thickens a level and one that empties a side, usable and   *)
(* crossed tickers, external quotes: near the book and late, far off and   *)
(* on time.                                                                *)
(***************************************************************************)
EXTENDS MarketData, TLC

MCSnapshots ==
  {[bids |-> 998 :> 1, asks |-> 1002 :> 1], [bids |-> 1002 :> 1, asks |-> 998 :> 1]}
MCDeltas ==
  {[bids |-> 998 :> 2, asks |-> EmptySide], [bids |-> EmptySide, asks |-> 1002 :> 0]}
MCPrints == {[side |-> "sell", price |-> 998, amount |-> 2], [side |-> "buy", price |-> 1002, amount |-> 3]}
MCTickers ==
  {[buy |-> 998, sell |-> 1004, last |-> None], [buy |-> 1004, sell |-> 998, last |-> 1002]}
MCExternals ==
  {[name |-> "usd", fair |-> 1001, lag |-> 2], [name |-> "usd", fair |-> 1200, lag |-> None]}
===============================================================================
