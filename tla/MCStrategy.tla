------------------------------ MODULE MCStrategy ------------------------------
(***************************************************************************)
(* A small instance of Strategy for TLC: a book and one that lost its      *)
(* asks; an update out of order; a ticker below the book; a trade on       *)
(* either side that is a shock and reaches both levels of the quotes, and  *)
(* one that is no shock and fills a part of one.  The pair's metadata      *)
(* disable it or stop its buy side.                                        *)
(***************************************************************************)
EXTENDS Strategy, TLC

MCSnapshots ==
  {[bids |-> 998 :> 2, asks |-> 1002 :> 2], [bids |-> 998 :> 2, asks |-> EmptySide]}
MCDeltas == {[bids |-> 998 :> 2, asks |-> EmptySide]}
MCTickers == {[buy |-> 988, sell |-> 992, last |-> None]}
MCPrints ==
  {[side |-> "sell", price |-> 997, amount |-> 3], [side |-> "sell", price |-> 997, amount |-> 7],
   [side |-> "buy", price |-> 1002, amount |-> 8]}
MCPairSpecs == {{"disabled"}, {"stop_buy"}}
===============================================================================
