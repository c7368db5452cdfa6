-------------------------------- MODULE Market --------------------------------
(***************************************************************************)
(* The vocabulary the strategy modules share: sides, the optional value,   *)
(* and the market as process() sees it after the order book, the fair      *)
(* price engine and the shock activator have taken an event in.            *)
(*                                                                         *)
(* Prices, sizes and times are integers (ticks, lots, clock units).        *)
(***************************************************************************)
EXTENDS Integers, FiniteSets, Sequences

CONSTANTS
  None,            (* Python's None *)
  MaxOrderSize,    (* amm.max_order_size: caps a quote, and what risk reserves *)
  MaxSpreadBps     (* market.max_spread_bps: of the fair price and of risk     *)

ASSUME MarketAssumption == None \notin Int /\ MaxOrderSize \in Nat /\ MaxSpreadBps \in Nat

Sides == {"buy", "sell"}

MinOf2(a, b) == IF a <= b THEN a ELSE b
MaxOf2(a, b) == IF a >= b THEN a ELSE b
Distance(a, b) == IF a >= b THEN a - b ELSE b - a

(***************************************************************************)
(* fair    FairPriceState.fair, None when the state is not valid           *)
(* bid,ask OrderBook.best_bid / best_ask, None on an empty side            *)
(* depth   OrderBook.depth_around_mid(20): 0 when the book is crossed      *)
(* stale   OrderBook.stale                                                 *)
(* act     ShockState.activation, bidAct and askAct its two sides          *)
(***************************************************************************)
View == [fair : Nat \cup {None}, bid : Nat \cup {None}, ask : Nat \cup {None},
         depth : Nat, stale : BOOLEAN, act : Nat, bidAct : Nat, askAct : Nat]

(***************************************************************************)
(* The state before the first event: no fair price, an empty stale book.   *)
(***************************************************************************)
InitialView == [fair |-> None, bid |-> None, ask |-> None, depth |-> 0,
                stale |-> TRUE, act |-> 0, bidAct |-> 0, askAct |-> 0]

(***************************************************************************)
(* OrderBook.spread_bps compared with a limit, by cross multiplication:    *)
(* (ask - bid) / ((bid + ask) / 2) * 10000 > limit.                        *)
(***************************************************************************)
MissingSpread(v) == IF v.bid = None \/ v.ask = None THEN TRUE ELSE v.bid + v.ask = 0
SpreadAbove(v, limitBps) == 20000 * (v.ask - v.bid) > limitBps * (v.bid + v.ask)

(***************************************************************************)
(* A deque that loses its head while the head is older than the window:    *)
(* everything from the first young entry on stays, in order.               *)
(***************************************************************************)
Expire(deque, now, window) ==
  LET old == {i \in 1..Len(deque) : \A j \in 1..i : now - deque[j].ts > window}
  IN  SubSeq(deque, Cardinality(old) + 1, Len(deque))
===============================================================================
