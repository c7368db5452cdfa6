------------------------------ MODULE MarketData ------------------------------
(***************************************************************************)
(* The first half of pipeline.py's process(): order book, fair price and   *)
(* shock state take in one event after the other.  What they make of it    *)
(* together is the View that Pipeline has as its input.                    *)
(*                                                                         *)
(* Every event, of whatever kind, refreshes the fair price and the shock   *)
(* state.                                                                  *)
(***************************************************************************)
EXTENDS Shock

CONSTANTS
  Snapshots, Deltas,       (* [bids, asks] of the order book events         *)
  Sequences,               (* their sequence numbers                        *)
  Prints,                  (* [side, price, amount] of the trades           *)
  Tickers, Externals,      (* [buy, sell, last]; [name, fair, lag]          *)
  MaxTrades                (* bound: trades in the recording                *)

IsPrices(prices) == IsFiniteSet(prices) /\ prices \subseteq Nat \ {0}
IsSide(side) == IsPrices(DOMAIN side) /\ side \in [DOMAIN side -> Nat \ {0}]
IsLevels(side) == IsPrices(DOMAIN side) /\ side \in [DOMAIN side -> Nat]

ASSUME MarketDataAssumption ==
  /\ \A m \in Snapshots \cup Deltas :
       m = [bids |-> m.bids, asks |-> m.asks] /\ IsLevels(m.bids) /\ IsLevels(m.asks)
  /\ Sequences \subseteq Nat \cup {None}
  /\ Prints \subseteq [side : Sides, price : Nat, amount : Nat]
  /\ LET Price == Nat \cup {None}
     IN  /\ Tickers \subseteq [buy : Price, sell : Price, last : Price]
         /\ Externals \subseteq [name : ExternalNames, fair : Price, lag : Int \cup {None}]
  /\ MaxTrades \in Nat

VARIABLE tape        (* history: every trade of the recording, [ts, side, notional] *)

dataVars == <<bookVars, now, sources, shockVars, tape>>

DataInit ==
  /\ OrderBookInit /\ ShockInit
  /\ now = 0 /\ sources = NoSources /\ tape = <<>>

-------------------------------------------------------------------------------
Advance ==
  \E dt \in TimeSteps :
    now + dt \in 0..MaxTime /\ now' = now + dt

(***************************************************************************)
(* What follows every event: the fair price engine hears what it says,     *)
(* the shock activator gets the trades in it.                              *)
(***************************************************************************)
Refresh(heard, prints) ==
  /\ Hear(heard)
  /\ Window(prints)
  /\ Detect
  /\ tape' = tape \o prints

SnapshotEvent(m, seq) ==
  /\ Advance
  /\ ApplySnapshot([bids |-> m.bids, asks |-> m.asks, seq |-> seq, ts |-> now'])
  /\ Refresh(NoSources, <<>>)

DeltaEvent(m, seq) ==
  /\ Advance
  /\ ApplyDelta([bids |-> m.bids, asks |-> m.asks, seq |-> seq, ts |-> now'])
  /\ Refresh(NoSources, <<>>)

PrintEvent(t) ==
  /\ Len(tape) < MaxTrades
  /\ Advance /\ UNCHANGED bookVars
  /\ Refresh(NoSources, <<[ts |-> now', side |-> t.side, notional |-> t.price * t.amount]>>)

TickerEvent(t) ==
  /\ Advance /\ UNCHANGED bookVars
  /\ Refresh(TickerSource(t, now'), <<>>)

ExternalEvent(q) ==
  /\ Advance /\ UNCHANGED bookVars
  /\ Refresh(ExternalSource(q, now'), <<>>)

(***************************************************************************)
(* A status, pair spec or raw event: time goes by.                         *)
(***************************************************************************)
OtherEvent ==
  /\ Advance /\ UNCHANGED bookVars
  /\ Refresh(NoSources, <<>>)

DataNext ==
  \/ \E m \in Snapshots, seq \in Sequences : SnapshotEvent(m, seq)
  \/ \E m \in Deltas, seq \in Sequences : DeltaEvent(m, seq)
  \/ \E t \in Prints : PrintEvent(t)
  \/ \E t \in Tickers : TickerEvent(t)
  \/ \E q \in Externals : ExternalEvent(q)
  \/ OtherEvent

DataSpec == DataInit /\ [][DataNext]_dataVars

(***************************************************************************)
(* What Pipeline sees of it.                                               *)
(***************************************************************************)
MarketView ==
  [fair |-> Fair, bid |-> BestBid, ask |-> BestAsk, depth |-> Depth(20), stale |-> stale,
   act |-> Activation, bidAct |-> SideActivation("sell_shock"), askAct |-> SideActivation("buy_shock")]

-------------------------------------------------------------------------------
(***************************************************************************)
(* The values the state ranges over, the view that Pipeline assumes among  *)
(* them.                                                                   *)
(***************************************************************************)
DataTypeOK ==
  /\ IsSide(bids) /\ IsSide(asks)
  /\ lastSequence \in Nat \cup {None} /\ lastTs \in Nat \cup {None} /\ stale \in BOOLEAN
  /\ now \in 0..MaxTime
  /\ DOMAIN sources \subseteq OwnNames \cup ExternalNames
  /\ sources \in [DOMAIN sources -> [fair : Nat \ {0}, ts : Int]]
  /\ trades \in Seq([ts : Nat, side : Sides, notional : Nat])
  /\ lastShock \in [ts : Nat, direction : Directions] \cup {None}
  /\ MarketView \in View

(***************************************************************************)
(* The book counts as a source exactly as it is now: with its present mid, *)
(* and only while it is fresh, uncrossed and young.  A source once put in  *)
(* must not outlive the book it came from.                                 *)
(***************************************************************************)
BookSourceIsCurrent ==
  "book" \in DOMAIN sources =>
    /\ ~stale /\ BestBid < BestAsk
    /\ sources["book"].fair = (BestBid + BestAsk) \div 2
    /\ now - lastTs <= StaleAfter

(***************************************************************************)
(* A fair price has the support it is configured to need: at least         *)
(* MinSources names gave one for a recent enough time, and it lies between *)
(* them.  The time is the one a source gives for itself: an external quote *)
(* that arrives late may be too old at once, and one whose clock is ahead  *)
(* counts for longer.                                                      *)
(***************************************************************************)
FairIsSupported ==
  LET recent == {n \in DOMAIN sources : sources[n].ts >= now - MaxSourceAge}
  IN  Fair # None =>
        /\ Cardinality(recent) >= MinSources
        /\ \E a, b \in recent : sources[a].fair <= Fair /\ Fair <= sources[b].fair

(***************************************************************************)
(* While time does not go back, the deque is the window: the pressure      *)
(* counts every trade of the last ShockWindow and no older one.            *)
(***************************************************************************)
Flow(side, k, s) ==      \* among the first k trades, in the window that ends at s
  SumFunctionOnSet([n \in 1..Len(tape) |-> tape[n].notional],
                   {n \in 1..k : tape[n].side = side /\ tape[n].ts \in s - ShockWindow..s})
PressureIsTheWindow ==
  Bought = Flow("buy", Len(tape), now) /\ Sold = Flow("sell", Len(tape), now)

(***************************************************************************)
(* "The bot should avoid catching the first falling knife" (goal, shock    *)
(* activator): a side is active only if, MinWait ago or earlier, there was *)
(* a window in which takers leaned on it.                                  *)
(***************************************************************************)
LeanedOn(side, other) ==
  \E k \in 0..Len(tape), s \in 0..(now - MinWait) : Flow(side, k, s) > Flow(other, k, s)
ActivationFollowsTheBurst ==
  OppositeRatio = 0 =>
    /\ MarketView.bidAct > 0 => LeanedOn("sell", "buy")
    /\ MarketView.askAct > 0 => LeanedOn("buy", "sell")
===============================================================================
