------------------------------- MODULE Strategy -------------------------------
(***************************************************************************)
(* The whole of pipeline.py's process(): the market data modules feed the  *)
(* pipeline.  An event of MarketData is taken in, the view it leaves is    *)
(* the pipeline's input, and the pipeline's own steps settle the event     *)
(* before the next one is received.                                        *)
(*                                                                         *)
(* Pipeline has any view for an input and any amount for the queue at an   *)
(* order's price; here both are the order book's, and Pipeline's own Next, *)
(* which takes in any of its Views, plays no part.  External fair prices   *)
(* are not part of bitbank's stream and left out.                          *)
(***************************************************************************)
EXTENDS MarketData, LiveGates, PipelineSafety

Amounts ==
  {0} \cup UNION {{m.bids[p] : p \in DOMAIN m.bids} \cup {m.asks[p] : p \in DOMAIN m.asks} :
                  m \in Snapshots \cup Deltas}

Events == [kind : {"market", "trade", "metadata"}, print : Prints \cup {None}]

ASSUME StrategyAssumption ==
  Prints \subseteq Trades /\ Amounts \subseteq VisibleQueues /\ None \notin Events

VARIABLES
  event,       (* what was taken in and is still to be processed: None, or *)
               (* one of Events, print None if it is not a trade           *)
  marks        (* history: the fair prices of the last LongHorizon, and *)
               (* whether risk allowed a side then, [ts, fair, open]    *)

ammVars == <<pc, marketVars, trade, fills, allowed, outputVars,
             inventoryVars, projectorVars, fillModelVars, riskVars>>
strategyVars == <<event, marks, dataVars, ammVars>>

StrategyInit == DataInit /\ Init /\ event = None /\ marks = <<>>

-------------------------------------------------------------------------------
(***************************************************************************)
(* The event goes through the market data modules first ...                *)
(***************************************************************************)
Take(next, kind, print) ==
  /\ event = None /\ pc = "idle"
  /\ next
  /\ event' = [kind |-> kind, print |-> print]
  /\ UNCHANGED <<ammVars, marks>>

Ingest ==
  \/ \E m \in Snapshots, seq \in Sequences : Take(SnapshotEvent(m, seq), "market", None)
  \/ \E m \in Deltas, seq \in Sequences : Take(DeltaEvent(m, seq), "market", None)
  \/ \E t \in Tickers : Take(TickerEvent(t), "market", None)
  \/ \E t \in Prints : Take(PrintEvent(t), "trade", t)
  \/ Take(OtherEvent, "metadata", None)

(***************************************************************************)
(* ... and then, at the same time, to the fill model and the rest, with    *)
(* the view they leave.                                                    *)
(***************************************************************************)
Process ==
  /\ event # None /\ event' = None
  /\ \/ event.kind = "market" /\ MarketEvent(MarketView, 0)
     \/ event.kind = "metadata" /\ PairSpecEvent(MarketView, 0)
     \/ event.kind = "metadata" /\ StatusEvent(MarketView, 0)
     \/ event.kind = "trade" /\ trade' = event.print /\ TradeEvent(MarketView, 0)
  /\ UNCHANGED <<dataVars, marks>>

(***************************************************************************)
(* on_virtual_order reads the queue from the book: queue_at looks an order *)
(* up on its own side.                                                     *)
(***************************************************************************)
QueueAt(side, price) ==
  LET levels == IF side = "buy" THEN bids ELSE asks
  IN  IF price \in DOMAIN levels THEN levels[price] ELSE 0
QueuesAreVisible ==
  \A i \in DOMAIN tracked' \ DOMAIN tracked :
    LET o == tracked'[i] IN o.queue = QueueMultiplier * MaxOf2(QueueAt(o.side, o.price), o.size)

Mark ==
  marks' = IF Fair = None THEN Expire(marks, now, LongHorizon)
           ELSE Expire(Append(marks, [ts |-> now, fair |-> Fair, open |-> allowed' # {}]), now, LongHorizon)

Settle ==
  /\ EndMatch \/ Book \/ \E i \in eligible : Match(i)
  /\ UNCHANGED <<event, dataVars, marks>>

Requote ==
  /\ Decide /\ QueuesAreVisible /\ Mark
  /\ UNCHANGED <<event, dataVars>>

StrategyNext == Ingest \/ Process \/ Settle \/ Requote

StrategySpec == StrategyInit /\ [][StrategyNext]_strategyVars

-------------------------------------------------------------------------------
(***************************************************************************)
(* The values the state ranges over, in both halves.                       *)
(***************************************************************************)
StrategyTypeOK ==
  /\ DataTypeOK /\ TypeOK /\ event \in Events \cup {None}
  /\ marks \in Seq([ts : Nat, fair : Nat, open : BOOLEAN])

AtRest == event = None /\ pc = "idle"
Quoted == {Side(k) : k \in DOMAIN active}

(***************************************************************************)
(* Orders rest only in a market ("risk checks: invalid fair price, spread  *)
(* too wide, book too thin, activation too low ... sequence ordering       *)
(* violation", goal): after every event the book they rest in is in order, *)
(* uncrossed, narrow and deep enough, and the fair price they were priced  *)
(* from has sources that spoke lately, whatever kind of event it was and   *)
(* whatever part of the market it changed.                                 *)
(***************************************************************************)
QuotesHaveAMarket ==
  AtRest /\ active # NothingAtAll =>
    /\ ~stale /\ HasMid /\ ~TooWide /\ Depth(20) >= MinDepth
    /\ Cardinality({n \in DOMAIN sources : now - sources[n].ts <= MaxSourceAge}) >= MinSources
    /\ \A k \in DOMAIN active :
         IF Side(k) = "buy" THEN active[k].price < BestAsk ELSE active[k].price > BestBid

(***************************************************************************)
(* "Do not activate immediately on the first shock tick" (goal): no order  *)
(* rests that was decided before the wait of the LATEST shock was over,    *)
(* on whichever side, and with no activation of the opposite side, only    *)
(* the side that was hit is quoted.                                        *)
(***************************************************************************)
NewShockPullsTheQuotes ==
  AtRest /\ MinWait > 0 /\ MinActivation > 0 =>
    \A k \in DOMAIN active :
      /\ lastShock # None
      /\ active[k].created - lastShock.ts >= MinWait
      /\ OppositeRatio = 0 =>
           lastShock.direction = IF Side(k) = "buy" THEN "sell_shock" ELSE "buy_shock"

(***************************************************************************)
(* Fair drift stop: when the fair price has moved against a side by its    *)
(* limit since one of the two horizons, the side is not quoted.  The stop  *)
(* can only compare with an event that no early return kept out of the     *)
(* kernel's history (risk/kernel.py:104).  Every event at which risk       *)
(* allowed a side is in it, and the property speaks of those.              *)
(***************************************************************************)
Limit(side, horizon) ==
  IF side = "buy" THEN IF horizon = ShortHorizon THEN MaxDropShort ELSE MaxDropLong
                  ELSE IF horizon = ShortHorizon THEN MaxRiseShort ELSE MaxRiseLong
Against(side, prior) == 10000 * (IF side = "buy" THEN prior - Fair ELSE Fair - prior)
MarksBefore(horizon) == {n \in DOMAIN marks : marks[n].ts <= now - horizon}
DriftStops ==
  AtRest => \A side \in Quoted, horizon \in {ShortHorizon, LongHorizon} :
    Limit(side, horizon) > 0 /\ MarksBefore(horizon) # {} =>
      LET then == marks[Max(MarksBefore(horizon))]
      IN  then.open => Against(side, then.fair) < Limit(side, horizon) * then.fair

(***************************************************************************)
(* "A live order must be impossible unless all gates pass" (goal): kernel  *)
(* and projector, which decide what is placed, and the live gates, written *)
(* a second time, agree.  With every setting open the gates refuse an      *)
(* order that was placed now only because metadata were never fetched,     *)
(* which the kernel lets pass (the pair spec if it is told to).            *)
(***************************************************************************)
GatesAgreeWithTheKernel ==
  AtRest /\ OpenGates = ConfigGates => \A k \in DOMAIN active :
    active[k].created = now =>
      GateReason(Side(k), active[k], view, pairSpec, status, allowed) \in
        {"mvp_live_submission_disabled"}
          \cup (IF status = "unfetched" THEN {"bitbank_status_not_normal"} ELSE {})
          \cup (IF pairSpec = {} /\ ~BlockUnfetchedSpec THEN {"pair_metadata_unfetched"} ELSE {})

-------------------------------------------------------------------------------
(***************************************************************************)
(* "Risk checks: ... stale market data" (goal): no order rests in a book   *)
(* that has not been heard of for stale_after_ms.                          *)
(***************************************************************************)
QuotesNeedAYoungBook == AtRest /\ active # NothingAtAll => now - lastTs <= StaleAfter
===============================================================================
