------------------------------- MODULE Pipeline -------------------------------
(***************************************************************************)
(* pipeline.py, GhostAmmPipeline.process: one event at a time through      *)
(* metadata, market, fill model, inventory, risk kernel, quote surface and *)
(* projector.  Replay and public dry-run share it.                         *)
(*                                                                         *)
(* process() runs without interruption, but it can be left half way: an    *)
(* exception abandons the steps that are still to come.  So its phases are *)
(* steps of their own:                                                     *)
(*   idle   between two calls;                                             *)
(*   match  on_market_event hands the trade's amount to tracked orders;    *)
(*   book   the fills enter inventory, risk and projector, then (Decide)   *)
(*          risk, quotes and projector settle what rests on the book;      *)
(*   failed the exception ended the replay.                                *)
(*                                                                         *)
(* The market data modules are the environment here: an event brings any   *)
(* of the Views that book, fair price and shock state can form.            *)
(***************************************************************************)
EXTENDS FillModel, RiskKernel, Clock

CONSTANTS
  Views, Trades,           (* what events can bring: market views, trade prints *)
  PairSpecs, PairFees,     (* fetched pair specs: sets of stop flags, fees in bps *)
  VisibleQueues,           (* amounts the book may show at an order's price *)
  MaxCounter,              (* bound: no new event once the projector counted so far *)
  FeeFromPairSpec,         (* fee.maker_fee_source is bitbank_pair_spec *)
  ClampNegativeFee,        (* fee.negative_maker_fee_policy is clamp_to_zero *)
  SwallowErrors            (* FALSE: replay ends on an exception; TRUE: dry-run, *)
                           (* where the socket client only logs it               *)

ASSUME PipelineAssumption ==
  /\ Views \subseteq View
  /\ Trades \subseteq [side : Sides, price : Nat, amount : Nat]
  /\ PairSpecs \subseteq SUBSET {"disabled", "stop", "stop_buy", "stop_sell"}
  /\ PairFees \subseteq Int /\ VisibleQueues \subseteq Nat
  /\ MaxCounter \in Nat
  /\ FeeFromPairSpec \in BOOLEAN /\ ClampNegativeFee \in BOOLEAN
  /\ SwallowErrors \in BOOLEAN

VARIABLES
  pc,
  view,        (* the market after the current event *)
  pairSpec,    (* {} or "fetched" with the pair's stop flags *)
  status,      (* "unfetched", "normal" or "abnormal" *)
  trade,       (* the trade being processed, None otherwise *)
  fills,       (* fills of the trade still to be booked, [id, side, price, size] *)
               (* and, as history, the order's created                           *)
  allowed,     (* last_risk: the sides the last completed event allows *)
  emitted,     (* what the report makes of the fills in process()'s `emitted` list *)
  ledger,      (* and of all the fills process() has returned: [base, quote] *)
  fillLog      (* history: every fill that was booked, [ts, side], kept while *)
               (* the fill burst stop is on                                   *)

marketVars == <<view, pairSpec, status>>
outputVars == <<emitted, ledger, fillLog>>
vars == <<pc, now, marketVars, trade, fills, allowed, outputVars,
          inventoryVars, projectorVars, fillModelVars, riskVars>>

Nothing == [base |-> 0, quote |-> 0]

Init ==
  /\ InventoryInit /\ ProjectorInit /\ FillModelInit /\ RiskInit
  /\ pc = "idle" /\ now = 0 /\ view = InitialView
  /\ pairSpec = {} /\ status = "unfetched"
  /\ trade = None /\ fills = <<>> /\ allowed = {}
  /\ emitted = Nothing /\ ledger = Nothing /\ fillLog = <<>>

-------------------------------------------------------------------------------
(***************************************************************************)
(* The clock and the market move with the event.                           *)
(***************************************************************************)
Arrive(v, dt) ==
  /\ pc = "idle" /\ counter < MaxCounter
  /\ now + dt >= 0 /\ now + dt <= MaxTime
  /\ now' = now + dt
  /\ view' = v
  /\ UNCHANGED <<allowed, outputVars, inventoryVars, projectorVars, tracked>>

(***************************************************************************)
(* Only an order book event touches the order book; time alone can make a  *)
(* fair price or an activation lapse.                                      *)
(***************************************************************************)
SameBook(v) ==
  /\ v.bid = view.bid /\ v.ask = view.ask /\ v.depth = view.depth /\ v.stale = view.stale

(***************************************************************************)
(* An order book, ticker or circuit break event: nothing to match.         *)
(***************************************************************************)
MarketEvent(v, dt) ==
  /\ Arrive(v, dt)
  /\ pc' = "book"
  /\ UNCHANGED <<pairSpec, status, trade, fills, makerFee, eligible, flow, absorbed, riskVars>>

(***************************************************************************)
(* _ingest_metadata.                                                       *)
(***************************************************************************)
PairSpecEvent(v, dt) ==
  /\ Arrive(v, dt) /\ SameBook(v)
  /\ \E stops \in PairSpecs, bps \in PairFees :
       /\ pairSpec' = {"fetched"} \cup stops
       /\ makerFee' = IF ~FeeFromPairSpec THEN makerFee
                      ELSE IF bps < 0 /\ ClampNegativeFee THEN 0 ELSE bps
  /\ pc' = "book"
  /\ UNCHANGED <<status, trade, fills, eligible, flow, absorbed, riskVars>>

StatusEvent(v, dt) ==
  /\ Arrive(v, dt) /\ SameBook(v)
  /\ status' \in {"normal", "abnormal"}
  /\ pc' = "book"
  /\ UNCHANGED <<pairSpec, trade, fills, makerFee, eligible, flow, absorbed, riskVars>>

(***************************************************************************)
(* A trade: risk remembers it, the fill model lists whom it can reach.     *)
(***************************************************************************)
TradeEvent(v, dt) ==
  /\ Arrive(v, dt) /\ SameBook(v)
  /\ trade' \in Trades
  /\ RecordTrade(trade'.price, now')
  /\ eligible' = Eligible(trade', now')
  /\ flow' = trade'.amount /\ absorbed' = 0
  /\ pc' = "match"
  /\ UNCHANGED <<pairSpec, status, fills, makerFee,
                 fairHistory, fillHistory, inventoryChanges, cooldownUntil>>

(***************************************************************************)
(* One round of on_market_event's loop, for the first order in line.       *)
(***************************************************************************)
Match(i) ==
  /\ pc = "match" /\ flow > 0
  /\ IsFirst(i)
  /\ Consume(i)
  /\ absorbed' = absorbed + QueueOf(i) - QueueOf(i)'
  /\ fills' = IF FilledBy(tracked[i]) = 0 THEN fills
              ELSE Append(fills, [id |-> i, side |-> tracked[i].side,
                                  price |-> tracked[i].price, size |-> FilledBy(tracked[i]),
                                  created |-> tracked[i].created])
  /\ UNCHANGED <<pc, now, marketVars, trade, allowed, outputVars,
                 inventoryVars, projectorVars, makerFee, riskVars>>

EndMatch ==
  /\ pc = "match" /\ (flow = 0 \/ eligible = {})
  /\ pc' = "book" /\ eligible' = {} /\ flow' = 0 /\ absorbed' = 0
  /\ UNCHANGED <<now, marketVars, trade, fills, allowed, outputVars,
                 inventoryVars, projectorVars, tracked, makerFee, riskVars>>

(***************************************************************************)
(* One round of process()'s loop over the fills.  apply_fill moves the     *)
(* balances, then either raises, which abandons the event and the list of  *)
(* events it had emitted, or lets risk and projector follow.  Reported is  *)
(* how metrics.summarize will turn the emitted fill into balances again.   *)
(***************************************************************************)
Reported(sum, fill) ==
  LET fee == Fee(fill.price, fill.size)
  IN  IF fill.side = "buy"
      THEN [base |-> sum.base + fill.size, quote |-> sum.quote - (fill.price * fill.size + fee)]
      ELSE [base |-> sum.base - fill.size, quote |-> sum.quote + (fill.price * fill.size - fee)]

Abandon ==
  /\ pc' = IF SwallowErrors THEN "idle" ELSE "failed"
  /\ fills' = <<>> /\ trade' = None /\ emitted' = Nothing
  /\ UNCHANGED <<ledger, fillLog, riskVars, projectorVars>>

Emit(fill) ==
  /\ RecordFill(fill.side, now, fill.price, fill.size)
  /\ RemoveFilled(fill.id)
  /\ emitted' = Reported(emitted, fill)
  /\ fillLog' = IF MaxSameSideFills > 0 THEN Append(fillLog, [ts |-> now, side |-> fill.side])
                ELSE fillLog
  /\ fills' = Tail(fills)
  /\ UNCHANGED <<pc, trade, ledger>>

Book ==
  /\ pc = "book" /\ fills # <<>>
  /\ LET fill == Head(fills)
     IN  /\ ApplyFill(fill.side, fill.price, fill.size, Fee(fill.price, fill.size))
         /\ IF Overdrawn(base', quote') THEN Abandon ELSE Emit(fill)
  /\ UNCHANGED <<now, marketVars, allowed, fillModelVars>>

(***************************************************************************)
(* The rest of process(): evaluate, generate, sync, and sync's events into *)
(* the fill model.  Returning hands the emitted fills to the caller.       *)
(***************************************************************************)
Decide ==
  /\ pc = "book" /\ fills = <<>>
  /\ LET sides   == Allowed(view, pairSpec, status, now)
         quotes  == Generate(view, Skew(view.fair))
         desired == DesiredKeys(quotes, view, sides)
     IN  /\ allowed' = sides
         /\ Sync(quotes, view, sides, now)
         /\ \E visible \in [desired -> VisibleQueues] :
              tracked' = TrackedAfter(Synced(quotes, view, sides, now),
                                      Kept(quotes, desired, view, sides, now), visible)
  /\ Evaluate(view, pairSpec, status, now)
  /\ ledger' = [base |-> ledger.base + emitted.base, quote |-> ledger.quote + emitted.quote]
  /\ emitted' = Nothing
  /\ pc' = "idle" /\ trade' = None
  /\ UNCHANGED <<now, marketVars, fills, fillLog, inventoryVars, makerFee, eligible, flow, absorbed>>

Receive(v, dt) ==
  MarketEvent(v, dt) \/ PairSpecEvent(v, dt) \/ StatusEvent(v, dt) \/ TradeEvent(v, dt)

Next ==
  \/ \E v \in Views, dt \in TimeSteps : Receive(v, dt)
  \/ \E i \in eligible : Match(i)
  \/ EndMatch
  \/ Book
  \/ Decide

Spec == Init /\ [][Next]_vars
===============================================================================
