------------------------------ MODULE RiskKernel ------------------------------
(***************************************************************************)
(* risk/kernel.py.  A decision is the set of sides that may be quoted: the *)
(* code's allow_quote is "not empty", its reasons only label the outputs.  *)
(*                                                                         *)
(* The clock unit is the module's own: the horizons that the code fixes in *)
(* milliseconds are constants, a threshold of 0 switches its check off.    *)
(***************************************************************************)
EXTENDS Inventory, Folds, Functions

CONSTANTS
  MinDepth, MinActivation, MaxAbsSkew,
  BlockUnfetchedSpec, BlockStatus, BlockStopFlags, BlockStale,
  MaxTradeDeviationBps, TradeMaxAge,     (* last_trade_fair_deviation        *)
  ShortHorizon, LongHorizon,             (* 1 s and 5 s                      *)
  MaxDropShort, MaxRiseShort, MaxDropLong, MaxRiseLong,
  MaxSameSideFills, BurstWindow, BurstCooldown,
  MaxBaseQty, MaxQuoteUsage, MaxInventoryNotional,
  MaxOneSideChange, OneSideWindow        (* one minute                       *)

ASSUME RiskAssumption ==
  /\ \A b \in {BlockUnfetchedSpec, BlockStatus, BlockStopFlags, BlockStale} : b \in BOOLEAN
  /\ \A n \in {MinDepth, MinActivation, MaxAbsSkew,
               MaxTradeDeviationBps, TradeMaxAge, ShortHorizon, LongHorizon,
               MaxDropShort, MaxRiseShort, MaxDropLong, MaxRiseLong,
               MaxSameSideFills, BurstWindow, BurstCooldown,
               MaxBaseQty, MaxQuoteUsage, MaxInventoryNotional,
               MaxOneSideChange, OneSideWindow} : n \in Nat

VARIABLES
  fairHistory,        (* deque of [ts, fair]           *)
  fillHistory,        (* deque of [ts, side]           *)
  inventoryChanges,   (* deque of [ts, side, notional] *)
  cooldownUntil,      (* function from some of Sides   *)
  lastTrade           (* None or [ts, price]           *)

riskVars == <<fairHistory, fillHistory, inventoryChanges, cooldownUntil, lastTrade>>

RiskTypeOK ==
  /\ fairHistory \in Seq([ts : Int, fair : Nat])
  /\ fillHistory \in Seq([ts : Int, side : Sides])
  /\ inventoryChanges \in Seq([ts : Int, side : Sides, notional : Int])
  /\ DOMAIN cooldownUntil \subseteq Sides /\ cooldownUntil \in [DOMAIN cooldownUntil -> Int]
  /\ lastTrade \in [ts : Int, price : Nat] \cup {None}

RiskInit ==
  /\ fairHistory = <<>> /\ fillHistory = <<>> /\ inventoryChanges = <<>>
  /\ cooldownUntil = [s \in {} |-> 0]
  /\ lastTrade = None

SameSide(deque, side) == {i \in 1..Len(deque) : deque[i].side = side}

RecordTrade(price, ts) ==
  lastTrade' = IF price > 0 THEN [ts |-> ts, price |-> price] ELSE lastTrade

(***************************************************************************)
(* record_fill: the notional always, the burst counters if they are on.    *)
(* Mutant: a fill that completes no burst ends the side's cooldown.        *)
(***************************************************************************)
FillEndsCooldown(side, ts, price, size) ==
  LET history == Expire(Append(fillHistory, [ts |-> ts, side |-> side]), ts, BurstWindow)
      burst   == Cardinality(SameSide(history, side)) >= MaxSameSideFills
  IN  /\ inventoryChanges' =
           Append(inventoryChanges, [ts |-> ts, side |-> side, notional |-> MaxOf2(0, price * size)])
      /\ fillHistory' = IF MaxSameSideFills > 0 THEN history ELSE fillHistory
      /\ cooldownUntil' =
           IF MaxSameSideFills > 0
           THEN [s \in (DOMAIN cooldownUntil \ {side}) \cup (IF burst THEN {side} ELSE {}) |->
                   IF s = side THEN ts + BurstCooldown ELSE cooldownUntil[s]]
           ELSE cooldownUntil
      /\ UNCHANGED <<fairHistory, lastTrade>>
RecordFill(side, ts, price, size) ==
  LET history == Expire(Append(fillHistory, [ts |-> ts, side |-> side]), ts, BurstWindow)
  IN  /\ inventoryChanges' =
           Append(inventoryChanges, [ts |-> ts, side |-> side, notional |-> MaxOf2(0, price * size)])
      /\ fillHistory' = IF MaxSameSideFills > 0 THEN history ELSE fillHistory
      /\ cooldownUntil' =
           IF MaxSameSideFills > 0 /\ Cardinality(SameSide(history, side)) >= MaxSameSideFills
           THEN [s \in DOMAIN cooldownUntil \cup {side} |->
                   IF s = side THEN ts + BurstCooldown ELSE cooldownUntil[s]]
           ELSE cooldownUntil
      /\ UNCHANGED <<fairHistory, lastTrade>>

(***************************************************************************)
(* _last_trade_deviation_too_large.                                        *)
(***************************************************************************)
TradeDeviates(now, fair) ==
  /\ MaxTradeDeviationBps > 0 /\ lastTrade # None
  /\ now - lastTrade.ts <= TradeMaxAge
  /\ 10000 * Distance(lastTrade.price, fair) > MaxTradeDeviationBps * fair

(***************************************************************************)
(* evaluate()'s early returns: each of them forbids both sides.            *)
(* Mutant: the book behind the fair price is not looked at.                *)
(***************************************************************************)
BookUnseen(v, spec, status, now) ==
  \/ v.fair = None \/ v.act < MinActivation
  \/ BlockUnfetchedSpec /\ "fetched" \notin spec
  \/ BlockStatus /\ status = "abnormal"
  \/ BlockStopFlags /\ {"disabled", "stop"} \cap spec # {}
  \/ TradeDeviates(now, v.fair)
HardBlocked(v, spec, status, now) ==
  \/ v.fair = None
  \/ MissingSpread(v)
  \/ SpreadAbove(v, MaxSpreadBps)
  \/ v.depth < MinDepth
  \/ v.act < MinActivation
  \/ Skew(v.fair) = None
  \/ Distance(Skew(v.fair), 0) > MaxAbsSkew
  \/ BlockUnfetchedSpec /\ "fetched" \notin spec
  \/ BlockStatus /\ status = "abnormal"           \* an unfetched status passes
  \/ BlockStopFlags /\ {"disabled", "stop"} \cap spec # {}
  \/ v.stale /\ BlockStale
  \/ TradeDeviates(now, v.fair)

(***************************************************************************)
(* _fair_at_or_before: the last entry of the prefix not younger than t.    *)
(* Mutant: strictly before.                                                *)
(***************************************************************************)
FairBefore(t) ==
  LET prefix == {i \in 1..Len(fairHistory) : \A j \in 1..i : fairHistory[j].ts < t}
  IN  IF prefix = {} THEN None ELSE fairHistory[Cardinality(prefix)].fair
FairAtOrBefore(t) ==
  LET prefix == {i \in 1..Len(fairHistory) : \A j \in 1..i : fairHistory[j].ts <= t}
  IN  IF prefix = {} THEN None
      ELSE fairHistory[Cardinality(prefix)].fair

Dropped(prior, fair, limit) == limit > 0 /\ 10000 * (fair - prior) <= -limit * prior
Rose(prior, fair, limit) == limit > 0 /\ 10000 * (fair - prior) >= limit * prior
DriftBlocked(now, fair) ==
  LET short == FairAtOrBefore(now - ShortHorizon)
      long  == FairAtOrBefore(now - LongHorizon)
      Usable(prior) == IF prior = None THEN FALSE ELSE prior > 0
  IN  {s \in Sides :
         \/ Usable(short) /\ IF s = "buy" THEN Dropped(short, fair, MaxDropShort)
                                          ELSE Rose(short, fair, MaxRiseShort)
         \/ Usable(long)  /\ IF s = "buy" THEN Dropped(long, fair, MaxDropLong)
                                          ELSE Rose(long, fair, MaxRiseLong)}

BurstBlocked(now) == {s \in DOMAIN cooldownUntil : now < cooldownUntil[s]}

(***************************************************************************)
(* _inventory_blocked_sides: room for ONE more order of the largest size.  *)
(***************************************************************************)
RecentChange(side, now) ==
  LET recent == Expire(inventoryChanges, now, OneSideWindow)
  IN  SumFunctionOnSet([i \in 1..Len(recent) |-> recent[i].notional], SameSide(recent, side))
InventoryBlocked(fair, now) ==
  LET notional == MaxOrderSize * fair
  IN  {s \in Sides :
         \/ /\ s = "buy"
            /\ \/ ~NegativeBalancesAllowed /\ quote < notional
               \/ MaxBaseQty > 0 /\ base + MaxOrderSize > MaxBaseQty
               \/ MaxQuoteUsage > 0 /\ MaxOf2(0, InitialQuote - quote) + notional > MaxQuoteUsage
               \/ MaxInventoryNotional > 0 /\ (base + MaxOrderSize) * fair > MaxInventoryNotional
         \/ s = "sell" /\ ~NegativeBalancesAllowed /\ base < MaxOrderSize
         \/ MaxOneSideChange > 0 /\ RecentChange(s, now) + notional > MaxOneSideChange}

(***************************************************************************)
(* evaluate(): the sides it allows, and what it leaves in the histories.   *)
(* The fair price is recorded only when no early return was taken.         *)
(***************************************************************************)
Allowed(v, spec, status, now) ==
  IF HardBlocked(v, spec, status, now) THEN {}
  ELSE {s \in Sides : ~(s = "buy" /\ "stop_buy" \in spec) /\ ~(s = "sell" /\ "stop_sell" \in spec)}
         \ (DriftBlocked(now, v.fair) \cup BurstBlocked(now) \cup InventoryBlocked(v.fair, now))

Evaluate(v, spec, status, now) ==
  IF HardBlocked(v, spec, status, now) THEN UNCHANGED riskVars
  ELSE /\ fairHistory' = Expire(Append(fairHistory, [ts |-> now, fair |-> v.fair]), now, LongHorizon)
       /\ cooldownUntil' = [s \in BurstBlocked(now) |-> cooldownUntil[s]]
       /\ inventoryChanges' = IF MaxOneSideChange > 0
                              THEN Expire(inventoryChanges, now, OneSideWindow)
                              ELSE inventoryChanges
       /\ UNCHANGED <<fillHistory, lastTrade>>
===============================================================================
