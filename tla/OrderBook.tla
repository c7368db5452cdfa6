------------------------------ MODULE OrderBook ------------------------------
(***************************************************************************)
(* market/orderbook.py: the order book rebuilt from whole-book snapshots   *)
(* and absolute level updates.  A side is a function from the prices that  *)
(* have an amount to the amount.                                           *)
(***************************************************************************)
EXTENDS Market, Functions

VARIABLES
  bids, asks,
  lastSequence,    (* of the last applied event, None before or if unparsable *)
  lastTs,          (* its exchange time *)
  stale

bookVars == <<bids, asks, lastSequence, lastTs, stale>>

EmptySide == [p \in {} |-> 0]

OrderBookInit ==
  /\ bids = EmptySide /\ asks = EmptySide
  /\ lastSequence = None /\ lastTs = None /\ stale = TRUE

Levelled(side) == Restrict(side, {p \in DOMAIN side : side[p] > 0})

(***************************************************************************)
(* A snapshot replaces everything, whatever its sequence is.               *)
(* Mutant: it does not end the staleness.                                  *)
(***************************************************************************)
SnapshotStaysStale(m) ==
  /\ bids' = Levelled(m.bids) /\ asks' = Levelled(m.asks)
  /\ lastSequence' = m.seq /\ lastTs' = m.ts
  /\ UNCHANGED stale
ApplySnapshot(m) ==
  /\ bids' = Levelled(m.bids) /\ asks' = Levelled(m.asks)
  /\ lastSequence' = m.seq /\ lastTs' = m.ts
  /\ stale' = FALSE

(***************************************************************************)
(* Amounts are absolute and an amount of 0 removes the level.              *)
(* Mutants: a level at amount 0 stays; amounts are added to the level; a   *)
(* stale book takes updates in again.                                      *)
(***************************************************************************)
AmountsAreAdded(side, diff) ==
  [p \in (DOMAIN side \ DOMAIN diff) \cup {q \in DOMAIN diff : diff[q] # 0} |->
     (IF p \in DOMAIN side THEN side[p] ELSE 0) + (IF p \in DOMAIN diff THEN diff[p] ELSE 0)]
ZeroLevelsStay(side, diff) ==
  [p \in DOMAIN side \cup DOMAIN diff |-> IF p \in DOMAIN diff THEN diff[p] ELSE side[p]]
Updated(side, diff) ==
  [p \in (DOMAIN side \ DOMAIN diff) \cup {q \in DOMAIN diff : diff[q] # 0} |->
     IF p \in DOMAIN diff THEN diff[p] ELSE side[p]]

OutOfOrder(seq) ==
  IF seq = None \/ lastSequence = None THEN FALSE ELSE seq <= lastSequence

Usable(seq) == ~stale /\ ~OutOfOrder(seq)

TakeIn(m) ==
  /\ bids' = Updated(bids, m.bids) /\ asks' = Updated(asks, m.asks)
  /\ lastSequence' = IF m.seq = None THEN lastSequence ELSE m.seq
  /\ lastTs' = m.ts

StaleHealsItself(m) ==
  IF OutOfOrder(m.seq) THEN stale' = TRUE /\ UNCHANGED <<bids, asks, lastSequence, lastTs>>
  ELSE TakeIn(m) /\ stale' = FALSE
ApplyDelta(m) ==
  IF Usable(m.seq) THEN TakeIn(m) /\ UNCHANGED stale
  ELSE stale' = TRUE /\ UNCHANGED <<bids, asks, lastSequence, lastTs>>

(***************************************************************************)
(* best_bid, best_ask; mid is None on a missing side and on a crossed or   *)
(* locked book, and the depth then 0.  Depth sums price * amount of the    *)
(* levels within bps of the mid.                                           *)
(***************************************************************************)
BestBid == IF bids = EmptySide THEN None ELSE CHOOSE p \in DOMAIN bids : \A q \in DOMAIN bids : q <= p
BestAsk == IF asks = EmptySide THEN None ELSE CHOOSE p \in DOMAIN asks : \A q \in DOMAIN asks : p <= q

HasMid == IF BestBid = None \/ BestAsk = None THEN FALSE ELSE BestBid < BestAsk

Notional(side, within) ==
  SumFunctionOnSet([p \in DOMAIN side |-> p * side[p]], within)
Depth(bps) ==
  LET twice == BestBid + BestAsk
  IN  IF ~HasMid THEN 0
      ELSE Notional(bids, {p \in DOMAIN bids : 20000 * p >= twice * (10000 - bps)})
         + Notional(asks, {p \in DOMAIN asks : 20000 * p <= twice * (10000 + bps)})
==============================================================================
