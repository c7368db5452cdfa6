------------------------------ MODULE FillModel ------------------------------
(***************************************************************************)
(* replay/fill_model.py: the conservative queue model.  It keeps the       *)
(* virtual orders that a trade can fill, each behind an estimated queue,   *)
(* and gives a trade's amount to them in price-time priority.              *)
(***************************************************************************)
EXTENDS OrderProjector

CONSTANTS
  QueueMultiplier,     (* queue_ahead_multiplier *)
  MinResting,          (* min_resting_time_ms    *)
  FeeScale,            (* 10000 in the code: fee = price * size * bps / 10000 *)
  FallbackFee,         (* maker_fee_bps_fallback *)
  IdCeilings           (* where an id's counter grows by a digit: 10^6, 10^7, ... *)

ASSUME FillModelAssumption ==
  /\ QueueMultiplier \in Nat /\ MinResting \in Nat
  /\ IdCeilings \subseteq Nat \ {0}
  /\ FeeScale \in Nat \ {0} /\ FallbackFee \in Int

VARIABLES
  tracked,     (* id -> [side, price, remaining, created, queue, size, expires]; *)
               (* size and expires are history: what the order was placed with   *)
  makerFee,    (* maker_fee_bps *)
  eligible,    (* ids the current trade can still reach *)
  flow,        (* what is left of the current trade's amount *)
  absorbed     (* history: what queues have taken of it, seen from the queues *)

fillModelVars == <<tracked, makerFee, eligible, flow, absorbed>>

TrackedOrder == [side : Sides, price : Int, remaining : Nat, created : Int, queue : Nat,
                 size : Nat, expires : Int]
FillModelTypeOK ==
  /\ DOMAIN tracked \subseteq Nat /\ tracked \in [DOMAIN tracked -> TrackedOrder]
  /\ makerFee \in Int /\ eligible \subseteq Nat /\ flow \in Nat /\ absorbed \in Nat

FillModelInit ==
  /\ tracked = NothingAtAll
  /\ makerFee = FallbackFee
  /\ eligible = {} /\ flow = 0 /\ absorbed = 0

(***************************************************************************)
(* _eligible_orders: opposite side, price reached, rested long enough.     *)
(***************************************************************************)
Reached(o, trade, now) ==
  /\ now - o.created >= MinResting
  /\ \/ o.side = "buy" /\ trade.side = "sell" /\ trade.price <= o.price
     \/ o.side = "sell" /\ trade.side = "buy" /\ trade.price >= o.price
Eligible(trade, now) == {i \in DOMAIN tracked : Reached(tracked[i], trade, now)}

(***************************************************************************)
(* The order of two ids as strings.  The id of an order is its created_at  *)
(* and its number, padded to the digits of the first ceiling; of two that  *)
(* were created together the numbers are compared as decimal fractions are *)
(* (1000000 comes before 999999), a shorter one before a longer of equal   *)
(* value.                                                                  *)
(***************************************************************************)
IdCeiling(i) == CHOOSE c \in IdCeilings : i < c /\ \A d \in IdCeilings : i < d => c <= d
IdBefore(i, j) ==
  LET a == IdCeiling(i)
      b == IdCeiling(j)
  IN  i * b < j * a \/ (i * b = j * a /\ a < b)

(***************************************************************************)
(* The sort key (price, created_at, order_id); better prices first.        *)
(* Mutant: of two at one price the newer first.                            *)
(***************************************************************************)
NewerFirst(i, j) ==
  LET p == tracked[i]
      q == tracked[j]
  IN  IF p.price # q.price THEN (p.side = "buy") = (p.price > q.price)
      ELSE p.created > q.created \/ (p.created = q.created /\ IdBefore(i, j))
Before(i, j) ==
  LET p == tracked[i]
      q == tracked[j]
  IN  IF p.price # q.price THEN (p.side = "buy") = (p.price > q.price)
      ELSE p.created < q.created \/ (p.created = q.created /\ IdBefore(i, j))
IsFirst(i) == i \in eligible /\ \A j \in eligible \ {i} : Before(i, j)

Fee(price, size) == (price * size * makerFee) \div FeeScale

(***************************************************************************)
(* _consume: the flow eats the queue first and the order after it.  An     *)
(* order with nothing remaining is popped.                                 *)
(* Mutants: the queue is not in the way; what a queue takes of the flow    *)
(* stays available for the next order; a filled order is not popped.       *)
(***************************************************************************)
FilledIgnoringQueue(o) == MinOf2(o.remaining, flow)
FilledBy(o) == IF flow > o.queue THEN MinOf2(o.remaining, flow - o.queue) ELSE 0

Eaten(o, fill) == [o EXCEPT !.queue = @ - MinOf2(@, flow), !.remaining = @ - fill]
Without(i) == [j \in DOMAIN tracked \ {i} |-> tracked[j]]
QueueOf(i) == IF i \in DOMAIN tracked THEN tracked[i].queue ELSE 0

QueueIsFree(i) ==
  LET o == tracked[i]
      fill == FilledBy(o)
  IN  /\ tracked' = IF fill = o.remaining THEN Without(i)
                    ELSE [tracked EXCEPT ![i] = Eaten(o, fill)]
      /\ flow' = flow - fill
      /\ eligible' = eligible \ {i}
FilledStaysTracked(i) ==
  LET o == tracked[i]
      fill == FilledBy(o)
  IN  /\ tracked' = [tracked EXCEPT ![i] = Eaten(o, fill)]
      /\ flow' = flow - MinOf2(o.queue, flow) - fill
      /\ eligible' = eligible \ {i}
Consume(i) ==
  LET o == tracked[i]
      fill == FilledBy(o)
  IN  /\ tracked' = IF fill = o.remaining THEN Without(i)
                    ELSE [tracked EXCEPT ![i] = Eaten(o, fill)]
      /\ flow' = flow - MinOf2(o.queue, flow) - fill
      /\ eligible' = eligible \ {i}

(***************************************************************************)
(* on_virtual_order: the queue ahead is the visible amount at the price or *)
(* the order's own size, whichever is larger, times the multiplier.        *)
(***************************************************************************)
Track(k, order, visible) ==
  [side |-> Side(k), price |-> order.price, remaining |-> order.size,
   created |-> order.created,
   queue |-> MaxOf2(visible * QueueMultiplier, order.size * QueueMultiplier),
   size |-> order.size, expires |-> order.expires]

(***************************************************************************)
(* sync()'s events applied in their order: canceled orders are dropped,    *)
(* placed ones tracked.  `orders` is what sync() leaves active.            *)
(* Mutants: cancels do not reach the fill model; every active order counts *)
(* as canceled, the kept ones too.                                         *)
(***************************************************************************)
Placed(orders, kept, visible) ==
  LET keys == DOMAIN orders \ kept
  IN  [i \in {orders[k].id : k \in keys} |->
         LET k == CHOOSE k \in keys : orders[k].id = i IN Track(k, orders[k], visible[k])]
Settled(canceled, placed) ==
  [i \in (DOMAIN tracked \ canceled) \cup DOMAIN placed |->
     IF i \in DOMAIN placed THEN placed[i] ELSE tracked[i]]

CancelsAreLost(orders, kept, visible) == Settled({}, Placed(orders, kept, visible))
KeptAreCanceled(orders, kept, visible) == Settled(ActiveIds, Placed(orders, kept, visible))
TrackedAfter(orders, kept, visible) ==
  Settled({active[k].id : k \in DOMAIN active \ kept}, Placed(orders, kept, visible))
==============================================================================
