---------------------------- MODULE OrderProjector ----------------------------
(***************************************************************************)
(* amm/projector.py: the virtual orders the strategy believes it has, one  *)
(* per <<side, level>>, reconciled with the quote surface on every event.  *)
(*                                                                         *)
(* sync() walks the active orders (cancels), then the desired quotes in    *)
(* order (a replaced order is a cancel and a placement).  One counter      *)
(* numbers every cancel and every placement, and the number of a placement *)
(* is the order's id.  The two loops are written here as sets of keys, the *)
(* numbering as the count of what came earlier in the loops.               *)
(***************************************************************************)
EXTENDS QuoteSurface

CONSTANTS
  MaxActiveOrders, QuoteTTL, MinReplaceInterval,
  ReplaceThresholdBps, SizeReplacePct

ASSUME ProjectorAssumption ==
  /\ MaxActiveOrders \in Nat /\ QuoteTTL \in Nat /\ MinReplaceInterval \in Nat
  /\ ReplaceThresholdBps \in Nat /\ SizeReplacePct \in Nat

VARIABLES
  active,    (* function from some of Keys to [id, price, size, created, expires] *)
  counter    (* cancels and placements numbered so far                           *)

projectorVars == <<active, counter>>

ActiveOrder == [id : Nat, price : Int, size : Nat, created : Int, expires : Int]
ProjectorTypeOK ==
  DOMAIN active \subseteq Keys /\ active \in [DOMAIN active -> ActiveOrder] /\ counter \in Nat

NothingAtAll == [x \in {} |-> x]

ProjectorInit == active = NothingAtAll /\ counter = 0

ActiveIds == {active[k].id : k \in DOMAIN active}

(***************************************************************************)
(* _post_only_safe and _active_post_only_safe: the side is allowed and the *)
(* price does not cross the opposite best price.                           *)
(* Mutant: it may touch it.                                                *)
(***************************************************************************)
TouchIsSafe(side, price, v, allowed) ==
  /\ side \in allowed
  /\ IF side = "buy" THEN v.ask # None /\ price <= v.ask
                     ELSE v.bid # None /\ price >= v.bid
PostOnlySafe(side, price, v, allowed) ==
  /\ side \in allowed
  /\ IF side = "buy" THEN v.ask # None /\ price < v.ask
                     ELSE v.bid # None /\ price > v.bid

(***************************************************************************)
(* The first MaxActiveOrders of the safe quotes, in the surface's order.   *)
(***************************************************************************)
DesiredKeys(quotes, v, allowed) ==
  LET safe == {k \in DOMAIN quotes : PostOnlySafe(Side(k), quotes[k].price, v, allowed)}
  IN  {k \in safe : Cardinality({j \in safe : Rank(j) < Rank(k)}) < MaxActiveOrders}

ShouldKeep(order, quote, now) ==
  \/ order.price = quote.price /\ order.size = quote.size
  \/ now - order.created < MinReplaceInterval
  \/ /\ 10000 * Distance(quote.price, order.price) <= ReplaceThresholdBps * order.price
     /\ 100 * Distance(quote.size, order.size) <= SizeReplacePct * order.size

(***************************************************************************)
(* What the first loop leaves alone, and of that what the second keeps.    *)
(* Mutant: an active order is not held against the new book and decision.  *)
(***************************************************************************)
SurvivingUnchecked(desired, v, allowed, now) ==
  {k \in DOMAIN active \cap desired : now < active[k].expires}
Surviving(desired, v, allowed, now) ==
  {k \in DOMAIN active \cap desired :
     now < active[k].expires /\ PostOnlySafe(Side(k), active[k].price, v, allowed)}
Kept(quotes, desired, v, allowed, now) ==
  {k \in Surviving(desired, v, allowed, now) : ShouldKeep(active[k], quotes[k], now)}

UpTo(keys, k) == Cardinality({j \in keys : Rank(j) <= Rank(k)})

(***************************************************************************)
(* The active orders sync() leaves behind: kept ones and new ones.  The id *)
(* of the order placed at k counts the first loop's cancels, then the      *)
(* replacements and placements up to k.                                    *)
(***************************************************************************)
Synced(quotes, v, allowed, now) ==
  LET desired   == DesiredKeys(quotes, v, allowed)
      surviving == Surviving(desired, v, allowed, now)
      kept      == Kept(quotes, desired, v, allowed, now)
      dropped   == Cardinality(DOMAIN active \ surviving)
  IN  [k \in desired |->
         IF k \in kept THEN active[k]
         ELSE [id      |-> counter + dropped + UpTo(surviving \ kept, k) + UpTo(desired \ kept, k),
               price   |-> quotes[k].price,
               size    |-> quotes[k].size,
               created |-> now,
               expires |-> now + QuoteTTL]]

(***************************************************************************)
(* Mutant of Sync: only placements are counted.                            *)
(***************************************************************************)
CancelsNotCounted(quotes, v, allowed, now) ==
  /\ active' = Synced(quotes, v, allowed, now)
  /\ LET desired == DesiredKeys(quotes, v, allowed)
     IN  counter' = counter + Cardinality(desired \ Kept(quotes, desired, v, allowed, now))
Sync(quotes, v, allowed, now) ==
  LET desired == DesiredKeys(quotes, v, allowed)
      kept    == Kept(quotes, desired, v, allowed, now)
  IN  /\ active' = Synced(quotes, v, allowed, now)
      /\ counter' = counter + Cardinality(DOMAIN active \ kept) + Cardinality(desired \ kept)

(***************************************************************************)
(* remove_filled: called for every fill, a partial one too.                *)
(***************************************************************************)
RemoveFilled(id) ==
  /\ active' = [k \in {j \in DOMAIN active : active[j].id # id} |-> active[k]]
  /\ UNCHANGED counter
===============================================================================
