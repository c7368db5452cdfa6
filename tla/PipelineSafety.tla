---------------------------- MODULE PipelineSafety ----------------------------
(***************************************************************************)
(* What the pipeline is meant to guarantee.                                *)
(***************************************************************************)
EXTENDS Pipeline

Running == pc # "failed"

BalanceChange == [base : Int, quote : Int]
FillRecord == [id : Nat, side : Sides, price : Int, size : Nat, created : Int]
TradeRecord == [side : Sides, price : Nat, amount : Nat]

(***************************************************************************)
(* The values the state ranges over.                                       *)
(***************************************************************************)
TypeOK ==
  /\ pc \in {"idle", "match", "book", "failed"} /\ now \in Int
  /\ view \in View
  /\ pairSpec \subseteq {"fetched", "disabled", "stop", "stop_buy", "stop_sell"}
  /\ status \in {"unfetched", "normal", "abnormal"}
  /\ trade \in TradeRecord \cup {None}
  /\ fills \in Seq(FillRecord) /\ allowed \subseteq Sides
  /\ emitted \in BalanceChange /\ ledger \in BalanceChange
  /\ fillLog \in Seq([ts : Int, side : Sides])
  /\ base \in Int /\ quote \in Int
  /\ ProjectorTypeOK /\ FillModelTypeOK /\ RiskTypeOK

(***************************************************************************)
(* Every order the projector believes in is one that a trade can fill, on  *)
(* the same terms and untouched, unless a fill of it is about to be        *)
(* booked.  Projector and fill model keep separate books and learn of each *)
(* other only through process(): nothing else ties the two.                *)
(***************************************************************************)
Twin(k, o, t) ==
  t = [side |-> Side(k), price |-> o.price, remaining |-> o.size, created |-> o.created,
       queue |-> t.queue, size |-> o.size, expires |-> o.expires]
ActiveIsTracked ==
  Running => \A k \in DOMAIN active :
    LET o == active[k]
    IN  \/ \E n \in 1..Len(fills) : fills[n].id = o.id
        \/ o.id \in DOMAIN tracked /\ Twin(k, o, tracked[o.id])

(***************************************************************************)
(* A trade can fill an order the projector no longer has in one case only: *)
(* it was filled in part (remove_filled forgets it at its first fill).     *)
(* Cancels, replacements and blocks leave nothing behind.                  *)
(***************************************************************************)
OrphansWerePartlyFilled ==
  Running => \A i \in DOMAIN tracked :
    /\ 0 < tracked[i].remaining /\ tracked[i].remaining <= tracked[i].size
    /\ tracked[i].remaining = tracked[i].size => i \in ActiveIds

(***************************************************************************)
(* Conservative fills: nothing of an order is filled before trades have    *)
(* eaten the whole queue that was ahead of it.                             *)
(***************************************************************************)
QueueBeforeFill ==
  \A i \in DOMAIN tracked : tracked[i].remaining < tracked[i].size => tracked[i].queue = 0

(***************************************************************************)
(* Ids are never shared: two keys hold different orders, and no order, of  *)
(* either book, has an id the counter has still to give out.               *)
(***************************************************************************)
IdsAreUnique ==
  /\ \A j, k \in DOMAIN active : active[j].id = active[k].id => j = k
  /\ \A k \in DOMAIN active : active[k].id <= counter
  /\ \A i \in DOMAIN tracked : i <= counter

(***************************************************************************)
(* Whenever an event has been dealt with, every active order is on a side  *)
(* that risk allows, does not cross the book it was left with, and has not *)
(* expired.                                                                *)
(***************************************************************************)
ActiveAreCurrent ==
  pc = "idle" => \A k \in DOMAIN active :
    /\ PostOnlySafe(Side(k), active[k].price, view, allowed)
    /\ now < active[k].expires \/ now = active[k].created

(***************************************************************************)
(* A trade is handed out exactly once: what it has filled, what the queues *)
(* in front of the orders have lost to it and what is left of it are its   *)
(* amount.  Nothing that a queue took is filled as well, nothing is lost.  *)
(***************************************************************************)
FilledOf(s) == SumFunction([n \in DOMAIN s |-> s[n].size])
FlowIsConserved == pc = "match" => FilledOf(fills) + absorbed + flow = trade.amount

(***************************************************************************)
(* Price-time priority: whatever a trade has filled is priced better than  *)
(* any other order it can reach and has not filled to the last, or is      *)
(* priced the same and no younger.                                         *)
(***************************************************************************)
NoLater(f, o) ==
  IF f.price = o.price THEN f.created <= o.created ELSE (f.side = "buy") = (f.price > o.price)
PriorityRespected ==
  pc = "match" => \A n \in 1..Len(fills) : \A i \in Eligible(trade, now) \ {fills[n].id} :
    NoLater(fills[n], tracked[i])

(***************************************************************************)
(* The fills handed to the report explain the balances, fill by fill: at   *)
(* rest, initial balance plus reported changes is the balance.             *)
(***************************************************************************)
LedgerExplainsInventory ==
  pc = "idle" => /\ base = InitialBase + ledger.base
                 /\ quote = InitialQuote + ledger.quote

(***************************************************************************)
(* Fill burst stop: for BurstCooldown after the fill that completes a      *)
(* burst of MaxSameSideFills within BurstWindow, the side is not quoted,   *)
(* whatever is filled in the meantime.  The bursts are those of all the    *)
(* fills there ever were: the kernel's own fillHistory is pruned.          *)
(***************************************************************************)
Burst(n) ==
  LET f == fillLog[n]
  IN  Cardinality({m \in 1..n : fillLog[m].side = f.side /\ f.ts - fillLog[m].ts <= BurstWindow})
        >= MaxSameSideFills
BurstIsCooledDown ==
  pc = "idle" /\ MaxSameSideFills > 0 =>
    \A n \in 1..Len(fillLog) :
      Burst(n) /\ now < fillLog[n].ts + BurstCooldown =>
        \A k \in DOMAIN active : Side(k) # fillLog[n].side

(***************************************************************************)
(* The orders trades can fill behave as OrderLifecycle says.               *)
(***************************************************************************)
Lifecycle == INSTANCE OrderLifecycle WITH
  book <- [i \in DOMAIN tracked |-> [side |-> tracked[i].side, price |-> tracked[i].price,
                                     remaining |-> tracked[i].remaining]],
  lastId <- counter
ImplementsLifecycle == Lifecycle!Spec

-------------------------------------------------------------------------------
(***************************************************************************)
(* Statements the code does not keep.                                      *)
(***************************************************************************)

(***************************************************************************)
(* "cancel stale virtual orders" (goal, Order Projector): when an event    *)
(* has been dealt with, no fillable order is past its expires_at.          *)
(***************************************************************************)
StaleOrdersAreCanceled == pc = "idle" => \A i \in DOMAIN tracked : now < tracked[i].expires

(***************************************************************************)
(* Risk blocks the sides the balances cannot fund                          *)
(* (test_inventory_balance_limits_block_unfunded_sides), so no fill        *)
(* overdraws them and ends the replay.                                     *)
(***************************************************************************)
FillsAreFunded == Running
===============================================================================
