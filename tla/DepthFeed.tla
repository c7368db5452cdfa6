------------------------------ MODULE DepthFeed ------------------------------
(***************************************************************************)
(* The order book behind bitbank's public stream.  The exchange and the    *)
(* stream are external: rooms depth_diff (every change, numbered, with the *)
(* amounts of the levels that changed) and depth_whole (the whole book,    *)
(* with the number of the last change in it).  Each room keeps its order,  *)
(* nothing orders one room against the other, and a dropped connection     *)
(* loses what was on its way.  bitbank_normalizer turns the messages into  *)
(* the order_book events that OrderBook.apply_event takes in.              *)
(***************************************************************************)
EXTENDS OrderBook

CONSTANTS
  Books,               (* the states the exchange's book can be in       *)
  MaxChanges,          (* bound: changes of the exchange's book          *)
  MaxInFlight,         (* bound: messages on their way, per room         *)
  MaxDisconnects       (* bound: dropped connections                     *)

IsSide(side) ==
  DOMAIN side \subseteq Nat /\ side \in [DOMAIN side -> Nat \ {0}]

ASSUME DepthFeedAssumption ==
  /\ \A b \in Books :
       b = [bids |-> b.bids, asks |-> b.asks] /\ IsSide(b.bids) /\ IsSide(b.asks)
  /\ MaxChanges \in Nat /\ MaxInFlight \in Nat /\ MaxDisconnects \in Nat

VARIABLES
  truth,          (* the exchange's book: when we connect, and after each change *)
  diffs, wholes,  (* messages on their way, oldest first                    *)
  disconnects,
  base,           (* history: sequence of the snapshot the book started from *)
  seen,           (* history: changes delivered or lost when it came         *)
  applied,        (* history: sequences of the deltas applied on top of it   *)
  lost            (* history: changes whose delta was lost                   *)

exchangeVars == <<truth, diffs, wholes, disconnects>>
historyVars == <<base, seen, applied, lost>>
vars == <<bookVars, exchangeVars, historyVars>>

Init ==
  /\ OrderBookInit
  /\ \E b \in Books : truth = <<b>>
  /\ diffs = <<>> /\ wholes = <<>> /\ disconnects = 0
  /\ base = 0 /\ seen = 0 /\ applied = {} /\ lost = {}

(***************************************************************************)
(* What depth_diff says of a change: the new amount of every level that    *)
(* changed, 0 for one that is gone.                                        *)
(***************************************************************************)
AmountAt(side, p) == IF p \in DOMAIN side THEN side[p] ELSE 0
Difference(old, new) ==
  [p \in {q \in DOMAIN old \cup DOMAIN new : AmountAt(old, q) # AmountAt(new, q)} |-> AmountAt(new, p)]

Current == truth[Len(truth)]

Change(b) ==
  /\ Len(truth) < MaxChanges /\ Len(diffs) < MaxInFlight
  /\ b # Current
  /\ truth' = Append(truth, b)
  /\ diffs' = Append(diffs, [seq  |-> Len(truth'), ts |-> Len(truth'),
                             bids |-> Difference(Current.bids, b.bids),
                             asks |-> Difference(Current.asks, b.asks)])
  /\ UNCHANGED <<bookVars, wholes, disconnects, historyVars>>

Publish ==
  /\ Len(wholes) < MaxInFlight
  /\ wholes' = Append(wholes, [seq |-> Len(truth), ts |-> Len(truth),
                               bids |-> Current.bids, asks |-> Current.asks])
  /\ UNCHANGED <<bookVars, truth, diffs, disconnects, historyVars>>

Disconnect ==
  /\ disconnects < MaxDisconnects
  /\ disconnects' = disconnects + 1
  /\ diffs' = <<>> /\ wholes' = <<>>
  /\ lost' = lost \cup {diffs[n].seq : n \in 1..Len(diffs)}
  /\ UNCHANGED <<bookVars, truth, base, seen, applied>>

-------------------------------------------------------------------------------
(***************************************************************************)
(* The message handler: a depth_whole message becomes a snapshot, a        *)
(* depth_diff message a delta.                                             *)
(***************************************************************************)
ReceiveWhole ==
  /\ wholes # <<>>
  /\ ApplySnapshot(Head(wholes))
  /\ wholes' = Tail(wholes)
  /\ base' = Head(wholes).seq /\ applied' = {}
  /\ seen' = Len(truth) - Len(diffs)
  /\ UNCHANGED <<truth, diffs, disconnects, lost>>

ReceiveDiff ==
  /\ diffs # <<>>
  /\ ApplyDelta(Head(diffs))
  /\ diffs' = Tail(diffs)
  /\ applied' = IF stale' THEN applied ELSE applied \cup {Head(diffs).seq}
  /\ UNCHANGED <<truth, wholes, disconnects, base, seen, lost>>

Next ==
  \/ \E b \in Books : Change(b)
  \/ Publish
  \/ Disconnect
  \/ ReceiveWhole
  \/ ReceiveDiff

Spec == Init /\ [][Next]_vars

(***************************************************************************)
(* The exchange publishes its whole book again and again, and the socket   *)
(* client hands every message that arrives to the handler.                 *)
(***************************************************************************)
FairSpec == Spec /\ WF_vars(Publish) /\ WF_vars(ReceiveWhole) /\ WF_vars(ReceiveDiff)

-------------------------------------------------------------------------------
(***************************************************************************)
(* The values the state ranges over.                                       *)
(***************************************************************************)
IsDiff(diff) == DOMAIN diff \subseteq Nat /\ diff \in [DOMAIN diff -> Nat]
IsMessage(m) ==
  /\ m = [seq |-> m.seq, ts |-> m.seq, bids |-> m.bids, asks |-> m.asks]
  /\ m.seq \in 1..Len(truth) /\ IsDiff(m.bids) /\ IsDiff(m.asks)
TypeOK ==
  /\ \A n \in 1..Len(truth) : truth[n] \in Books
  /\ IsSide(bids) /\ IsSide(asks)
  /\ \A n \in 1..Len(diffs) : IsMessage(diffs[n])
  /\ \A n \in 1..Len(wholes) : IsMessage(wholes[n])
  /\ lastSequence \in Nat \cup {None} /\ lastTs \in Nat \cup {None} /\ stale \in BOOLEAN /\ truth # <<>>
  /\ disconnects \in Nat /\ base \in Nat /\ seen \in Nat
  /\ applied \subseteq Nat /\ lost \subseteq Nat

Book == [bids |-> bids, asks |-> asks]

(***************************************************************************)
(* Reconstruction is exact: a fresh book to which every change since its   *)
(* snapshot was applied is the exchange's book after the last of them.     *)
(***************************************************************************)
Complete == applied = base + 1 .. lastSequence
FreshBookIsExact == ~stale => (Complete => Book = truth[lastSequence])

(***************************************************************************)
(* A fresh book misses a change for one of two reasons only: the change    *)
(* was lost with a connection, or it had come before the snapshot did.     *)
(***************************************************************************)
GapsHaveACause ==
  ~stale => \A n \in base + 1 .. lastSequence : n \in applied \/ n \in lost \/ n <= seen

(***************************************************************************)
(* Whatever was lost or overtaken, once the exchange's book rests the      *)
(* rebuilt one becomes fresh and the same, for good.                       *)
(***************************************************************************)
CaughtUp == ~stale /\ Book = Current
BookCatchesUp == <>[]CaughtUp

(***************************************************************************)
(* "Require sequence IDs to be monotonic for a given book stream.  If      *)
(* sequence ordering is invalid, mark the book stale" (goal, reconstructing*)
(* the bitbank order book): the book never goes back and stays fresh.      *)
(***************************************************************************)
GoesBack == IF lastSequence = None \/ lastSequence' = None THEN FALSE ELSE lastSequence' < lastSequence
RewoundBookIsStale == [][GoesBack => stale']_vars
==============================================================================
