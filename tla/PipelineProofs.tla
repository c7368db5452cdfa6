---------------------------- MODULE PipelineProofs ----------------------------
(***************************************************************************)
(* Proofs that the pipeline keeps its invariants for every value of the    *)
(* constants.                                                              *)
(***************************************************************************)
EXTENDS PipelineSafety, StrategyLemmas

(***************************************************************************)
(* What each phase of process() leaves behind for the next.                *)
(***************************************************************************)
Phases ==
  /\ pc \in {"idle", "failed"} => fills = <<>> /\ emitted = Nothing
  /\ pc = "match" => trade \in TradeRecord /\ emitted = Nothing
  /\ pc # "match" => eligible = {} /\ flow = 0
  /\ eligible \subseteq DOMAIN tracked
TypeInv == TypeOK /\ Phases

(* The initial state is well typed. *)
LEMMA InitTypeInv == Init => TypeInv
<1>. SUFFICES ASSUME Init PROVE TypeInv
  OBVIOUS
<1>. USE DEF Init, InventoryInit, ProjectorInit, FillModelInit, RiskInit
<1>1. /\ view \in View /\ emitted \in BalanceChange /\ ledger \in BalanceChange
  BY DEF InitialView, View, Nothing, BalanceChange
<1>2. /\ base \in Int /\ quote \in Int /\ makerFee \in Int
  BY InventoryAssumption, FillModelAssumption
<1>3. /\ DOMAIN active \subseteq Keys /\ active \in [DOMAIN active -> ActiveOrder]
      /\ DOMAIN tracked \subseteq Nat /\ tracked \in [DOMAIN tracked -> TrackedOrder]
      /\ DOMAIN cooldownUntil \subseteq Sides /\ cooldownUntil \in [DOMAIN cooldownUntil -> Int]
  BY DEF NothingAtAll
<1>4. /\ fills \in Seq(FillRecord) /\ fairHistory \in Seq([ts : Int, fair : Nat])
      /\ fillHistory \in Seq([ts : Int, side : Sides])
      /\ inventoryChanges \in Seq([ts : Int, side : Sides, notional : Int])
      /\ fillLog \in Seq([ts : Int, side : Sides])
  OBVIOUS
<1>5. TypeOK
  BY <1>1, <1>2, <1>3, <1>4 DEF TypeOK, ProjectorTypeOK, FillModelTypeOK, RiskTypeOK
<1>6. Phases
  BY DEF Phases
<1>. QED BY <1>5, <1>6 DEF TypeInv

(* The views and time steps of the model are views and time steps. *)
LEMMA InputTypes == Views \subseteq View /\ TimeSteps \subseteq Int
BY PipelineAssumption, ClockAssumption

(***************************************************************************)
(* The part of the state that only market events move.                     *)
(***************************************************************************)
LEMMA ArriveType ==
  ASSUME TypeInv, NEW v \in View, NEW dt \in Int, Arrive(v, dt)
  PROVE  /\ now' \in Int /\ view' \in View /\ pc = "idle"
         /\ fills = <<>> /\ emitted = Nothing /\ eligible = {} /\ flow = 0
<1>1. pc = "idle" /\ now' = now + dt /\ view' = v
  BY DEF Arrive
<1>. QED BY <1>1 DEF TypeInv, TypeOK, FillModelTypeOK, Phases

(* An arriving event keeps the types. *)
LEMMA ReceiveType ==
  ASSUME TypeInv, NEW v \in View, NEW dt \in Int, Receive(v, dt)
  PROVE  TypeInv'
<1>. USE DEF TypeInv, TypeOK, ProjectorTypeOK, FillModelTypeOK, RiskTypeOK, Phases, marketVars, outputVars, inventoryVars, projectorVars, riskVars
<1>1. CASE MarketEvent(v, dt)
  <2>1. Arrive(v, dt) /\ pc' = "book"
    BY <1>1 DEF MarketEvent
  <2>2. /\ now' \in Int /\ view' \in View /\ pc = "idle"
        /\ fills = <<>> /\ emitted = Nothing /\ eligible = {} /\ flow = 0
    BY <2>1, ArriveType
  <2>. QED BY <1>1, <2>1, <2>2 DEF MarketEvent, Arrive
<1>2. CASE PairSpecEvent(v, dt)
  <2>1. Arrive(v, dt) /\ pc' = "book"
    BY <1>2 DEF PairSpecEvent
  <2>2. /\ now' \in Int /\ view' \in View /\ pc = "idle"
        /\ fills = <<>> /\ emitted = Nothing /\ eligible = {} /\ flow = 0
    BY <2>1, ArriveType
  <2>3. makerFee' \in Int /\ pairSpec' \subseteq {"fetched", "disabled", "stop", "stop_buy", "stop_sell"}
    BY <1>2, PipelineAssumption DEF PairSpecEvent
  <2>. QED BY <1>2, <2>1, <2>2, <2>3 DEF PairSpecEvent, Arrive
<1>3. CASE StatusEvent(v, dt)
  <2>1. Arrive(v, dt) /\ pc' = "book"
    BY <1>3 DEF StatusEvent
  <2>2. /\ now' \in Int /\ view' \in View /\ pc = "idle"
        /\ fills = <<>> /\ emitted = Nothing /\ eligible = {} /\ flow = 0
    BY <2>1, ArriveType
  <2>. QED BY <1>3, <2>1, <2>2 DEF StatusEvent, Arrive
<1>4. CASE TradeEvent(v, dt)
  <2>1. Arrive(v, dt) /\ pc' = "match"
    BY <1>4 DEF TradeEvent
  <2>2. /\ now' \in Int /\ view' \in View /\ pc = "idle"
        /\ fills = <<>> /\ emitted = Nothing /\ eligible = {} /\ flow = 0
    BY <2>1, ArriveType
  <2>3. trade' \in TradeRecord
    BY <1>4, PipelineAssumption DEF TradeEvent, TradeRecord
  <2>4. trade'.price \in Nat /\ trade'.amount \in Nat
    BY <2>3 DEF TradeRecord
  <2>5. lastTrade' \in [ts : Int, price : Nat] \cup {None}
    BY <1>4, <2>2, <2>4 DEF TradeEvent, RecordTrade
  <2>6. flow' \in Nat /\ eligible' \subseteq DOMAIN tracked'
    BY <1>4, <2>4 DEF TradeEvent, Arrive, Eligible
  <2>. QED BY <1>4, <2>1, <2>2, <2>3, <2>5, <2>6 DEF TradeEvent, Arrive
<1>. QED BY <1>1, <1>2, <1>3, <1>4 DEF Receive

(* The fill of a matching round. *)
FillOf(i) == [id |-> i, side |-> tracked[i].side, price |-> tracked[i].price,
              size |-> FilledBy(tracked[i]), created |-> tracked[i].created]

(* A queue gives up what it no longer holds. *)
LEMMA TakenIsNat ==
  ASSUME NEW a \in Nat, NEW q \in Nat, NEW r \in Nat, r <= q
  PROVE  a + q - r \in Nat
OBVIOUS

(* One matching round keeps the types. *)
LEMMA MatchType ==
  ASSUME TypeInv, NEW i \in eligible, Match(i)
  PROVE  TypeInv'
<1>. USE DEF TypeInv, TypeOK, ProjectorTypeOK, FillModelTypeOK, RiskTypeOK, Phases
<1> DEFINE o == tracked[i]
           e == Eaten(o, FilledBy(o))
<1>1. /\ pc = "match" /\ pc' = "match" /\ i \in DOMAIN tracked /\ i \in Nat /\ o \in TrackedOrder /\ flow \in Nat
  BY DEF Match
<1>2. /\ FilledBy(o) \in Nat /\ FilledBy(o) <= o.remaining /\ e \in TrackedOrder
      /\ flow - MinOf2(o.queue, flow) - FilledBy(o) \in Nat
  BY <1>1, FillFacts
<1>3. /\ tracked' = IF FilledBy(o) = o.remaining THEN Without(i) ELSE [tracked EXCEPT ![i] = e]
      /\ flow' = flow - MinOf2(o.queue, flow) - FilledBy(o)
      /\ eligible' = eligible \ {i}
  BY DEF Match, Consume
<1>4. flow' \in Nat
  BY <1>2, <1>3
<1>. HIDE DEF e
<1>5. /\ DOMAIN tracked' \subseteq Nat /\ tracked' \in [DOMAIN tracked' -> TrackedOrder]
      /\ eligible' \subseteq DOMAIN tracked'
  <2>1. CASE FilledBy(o) = o.remaining
    <3>1. tracked' = [j \in DOMAIN tracked \ {i} |-> tracked[j]]
      BY <1>3, <2>1 DEF Without
    <3>. QED BY <1>3, <3>1
  <2>2. CASE FilledBy(o) # o.remaining
    <3>1. tracked' = [tracked EXCEPT ![i] = e]
      BY <1>3, <2>2
    <3>. QED BY <1>1, <1>2, <1>3, <3>1
  <2>. QED BY <2>1, <2>2
<1>6. fills' \in Seq(FillRecord)
  <2> DEFINE f == FillOf(i)
  <2>1. f \in FillRecord
    BY <1>1, <1>2 DEF TrackedOrder, FillRecord, FillOf
  <2>2. fills' = fills \/ fills' = Append(fills, f)
    BY DEF Match, FillOf
  <2>3. fills \in Seq(FillRecord)
    OBVIOUS
  <2>. HIDE DEF f, TypeInv, TypeOK, Phases
  <2>. QED BY <2>1, <2>2, <2>3, AppendProperties
<1>7. absorbed' \in Nat
  <2>1. QueueOf(i) = o.queue /\ QueueOf(i)' \in {0, e.queue}
    BY <1>1, <1>3 DEF QueueOf, Without
  <2>2. o.queue \in Nat /\ e.queue \in Nat /\ e.queue <= o.queue
    BY <1>1, <1>2, FillFacts DEF e, TrackedOrder
  <2>3. absorbed \in Nat /\ absorbed' = absorbed + QueueOf(i) - QueueOf(i)'
    BY DEF Match
  <2>. HIDE DEF o, e, TypeInv, TypeOK, ProjectorTypeOK, FillModelTypeOK, RiskTypeOK, Phases
  <2>4. QueueOf(i) \in Nat
    BY <2>1, <2>2
  <2>5. QueueOf(i)' \in Nat /\ QueueOf(i)' <= QueueOf(i)
    BY <2>1, <2>2
  <2>. QED BY <2>3, <2>4, <2>5, TakenIsNat
<1>. QED BY <1>1, <1>4, <1>5, <1>6, <1>7
     DEF Match, marketVars, outputVars, inventoryVars, projectorVars, riskVars

(* The end of the matching keeps the types. *)
LEMMA EndMatchType == TypeInv /\ EndMatch => TypeInv'
BY DEF TypeInv, TypeOK, ProjectorTypeOK, FillModelTypeOK, RiskTypeOK, Phases, EndMatch, marketVars, outputVars, inventoryVars, projectorVars, riskVars

(***************************************************************************)
(* apply_fill, and the report, change the balances by the same integers.   *)
(***************************************************************************)
Change(fill) ==
  LET cost == fill.price * fill.size
      fee  == Fee(fill.price, fill.size)
  IN  [base  |-> IF fill.side = "buy" THEN fill.size ELSE -fill.size,
       quote |-> IF fill.side = "buy" THEN -(cost + fee) ELSE cost - fee]

(* A booked fill moves the balances by integers. *)
LEMMA FillMoves ==
  ASSUME NEW fill \in FillRecord, makerFee \in Int, base \in Int, quote \in Int,
         NEW sum \in BalanceChange
  PROVE  /\ Change(fill) \in BalanceChange
         /\ Reported(sum, fill) = [base  |-> sum.base + Change(fill).base,
                                   quote |-> sum.quote + Change(fill).quote]
         /\ ApplyFill(fill.side, fill.price, fill.size, Fee(fill.price, fill.size))
              => base' = base + Change(fill).base /\ quote' = quote + Change(fill).quote
<1> DEFINE cost == fill.price * fill.size
           fee  == Fee(fill.price, fill.size)
<1>1. fill.price \in Int /\ fill.size \in Int /\ sum.base \in Int /\ sum.quote \in Int
  BY DEF FillRecord, BalanceChange
<1>2. cost \in Int /\ fee \in Int
  <2>1. cost \in Int
    BY <1>1
  <2>2. fee \in Int
    BY <1>1, FeeType
  <2>. QED BY <2>1, <2>2
<1>3. /\ Change(fill) = [base  |-> IF fill.side = "buy" THEN fill.size ELSE -fill.size,
                         quote |-> IF fill.side = "buy" THEN -(cost + fee) ELSE cost - fee]
      /\ Reported(sum, fill) =
           IF fill.side = "buy"
           THEN [base |-> sum.base + fill.size, quote |-> sum.quote - (cost + fee)]
           ELSE [base |-> sum.base - fill.size, quote |-> sum.quote + (cost - fee)]
      /\ ApplyFill(fill.side, fill.price, fill.size, Fee(fill.price, fill.size)) =>
           /\ base' = IF fill.side = "buy" THEN base + fill.size ELSE base - fill.size
           /\ quote' = IF fill.side = "buy" THEN quote - (cost + fee) ELSE quote + (cost - fee)
  BY DEF Change, Reported, ApplyFill
<1>. HIDE DEF cost, fee
<1>. QED BY <1>1, <1>2, <1>3 DEF BalanceChange

(* remove_filled only forgets orders. *)
LEMMA RemoveFilledType ==
  ASSUME ProjectorTypeOK, NEW id, RemoveFilled(id)
  PROVE  /\ ProjectorTypeOK' /\ DOMAIN active' = {k \in DOMAIN active : active[k].id # id}
         /\ \A k \in DOMAIN active' : active'[k] = active[k]
BY DEF ProjectorTypeOK, RemoveFilled

(* The log of the booked fills grows by fills. *)
LEMMA LogType ==
  ASSUME fillLog \in Seq([ts : Int, side : Sides]), NEW t \in Int, NEW side \in Sides
  PROVE  Append(fillLog, [ts |-> t, side |-> side]) \in Seq([ts : Int, side : Sides])
<1>1. PICK S : S = [ts : Int, side : Sides]
  OBVIOUS
<1>2. PICK f : f = [ts |-> t, side |-> side]
  OBVIOUS
<1>3. f \in S /\ fillLog \in Seq(S)
  BY <1>1, <1>2
<1>. QED BY <1>1, <1>2, <1>3, AppendProperties

(* Booking a fill, or failing to, keeps the types. *)
LEMMA BookType == TypeInv /\ Book => TypeInv'
<1>. SUFFICES ASSUME TypeInv, Book PROVE TypeInv'
  OBVIOUS
<1> DEFINE fill == Head(fills)
<1>1. fills \in Seq(FillRecord) /\ fills # <<>>
  BY DEF TypeInv, TypeOK, Book
<1>2. fill \in FillRecord /\ Tail(fills) \in Seq(FillRecord)
  BY <1>1, HeadTailProperties
<1>3. fill.side \in Sides /\ fill.price \in Int /\ fill.size \in Int
  BY <1>2 DEF FillRecord
<1>4. /\ ApplyFill(fill.side, fill.price, fill.size, Fee(fill.price, fill.size))
      /\ Abandon \/ Emit(fill)
  BY DEF Book
<1>. HIDE DEF fill
<1>5. /\ makerFee \in Int /\ base \in Int /\ quote \in Int /\ emitted \in BalanceChange /\ now \in Int
      /\ RiskTypeOK /\ ProjectorTypeOK
  BY DEF TypeInv, TypeOK, FillModelTypeOK
<1>6. Change(fill) \in BalanceChange /\ Reported(emitted, fill) \in BalanceChange
      /\ base' \in Int /\ quote' \in Int
  <2>1. /\ Change(fill) \in BalanceChange
        /\ Reported(emitted, fill) = [base  |-> emitted.base + Change(fill).base,
                                      quote |-> emitted.quote + Change(fill).quote]
        /\ base' = base + Change(fill).base /\ quote' = quote + Change(fill).quote
    BY <1>2, <1>4, <1>5, FillMoves
  <2>. QED BY <1>5, <2>1 DEF BalanceChange
<1>7. /\ UNCHANGED <<now, view, pairSpec, status, allowed, tracked, makerFee, eligible, flow, absorbed, ledger>>
      /\ FillModelTypeOK'
  BY DEF Book, Abandon, Emit, marketVars, fillModelVars, TypeInv, TypeOK, FillModelTypeOK
<1>8. CASE Abandon
  <2>1. RiskTypeOK' /\ ProjectorTypeOK'
    BY <1>5, <1>8 DEF Abandon, RiskTypeOK, ProjectorTypeOK, riskVars, projectorVars
  <2>2. /\ pc' \in {"idle", "failed"} /\ fills' = <<>> /\ trade' = None /\ emitted' = Nothing
        /\ emitted' \in BalanceChange /\ fillLog' = fillLog
    BY <1>8 DEF Abandon, Nothing, BalanceChange
  <2>. QED BY <1>6, <1>7, <2>1, <2>2 DEF Book, TypeInv, TypeOK, Phases
<1>9. CASE Emit(fill)
  <2>1. RiskTypeOK'
    BY <1>3, <1>5, <1>9, RecordFillType DEF Emit
  <2>2. ProjectorTypeOK'
    BY <1>5, <1>9, RemoveFilledType DEF Emit
  <2>3. pc' = "book" /\ trade' = trade
    BY <1>9 DEF Emit, Book
  <2>4. fills' \in Seq(FillRecord) /\ emitted' \in BalanceChange
    <3>1. fills' = Tail(fills) /\ emitted' = Reported(emitted, fill)
      BY <1>9 DEF Emit
    <3>. QED BY <1>2, <1>6, <3>1
  <2>5. fillLog' \in Seq([ts : Int, side : Sides])
    BY <1>3, <1>5, <1>9, LogType DEF Emit, TypeInv, TypeOK
  <2>. QED BY <1>6, <1>7, <2>1, <2>2, <2>3, <2>4, <2>5 DEF Book, TypeInv, TypeOK, Phases
<1>. QED BY <1>4, <1>8, <1>9

(***************************************************************************)
(* What a Decide step does to the two books of orders.                     *)
(***************************************************************************)

(* What the last part of process() leaves: kept orders as they were, placed
   orders with fresh ids in both books, nothing else tracked that was canceled. *)
LEMMA DecideFacts ==
  ASSUME TypeInv, Decide
  PROVE  /\ ProjectorTypeOK' /\ FillModelTypeOK' /\ counter' >= counter
         /\ \A k \in DOMAIN active' : PostOnlySafe(Side(k), active'[k].price, view', allowed')
         /\ \E kept \in SUBSET (DOMAIN active \cap DOMAIN active') :
              /\ \A k \in kept : active'[k] = active[k] /\ now < active[k].expires
              /\ \A k \in DOMAIN active' \ kept :
                   /\ active'[k].size > 0 /\ active'[k].created = now
                   /\ counter < active'[k].id /\ active'[k].id <= counter'
              /\ \A j, k \in DOMAIN active' \ kept : active'[j].id = active'[k].id => j = k
              /\ \A i : i \in DOMAIN tracked' <=>
                   \/ i \in DOMAIN tracked /\ \A k \in DOMAIN active \ kept : active[k].id # i
                   \/ \E k \in DOMAIN active' \ kept : active'[k].id = i
              /\ \A i \in DOMAIN tracked' :
                   \/ i \in DOMAIN tracked /\ tracked'[i] = tracked[i]
                   \/ \E k \in DOMAIN active' \ kept : active'[k].id = i
              /\ \A k \in DOMAIN active' \ kept :
                   LET o == active'[k] IN
                     /\ tracked'[o.id] \in TrackedOrder /\ Twin(k, o, tracked'[o.id])

<1> DEFINE sides   == Allowed(view, pairSpec, status, now)
           quotes  == Generate(view, Skew(view.fair))
           desired == DesiredKeys(quotes, view, sides)
           kept    == Kept(quotes, desired, view, sides, now)
           next    == Synced(quotes, view, sides, now)
           last    == counter + Cardinality(DOMAIN active \ kept) + Cardinality(desired \ kept)
<1>1. /\ ProjectorTypeOK /\ FillModelTypeOK /\ now \in Int /\ view \in View /\ base \in Int /\ quote \in Int
      /\ counter \in Nat
  BY DEF TypeInv, TypeOK, ProjectorTypeOK
<1>2. /\ active' = next /\ counter' = last /\ allowed' = sides /\ view' = view
      /\ UNCHANGED <<makerFee, eligible, flow, absorbed>>
  BY DEF Decide, Sync, marketVars
<1>3. PICK visible \in [desired -> VisibleQueues] : tracked' = TrackedAfter(next, kept, visible)
  BY DEF Decide
<1>4. QuotesTyped(quotes)
  <2>1. view.fair \in Nat \cup {None}
    BY <1>1 DEF View
  <2>2. Skew(view.fair) \in Int \cup {None}
    BY <1>1, <2>1, SkewType
  <2>. QED BY <1>1, <2>2, QuoteType DEF QuotesTyped
<1> HIDE DEF sides, quotes
<1>5. /\ DOMAIN next = desired /\ desired \subseteq Keys
      /\ kept \subseteq desired /\ kept \subseteq DOMAIN active
      /\ last \in Nat /\ last >= counter
      /\ \A k \in desired : PostOnlySafe(Side(k), next[k].price, view, sides)
      /\ \A k \in kept : next[k] = active[k] /\ now < active[k].expires
      /\ \A k \in desired \ kept : /\ next[k] \in ActiveOrder
                                   /\ next[k].size > 0 /\ next[k].created = now
                                   /\ counter < next[k].id /\ next[k].id <= last
      /\ \A j, k \in desired \ kept : next[j].id = next[k].id => j = k
  BY <1>1, <1>4, SyncFacts
<1>6. next = [k \in desired |-> next[k]]
  BY DEF Synced
<1> HIDE DEF next, kept, desired, last
<1>7. ProjectorTypeOK'
  BY <1>1, <1>2, <1>5, <1>6 DEF ProjectorTypeOK
<1>8. /\ tracked' = [i \in DOMAIN tracked' |-> tracked'[i]]
      /\ \A i : i \in DOMAIN tracked' <=>
           \/ i \in DOMAIN tracked /\ \A k \in DOMAIN active \ kept : active[k].id # i
           \/ \E k \in DOMAIN next \ kept : next[k].id = i
      /\ \A i \in DOMAIN tracked' :
           \/ /\ i \in DOMAIN tracked /\ tracked'[i] = tracked[i]
              /\ \A k \in DOMAIN next \ kept : next[k].id # i
           \/ \E k \in DOMAIN next \ kept :
                next[k].id = i /\ tracked'[i] = Track(k, next[k], visible[k])
  BY <1>3, SettledFacts
<1>9. ASSUME NEW k \in DOMAIN next \ kept
      PROVE  /\ tracked'[next[k].id] \in TrackedOrder
             /\ Twin(k, next[k], tracked'[next[k].id])
  <2>1. PICK j \in DOMAIN next \ kept :
          next[j].id = next[k].id /\ tracked'[next[k].id] = Track(j, next[j], visible[j])
    BY <1>8
  <2>2. j = k
    BY <1>5, <2>1
  <2>3. k \in Keys /\ next[k] \in ActiveOrder /\ visible[k] \in Nat
    BY <1>5, PipelineAssumption
  <2>4. Track(k, next[k], visible[k]) \in TrackedOrder
    BY <2>3, TrackFacts
  <2>5. Twin(k, next[k], Track(k, next[k], visible[k]))
    BY DEF Twin, Track
  <2>. QED BY <2>1, <2>2, <2>4, <2>5
<1>10. ASSUME NEW i \in DOMAIN tracked' PROVE i \in Nat /\ tracked'[i] \in TrackedOrder
  <2>1. CASE i \in DOMAIN tracked /\ tracked'[i] = tracked[i]
    BY <1>1, <2>1 DEF FillModelTypeOK
  <2>2. CASE \E k \in DOMAIN next \ kept : next[k].id = i
    <3>1. PICK k \in DOMAIN next \ kept : next[k].id = i
      BY <2>2
    <3>2. next[k].id \in Nat
      BY <1>5, <3>1 DEF ActiveOrder
    <3>. QED BY <1>9, <3>1, <3>2
  <2>. QED BY <1>8, <2>1, <2>2
<1>11. FillModelTypeOK'
  BY <1>1, <1>2, <1>8, <1>10 DEF FillModelTypeOK
<1>12. kept \in SUBSET (DOMAIN active \cap DOMAIN active')
  BY <1>2, <1>5
<1>13. counter' >= counter /\ \A k \in DOMAIN active' : PostOnlySafe(Side(k), active'[k].price, view', allowed')
  BY <1>2, <1>5
<1>14. /\ \A k \in kept : active'[k] = active[k] /\ now < active[k].expires
       /\ \A k \in DOMAIN active' \ kept :
            /\ active'[k].size > 0 /\ active'[k].created = now
            /\ counter < active'[k].id /\ active'[k].id <= counter'
       /\ \A j, k \in DOMAIN active' \ kept : active'[j].id = active'[k].id => j = k
  BY <1>2, <1>5
<1>15. /\ \A i : i \in DOMAIN tracked' <=>
            \/ i \in DOMAIN tracked /\ \A k \in DOMAIN active \ kept : active[k].id # i
            \/ \E k \in DOMAIN active' \ kept : active'[k].id = i
       /\ \A i \in DOMAIN tracked' :
            \/ i \in DOMAIN tracked /\ tracked'[i] = tracked[i]
            \/ \E k \in DOMAIN active' \ kept : active'[k].id = i
  BY <1>2, <1>8
<1>16. \A k \in DOMAIN active' \ kept :
         tracked'[active'[k].id] \in TrackedOrder /\ Twin(k, active'[k], tracked'[active'[k].id])
  BY <1>2, <1>9
<1>. QED BY <1>7, <1>11, <1>12, <1>13, <1>14, <1>15, <1>16

(* The last part of process() keeps the types. *)
LEMMA DecideType == TypeInv /\ Decide => TypeInv'
<1>. SUFFICES ASSUME TypeInv, Decide PROVE TypeInv'
  OBVIOUS
<1>1. ProjectorTypeOK' /\ FillModelTypeOK'
  BY DecideFacts
<1>2. RiskTypeOK'
  BY EvaluateType DEF Decide, TypeInv, TypeOK
<1>3. allowed' \subseteq Sides
  BY DEF Decide, Allowed
<1>4. ledger' \in BalanceChange /\ emitted' = Nothing /\ emitted' \in BalanceChange
  BY DEF Decide, TypeInv, TypeOK, BalanceChange, Nothing
<1>5. pc' = "idle" /\ pc = "book" /\ trade' = None /\ fills = <<>>
      /\ UNCHANGED <<now, view, pairSpec, status, fills, fillLog, base, quote, eligible, flow>>
  BY DEF Decide, marketVars, inventoryVars
<1>. QED BY <1>1, <1>2, <1>3, <1>4, <1>5 DEF TypeInv, TypeOK, Phases

(* Every step keeps the types. *)
LEMMA NextTypeInv == TypeInv /\ [Next]_vars => TypeInv'
<1>. SUFFICES ASSUME TypeInv, [Next]_vars PROVE TypeInv'
  OBVIOUS
<1>1. ASSUME NEW v \in Views, NEW dt \in TimeSteps, Receive(v, dt) PROVE TypeInv'
  BY <1>1, ReceiveType, InputTypes
<1>2. ASSUME NEW i \in eligible, Match(i) PROVE TypeInv'
  BY <1>2, MatchType
<1>3. CASE EndMatch
  BY <1>3, EndMatchType
<1>4. CASE Book
  BY <1>4, BookType
<1>5. CASE Decide
  BY <1>5, DecideType
<1>6. CASE UNCHANGED vars
  BY <1>6 DEF TypeInv, TypeOK, ProjectorTypeOK, FillModelTypeOK, RiskTypeOK, Phases, vars,
              marketVars, outputVars, inventoryVars, projectorVars, fillModelVars, riskVars
<1>. QED BY <1>1, <1>2, <1>3, <1>4, <1>5, <1>6 DEF Next

(***************************************************************************)
(* Every reachable state has its type.                                     *)
(***************************************************************************)
THEOREM TypeInvariant == Spec => []TypeInv
BY InitTypeInv, NextTypeInv, PTL DEF Spec

(* The type invariant the runs check holds in every reachable state of the
   pipeline: no operation of process() leaves a malformed order, fill, queue
   or history behind. *)
THEOREM TypeCorrect == Spec => []TypeOK
<1>1. TypeInv => TypeOK
  BY DEF TypeInv
<1>. QED BY <1>1, TypeInvariant, PTL

-------------------------------------------------------------------------------
(***************************************************************************)
(* Which steps touch the two books of orders, and how.                     *)
(***************************************************************************)
LEMMA OrderSteps ==
  ASSUME [Next]_vars
  PROVE  \/ UNCHANGED <<active, counter, tracked, fills>>
         \/ \E i \in eligible : Match(i)
         \/ Book
         \/ Decide
BY DEF Next, Receive, MarketEvent, PairSpecEvent, StatusEvent, TradeEvent, Arrive, EndMatch,
       vars, projectorVars, fillModelVars

(* A matching round takes from one tracked order and leaves the others. *)
LEMMA MatchFacts ==
  ASSUME TypeInv, NEW i \in eligible, Match(i)
  PROVE  LET o == tracked[i]
             n == FilledBy(o)
         IN  /\ i \in DOMAIN tracked /\ o \in TrackedOrder /\ n \in Nat /\ n <= o.remaining
             /\ UNCHANGED <<active, counter>>
             /\ DOMAIN tracked' = IF n = o.remaining THEN DOMAIN tracked \ {i} ELSE DOMAIN tracked
             /\ \A j \in DOMAIN tracked' \ {i} : tracked'[j] = tracked[j]
             /\ i \in DOMAIN tracked' =>
                  /\ tracked'[i] \in TrackedOrder
                  /\ tracked'[i].side = o.side /\ tracked'[i].price = o.price
                  /\ tracked'[i].created = o.created /\ tracked'[i].size = o.size
                  /\ tracked'[i].expires = o.expires
                  /\ tracked'[i].remaining = o.remaining - n
                  /\ tracked'[i].queue <= o.queue
                  /\ n > 0 => tracked'[i].queue = 0
             /\ fills' = IF n = 0 THEN fills ELSE Append(fills, FillOf(i))
<1> DEFINE o == tracked[i]
           n == FilledBy(o)
           e == Eaten(o, n)
<1>1. i \in DOMAIN tracked /\ o \in TrackedOrder /\ flow \in Nat
      /\ tracked = [j \in DOMAIN tracked |-> tracked[j]]
  BY DEF TypeInv, TypeOK, FillModelTypeOK, Phases
<1>2. /\ n \in Nat /\ n <= o.remaining
      /\ e \in TrackedOrder
      /\ e.side = o.side /\ e.price = o.price /\ e.created = o.created
      /\ e.size = o.size /\ e.expires = o.expires
      /\ e.remaining = o.remaining - n
      /\ e.queue <= o.queue /\ (n > 0 => e.queue = 0)
  BY <1>1, FillFacts
<1>3. /\ tracked' = IF n = o.remaining THEN [j \in DOMAIN tracked \ {i} |-> tracked[j]]
                                       ELSE [tracked EXCEPT ![i] = e]
      /\ UNCHANGED <<active, counter>>
      /\ fills' = IF n = 0 THEN fills ELSE Append(fills, FillOf(i))
  BY DEF Match, Consume, Without, FillOf, projectorVars
<1>. HIDE DEF e, n
<1>4. /\ DOMAIN tracked' = IF n = o.remaining THEN DOMAIN tracked \ {i} ELSE DOMAIN tracked
      /\ \A j \in DOMAIN tracked' \ {i} : tracked'[j] = tracked[j]
      /\ i \in DOMAIN tracked' => tracked'[i] = e
  BY <1>1, <1>3
<1>. QED BY <1>1, <1>2, <1>3, <1>4 DEF n

(***************************************************************************)
(* Ids, queues and amounts, whatever becomes of an exception.              *)
(***************************************************************************)
OrderAmounts == \A i \in DOMAIN tracked : 0 < tracked[i].remaining /\ tracked[i].remaining <= tracked[i].size
OrderInv == IdsAreUnique /\ QueueBeforeFill /\ OrderAmounts

(* No order exists initially. *)
LEMMA InitOrderInv == Init => OrderInv
BY DEF Init, ProjectorInit, FillModelInit, NothingAtAll, OrderInv, IdsAreUnique, QueueBeforeFill, OrderAmounts

(* A matching round eats the queue before the order and frees filled ids. *)
LEMMA MatchOrderInv ==
  ASSUME TypeInv, OrderInv, NEW i \in eligible, Match(i)
  PROVE  OrderInv'
<1> DEFINE o == tracked[i]
           n == FilledBy(o)
<1>1. /\ i \in DOMAIN tracked /\ o \in TrackedOrder /\ n \in Nat /\ n <= o.remaining
      /\ UNCHANGED <<active, counter>>
      /\ DOMAIN tracked' = IF n = o.remaining THEN DOMAIN tracked \ {i} ELSE DOMAIN tracked
      /\ \A j \in DOMAIN tracked' \ {i} : tracked'[j] = tracked[j]
      /\ i \in DOMAIN tracked' =>
           /\ tracked'[i] \in TrackedOrder
           /\ tracked'[i].size = o.size
           /\ tracked'[i].remaining = o.remaining - n
           /\ tracked'[i].queue <= o.queue
           /\ n > 0 => tracked'[i].queue = 0
  BY MatchFacts
<1>. HIDE DEF n
<1>2. IdsAreUnique'
  BY <1>1 DEF OrderInv, IdsAreUnique
<1>3. ASSUME NEW j \in DOMAIN tracked'
      PROVE  /\ tracked'[j].remaining < tracked'[j].size => tracked'[j].queue = 0
             /\ 0 < tracked'[j].remaining /\ tracked'[j].remaining <= tracked'[j].size
  <2>1. CASE j # i
    BY <1>1, <2>1 DEF OrderInv, QueueBeforeFill, OrderAmounts
  <2>2. CASE j = i
    <3>1. /\ o.remaining \in Nat /\ o.size \in Nat /\ o.queue \in Nat /\ tracked'[i].queue \in Nat
          /\ n # o.remaining
      BY <1>1, <2>2 DEF TrackedOrder
    <3>2. /\ o.remaining < o.size => o.queue = 0
          /\ o.remaining <= o.size
      BY <1>1 DEF OrderInv, QueueBeforeFill, OrderAmounts
    <3>. HIDE DEF o
    <3>. QED BY <1>1, <2>2, <3>1, <3>2
  <2>. QED BY <2>1, <2>2
<1>. QED BY <1>2, <1>3 DEF OrderInv, QueueBeforeFill, OrderAmounts

(* Booking a fill removes orders from the projector only. *)
LEMMA BookOrderInv == TypeInv /\ OrderInv /\ Book => OrderInv'
<1>. SUFFICES ASSUME TypeInv, OrderInv, Book PROVE OrderInv'
  OBVIOUS
<1>1. UNCHANGED <<tracked, counter>>
  BY DEF Book, Abandon, Emit, RemoveFilled, projectorVars, fillModelVars
<1>2. ProjectorTypeOK
  BY DEF TypeInv, TypeOK
<1>3. \A k \in DOMAIN active' : k \in DOMAIN active /\ active'[k] = active[k]
  BY <1>2, RemoveFilledType DEF Book, Abandon, Emit, projectorVars
<1>. QED BY <1>1, <1>3 DEF OrderInv, IdsAreUnique, QueueBeforeFill, OrderAmounts

(* Requoting gives out ids nobody has. *)
LEMMA DecideOrderInv == TypeInv /\ OrderInv /\ Decide => OrderInv'
<1>. SUFFICES ASSUME TypeInv, OrderInv, Decide PROVE OrderInv'
  OBVIOUS
<1>1. counter \in Nat /\ counter' \in Nat /\ counter' >= counter
      /\ ProjectorTypeOK /\ FillModelTypeOK /\ ProjectorTypeOK' /\ FillModelTypeOK'
  BY DecideFacts DEF TypeInv, TypeOK, ProjectorTypeOK
<1>2. PICK kept \in SUBSET (DOMAIN active \cap DOMAIN active') :
         /\ \A k \in kept : active'[k] = active[k] /\ now < active[k].expires
         /\ \A k \in DOMAIN active' \ kept :
              /\ active'[k].size > 0 /\ active'[k].created = now
              /\ counter < active'[k].id /\ active'[k].id <= counter'
         /\ \A j, k \in DOMAIN active' \ kept : active'[j].id = active'[k].id => j = k
         /\ \A i \in DOMAIN tracked' :
              \/ i \in DOMAIN tracked /\ tracked'[i] = tracked[i]
              \/ \E k \in DOMAIN active' \ kept : active'[k].id = i
         /\ \A k \in DOMAIN active' \ kept :
              LET o == active'[k] IN
                /\ tracked'[o.id] \in TrackedOrder /\ Twin(k, o, tracked'[o.id])
  BY DecideFacts
<1>3. \A k \in DOMAIN active' : active'[k].id \in Nat
  BY <1>1 DEF ProjectorTypeOK, ActiveOrder
<1>4. \A k \in kept : active'[k].id <= counter
  BY <1>2 DEF OrderInv, IdsAreUnique
<1>5. ASSUME NEW j \in DOMAIN active', NEW k \in DOMAIN active', active'[j].id = active'[k].id
      PROVE  j = k
  <2>1. CASE j \in kept /\ k \in kept
    BY <1>2, <1>5, <2>1 DEF OrderInv, IdsAreUnique
  <2>2. CASE j \in kept /\ k \notin kept
    BY <1>1, <1>2, <1>3, <1>4, <1>5, <2>2
  <2>3. CASE j \notin kept /\ k \in kept
    BY <1>1, <1>2, <1>3, <1>4, <1>5, <2>3
  <2>4. CASE j \notin kept /\ k \notin kept
    BY <1>2, <1>5, <2>4
  <2>. QED BY <2>1, <2>2, <2>3, <2>4
<1>6. \A k \in DOMAIN active' : active'[k].id <= counter'
  BY <1>1, <1>2, <1>3, <1>4
<1>7. ASSUME NEW i \in DOMAIN tracked'
      PROVE  /\ i <= counter'
             /\ tracked'[i].remaining < tracked'[i].size => tracked'[i].queue = 0
             /\ 0 < tracked'[i].remaining /\ tracked'[i].remaining <= tracked'[i].size
  <2>1. CASE i \in DOMAIN tracked /\ tracked'[i] = tracked[i]
    <3>1. i \in Nat /\ i <= counter
      BY <1>1, <2>1 DEF OrderInv, IdsAreUnique, FillModelTypeOK
    <3>. QED BY <1>1, <2>1, <3>1 DEF OrderInv, QueueBeforeFill, OrderAmounts
  <2>2. CASE \E k \in DOMAIN active' \ kept : active'[k].id = i
    <3>1. PICK k \in DOMAIN active' \ kept : active'[k].id = i
      BY <2>2
    <3>2. tracked'[i].remaining = active'[k].size /\ tracked'[i].size = active'[k].size
      <4>1. Twin(k, active'[k], tracked'[i])
        BY <1>2, <3>1
      <4>. QED BY <4>1 DEF Twin
    <3>3. active'[k].size \in Nat /\ active'[k].size > 0
      BY <1>1, <1>2 DEF ProjectorTypeOK, ActiveOrder
    <3>. QED BY <1>6, <3>1, <3>2, <3>3
  <2>. QED BY <1>2, <2>1, <2>2
<1>. QED BY <1>5, <1>6, <1>7 DEF OrderInv, IdsAreUnique, QueueBeforeFill, OrderAmounts

(* Every step keeps what holds of the single orders. *)
LEMMA NextOrderInv == TypeInv /\ OrderInv /\ [Next]_vars => OrderInv'
<1>. SUFFICES ASSUME TypeInv, OrderInv, [Next]_vars PROVE OrderInv'
  OBVIOUS
<1>1. CASE UNCHANGED <<active, counter, tracked, fills>>
  BY <1>1 DEF OrderInv, IdsAreUnique, QueueBeforeFill, OrderAmounts
<1>2. ASSUME NEW i \in eligible, Match(i) PROVE OrderInv'
  BY <1>2, MatchOrderInv
<1>. QED BY <1>1, <1>2, BookOrderInv, DecideOrderInv, OrderSteps

(* What holds of the single orders, in every reachable state: ids are
   unique and given out, remaining amounts positive, queues eaten first. *)
THEOREM OrderInvariant == Spec => []OrderInv
<1>1. Init => OrderInv
  BY InitOrderInv
<1>2. TypeInv /\ OrderInv /\ [Next]_vars => OrderInv'
  BY NextOrderInv
<1>. QED BY <1>1, <1>2, TypeInvariant, PTL DEF Spec

(***************************************************************************)
(* No two orders ever share an id.                                         *)
(***************************************************************************)
THEOREM IdsStayUnique == Spec => []IdsAreUnique
<1>1. OrderInv => IdsAreUnique
  BY DEF OrderInv
<1>. QED BY <1>1, OrderInvariant, PTL

(***************************************************************************)
(* Fills are conservative: the queue ahead goes first.                     *)
(***************************************************************************)
THEOREM FillsWaitForTheQueue == Spec => []QueueBeforeFill
<1>1. OrderInv => QueueBeforeFill
  BY DEF OrderInv
<1>. QED BY <1>1, OrderInvariant, PTL

-------------------------------------------------------------------------------
(***************************************************************************)
(* The tracked orders implement OrderLifecycle.                            *)
(***************************************************************************)
LEMMA InitRefines == Init => Lifecycle!Init
BY DEF Init, ProjectorInit, FillModelInit, NothingAtAll, Lifecycle!Init

(* A matching round is a Fill of the abstract order book or no step of it. *)
LEMMA MatchRefines ==
  ASSUME TypeInv, OrderInv, NEW i \in eligible, Match(i)
  PROVE  Lifecycle!Next
<1> DEFINE o == tracked[i]
           n == FilledBy(o)
<1>1. /\ i \in DOMAIN tracked /\ o \in TrackedOrder /\ n \in Nat /\ n <= o.remaining
      /\ UNCHANGED <<active, counter>>
      /\ DOMAIN tracked' = IF n = o.remaining THEN DOMAIN tracked \ {i} ELSE DOMAIN tracked
      /\ \A j \in DOMAIN tracked' \ {i} : tracked'[j] = tracked[j]
      /\ i \in DOMAIN tracked' =>
           /\ tracked'[i] \in TrackedOrder
           /\ tracked'[i].side = o.side /\ tracked'[i].price = o.price
           /\ tracked'[i].remaining = o.remaining - n
  BY MatchFacts
<1>2. o.remaining \in Nat /\ o.remaining > 0 /\ counter \in Nat
  BY <1>1 DEF OrderInv, OrderAmounts, TrackedOrder, TypeInv, TypeOK, ProjectorTypeOK
<1>. HIDE DEF n
<1>3. CASE n = 0
  <2>1. DOMAIN tracked' = DOMAIN tracked
    BY <1>1, <1>2, <1>3
  <2>2. \A j \in DOMAIN tracked' : /\ tracked'[j].side = tracked[j].side
                                   /\ tracked'[j].price = tracked[j].price
                                   /\ tracked'[j].remaining = tracked[j].remaining
    BY <1>1, <1>2, <1>3, <2>1
  <2>3. Lifecycle!Requote
    BY <1>1, <1>2, <2>1, <2>2 DEF Lifecycle!Requote
  <2>. QED BY <2>3 DEF Lifecycle!Next
<1>4. CASE n > 0
  <2>1. i \in DOMAIN tracked' =>
          /\ tracked'[i].side = tracked[i].side /\ tracked'[i].price = tracked[i].price
          /\ 0 < tracked'[i].remaining /\ tracked'[i].remaining < tracked[i].remaining
    BY <1>1, <1>2, <1>4
  <2>2. Lifecycle!Fill
    BY <1>1, <2>1 DEF Lifecycle!Fill, Lifecycle!Terms
  <2>. QED BY <2>2 DEF Lifecycle!Next
<1>. QED BY <1>1, <1>3, <1>4

(* The last part of process() is a Requote of the abstract order book. *)
LEMMA DecideRefines == TypeInv /\ OrderInv /\ Decide => Lifecycle!Next
<1>. SUFFICES ASSUME TypeInv, OrderInv, Decide PROVE Lifecycle!Requote
  BY DEF Lifecycle!Next
<1>1. counter' >= counter /\ ProjectorTypeOK'
  BY DecideFacts
<1>2. PICK kept \in SUBSET (DOMAIN active \cap DOMAIN active') :
         /\ \A k \in DOMAIN active' \ kept :
              /\ active'[k].size > 0
              /\ counter < active'[k].id /\ active'[k].id <= counter'
         /\ \A i \in DOMAIN tracked' :
              \/ i \in DOMAIN tracked /\ tracked'[i] = tracked[i]
              \/ \E k \in DOMAIN active' \ kept : active'[k].id = i
         /\ \A k \in DOMAIN active' \ kept :
              LET o == active'[k] IN
                /\ tracked'[o.id] \in TrackedOrder /\ Twin(k, o, tracked'[o.id])
  BY DecideFacts
<1>3. ASSUME NEW i \in DOMAIN tracked'
      PROVE  \/ i \in DOMAIN tracked /\ tracked'[i] = tracked[i]
             \/ i > counter /\ i <= counter' /\ tracked'[i].remaining > 0
  <2>1. CASE \E k \in DOMAIN active' \ kept : active'[k].id = i
    <3>1. PICK k \in DOMAIN active' \ kept : active'[k].id = i
      BY <2>1
    <3>2. Twin(k, active'[k], tracked'[i])
      BY <1>2, <3>1
    <3>3. tracked'[i].remaining = active'[k].size
      BY <3>2 DEF Twin
    <3>4. counter < i /\ i <= counter' /\ active'[k].size > 0
      BY <1>2, <3>1
    <3>. QED BY <3>3, <3>4
  <2>. QED BY <1>2, <2>1
<1>. QED BY <1>1, <1>3 DEF Lifecycle!Requote

(***************************************************************************)
(* Placement, partial and last fills, cancels and replacements together    *)
(* are the abstract life of an order.                                      *)
(***************************************************************************)
THEOREM Refinement == Spec => ImplementsLifecycle
<1>1. TypeInv /\ OrderInv /\ [Next]_vars
        => [Lifecycle!Next]_<<[i \in DOMAIN tracked |-> [side |-> tracked[i].side,
                                                         price |-> tracked[i].price,
                                                         remaining |-> tracked[i].remaining]], counter>>
  <2>. SUFFICES ASSUME TypeInv, OrderInv, [Next]_vars,
                       ~UNCHANGED <<tracked, counter>>
                PROVE  Lifecycle!Next
    OBVIOUS
  <2>1. Book => UNCHANGED <<tracked, counter>>
    BY DEF Book, Abandon, Emit, RemoveFilled, projectorVars, fillModelVars
  <2>. QED BY <2>1, OrderSteps, MatchRefines, DecideRefines
<1>. QED BY <1>1, InitRefines, TypeInvariant, OrderInvariant, PTL DEF Spec, Lifecycle!Spec, ImplementsLifecycle

(***************************************************************************)
(* Price-time priority among the orders a trade reaches.  As long as some  *)
(* of the trade is left, the orders in line are all that it can reach:     *)
(* whoever had his turn was filled to the last and is gone.                *)
(***************************************************************************)
LineInv == pc = "match" =>
  /\ eligible \subseteq Eligible(trade, now)
  /\ flow > 0 => Eligible(trade, now) \subseteq eligible

(* A matching round changes no order's place, and leaves some of the trade
   only if it fills its order to the last. *)
LEMMA MatchKeepsTheLine ==
  ASSUME TypeInv, LineInv, NEW i \in eligible, Match(i)
  PROVE  /\ LineInv'
         /\ Eligible(trade, now) = eligible
         /\ Eligible(trade, now)' \subseteq Eligible(trade, now)
         /\ \A j \in DOMAIN tracked' :
              /\ j \in DOMAIN tracked /\ tracked'[j].side = tracked[j].side
              /\ tracked'[j].price = tracked[j].price /\ tracked'[j].created = tracked[j].created
<1> DEFINE o == tracked[i]
           n == FilledBy(o)
<1>1. /\ i \in DOMAIN tracked /\ o \in TrackedOrder /\ n \in Nat /\ n <= o.remaining
      /\ DOMAIN tracked' = IF n = o.remaining THEN DOMAIN tracked \ {i} ELSE DOMAIN tracked
      /\ \A j \in DOMAIN tracked' \ {i} : tracked'[j] = tracked[j]
      /\ i \in DOMAIN tracked' =>
           /\ tracked'[i].side = o.side /\ tracked'[i].price = o.price
           /\ tracked'[i].created = o.created
  BY MatchFacts
<1>2. /\ pc = "match" /\ pc' = "match" /\ UNCHANGED <<trade, now>> /\ eligible' = eligible \ {i}
      /\ flow > 0 /\ flow \in Nat /\ flow' = flow - MinOf2(o.queue, flow) - n
      /\ eligible' \subseteq DOMAIN tracked'
  BY MatchType DEF Match, Consume, TypeInv, TypeOK, FillModelTypeOK, Phases
<1>3. Eligible(trade, now) = eligible
  BY <1>2 DEF LineInv
<1>4. \A j \in DOMAIN tracked' :
        /\ j \in DOMAIN tracked /\ tracked'[j].side = tracked[j].side
        /\ tracked'[j].price = tracked[j].price /\ tracked'[j].created = tracked[j].created
  BY <1>1
<1>5. \A j \in DOMAIN tracked' : Reached(tracked'[j], trade', now') <=> Reached(tracked[j], trade, now)
  BY <1>2, <1>4 DEF Reached
<1>6. \A j : j \in Eligible(trade, now)' <=> j \in DOMAIN tracked' /\ j \in Eligible(trade, now)
  BY <1>4, <1>5 DEF Eligible
<1>7. flow' > 0 => i \notin DOMAIN tracked'
  <2>1. o.queue \in Nat /\ o.remaining \in Nat
    BY <1>1 DEF TrackedOrder
  <2>2. flow' > 0 => n = o.remaining
    BY <1>2, <2>1 DEF FilledBy, MinOf2
  <2>. QED BY <1>1, <2>2
<1>8. LineInv'
  BY <1>2, <1>3, <1>6, <1>7 DEF LineInv
<1>. QED BY <1>3, <1>4, <1>6, <1>8

(* A matching round fills the first in line. *)
LEMMA MatchPriority ==
  ASSUME TypeInv, LineInv, PriorityRespected, NEW i \in eligible, Match(i)
  PROVE  PriorityRespected'
<1> DEFINE o == tracked[i]
           f == FillOf(i)
<1>1. /\ i \in DOMAIN tracked /\ o \in TrackedOrder
      /\ fills' = IF FilledBy(o) = 0 THEN fills ELSE Append(fills, f)
  BY MatchFacts
<1>2. /\ pc = "match" /\ IsFirst(i) /\ i \in Nat /\ FilledBy(o) \in Nat
      /\ fills \in Seq(FillRecord) /\ FillModelTypeOK
  BY MatchFacts DEF Match, TypeInv, TypeOK, FillModelTypeOK, Phases
<1>3. /\ Eligible(trade, now) = eligible
      /\ \A j \in Eligible(trade, now)' :
           /\ j \in Eligible(trade, now) /\ tracked'[j].price = tracked[j].price
           /\ tracked'[j].created = tracked[j].created
  BY MatchKeepsTheLine DEF Eligible
<1>4. f \in FillRecord /\ f.id = i /\ f.side = o.side /\ f.price = o.price /\ f.created = o.created
  BY <1>1, <1>2 DEF FillOf, FillRecord, TrackedOrder
<1>5. ASSUME NEW j \in eligible, j # i
      PROVE  NoLater(f, tracked[j])
  <2>1. Before(i, j)
    BY <1>2, <1>5 DEF IsFirst
  <2>2. tracked[j] \in TrackedOrder
    BY <1>2, <1>3 DEF FillModelTypeOK, Eligible
  <2>3. o.created \in Int /\ tracked[j].created \in Int
    BY <1>1, <2>2 DEF TrackedOrder
  <2>4. IF o.price # tracked[j].price THEN (o.side = "buy") = (o.price > tracked[j].price)
        ELSE o.created < tracked[j].created \/ o.created = tracked[j].created
    BY <2>1 DEF Before
  <2>. QED BY <1>4, <2>3, <2>4 DEF NoLater
<1>6. ASSUME NEW m \in 1..Len(fills')
      PROVE  (m \in 1..Len(fills) /\ fills'[m] = fills[m]) \/ fills'[m] = f
  <2>1. CASE FilledBy(o) = 0
    BY <1>1, <2>1
  <2>2. CASE FilledBy(o) # 0
    <3>1. fills' = Append(fills, f)
      BY <1>1, <2>2
    <3>. HIDE DEF f
    <3>2. /\ Len(fills) \in Nat /\ Len(fills') = Len(fills) + 1 /\ fills'[Len(fills) + 1] = f
          /\ \A p \in 1..Len(fills) : fills'[p] = fills[p]
      BY <1>2, <1>4, <3>1, AppendProperties
    <3>. QED BY <3>2
  <2>. QED BY <2>1, <2>2
<1>. HIDE DEF f
<1>7. ASSUME NEW m \in 1..Len(fills'), NEW j \in Eligible(trade, now)', j # fills'[m].id
      PROVE  NoLater(fills'[m], tracked'[j])
  <2>1. j \in eligible /\ tracked'[j].price = tracked[j].price /\ tracked'[j].created = tracked[j].created
    BY <1>3
  <2>2. NoLater(fills'[m], tracked[j])
    <3>1. CASE m \in 1..Len(fills) /\ fills'[m] = fills[m]
      BY <1>2, <1>3, <1>7, <2>1, <3>1 DEF PriorityRespected
    <3>2. CASE fills'[m] = f
      BY <1>4, <1>5, <1>7, <2>1, <3>2
    <3>. QED BY <1>6, <3>1, <3>2
  <2>. QED BY <2>1, <2>2 DEF NoLater
<1>. QED BY <1>7 DEF PriorityRespected

(* Price-time priority of on_market_event: a trade never fills an order while
   it can reach another, not filled to the last, that is priced better, or the
   same and older. *)
THEOREM PriorityHolds == Spec => []PriorityRespected
<1>1. Init => LineInv /\ PriorityRespected
  BY DEF Init, LineInv, PriorityRespected
<1>2. TypeInv /\ (LineInv /\ PriorityRespected) /\ [Next]_vars => (LineInv /\ PriorityRespected)'
  <2> SUFFICES ASSUME TypeInv, LineInv, PriorityRespected, [Next]_vars
               PROVE  LineInv' /\ PriorityRespected'
    OBVIOUS
  <2>1. ASSUME NEW v \in Views, NEW dt \in TimeSteps, Receive(v, dt) PROVE LineInv' /\ PriorityRespected'
    <3>1. Arrive(v, dt) /\ fills' = fills
      BY <2>1 DEF Receive, MarketEvent, PairSpecEvent, StatusEvent, TradeEvent
    <3>2. fills' = <<>>
      BY <3>1, ArriveType, InputTypes
    <3>3. pc' = "match" => eligible' = Eligible(trade', now') /\ tracked' = tracked
      BY <2>1, <3>1 DEF Receive, MarketEvent, PairSpecEvent, StatusEvent, TradeEvent, Arrive
    <3>4. LineInv'
      BY <3>3 DEF LineInv, Eligible
    <3>. QED BY <3>2, <3>4 DEF PriorityRespected
  <2>2. ASSUME NEW i \in eligible, Match(i) PROVE LineInv' /\ PriorityRespected'
    BY <2>2, MatchKeepsTheLine, MatchPriority
  <2>3. CASE EndMatch \/ Book \/ Decide
    BY <2>3 DEF EndMatch, Book, Decide, Abandon, Emit, LineInv, PriorityRespected
  <2>4. CASE UNCHANGED vars
    BY <2>4 DEF vars, fillModelVars, LineInv, PriorityRespected, Eligible
  <2>. QED BY <2>1, <2>2, <2>3, <2>4 DEF Next
<1>. QED BY <1>1, <1>2, TypeInvariant, PTL DEF Spec

-------------------------------------------------------------------------------
(* Before the first fill, nothing is filled. *)
LEMMA NothingFilled == FilledOf(<<>>) = 0
<1>1. DOMAIN [n \in DOMAIN <<>> |-> <<>>[n].size] = {}
  OBVIOUS
<1>. QED BY <1>1, SumEmpty, Zenon DEF FilledOf, SumFunction

(* A fill more takes its size more. *)
LEMMA FilledAppend ==
  ASSUME NEW s \in Seq(FillRecord), NEW f \in FillRecord
  PROVE  /\ FilledOf(Append(s, f)) = FilledOf(s) + f.size
         /\ FilledOf(s) \in Int
<1> DEFINE n == Len(s)
           more == Append(s, f)
           a == [i \in DOMAIN s |-> s[i].size]
           b == [i \in DOMAIN more |-> more[i].size]
<1>1. /\ n \in Nat /\ DOMAIN s = 1..n /\ DOMAIN more = 1..n + 1
      /\ more[n + 1] = f /\ \A i \in 1..n : more[i] = s[i] /\ s[i] \in FillRecord
  BY AppendProperties
<1>2. \A i \in 1..n : a[i] \in Int /\ b[i] = a[i]
  BY <1>1 DEF FillRecord
<1>3. b[n + 1] = f.size /\ b[n + 1] \in Int
  BY <1>1 DEF FillRecord
<1>4. DOMAIN a = 1..n /\ DOMAIN b = 1..n + 1
  BY <1>1
<1>5. FilledOf(s) = SumFunctionOnSet(a, 1..n) /\ FilledOf(more) = SumFunctionOnSet(b, 1..n + 1)
  BY <1>4, Zenon DEF FilledOf, SumFunction
<1>. HIDE DEF a, b, n
<1>6. SumFunctionOnSet(b, 1..n + 1) = SumFunctionOnSet(a, 1..n) + b[n + 1]
  BY <1>1, <1>2, <1>3, SumAppend
<1>7. SumFunctionOnSet(a, 1..n) \in Int
  <2>1. IsFiniteSet(1..n)
    BY <1>1, FS_Interval
  <2>. QED BY <1>2, <2>1, SumType
<1>. QED BY <1>3, <1>5, <1>6, <1>7, Zenon

(* A round of the matching takes from the flow what it fills and what the
   queue in front of the order loses. *)
LEMMA MatchConsumes ==
  ASSUME TypeInv, OrderInv, FlowIsConserved, NEW i \in eligible, Match(i)
  PROVE  FlowIsConserved'
<1> DEFINE o == tracked[i]
           n == FilledBy(o)
           q == MinOf2(o.queue, flow)
           f == FillOf(i)
           e == Eaten(o, n)
<1>1. /\ i \in DOMAIN tracked /\ o \in TrackedOrder /\ n \in Nat
      /\ fills' = IF n = 0 THEN fills ELSE Append(fills, f)
  BY MatchFacts
<1>2. /\ pc = "match" /\ trade' = trade /\ flow' = flow - q - n
      /\ trade \in TradeRecord /\ fills \in Seq(FillRecord) /\ flow \in Nat /\ i \in Nat
      /\ absorbed \in Nat /\ absorbed' = absorbed + QueueOf(i) - QueueOf(i)'
  BY DEF Match, Consume, TypeInv, TypeOK, Phases, FillModelTypeOK
<1>3. q \in Nat /\ o.queue \in Nat /\ trade.amount \in Nat /\ f \in FillRecord /\ f.size = n
  BY <1>1, <1>2 DEF TrackedOrder, MinOf2, TradeRecord, FillRecord, FillOf
<1>4. FilledOf(fills) + absorbed + flow = trade.amount
  BY <1>2 DEF FlowIsConserved
<1>5. absorbed' = absorbed + q
  <2>1. /\ e.queue = o.queue - q /\ (n > 0 => e.queue = 0)
    BY <1>1, <1>2, FillFacts
  <2>2. QueueOf(i) = o.queue
    BY <1>1 DEF QueueOf
  <2>3. tracked' = IF n = o.remaining THEN Without(i) ELSE [tracked EXCEPT ![i] = e]
    BY DEF Match, Consume
  <2>. HIDE DEF e, q, n
  <2>4. CASE n = o.remaining
    <3>1. o.remaining > 0
      BY <1>1 DEF OrderInv, OrderAmounts
    <3>2. QueueOf(i)' = 0
      BY <2>3, <2>4 DEF QueueOf, Without
    <3>. QED BY <1>2, <1>3, <2>1, <2>2, <2>4, <3>1, <3>2
  <2>5. CASE n # o.remaining
    <3>1. QueueOf(i)' = e.queue
      BY <1>1, <2>3, <2>5 DEF QueueOf
    <3>. QED BY <1>2, <1>3, <2>1, <2>2, <3>1
  <2>. QED BY <2>4, <2>5
<1>. HIDE DEF o, n, q, f, e
<1>6. FilledOf(fills) \in Int /\ FilledOf(Append(fills, f)) = FilledOf(fills) + n
  BY <1>2, <1>3, FilledAppend
<1>7. FilledOf(fills') = FilledOf(fills) + n
  <2>1. CASE n = 0
    <3>1. fills' = fills
      BY <1>1, <2>1
    <3>. QED BY <1>6, <2>1, <3>1
  <2>2. CASE n # 0
    <3>1. fills' = Append(fills, f)
      BY <1>1, <2>2
    <3>. QED BY <1>6, <3>1, Zenon
  <2>. QED BY <2>1, <2>2
<1>8. FilledOf(fills') + absorbed' + flow' = trade'.amount
  BY <1>1, <1>2, <1>3, <1>4, <1>5, <1>6, <1>7
<1>. QED BY <1>8 DEF FlowIsConserved, FilledOf

(* The trade's amount is handed out exactly once: what on_market_event has
   filled so far, what the queues in front of the orders have lost since the
   trade came in, and what it still has to give are what was traded. *)
THEOREM TradeIsConsumedOnce == Spec => []FlowIsConserved
<1>1. Init => FlowIsConserved
  BY DEF Init, FlowIsConserved
<1>2. TypeInv /\ OrderInv /\ FlowIsConserved /\ [Next]_vars => FlowIsConserved'
  <2> SUFFICES ASSUME TypeInv, OrderInv, FlowIsConserved, [Next]_vars PROVE FlowIsConserved'
    OBVIOUS
  <2>1. ASSUME NEW v \in Views, NEW dt \in TimeSteps, Receive(v, dt) PROVE FlowIsConserved'
    <3>1. CASE TradeEvent(v, dt)
      <4>1. /\ Arrive(v, dt) /\ trade' \in TradeRecord /\ flow' = trade'.amount /\ absorbed' = 0
            /\ fills' = fills
        BY <3>1, PipelineAssumption DEF TradeEvent, TradeRecord
      <4>2. fills' = <<>>
        BY <4>1, ArriveType, InputTypes
      <4>3. flow' \in Nat
        BY <4>1 DEF TradeRecord
      <4>4. FilledOf(fills') = 0
        BY <4>2, NothingFilled, Zenon
      <4>5. FilledOf(fills') + absorbed' + flow' = trade'.amount
        BY <4>1, <4>3, <4>4
      <4>. QED BY <4>5 DEF FlowIsConserved, FilledOf
    <3>2. CASE ~TradeEvent(v, dt)
      BY <2>1, <3>2 DEF Receive, MarketEvent, PairSpecEvent, StatusEvent, FlowIsConserved
    <3>. QED BY <3>1, <3>2
  <2>2. ASSUME NEW i \in eligible, Match(i) PROVE FlowIsConserved'
    BY <2>2, MatchConsumes
  <2>3. CASE EndMatch \/ Book \/ Decide
    BY <2>3 DEF EndMatch, Book, Decide, Abandon, Emit, FlowIsConserved
  <2>4. CASE UNCHANGED vars
    BY <2>4 DEF vars, fillModelVars, FlowIsConserved, FilledOf
  <2>. QED BY <2>1, <2>2, <2>3, <2>4 DEF Next
<1>. QED BY <1>1, <1>2, TypeInvariant, OrderInvariant, PTL DEF Spec

-------------------------------------------------------------------------------
(***************************************************************************)
(* What holds as long as an exception ends the run, as it does in replay:  *)
(* projector and fill model agree on the orders, and the reported fills    *)
(* explain the balances.                                                   *)
(***************************************************************************)

(***************************************************************************)
(* An order with a fill still to be booked is no longer whole.             *)
(***************************************************************************)
FilledIsPartial ==
  \A n \in 1..Len(fills) : LET i == fills[n].id IN
    i \in DOMAIN tracked => tracked[i].remaining < tracked[i].size
BooksInv == ActiveIsTracked /\ OrphansWerePartlyFilled /\ FilledIsPartial

(* A tracked twin of an active order has its terms. *)
LEMMA TwinFields ==
  ASSUME NEW k, NEW o, NEW t \in TrackedOrder
  PROVE  Twin(k, o, t) <=> /\ t.side = Side(k) /\ t.price = o.price /\ t.remaining = o.size
                           /\ t.created = o.created /\ t.size = o.size /\ t.expires = o.expires
BY DEF Twin, TrackedOrder

(* Both order books start empty. *)
LEMMA InitBooksInv == Init => BooksInv
BY DEF Init, ProjectorInit, FillModelInit, NothingAtAll, BooksInv, ActiveIsTracked,
       OrphansWerePartlyFilled, FilledIsPartial

(* A matching round leaves the two books in agreement, but for the fill it
   has still to book. *)
LEMMA MatchBooksInv ==
  ASSUME TypeInv, OrderInv, BooksInv, NEW i \in eligible, Match(i)
  PROVE  BooksInv'
<1> DEFINE o == tracked[i]
           n == FilledBy(o)
           f == FillOf(i)
<1>1. /\ i \in DOMAIN tracked /\ o \in TrackedOrder /\ n \in Nat /\ n <= o.remaining
      /\ UNCHANGED <<active, counter>>
      /\ DOMAIN tracked' = IF n = o.remaining THEN DOMAIN tracked \ {i} ELSE DOMAIN tracked
      /\ \A j \in DOMAIN tracked' \ {i} : tracked'[j] = tracked[j]
      /\ i \in DOMAIN tracked' =>
           /\ tracked'[i] \in TrackedOrder
           /\ tracked'[i].side = o.side /\ tracked'[i].price = o.price
           /\ tracked'[i].created = o.created /\ tracked'[i].size = o.size
           /\ tracked'[i].expires = o.expires
           /\ tracked'[i].remaining = o.remaining - n
      /\ fills' = IF n = 0 THEN fills ELSE Append(fills, f)
  BY MatchFacts
<1>2. /\ o.remaining \in Nat /\ o.size \in Nat /\ o.remaining > 0 /\ o.remaining <= o.size
  BY <1>1 DEF OrderInv, OrderAmounts, TrackedOrder
<1>3. /\ Running /\ Running' /\ fills \in Seq(FillRecord)
      /\ FillModelTypeOK
  BY DEF Match, Running, TypeInv, TypeOK
<1>4. OrderAmounts'
  BY MatchOrderInv DEF OrderInv
<1>5. /\ Len(fills) \in Nat
      /\ \/ n = 0 /\ fills' = fills
         \/ /\ n > 0 /\ Len(fills') = Len(fills) + 1 /\ fills'[Len(fills) + 1].id = i
            /\ \A m \in 1..Len(fills) : fills'[m] = fills[m]
  <2>1. CASE n = 0
    BY <1>1, <1>3, <2>1
  <2>2. CASE n > 0
    <3>1. f \in FillRecord /\ f.id = i
      BY <1>1, <1>3 DEF FillRecord, TrackedOrder, FillModelTypeOK, FillOf
    <3>2. fills' = Append(fills, f)
      BY <1>1, <2>2
    <3>. HIDE DEF f
    <3>3. Len(fills') = Len(fills) + 1 /\ fills'[Len(fills) + 1] = f
          /\ \A m \in 1..Len(fills) : fills'[m] = fills[m]
      BY <1>3, <3>1, <3>2, AppendProperties
    <3>. QED BY <1>3, <2>2, <3>1, <3>3
  <2>. QED BY <1>1, <2>1, <2>2
<1>. HIDE DEF n, f
<1>6. ActiveIsTracked'
  <2> SUFFICES ASSUME NEW k \in DOMAIN active
               PROVE  \/ \E m \in 1..Len(fills') : fills'[m].id = active[k].id
                      \/ active[k].id \in DOMAIN tracked' /\ Twin(k, active[k], tracked'[active[k].id])
    BY <1>1 DEF ActiveIsTracked
  <2>1. CASE \E m \in 1..Len(fills) : fills[m].id = active[k].id
    BY <1>5, <2>1
  <2>2. CASE /\ active[k].id \in DOMAIN tracked /\ Twin(k, active[k], tracked[active[k].id])
    <3>1. CASE active[k].id # i
      BY <1>1, <2>2, <3>1
    <3>2. CASE active[k].id = i /\ n = 0
      <4>1. i \in DOMAIN tracked' /\ tracked'[i].remaining = o.remaining
        BY <1>1, <1>2, <3>2
      <4>. QED BY <1>1, <2>2, <3>2, <4>1, TwinFields
    <3>3. CASE active[k].id = i /\ n > 0
      BY <1>5, <3>3
    <3>. QED BY <1>1, <3>1, <3>2, <3>3
  <2>. QED BY <1>3, <2>1, <2>2 DEF BooksInv, ActiveIsTracked
<1>7. OrphansWerePartlyFilled'
  <2> SUFFICES ASSUME NEW j \in DOMAIN tracked', tracked'[j].remaining = tracked'[j].size
               PROVE  j \in ActiveIds
    BY <1>1, <1>4 DEF OrphansWerePartlyFilled, OrderAmounts, ActiveIds
  <2>1. j \in DOMAIN tracked /\ tracked[j].remaining = tracked[j].size
    <3>1. CASE j # i
      BY <1>1, <3>1
    <3>2. CASE j = i
      BY <1>1, <1>2, <3>2
    <3>. QED BY <3>1, <3>2
  <2>. QED BY <1>3, <2>1 DEF BooksInv, OrphansWerePartlyFilled
<1>8. FilledIsPartial'
  <2> SUFFICES ASSUME NEW m \in 1..Len(fills'), NEW j, j = fills'[m].id, j \in DOMAIN tracked'
               PROVE  tracked'[j].remaining < tracked'[j].size
    BY DEF FilledIsPartial
  <2>1. CASE j = i
    <3>1. i \in DOMAIN tracked' /\ tracked'[i].remaining = o.remaining - n /\ tracked'[i].size = o.size
      BY <1>1, <2>1
    <3>2. CASE n > 0
      BY <1>1, <1>2, <2>1, <3>1, <3>2
    <3>3. CASE n = 0 /\ fills' = fills
      <4>1. m \in 1..Len(fills) /\ fills[m].id = i
        BY <2>1, <3>3
      <4>2. o.remaining < o.size
        BY <1>1, <4>1 DEF BooksInv, FilledIsPartial
      <4>. QED BY <1>2, <2>1, <3>1, <3>3, <4>2
    <3>. QED BY <1>5, <3>2, <3>3
  <2>2. CASE j # i
    <3>1. m \in 1..Len(fills) /\ fills[m].id = j
      BY <1>5, <2>2
    <3>. QED BY <1>1, <2>2, <3>1 DEF BooksInv, FilledIsPartial
  <2>. QED BY <2>1, <2>2
<1>. QED BY <1>6, <1>7, <1>8 DEF BooksInv

(* Booking a fill takes its order out of the projector. *)
LEMMA BookBooksInv ==
  ASSUME ~SwallowErrors, TypeInv, OrderInv, BooksInv, Book
  PROVE  BooksInv'
<1> DEFINE fill == Head(fills)
<1>1. fills \in Seq(FillRecord) /\ fills # <<>> /\ Running /\ ProjectorTypeOK
  BY DEF TypeInv, TypeOK, Book, Running
<1>2. UNCHANGED tracked /\ (Abandon \/ Emit(fill))
  BY DEF Book, fillModelVars
<1>3. fill = fills[1] /\ Len(fills) \in Nat /\ Len(fills) > 0
      /\ Len(Tail(fills)) = Len(fills) - 1
      /\ \A m \in 1..Len(Tail(fills)) : Tail(fills)[m] = fills[m + 1]
  BY <1>1, HeadTailProperties
<1>. HIDE DEF fill
<1>4. CASE Abandon
  BY <1>4 DEF Abandon, BooksInv, ActiveIsTracked, OrphansWerePartlyFilled, FilledIsPartial, Running
<1>5. CASE Emit(fill)
  <2>1. /\ fills' = Tail(fills)
        /\ DOMAIN active' = {k \in DOMAIN active : active[k].id # fill.id}
        /\ \A k \in DOMAIN active' : active'[k] = active[k]
    BY <1>1, <1>5, RemoveFilledType DEF Emit
  <2>2. /\ Len(fills') = Len(fills) - 1
        /\ \A m \in 1..Len(fills') : fills'[m] = fills[m + 1] /\ m + 1 \in 1..Len(fills)
    BY <1>3, <2>1
  <2>3. \A m \in 1..Len(fills) : m = 1 \/ (m - 1 \in 1..Len(fills') /\ fills'[m - 1] = fills[m])
    BY <1>3, <2>2
  <2>4. ActiveIsTracked'
    <3> SUFFICES ASSUME NEW k \in DOMAIN active, active[k].id # fill.id
                 PROVE  \/ \E m \in 1..Len(fills') : fills'[m].id = active[k].id
                        \/ active[k].id \in DOMAIN tracked /\ Twin(k, active[k], tracked[active[k].id])
      BY <1>2, <2>1 DEF ActiveIsTracked
    <3>. QED BY <1>1, <1>3, <2>3 DEF BooksInv, ActiveIsTracked
  <2>5. OrphansWerePartlyFilled'
    <3>1. ASSUME NEW i \in DOMAIN tracked, tracked[i].remaining = tracked[i].size
          PROVE  i \in ActiveIds'
      <4>1. PICK k \in DOMAIN active : active[k].id = i
        BY <1>1, <3>1 DEF BooksInv, OrphansWerePartlyFilled, ActiveIds
      <4>2. tracked[i].remaining \in Nat
        BY DEF TypeInv, TypeOK, FillModelTypeOK, TrackedOrder
      <4>3. i # fill.id
        BY <1>3, <3>1, <4>2 DEF BooksInv, FilledIsPartial
      <4>. QED BY <2>1, <4>1, <4>3 DEF ActiveIds
    <3>. QED BY <1>1, <1>2, <3>1 DEF BooksInv, OrphansWerePartlyFilled
  <2>6. FilledIsPartial'
    BY <1>2, <2>2 DEF BooksInv, FilledIsPartial
  <2>. QED BY <2>4, <2>5, <2>6 DEF BooksInv
<1>. QED BY <1>2, <1>4, <1>5

(* sync()'s events bring the fill model where the projector is. *)
LEMMA DecideBooksInv ==
  ASSUME TypeInv, OrderInv, BooksInv, Decide
  PROVE  BooksInv'
<1>1. /\ fills = <<>> /\ fills' = <<>> /\ Running /\ Running'
      /\ ProjectorTypeOK /\ FillModelTypeOK /\ ProjectorTypeOK' /\ FillModelTypeOK'
  BY DecideFacts DEF Decide, Running, TypeInv, TypeOK
<1>2. PICK kept \in SUBSET (DOMAIN active \cap DOMAIN active') :
         /\ \A k \in kept : active'[k] = active[k] /\ now < active[k].expires
         /\ \A k \in DOMAIN active' \ kept :
              /\ active'[k].size > 0 /\ active'[k].created = now
              /\ counter < active'[k].id /\ active'[k].id <= counter'
         /\ \A i : i \in DOMAIN tracked' <=>
              \/ i \in DOMAIN tracked /\ \A k \in DOMAIN active \ kept : active[k].id # i
              \/ \E k \in DOMAIN active' \ kept : active'[k].id = i
         /\ \A i \in DOMAIN tracked' :
              \/ i \in DOMAIN tracked /\ tracked'[i] = tracked[i]
              \/ \E k \in DOMAIN active' \ kept : active'[k].id = i
         /\ \A k \in DOMAIN active' \ kept :
              LET o == active'[k] IN
                /\ tracked'[o.id] \in TrackedOrder /\ Twin(k, o, tracked'[o.id])
  BY DecideFacts
<1>3. ASSUME NEW i \in DOMAIN tracked
      PROVE  /\ \A k \in DOMAIN active' \ kept : active'[k].id # i
             /\ i \in DOMAIN tracked' => tracked'[i] = tracked[i]
  <2>1. i \in Nat /\ i <= counter /\ counter \in Nat
    BY <1>1 DEF OrderInv, IdsAreUnique, FillModelTypeOK, ProjectorTypeOK
  <2>2. \A k \in DOMAIN active' \ kept : active'[k].id \in Nat /\ counter < active'[k].id
    BY <1>1, <1>2 DEF ProjectorTypeOK, ActiveOrder
  <2>3. \A k \in DOMAIN active' \ kept : active'[k].id # i
    BY <2>1, <2>2
  <2>. QED BY <1>2, <2>3
<1>4. ActiveIsTracked'
  <2> SUFFICES ASSUME NEW k \in DOMAIN active'
               PROVE  active'[k].id \in DOMAIN tracked' /\ Twin(k, active'[k], tracked'[active'[k].id])
    BY DEF ActiveIsTracked
  <2>1. CASE k \in kept
    <3>1. active'[k] = active[k] /\ k \in DOMAIN active
      BY <1>2, <2>1
    <3>2. active[k].id \in DOMAIN tracked /\ Twin(k, active[k], tracked[active[k].id])
      BY <1>1, <3>1 DEF BooksInv, ActiveIsTracked
    <3>3. \A j \in DOMAIN active \ kept : active[j].id # active[k].id
      BY <2>1, <3>1 DEF OrderInv, IdsAreUnique
    <3>4. active[k].id \in DOMAIN tracked'
      BY <1>2, <3>2, <3>3
    <3>. QED BY <1>3, <3>1, <3>2, <3>4
  <2>2. CASE k \notin kept
    BY <1>2, <2>2
  <2>. QED BY <2>1, <2>2
<1>5. OrphansWerePartlyFilled'
  <2>1. OrderAmounts'
    BY DecideOrderInv DEF OrderInv
  <2> SUFFICES ASSUME NEW i \in DOMAIN tracked', tracked'[i].remaining = tracked'[i].size
               PROVE  i \in ActiveIds'
    BY <2>1 DEF OrphansWerePartlyFilled, OrderAmounts
  <2>2. CASE \E k \in DOMAIN active' \ kept : active'[k].id = i
    BY <2>2 DEF ActiveIds
  <2>3. CASE i \in DOMAIN tracked /\ \A k \in DOMAIN active \ kept : active[k].id # i
    <3>1. tracked[i].remaining = tracked[i].size
      BY <1>3, <2>3
    <3>2. PICK k \in DOMAIN active : active[k].id = i
      BY <1>1, <2>3, <3>1 DEF BooksInv, OrphansWerePartlyFilled, ActiveIds
    <3>3. k \in kept
      BY <2>3, <3>2
    <3>. QED BY <1>2, <3>2, <3>3 DEF ActiveIds
  <2>. QED BY <1>2, <2>2, <2>3
<1>6. FilledIsPartial'
  BY <1>1 DEF FilledIsPartial
<1>. QED BY <1>4, <1>5, <1>6 DEF BooksInv

(* Every step of a replay keeps the two order books in agreement. *)
LEMMA NextBooksInv ==
  ASSUME ~SwallowErrors, TypeInv, OrderInv, BooksInv, [Next]_vars
  PROVE  BooksInv'
<1>1. CASE UNCHANGED <<active, counter, tracked, fills>>
  <2>1. Running' => Running
    BY DEF Running, Next, Receive, MarketEvent, PairSpecEvent, StatusEvent, TradeEvent, Arrive,
           Match, EndMatch, Book, Decide, vars
  <2>. QED BY <1>1, <2>1 DEF BooksInv, ActiveIsTracked, OrphansWerePartlyFilled, FilledIsPartial, ActiveIds
<1>2. ASSUME NEW i \in eligible, Match(i) PROVE BooksInv'
  BY <1>2, MatchBooksInv
<1>. QED BY <1>1, <1>2, BookBooksInv, DecideBooksInv, OrderSteps

(* The two order books agree in every reachable state of a replay. *)
LEMMA BooksInvariant == ASSUME ~SwallowErrors PROVE Spec => []BooksInv
<1>1. TypeInv /\ OrderInv /\ BooksInv /\ [Next]_vars => BooksInv'
  BY NextBooksInv
<1>. QED BY <1>1, InitBooksInv, TypeInvariant, OrderInvariant, PTL DEF Spec

(***************************************************************************)
(* Projector and fill model never disagree on an order: what the projector *)
(* believes in can be filled, on the projector's terms.                    *)
(***************************************************************************)
THEOREM ProjectorIsTracked == ASSUME ~SwallowErrors PROVE Spec => []ActiveIsTracked
<1>1. BooksInv => ActiveIsTracked
  BY DEF BooksInv
<1>. QED BY <1>1, BooksInvariant, PTL

(***************************************************************************)
(* A fillable order the projector has forgotten was filled in part.        *)
(***************************************************************************)
THEOREM OnlyPartialFillsOrphan == ASSUME ~SwallowErrors PROVE Spec => []OrphansWerePartlyFilled
<1>1. BooksInv => OrphansWerePartlyFilled
  BY DEF BooksInv
<1>. QED BY <1>1, BooksInvariant, PTL

-------------------------------------------------------------------------------
(***************************************************************************)
(* What rests on the book when an event has been dealt with is allowed by  *)
(* risk, does not cross the book and has not expired.                      *)
(***************************************************************************)
LEMMA NextActiveAreCurrent ==
  ASSUME ~SwallowErrors, TypeInv, ActiveAreCurrent, [Next]_vars
  PROVE  ActiveAreCurrent'
<1>1. ASSUME NEW v \in Views, NEW dt \in TimeSteps, Receive(v, dt) PROVE ActiveAreCurrent'
  BY <1>1 DEF ActiveAreCurrent, Receive, MarketEvent, PairSpecEvent, StatusEvent, TradeEvent
<1>2. ASSUME NEW i \in eligible, Match(i) PROVE ActiveAreCurrent'
  BY <1>2 DEF ActiveAreCurrent, Match
<1>3. CASE EndMatch
  BY <1>3 DEF ActiveAreCurrent, EndMatch
<1>4. CASE Book
  BY <1>4 DEF ActiveAreCurrent, Book, Abandon, Emit
<1>5. CASE Decide
  <2>1. now' = now /\ now \in Int /\ ProjectorTypeOK'
    BY <1>5, DecideFacts DEF Decide, TypeInv, TypeOK
  <2>2. \A k \in DOMAIN active' : PostOnlySafe(Side(k), active'[k].price, view', allowed')
    BY <1>5, DecideFacts
  <2>3. PICK kept \in SUBSET (DOMAIN active \cap DOMAIN active') :
          /\ \A k \in kept : active'[k] = active[k] /\ now < active[k].expires
          /\ \A k \in DOMAIN active' \ kept : active'[k].created = now
    BY <1>5, DecideFacts
  <2>4. \A k \in DOMAIN active' : now' < active'[k].expires \/ now' = active'[k].created
    BY <2>1, <2>3
  <2>. QED BY <2>2, <2>4 DEF ActiveAreCurrent
<1>6. CASE UNCHANGED vars
  BY <1>6 DEF vars, projectorVars, marketVars, ActiveAreCurrent, PostOnlySafe
<1>. QED BY <1>1, <1>2, <1>3, <1>4, <1>5, <1>6 DEF Next

(* After every event of a replay the active orders are on sides that risk
   allows, do not cross the book, and have not expired (sync()). *)
THEOREM ActiveStayCurrent == ASSUME ~SwallowErrors PROVE Spec => []ActiveAreCurrent
<1>1. Init => ActiveAreCurrent
  BY DEF Init, ProjectorInit, NothingAtAll, ActiveAreCurrent
<1>2. TypeInv /\ ActiveAreCurrent /\ [Next]_vars => ActiveAreCurrent'
  BY NextActiveAreCurrent
<1>. QED BY <1>1, <1>2, TypeInvariant, PTL DEF Spec

(***************************************************************************)
(* The balances are the initial ones plus what was reported, and what the  *)
(* event in progress has emitted so far.                                   *)
(***************************************************************************)
LedgerInv == Running =>
  /\ base = InitialBase + ledger.base + emitted.base
  /\ quote = InitialQuote + ledger.quote + emitted.quote

(* Every step keeps balances, unbooked fills and the report's sums together. *)
LEMMA NextLedgerInv ==
  ASSUME ~SwallowErrors, TypeInv, LedgerInv, [Next]_vars
  PROVE  LedgerInv'
<1>0. /\ base \in Int /\ quote \in Int /\ makerFee \in Int
      /\ emitted \in BalanceChange /\ ledger \in BalanceChange
      /\ InitialBase \in Int /\ InitialQuote \in Int
  BY InventoryAssumption DEF TypeInv, TypeOK, FillModelTypeOK
<1>1. ASSUME NEW v \in Views, NEW dt \in TimeSteps, Receive(v, dt) PROVE LedgerInv'
  BY <1>1 DEF LedgerInv, Running, Receive, MarketEvent, PairSpecEvent, StatusEvent, TradeEvent, Arrive,
              outputVars, inventoryVars
<1>2. ASSUME NEW i \in eligible, Match(i) PROVE LedgerInv'
  BY <1>2 DEF LedgerInv, Running, Match, outputVars, inventoryVars
<1>3. CASE EndMatch
  BY <1>3 DEF LedgerInv, Running, EndMatch, outputVars, inventoryVars
<1>4. CASE Book
  <2> DEFINE fill == Head(fills)
  <2>1. fill \in FillRecord /\ Running
    BY <1>4, HeadTailProperties DEF Book, Running, TypeInv, TypeOK
  <2>2. /\ ApplyFill(fill.side, fill.price, fill.size, Fee(fill.price, fill.size))
        /\ Abandon \/ Emit(fill)
    BY <1>4 DEF Book
  <2>. HIDE DEF fill
  <2>3. CASE Abandon
    BY <2>3 DEF Abandon, LedgerInv, Running
  <2>4. CASE Emit(fill)
    <3>1. /\ Change(fill) \in BalanceChange
          /\ Reported(emitted, fill) = [base  |-> emitted.base + Change(fill).base,
                                        quote |-> emitted.quote + Change(fill).quote]
          /\ base' = base + Change(fill).base /\ quote' = quote + Change(fill).quote
      BY <1>0, <2>1, <2>2, FillMoves
    <3>2. emitted' = Reported(emitted, fill) /\ ledger' = ledger
      BY <2>4 DEF Emit
    <3>. QED BY <1>0, <2>1, <3>1, <3>2 DEF LedgerInv, BalanceChange
  <2>. QED BY <2>2, <2>3, <2>4
<1>5. CASE Decide
  <2>1. /\ ledger' = [base |-> ledger.base + emitted.base, quote |-> ledger.quote + emitted.quote]
        /\ emitted' = [base |-> 0, quote |-> 0] /\ UNCHANGED <<base, quote>> /\ Running
    BY <1>5 DEF Decide, Nothing, inventoryVars, Running
  <2>. QED BY <1>0, <2>1 DEF LedgerInv, BalanceChange
<1>6. CASE UNCHANGED vars
  BY <1>6 DEF vars, outputVars, inventoryVars, LedgerInv, Running
<1>. QED BY <1>1, <1>2, <1>3, <1>4, <1>5, <1>6 DEF Next

(***************************************************************************)
(* Between two events the report explains the balances.                    *)
(***************************************************************************)
THEOREM LedgerExplains == ASSUME ~SwallowErrors PROVE Spec => []LedgerExplainsInventory
<1>1. Init => LedgerInv
  BY InventoryAssumption DEF Init, InventoryInit, Nothing, LedgerInv
<1>2. TypeInv /\ LedgerInv /\ [Next]_vars => LedgerInv'
  BY NextLedgerInv
<1>3. TypeInv /\ LedgerInv => LedgerExplainsInventory
  BY InventoryAssumption
     DEF TypeInv, TypeOK, Phases, LedgerInv, LedgerExplainsInventory, Running, Nothing, BalanceChange
<1>. QED BY <1>1, <1>2, <1>3, TypeInvariant, PTL DEF Spec

-------------------------------------------------------------------------------
(***************************************************************************)
(* The fill burst stop.  As long as a burst of the booked fills is not     *)
(* cooled down, its side has a cooldown that lasts at least as long.  The  *)
(* kernel's own history is what is left of them after dropping only fills  *)
(* that are out of the window: it counts all of a burst's fills when the   *)
(* burst is completed.                                                     *)
(***************************************************************************)
BurstOf(h, n) == {m \in 1..n : h[m].side = h[n].side /\ h[n].ts - h[m].ts <= BurstWindow}
Cooling(h, until, t) ==
  \A n \in 1..Len(h) :
    /\ h[n].ts <= t
    /\ Cardinality(BurstOf(h, n)) >= MaxSameSideFills /\ t < h[n].ts + BurstCooldown
         => h[n].side \in DOMAIN until /\ until[h[n].side] >= h[n].ts + BurstCooldown
DroppedOld(log, h, d, t) ==
  /\ Len(h) = Len(log) - d
  /\ \A i \in 1..Len(h) : h[i] = log[i + d]
  /\ \A i \in 1..d : t - log[i].ts > BurstWindow
Pruned(log, h, t) == \E d \in 0..Len(log) : DroppedOld(log, h, d, t)
BurstInv ==
  MaxSameSideFills > 0 => Cooling(fillLog, cooldownUntil, now) /\ Pruned(fillLog, fillHistory, now)

FillHistory == Seq([ts : Int, side : Sides])

(* An entry of the history has a time and a side. *)
LEMMA FillEntry == \A h \in FillHistory : \A n \in 1..Len(h) : h[n].ts \in Int /\ h[n].side \in Sides
<1> SUFFICES ASSUME NEW h \in FillHistory, NEW n \in 1..Len(h)
             PROVE  h[n].ts \in Int /\ h[n].side \in Sides
  OBVIOUS
<1>1. PICK S : S = [ts : Int, side : Sides]
  OBVIOUS
<1>2. h \in Seq(S)
  BY <1>1 DEF FillHistory
<1>3. h[n] \in S
  BY <1>2
<1>. QED BY <1>1, <1>3

(* A fill is appended to a history. *)
LEMMA FillAppend ==
  ASSUME NEW h \in FillHistory, NEW fill \in [ts : Int, side : Sides]
  PROVE  /\ Append(h, fill) \in FillHistory
         /\ Len(h) \in Nat /\ Len(Append(h, fill)) = Len(h) + 1
         /\ Append(h, fill)[Len(h) + 1] = fill
         /\ \A i \in 1..Len(h) : Append(h, fill)[i] = h[i]
<1>1. PICK S : S = [ts : Int, side : Sides]
  OBVIOUS
<1>2. fill \in S /\ h \in Seq(S)
  BY <1>1 DEF FillHistory
<1>3. /\ Append(h, fill) \in Seq(S) /\ Len(h) \in Nat /\ Len(Append(h, fill)) = Len(h) + 1
      /\ Append(h, fill)[Len(h) + 1] = fill
      /\ \A i \in 1..Len(h) : Append(h, fill)[i] = h[i]
  BY <1>2, AppendProperties
<1>. QED BY <1>1, <1>3 DEF FillHistory

(* Booking a fill leaves the history the end of the log. *)
LEMMA FillPrunes ==
  ASSUME NEW log \in FillHistory, NEW h \in FillHistory, NEW t \in Int, Pruned(log, h, t),
         NEW fill \in [ts : Int, side : Sides]
  PROVE  Pruned(Append(log, fill), Expire(Append(h, fill), t, BurstWindow), t)
<1>1. PICK c \in 0..Len(log) : DroppedOld(log, h, c, t)
  BY DEF Pruned
<1>2. PICK g : g = Append(h, fill)
  OBVIOUS
<1>3. PICK l : l = Append(log, fill)
  OBVIOUS
<1>4. /\ g \in FillHistory /\ Len(h) \in Nat /\ Len(g) = Len(h) + 1 /\ g[Len(h) + 1] = fill
      /\ \A i \in 1..Len(h) : g[i] = h[i]
  BY <1>2, FillAppend
<1>5. /\ Len(log) \in Nat /\ Len(l) = Len(log) + 1 /\ l[Len(log) + 1] = fill
      /\ \A i \in 1..Len(log) : l[i] = log[i]
  BY <1>3, FillAppend
<1>6. PICK k : k = Expire(g, t, BurstWindow)
  OBVIOUS
<1>7. PICK d \in 0..Len(g) :
         /\ Len(k) = Len(g) - d
         /\ \A i \in 1..Len(g) - d : k[i] = g[i + d]
         /\ \A i \in 1..d : t - g[i].ts > BurstWindow
  <2>1. PICK S : S = [ts : Int, side : Sides]
    OBVIOUS
  <2>2. g \in Seq(S)
    BY <1>4, <2>1 DEF FillHistory
  <2>. QED BY <1>6, <2>2, ExpireTail
<1>8. /\ c \in Nat /\ d \in Nat /\ Len(h) = Len(log) - c
      /\ \A i \in 1..Len(h) : h[i] = log[i + c]
      /\ \A i \in 1..c : t - log[i].ts > BurstWindow
  BY <1>1, <1>4, <1>5, <1>7 DEF DroppedOld
<1>9. \A i \in 1..Len(g) : g[i] = l[i + c]
  <2>1. SUFFICES ASSUME NEW i \in 1..Len(g) PROVE g[i] = l[i + c]
    OBVIOUS
  <2>2. CASE i = Len(h) + 1
    BY <1>4, <1>5, <1>8, <2>2
  <2>3. CASE i # Len(h) + 1
    <3>1. i \in 1..Len(h) /\ i + c \in 1..Len(log)
      BY <1>4, <1>5, <1>8, <2>3
    <3>. QED BY <1>4, <1>5, <1>8, <3>1
  <2>. QED BY <2>2, <2>3
<1>10. d + c \in 0..Len(l) /\ Len(k) = Len(l) - (d + c)
  BY <1>4, <1>5, <1>7, <1>8
<1>11. ASSUME NEW i \in 1..Len(k) PROVE k[i] = l[i + (d + c)]
  <2>1. i \in 1..Len(g) - d /\ i + d \in 1..Len(g)
    BY <1>4, <1>7, <1>8
  <2>2. k[i] = g[i + d] /\ g[i + d] = l[(i + d) + c] /\ (i + d) + c = i + (d + c)
    BY <1>7, <1>8, <1>9, <2>1
  <2>. QED BY <2>2
<1>12. ASSUME NEW i \in 1..d + c PROVE t - l[i].ts > BurstWindow
  <2>1. CASE i <= c
    <3>1. i \in 1..c /\ i \in 1..Len(log)
      BY <1>5, <1>8, <2>1
    <3>. QED BY <1>5, <1>8, <3>1
  <2>2. CASE ~ i <= c
    <3>1. i - c \in 1..d /\ i - c \in 1..Len(g) /\ (i - c) + c = i
      BY <1>4, <1>7, <1>8, <2>2
    <3>2. g[i - c] = l[i]
      BY <1>9, <3>1
    <3>. QED BY <1>7, <3>1, <3>2
  <2>. QED BY <2>1, <2>2
<1>13. DroppedOld(l, k, d + c, t)
  BY <1>10, <1>11, <1>12 DEF DroppedOld
<1>14. Pruned(l, k, t)
  BY <1>10, <1>13 DEF Pruned
<1>. QED BY <1>2, <1>3, <1>6, <1>14

(* What was dropped stays out of the window. *)
LEMMA PrunedLater ==
  ASSUME NEW log \in FillHistory, NEW h, NEW t \in Int, NEW u \in Int, t <= u, Pruned(log, h, t)
  PROVE  Pruned(log, h, u)
<1>1. PICK d \in 0..Len(log) : DroppedOld(log, h, d, t)
  BY DEF Pruned
<1>2. ASSUME NEW i \in 1..d PROVE u - log[i].ts > BurstWindow
  <2>1. Len(log) \in Nat
    BY DEF FillHistory
  <2>2. log[i].ts \in Int
    BY <2>1, FillEntry
  <2>3. t - log[i].ts > BurstWindow
    BY <1>1 DEF DroppedOld
  <2>4. BurstWindow \in Nat
    BY RiskAssumption
  <2>. QED BY <2>2, <2>3, <2>4
<1>. QED BY <1>1, <1>2 DEF Pruned, DroppedOld

(* The fills of a burst are all still in the history when it is completed. *)
LEMMA BurstIsCounted ==
  ASSUME NEW log \in FillHistory, NEW h \in FillHistory, NEW t \in Int, Pruned(log, h, t),
         Len(log) > 0, log[Len(log)].ts = t
  PROVE  /\ Cardinality(BurstOf(log, Len(log))) \in Nat
         /\ Cardinality(SameSide(h, log[Len(log)].side)) \in Nat
         /\ Cardinality(BurstOf(log, Len(log))) <= Cardinality(SameSide(h, log[Len(log)].side))
<1> DEFINE n == Len(log)
           B == BurstOf(log, n)
           C == SameSide(h, log[n].side)
<1>1. PICK d \in 0..n : DroppedOld(log, h, d, t)
  BY DEF Pruned
<1>2. n \in Nat /\ d \in Nat /\ Len(h) = n - d /\ Len(h) \in Nat
  BY <1>1 DEF FillHistory, DroppedOld
<1>3. ASSUME NEW m \in B PROVE m \in Nat /\ m - d \in C
  <2>1. m \in 1..n /\ log[m].side = log[n].side /\ t - log[m].ts <= BurstWindow
    BY DEF BurstOf
  <2>2. log[m].ts \in Int /\ BurstWindow \in Nat
    BY <2>1, FillEntry, RiskAssumption
  <2>3. m > d
    <3>1. SUFFICES ASSUME ~ m > d PROVE FALSE
      OBVIOUS
    <3>2. m \in 1..d
      BY <1>2, <2>1, <3>1
    <3>3. t - log[m].ts > BurstWindow
      BY <1>1, <3>2 DEF DroppedOld
    <3>. QED BY <2>1, <2>2, <3>3
  <2>4. m - d \in 1..Len(h) /\ (m - d) + d = m
    BY <1>2, <2>1, <2>3
  <2>5. h[m - d] = log[m]
    BY <1>1, <2>4 DEF DroppedOld
  <2>. QED BY <2>1, <2>4, <2>5 DEF SameSide
<1>. DEFINE f == [m \in B |-> m - d]
<1>4. f \in Injection(B, C)
  <2>. HIDE DEF B, C
  <2>. QED BY <1>2, <1>3 DEF Injection, IsInjective
<1>5. IsFiniteSet(B) /\ IsFiniteSet(C)
  <2>1. B \subseteq 1..n /\ C \subseteq 1..Len(h)
    BY DEF BurstOf, SameSide
  <2>2. IsFiniteSet(1..n) /\ IsFiniteSet(1..Len(h))
    <3>. HIDE DEF n
    <3>. QED BY <1>2, FS_Interval
  <2>. HIDE DEF B, C, n
  <2>. QED BY <2>1, <2>2, FS_Subset
<1>6. Cardinality(B) \in Nat /\ Cardinality(C) \in Nat
  <2>. HIDE DEF B, C
  <2>. QED BY <1>5, FS_CardinalityType
<1>7. Cardinality(B) <= Cardinality(C)
  <2>. HIDE DEF B, C, f
  <2>. QED BY <1>4, <1>5, FS_Injection
<1>. QED BY <1>6, <1>7

(* A fill starts a cooldown when it completes a burst, and never cuts a
   cooldown short. *)
LEMMA FillCools ==
  ASSUME RiskTypeOK, fillLog \in FillHistory, NEW t \in Int, MaxSameSideFills > 0,
         Cooling(fillLog, cooldownUntil, t), Pruned(fillLog, fillHistory, t),
         NEW side \in Sides, NEW price, NEW size, RecordFill(side, t, price, size),
         fillLog' = Append(fillLog, [ts |-> t, side |-> side])
  PROVE  Cooling(fillLog', cooldownUntil', t) /\ Pruned(fillLog', fillHistory', t)
<1>1. PICK fill : fill = [ts |-> t, side |-> side]
  OBVIOUS
<1>2. fill \in [ts : Int, side : Sides] /\ fill.ts = t /\ fill.side = side
  BY <1>1
<1>3. fillHistory \in FillHistory /\ fillHistory' = Expire(Append(fillHistory, fill), t, BurstWindow)
  BY <1>1 DEF RiskTypeOK, FillHistory, RecordFill
<1>4. PICK h : h = fillLog
  OBVIOUS
<1>5. PICK g : g = fillLog'
  OBVIOUS
<1>6. /\ h \in FillHistory /\ g \in FillHistory
      /\ Len(h) \in Nat /\ Len(g) = Len(h) + 1 /\ g[Len(h) + 1] = fill
      /\ \A i \in 1..Len(h) : g[i] = h[i]
  BY <1>1, <1>2, <1>4, <1>5, FillAppend
<1>7. Pruned(g, fillHistory', t)
  BY <1>1, <1>2, <1>3, <1>5, FillPrunes
<1>8. fillHistory' \in FillHistory
  <2>1. PICK S : S = [ts : Int, side : Sides]
    OBVIOUS
  <2>2. Append(fillHistory, fill) \in Seq(S)
    BY <1>2, <1>3, <2>1, FillAppend DEF FillHistory
  <2>3. fillHistory' \in Seq(S)
    BY <1>3, <2>2, ExpireType
  <2>. QED BY <2>1, <2>3 DEF FillHistory
<1>9. /\ DOMAIN cooldownUntil \subseteq DOMAIN cooldownUntil'
      /\ \A s \in DOMAIN cooldownUntil :
           \/ cooldownUntil'[s] = cooldownUntil[s]
           \/ cooldownUntil'[s] = t + BurstCooldown
      /\ Cardinality(SameSide(fillHistory', side)) >= MaxSameSideFills
           => side \in DOMAIN cooldownUntil' /\ cooldownUntil'[side] = t + BurstCooldown
  BY <1>1, <1>3 DEF RecordFill
<1>10. MaxSameSideFills \in Nat /\ BurstCooldown \in Nat /\ t + BurstCooldown \in Int
  <2>1. MaxSameSideFills \in Nat /\ BurstCooldown \in Nat
    BY RiskAssumption
  <2>. QED BY <2>1
<1>11. ASSUME NEW n \in 1..Len(g)
       PROVE  /\ g[n].ts <= t
              /\ Cardinality(BurstOf(g, n)) >= MaxSameSideFills /\ t < g[n].ts + BurstCooldown
                   => /\ g[n].side \in DOMAIN cooldownUntil'
                      /\ cooldownUntil'[g[n].side] >= g[n].ts + BurstCooldown
  <2>1. CASE n = Len(g)
    <3>1. g[n].ts = t /\ g[n].side = side
      BY <1>2, <1>6, <2>1
    <3>2. /\ Cardinality(BurstOf(g, n)) \in Nat
          /\ Cardinality(SameSide(fillHistory', side)) \in Nat
          /\ Cardinality(BurstOf(g, n)) <= Cardinality(SameSide(fillHistory', side))
      BY <1>6, <1>7, <1>8, <2>1, <3>1, BurstIsCounted
    <3>. QED BY <1>9, <1>10, <3>1, <3>2
  <2>2. CASE n # Len(g)
    <3>1. n \in 1..Len(h) /\ g[n] = h[n] /\ g[n].ts \in Int
      BY <1>6, <2>2, FillEntry
    <3>2. BurstOf(g, n) = BurstOf(h, n)
      BY <1>6, <3>1 DEF BurstOf
    <3>3. /\ h[n].ts <= t
          /\ Cardinality(BurstOf(h, n)) >= MaxSameSideFills /\ t < h[n].ts + BurstCooldown
               => /\ h[n].side \in DOMAIN cooldownUntil
                  /\ cooldownUntil[h[n].side] >= h[n].ts + BurstCooldown
      BY <1>4, <3>1 DEF Cooling
    <3>4. t + BurstCooldown >= g[n].ts + BurstCooldown
      BY <1>10, <3>1, <3>3
    <3>. QED BY <1>9, <3>1, <3>2, <3>3, <3>4
  <2>. QED BY <2>1, <2>2
<1>12. Cooling(g, cooldownUntil', t)
  BY <1>11 DEF Cooling
<1>. QED BY <1>5, <1>7, <1>12

(* Time only ends cooldowns. *)
LEMMA CoolingLater ==
  ASSUME NEW h \in FillHistory, NEW until, NEW t \in Int, NEW u \in Int, t <= u, Cooling(h, until, t)
  PROVE  Cooling(h, until, u)
<1> SUFFICES ASSUME NEW n \in 1..Len(h)
             PROVE  /\ h[n].ts <= u
                    /\ Cardinality(BurstOf(h, n)) >= MaxSameSideFills /\ u < h[n].ts + BurstCooldown
                         => h[n].side \in DOMAIN until /\ until[h[n].side] >= h[n].ts + BurstCooldown
  BY DEF Cooling
<1>1. /\ h[n].ts <= t
      /\ Cardinality(BurstOf(h, n)) >= MaxSameSideFills /\ t < h[n].ts + BurstCooldown
           => h[n].side \in DOMAIN until /\ until[h[n].side] >= h[n].ts + BurstCooldown
  BY DEF Cooling
<1>2. h[n].ts \in Int
  BY FillEntry
<1>3. BurstCooldown \in Nat
  BY RiskAssumption
<1>. QED BY <1>1, <1>2, <1>3

(* evaluate() forgets no cooldown that is not over, and quotes no side that
   is cooling down. *)
LEMMA DecideCools ==
  ASSUME TypeInv, MaxSameSideFills > 0, Cooling(fillLog, cooldownUntil, now), Decide
  PROVE  Cooling(fillLog', cooldownUntil', now) /\ BurstIsCooledDown'
<1>1. /\ now' = now /\ now \in Int /\ fillLog' = fillLog /\ fillLog \in FillHistory
      /\ RiskTypeOK /\ view \in View /\ BurstCooldown \in Nat
  <2>1. BurstCooldown \in Nat
    BY RiskAssumption
  <2>. QED BY <2>1 DEF Decide, Evaluate, riskVars, TypeInv, TypeOK, RiskTypeOK, FillHistory
<1>2. \A k \in DOMAIN active' : Side(k) \in allowed'
  BY DecideFacts DEF PostOnlySafe
<1>3. allowed' = Allowed(view, pairSpec, status, now) /\ Evaluate(view, pairSpec, status, now)
  BY DEF Decide
<1>4. ASSUME NEW n \in 1..Len(fillLog),
             Cardinality(BurstOf(fillLog, n)) >= MaxSameSideFills,
             now < fillLog[n].ts + BurstCooldown
      PROVE  /\ fillLog[n].side \in DOMAIN cooldownUntil'
             /\ cooldownUntil'[fillLog[n].side] >= fillLog[n].ts + BurstCooldown
             /\ fillLog[n].side \notin allowed'
  <2> DEFINE s == fillLog[n].side
  <2>1. s \in DOMAIN cooldownUntil /\ cooldownUntil[s] >= fillLog[n].ts + BurstCooldown
    BY <1>4 DEF Cooling
  <2>2. fillLog[n].ts \in Int /\ cooldownUntil[s] \in Int
    <3>1. fillLog[n].ts \in Int
      BY <1>1, FillEntry
    <3>. QED BY <1>1, <2>1, <3>1 DEF RiskTypeOK
  <2>3. s \in BurstBlocked(now)
    BY <1>1, <1>4, <2>1, <2>2 DEF BurstBlocked
  <2>4. CASE HardBlocked(view, pairSpec, status, now)
    BY <1>3, <2>1, <2>4 DEF Allowed, Evaluate, riskVars
  <2>5. CASE ~HardBlocked(view, pairSpec, status, now)
    <3>1. cooldownUntil' = [x \in BurstBlocked(now) |-> cooldownUntil[x]]
      BY <1>3, <2>5 DEF Evaluate
    <3>2. s \notin allowed'
      BY <1>3, <2>3, <2>5 DEF Allowed
    <3>. QED BY <2>1, <2>3, <3>1, <3>2
  <2>. QED BY <2>4, <2>5
<1>5. Cooling(fillLog', cooldownUntil', now)
  BY <1>1, <1>4 DEF Cooling
<1>6. BurstIsCooledDown'
  BY <1>1, <1>2, <1>4 DEF BurstIsCooledDown, Burst, BurstOf
<1>. QED BY <1>5, <1>6

(* Every step keeps the cooldowns, and ends with no cooling side quoted. *)
LEMMA NextBurstInv ==
  ASSUME ~SwallowErrors, TimeSteps \subseteq Nat, TypeInv, BurstInv, BurstIsCooledDown, [Next]_vars
  PROVE  BurstInv' /\ BurstIsCooledDown'
<1>. DEFINE Cooled == Cooling(fillLog, cooldownUntil, now) /\ Pruned(fillLog, fillHistory, now)
<1>. SUFFICES ASSUME MaxSameSideFills > 0
              PROVE  Cooled' /\ BurstIsCooledDown'
  BY DEF BurstInv, Cooling, Pruned, DroppedOld, BurstOf, BurstIsCooledDown
<1>1. Cooled
  BY DEF BurstInv
<1>2. now \in Int /\ RiskTypeOK /\ fillLog \in FillHistory /\ fills \in Seq(FillRecord)
  BY DEF TypeInv, TypeOK, FillHistory
<1>3. ASSUME NEW v \in Views, NEW dt \in TimeSteps, Receive(v, dt)
      PROVE  Cooled' /\ BurstIsCooledDown'
  <2>1. now' = now + dt /\ pc' # "idle" /\ UNCHANGED <<fillLog, fillHistory, cooldownUntil>>
    BY <1>3 DEF Receive, MarketEvent, PairSpecEvent, StatusEvent, TradeEvent, Arrive, riskVars, outputVars
  <2>2. now' \in Int /\ now <= now'
    BY <1>2, <2>1
  <2>3. Cooling(fillLog, cooldownUntil, now') /\ Pruned(fillLog, fillHistory, now')
    BY <1>1, <1>2, <2>2, CoolingLater, PrunedLater
  <2>. QED BY <2>1, <2>3 DEF BurstIsCooledDown
<1>4. ASSUME NEW i \in eligible, Match(i)
      PROVE  Cooled' /\ BurstIsCooledDown'
  BY <1>1, <1>4 DEF Match, riskVars, outputVars, BurstIsCooledDown
<1>5. CASE EndMatch
  BY <1>1, <1>5 DEF EndMatch, riskVars, outputVars, BurstIsCooledDown
<1>6. CASE Book
  <2>1. now' = now /\ pc' # "idle"
    BY <1>6 DEF Book, Abandon, Emit
  <2>2. CASE Abandon
    BY <1>1, <2>1, <2>2 DEF Abandon, riskVars, BurstIsCooledDown
  <2>3. CASE ~Abandon
    <3>1. PICK fill \in FillRecord : /\ RecordFill(fill.side, now, fill.price, fill.size)
                                   /\ fillLog' = Append(fillLog, [ts |-> now, side |-> fill.side])
      <4>1. Head(fills) \in FillRecord
        BY <1>2, <1>6, HeadTailProperties DEF Book
      <4>2. Emit(Head(fills))
        BY <1>6, <2>3 DEF Book
      <4>. QED BY <4>1, <4>2 DEF Emit
    <3>2. fill.side \in Sides
      BY DEF FillRecord
    <3>3. Cooling(fillLog', cooldownUntil', now) /\ Pruned(fillLog', fillHistory', now)
      BY <1>1, <1>2, <3>1, <3>2, FillCools
    <3>. QED BY <2>1, <3>3 DEF BurstIsCooledDown
  <2>. QED BY <2>2, <2>3
<1>7. CASE Decide
  <2>1. now' = now /\ UNCHANGED <<fillLog, fillHistory>>
    BY <1>7 DEF Decide, Evaluate, riskVars
  <2>. QED BY <1>1, <1>7, <2>1, DecideCools
<1>8. CASE UNCHANGED vars
  BY <1>1, <1>8 DEF vars, riskVars, outputVars, projectorVars, BurstIsCooledDown, Burst
<1>. QED BY <1>3, <1>4, <1>5, <1>6, <1>7, <1>8 DEF Next

(* Fill burst stop: when time does not go back, no event of a replay leaves an
   order on a side that completed a burst of fills less than BurstCooldown ago. *)
THEOREM BurstsCoolDown ==
  ASSUME ~SwallowErrors, TimeSteps \subseteq Nat PROVE Spec => []BurstIsCooledDown
<1>1. Init => BurstInv /\ BurstIsCooledDown
  <2>1. Init => fillLog = <<>> /\ fillHistory = <<>>
    BY DEF Init, RiskInit
  <2>2. fillLog = <<>> /\ fillHistory = <<>> => DroppedOld(fillLog, fillHistory, 0, now)
    BY DEF DroppedOld
  <2>. QED BY <2>1, <2>2 DEF BurstInv, Cooling, Pruned, BurstIsCooledDown
<1>2. TypeInv /\ (BurstInv /\ BurstIsCooledDown) /\ [Next]_vars => (BurstInv /\ BurstIsCooledDown)'
  BY NextBurstInv
<1>. QED BY <1>1, <1>2, TypeInvariant, PTL DEF Spec

===============================================================================
