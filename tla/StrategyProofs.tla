---------------------------- MODULE StrategyProofs ----------------------------
(***************************************************************************)
(* Proofs about process() as a whole: the two halves that MarketProofs and *)
(* PipelineProofs look at apart, put together.                             *)
(*                                                                         *)
(* Every step is one of the market data modules that leaves the pipeline   *)
(* alone, or one of the pipeline that leaves them alone.                   *)
(***************************************************************************)
EXTENDS Strategy, PipelineProofs, MarketProofs

FairMark == [ts : Nat, fair : Nat \ {0}, open : BOOLEAN]

(* A step of the pipeline itself, taken with what the book says now. *)
PipelineStep ==
  \/ event # None /\ event' = None /\ Receive(MarketView, 0) /\ UNCHANGED marks
  \/ event = None /\ event' = None /\ (EndMatch \/ Book \/ \E i \in eligible : Match(i)) /\ UNCHANGED marks
  \/ event = None /\ event' = None /\ Decide /\ Mark

(***************************************************************************)
(* An event that was taken in waits for the pipeline to be idle, and the   *)
(* pipeline's view is the market's unless one waits.                       *)
(***************************************************************************)
EventInv ==
  /\ event \in Events \cup {None}
  /\ event # None => pc = "idle"
  /\ event = None => view = MarketView
MarksInv == marks \in Seq(FairMark)

(* What the invariants below are all built on. *)
StrategyInv == DataInv /\ BookInv /\ TypeInv /\ EventInv /\ MarksInv

-------------------------------------------------------------------------------
(* An event that is taken in is one of the market data modules'. *)
LEMMA IngestFacts ==
  ASSUME Ingest
  PROVE  /\ DataNext /\ event = None /\ event' \in Events /\ pc = "idle"
         /\ UNCHANGED <<ammVars, marks>>
<1> USE DEF Take, Events, DataNext
<1>1. CASE \E m \in Snapshots, seq \in Sequences : Take(SnapshotEvent(m, seq), "market", None)
  BY <1>1
<1>2. CASE \E m \in Deltas, seq \in Sequences : Take(DeltaEvent(m, seq), "market", None)
  BY <1>2
<1>3. CASE \E t \in Tickers : Take(TickerEvent(t), "market", None)
  BY <1>3
<1>4. CASE \E t \in Prints : Take(PrintEvent(t), "trade", t)
  BY <1>4
<1>5. CASE Take(OtherEvent, "metadata", None)
  BY <1>5
<1>. QED BY <1>1, <1>2, <1>3, <1>4, <1>5 DEF Ingest

(* An event the pipeline takes over is one it receives, no time later. *)
LEMMA ProcessFacts ==
  ASSUME Process
  PROVE  /\ event # None /\ event' = None /\ Receive(MarketView, 0)
         /\ UNCHANGED <<dataVars, marks>>
BY DEF Process, Receive

(* So every step belongs to one of the halves. *)
LEMMA StrategySteps ==
  ASSUME EventInv, [StrategyNext]_strategyVars
  PROVE  \/ Ingest
         \/ PipelineStep /\ UNCHANGED dataVars
         \/ UNCHANGED strategyVars
<1>1. CASE Process
  BY <1>1, ProcessFacts DEF PipelineStep
<1>2. CASE Settle
  <2>1. pc # "idle"
    BY <1>2 DEF Settle, EndMatch, Book, Match
  <2>. QED BY <1>2, <2>1 DEF Settle, PipelineStep, EventInv
<1>3. CASE Requote
  <2>1. pc # "idle"
    BY <1>3 DEF Requote, Decide
  <2>. QED BY <1>3, <2>1 DEF Requote, PipelineStep, EventInv
<1>. QED BY <1>1, <1>2, <1>3 DEF StrategyNext

(***************************************************************************)
(* The market data modules run as if alone: what is proved of them holds   *)
(* of the whole.                                                           *)
(***************************************************************************)
THEOREM StrategyRunsData == StrategySpec => DataSpec
<1>1. StrategyInit => DataInit
  BY DEF StrategyInit
<1>2. [StrategyNext]_strategyVars => [DataNext]_dataVars
  BY IngestFacts DEF StrategyNext, Process, Settle, Requote, strategyVars
<1>. QED BY <1>1, <1>2, PTL DEF StrategySpec, DataSpec

(* The market is seen the same as long as it does not move. *)
LEMMA SameView == UNCHANGED dataVars => MarketView' = MarketView
<1> SUFFICES ASSUME UNCHANGED dataVars PROVE MarketView' = MarketView
  OBVIOUS
<1>1. UNCHANGED <<bids, asks, lastTs, stale, now, sources, trades, lastShock>>
  BY DEF dataVars, bookVars, shockVars
<1>2. UNCHANGED <<BestBid, BestAsk>>
  BY <1>1 DEF BestBid, BestAsk
<1>3. \A bps : Depth(bps)' = Depth(bps)
  BY <1>1, <1>2 DEF Depth, HasMid, Notional
<1>4. Fair' = Fair
  BY <1>1 DEF Fair, Accepted, Fresh, Near, Median, Mean
<1>5. Activation' = Activation
  BY <1>1, <1>3, <1>4 DEF Activation, Raw, ForceRatio, Bought, Sold, Taken
<1>6. \A hit : SideActivation(hit)' = SideActivation(hit)
  BY <1>1, <1>4, <1>5 DEF SideActivation, Direction
<1>. QED BY <1>1, <1>2, <1>3, <1>4, <1>5, <1>6 DEF MarketView

(* Before the first event there is no market. *)
LEMMA InitialMarket == DataInit => MarketView = InitialView
<1> SUFFICES ASSUME DataInit PROVE MarketView = InitialView
  OBVIOUS
<1>1. BestBid = None /\ BestAsk = None /\ stale = TRUE /\ lastShock = None
  BY DEF DataInit, OrderBookInit, ShockInit, BestBid, BestAsk
<1>2. Fair = None
  <2>1. DOMAIN sources = {}
    BY DEF DataInit, NoSources
  <2>2. Cardinality(Accepted) = 0
    BY <2>1, FS_EmptySet DEF Accepted, Fresh
  <2>. QED BY <2>2, FairPriceAssumption DEF Fair
<1>3. Depth(20) = 0
  BY <1>1 DEF Depth, HasMid
<1>4. Activation = 0 /\ SideActivation("sell_shock") = 0 /\ SideActivation("buy_shock") = 0
  BY <1>2 DEF Activation, SideActivation, Direction
<1>. QED BY <1>1, <1>2, <1>3, <1>4 DEF MarketView, InitialView

-------------------------------------------------------------------------------
(***************************************************************************)
(* The values the state ranges over.                                       *)
(***************************************************************************)
(* What is marked is a fair price at its time. *)
LEMMA MarkType ==
  ASSUME DataInv, MarksInv, Mark
  PROVE  MarksInv'
<1> DEFINE mark == [ts |-> now, fair |-> Fair, open |-> allowed' # {}]
<1>1. now \in Nat /\ IsSources(sources)
  BY ClockAssumption DEF DataInv
<1>2. PICK S : S = FairMark
  OBVIOUS
<1>3. marks \in Seq(S)
  BY <1>2 DEF MarksInv
<1>4. CASE Fair = None
  BY <1>2, <1>3, <1>4, ExpireType DEF Mark, MarksInv
<1>5. CASE Fair # None
  <2>1. mark \in S
    BY <1>1, <1>2, <1>5, FairFacts DEF FairMark
  <2>2. marks' = Expire(Append(marks, mark), now, LongHorizon)
    BY <1>5 DEF Mark
  <2>. HIDE DEF mark
  <2>3. Append(marks, mark) \in Seq(S)
    BY <1>3, <2>1, AppendProperties
  <2>. QED BY <1>2, <2>2, <2>3, ExpireType DEF MarksInv
<1>. QED BY <1>4, <1>5

(* Taking an event in leaves the pipeline typed, at another time. *)
LEMMA IngestType ==
  ASSUME TypeInv, now' \in Int, UNCHANGED ammVars
  PROVE  TypeInv'
BY DEF TypeInv, TypeOK, ProjectorTypeOK, FillModelTypeOK, RiskTypeOK, Phases, ammVars,
       marketVars, outputVars, inventoryVars, projectorVars, fillModelVars, riskVars

(* A step of the pipeline keeps the types. *)
LEMMA PipelineStepType ==
  ASSUME StrategyInv, PipelineStep
  PROVE  TypeInv'
<1>1. TypeInv
  BY DEF StrategyInv
<1>2. CASE Receive(MarketView, 0)
  <2>1. MarketView \in View /\ 0 \in Int
    BY ViewType DEF StrategyInv
  <2>. QED BY <1>1, <1>2, <2>1, ReceiveType
<1>3. CASE \E i \in eligible : Match(i)
  BY <1>1, <1>3, MatchType
<1>. QED BY <1>1, <1>2, <1>3, EndMatchType, BookType, DecideType DEF PipelineStep

(* The phase a step of the pipeline leaves. *)
LEMMA PipelinePhases ==
  ASSUME PipelineStep, UNCHANGED dataVars
  PROVE  /\ event' = None /\ now' = now /\ MarketView' = MarketView
         /\ event # None => view' = MarketView
         /\ event = None => view' = view
<1>1. MarketView' = MarketView /\ now' = now
  BY SameView DEF dataVars
<1>. QED BY <1>1
     DEF PipelineStep, Receive, MarketEvent, PairSpecEvent, StatusEvent, TradeEvent, Arrive,
         EndMatch, Book, Match, Decide, marketVars

(* Every step of the whole keeps both halves typed, and the view between them. *)
LEMMA NextStrategyInv ==
  ASSUME StrategyInv, [StrategyNext]_strategyVars
  PROVE  StrategyInv'
<1>1. CASE Ingest
  <2>1. DataInv' /\ BookInv'
    BY <1>1, IngestFacts, NextDataInv DEF StrategyInv
  <2>2. now' \in Int
    BY <2>1, ClockAssumption DEF DataInv
  <2>3. TypeInv'
    BY <1>1, <2>2, IngestFacts, IngestType DEF StrategyInv
  <2>4. event' \in Events /\ pc' = "idle" /\ None \notin Events
    BY <1>1, IngestFacts, StrategyAssumption DEF ammVars
  <2>5. EventInv' /\ MarksInv'
    BY <1>1, <2>4, IngestFacts DEF StrategyInv, EventInv, MarksInv
  <2>. QED BY <2>1, <2>3, <2>5 DEF StrategyInv
<1>2. CASE PipelineStep /\ UNCHANGED dataVars
  <2>1. DataInv' /\ BookInv'
    BY <1>2, NextDataInv DEF StrategyInv
  <2>2. TypeInv'
    BY <1>2, PipelineStepType
  <2>3. EventInv'
    BY <1>2, PipelinePhases DEF StrategyInv, EventInv
  <2>4. MarksInv'
    BY <1>2, MarkType DEF StrategyInv, PipelineStep, MarksInv
  <2>. QED BY <2>1, <2>2, <2>3, <2>4 DEF StrategyInv
<1>3. CASE UNCHANGED strategyVars
  <2>1. UNCHANGED dataVars /\ UNCHANGED ammVars /\ UNCHANGED <<event, marks>>
    BY <1>3 DEF strategyVars
  <2>2. DataInv' /\ BookInv'
    BY <2>1, NextDataInv DEF StrategyInv
  <2>3. now' \in Int
    BY <2>2, ClockAssumption DEF DataInv
  <2>4. TypeInv'
    BY <2>1, <2>3, IngestType DEF StrategyInv
  <2>5. EventInv' /\ MarksInv'
    BY <2>1, SameView DEF StrategyInv, EventInv, MarksInv, ammVars, marketVars
  <2>. QED BY <2>2, <2>4, <2>5 DEF StrategyInv
<1>4. EventInv
  BY DEF StrategyInv
<1>. QED BY <1>1, <1>2, <1>3, <1>4, StrategySteps

(* The halves are typed, and joined by the view, in every reachable state. *)
LEMMA StrategyAlways == StrategySpec => []StrategyInv
<1>1. StrategyInit => StrategyInv
  <2> SUFFICES ASSUME StrategyInit PROVE StrategyInv
    OBVIOUS
  <2>1. DataInv /\ BookInv
    BY DataInitInv DEF StrategyInit, DataInit, NoSources, BookInv
  <2>2. TypeInv
    BY InitTypeInv DEF StrategyInit
  <2>3. EventInv
    BY InitialMarket DEF StrategyInit, Init, EventInv
  <2>4. MarksInv
    BY DEF StrategyInit, MarksInv
  <2>. QED BY <2>1, <2>2, <2>3, <2>4 DEF StrategyInv
<1>2. StrategyInv /\ [StrategyNext]_strategyVars => StrategyInv'
  BY NextStrategyInv
<1>. QED BY <1>1, <1>2, PTL DEF StrategySpec

(***************************************************************************)
(* Every reachable state of the whole has its type: in particular the view *)
(* that the market data modules leave is one the pipeline can work with.   *)
(***************************************************************************)
THEOREM StrategyTypeCorrect == StrategySpec => []StrategyTypeOK
<1>1. StrategyInv => StrategyTypeOK
  <2> SUFFICES ASSUME StrategyInv PROVE StrategyTypeOK
    OBVIOUS
  <2>1. DataTypeOK /\ TypeOK /\ event \in Events \cup {None}
    BY DataInvIsTyped DEF StrategyInv, TypeInv, EventInv
  <2>2. marks \in Seq([ts : Nat, fair : Nat, open : BOOLEAN])
    <3>1. PICK S, T : S = FairMark /\ T = [ts : Nat, fair : Nat, open : BOOLEAN]
      OBVIOUS
    <3>2. S \subseteq T
      BY <3>1 DEF FairMark
    <3>3. marks \in Seq(S)
      BY <3>1 DEF StrategyInv, MarksInv
    <3>. QED BY <3>1, <3>2, <3>3, SeqMonotonic
  <2>. QED BY <2>1, <2>2 DEF StrategyTypeOK
<1>. QED BY <1>1, StrategyAlways, PTL

-------------------------------------------------------------------------------
(***************************************************************************)
(* The market orders rest in.  The view that let risk allow a side is the  *)
(* view until the next event is processed, and nothing rests on a side     *)
(* that risk does not allow.                                               *)
(***************************************************************************)
Open(v) ==
  /\ v.fair # None /\ ~MissingSpread(v) /\ ~SpreadAbove(v, MaxSpreadBps)
  /\ v.depth >= MinDepth /\ v.act >= MinActivation /\ ~(v.stale /\ BlockStale)
OpenInv ==
  pc = "idle" =>
    /\ allowed # {} => Open(view)
    /\ \A k \in DOMAIN active : PostOnlySafe(Side(k), active[k].price, view, allowed)

(* Only the end of an event lets the pipeline rest, unless an exception does. *)
LEMMA ComesToRest ==
  ASSUME ~SwallowErrors, PipelineStep, ~Decide
  PROVE  pc' # "idle"
BY DEF PipelineStep, Receive, MarketEvent, PairSpecEvent, StatusEvent, TradeEvent,
       EndMatch, Book, Abandon, Emit, Match

(* Every step keeps it. *)
LEMMA NextOpenInv ==
  ASSUME ~SwallowErrors, StrategyInv, OpenInv, [StrategyNext]_strategyVars
  PROVE  OpenInv'
<1>1. CASE UNCHANGED ammVars
  BY <1>1 DEF ammVars, marketVars, projectorVars, OpenInv, Open, PostOnlySafe
<1>2. CASE PipelineStep /\ ~Decide
  BY <1>2, ComesToRest DEF OpenInv
<1>3. CASE Decide
  <2>1. /\ view' = view /\ allowed' = Allowed(view, pairSpec, status, now)
        /\ \A k \in DOMAIN active' : PostOnlySafe(Side(k), active'[k].price, view', allowed')
    BY <1>3, DecideFacts DEF Decide, marketVars, StrategyInv
  <2>2. allowed' # {} => ~HardBlocked(view, pairSpec, status, now)
    BY <2>1 DEF Allowed
  <2>3. allowed' # {} => Open(view)
    <3>1. view.depth \in Nat /\ view.act \in Nat /\ MinDepth \in Nat /\ MinActivation \in Nat
      <4>1. view \in View
        BY DEF StrategyInv, TypeInv, TypeOK
      <4>2. MinDepth \in Nat /\ MinActivation \in Nat
        BY RiskAssumption
      <4>. QED BY <4>1, <4>2 DEF View
    <3>. QED BY <2>2, <3>1 DEF HardBlocked, Open
  <2>. QED BY <2>1, <2>3 DEF OpenInv
<1>4. EventInv
  BY DEF StrategyInv
<1>. QED BY <1>1, <1>2, <1>3, <1>4, StrategySteps, IngestFacts DEF strategyVars

(* What rests, rests on an allowed side of an open market. *)
LEMMA OpenAlways == ASSUME ~SwallowErrors PROVE StrategySpec => []OpenInv
<1>1. StrategyInit => OpenInv
  BY DEF StrategyInit, Init, ProjectorInit, NothingAtAll, OpenInv
<1>2. StrategyInv /\ OpenInv /\ [StrategyNext]_strategyVars => OpenInv'
  BY NextOpenInv
<1>. QED BY <1>1, <1>2, StrategyAlways, PTL DEF StrategySpec

(***************************************************************************)
(* Replay with the stale block on and a depth required: after every event, *)
(* whatever part of the market it changed, what rests has a fresh, whole   *)
(* and narrow book, a supported fair price, and does not cross.            *)
(***************************************************************************)
THEOREM MarketBehindTheQuotes ==
  ASSUME ~SwallowErrors, BlockStale, MinDepth > 0
  PROVE  StrategySpec => []QuotesHaveAMarket
<1>1. StrategyInv /\ OpenInv => QuotesHaveAMarket
  <2> SUFFICES ASSUME StrategyInv, OpenInv, AtRest, active # NothingAtAll
               PROVE  /\ ~stale /\ HasMid /\ ~TooWide /\ Depth(20) >= MinDepth
                      /\ Cardinality({n \in DOMAIN sources : now - sources[n].ts <= MaxSourceAge}) >= MinSources
                      /\ \A k \in DOMAIN active :
                           IF Side(k) = "buy" THEN active[k].price < BestAsk ELSE active[k].price > BestBid
    BY DEF QuotesHaveAMarket
  <2>1. view = MarketView /\ pc = "idle" /\ active \in [DOMAIN active -> ActiveOrder]
    BY DEF AtRest, StrategyInv, EventInv, TypeInv, TypeOK, ProjectorTypeOK
  <2>2. DOMAIN active # {}
    BY <2>1 DEF NothingAtAll
  <2>3. \A k \in DOMAIN active : PostOnlySafe(Side(k), active[k].price, MarketView, allowed)
    BY <2>1 DEF OpenInv
  <2>4. Open(MarketView)
    BY <2>1, <2>2, <2>3 DEF OpenInv, PostOnlySafe
  <2>5. ~stale /\ Fair # None /\ Depth(20) >= MinDepth /\ ~TooWide
    <3>1. ~stale /\ Fair # None /\ Depth(20) >= MinDepth
      BY <2>4 DEF Open, MarketView
    <3>2. BestBid # None /\ BestAsk # None
          /\ ~ (20000 * (BestAsk - BestBid) > MaxSpreadBps * (BestBid + BestAsk))
      BY <2>4 DEF Open, MarketView, MissingSpread, SpreadAbove
    <3>3. BestBid \in Nat /\ BestAsk \in Nat
      BY <3>2, BestBidFacts, BestAskFacts DEF StrategyInv, DataInv, BookTyped
    <3>4. ~TooWide
      BY <3>2, <3>3, MarketAssumption DEF TooWide
    <3>. QED BY <3>1, <3>4
  <2>6. HasMid
    <3>1. MinDepth \in Nat
      BY RiskAssumption
    <3>. QED BY <2>5, <3>1 DEF Depth
  <2>7. Cardinality(Fresh) >= MinSources
    BY <2>5, FairFacts, ClockAssumption DEF StrategyInv, DataInv
  <2>8. \A k \in DOMAIN active :
          IF Side(k) = "buy" THEN active[k].price < BestAsk ELSE active[k].price > BestBid
    BY <2>3 DEF PostOnlySafe, MarketView
  <2>. QED BY <2>5, <2>6, <2>7, <2>8 DEF Fresh
<1>. QED BY <1>1, StrategyAlways, OpenAlways, PTL

-------------------------------------------------------------------------------
(***************************************************************************)
(* What sync() leaves on the book: a kept order as it was, or a quote of   *)
(* generate(), placed now, and only where generate() has a quote.          *)
(***************************************************************************)
LEMMA DecideQuotes ==
  ASSUME TypeInv, Decide
  PROVE  \E z \in Int : \A k \in DOMAIN active' :
           /\ k \in Keys /\ Quotable(RawSize(k, view, z))
           /\ \/ k \in DOMAIN active /\ active'[k] = active[k]
              \/ active'[k].created = now /\ active'[k].size = FlooredSize(RawSize(k, view, z))
<1> DEFINE sides   == Allowed(view, pairSpec, status, now)
           quotes  == Generate(view, Skew(view.fair))
           desired == DesiredKeys(quotes, view, sides)
           kept    == Kept(quotes, desired, view, sides, now)
           z       == IF Skew(view.fair) = None THEN 0 ELSE Skew(view.fair)
<1>1. view \in View /\ base \in Int /\ quote \in Int
  BY DEF TypeInv, TypeOK
<1>2. z \in Int
  <2>1. view.fair \in Nat \cup {None}
    BY <1>1 DEF View
  <2>2. Skew(view.fair) \in Int \cup {None}
    BY <1>1, <2>1, SkewType
  <2>. QED BY <2>2
<1>3. quotes = [k \in QuotedKeys(view, z) |-> [price |-> QuotePrice(k, view.fair, z),
                                             size  |-> FlooredSize(RawSize(k, view, z))]]
  BY DEF Generate
<1>4. active' = Synced(quotes, view, sides, now)
  BY DEF Decide, Sync
<1>. HIDE DEF sides, quotes, z
<1>5. /\ DOMAIN active' = desired
      /\ \A k \in desired : \/ k \in kept /\ active'[k] = active[k]
                            \/ active'[k].created = now /\ active'[k].size = quotes[k].size
  BY <1>4 DEF Synced
<1>6. desired \subseteq DOMAIN quotes /\ kept \subseteq DOMAIN active
  BY DEF DesiredKeys, Kept, Surviving
<1>7. \A k \in DOMAIN quotes : /\ k \in Keys /\ Quotable(RawSize(k, view, z))
                              /\ quotes[k].size = FlooredSize(RawSize(k, view, z))
  BY <1>3 DEF QuotedKeys
<1>. QED BY <1>2, <1>5, <1>6, <1>7

(* A quote has a size only if the activation of its side is not 0. *)
LEMMA QuotableIsActive ==
  ASSUME NEW v \in View, NEW z \in Int, NEW k \in Keys, Quotable(RawSize(k, v, z))
  PROVE  IF Side(k) = "buy" THEN v.bidAct > 0 ELSE v.askAct > 0
<1> DEFINE act == IF Side(k) = "buy" THEN v.bidAct ELSE v.askAct
           tilt == IF Side(k) = "buy" THEN 100 - SizeSkewStrength * z ELSE 100 + SizeSkewStrength * z
<1>1. act \in Nat /\ v.bidAct \in Nat /\ v.askAct \in Nat
  BY DEF View
<1>2. RawSize(k, v, z) = (BaseOrderSize * act * tilt) \div (100 * FullActivation)
  BY DEF RawSize
<1>3. tilt \in Int /\ BaseOrderSize \in Nat /\ 100 * FullActivation \in Nat \ {0} /\ MinOrderSize \in Nat \ {0}
  BY QuoteSurfaceAssumption
<1>4. RawSize(k, v, z) >= MinOrderSize
  BY DEF Quotable
<1>. HIDE DEF act, tilt
<1>5. act # 0
  <2> SUFFICES ASSUME act = 0 PROVE FALSE
    OBVIOUS
  <2>1. BaseOrderSize * act * tilt = 0
    BY <1>3
  <2>2. 0 \div (100 * FullActivation) = 0
    BY <1>3
  <2>3. RawSize(k, v, z) = 0
    BY <1>2, <2>1, <2>2
  <2>. QED BY <1>3, <1>4, <2>3
<1>. QED BY <1>1, <1>5 DEF act

-------------------------------------------------------------------------------
(***************************************************************************)
(* A new shock pulls the quotes.  It comes when the event is taken in, and *)
(* until the pipeline has dealt with the event, orders that were decided   *)
(* for an older shock may still rest: those are the times at which the     *)
(* latest shock is of this very moment.                                    *)
(***************************************************************************)
ForTheShock(k) ==
  /\ lastShock # None
  /\ active[k].created - lastShock.ts >= MinWait
  /\ OppositeRatio = 0 =>
       lastShock.direction = IF Side(k) = "buy" THEN "sell_shock" ELSE "buy_shock"
JustShocked == ~AtRest /\ (lastShock # None => lastShock.ts = now)
PulledInv ==
  MinWait > 0 /\ MinActivation > 0 => \A k \in DOMAIN active : ForTheShock(k) \/ JustShocked

(* There is no activation before the wait of the latest shock is over. *)
LEMMA ActivationWaits ==
  ASSUME DataInv, MarketView.act > 0
  PROVE  /\ lastShock # None /\ lastShock.ts \in Nat /\ now \in Nat
         /\ now - lastShock.ts >= MinWait
<1>1. now \in Nat /\ Activation \in Nat /\ Activation > 0 /\ MinWait \in Nat
  <2>1. MinWait \in Nat
    BY ShockAssumption
  <2>. QED BY <2>1, ClockAssumption, ActivationType DEF DataInv, MarketView
<1>2. lastShock # None /\ ~ (now - lastShock.ts < MinWait)
  BY <1>1 DEF Activation
<1>3. lastShock.ts \in Nat
  BY <1>2 DEF DataInv, ShockTyped, Shocked
<1>. QED BY <1>1, <1>2, <1>3

(* With no activation of the opposite side, an active side is the one that
   was hit. *)
LEMMA OneSideActive ==
  ASSUME DataInv, OppositeRatio = 0, NEW hit, SideActivation(hit) > 0
  PROVE  lastShock # None /\ lastShock.direction = hit
<1>1. Activation \in Nat
  BY ActivationType, ClockAssumption DEF DataInv
<1>2. (OppositeRatio * Activation) \div 100 = 0
  BY <1>1
<1>. QED BY <1>2 DEF SideActivation, Direction

(* What process() does before it decides only takes orders away. *)
LEMMA OrdersOnlyLeave ==
  ASSUME TypeInv, PipelineStep, ~Decide
  PROVE  \A k \in DOMAIN active' : k \in DOMAIN active /\ active'[k] = active[k]
<1>1. CASE Book
  <2>1. ProjectorTypeOK
    BY DEF TypeInv, TypeOK
  <2>. QED BY <1>1, <2>1, RemoveFilledType DEF Book, Abandon, Emit, projectorVars
<1>2. CASE ~Book
  BY <1>2 DEF PipelineStep, Receive, MarketEvent, PairSpecEvent, StatusEvent, TradeEvent, Arrive,
              EndMatch, Match, projectorVars
<1>. QED BY <1>1, <1>2

(* What is decided is decided for the latest shock, after its wait. *)
LEMMA DecidedForTheShock ==
  ASSUME StrategyInv, PulledInv, MinWait > 0, MinActivation > 0, Decide, event = None,
         UNCHANGED dataVars
  PROVE  \A k \in DOMAIN active' : ForTheShock(k)'
<1> SUFFICES ASSUME NEW k \in DOMAIN active' PROVE ForTheShock(k)'
  OBVIOUS
<1>1. /\ view = MarketView /\ view \in View /\ TypeInv /\ DataInv /\ UNCHANGED lastShock
      /\ MinActivation \in Nat /\ MinWait \in Nat
  <2>1. MinActivation \in Nat
    BY RiskAssumption
  <2>2. MinWait \in Nat
    BY ShockAssumption
  <2>. QED BY <2>1, <2>2 DEF StrategyInv, EventInv, TypeInv, TypeOK, dataVars, shockVars
<1>2. allowed' # {}
  BY <1>1, DecideFacts DEF PostOnlySafe
<1>3. MarketView.act > 0
  <2>1. ~ (view.act < MinActivation)
    BY <1>2 DEF Decide, Allowed, HardBlocked
  <2>2. view.act \in Nat
    BY <1>1 DEF View
  <2>. QED BY <1>1, <2>1, <2>2
<1>4. lastShock # None /\ lastShock.ts \in Nat /\ now \in Nat /\ now - lastShock.ts >= MinWait
  BY <1>1, <1>3, ActivationWaits
<1>5. PICK z \in Int :
         /\ k \in Keys /\ Quotable(RawSize(k, view, z))
         /\ \/ k \in DOMAIN active /\ active'[k] = active[k]
            \/ active'[k].created = now
  BY <1>1, DecideQuotes
<1>6. CASE k \in DOMAIN active /\ active'[k] = active[k]
  <2>1. ForTheShock(k)
    BY <1>1, <1>4, <1>6 DEF PulledInv, JustShocked
  <2>. QED BY <1>1, <1>6, <2>1 DEF ForTheShock
<1>7. CASE active'[k].created = now
  <2>1. IF Side(k) = "buy" THEN view.bidAct > 0 ELSE view.askAct > 0
    BY <1>1, <1>5, QuotableIsActive
  <2>2. IF Side(k) = "buy" THEN SideActivation("sell_shock") > 0 ELSE SideActivation("buy_shock") > 0
    BY <1>1, <2>1 DEF MarketView
  <2>3. OppositeRatio = 0 =>
          lastShock.direction = IF Side(k) = "buy" THEN "sell_shock" ELSE "buy_shock"
    BY <1>1, <2>2, OneSideActive
  <2>. QED BY <1>1, <1>4, <1>7, <2>3 DEF ForTheShock
<1>. QED BY <1>5, <1>6, <1>7

(* Every step keeps it. *)
LEMMA NextPulledInv ==
  ASSUME ~SwallowErrors, StrategyInv, PulledInv, [StrategyNext]_strategyVars
  PROVE  PulledInv'
<1> SUFFICES ASSUME MinWait > 0, MinActivation > 0, NEW k \in DOMAIN active'
             PROVE  (ForTheShock(k) \/ JustShocked)'
  BY DEF PulledInv
<1>0. EventInv /\ TypeInv
  BY DEF StrategyInv
<1>1. CASE Ingest
  <2>1. /\ DataNext /\ event = None /\ event' # None /\ pc = "idle"
        /\ UNCHANGED <<active, pc>>
    BY <1>1, IngestFacts, StrategyAssumption DEF ammVars, projectorVars
  <2>2. ForTheShock(k) /\ k \in DOMAIN active
    BY <2>1 DEF PulledInv, JustShocked, AtRest
  <2>3. Detect
    BY <2>1, EventShape DEF Refreshed, Refresh, StrategyInv
  <2>4. CASE lastShock' = lastShock
    BY <2>1, <2>2, <2>4 DEF ForTheShock
  <2>5. CASE lastShock' = [ts |-> now', direction |-> Pressure']
    <3>1. lastShock'.ts = now'
      BY <2>5
    <3>. QED BY <2>1, <3>1 DEF JustShocked, AtRest
  <2>. QED BY <2>3, <2>4, <2>5 DEF Detect
<1>2. CASE PipelineStep /\ ~Decide /\ UNCHANGED dataVars
  <2>1. k \in DOMAIN active /\ active'[k] = active[k]
    BY <1>0, <1>2, OrdersOnlyLeave
  <2>2. ~AtRest' /\ UNCHANGED <<now, lastShock>>
    BY <1>2, ComesToRest DEF AtRest, dataVars, shockVars
  <2>. QED BY <2>1, <2>2 DEF PulledInv, ForTheShock, JustShocked
<1>3. CASE PipelineStep /\ Decide /\ UNCHANGED dataVars
  <2>1. event = None
    BY <1>0, <1>3 DEF EventInv, Decide
  <2>. QED BY <1>3, <2>1, DecidedForTheShock
<1>4. CASE UNCHANGED strategyVars
  BY <1>4 DEF strategyVars, ammVars, dataVars, shockVars, projectorVars, PulledInv, ForTheShock,
              JustShocked, AtRest
<1>. QED BY <1>0, <1>1, <1>2, <1>3, <1>4, StrategySteps

(***************************************************************************)
(* Replay: after every event, each order that rests was decided when the   *)
(* wait of the latest shock was over, on the side that shock hit: a shock  *)
(* takes the orders of the one before it off the book.                     *)
(***************************************************************************)
THEOREM ShockPullsTheQuotes ==
  ASSUME ~SwallowErrors
  PROVE  StrategySpec => []NewShockPullsTheQuotes
<1>1. StrategyInit => PulledInv
  BY DEF StrategyInit, Init, ProjectorInit, NothingAtAll, PulledInv
<1>2. StrategyInv /\ PulledInv /\ [StrategyNext]_strategyVars => PulledInv'
  BY NextPulledInv
<1>3. PulledInv => NewShockPullsTheQuotes
  BY DEF PulledInv, ForTheShock, JustShocked, NewShockPullsTheQuotes
<1>. QED BY <1>1, <1>2, <1>3, StrategyAlways, PTL DEF StrategySpec

-------------------------------------------------------------------------------
(***************************************************************************)
(* The fill burst stop, with the clock that the events of the market bring *)
(* on while the pipeline is idle.                                          *)
(***************************************************************************)
(* An event the pipeline takes over at once is a step of its own clock. *)
LEMMA NextStrategyBurst ==
  ASSUME ~SwallowErrors, TimeSteps \subseteq Nat, StrategyInv, BurstInv, BurstIsCooledDown,
         [StrategyNext]_strategyVars
  PROVE  BurstInv' /\ BurstIsCooledDown'
<1>. DEFINE Cooled == Cooling(fillLog, cooldownUntil, now) /\ Pruned(fillLog, fillHistory, now)
<1>. SUFFICES ASSUME MaxSameSideFills > 0
              PROVE  Cooled' /\ BurstIsCooledDown'
  BY DEF BurstInv, Cooling, Pruned, DroppedOld, BurstOf, BurstIsCooledDown
<1>0. Cooled /\ EventInv /\ TypeInv
  BY DEF BurstInv, StrategyInv
<1>1. /\ now \in Int /\ RiskTypeOK /\ fillLog \in FillHistory /\ fills \in Seq(FillRecord)
      /\ BurstCooldown \in Nat
  <2>1. BurstCooldown \in Nat
    BY RiskAssumption
  <2>. QED BY <2>1 DEF StrategyInv, TypeInv, TypeOK, FillHistory
<1>2. CASE Ingest
  <2>1. now' \in Int /\ now <= now'
    <3>1. PICK heard, prints : Refreshed(heard, prints)
      BY <1>2, IngestFacts, EventShape DEF StrategyInv
    <3>. QED BY <1>1, <3>1 DEF Refreshed, Advance
  <2>2. UNCHANGED <<fillLog, fillHistory, cooldownUntil, active, pc>>
    BY <1>2, IngestFacts DEF ammVars, outputVars, riskVars, projectorVars
  <2>3. Cooling(fillLog, cooldownUntil, now') /\ Pruned(fillLog, fillHistory, now')
    BY <1>0, <1>1, <2>1, CoolingLater, PrunedLater
  <2>4. BurstIsCooledDown'
    <3> SUFFICES ASSUME pc = "idle", NEW n \in 1..Len(fillLog), Burst(n),
                        now' < fillLog[n].ts + BurstCooldown
                 PROVE  \A k \in DOMAIN active : Side(k) # fillLog[n].side
      BY <2>2 DEF BurstIsCooledDown, Burst
    <3>1. fillLog[n].ts \in Int
      BY <1>1, FillEntry
    <3>2. now < fillLog[n].ts + BurstCooldown
      BY <1>1, <2>1, <3>1
    <3>. QED BY <3>2 DEF BurstIsCooledDown
  <2>. QED BY <2>2, <2>3, <2>4
<1>3. CASE PipelineStep /\ ~Decide /\ UNCHANGED dataVars
  <2>1. now' = now /\ pc' # "idle"
    BY <1>3, ComesToRest, PipelinePhases
  <2>2. CASE UNCHANGED <<fillLog, fillHistory, cooldownUntil>>
    BY <1>0, <2>1, <2>2 DEF BurstIsCooledDown
  <2>3. CASE Book /\ ~Abandon
    <3>1. PICK fill \in FillRecord : /\ RecordFill(fill.side, now, fill.price, fill.size)
                                   /\ fillLog' = Append(fillLog, [ts |-> now, side |-> fill.side])
      <4>1. Head(fills) \in FillRecord
        BY <1>1, <2>3, HeadTailProperties DEF Book
      <4>2. Emit(Head(fills))
        BY <2>3 DEF Book
      <4>. QED BY <4>1, <4>2 DEF Emit
    <3>2. fill.side \in Sides /\ fill.price \in Int /\ fill.size \in Nat
      BY DEF FillRecord
    <3>3. Cooling(fillLog', cooldownUntil', now) /\ Pruned(fillLog', fillHistory', now)
      BY <1>0, <1>1, <3>1, <3>2, FillCools
    <3>. QED BY <2>1, <3>3 DEF BurstIsCooledDown
  <2>4. (Book /\ ~Abandon) \/ UNCHANGED <<fillLog, fillHistory, cooldownUntil>>
    BY <1>3
       DEF PipelineStep, Receive, MarketEvent, PairSpecEvent, StatusEvent, TradeEvent, Arrive, EndMatch,
           Match, Book, Abandon, riskVars, outputVars
  <2>. QED BY <2>2, <2>3, <2>4
<1>4. CASE Decide /\ UNCHANGED dataVars
  <2>1. now' = now /\ UNCHANGED <<fillLog, fillHistory>>
    BY <1>4 DEF dataVars, Decide, Evaluate, riskVars
  <2>. QED BY <1>0, <1>4, <2>1, DecideCools
<1>5. CASE UNCHANGED strategyVars
  BY <1>0, <1>5 DEF strategyVars, ammVars, dataVars, riskVars, outputVars, projectorVars, BurstIsCooledDown, Burst
<1>. QED BY <1>0, <1>2, <1>3, <1>4, <1>5, StrategySteps

(***************************************************************************)
(* Replay, of a recording whose events are in order: no event, of whatever *)
(* kind, leaves an order on a side that completed a burst of fills less    *)
(* than BurstCooldown ago.                                                 *)
(***************************************************************************)
THEOREM StrategyCoolsDown ==
  ASSUME ~SwallowErrors, TimeSteps \subseteq Nat
  PROVE  StrategySpec => []BurstIsCooledDown
<1>1. StrategyInit => BurstInv /\ BurstIsCooledDown
  <2>1. StrategyInit => fillLog = <<>> /\ fillHistory = <<>>
    BY DEF StrategyInit, Init, RiskInit
  <2>2. fillLog = <<>> /\ fillHistory = <<>> => DroppedOld(fillLog, fillHistory, 0, now)
    BY DEF DroppedOld
  <2>. QED BY <2>1, <2>2 DEF BurstInv, Cooling, Pruned, BurstIsCooledDown
<1>2. StrategyInv /\ (BurstInv /\ BurstIsCooledDown) /\ [StrategyNext]_strategyVars
        => (BurstInv /\ BurstIsCooledDown)'
  BY NextStrategyBurst
<1>. QED BY <1>1, <1>2, StrategyAlways, PTL DEF StrategySpec

-------------------------------------------------------------------------------
(***************************************************************************)
(* Kernel, quotes and projector against the live gates.                    *)
(***************************************************************************)
(* What the gates ask of an order's size. *)
Sized(size) == size >= MinOrderSize /\ size <= MaxOrderSize /\ size % LotSize = 0
SizeInv == \A k \in DOMAIN active : Sized(active[k].size)

(* What they ask of the pair, as far as risk asks it too. *)
PairInv ==
  /\ pairSpec # {} => "fetched" \in pairSpec
  /\ pc = "idle" /\ allowed # {} =>
       /\ BlockUnfetchedSpec => "fetched" \in pairSpec
       /\ status # "abnormal" /\ {"disabled", "stop"} \cap pairSpec = {}
       /\ "buy" \in allowed => "stop_buy" \notin pairSpec
       /\ "sell" \in allowed => "stop_sell" \notin pairSpec

(* A floored size is a number of lots within the limits. *)
LEMMA FlooredIsSized ==
  ASSUME NEW n \in Int, Quotable(n)
  PROVE  Sized(FlooredSize(n))
<1>1. MinOrderSize \in Nat \ {0} /\ LotSize \in Nat \ {0} /\ MaxOrderSize \in Nat
  BY QuoteSurfaceAssumption, MarketAssumption
<1>2. PICK m \in Nat : m = MinOf2(n, MaxOrderSize) /\ m <= MaxOrderSize
  BY <1>1 DEF MinOf2, Quotable
<1>3. PICK q \in Nat : q = m \div LotSize
  BY <1>1, QuotientType
<1>4. q * LotSize <= m
  BY <1>1, <1>3
<1>5. q * LotSize \in Nat /\ q * LotSize = LotSize * q + 0 /\ 0 \in 0..LotSize - 1
  BY <1>1
<1>6. (q * LotSize) % LotSize = 0
  <2>1. \A p \in Nat : p = LotSize * q + 0 => p % LotSize = 0
    BY <1>1, <1>5, Remainder
  <2>. QED BY <1>5, <2>1
<1>7. FlooredSize(n) = q * LotSize
  BY <1>2, <1>3 DEF FlooredSize
<1>8. q * LotSize >= MinOrderSize
  BY <1>7 DEF Quotable
<1>9. q * LotSize <= MaxOrderSize
  BY <1>1, <1>2, <1>4, <1>5
<1>. QED BY <1>6, <1>7, <1>8, <1>9 DEF Sized

(* The size generate() takes for a key is a number. *)
LEMMA RawSizeType ==
  ASSUME NEW v \in View, NEW z \in Int, NEW k \in Keys
  PROVE  RawSize(k, v, z) \in Int
<1> DEFINE act == IF Side(k) = "buy" THEN v.bidAct ELSE v.askAct
           tilt == IF Side(k) = "buy" THEN 100 - SizeSkewStrength * z ELSE 100 + SizeSkewStrength * z
<1>1. act \in Int
  BY DEF View
<1>2. tilt \in Int /\ BaseOrderSize \in Int /\ 100 * FullActivation \in Nat \ {0}
  BY QuoteSurfaceAssumption
<1>3. RawSize(k, v, z) = (BaseOrderSize * act * tilt) \div (100 * FullActivation)
  BY DEF RawSize
<1>. HIDE DEF act, tilt
<1>4. BaseOrderSize * act * tilt \in Int
  BY <1>1, <1>2
<1>. QED BY <1>2, <1>3, <1>4

(* Every order on the book has a size the exchange takes. *)
LEMMA NextSizeInv ==
  ASSUME StrategyInv, SizeInv, [StrategyNext]_strategyVars
  PROVE  SizeInv'
<1>0. EventInv /\ TypeInv
  BY DEF StrategyInv
<1>1. CASE UNCHANGED ammVars
  BY <1>1 DEF ammVars, projectorVars, SizeInv
<1>2. CASE PipelineStep /\ ~Decide
  BY <1>0, <1>2, OrdersOnlyLeave DEF SizeInv
<1>3. CASE Decide
  <2>1. view \in View
    BY <1>0 DEF TypeInv, TypeOK
  <2>2. PICK z \in Int : \A k \in DOMAIN active' :
           /\ k \in Keys /\ Quotable(RawSize(k, view, z))
           /\ \/ k \in DOMAIN active /\ active'[k] = active[k]
              \/ active'[k].size = FlooredSize(RawSize(k, view, z))
    BY <1>0, <1>3, DecideQuotes
  <2>3. \A k \in DOMAIN active' : Sized(FlooredSize(RawSize(k, view, z)))
    BY <2>1, <2>2, RawSizeType, FlooredIsSized
  <2>. QED BY <2>2, <2>3 DEF SizeInv
<1>. QED BY <1>0, <1>1, <1>2, <1>3, StrategySteps, IngestFacts DEF strategyVars

(* What let risk allow a side holds until the next event is processed. *)
LEMMA NextPairInv ==
  ASSUME ~SwallowErrors, BlockStatus, BlockStopFlags, StrategyInv, PairInv,
         [StrategyNext]_strategyVars
  PROVE  PairInv'
<1>0. EventInv /\ TypeInv
  BY DEF StrategyInv
<1>1. CASE UNCHANGED ammVars
  BY <1>1 DEF ammVars, marketVars, PairInv
<1>2. CASE PipelineStep /\ ~Decide
  <2>1. pairSpec' = pairSpec \/ "fetched" \in pairSpec'
    BY <1>2 DEF PipelineStep, Receive, MarketEvent, PairSpecEvent, StatusEvent, TradeEvent,
                EndMatch, Book, Match, marketVars
  <2>. QED BY <1>2, <2>1, ComesToRest DEF PairInv
<1>3. CASE Decide
  <2>1. allowed' = Allowed(view, pairSpec, status, now) /\ UNCHANGED <<pairSpec, status>>
    BY <1>3 DEF Decide, marketVars
  <2>2. allowed' # {} => ~HardBlocked(view, pairSpec, status, now)
    BY <2>1 DEF Allowed
  <2>3. "buy" \in allowed' => "stop_buy" \notin pairSpec
    BY <2>1 DEF Allowed
  <2>4. "sell" \in allowed' => "stop_sell" \notin pairSpec
    BY <2>1 DEF Allowed
  <2>. QED BY <2>1, <2>2, <2>3, <2>4 DEF PairInv, HardBlocked
<1>. QED BY <1>0, <1>1, <1>2, <1>3, StrategySteps, IngestFacts DEF strategyVars

(* The gates by their number. *)
LEMMA GatesByNumber ==
  ASSUME NEW side, NEW order, NEW v, NEW spec, NEW st, NEW sides, OpenGates = ConfigGates,
         NEW g, g = Gates(side, order, v, spec, st, sides),
         {"disabled", "stop"} \cap spec = {}, side = "buy" => "stop_buy" \notin spec,
         side = "sell" => "stop_sell" \notin spec, side \in sides,
         ~WouldCross(side, order.price, v),
         order.size >= MinOrderSize, order.size <= LimitMaxAmount, order.size % LotSize = 0,
         order.price \in Int
  PROVE  /\ Closed(g) \subseteq {6, 7}
         /\ 6 \in Closed(g) => "fetched" \notin spec
         /\ 7 \in Closed(g) => st # "normal"
         /\ g[6][1] = "pair_metadata_unfetched" /\ g[7][1] = "bitbank_status_not_normal"
<1>1. DOMAIN g = 1..22
  BY DEF Gates
<1>2. g[1][2] /\ g[2][2] /\ g[3][2] /\ g[4][2] /\ g[5][2]
  BY DEF Gates, ConfigGates
<1>3. g[8][2] /\ g[9][2] /\ g[10][2] /\ g[11][2] /\ g[12][2]
  BY DEF Gates, ConfigGates
<1>4. g[13][2] /\ g[14][2] /\ g[15][2] /\ g[16][2] /\ g[17][2]
  BY DEF Gates
<1>5. g[18][2] /\ g[19][2] /\ g[20][2] /\ g[21][2] /\ g[22][2]
  BY DEF Gates
<1>6. /\ "fetched" \in spec => g[6][2]
      /\ st = "normal" => g[7][2]
      /\ g[6][1] = "pair_metadata_unfetched" /\ g[7][1] = "bitbank_status_not_normal"
  BY DEF Gates
<1>7. \A n \in 1..22 \ {6, 7} : g[n][2]
  BY <1>2, <1>3, <1>4, <1>5
<1>. QED BY <1>1, <1>6, <1>7 DEF Closed

(* The first closed gate is one of the two about metadata, if any is closed. *)
LEMMA FirstClosedGate ==
  ASSUME NEW S \in SUBSET {6, 7}, S # {}
  PROVE  \/ 6 \in S /\ Min(S) = 6
         \/ 6 \notin S /\ 7 \in S /\ Min(S) = 7
<1>1. CASE 6 \in S
  <2>1. \E x \in S : \A y \in S : x <= y
    BY <1>1
  <2>2. PICK m : m = Min(S)
    OBVIOUS
  <2>3. m \in S /\ \A y \in S : m <= y
    BY <2>1, <2>2 DEF Min
  <2>4. m \in {6, 7} /\ m <= 6
    BY <1>1, <2>3
  <2>5. m = 6
    BY <2>4
  <2>. QED BY <1>1, <2>2, <2>5
<1>2. CASE S = {7}
  <2>1. \E x \in S : \A y \in S : x <= y
    BY <1>2
  <2>2. Min(S) \in S
    BY <2>1 DEF Min
  <2>. QED BY <1>2, <2>2
<1>. QED BY <1>1, <1>2

(***************************************************************************)
(* Replay with risk's status and stop blocks on, for a pair that takes     *)
(* orders of max_order_size: the live gates, written a second time, find   *)
(* nothing wrong with an order that rests on the book, but for metadata    *)
(* that were never fetched.                                                *)
(***************************************************************************)
THEOREM GatesAgree ==
  ASSUME ~SwallowErrors, BlockStatus, BlockStopFlags, LimitMaxAmount >= MaxOrderSize
  PROVE  StrategySpec => []GatesAgreeWithTheKernel
<1>1. StrategyInit => SizeInv /\ PairInv
  BY DEF StrategyInit, Init, ProjectorInit, NothingAtAll, SizeInv, PairInv
<1>2. StrategyInv /\ (SizeInv /\ PairInv) /\ [StrategyNext]_strategyVars => (SizeInv /\ PairInv)'
  BY NextSizeInv, NextPairInv
<1>3. StrategyInv /\ OpenInv /\ SizeInv /\ PairInv => GatesAgreeWithTheKernel
  <2> SUFFICES ASSUME StrategyInv, OpenInv, SizeInv, PairInv, pc = "idle", OpenGates = ConfigGates,
                      NEW k \in DOMAIN active,
                      NEW g, g = Gates(Side(k), active[k], view, pairSpec, status, allowed)
               PROVE  (IF Closed(g) = {} THEN "mvp_live_submission_disabled" ELSE g[Min(Closed(g))][1]) \in
                        {"mvp_live_submission_disabled"}
                          \cup (IF status = "unfetched" THEN {"bitbank_status_not_normal"} ELSE {})
                          \cup (IF pairSpec = {} /\ ~BlockUnfetchedSpec THEN {"pair_metadata_unfetched"} ELSE {})
    BY DEF GatesAgreeWithTheKernel, GateReason, AtRest
  <2>1. /\ PostOnlySafe(Side(k), active[k].price, view, allowed) /\ view \in View
        /\ active[k] \in ActiveOrder /\ status \in {"unfetched", "normal", "abnormal"}
    BY DEF OpenInv, StrategyInv, TypeInv, TypeOK, ProjectorTypeOK
  <2>2. Side(k) \in allowed /\ allowed # {}
    BY <2>1 DEF PostOnlySafe
  <2>3. ~WouldCross(Side(k), active[k].price, view)
    <3>1. active[k].price \in Int /\ view.bid \in Nat \cup {None} /\ view.ask \in Nat \cup {None}
      BY <2>1 DEF View, ActiveOrder
    <3>. QED BY <2>1, <3>1 DEF PostOnlySafe, WouldCross
  <2>4. active[k].size >= MinOrderSize /\ active[k].size <= LimitMaxAmount /\ active[k].size % LotSize = 0
    <3>1. Sized(active[k].size)
      BY DEF SizeInv
    <3>2. active[k].size \in Nat /\ MaxOrderSize \in Nat /\ LimitMaxAmount \in Nat
      BY <2>1, MarketAssumption, LiveGatesAssumption DEF ActiveOrder
    <3>. QED BY <3>1, <3>2 DEF Sized
  <2>5. /\ {"disabled", "stop"} \cap pairSpec = {} /\ status # "abnormal"
        /\ Side(k) = "buy" => "stop_buy" \notin pairSpec
        /\ Side(k) = "sell" => "stop_sell" \notin pairSpec
        /\ "fetched" \notin pairSpec => pairSpec = {} /\ ~BlockUnfetchedSpec
    BY <2>2 DEF PairInv
  <2>6. /\ Closed(g) \subseteq {6, 7}
        /\ 6 \in Closed(g) => "fetched" \notin pairSpec
        /\ 7 \in Closed(g) => status # "normal"
        /\ g[6][1] = "pair_metadata_unfetched" /\ g[7][1] = "bitbank_status_not_normal"
    <3>1. active[k].price \in Int
      BY <2>1 DEF ActiveOrder
    <3>. QED BY <2>2, <2>3, <2>4, <2>5, <3>1, GatesByNumber
  <2>7. CASE Closed(g) = {}
    BY <2>7
  <2>8. CASE Closed(g) # {}
    <3>1. \/ 6 \in Closed(g) /\ Min(Closed(g)) = 6
          \/ 7 \in Closed(g) /\ Min(Closed(g)) = 7
      BY <2>6, <2>8, FirstClosedGate
    <3>2. CASE 6 \in Closed(g) /\ Min(Closed(g)) = 6
      BY <2>5, <2>6, <2>8, <3>2
    <3>3. CASE 7 \in Closed(g) /\ Min(Closed(g)) = 7
      <4>1. status = "unfetched"
        BY <2>1, <2>5, <2>6, <3>3
      <4>. QED BY <2>6, <2>8, <3>3, <4>1
    <3>. QED BY <3>1, <3>2, <3>3
  <2>. QED BY <2>7, <2>8
<1>. QED BY <1>1, <1>2, <1>3, StrategyAlways, OpenAlways, PTL DEF StrategySpec

-------------------------------------------------------------------------------
(***************************************************************************)
(* The fair drift stop.  The kernel's history lacks the fair prices of the *)
(* events that it blocked outright, and drops old ones at other times than *)
(* the marks are dropped.  But an event at which risk allowed a side is in *)
(* it, and every later entry of the history is a later mark.               *)
(***************************************************************************)
Same(h, m) == h.ts = m.ts /\ h.fair = m.fair
Tied(history, some) ==
  \A n \in 1..Len(some) : some[n].open =>
    \E i \in 1..Len(history) :
      /\ Same(history[i], some[n])
      /\ \A j \in i + 1..Len(history) : \E p \in n + 1..Len(some) : Same(history[j], some[p])
InOrder(s, t) ==
  /\ \A n \in 1..Len(s) : s[n].ts \in Int /\ s[n].ts <= t
  /\ \A i, j \in 1..Len(s) : i <= j => s[i].ts <= s[j].ts
DriftInv == InOrder(fairHistory, now) /\ InOrder(marks, now) /\ Tied(fairHistory, marks)

(* A deque that grows at the end, or loses its head. *)
Grown(s, e, r) == Len(r) = Len(s) + 1 /\ r[Len(s) + 1] = e /\ \A i \in 1..Len(s) : r[i] = s[i]
Behead(s, d, r) == Len(r) = Len(s) - d /\ \A i \in 1..Len(s) - d : r[i] = s[i + d]

(* What is added at the present time is last. *)
LEMMA GrownInOrder ==
  ASSUME NEW s, NEW r, NEW e, Len(s) \in Nat, NEW t \in Int, InOrder(s, t), e.ts = t, Grown(s, e, r)
  PROVE  InOrder(r, t)
BY DEF InOrder, Grown

(* A tail is in order. *)
LEMMA TailInOrder ==
  ASSUME NEW s, NEW r, Len(s) \in Nat, NEW d \in 0..Len(s), NEW t, InOrder(s, t), Behead(s, d, r)
  PROVE  InOrder(r, t)
<1>1. \A i \in 1..Len(r) : r[i] = s[i + d] /\ i + d \in 1..Len(s)
  BY DEF Behead
<1>2. \A i, j \in 1..Len(r) : i <= j => i + d <= j + d
  BY DEF Behead
<1>. QED BY <1>1, <1>2 DEF InOrder

(* A mark and an entry for it are added together. *)
LEMMA GrownTied ==
  ASSUME NEW h, NEW m, Len(h) \in Nat, Len(m) \in Nat, Tied(h, m),
         NEW e, NEW f, Same(e, f), NEW g, Grown(h, e, g), NEW l, Grown(m, f, l)
  PROVE  Tied(g, l)
<1> SUFFICES ASSUME NEW n \in 1..Len(l), l[n].open
             PROVE  \E i \in 1..Len(g) :
                      /\ Same(g[i], l[n])
                      /\ \A j \in i + 1..Len(g) : \E p \in n + 1..Len(l) : Same(g[j], l[p])
  BY DEF Tied
<1>1. CASE n = Len(l)
  <2>1. Len(g) \in 1..Len(g) /\ Same(g[Len(g)], l[n]) /\ Len(g) + 1..Len(g) = {}
    BY <1>1 DEF Grown
  <2>. QED BY <2>1
<1>2. CASE n \in 1..Len(m) /\ l[n] = m[n]
  <2>1. PICK i \in 1..Len(h) :
           Same(h[i], m[n]) /\ \A j \in i + 1..Len(h) : \E p \in n + 1..Len(m) : Same(h[j], m[p])
    BY <1>2 DEF Tied
  <2>2. i \in 1..Len(g) /\ g[i] = h[i]
    BY DEF Grown
  <2>3. ASSUME NEW j \in i + 1..Len(g)
        PROVE  \E p \in n + 1..Len(l) : Same(g[j], l[p])
    <3>1. CASE j = Len(g)
      <4>1. Len(l) \in n + 1..Len(l) /\ Same(g[j], l[Len(l)])
        BY <1>2, <3>1 DEF Grown
      <4>. QED BY <4>1
    <3>2. CASE j # Len(g)
      <4>1. j \in i + 1..Len(h) /\ g[j] = h[j]
        BY <3>2 DEF Grown
      <4>2. PICK p \in n + 1..Len(m) : Same(h[j], m[p])
        BY <2>1, <4>1
      <4>3. p \in n + 1..Len(l) /\ l[p] = m[p]
        BY <1>2 DEF Grown
      <4>. QED BY <4>1, <4>2, <4>3
    <3>. QED BY <3>1, <3>2
  <2>. QED BY <1>2, <2>1, <2>2, <2>3
<1>. QED BY <1>1, <1>2 DEF Grown

(* A mark at which no side was allowed needs no entry. *)
LEMMA ClosedTied ==
  ASSUME NEW h, NEW m, Len(m) \in Nat, Tied(h, m), NEW f, ~f.open, NEW l, Grown(m, f, l)
  PROVE  Tied(h, l)
<1> SUFFICES ASSUME NEW n \in 1..Len(l), l[n].open
             PROVE  \E i \in 1..Len(h) :
                      /\ Same(h[i], l[n])
                      /\ \A j \in i + 1..Len(h) : \E p \in n + 1..Len(l) : Same(h[j], l[p])
  BY DEF Tied
<1>1. n \in 1..Len(m) /\ l[n] = m[n]
  BY DEF Grown
<1>2. PICK i \in 1..Len(h) :
         Same(h[i], m[n]) /\ \A j \in i + 1..Len(h) : \E p \in n + 1..Len(m) : Same(h[j], m[p])
  BY <1>1 DEF Tied
<1>3. \A p \in n + 1..Len(m) : p \in n + 1..Len(l) /\ l[p] = m[p]
  BY <1>1 DEF Grown
<1>. QED BY <1>1, <1>2, <1>3

(* Entries may be dropped that are no longer a mark's. *)
LEMMA BeheadedTied ==
  ASSUME NEW h, NEW m, Len(h) \in Nat, Len(m) \in Nat, Tied(h, m),
         NEW d \in 0..Len(h), NEW e \in 0..Len(m), NEW g, Behead(h, d, g), NEW l, Behead(m, e, l),
         \A i \in 1..d, n \in e + 1..Len(m) : h[i].ts # m[n].ts
  PROVE  Tied(g, l)
<1> SUFFICES ASSUME NEW n \in 1..Len(l), l[n].open
             PROVE  \E i \in 1..Len(g) :
                      /\ Same(g[i], l[n])
                      /\ \A j \in i + 1..Len(g) : \E p \in n + 1..Len(l) : Same(g[j], l[p])
  BY DEF Tied
<1>1. n + e \in 1..Len(m) /\ n + e \in e + 1..Len(m) /\ l[n] = m[n + e]
  BY DEF Behead
<1>2. PICK i \in 1..Len(h) :
         /\ Same(h[i], m[n + e])
         /\ \A j \in i + 1..Len(h) : \E p \in n + e + 1..Len(m) : Same(h[j], m[p])
  BY <1>1 DEF Tied
<1>3. i \notin 1..d
  BY <1>1, <1>2 DEF Same
<1>4. i - d \in 1..Len(g) /\ g[i - d] = h[i]
  BY <1>3 DEF Behead
<1>5. ASSUME NEW j \in i - d + 1..Len(g)
      PROVE  \E p \in n + 1..Len(l) : Same(g[j], l[p])
  <2>1. j + d \in i + 1..Len(h) /\ g[j] = h[j + d]
    <3>1. Len(g) = Len(h) - d /\ i \in Nat /\ d \in Nat /\ Len(g) \in Int /\ j \in Int
      BY DEF Behead
    <3>2. i - d + 1 <= j /\ j <= Len(g) /\ 1 <= i - d
      BY <1>4, <3>1
    <3>3. j \in 1..Len(h) - d /\ j + d \in i + 1..Len(h)
      BY <3>1, <3>2
    <3>. QED BY <3>3 DEF Behead
  <2>2. PICK p \in n + e + 1..Len(m) : Same(h[j + d], m[p])
    BY <1>2, <2>1
  <2>3. p - e \in n + 1..Len(l) /\ l[p - e] = m[p]
    BY <1>1, <2>2 DEF Behead
  <2>. QED BY <2>1, <2>2, <2>3
<1>. QED BY <1>1, <1>2, <1>4, <1>5

(* Expire only beheads: old entries, and the first kept is not old. *)
LEMMA ExpireBeheads ==
  ASSUME NEW S, NEW deque \in Seq(S), NEW t, NEW window
  PROVE  \E d \in 0..Len(deque) :
           /\ Behead(deque, d, Expire(deque, t, window))
           /\ \A i \in 1..d : t - deque[i].ts > window
           /\ d < Len(deque) => ~ (t - deque[d + 1].ts > window)
BY ExpireTail DEF Behead

(* The history, expired now or earlier, still has the entries of the marks
   that are left. *)
LEMMA ExpiredTied ==
  ASSUME NEW S, NEW R, NEW h \in Seq(S), NEW m \in Seq(R), Tied(h, m), NEW t \in Int, NEW window \in Nat,
         InOrder(m, t), InOrder(h, t),
         NEW g, g = h \/ g = Expire(h, t, window), NEW l, l = Expire(m, t, window)
  PROVE  Tied(g, l)
<1>1. PICK e \in 0..Len(m) :
         /\ Behead(m, e, l)
         /\ e < Len(m) => ~ (t - m[e + 1].ts > window)
  BY ExpireBeheads
<1>2. PICK d \in 0..Len(h) :
         /\ Behead(h, d, g)
         /\ \A i \in 1..d : t - h[i].ts > window
  <2>1. CASE g = h
    <3>1. 0 \in 0..Len(h) /\ Behead(h, 0, g)
      BY <2>1 DEF Behead
    <3>. QED BY <3>1
  <2>2. CASE g = Expire(h, t, window)
    BY <2>2, ExpireBeheads
  <2>. QED BY <2>1, <2>2
<1>3. ASSUME NEW i \in 1..d, NEW n \in e + 1..Len(m)
      PROVE  h[i].ts # m[n].ts
  <2>1. e + 1 \in 1..Len(m) /\ n \in 1..Len(m) /\ e + 1 <= n /\ e < Len(m)
    OBVIOUS
  <2>2. m[e + 1].ts \in Int /\ m[n].ts \in Int /\ m[e + 1].ts <= m[n].ts
    BY <2>1 DEF InOrder
  <2>3. t - m[e + 1].ts <= window
    BY <1>1, <2>1, <2>2
  <2>4. t - h[i].ts > window /\ h[i].ts \in Int
    BY <1>2 DEF InOrder
  <2>. QED BY <2>2, <2>3, <2>4
<1>4. Len(h) \in Nat /\ Len(m) \in Nat
  OBVIOUS
<1>. QED BY <1>1, <1>2, <1>3, <1>4, BeheadedTied

(* What is known of both stays known of what is left. *)
LEMMA ExpiredInOrder ==
  ASSUME NEW S, NEW s \in Seq(S), NEW t, NEW window, InOrder(s, t)
  PROVE  InOrder(Expire(s, t, window), t)
<1>1. PICK d \in 0..Len(s) : Behead(s, d, Expire(s, t, window))
  BY ExpireBeheads
<1>2. Len(s) \in Nat
  OBVIOUS
<1>. QED BY <1>1, <1>2, TailInOrder

(* _fair_at_or_before finds the last entry that is not younger. *)
LEMMA LastAtOrBefore ==
  ASSUME NEW t \in Int, InOrder(fairHistory, now), Len(fairHistory) \in Nat,
         NEW i \in 1..Len(fairHistory), fairHistory[i].ts <= t,
         \A j \in i + 1..Len(fairHistory) : ~ (fairHistory[j].ts <= t)
  PROVE  FairAtOrBefore(t) = fairHistory[i].fair
<1> DEFINE prefix == {n \in 1..Len(fairHistory) : \A j \in 1..n : fairHistory[j].ts <= t}
<1>1. ASSUME NEW n \in prefix
      PROVE  n \in 1..i
  <2>1. n \in 1..Len(fairHistory) /\ fairHistory[n].ts <= t
    OBVIOUS
  <2>. QED BY <2>1
<1>2. ASSUME NEW n \in 1..i
      PROVE  n \in prefix
  <2>1. ASSUME NEW j \in 1..n
        PROVE  fairHistory[j].ts <= t
    <3>1. j \in 1..Len(fairHistory) /\ j <= i
      OBVIOUS
    <3>2. fairHistory[j].ts \in Int /\ fairHistory[i].ts \in Int /\ fairHistory[j].ts <= fairHistory[i].ts
      BY <3>1 DEF InOrder
    <3>. QED BY <3>2
  <2>2. n \in 1..Len(fairHistory)
    OBVIOUS
  <2>. QED BY <2>1, <2>2
<1>3. FairAtOrBefore(t) = IF prefix = {} THEN None ELSE fairHistory[Cardinality(prefix)].fair
  BY DEF FairAtOrBefore
<1>. HIDE DEF prefix
<1>4. prefix = 1..i
  BY <1>1, <1>2
<1>5. Cardinality(1..i) = i
  BY FS_Interval
<1>6. i \in prefix
  BY <1>4
<1>. QED BY <1>3, <1>4, <1>5, <1>6

(* What a decision does to the marks and to the history. *)
LEMMA DecideHistory ==
  ASSUME StrategyInv, Decide, Mark, event = None
  PROVE  /\ fairHistory \in Seq([ts : Int, fair : Nat]) /\ marks \in Seq(FairMark) /\ now \in Nat
         /\ LongHorizon \in Nat /\ view = MarketView
         /\ \/ /\ Fair = None /\ allowed' = {} /\ fairHistory' = fairHistory
               /\ marks' = Expire(marks, now, LongHorizon)
            \/ /\ Fair \in Nat \ {0}
               /\ [ts |-> now, fair |-> Fair, open |-> allowed' # {}] \in FairMark
               /\ marks' = Expire(Append(marks, [ts |-> now, fair |-> Fair, open |-> allowed' # {}]),
                                   now, LongHorizon)
               /\ \/ allowed' = {} /\ fairHistory' = fairHistory
                  \/ /\ fairHistory' = Expire(Append(fairHistory, [ts |-> now, fair |-> Fair]),
                                              now, LongHorizon)
                     /\ allowed' \cap DriftBlocked(now, Fair) = {}
<1>1. /\ fairHistory \in Seq([ts : Int, fair : Nat]) /\ marks \in Seq(FairMark) /\ now \in Nat
      /\ LongHorizon \in Nat /\ view = MarketView /\ view.fair = Fair
  <2>1. LongHorizon \in Nat
    BY RiskAssumption
  <2>. QED BY <2>1, ClockAssumption
       DEF StrategyInv, TypeInv, TypeOK, RiskTypeOK, MarksInv, DataInv, EventInv, MarketView
<1>2. Fair \in (Nat \ {0}) \cup {None}
  BY <1>1, FairFacts DEF StrategyInv, DataInv
<1>3. CASE HardBlocked(view, pairSpec, status, now)
  <2>1. allowed' = {} /\ fairHistory' = fairHistory
    BY <1>3 DEF Decide, Allowed, Evaluate, riskVars
  <2>. QED BY <1>1, <1>2, <2>1 DEF Mark, FairMark
<1>4. CASE ~HardBlocked(view, pairSpec, status, now)
  <2>1. Fair # None
    BY <1>1, <1>4 DEF HardBlocked
  <2>2. fairHistory' = Expire(Append(fairHistory, [ts |-> now, fair |-> Fair]), now, LongHorizon)
    BY <1>1, <1>4 DEF Decide, Evaluate
  <2>3. allowed' \cap DriftBlocked(now, Fair) = {}
    BY <1>1, <1>4 DEF Decide, Allowed
  <2>. QED BY <1>1, <1>2, <2>1, <2>2, <2>3 DEF Mark, FairMark
<1>. QED BY <1>3, <1>4

(* A decision keeps marks and history tied. *)
LEMMA DecideDriftInv ==
  ASSUME StrategyInv, DriftInv, Decide, Mark, event = None, now' = now
  PROVE  DriftInv'
<1> DEFINE mark == [ts |-> now, fair |-> Fair, open |-> allowed' # {}]
           entry == [ts |-> now, fair |-> Fair]
<1>1. PICK R, S : R = FairMark /\ S = [ts : Int, fair : Nat]
  OBVIOUS
<1>2. /\ fairHistory \in Seq(S) /\ marks \in Seq(R) /\ now \in Int /\ LongHorizon \in Nat
      /\ Len(fairHistory) \in Nat /\ Len(marks) \in Nat
  BY <1>1, DecideHistory
<1>3. InOrder(fairHistory, now) /\ InOrder(marks, now) /\ Tied(fairHistory, marks)
  BY DEF DriftInv
<1>4. CASE fairHistory' = fairHistory /\ marks' = Expire(marks, now, LongHorizon)
  <2>1. Tied(fairHistory', marks')
    BY <1>2, <1>3, <1>4, ExpiredTied
  <2>2. InOrder(marks', now)
    BY <1>2, <1>3, <1>4, ExpiredInOrder
  <2>. QED BY <1>3, <1>4, <2>1, <2>2 DEF DriftInv
<1>5. ASSUME Fair \in Nat \ {0}, mark \in FairMark,
             marks' = Expire(Append(marks, mark), now, LongHorizon),
             \/ allowed' = {} /\ fairHistory' = fairHistory
             \/ fairHistory' = Expire(Append(fairHistory, entry), now, LongHorizon)
      PROVE  DriftInv'
  <2>1. mark \in R /\ mark.ts = now /\ entry \in S /\ entry.ts = now /\ Same(entry, mark)
    BY <1>1, <1>2, <1>5 DEF Same
  <2>2. allowed' = {} => ~mark.open
    OBVIOUS
  <2>. HIDE DEF mark, entry
  <2>3. PICK m : m = Append(marks, mark)
    OBVIOUS
  <2>4. m \in Seq(R) /\ Grown(marks, mark, m)
    BY <1>2, <2>1, <2>3, AppendProperties DEF Grown
  <2>5. InOrder(m, now)
    BY <1>2, <1>3, <2>1, <2>4, GrownInOrder
  <2>6. InOrder(marks', now)
    BY <1>5, <2>3, <2>4, <2>5, ExpiredInOrder
  <2>7. CASE allowed' = {} /\ fairHistory' = fairHistory
    <3>1. Tied(fairHistory, m)
      BY <1>2, <1>3, <2>2, <2>4, <2>7, ClosedTied
    <3>2. Tied(fairHistory', marks')
      BY <1>2, <1>3, <1>5, <2>3, <2>4, <2>5, <2>7, <3>1, ExpiredTied
    <3>. QED BY <1>3, <2>6, <2>7, <3>2 DEF DriftInv
  <2>8. CASE fairHistory' = Expire(Append(fairHistory, entry), now, LongHorizon)
    <3>1. PICK h : h = Append(fairHistory, entry)
      OBVIOUS
    <3>2. h \in Seq(S) /\ Grown(fairHistory, entry, h)
      BY <1>2, <2>1, <3>1, AppendProperties DEF Grown
    <3>3. InOrder(h, now)
      BY <1>2, <1>3, <2>1, <3>2, GrownInOrder
    <3>4. Tied(h, m)
      BY <1>2, <1>3, <2>1, <2>4, <3>2, GrownTied
    <3>5. Tied(fairHistory', marks')
      BY <1>2, <1>5, <2>3, <2>4, <2>5, <2>8, <3>1, <3>2, <3>3, <3>4, ExpiredTied
    <3>6. InOrder(fairHistory', now)
      BY <2>8, <3>1, <3>2, <3>3, ExpiredInOrder
    <3>. QED BY <2>6, <3>5, <3>6 DEF DriftInv
  <2>. QED BY <1>5, <2>7, <2>8
<1>. QED BY <1>4, <1>5, DecideHistory

(* A decision is the last step of an event, and leaves a mark. *)
LEMMA DecideIsMarked ==
  ASSUME EventInv, PipelineStep, Decide
  PROVE  event = None /\ Mark
<1>1. pc = "book" /\ fills = <<>>
  BY DEF Decide
<1>2. event = None
  BY <1>1 DEF EventInv
<1>3. ~EndMatch /\ ~Book /\ ~ \E i \in eligible : Match(i)
  BY <1>1 DEF EndMatch, Book, Match
<1>. QED BY <1>2, <1>3 DEF PipelineStep

(* Every step keeps it, while the clock does not run backwards. *)
LEMMA NextDriftInv ==
  ASSUME TimeSteps \subseteq Nat, StrategyInv, DriftInv, [StrategyNext]_strategyVars
  PROVE  DriftInv'
<1>0. EventInv /\ DataInv
  BY DEF StrategyInv
<1>1. CASE Ingest
  <2>1. DataNext /\ UNCHANGED <<fairHistory, marks>>
    BY <1>1, IngestFacts DEF ammVars, riskVars
  <2>2. now \in Nat /\ now' \in Nat /\ now <= now'
    <3>1. Advance
      BY <1>0, <2>1, EventShape DEF Refreshed
    <3>2. now \in Nat
      BY <1>0, ClockAssumption DEF DataInv
    <3>. QED BY <3>1, <3>2, ClockAssumption DEF Advance
  <2>. QED BY <2>1, <2>2 DEF DriftInv, InOrder
<1>2. CASE PipelineStep /\ ~Decide /\ UNCHANGED dataVars
  <2>1. UNCHANGED <<fairHistory, marks>>
    BY <1>2 DEF PipelineStep, Receive, MarketEvent, PairSpecEvent, StatusEvent, TradeEvent,
                EndMatch, Match, Book, Abandon, Emit, RecordFill, riskVars
  <2>2. now' = now
    BY <1>2 DEF dataVars
  <2>. QED BY <2>1, <2>2 DEF DriftInv, Tied, InOrder
<1>3. CASE PipelineStep /\ Decide /\ UNCHANGED dataVars
  <2>1. event = None /\ now' = now /\ Mark
    BY <1>0, <1>3, DecideIsMarked DEF dataVars
  <2>. QED BY <1>3, <2>1, DecideDriftInv
<1>4. CASE UNCHANGED strategyVars
  BY <1>4 DEF strategyVars, ammVars, riskVars, dataVars, DriftInv, Tied, InOrder
<1>. QED BY <1>0, <1>1, <1>2, <1>3, <1>4, StrategySteps

(* Marks and history are in order and tied in every reachable state. *)
LEMMA DriftAlways == ASSUME TimeSteps \subseteq Nat PROVE StrategySpec => []DriftInv
<1>1. StrategyInit => DriftInv
  BY DEF StrategyInit, Init, RiskInit, DriftInv, Tied, InOrder
<1>2. StrategyInv /\ DriftInv /\ [StrategyNext]_strategyVars => DriftInv'
  BY NextDriftInv
<1>. QED BY <1>1, <1>2, StrategyAlways, PTL DEF StrategySpec

(* The kernel's comparison and the property's are the same. *)
LEMMA NeitherDroppedNorRose ==
  ASSUME NEW prior \in Nat, NEW fair \in Nat, NEW limit \in Nat, limit > 0
  PROVE  /\ ~Dropped(prior, fair, limit) => 10000 * (prior - fair) < limit * prior
         /\ ~Rose(prior, fair, limit) => 10000 * (fair - prior) < limit * prior
<1>1. PICK p \in Nat : p = limit * prior
  OBVIOUS
<1>. QED BY <1>1 DEF Dropped, Rose

(* Every limit of the drift stop is a number. *)
LEMMA LimitIsNat ==
  ASSUME NEW side, NEW horizon PROVE Limit(side, horizon) \in Nat
<1>1. MaxDropShort \in Nat
  BY RiskAssumption
<1>2. MaxDropLong \in Nat
  BY RiskAssumption
<1>3. MaxRiseShort \in Nat
  BY RiskAssumption
<1>4. MaxRiseLong \in Nat
  BY RiskAssumption
<1>. QED BY <1>1, <1>2, <1>3, <1>4 DEF Limit

(* A side that the drift stop lets pass did not move by its limit since the
   price found for either horizon. *)
LEMMA PassedTheStop ==
  ASSUME NEW side \in Sides, NEW t \in Int, Fair \in Nat, side \notin DriftBlocked(t, Fair),
         NEW horizon \in {ShortHorizon, LongHorizon}, Limit(side, horizon) > 0,
         NEW prior \in Nat \ {0}, FairAtOrBefore(t - horizon) = prior
  PROVE  Against(side, prior) < Limit(side, horizon) * prior
<1>1. Limit(side, horizon) \in Nat /\ None \notin Nat
  BY LimitIsNat, MarketAssumption
<1>2. prior # None /\ prior > 0
  BY <1>1
<1>3. side = "buy" => ~Dropped(prior, Fair, Limit(side, horizon))
  BY <1>2 DEF DriftBlocked, Limit
<1>4. side # "buy" => ~Rose(prior, Fair, Limit(side, horizon))
  BY <1>2 DEF DriftBlocked, Limit
<1>. QED BY <1>1, <1>3, <1>4, NeitherDroppedNorRose DEF Against

(* The last mark of a horizon, at which a side was allowed, is what the
   kernel finds; or it is the decision's own. *)
LEMMA MarkIsFound ==
  ASSUME StrategyInv, DriftInv, NEW n \in 1..Len(marks), marks[n].open,
         NEW t \in Int, marks[n].ts <= t,
         \A p \in n + 1..Len(marks) : ~ (marks[p].ts <= t)
  PROVE  FairAtOrBefore(t) = marks[n].fair
<1>1. PICK i \in 1..Len(fairHistory) :
         /\ Same(fairHistory[i], marks[n])
         /\ \A j \in i + 1..Len(fairHistory) : \E p \in n + 1..Len(marks) : Same(fairHistory[j], marks[p])
  BY DEF DriftInv, Tied
<1>2. \A j \in i + 1..Len(fairHistory) : ~ (fairHistory[j].ts <= t)
  BY <1>1 DEF Same
<1>3. fairHistory[i].ts <= t /\ fairHistory[i].fair = marks[n].fair
  BY <1>1 DEF Same
<1>4. Len(fairHistory) \in Nat
  BY DEF StrategyInv, TypeInv, TypeOK, RiskTypeOK
<1>. QED BY <1>2, <1>3, <1>4, LastAtOrBefore DEF DriftInv

(* Marks before a horizon have a last one. *)
LEMMA LastMark ==
  ASSUME NEW s, Len(s) \in Nat, NEW t, NEW B, B = {n \in 1..Len(s) : s[n].ts <= t}, B # {}
  PROVE  /\ Max(B) \in 1..Len(s) /\ s[Max(B)].ts <= t
         /\ \A p \in Max(B) + 1..Len(s) : ~ (s[p].ts <= t)
<1>1. IsFiniteSet(B) /\ B \in SUBSET Int
  <2>1. IsFiniteSet(1..Len(s)) /\ B \subseteq 1..Len(s)
    BY FS_Interval
  <2>. QED BY <2>1, FS_Subset
<1>2. \E x \in B : \A y \in B : x >= y
  BY <1>1, HasExtremes
<1>3. PICK top : top = Max(B)
  OBVIOUS
<1>4. top \in B /\ \A y \in B : top >= y
  BY <1>2, <1>3 DEF Max
<1>5. \A p \in top + 1..Len(s) : p \in 1..Len(s) /\ ~ (top >= p)
  BY <1>4
<1>. QED BY <1>3, <1>4, <1>5

(* Only the fair price moves against a side, and only marks are compared. *)
LEMMA SameComparison ==
  ASSUME Fair' = Fair, now' = now
  PROVE  /\ \A side, prior : Against(side, prior)' = Against(side, prior)
         /\ \A side, horizon : Limit(side, horizon)' = Limit(side, horizon)
         /\ \A horizon : MarksBefore(horizon)' = {n \in DOMAIN marks' : marks'[n].ts <= now - horizon}
BY DEF Against, Limit, MarksBefore

(* A decision quotes no side that the fair price moved against. *)
LEMMA DriftIsStopped ==
  ASSUME StrategyInv, DriftInv, Decide, Mark, event = None, UNCHANGED dataVars
  PROVE  DriftStops'
<1>1. /\ now' = now /\ now \in Nat /\ view = MarketView /\ Fair' = Fair
      /\ fairHistory \in Seq([ts : Int, fair : Nat]) /\ marks \in Seq(FairMark)
  <2>1. Fair' = Fair
    <3>1. MarketView' = MarketView
      BY SameView
    <3>. QED BY <3>1 DEF MarketView
  <2>. QED BY <2>1, DecideHistory DEF dataVars
<1> SUFFICES ASSUME NEW k \in DOMAIN active', NEW horizon \in {ShortHorizon, LongHorizon},
                    Limit(Side(k), horizon) > 0,
                    NEW B, B = {n \in DOMAIN marks' : marks'[n].ts <= now - horizon}, B # {},
                    marks'[Max(B)].open
             PROVE  Against(Side(k), marks'[Max(B)].fair) < Limit(Side(k), horizon) * marks'[Max(B)].fair
  <2>1. SUFFICES ASSUME NEW k \in DOMAIN active', NEW horizon \in {ShortHorizon, LongHorizon},
                        Limit(Side(k), horizon)' > 0, MarksBefore(horizon)' # {},
                        marks'[Max(MarksBefore(horizon)')].open,
                        NEW then, then = marks'[Max(MarksBefore(horizon)')]
                 PROVE  Against(Side(k), then.fair)' < Limit(Side(k), horizon)' * then.fair
    BY DEF DriftStops, Quoted, Max, Side
  <2>. QED BY <1>1, <2>1, SameComparison
<1>2. Side(k) \in allowed' /\ Side(k) \in Sides
  <2>1. TypeInv
    BY DEF StrategyInv
  <2>2. \E z \in Int : k \in Keys
    BY <2>1, DecideQuotes
  <2>. QED BY <2>1, <2>2, DecideFacts DEF PostOnlySafe, Side, Sides, Keys
<1>3. now - horizon \in Int
  <2>1. ShortHorizon \in Nat
    BY RiskAssumption
  <2>2. LongHorizon \in Nat
    BY RiskAssumption
  <2>. QED BY <1>1, <2>1, <2>2
<1>4. PICK mark : mark = [ts |-> now, fair |-> Fair, open |-> allowed' # {}]
  OBVIOUS
<1>5. /\ Fair \in Nat \ {0} /\ mark \in FairMark /\ LongHorizon \in Nat
      /\ marks' = Expire(Append(marks, mark), now, LongHorizon)
      /\ Side(k) \notin DriftBlocked(now, Fair)
  BY <1>2, <1>4, DecideHistory
<1>6. PICK m, R : m = Append(marks, mark) /\ R = FairMark
  OBVIOUS
<1>7. m \in Seq(R) /\ Grown(marks, mark, m) /\ Len(marks) \in Nat /\ Len(m) \in Nat
  BY <1>1, <1>5, <1>6, AppendProperties DEF Grown
<1>8. PICK e \in 0..Len(m) : Behead(m, e, marks')
  BY <1>5, <1>6, <1>7, ExpireBeheads
<1>9. Len(marks') \in Nat /\ DOMAIN marks' = 1..Len(marks')
  <2>1. marks' \in Seq(R)
    BY <1>5, <1>6, <1>7, ExpireType
  <2>. QED BY <2>1
<1>10. PICK top : top = Max(B)
  OBVIOUS
<1>11. /\ top \in 1..Len(marks') /\ marks'[top].ts <= now - horizon
       /\ \A p \in top + 1..Len(marks') : ~ (marks'[p].ts <= now - horizon)
  BY <1>9, <1>10, LastMark
<1>12. /\ top + e \in 1..Len(m) /\ m[top + e] = marks'[top] /\ m[top + e].open
       /\ m[top + e].ts <= now - horizon
       /\ \A p \in top + e + 1..Len(m) : ~ (m[p].ts <= now - horizon)
  <2>1. top + e \in 1..Len(m) /\ m[top + e] = marks'[top]
    BY <1>7, <1>8, <1>11 DEF Behead
  <2>2. ASSUME NEW p \in top + e + 1..Len(m)
        PROVE  ~ (m[p].ts <= now - horizon)
    <3>1. p - e \in top + 1..Len(marks') /\ marks'[p - e] = m[p]
      BY <1>7, <1>8, <1>11 DEF Behead
    <3>. QED BY <1>11, <3>1
  <2>. QED BY <1>10, <1>11, <2>1, <2>2
<1>13. CASE top + e = Len(m)
  <2>1. marks'[top].fair = Fair
    BY <1>4, <1>7, <1>12, <1>13 DEF Grown
  <2>2. Fair - Fair = 0 /\ Limit(Side(k), horizon) * Fair > 0
    <3>1. Limit(Side(k), horizon) \in Nat
      BY LimitIsNat
    <3>. QED BY <1>5, <3>1
  <2>. QED BY <1>5, <1>10, <2>1, <2>2 DEF Against
<1>14. CASE top + e \in 1..Len(marks)
  <2>1. m[top + e] = marks[top + e] /\ \A p \in 1..Len(marks) : p \in 1..Len(m) /\ m[p] = marks[p]
    BY <1>7, <1>14 DEF Grown
  <2>2. /\ marks[top + e].open /\ marks[top + e].ts <= now - horizon
        /\ \A p \in top + e + 1..Len(marks) : ~ (marks[p].ts <= now - horizon)
    BY <1>7, <1>12, <1>14, <2>1
  <2>3. FairAtOrBefore(now - horizon) = marks[top + e].fair
    BY <1>3, <1>14, <2>2, MarkIsFound
  <2>4. marks[top + e].fair \in Nat \ {0}
    <3>1. marks[top + e] \in FairMark
      BY <1>1, <1>14
    <3>. QED BY <3>1 DEF FairMark
  <2>5. Against(Side(k), marks[top + e].fair) < Limit(Side(k), horizon) * marks[top + e].fair
    BY <1>1, <1>2, <1>5, <2>3, <2>4, PassedTheStop
  <2>. QED BY <1>10, <1>12, <2>1, <2>5
<1>. QED BY <1>7, <1>12, <1>13, <1>14 DEF Grown

(***************************************************************************)
(* Replay of events in order of time: after every event, no side is quoted *)
(* that the fair price has moved against by its limit since the last event *)
(* a horizon ago or longer, if risk allowed a side then.  The history the  *)
(* kernel looks this up in is pruned at other times than by its horizons,  *)
(* and lacks the events that it blocked outright.                          *)
(***************************************************************************)
THEOREM DriftIsAnswered ==
  ASSUME ~SwallowErrors, TimeSteps \subseteq Nat
  PROVE  StrategySpec => []DriftStops
<1>1. StrategyInit => DriftStops
  BY DEF StrategyInit, Init, ProjectorInit, NothingAtAll, DriftStops, Quoted
<1>2. StrategyInv /\ DriftInv /\ DriftStops /\ [StrategyNext]_strategyVars => DriftStops'
  <2> SUFFICES ASSUME StrategyInv, DriftInv, DriftStops, [StrategyNext]_strategyVars
               PROVE  DriftStops'
    OBVIOUS
  <2>0. EventInv
    BY DEF StrategyInv
  <2>1. CASE Ingest
    BY <2>1, IngestFacts, StrategyAssumption DEF DriftStops, AtRest
  <2>2. CASE PipelineStep /\ ~Decide /\ UNCHANGED dataVars
    BY <2>2, ComesToRest DEF DriftStops, AtRest
  <2>3. CASE PipelineStep /\ Decide /\ UNCHANGED dataVars
    <3>1. event = None /\ Mark
      BY <2>0, <2>3, DecideIsMarked
    <3>. QED BY <2>3, <3>1, DriftIsStopped
  <2>4. CASE UNCHANGED strategyVars
    <3>1. Fair' = Fair
      <4>1. MarketView' = MarketView
        BY <2>4, SameView DEF strategyVars
      <4>. QED BY <4>1 DEF MarketView
    <3>2. UNCHANGED <<event, pc, active, marks, now>>
      BY <2>4 DEF strategyVars, ammVars, projectorVars, dataVars
    <3>3. /\ \A side, prior : Against(side, prior)' = Against(side, prior)
          /\ \A side, horizon : Limit(side, horizon)' = Limit(side, horizon)
          /\ \A horizon : MarksBefore(horizon)' = MarksBefore(horizon)
      BY <3>1, <3>2 DEF Against, Limit, MarksBefore
    <3>. QED BY <3>2, <3>3 DEF DriftStops, AtRest, Quoted, Max, Side
  <2>. QED BY <2>0, <2>1, <2>2, <2>3, <2>4, StrategySteps
<1>. QED BY <1>1, <1>2, StrategyAlways, DriftAlways, PTL DEF StrategySpec

===============================================================================
