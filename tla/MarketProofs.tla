----------------------------- MODULE MarketProofs -----------------------------
(***************************************************************************)
(* Proofs about MarketData: the values the state and the view range over,  *)
(* and what the order book, the fair price and the shock state owe to the  *)
(* events they come from.                                                  *)
(*                                                                         *)
(* Lemmas about a state are implications, so that they hold of the state   *)
(* after a step as well.                                                   *)
(***************************************************************************)
EXTENDS MarketData, StrategyLemmas

Source == [fair : Nat \ {0}, ts : Int]
Shocked == [ts : Nat, direction : Directions]
Trade == [ts : Nat, side : Sides, notional : Nat]

BookTyped ==
  /\ IsSide(bids) /\ IsSide(asks)
  /\ lastSequence \in Nat \cup {None} /\ lastTs \in Nat \cup {None} /\ stale \in BOOLEAN
  /\ stale \/ lastTs # None

IsSources(some) ==
  /\ IsFiniteSet(DOMAIN some)
  /\ DOMAIN some \subseteq OwnNames \cup ExternalNames
  /\ some \in [DOMAIN some -> Source]

ShockTyped ==
  /\ trades \in Seq(Trade)
  /\ lastShock \in Shocked \cup {None}

(* The inductive invariant: DataTypeOK without what follows from it, sources
   being finitely many and a book in use having a time. *)
DataInv == BookTyped /\ now \in 0..MaxTime /\ IsSources(sources) /\ ShockTyped

-------------------------------------------------------------------------------
(***************************************************************************)
(* The view of a typed state.                                              *)
(***************************************************************************)
(* A best price is the price of a level, and the best of them. *)
LEMMA BestBidFacts ==
  IsSide(bids) =>
    \/ BestBid = None
    \/ /\ BestBid \in Nat \ {0} /\ BestBid \in DOMAIN bids
       /\ \A p \in DOMAIN bids : p <= BestBid
<1> SUFFICES ASSUME IsSide(bids), bids # EmptySide
             PROVE  /\ BestBid \in Nat \ {0} /\ BestBid \in DOMAIN bids
                    /\ \A p \in DOMAIN bids : p <= BestBid
  BY DEF BestBid
<1>1. DOMAIN bids # {}
  BY DEF IsSide, EmptySide
<1>2. \E p \in DOMAIN bids : \A q \in DOMAIN bids : p >= q
  <2>1. DOMAIN bids \in SUBSET Int /\ IsFiniteSet(DOMAIN bids)
    BY DEF IsSide, IsPrices
  <2>. QED BY <1>1, <2>1, HasExtremes
<1>3. \E p \in DOMAIN bids : \A q \in DOMAIN bids : q <= p
  BY <1>2 DEF IsSide, IsPrices
<1>. QED BY <1>3 DEF BestBid, IsSide, IsPrices

(* The same of the asks. *)
LEMMA BestAskFacts ==
  IsSide(asks) =>
    \/ BestAsk = None
    \/ /\ BestAsk \in Nat \ {0} /\ BestAsk \in DOMAIN asks
       /\ \A p \in DOMAIN asks : BestAsk <= p
<1> SUFFICES ASSUME IsSide(asks), asks # EmptySide
             PROVE  /\ BestAsk \in Nat \ {0} /\ BestAsk \in DOMAIN asks
                    /\ \A p \in DOMAIN asks : BestAsk <= p
  BY DEF BestAsk
<1>1. DOMAIN asks # {}
  BY DEF IsSide, EmptySide
<1>2. \E p \in DOMAIN asks : \A q \in DOMAIN asks : p <= q
  <2>1. DOMAIN asks \in SUBSET Int /\ IsFiniteSet(DOMAIN asks)
    BY DEF IsSide, IsPrices
  <2>. QED BY <1>1, <2>1, HasExtremes
<1>. QED BY <1>2 DEF BestAsk, IsSide, IsPrices

(* The book's quote is typed and from an uncrossed book. *)
LEMMA BookSourceFacts ==
  BookTyped /\ now \in Nat =>
    \/ BookSource = None
    \/ /\ BookSource \in Source
       /\ ~stale /\ BestBid \in Nat /\ BestAsk \in Nat /\ BestBid < BestAsk /\ ~TooWide
       /\ BookSource.fair = (BestBid + BestAsk) \div 2
       /\ lastTs \in Nat /\ now - lastTs <= StaleAfter
<1> SUFFICES ASSUME BookTyped, now \in Nat, BookSource # None
             PROVE  /\ BookSource \in Source
                    /\ ~stale /\ BestBid \in Nat /\ BestAsk \in Nat /\ BestBid < BestAsk /\ ~TooWide
                    /\ BookSource.fair = (BestBid + BestAsk) \div 2
                    /\ lastTs \in Nat /\ now - lastTs <= StaleAfter
  OBVIOUS
<1>1. ~stale /\ HasMid /\ ~TooOld /\ ~TooWide /\ BookSource = BookMid
  BY DEF BookSource
<1>2. /\ BestBid # None /\ BestAsk # None /\ BestBid < BestAsk
      /\ lastTs \in Nat
  BY <1>1 DEF HasMid, BookTyped
<1>3. BestBid \in Nat \ {0} /\ BestAsk \in Nat \ {0}
  BY <1>2, BestBidFacts, BestAskFacts DEF BookTyped
<1>4. now - lastTs <= StaleAfter
  <2>1. StaleAfter \in Nat
    BY FairPriceAssumption
  <2>. QED BY <1>1, <1>2, <2>1, MarketAssumption DEF TooOld
<1>5. (BestBid + BestAsk) \div 2 \in Nat \ {0}
  BY <1>3
<1>6. BookMid \in Source /\ BookMid.fair = (BestBid + BestAsk) \div 2
  BY <1>2, <1>5 DEF BookMid, Source
<1>. QED BY <1>1, <1>2, <1>3, <1>4, <1>6

(* The notional of some levels is a natural number. *)
LEMMA NotionalType ==
  ASSUME NEW side, IsSide(side), NEW within, within \subseteq DOMAIN side
  PROVE  Notional(side, within) \in Nat
<1> DEFINE f == [p \in DOMAIN side |-> p * side[p]]
<1>1. \A p \in within : f[p] \in Nat
  BY DEF IsSide, IsPrices
<1>2. IsFiniteSet(within)
  BY FS_Subset DEF IsSide, IsPrices
<1>. HIDE DEF f
<1>3. SumFunctionOnSet(f, within) \in Nat
  BY <1>1, <1>2, SumNat
<1>. QED BY <1>3 DEF Notional, f

(* So is the depth. *)
LEMMA DepthType ==
  BookTyped => \A bps : Depth(bps) \in Nat
<1> SUFFICES ASSUME BookTyped, NEW bps
             PROVE  Depth(bps) \in Nat
  OBVIOUS
<1> DEFINE near == {p \in DOMAIN bids : 20000 * p >= (BestBid + BestAsk) * (10000 - bps)}
           close == {p \in DOMAIN asks : 20000 * p <= (BestBid + BestAsk) * (10000 + bps)}
<1>1. Depth(bps) = IF ~HasMid THEN 0 ELSE Notional(bids, near) + Notional(asks, close)
  BY DEF Depth
<1>2. near \subseteq DOMAIN bids /\ close \subseteq DOMAIN asks
  OBVIOUS
<1>. HIDE DEF near, close
<1>3. Notional(bids, near) \in Nat /\ Notional(asks, close) \in Nat
  BY <1>2, NotionalType DEF BookTyped
<1>. QED BY <1>1, <1>3

(* The median of some sources lies between two of them. *)
LEMMA MedianFacts ==
  IsSources(sources) => \A names \in SUBSET DOMAIN sources : names # {} =>
    /\ Median(names) \in Nat
    /\ \E a, b \in names : sources[a].fair <= Median(names) /\ Median(names) <= sources[b].fair
<1> SUFFICES ASSUME IsSources(sources), NEW names \in SUBSET DOMAIN sources, names # {}
             PROVE  /\ Median(names) \in Nat
                    /\ \E a, b \in names : sources[a].fair <= Median(names) /\ Median(names) <= sources[b].fair
  OBVIOUS
<1> DEFINE val == [n \in names |-> sources[n].fair]
           vals == {val[n] : n \in names}
           half(some) == 2 * Cardinality(some) >= Cardinality(names)
           low == {n \in names : half({m \in names : sources[m].fair <= sources[n].fair})}
           high == {n \in names : half({m \in names : sources[m].fair >= sources[n].fair})}
           lows == {sources[n].fair : n \in low}
           highs == {sources[n].fair : n \in high}
<1>1. \A n \in names : val[n] \in Nat /\ val[n] = sources[n].fair
  BY DEF IsSources, Source
<1>2. IsFiniteSet(names) /\ Cardinality(names) \in Nat
  BY FS_Subset, FS_CardinalityType DEF IsSources
<1>. HIDE DEF val
<1>3. IsFiniteSet(vals) /\ vals \in SUBSET Int /\ vals # {}
  <2>1. vals \in SUBSET Int /\ vals # {}
    BY <1>1
  <2>2. IsFiniteSet(vals)
    BY <1>2, ValuesAreFinite
  <2>. QED BY <2>1, <2>2
<1>4. PICK a \in names : \A n \in names : val[a] <= val[n]
  <2>1. \E x \in vals : \A y \in vals : x <= y
    <3>. HIDE DEF vals
    <3>. QED BY <1>3, HasExtremes
  <2>. QED BY <2>1
<1>5. PICK b \in names : \A n \in names : val[b] >= val[n]
  <2>1. \E x \in vals : \A y \in vals : x >= y
    <3>. HIDE DEF vals
    <3>. QED BY <1>3, HasExtremes
  <2>. QED BY <2>1
<1>6. half(names)
  BY <1>2
<1>7. b \in low
  <2>1. {m \in names : sources[m].fair <= sources[b].fair} = names
    BY <1>1, <1>5
  <2>. QED BY <1>6, <2>1
<1>8. a \in high
  <2>1. {m \in names : sources[m].fair >= sources[a].fair} = names
    BY <1>1, <1>4
  <2>. QED BY <1>6, <2>1
<1>9. /\ lows \subseteq vals /\ lows # {}
      /\ highs \subseteq vals /\ highs # {}
  BY <1>1, <1>7, <1>8
<1>10. Median(names) = (Min(lows) + Max(highs)) \div 2
  BY DEF Median
<1>11. Min(lows) \in lows /\ Max(highs) \in highs
  <2>. HIDE DEF lows, highs
  <2>1. lows \in SUBSET Int /\ highs \in SUBSET Int /\ IsFiniteSet(lows) /\ IsFiniteSet(highs)
    <3>. HIDE DEF vals
    <3>. QED BY <1>3, <1>9, FS_Subset
  <2>2. (\E x \in lows : \A y \in lows : x <= y) /\ (\E x \in highs : \A y \in highs : x >= y)
    BY <1>9, <2>1, HasExtremes
  <2>. QED BY <2>2 DEF Min, Max
<1>. HIDE DEF lows, highs
<1>12. /\ Min(lows) \in Nat /\ Max(highs) \in Nat
       /\ val[a] <= Min(lows) /\ Min(lows) <= val[b]
       /\ val[a] <= Max(highs) /\ Max(highs) <= val[b]
  <2>1. \A x \in vals : x \in Nat /\ val[a] <= x /\ x <= val[b]
    BY <1>1, <1>4, <1>5
  <2>. QED BY <1>9, <1>11, <2>1
<1>13. /\ (Min(lows) + Max(highs)) \div 2 \in Nat
       /\ val[a] <= (Min(lows) + Max(highs)) \div 2
       /\ (Min(lows) + Max(highs)) \div 2 <= val[b]
  <2>1. val[a] \in Nat /\ val[b] \in Nat
    BY <1>1
  <2>. QED BY <1>12, <2>1
<1>. QED BY <1>1, <1>10, <1>13

(* So does their mean. *)
LEMMA MeanFacts ==
  IsSources(sources) => \A names \in SUBSET DOMAIN sources : names # {} =>
    /\ Mean(names) \in Nat
    /\ \E a, b \in names : sources[a].fair <= Mean(names) /\ Mean(names) <= sources[b].fair
<1> SUFFICES ASSUME IsSources(sources), NEW names \in SUBSET DOMAIN sources, names # {}
             PROVE  /\ Mean(names) \in Nat
                    /\ \E a, b \in names : sources[a].fair <= Mean(names) /\ Mean(names) <= sources[b].fair
  OBVIOUS
<1> DEFINE f == [n \in names |-> sources[n].fair]
           vals == {f[n] : n \in names}
<1>1. \A n \in names : f[n] \in Nat /\ f[n] = sources[n].fair
  BY DEF IsSources, Source
<1>2. IsFiniteSet(names) /\ Cardinality(names) \in Nat \ {0}
  <2>1. IsFiniteSet(names)
    BY FS_Subset DEF IsSources
  <2>. QED BY <2>1, FS_CardinalityType, FS_EmptySet
<1>3. Mean(names) = SumFunctionOnSet(f, names) \div Cardinality(names)
  BY DEF Mean
<1>. HIDE DEF f
<1>4. IsFiniteSet(vals) /\ vals \in SUBSET Int /\ vals # {}
  <2>1. vals \in SUBSET Int /\ vals # {}
    BY <1>1
  <2>2. IsFiniteSet(vals)
    BY <1>2, ValuesAreFinite
  <2>. QED BY <2>1, <2>2
<1>5. PICK a \in names : \A n \in names : f[a] <= f[n]
  <2>1. \E x \in vals : \A y \in vals : x <= y
    <3>. HIDE DEF vals
    <3>. QED BY <1>4, HasExtremes
  <2>. QED BY <2>1
<1>6. PICK b \in names : \A n \in names : f[b] >= f[n]
  <2>1. \E x \in vals : \A y \in vals : x >= y
    <3>. HIDE DEF vals
    <3>. QED BY <1>4, HasExtremes
  <2>. QED BY <2>1
<1>7. f[a] \in Nat /\ f[b] \in Nat
  BY <1>1
<1>8. f[a] * Cardinality(names) <= SumFunctionOnSet(f, names)
  <2>1. \A n \in names : f[n] \in Int /\ f[n] >= f[a]
    BY <1>1, <1>5
  <2>2. SumFunctionOnSet(f, names) >= f[a] * Cardinality(names)
    BY <1>2, <1>7, <2>1, SumAtLeast
  <2>3. SumFunctionOnSet(f, names) \in Int
    BY <1>2, <2>1, SumType
  <2>. QED BY <1>2, <1>7, <2>2, <2>3
<1>9. SumFunctionOnSet(f, names) <= f[b] * Cardinality(names)
  <2>1. \A n \in names : f[n] \in Int /\ f[n] <= f[b]
    BY <1>1, <1>6
  <2>. QED BY <1>2, <1>7, <2>1, SumAtMost
<1>10. SumFunctionOnSet(f, names) \in Int
  BY <1>1, <1>2, SumType
<1>11. /\ Mean(names) \in Int /\ f[a] <= Mean(names) /\ Mean(names) <= f[b]
  BY <1>2, <1>3, <1>7, <1>8, <1>9, <1>10, QuotientBounds
<1>. QED BY <1>1, <1>7, <1>11

(* A fair price has the fresh sources it needs, and lies between two. *)
LEMMA FairFacts ==
  IsSources(sources) /\ now \in Nat =>
    \/ Fair = None
    \/ /\ Fair \in Nat \ {0}
       /\ IsFiniteSet(Fresh) /\ Cardinality(Fresh) >= MinSources
       /\ \E a, b \in Fresh : sources[a].fair <= Fair /\ Fair <= sources[b].fair
<1> SUFFICES ASSUME IsSources(sources), now \in Nat, Fair # None
             PROVE  /\ Fair \in Nat \ {0}
                    /\ IsFiniteSet(Fresh) /\ Cardinality(Fresh) >= MinSources
                    /\ \E a, b \in Fresh : sources[a].fair <= Fair /\ Fair <= sources[b].fair
  OBVIOUS
<1>1. /\ ~(Cardinality(Accepted) < MinSources)
      /\ Fair = IF UseMedian THEN Median(Accepted) ELSE Mean(Accepted)
  BY DEF Fair
<1>2. Accepted \subseteq Fresh /\ Fresh \subseteq DOMAIN sources
  BY DEF Accepted, Fresh
<1>3. /\ IsFiniteSet(Fresh) /\ Cardinality(Fresh) \in Nat
      /\ IsFiniteSet(Accepted) /\ Cardinality(Accepted) \in Nat /\ Cardinality(Accepted) <= Cardinality(Fresh)
  BY <1>2, FS_Subset, FS_CardinalityType DEF IsSources
<1>4. Cardinality(Accepted) >= MinSources /\ Cardinality(Fresh) >= MinSources /\ Cardinality(Accepted) # 0
  BY <1>1, <1>3, FairPriceAssumption
<1>5. Accepted # {}
  BY <1>4, FS_EmptySet
<1>6. /\ Fair \in Nat
      /\ \E a, b \in Accepted : sources[a].fair <= Fair /\ Fair <= sources[b].fair
  BY <1>1, <1>2, <1>5, MedianFacts, MeanFacts
<1>7. \A a \in Fresh : sources[a].fair \in Nat \ {0}
  BY <1>2 DEF IsSources, Source
<1>. QED BY <1>2, <1>3, <1>4, <1>6, <1>7

(* Of the trades in the window, those of a side sum up to a number. *)
LEMMA TakenType ==
  ASSUME NEW deque \in Seq(Trade), NEW side
  PROVE  Taken(deque, side) \in Nat
<1> DEFINE f == [n \in 1..Len(deque) |-> deque[n].notional]
           S == {n \in 1..Len(deque) : deque[n].side = side}
<1>1. \A n \in S : f[n] \in Nat
  <2>1. \A n \in 1..Len(deque) : deque[n] \in Trade
    OBVIOUS
  <2>. QED BY <2>1 DEF Trade
<1>2. IsFiniteSet(S)
  <2>1. IsFiniteSet(1..Len(deque)) /\ S \subseteq 1..Len(deque)
    BY FS_Interval
  <2>. HIDE DEF S
  <2>. QED BY <2>1, FS_Subset
<1>. HIDE DEF f, S
<1>3. SumFunctionOnSet(f, S) \in Nat
  BY <1>1, <1>2, SumNat
<1>. QED BY <1>3 DEF Taken, f, S

(* The percentages stay within 0 and 100. *)
LEMMA WithinType ==
  ASSUME NEW n \in Int
  PROVE  Within(0, n, 100) \in 0..100
BY DEF Within, MaxOf2, MinOf2

(* Force, activation and its sides are typed. *)
LEMMA ActivationType ==
  BookTyped /\ now \in Nat /\ ShockTyped =>
    /\ Activation \in Nat /\ Direction \in Directions
    /\ \A hit \in Directions : SideActivation(hit) \in Nat
<1> SUFFICES ASSUME BookTyped, now \in Nat, ShockTyped
             PROVE  /\ Activation \in Nat /\ Direction \in Directions
                    /\ \A hit \in Directions : SideActivation(hit) \in Nat
  OBVIOUS
<1>1. ForceRatio \in Nat
  <2>1. Bought \in Nat /\ Sold \in Nat
    BY TakenType DEF ShockTyped, Bought, Sold
  <2>2. MaxOf2(Depth(DepthBps), 1) \in Nat \ {0}
    <3>1. Depth(DepthBps) \in Nat
      BY DepthType
    <3>. QED BY <3>1 DEF MaxOf2
  <2>3. 100 * MaxOf2(Bought, Sold) \in Nat
    BY <2>1 DEF MaxOf2
  <2>. QED BY <2>2, <2>3, QuotientType DEF ForceRatio
<1>2. Raw \in Nat
  <2>1. Temperature \in Nat /\ Threshold \in Nat
    BY ShockAssumption
  <2>2. Temperature * (ForceRatio - Threshold) \in Int
    BY <1>1, <2>1
  <2>3. 50 + (Temperature * (ForceRatio - Threshold)) \div 4 \in Int
    BY <2>2
  <2>. QED BY <2>3, WithinType DEF Raw
<1>3. Activation \in Nat
  <2> SUFFICES ASSUME Fair # None, lastShock # None
               PROVE  Activation \in Nat
    BY DEF Activation
  <2>1. lastShock.ts \in Nat
    BY DEF ShockTyped, Shocked
  <2>2. Raw * (Decay - (now - lastShock.ts)) \in Int /\ Decay \in Nat \ {0}
    BY <1>2, <2>1, ShockAssumption
  <2>3. (Raw * (Decay - (now - lastShock.ts))) \div Decay \in Int
    BY <2>2
  <2>4. Within(0, (Raw * (Decay - (now - lastShock.ts))) \div Decay, 100) \in 0..100
    BY <2>3, WithinType
  <2>. QED BY <2>4 DEF Activation
<1>4. Direction \in Directions
  BY DEF ShockTyped, Shocked, Direction, Directions
<1>5. ASSUME NEW hit \in Directions
      PROVE  SideActivation(hit) \in Nat
  <2>1. OppositeRatio * Activation \in Nat
    BY <1>3, ShockAssumption
  <2>2. (OppositeRatio * Activation) \div 100 \in Nat
    BY <2>1
  <2>. QED BY <1>3, <2>2 DEF SideActivation
<1>. QED BY <1>3, <1>4, <1>5

(* The pipeline's input is what it assumes of it. *)
LEMMA ViewType ==
  DataInv => MarketView \in View
<1> SUFFICES ASSUME DataInv
             PROVE  MarketView \in View
  OBVIOUS
<1>1. now \in Nat /\ BookTyped /\ IsSources(sources) /\ ShockTyped
  BY ClockAssumption DEF DataInv
<1>2. Fair \in Nat \cup {None}
  BY <1>1, FairFacts
<1>3. BestBid \in Nat \cup {None} /\ BestAsk \in Nat \cup {None}
  BY <1>1, BestBidFacts, BestAskFacts DEF BookTyped
<1>4. Depth(20) \in Nat
  BY <1>1, DepthType
<1>5. stale \in BOOLEAN
  BY <1>1 DEF BookTyped
<1>6. /\ Activation \in Nat
      /\ SideActivation("sell_shock") \in Nat /\ SideActivation("buy_shock") \in Nat
  BY <1>1, ActivationType DEF Directions
<1>. QED BY <1>2, <1>3, <1>4, <1>5, <1>6 DEF MarketView, View

(* The invariant is what DataTypeOK says, and more. *)
LEMMA DataInvIsTyped == DataInv => DataTypeOK
BY ViewType DEF DataInv, BookTyped, IsSources, ShockTyped, Source, Shocked, Trade, DataTypeOK

-------------------------------------------------------------------------------
(***************************************************************************)
(* Every event.                                                            *)
(***************************************************************************)
(* It holds before the first event. *)
LEMMA DataInitInv == DataInit => DataInv
<1> SUFFICES ASSUME DataInit
             PROVE  DataInv
  OBVIOUS
<1>. USE DEF DataInit, OrderBookInit, ShockInit
<1>0. IsFiniteSet({})
  BY FS_EmptySet
<1>1. BookTyped
  BY <1>0 DEF BookTyped, IsSide, IsPrices, EmptySide
<1>2. IsSources(sources)
  BY <1>0 DEF IsSources, NoSources
<1>3. ShockTyped /\ now \in 0..MaxTime
  BY ClockAssumption DEF ShockTyped
<1>. QED BY <1>1, <1>2, <1>3 DEF DataInv

(* What a snapshot leaves of a side is one. *)
LEMMA LevelledType ==
  ASSUME NEW side, IsLevels(side)
  PROVE  IsSide(Levelled(side))
<1> DEFINE P == {p \in DOMAIN side : side[p] > 0}
<1>1. IsPrices(P)
  BY FS_Subset DEF IsLevels, IsPrices
<1>2. Levelled(side) = [p \in P |-> side[p]]
  BY DEF Levelled, Restrict
<1>3. \A p \in P : side[p] \in Nat \ {0}
  BY DEF IsLevels
<1>. HIDE DEF P
<1>. QED BY <1>1, <1>2, <1>3 DEF IsSide

(* The same of an update. *)
LEMMA UpdatedType ==
  ASSUME NEW side, IsSide(side), NEW diff, IsLevels(diff)
  PROVE  IsSide(Updated(side, diff))
<1> DEFINE P == (DOMAIN side \ DOMAIN diff) \cup {q \in DOMAIN diff : diff[q] # 0}
           Level(p) == IF p \in DOMAIN diff THEN diff[p] ELSE side[p]
<1>1. IsPrices(P)
  <2>1. IsFiniteSet(DOMAIN side \cup DOMAIN diff)
    BY FS_Union DEF IsSide, IsLevels, IsPrices
  <2>2. P \subseteq DOMAIN side \cup DOMAIN diff /\ P \subseteq Nat \ {0}
    BY DEF IsSide, IsLevels, IsPrices
  <2>. HIDE DEF P
  <2>. QED BY <2>1, <2>2, FS_Subset DEF IsPrices
<1>2. \A p \in P : Level(p) \in Nat \ {0}
  BY DEF IsSide, IsLevels
<1>3. Updated(side, diff) = [p \in P |-> Level(p)]
  BY DEF Updated
<1>. HIDE DEF P, Level
<1>. QED BY <1>1, <1>2, <1>3 DEF IsSide

(* A message of the recording. *)
LEMMA MessageType ==
  ASSUME NEW m \in Snapshots \cup Deltas, NEW seq \in Sequences, NEW ts \in Nat
  PROVE  LET w == [bids |-> m.bids, asks |-> m.asks, seq |-> seq, ts |-> ts]
         IN  /\ IsLevels(w.bids) /\ IsLevels(w.asks)
             /\ w.seq \in Nat \cup {None} /\ w.ts \in Nat
BY MarketDataAssumption

(* A snapshot leaves a typed book. *)
LEMMA SnapshotTypes ==
  ASSUME BookTyped, NEW m, IsLevels(m.bids), IsLevels(m.asks), m.seq \in Nat \cup {None}, m.ts \in Nat,
         ApplySnapshot(m)
  PROVE  BookTyped'
<1>1. bids' = Levelled(m.bids) /\ asks' = Levelled(m.asks)
  BY DEF ApplySnapshot
<1>2. IsSide(bids') /\ IsSide(asks')
  BY <1>1, LevelledType
<1>3. lastSequence' \in Nat \cup {None} /\ lastTs' \in Nat
  BY DEF ApplySnapshot
<1>4. stale' \in BOOLEAN
  BY DEF ApplySnapshot
<1>. QED BY <1>2, <1>3, <1>4, MarketAssumption DEF BookTyped

(* So does an update, taken in or not. *)
LEMMA DeltaTypes ==
  ASSUME BookTyped, NEW m, IsLevels(m.bids), IsLevels(m.asks), m.seq \in Nat \cup {None}, m.ts \in Nat,
         ApplyDelta(m)
  PROVE  BookTyped'
<1>1. CASE Usable(m.seq)
  <2>1. bids' = Updated(bids, m.bids) /\ asks' = Updated(asks, m.asks)
    BY <1>1 DEF ApplyDelta, TakeIn
  <2>2. IsSide(bids') /\ IsSide(asks')
    BY <2>1, UpdatedType DEF BookTyped
  <2>3. lastSequence' \in Nat \cup {None} /\ lastTs' \in Nat /\ stale' = stale
    BY <1>1 DEF ApplyDelta, TakeIn, BookTyped
  <2>. QED BY <2>2, <2>3, MarketAssumption DEF BookTyped
<1>2. CASE ~Usable(m.seq)
  BY <1>2 DEF ApplyDelta, BookTyped
<1>. QED BY <1>1, <1>2

(* What an event says to the fair price engine is at most one quote. *)
Quote(heard) == IsSources(heard) /\ "book" \notin DOMAIN heard

(* Tickers and external quotes say no more, and nothing of the book. *)
LEMMA QuoteTypes ==
  ASSUME NEW ts \in Nat
  PROVE  /\ Quote(NoSources)
         /\ \A t \in Tickers : Quote(TickerSource(t, ts))
         /\ \A q \in Externals : Quote(ExternalSource(q, ts))
<1>1. Quote(NoSources)
  BY FS_EmptySet DEF Quote, IsSources, NoSources
<1>2. ASSUME NEW name \in (OwnNames \cup ExternalNames) \ {"book"}, NEW fair \in Nat \ {0},
             NEW own \in Int
      PROVE  Quote([n \in {name} |-> [fair |-> fair, ts |-> own]])
  <2>1. IsFiniteSet({name})
    BY FS_Singleton
  <2>2. [fair |-> fair, ts |-> own] \in Source
    BY DEF Source
  <2>. QED BY <2>1, <2>2 DEF Quote, IsSources
<1>3. ASSUME NEW t \in Tickers
      PROVE  Quote(TickerSource(t, ts))
  <2>0. ts \in Int
    OBVIOUS
  <2>1. t.buy \in Nat \cup {None} /\ t.sell \in Nat \cup {None} /\ t.last \in Nat \cup {None}
    <3>1. PICK P : P = Nat \cup {None}
      OBVIOUS
    <3>2. t \in [buy : P, sell : P, last : P]
      BY <3>1, MarketDataAssumption
    <3>. QED BY <3>1, <3>2
  <2>2. CASE Quotes(t) /\ Uncrossed(t)
    <3>1. t.buy \in Nat /\ t.sell \in Nat /\ t.buy > 0 /\ t.sell > 0
      BY <2>1, <2>2 DEF Quotes, Uncrossed
    <3>2. (t.buy + t.sell) \div 2 \in Nat \ {0}
      BY <3>1
    <3>3. TickerSource(t, ts) = [n \in {"ticker_mid"} |-> [fair |-> (t.buy + t.sell) \div 2, ts |-> ts]]
      BY <2>2 DEF TickerSource
    <3>4. "ticker_mid" \in (OwnNames \cup ExternalNames) \ {"book"}
      BY DEF OwnNames
    <3>. QED BY <1>2, <2>0, <3>2, <3>3, <3>4
  <2>3. CASE ~(Quotes(t) /\ Uncrossed(t)) /\ t.last # None /\ t.last > 0
    <3>1. t.last \in Nat \ {0}
      BY <2>1, <2>3
    <3>2. TickerSource(t, ts) = [n \in {"ticker_last"} |-> [fair |-> t.last, ts |-> ts]]
      BY <2>3 DEF TickerSource
    <3>3. "ticker_last" \in (OwnNames \cup ExternalNames) \ {"book"}
      BY DEF OwnNames
    <3>. QED BY <1>2, <2>0, <3>1, <3>2, <3>3
  <2>4. CASE ~(Quotes(t) /\ Uncrossed(t)) /\ ~(t.last # None /\ t.last > 0)
    <3>1. TickerSource(t, ts) = NoSources
      BY <2>4 DEF TickerSource
    <3>. QED BY <1>1, <3>1
  <2>. QED BY <2>2, <2>3, <2>4
<1>4. ASSUME NEW q \in Externals
      PROVE  Quote(ExternalSource(q, ts))
  <2>1. q.name \in ExternalNames /\ q.fair \in Nat \cup {None} /\ q.lag \in Int \cup {None}
    <3>1. PICK P, L : P = Nat \cup {None} /\ L = Int \cup {None}
      OBVIOUS
    <3>2. q \in [name : ExternalNames, fair : P, lag : L]
      BY <3>1, MarketDataAssumption
    <3>. QED BY <3>1, <3>2
  <2>2. CASE q.fair # None /\ q.fair > 0
    <3>1. q.fair \in Nat \ {0}
      BY <2>1, <2>2
    <3>2. /\ ExternalSource(q, ts) = [n \in {q.name} |-> [fair |-> q.fair, ts |-> ExternalTime(q, ts)]]
          /\ ExternalTime(q, ts) \in Int
      BY <2>1, <2>2 DEF ExternalSource, ExternalTime
    <3>3. q.name \in (OwnNames \cup ExternalNames) \ {"book"}
      BY <2>1, FairPriceAssumption DEF OwnNames
    <3>. QED BY <1>2, <3>1, <3>2, <3>3
  <2>3. CASE ~(q.fair # None /\ q.fair > 0)
    <3>1. ExternalSource(q, ts) = NoSources
      BY <2>3 DEF ExternalSource
    <3>. QED BY <1>1, <3>1
  <2>. QED BY <2>2, <2>3
<1>. QED BY <1>1, <1>3, <1>4

(* Every event advances the clock, leaves a typed book, and refreshes fair price
   and shock state with at most one quote and at most one trade. *)
Refreshed(heard, prints) ==
  /\ Quote(heard) /\ Advance /\ Refresh(heard, prints)
  /\ prints \in Seq(Trade) /\ \A n \in 1..Len(prints) : prints[n].ts = now'

LEMMA EventShape ==
  ASSUME DataInv, DataNext
  PROVE  /\ BookTyped' /\ now' \in 0..MaxTime /\ now' \in Nat
         /\ \E heard, prints : Refreshed(heard, prints)
<1>0. now' \in 0..MaxTime /\ now' \in Nat
  <2>1. Advance
    BY DEF DataNext, SnapshotEvent, DeltaEvent, PrintEvent, TickerEvent, ExternalEvent, OtherEvent
  <2>. QED BY <2>1, ClockAssumption DEF Advance
<1>1. <<>> \in Seq(Trade) /\ \A n \in 1..Len(<<>>) : <<>>[n].ts = now'
  OBVIOUS
<1>2. Quote(NoSources)
  BY <1>0, QuoteTypes
<1>3. ASSUME UNCHANGED bookVars
      PROVE  BookTyped'
  BY <1>3 DEF bookVars, DataInv, BookTyped
<1>4. CASE \E m \in Snapshots, seq \in Sequences : SnapshotEvent(m, seq)
  <2>1. PICK m \in Snapshots, seq \in Sequences : SnapshotEvent(m, seq)
    BY <1>4
  <2> DEFINE w == [bids |-> m.bids, asks |-> m.asks, seq |-> seq, ts |-> now']
  <2>2. /\ IsLevels(w.bids) /\ IsLevels(w.asks)
        /\ w.seq \in Nat \cup {None} /\ w.ts \in Nat
    BY <1>0, MessageType
  <2>3. ApplySnapshot(w) /\ Advance /\ Refresh(NoSources, <<>>)
    BY <2>1 DEF SnapshotEvent
  <2>. HIDE DEF w
  <2>4. BookTyped'
    BY <2>2, <2>3, SnapshotTypes DEF DataInv
  <2>. QED BY <1>0, <1>1, <1>2, <2>3, <2>4 DEF Refreshed
<1>5. CASE \E m \in Deltas, seq \in Sequences : DeltaEvent(m, seq)
  <2>1. PICK m \in Deltas, seq \in Sequences : DeltaEvent(m, seq)
    BY <1>5
  <2> DEFINE w == [bids |-> m.bids, asks |-> m.asks, seq |-> seq, ts |-> now']
  <2>2. /\ IsLevels(w.bids) /\ IsLevels(w.asks)
        /\ w.seq \in Nat \cup {None} /\ w.ts \in Nat
    BY <1>0, MessageType
  <2>3. ApplyDelta(w) /\ Advance /\ Refresh(NoSources, <<>>)
    BY <2>1 DEF DeltaEvent
  <2>. HIDE DEF w
  <2>4. BookTyped'
    BY <2>2, <2>3, DeltaTypes DEF DataInv
  <2>. QED BY <1>0, <1>1, <1>2, <2>3, <2>4 DEF Refreshed
<1>6. CASE \E t \in Prints : PrintEvent(t)
  <2>1. PICK t \in Prints : PrintEvent(t)
    BY <1>6
  <2>2. PICK print \in Trade : print = [ts |-> now', side |-> t.side, notional |-> t.price * t.amount]
    <3>1. t.side \in Sides /\ t.price \in Nat /\ t.amount \in Nat
      BY MarketDataAssumption
    <3>2. t.price * t.amount \in Nat
      BY <3>1
    <3>. QED BY <1>0, <3>1, <3>2 DEF Trade
  <2>3. /\ UNCHANGED bookVars /\ Advance
        /\ Refresh(NoSources, <<print>>)
    BY <2>1, <2>2 DEF PrintEvent
  <2>4. <<print>> \in Seq(Trade) /\ \A n \in 1..Len(<<print>>) : <<print>>[n].ts = now'
    BY <2>2
  <2>. QED BY <1>0, <1>2, <1>3, <2>3, <2>4 DEF Refreshed
<1>7. CASE \E t \in Tickers : TickerEvent(t)
  <2>1. PICK t \in Tickers : TickerEvent(t)
    BY <1>7
  <2>2. Quote(TickerSource(t, now'))
    BY <1>0, QuoteTypes
  <2>3. /\ UNCHANGED bookVars /\ Advance
        /\ Refresh(TickerSource(t, now'), <<>>)
    BY <2>1 DEF TickerEvent
  <2>. QED BY <1>0, <1>1, <1>3, <2>2, <2>3 DEF Refreshed
<1>8. CASE \E q \in Externals : ExternalEvent(q)
  <2>1. PICK q \in Externals : ExternalEvent(q)
    BY <1>8
  <2>2. Quote(ExternalSource(q, now'))
    BY <1>0, QuoteTypes
  <2>3. /\ UNCHANGED bookVars /\ Advance
        /\ Refresh(ExternalSource(q, now'), <<>>)
    BY <2>1 DEF ExternalEvent
  <2>. QED BY <1>0, <1>1, <1>3, <2>2, <2>3 DEF Refreshed
<1>9. CASE OtherEvent
  <2>1. /\ UNCHANGED bookVars /\ Advance
        /\ Refresh(NoSources, <<>>)
    BY <1>9 DEF OtherEvent
  <2>. QED BY <1>0, <1>1, <1>2, <1>3, <2>1 DEF Refreshed
<1>. QED BY <1>4, <1>5, <1>6, <1>7, <1>8, <1>9 DEF DataNext

(* The book counts as a source exactly as it is now. *)
BookInv ==
  "book" \in DOMAIN sources => BookSource # None /\ sources["book"] = BookSource

(* The sources stay typed, and the book's is put in or taken out. *)
LEMMA HearFacts ==
  ASSUME IsSources(sources), BookTyped', now' \in Nat, NEW heard, Quote(heard), Hear(heard)
  PROVE  IsSources(sources') /\ BookInv'
<1> DEFINE B == IF BookSource' = None THEN {} ELSE {"book"}
           D == ((DOMAIN sources \cup DOMAIN heard) \ {"book"}) \cup B
           Says(n) == IF n = "book" THEN BookSource' ELSE Said(heard, n)
<1>1. sources' = [n \in D |-> Says(n)]
  BY DEF Hear
<1>2. (BookTyped /\ now \in Nat => BookSource = None \/ BookSource \in Source)'
  BY BookSourceFacts, PTL
<1>3. BookSource' = None \/ BookSource' \in Source
  BY <1>2 DEF Source
<1>4. \A n \in D : Says(n) \in Source
  BY <1>3 DEF Said, Quote, IsSources
<1>5. IsFiniteSet(D)
  <2>1. IsFiniteSet((DOMAIN sources \cup DOMAIN heard) \ {"book"})
    BY FS_Union, FS_Difference DEF IsSources, Quote
  <2>2. IsFiniteSet(B)
    BY FS_EmptySet, FS_Singleton
  <2>. QED BY <2>1, <2>2, FS_Union
<1>6. D \subseteq OwnNames \cup ExternalNames
  BY DEF IsSources, Quote, OwnNames
<1>7. IsSources(sources')
  <2>. HIDE DEF D, Says
  <2>. QED BY <1>1, <1>4, <1>5, <1>6 DEF IsSources
<1>8. ASSUME "book" \in DOMAIN sources'
      PROVE  BookSource' # None /\ sources'["book"] = BookSource'
  <2>1. "book" \in D
    BY <1>1, <1>8
  <2>2. sources'["book"] = Says("book")
    BY <1>1, <2>1
  <2>. QED BY <2>1, <2>2
<1>. QED BY <1>7, <1>8 DEF BookInv

(* The shock state remembers trades and a shock. *)
LEMMA ShockFacts ==
  ASSUME ShockTyped, now' \in Nat, NEW prints \in Seq(Trade), Window(prints), Detect
  PROVE  ShockTyped'
<1>1. trades \o prints \in Seq(Trade)
  BY DEF ShockTyped
<1>2. trades' \in Seq(Trade)
  BY <1>1, ExpireType DEF Window
<1>3. lastShock' \in Shocked \cup {None}
  <2>1. Pressure' \in Directions
    BY DEF Pressure, Directions
  <2>. QED BY <2>1 DEF Detect, Shocked, ShockTyped
<1>. QED BY <1>2, <1>3 DEF ShockTyped

(* The invariant is inductive ... *)
LEMMA NextDataInv ==
  ASSUME DataInv, BookInv, [DataNext]_dataVars
  PROVE  DataInv' /\ BookInv'
<1>1. CASE UNCHANGED dataVars
  BY <1>1 DEF dataVars, bookVars, shockVars, DataInv, BookTyped, IsSources, ShockTyped, BookInv,
              BookSource, BookMid, TooOld, TooWide, HasMid, BestBid, BestAsk
<1>2. CASE DataNext
  <2>1. PICK heard, prints : Refreshed(heard, prints)
    BY <1>2, EventShape
  <2>2. BookTyped' /\ now' \in 0..MaxTime /\ now' \in Nat
    BY <1>2, EventShape
  <2>3. IsSources(sources') /\ BookInv'
    BY <2>1, <2>2, HearFacts DEF Refreshed, Refresh, DataInv
  <2>4. ShockTyped'
    BY <2>1, <2>2, ShockFacts DEF Refreshed, Refresh, DataInv
  <2>. QED BY <2>2, <2>3, <2>4 DEF DataInv
<1>. QED BY <1>1, <1>2

(* ... and so always holds. *)
LEMMA DataAlways == DataSpec => [](DataInv /\ BookInv)
<1>1. DataInit => DataInv /\ BookInv
  BY DataInitInv DEF DataInit, NoSources, BookInv
<1>2. DataInv /\ BookInv /\ [DataNext]_dataVars => (DataInv /\ BookInv)'
  BY NextDataInv
<1>. QED BY <1>1, <1>2, PTL DEF DataSpec

-------------------------------------------------------------------------------
(***************************************************************************)
(* The values the state ranges over: what process() reads of book, fair    *)
(* price and shock state is what Pipeline takes for an input.              *)
(***************************************************************************)
THEOREM DataIsTyped == DataSpec => []DataTypeOK
BY DataAlways, DataInvIsTyped, PTL

(***************************************************************************)
(* The book's own quote never outlives the book it came from: it is in     *)
(* while the book is fresh, uncrossed and young, at its present mid.       *)
(***************************************************************************)
THEOREM BookIsCurrent == DataSpec => []BookSourceIsCurrent
<1>1. DataInv /\ BookInv => BookSourceIsCurrent
  BY BookSourceFacts, ClockAssumption DEF DataInv, BookInv, BookSourceIsCurrent
<1>. QED BY <1>1, DataAlways, PTL

(***************************************************************************)
(* No fair price without the number of sources it is configured to need,   *)
(* recent ones, and none outside of what they say: by median or mean.      *)
(***************************************************************************)
THEOREM FairHasSupport == DataSpec => []FairIsSupported
<1>1. DataInv => FairIsSupported
  <2> SUFFICES ASSUME DataInv, Fair # None
               PROVE  LET recent == {n \in DOMAIN sources : sources[n].ts >= now - MaxSourceAge}
                      IN  /\ Cardinality(recent) >= MinSources
                          /\ \E a, b \in recent : sources[a].fair <= Fair /\ Fair <= sources[b].fair
    BY DEF FairIsSupported
  <2>1. now \in Nat /\ MaxSourceAge \in Nat
    BY ClockAssumption, FairPriceAssumption DEF DataInv
  <2>2. \A n \in DOMAIN sources : sources[n].ts \in Int
    BY DEF DataInv, IsSources, Source
  <2>3. {n \in DOMAIN sources : sources[n].ts >= now - MaxSourceAge} = Fresh
    BY <2>1, <2>2 DEF Fresh
  <2>4. /\ Cardinality(Fresh) >= MinSources
        /\ \E a, b \in Fresh : sources[a].fair <= Fair /\ Fair <= sources[b].fair
    BY <2>1, FairFacts DEF DataInv
  <2>. QED BY <2>3, <2>4, Zenon
<1>. QED BY <1>1, DataAlways, PTL

-------------------------------------------------------------------------------
(***************************************************************************)
(* The window, while time does not go back.                                *)
(***************************************************************************)
TapeInv ==
  /\ tape \in Seq(Trade)
  /\ \A n \in 1..Len(tape) : tape[n].ts <= now
  /\ \A m, n \in 1..Len(tape) : m <= n => tape[m].ts <= tape[n].ts

(* The deque is the tape without its first d trades, which are too old. *)
IsWindow(d) ==
  /\ Len(trades) = Len(tape) - d
  /\ \A n \in 1..Len(tape) - d : trades[n] = tape[n + d]
  /\ \A n \in 1..d : now - tape[n].ts > ShockWindow
  /\ \A n \in d + 1..Len(tape) : ~ (now - tape[n].ts > ShockWindow)
WindowInv == TapeInv /\ \E d \in 0..Len(tape) : IsWindow(d)

(* The pressure is the flow of the window. *)
LEMMA TakenIsFlow ==
  ShockTyped /\ now \in Nat /\ WindowInv =>
    \A side \in Sides : Taken(trades, side) = Flow(side, Len(tape), now)
<1> SUFFICES ASSUME ShockTyped, now \in Nat, WindowInv, NEW side \in Sides
             PROVE  Taken(trades, side) = Flow(side, Len(tape), now)
  OBVIOUS
<1>1. PICK d \in 0..Len(tape) : IsWindow(d)
  BY DEF WindowInv
<1>2. /\ trades \in Seq(Trade) /\ Len(trades) \in Nat
      /\ tape \in Seq(Trade) /\ Len(tape) \in Nat /\ d \in Nat /\ ShockWindow \in Nat
  BY ShockAssumption DEF ShockTyped, WindowInv, TapeInv
<1>3. /\ \A n \in 1..Len(trades) : trades[n] \in Trade
      /\ \A n \in 1..Len(tape) : tape[n] \in Trade
  BY <1>2
<1> DEFINE g == [n \in 1..Len(trades) |-> trades[n].notional]
           f == [n \in 1..Len(tape) |-> tape[n].notional]
           S == {n \in 1..Len(trades) : trades[n].side = side}
           R == {n \in 1..Len(tape) : tape[n].side = side /\ tape[n].ts \in now - ShockWindow..now}
<1>4. \A n \in 1..Len(trades) : n + d \in 1..Len(tape) /\ trades[n] = tape[n + d]
  BY <1>1, <1>2 DEF IsWindow
<1>5. R = {n + d : n \in S}
  <2>1. ASSUME NEW n \in S
        PROVE  n + d \in R
    <3>1. n + d \in 1..Len(tape) /\ tape[n + d].side = side /\ n + d \in d + 1..Len(tape)
      BY <1>2, <1>4
    <3>2. tape[n + d].ts \in Nat
      BY <1>3, <3>1 DEF Trade
    <3>3. tape[n + d].ts <= now
      BY <3>1 DEF WindowInv, TapeInv
    <3>4. ~ (now - tape[n + d].ts > ShockWindow)
      BY <1>1, <3>1 DEF IsWindow
    <3>5. tape[n + d].ts \in now - ShockWindow..now
      BY <1>2, <3>2, <3>3, <3>4
    <3>. QED BY <3>1, <3>5
  <2>2. ASSUME NEW n \in R
        PROVE  n - d \in S /\ n = (n - d) + d
    <3>1. tape[n].ts \in Nat /\ tape[n].ts >= now - ShockWindow /\ tape[n].side = side /\ n \in 1..Len(tape)
      BY <1>3 DEF Trade
    <3>2. n \notin 1..d
      <4>1. ~ (now - tape[n].ts > ShockWindow)
        BY <1>2, <3>1
      <4>. QED BY <1>1, <4>1 DEF IsWindow
    <3>3. n - d \in 1..Len(tape) - d /\ n = (n - d) + d
      BY <1>2, <3>1, <3>2
    <3>4. trades[n - d] = tape[(n - d) + d] /\ n - d \in 1..Len(trades)
      BY <1>1, <3>3 DEF IsWindow
    <3>. QED BY <3>1, <3>3, <3>4
  <2>. QED BY <2>1, <2>2
<1>6. S \in SUBSET Int /\ IsFiniteSet(S)
  <2>1. IsFiniteSet(1..Len(trades)) /\ S \subseteq 1..Len(trades)
    BY <1>2, FS_Interval
  <2>2. S \subseteq Int
    OBVIOUS
  <2>. HIDE DEF S
  <2>. QED BY <2>1, <2>2, FS_Subset
<1>7. ASSUME NEW n \in S
      PROVE  g[n] \in Int /\ g[n] = f[n + d]
  <2>1. n \in 1..Len(trades) /\ n + d \in 1..Len(tape) /\ trades[n] = tape[n + d]
    BY <1>4
  <2>2. g[n] = trades[n].notional /\ f[n + d] = tape[n + d].notional
    BY <2>1
  <2>3. trades[n].notional \in Nat
    BY <1>3, <2>1 DEF Trade
  <2>. QED BY <2>1, <2>2, <2>3
<1>. HIDE DEF g, f, S, R
<1>8. SumFunctionOnSet(g, S) = SumFunctionOnSet(f, R)
  <2>1. d \in Int /\ \A n \in S : g[n] \in Int /\ g[n] = f[n + d]
    BY <1>2, <1>7
  <2>2. SumFunctionOnSet(g, S) = SumFunctionOnSet(f, {n + d : n \in S})
    BY ONLY <1>6, <2>1, SumShift
  <2>. QED BY <1>5, <2>2, Zenon
<1>. QED BY <1>8 DEF Taken, Flow, g, f, S, R

(* The tape is written in the order of time, and the window follows it. *)
LEMMA NextTape ==
  ASSUME TapeInv, now \in Nat, now' \in Nat, now <= now', NEW prints \in Seq(Trade),
         \A n \in 1..Len(prints) : prints[n].ts = now', tape' = tape \o prints
  PROVE  TapeInv'
<1>1. /\ tape \in Seq(Trade) /\ Len(tape) \in Nat /\ Len(prints) \in Nat
      /\ tape' \in Seq(Trade) /\ Len(tape') = Len(tape) + Len(prints)
      /\ \A n \in 1..Len(tape) : tape'[n] = tape[n] /\ tape[n] \in Trade
      /\ \A n \in Len(tape) + 1..Len(tape') : tape'[n].ts = now'
  BY DEF TapeInv
<1>2. \A n \in 1..Len(tape) : tape'[n].ts = tape[n].ts /\ tape[n].ts \in Nat /\ tape[n].ts <= now
  BY <1>1 DEF TapeInv, Trade
<1>3. \A n \in 1..Len(tape') : n \in 1..Len(tape) \/ n \in Len(tape) + 1..Len(tape')
  BY <1>1
<1>4. \A n \in 1..Len(tape') : tape'[n].ts <= now' /\ tape'[n].ts \in Nat
  BY <1>1, <1>2, <1>3
<1>5. ASSUME NEW m \in 1..Len(tape'), NEW n \in 1..Len(tape'), m <= n
      PROVE  tape'[m].ts <= tape'[n].ts
  <2>1. CASE n \in 1..Len(tape)
    <3>1. m \in 1..Len(tape)
      BY <1>1, <1>5, <2>1
    <3>2. tape[m].ts <= tape[n].ts
      BY <1>5, <2>1, <3>1 DEF TapeInv
    <3>. QED BY <1>2, <2>1, <3>1, <3>2
  <2>2. CASE n \in Len(tape) + 1..Len(tape')
    <3>1. tape'[n].ts = now'
      BY <1>1, <2>2
    <3>. QED BY <1>4, <3>1
  <2>. QED BY <1>3, <2>1, <2>2
<1>. QED BY <1>1, <1>4, <1>5 DEF TapeInv

(* So does the window. *)
LEMMA NextWindow ==
  ASSUME WindowInv, ShockTyped, now \in Nat, now' \in Nat, now <= now', NEW prints \in Seq(Trade),
         \A n \in 1..Len(prints) : prints[n].ts = now', tape' = tape \o prints, Window(prints)
  PROVE  WindowInv'
<1>1. TapeInv'
  BY NextTape DEF WindowInv
<1>2. PICK d \in 0..Len(tape) : IsWindow(d)
  BY DEF WindowInv
<1> DEFINE q == trades \o prints
<1>3. /\ tape \in Seq(Trade) /\ Len(tape) \in Nat /\ trades \in Seq(Trade) /\ Len(prints) \in Nat
      /\ tape' \in Seq(Trade) /\ Len(tape') = Len(tape) + Len(prints) /\ ShockWindow \in Nat
      /\ \A n \in 1..Len(tape) : tape'[n] = tape[n] /\ tape[n] \in Trade
      /\ \A n \in Len(tape) + 1..Len(tape') : tape'[n] = prints[n - Len(tape)]
      /\ \A n \in 1..Len(tape') : tape'[n] \in Trade
  BY ShockAssumption DEF WindowInv, TapeInv, ShockTyped
<1>4. q \in Seq(Trade) /\ Len(q) = Len(tape') - d
  <2>1. q \in Seq(Trade) /\ Len(q) = Len(trades) + Len(prints)
    BY <1>3
  <2>2. Len(trades) = Len(tape) - d
    BY <1>2 DEF IsWindow
  <2>. QED BY <1>3, <2>1, <2>2
<1>5. ASSUME NEW n \in 1..Len(tape') - d
      PROVE  q[n] = tape'[n + d]
  <2>1. CASE n \in 1..Len(trades)
    <3>1. q[n] = trades[n]
      BY <1>3, <2>1
    <3>2. trades[n] = tape[n + d] /\ n + d \in 1..Len(tape)
      BY <1>2, <1>3, <2>1 DEF IsWindow
    <3>. QED BY <1>3, <3>1, <3>2
  <2>2. CASE n \in Len(trades) + 1..Len(tape') - d
    <3>1. q[n] = prints[n - Len(trades)]
      BY <1>2, <1>3, <2>2 DEF IsWindow
    <3>2. n + d \in Len(tape) + 1..Len(tape') /\ (n + d) - Len(tape) = n - Len(trades)
      BY <1>2, <1>3, <2>2 DEF IsWindow
    <3>. QED BY <1>3, <3>1, <3>2
  <2>. QED BY <1>2, <1>3, <2>1, <2>2 DEF IsWindow
<1>6. trades' = Expire(q, now', ShockWindow)
  BY DEF Window
<1>. HIDE DEF q
<1>7. PICK e \in 0..Len(q) :
        /\ Len(trades') = Len(q) - e
        /\ \A n \in 1..Len(q) - e : trades'[n] = q[n + e]
        /\ \A n \in 1..e : now' - q[n].ts > ShockWindow
        /\ e < Len(q) => ~ (now' - q[e + 1].ts > ShockWindow)
  BY <1>4, <1>6, ExpireTail
<1>8. d + e \in 0..Len(tape') /\ Len(trades') = Len(tape') - (d + e)
  BY <1>3, <1>4, <1>7
<1>9. ASSUME NEW n \in 1..Len(tape') - (d + e)
      PROVE  trades'[n] = tape'[n + (d + e)]
  <2>1. n \in 1..Len(q) - e /\ n + e \in 1..Len(tape') - d /\ (n + e) + d = n + (d + e)
    BY <1>3, <1>4
  <2>. QED BY <1>5, <1>7, <2>1
<1>10. ASSUME NEW n \in 1..d + e
       PROVE  now' - tape'[n].ts > ShockWindow
  <2>1. CASE n \in 1..d
    <3>1. now - tape[n].ts > ShockWindow /\ n \in 1..Len(tape)
      BY <1>2, <2>1 DEF IsWindow
    <3>2. tape'[n].ts = tape[n].ts /\ tape[n].ts \in Nat
      BY <1>3, <3>1 DEF Trade
    <3>. QED BY <1>3, <3>1, <3>2
  <2>2. CASE n \in d + 1..d + e
    <3>1. n - d \in 1..e /\ n - d \in 1..Len(tape') - d /\ (n - d) + d = n
      BY <1>3, <1>4, <2>2
    <3>2. q[n - d] = tape'[n]
      BY <1>5, <3>1
    <3>3. now' - q[n - d].ts > ShockWindow
      BY <1>7, <3>1
    <3>. QED BY <3>2, <3>3
  <2>3. n \in 1..d \/ n \in d + 1..d + e
    BY <1>3, <1>4
  <2>. QED BY <2>1, <2>2, <2>3
<1>11. ASSUME NEW n \in (d + e) + 1..Len(tape')
       PROVE  ~ (now' - tape'[n].ts > ShockWindow)
  <2>1. e < Len(q) /\ e + 1 \in 1..Len(tape') - d /\ (e + 1) + d = (d + e) + 1
    BY <1>3, <1>4
  <2>2. ~ (now' - tape'[(d + e) + 1].ts > ShockWindow)
    BY <1>5, <1>7, <2>1
  <2>3. (d + e) + 1 \in 1..Len(tape') /\ n \in 1..Len(tape') /\ (d + e) + 1 <= n
    BY <1>3, <2>1
  <2>4. tape'[(d + e) + 1].ts <= tape'[n].ts
    BY <1>1, <2>3 DEF TapeInv
  <2>5. tape'[(d + e) + 1].ts \in Nat /\ tape'[n].ts \in Nat
    BY <1>3, <2>3 DEF Trade
  <2>6. \A t, x, y, w \in Nat : ~ (t - x > w) /\ x <= y => ~ (t - y > w)
    OBVIOUS
  <2>. QED BY <1>3, <2>2, <2>4, <2>5, <2>6
<1>12. IsWindow(d + e)'
  BY <1>8, <1>9, <1>10, <1>11 DEF IsWindow
<1>. QED BY <1>1, <1>8, <1>12 DEF WindowInv

-------------------------------------------------------------------------------
(***************************************************************************)
(* The burst the last shock was detected in, while time does not go back.  *)
(***************************************************************************)
Leant(side, other) ==
  \E k \in 0..Len(tape) : Flow(side, k, lastShock.ts) > Flow(other, k, lastShock.ts)
ShockInv ==
  lastShock # None =>
    /\ lastShock.ts <= now
    /\ lastShock.direction = "sell_shock" => Leant("sell", "buy")
    /\ lastShock.direction = "buy_shock" => Leant("buy", "sell")

(* What flowed once stays what it was. *)
LEMMA FlowIsPast ==
  ASSUME tape \in Seq(Trade), NEW prints \in Seq(Trade), tape' = tape \o prints,
         NEW k \in 0..Len(tape), NEW side, NEW s
  PROVE  Flow(side, k, s)' = Flow(side, k, s)
<1> DEFINE f == [n \in 1..Len(tape) |-> tape[n].notional]
           g == [n \in 1..Len(tape') |-> tape'[n].notional]
           S == {n \in 1..k : tape[n].side = side /\ tape[n].ts \in s - ShockWindow..s}
           R == {n \in 1..k : tape'[n].side = side /\ tape'[n].ts \in s - ShockWindow..s}
<1>1. /\ Len(tape) \in Nat /\ Len(tape') \in Nat /\ Len(tape) <= Len(tape') /\ k \in Nat
      /\ \A n \in 1..Len(tape) : tape'[n] = tape[n] /\ tape[n] \in Trade
  OBVIOUS
<1>2. \A n \in 1..k : n \in 1..Len(tape) /\ n \in 1..Len(tape') /\ tape'[n] = tape[n]
  BY <1>1
<1>3. S = R
  BY <1>2
<1>4. \A n \in S : f[n] \in Int /\ f[n] = g[n]
  <2> SUFFICES ASSUME NEW n \in S PROVE f[n] \in Int /\ f[n] = g[n]
    OBVIOUS
  <2>1. n \in 1..Len(tape) /\ n \in 1..Len(tape') /\ tape'[n] = tape[n]
    BY <1>2
  <2>2. f[n] = tape[n].notional /\ g[n] = tape[n].notional
    BY <2>1
  <2>3. tape[n].notional \in Nat
    BY <1>1, <2>1 DEF Trade
  <2>. QED BY <2>2, <2>3
<1>5. IsFiniteSet(S)
  <2>1. IsFiniteSet(1..k) /\ S \subseteq 1..k
    BY <1>1, FS_Interval
  <2>. HIDE DEF S
  <2>. QED BY <2>1, FS_Subset
<1>. HIDE DEF f, g, S, R
<1>6. SumFunctionOnSet(f, S) = SumFunctionOnSet(g, S)
  BY <1>4, <1>5, SumExtensional
<1>7. SumFunctionOnSet(f, S) = SumFunctionOnSet(g, R)
  BY <1>3, <1>6, Zenon
<1>. QED BY <1>7 DEF Flow, f, g, S, R

(* So does the flow the last shock was detected in. *)
LEMMA LeantIsPast ==
  ASSUME tape \in Seq(Trade), NEW prints \in Seq(Trade), tape' = tape \o prints,
         NEW side, NEW other, Leant(side, other), lastShock' = lastShock
  PROVE  Leant(side, other)'
<1>1. PICK k \in 0..Len(tape) : Flow(side, k, lastShock.ts) > Flow(other, k, lastShock.ts)
  BY DEF Leant
<1>2. k \in 0..Len(tape')
  OBVIOUS
<1>3. PICK s : s = lastShock.ts
  OBVIOUS
<1>4. Flow(side, k, s)' = Flow(side, k, s) /\ Flow(other, k, s)' = Flow(other, k, s)
  BY FlowIsPast
<1>5. s = lastShock'.ts
  BY <1>3
<1>6. Flow(side, k, s)' > Flow(other, k, s)'
  BY <1>1, <1>3, <1>4
<1>. QED BY <1>2, <1>5, <1>6 DEF Leant

(* A shock is detected in a window in which takers leaned on its side. *)
LEMMA NextShock ==
  ASSUME ShockInv, ShockTyped, TapeInv, ShockTyped', WindowInv', now \in Nat, now' \in Nat, now <= now',
         NEW prints \in Seq(Trade), tape' = tape \o prints, Detect
  PROVE  ShockInv'
<1>1. CASE lastShock' = lastShock
  <2> SUFFICES ASSUME lastShock # None
               PROVE  /\ lastShock'.ts <= now'
                      /\ lastShock'.direction = "sell_shock" => Leant("sell", "buy")'
                      /\ lastShock'.direction = "buy_shock" => Leant("buy", "sell")'
    BY <1>1 DEF ShockInv
  <2>1. lastShock.ts \in Nat
    BY DEF ShockTyped, Shocked
  <2>2. lastShock'.ts <= now'
    BY <1>1, <2>1 DEF ShockInv
  <2>. QED BY <1>1, <2>2, LeantIsPast DEF ShockInv, TapeInv
<1>2. CASE lastShock' = [ts |-> now', direction |-> Pressure']
  <2>1. lastShock'.ts = now' /\ lastShock'.direction = Pressure'
    BY <1>2
  <2>2. (ShockTyped /\ now \in Nat /\ WindowInv =>
           \A side \in Sides : Taken(trades, side) = Flow(side, Len(tape), now))'
    BY TakenIsFlow, PTL
  <2>3. Bought' = Flow("buy", Len(tape), now)' /\ Sold' = Flow("sell", Len(tape), now)'
    BY <2>2 DEF Bought, Sold, Sides
  <2>4. Len(tape') \in 0..Len(tape')
    BY DEF WindowInv, TapeInv
  <2>5. Pressure' = "sell_shock" => Sold' > Bought'
    BY DEF Pressure
  <2>6. Pressure' = "buy_shock" => Bought' > Sold'
    BY DEF Pressure
  <2>7. Sold' > Bought' => Leant("sell", "buy")'
    BY <2>1, <2>3, <2>4 DEF Leant
  <2>8. Bought' > Sold' => Leant("buy", "sell")'
    BY <2>1, <2>3, <2>4 DEF Leant
  <2>. QED BY <2>1, <2>5, <2>6, <2>7, <2>8 DEF ShockInv
<1>. QED BY <1>1, <1>2 DEF Detect

HistoryInv == WindowInv /\ ShockInv

(* The history of the window and of the shock, at the beginning ... *)
LEMMA DataInitHistory == DataInit => HistoryInv
<1> SUFFICES ASSUME DataInit
             PROVE  HistoryInv
  OBVIOUS
<1>1. tape = <<>> /\ trades = <<>> /\ lastShock = None
  BY DEF DataInit, ShockInit
<1>2. TapeInv
  BY <1>1 DEF TapeInv
<1>3. IsWindow(0)
  BY <1>1 DEF IsWindow
<1>4. 0 \in 0..Len(tape)
  BY <1>1
<1>. QED BY <1>1, <1>2, <1>3, <1>4 DEF HistoryInv, WindowInv, ShockInv

(* ... and from event to event. *)
LEMMA NextHistory ==
  ASSUME TimeSteps \subseteq Nat, DataInv, HistoryInv, [DataNext]_dataVars
  PROVE  HistoryInv'
<1>1. CASE UNCHANGED dataVars
  BY <1>1 DEF dataVars, shockVars, HistoryInv, WindowInv, TapeInv, IsWindow, ShockInv, Leant, Flow
<1>2. CASE DataNext
  <2>1. PICK heard, prints : Refreshed(heard, prints)
    BY <1>2, EventShape
  <2>2. now \in Nat /\ now' \in Nat /\ now <= now'
    <3>1. now \in Nat /\ now' \in Nat
      BY <1>2, EventShape, ClockAssumption DEF DataInv
    <3>. QED BY <2>1, <3>1 DEF Refreshed, Advance
  <2>3. /\ prints \in Seq(Trade) /\ \A n \in 1..Len(prints) : prints[n].ts = now'
        /\ tape' = tape \o prints /\ Window(prints) /\ Detect
    BY <2>1 DEF Refreshed, Refresh
  <2>4. ShockTyped /\ ShockTyped'
    BY <2>2, <2>3, ShockFacts DEF DataInv
  <2>5. WindowInv'
    BY <2>2, <2>3, <2>4, NextWindow DEF HistoryInv
  <2>6. ShockInv'
    BY <2>2, <2>3, <2>4, <2>5, NextShock DEF HistoryInv, WindowInv
  <2>. QED BY <2>5, <2>6 DEF HistoryInv
<1>. QED BY <1>1, <1>2

(* The history is what it says as long as time does not go back. *)
LEMMA HistoryAlways ==
  ASSUME TimeSteps \subseteq Nat
  PROVE  DataSpec => [](DataInv /\ HistoryInv)
<1>1. DataInit => HistoryInv
  BY DataInitHistory
<1>2. DataInv /\ HistoryInv /\ [DataNext]_dataVars => HistoryInv'
  BY NextHistory
<1>. QED BY <1>1, <1>2, DataAlways, PTL DEF DataSpec

(***************************************************************************)
(* The deque is the window: it has lost no trade of the last ShockWindow   *)
(* and kept no older one, as long as no event is dated back.               *)
(***************************************************************************)
THEOREM PressureOfTheWindow ==
  ASSUME TimeSteps \subseteq Nat
  PROVE  DataSpec => []PressureIsTheWindow
<1>1. DataInv /\ HistoryInv => PressureIsTheWindow
  BY TakenIsFlow, ClockAssumption
     DEF DataInv, HistoryInv, PressureIsTheWindow, Bought, Sold, Sides
<1>. QED BY <1>1, HistoryAlways, PTL

(***************************************************************************)
(* A side is active only if, the wait ago or earlier, takers leaned on it  *)
(* in some window, as long as no event is dated back.                      *)
(***************************************************************************)
THEOREM ActivationHasABurst ==
  ASSUME TimeSteps \subseteq Nat
  PROVE  DataSpec => []ActivationFollowsTheBurst
<1>1. DataInv /\ HistoryInv => ActivationFollowsTheBurst
  <2> SUFFICES ASSUME DataInv, HistoryInv, OppositeRatio = 0
               PROVE  /\ MarketView.bidAct > 0 => LeanedOn("sell", "buy")
                      /\ MarketView.askAct > 0 => LeanedOn("buy", "sell")
    BY DEF ActivationFollowsTheBurst
  <2>1. now \in Nat /\ MinWait \in Nat /\ Activation \in Nat
    <3>1. now \in Nat
      BY ClockAssumption DEF DataInv
    <3>2. MinWait \in Nat
      BY ShockAssumption
    <3>. QED BY <3>1, <3>2, ActivationType DEF DataInv
  <2>2. (OppositeRatio * Activation) \div 100 = 0
    BY <2>1
  <2>3. ASSUME NEW hit, SideActivation(hit) > 0
        PROVE  lastShock # None /\ lastShock.direction = hit /\ lastShock.ts \in 0..(now - MinWait)
    <3>1. Direction = hit /\ Direction # "neutral" /\ Activation > 0
      BY <2>2, <2>3 DEF SideActivation
    <3>2. lastShock # None /\ Fair # None /\ lastShock.direction = hit
      BY <3>1 DEF Direction
    <3>3. ~ (now - lastShock.ts < MinWait)
      BY <3>1, <3>2 DEF Activation
    <3>4. lastShock.ts \in Nat
      BY <3>2 DEF DataInv, ShockTyped, Shocked
    <3>. QED BY <2>1, <3>2, <3>3, <3>4
  <2>4. MarketView.bidAct > 0 => LeanedOn("sell", "buy")
    <3> SUFFICES ASSUME SideActivation("sell_shock") > 0
                 PROVE  LeanedOn("sell", "buy")
      BY DEF MarketView
    <3>. QED BY <2>3 DEF HistoryInv, ShockInv, Leant, LeanedOn
  <2>5. MarketView.askAct > 0 => LeanedOn("buy", "sell")
    <3> SUFFICES ASSUME SideActivation("buy_shock") > 0
                 PROVE  LeanedOn("buy", "sell")
      BY DEF MarketView
    <3>. QED BY <2>3 DEF HistoryInv, ShockInv, Leant, LeanedOn
  <2>. QED BY <2>4, <2>5
<1>. QED BY <1>1, HistoryAlways, PTL
===============================================================================
