---------------------------- MODULE StrategyLemmas ----------------------------
(***************************************************************************)
(* What the operators of the strategy modules return, for every value of   *)
(* the constants.                                                          *)
(***************************************************************************)
EXTENDS FillModel, RiskKernel, FoldLemmas

(* The surface has finitely many keys, so every set of keys can be counted. *)
LEMMA KeysAreFinite == IsFiniteSet(Keys) /\ \A S \in SUBSET Keys : IsFiniteSet(S) /\ Cardinality(S) \in Nat
<1>1. IsFiniteSet(Sides)
  <2>1. IsFiniteSet({"buy"}) /\ IsFiniteSet({"sell"})
    BY FS_Singleton
  <2>2. Sides = {"buy"} \cup {"sell"}
    BY DEF Sides
  <2>. QED BY <2>1, <2>2, FS_Union
<1>2. IsFiniteSet(0 .. Levels - 1)
  BY FS_Interval, QuoteSurfaceAssumption
<1>3. IsFiniteSet(Keys)
  BY <1>1, <1>2, FS_Product DEF Keys
<1>. QED BY <1>3, FS_Subset, FS_CardinalityType

(* A key is a side and a level. *)
LEMMA KeyParts ==
  \A k \in Keys : Side(k) \in Sides /\ k[2] \in Nat /\ Rank(k) \in Nat /\ k = <<Side(k), k[2]>>
BY QuoteSurfaceAssumption DEF Keys, Side, Rank, Sides

(* No two keys are emitted at the same place of generate()'s list. *)
LEMMA RankIsInjective == \A j, k \in Keys : Rank(j) = Rank(k) => j = k
BY QuoteSurfaceAssumption DEF Keys, Side, Rank, Sides

(* InventoryState.skew returns a number or nothing. *)
LEMMA SkewType ==
  ASSUME base \in Int, quote \in Int, NEW fair \in Nat \cup {None}
  PROVE  Skew(fair) \in Int \cup {None}
<1>1. CASE fair = None
  BY <1>1 DEF Skew
<1>2. CASE fair \in Nat /\ fair # None
  <2>1. Equity(fair) \in Int
    BY <1>2 DEF Equity
  <2>2. 100 * base * fair \in Int
    BY <1>2
  <2>. QED BY <1>2, <2>1, <2>2, InventoryAssumption DEF Skew
<1>. QED BY <1>1, <1>2

(* generate() quotes some of the keys, at a positive size. *)
LEMMA QuoteType ==
  ASSUME NEW v \in View, NEW skew \in Int \cup {None}
  PROVE  /\ DOMAIN Generate(v, skew) \in SUBSET Keys
         /\ \A k \in DOMAIN Generate(v, skew) :
              /\ Generate(v, skew)[k].price \in Int
              /\ Generate(v, skew)[k].size \in Nat \ {0}
<1> DEFINE z == IF skew = None THEN 0 ELSE skew
<1>1. z \in Int
  OBVIOUS
<1>2. QuotedKeys(v, z) \in SUBSET Keys
  BY DEF QuotedKeys
<1>3. ASSUME NEW k \in QuotedKeys(v, z)
      PROVE  QuotePrice(k, v.fair, z) \in Int /\ FlooredSize(RawSize(k, v, z)) \in Nat \ {0}
  <2>1. k \in Keys /\ v.fair \in Nat /\ Quotable(RawSize(k, v, z))
    BY <1>3 DEF QuotedKeys, View
  <2>2. k[2] \in Int
    BY <2>1, KeyParts
  <2>3. QuotePrice(k, v.fair, z) \in Int
    <3>1. HalfSpread + k[2] * LevelStep \in Int /\ (SkewStrength * z) \div 100 \in Int
      BY <1>1, <2>2, QuoteSurfaceAssumption
    <3>. QED BY <2>1, <3>1 DEF QuotePrice
  <2>4. RawSize(k, v, z) \in Int
    <3> DEFINE act == IF Side(k) = "buy" THEN v.bidAct ELSE v.askAct
               tilt == IF Side(k) = "buy" THEN 100 - SizeSkewStrength * z
                                          ELSE 100 + SizeSkewStrength * z
    <3>1. act \in Int /\ BaseOrderSize \in Int
      BY QuoteSurfaceAssumption DEF View
    <3>2. tilt \in Int
      BY <1>1, QuoteSurfaceAssumption
    <3>3. BaseOrderSize * act * tilt \in Int
      <4> HIDE DEF act, tilt
      <4>. QED BY <3>1, <3>2
    <3>4. 100 * FullActivation \in Nat \ {0}
      BY QuoteSurfaceAssumption
    <3>5. (BaseOrderSize * act * tilt) \div (100 * FullActivation) \in Int
      <4> HIDE DEF act, tilt
      <4>. QED BY <3>3, <3>4
    <3>. QED BY <3>5 DEF RawSize
  <2>5. FlooredSize(RawSize(k, v, z)) \in Int
    <3> DEFINE m == MinOf2(RawSize(k, v, z), MaxOrderSize)
    <3>1. m \in Int
      BY <2>4, MarketAssumption DEF MinOf2
    <3>2. m \div LotSize \in Int
      <4> HIDE DEF m
      <4>. QED BY <3>1, QuoteSurfaceAssumption
    <3>3. (m \div LotSize) * LotSize \in Int
      <4> HIDE DEF m
      <4>. QED BY <3>2, QuoteSurfaceAssumption
    <3>. QED BY <3>3 DEF FlooredSize
  <2>6. FlooredSize(RawSize(k, v, z)) >= MinOrderSize
    BY <2>1 DEF Quotable
  <2>. QED BY <2>3, <2>5, <2>6, QuoteSurfaceAssumption
<1>. QED
  <2>1. Generate(v, skew) = [k \in QuotedKeys(v, z) |->
           [price |-> QuotePrice(k, v.fair, z), size |-> FlooredSize(RawSize(k, v, z))]]
    BY DEF Generate
  <2> HIDE DEF z
  <2>. QED BY <1>2, <1>3, <2>1

(* Numbering a set of keys in the surface's order gives every key a
   number of its own, from 1 to the size of the set. *)
LEMMA UpToFacts ==
  ASSUME NEW S \in SUBSET Keys, NEW j \in Keys, NEW k \in Keys
  PROVE  /\ UpTo(S, k) \in Nat /\ UpTo(S, k) <= Cardinality(S)
         /\ Rank(j) <= Rank(k) => UpTo(S, j) <= UpTo(S, k)
         /\ Rank(j) < Rank(k) /\ k \in S => UpTo(S, j) < UpTo(S, k)
         /\ k \in S => UpTo(S, k) > 0
<1> DEFINE J == {p \in S : Rank(p) <= Rank(j)}
           K == {p \in S : Rank(p) <= Rank(k)}
<1>1. J \in SUBSET S /\ K \in SUBSET S /\ J \in SUBSET Keys /\ K \in SUBSET Keys
  OBVIOUS
<1>2. IsFiniteSet(S) /\ IsFiniteSet(K)
  BY <1>1, KeysAreFinite
<1>3. Cardinality(J) \in Nat /\ Cardinality(K) \in Nat /\ Cardinality(K) <= Cardinality(S)
  BY <1>1, <1>2, KeysAreFinite, FS_Subset
<1>4. UpTo(S, j) = Cardinality(J) /\ UpTo(S, k) = Cardinality(K)
  BY DEF UpTo
<1>5. ASSUME Rank(j) <= Rank(k) PROVE Cardinality(J) <= Cardinality(K)
  <2>1. J \in SUBSET K
    BY <1>5, KeyParts
  <2>. HIDE DEF J, K
  <2>. QED BY <1>2, <2>1, FS_Subset
<1>6. ASSUME Rank(j) < Rank(k), k \in S PROVE Cardinality(J) < Cardinality(K)
  <2>1. J \in SUBSET K /\ J # K
    <3>1. k \in K /\ k \notin J
      BY <1>6, KeyParts
    <3>. QED BY <1>6, <3>1, KeyParts
  <2>. HIDE DEF J, K
  <2>2. Cardinality(J) <= Cardinality(K) /\ Cardinality(J) # Cardinality(K)
    BY <1>2, <2>1, FS_Subset
  <2>. QED BY <1>3, <2>2
<1>7. ASSUME k \in S PROVE Cardinality(K) > 0
  <2>1. {k} \in SUBSET K
    BY <1>7, KeyParts
  <2>. HIDE DEF J, K
  <2>2. Cardinality({k}) = 1
    BY FS_Singleton
  <2>3. Cardinality({k}) <= Cardinality(K)
    BY <1>2, <2>1, FS_Subset
  <2>. QED BY <1>3, <2>2, <2>3
<1>. HIDE DEF J, K
<1>. QED BY <1>3, <1>4, <1>5, <1>6, <1>7

(***************************************************************************)
(* sync() counts a cancel for everything it does not keep.                 *)
(***************************************************************************)
LEMMA CountedApart ==
  ASSUME NEW P, NEW Q, P \subseteq Keys, Q \subseteq Keys, P \cap Q = {}
  PROVE  /\ Cardinality(P) \in Nat /\ Cardinality(Q) \in Nat
         /\ Cardinality(P \cup Q) = Cardinality(P) + Cardinality(Q)
<1>1. IsFiniteSet(P) /\ IsFiniteSet(Q) /\ Cardinality(P) \in Nat /\ Cardinality(Q) \in Nat
  BY KeysAreFinite
<1>2. Cardinality(P \cup Q) = Cardinality(P) + Cardinality(Q) - Cardinality(P \cap Q)
  BY <1>1, FS_Union
<1>3. Cardinality(P \cap Q) = 0
  BY FS_EmptySet
<1>. QED BY <1>1, <1>2, <1>3

(***************************************************************************)
(* What sync() leaves active: kept orders, untouched and still valid, and  *)
(* new ones with distinct ids that the counter had yet to give out.        *)
(***************************************************************************)
QuotesTyped(quotes) ==
  /\ DOMAIN quotes \subseteq Keys
  /\ \A k \in DOMAIN quotes : quotes[k].price \in Int /\ quotes[k].size \in Nat \ {0}

(* sync() keeps some of the active orders as they are and gives every other
   one an id above all that were given out, each a different one. *)
LEMMA SyncFacts ==
  ASSUME ProjectorTypeOK, NEW quotes, QuotesTyped(quotes), NEW v, NEW sides, NEW t \in Int,
         NEW desired, desired = DesiredKeys(quotes, v, sides),
         NEW kept, kept = Kept(quotes, desired, v, sides, t),
         NEW next, next = Synced(quotes, v, sides, t),
         NEW last, last = counter + Cardinality(DOMAIN active \ kept) + Cardinality(desired \ kept)
  PROVE  /\ DOMAIN next = desired /\ desired \subseteq Keys
         /\ kept \subseteq desired /\ kept \subseteq DOMAIN active
         /\ last \in Nat /\ last >= counter
         /\ \A k \in desired : PostOnlySafe(Side(k), next[k].price, v, sides)
         /\ \A k \in kept : next[k] = active[k] /\ t < active[k].expires
         /\ \A k \in desired \ kept : /\ next[k] \in ActiveOrder
                                      /\ next[k].size > 0 /\ next[k].created = t
                                      /\ counter < next[k].id /\ next[k].id <= last
         /\ \A j, k \in desired \ kept : next[j].id = next[k].id => j = k
<1> DEFINE surviving == Surviving(desired, v, sides, t)
           fresh == desired \ kept
           dropped == Cardinality(DOMAIN active \ surviving)
           Id(k) == counter + dropped + UpTo(surviving \ kept, k) + UpTo(fresh, k)
<1>1. /\ desired \subseteq DOMAIN quotes
      /\ \A k \in desired : PostOnlySafe(Side(k), quotes[k].price, v, sides)
  BY DEF DesiredKeys
<1>2. /\ kept \subseteq surviving /\ surviving \subseteq desired /\ surviving \subseteq DOMAIN active
      /\ \A k \in surviving : t < active[k].expires /\ PostOnlySafe(Side(k), active[k].price, v, sides)
  BY DEF Kept, Surviving
<1>3. next = [k \in desired |->
                IF k \in kept THEN active[k]
                ELSE [id |-> Id(k), price |-> quotes[k].price, size |-> quotes[k].size,
                      created |-> t, expires |-> t + QuoteTTL]]
  BY DEF Synced
<1>4. desired \in SUBSET Keys /\ DOMAIN active \in SUBSET Keys /\ counter \in Nat
  BY <1>1 DEF ProjectorTypeOK, QuotesTyped
<1>5. /\ dropped \in Nat /\ Cardinality(surviving \ kept) \in Nat
      /\ Cardinality(DOMAIN active \ kept) = dropped + Cardinality(surviving \ kept)
  <2> DEFINE P == DOMAIN active \ surviving
             Q == surviving \ kept
  <2>1. P \subseteq Keys /\ Q \subseteq Keys /\ P \cap Q = {} /\ DOMAIN active \ kept = P \cup Q
    BY <1>2, <1>4
  <2>2. dropped = Cardinality(P)
    OBVIOUS
  <2>. HIDE DEF P, Q, dropped
  <2>3. /\ Cardinality(P) \in Nat /\ Cardinality(Q) \in Nat
        /\ Cardinality(P \cup Q) = Cardinality(P) + Cardinality(Q)
    BY <2>1, CountedApart
  <2>4. Cardinality(DOMAIN active \ kept) = Cardinality(P \cup Q)
    BY <2>1
  <2>. QED BY <2>2, <2>3, <2>4 DEF Q
<1>6. fresh \in SUBSET Keys /\ surviving \ kept \in SUBSET Keys
  BY <1>2, <1>4
<1>7. Cardinality(fresh) \in Nat
  BY <1>6, KeysAreFinite
<1>8. last = counter + dropped + Cardinality(surviving \ kept) + Cardinality(fresh)
  BY <1>4, <1>5, <1>7
<1>. HIDE DEF surviving, fresh, dropped
<1>9. ASSUME NEW k \in Keys, k \in fresh PROVE Id(k) \in Nat /\ counter < Id(k) /\ Id(k) <= last
  <2>1. /\ UpTo(surviving \ kept, k) \in Nat /\ UpTo(surviving \ kept, k) <= Cardinality(surviving \ kept)
    BY <1>6, UpToFacts
  <2>2. UpTo(fresh, k) \in Nat /\ UpTo(fresh, k) <= Cardinality(fresh) /\ UpTo(fresh, k) > 0
    BY <1>6, <1>9, UpToFacts
  <2>. QED BY <1>4, <1>5, <1>7, <1>8, <2>1, <2>2
<1>10. ASSUME NEW j \in Keys, NEW k \in Keys, k \in fresh, Rank(j) < Rank(k)
       PROVE  Id(j) < Id(k)
  <2>0. Rank(j) <= Rank(k)
    BY <1>10, KeyParts
  <2>1. /\ UpTo(surviving \ kept, j) \in Nat /\ UpTo(surviving \ kept, k) \in Nat
        /\ UpTo(surviving \ kept, j) <= UpTo(surviving \ kept, k)
    BY <1>6, <2>0, UpToFacts
  <2>2. UpTo(fresh, j) \in Nat /\ UpTo(fresh, k) \in Nat /\ UpTo(fresh, j) < UpTo(fresh, k)
    BY <1>6, <1>10, UpToFacts
  <2>. QED BY <1>4, <1>5, <2>1, <2>2
<1>11. ASSUME NEW j \in fresh, NEW k \in fresh, Id(j) = Id(k) PROVE j = k
  <2>1. j \in Keys /\ k \in Keys
    BY <1>6
  <2>2. Rank(j) \in Nat /\ Rank(k) \in Nat /\ (Rank(j) = Rank(k) => j = k)
    BY <2>1, KeyParts, RankIsInjective
  <2>3. Id(j) \in Nat /\ Id(k) \in Nat
    BY <1>9, <2>1
  <2>4. ~(Rank(j) < Rank(k)) /\ ~(Rank(k) < Rank(j))
    <3>1. CASE Rank(j) < Rank(k)
      <4>1. Id(j) < Id(k)
        BY <1>10, <2>1, <3>1
      <4>. HIDE DEF Id
      <4>. QED BY <1>11, <2>3, <4>1
    <3>2. CASE Rank(k) < Rank(j)
      <4>1. Id(k) < Id(j)
        BY <1>10, <2>1, <3>2
      <4>. HIDE DEF Id
      <4>. QED BY <1>11, <2>3, <4>1
    <3>. QED BY <3>1, <3>2
  <2>. QED BY <2>2, <2>4
<1>. HIDE DEF Id
<1>12. \A k \in fresh : next[k] = [id |-> Id(k), price |-> quotes[k].price, size |-> quotes[k].size,
                                  created |-> t, expires |-> t + QuoteTTL]
  BY <1>3 DEF fresh
<1>13. ASSUME NEW k \in fresh
       PROVE  /\ next[k] \in ActiveOrder /\ next[k].size > 0 /\ next[k].created = t
              /\ counter < next[k].id /\ next[k].id <= last
  <2>1. k \in Keys /\ k \in DOMAIN quotes
    BY <1>1, <1>6 DEF fresh
  <2>2. quotes[k].price \in Int /\ quotes[k].size \in Nat /\ quotes[k].size > 0
    BY <2>1 DEF QuotesTyped
  <2>3. t + QuoteTTL \in Int
    BY ProjectorAssumption
  <2>4. Id(k) \in Nat /\ counter < Id(k) /\ Id(k) <= last
    BY <1>9, <2>1
  <2>5. next[k] = [id |-> Id(k), price |-> quotes[k].price, size |-> quotes[k].size,
                   created |-> t, expires |-> t + QuoteTTL]
    BY <1>12
  <2>. QED BY <2>2, <2>3, <2>4, <2>5 DEF ActiveOrder
<1>14. ASSUME NEW j \in fresh, NEW k \in fresh, next[j].id = next[k].id PROVE j = k
  <2>1. next[j] = [id |-> Id(j), price |-> quotes[j].price, size |-> quotes[j].size,
                   created |-> t, expires |-> t + QuoteTTL]
    BY <1>12
  <2>2. next[k] = [id |-> Id(k), price |-> quotes[k].price, size |-> quotes[k].size,
                   created |-> t, expires |-> t + QuoteTTL]
    BY <1>12
  <2>3. next[j].id = Id(j) /\ next[k].id = Id(k)
    BY <2>1, <2>2
  <2>. QED BY <1>11, <1>14, <2>3
<1>15. \A k \in kept : next[k] = active[k] /\ t < active[k].expires
  BY <1>2, <1>3
<1>16. \A k \in desired : PostOnlySafe(Side(k), next[k].price, v, sides)
  BY <1>1, <1>2, <1>3, <1>12, <1>15 DEF fresh
<1>17. last \in Nat /\ last >= counter
  BY <1>4, <1>5, <1>7, <1>8
<1>. QED BY <1>2, <1>3, <1>4, <1>13, <1>14, <1>15, <1>16, <1>17 DEF fresh

(***************************************************************************)
(* A deque expired is a sequence over the same elements.                   *)
(***************************************************************************)
LEMMA ExpireType ==
  ASSUME NEW S, NEW deque \in Seq(S), NEW t, NEW window
  PROVE  Expire(deque, t, window) \in Seq(S)
<1> DEFINE old == {i \in 1..Len(deque) : \A j \in 1..i : t - deque[j].ts > window}
           first == Cardinality(old) + 1
<1>1. Len(deque) \in Nat
  OBVIOUS
<1>2. IsFiniteSet(1..Len(deque))
  BY <1>1, FS_Interval
<1>3. Cardinality(old) \in Nat
  <2>1. old \subseteq 1..Len(deque)
    OBVIOUS
  <2>. HIDE DEF old
  <2>. QED BY <1>2, <2>1, FS_Subset, FS_CardinalityType
<1>4. Expire(deque, t, window) = SubSeq(deque, first, Len(deque))
  BY DEF Expire
<1>. HIDE DEF old
<1>5. first \in Nat /\ first >= 1
  BY <1>3
<1>. HIDE DEF first
<1>6. \A i \in first .. Len(deque) : deque[i] \in S
  BY <1>1, <1>5
<1>7. SubSeq(deque, first, Len(deque)) \in Seq(S)
  BY <1>1, <1>5, <1>6, SubSeqProperties
<1>. QED BY <1>4, <1>7

(***************************************************************************)
(* ... and what is left of it is its tail, in order: all that went was     *)
(* old, and what is first now is young.                                    *)
(***************************************************************************)
LEMMA ExpireTail ==
  ASSUME NEW S, NEW deque \in Seq(S), NEW t, NEW window
  PROVE  \E d \in 0..Len(deque) :
           /\ Len(Expire(deque, t, window)) = Len(deque) - d
           /\ \A i \in 1..Len(deque) - d : Expire(deque, t, window)[i] = deque[i + d]
           /\ \A i \in 1..d : t - deque[i].ts > window
           /\ d < Len(deque) => ~ (t - deque[d + 1].ts > window)
<1> DEFINE Old(i) == t - deque[i].ts > window
           old == {i \in 1..Len(deque) : \A j \in 1..i : Old(j)}
           T == {i \in 1..Len(deque) + 1 : i \notin old}
<1>1. Len(deque) \in Nat
  OBVIOUS
<1>2. Expire(deque, t, window) = SubSeq(deque, Cardinality(old) + 1, Len(deque))
  BY DEF Expire
<1>. HIDE DEF Old
<1>3. PICK x \in T : \A y \in T : x <= y
  <2>1. Len(deque) + 1 \in T /\ T \subseteq Nat
    BY <1>1
  <2>. HIDE DEF T
  <2>. QED BY <2>1, NatMin
<1>4. PICK d \in 0..Len(deque) : d = x - 1
  BY <1>1
<1>5. \A i \in 1..d : i \in old
  BY <1>1, <1>3, <1>4
<1>6. \A i \in 1..d : Old(i)
  BY <1>5
<1>7. d < Len(deque) => ~Old(d + 1)
  <2> SUFFICES ASSUME d < Len(deque), Old(d + 1)
               PROVE  FALSE
    OBVIOUS
  <2>1. \A i \in 1..d + 1 : Old(i)
    BY <1>6
  <2>2. d + 1 \in old
    BY <1>1, <2>1
  <2>. QED BY <1>3, <1>4, <2>2
<1>8. old = 1..d
  <2>1. ASSUME NEW i \in old, i > d
        PROVE  FALSE
    <3>1. d + 1 \in 1..i /\ d < Len(deque)
      BY <1>1, <2>1
    <3>. QED BY <1>7, <2>1, <3>1
  <2>. QED BY <1>5, <2>1
<1>9. Cardinality(old) = d
  <2>1. Cardinality(1..d) = d
    BY FS_Interval
  <2>. QED BY <1>8, <2>1, Zenon
<1>10. /\ Len(SubSeq(deque, d + 1, Len(deque))) = Len(deque) - d
       /\ \A i \in 1..Len(deque) - d : SubSeq(deque, d + 1, Len(deque))[i] = deque[i + d]
  BY <1>1
<1>11. Expire(deque, t, window) = SubSeq(deque, d + 1, Len(deque))
  BY <1>2, <1>9, Zenon
<1>. QED BY <1>6, <1>7, <1>10, <1>11 DEF Old

(***************************************************************************)
(* A fill takes no more than the order has and no more than the flow has   *)
(* left after the queue, and only of an order whose queue is gone.         *)
(***************************************************************************)
LEMMA FillFacts ==
  ASSUME NEW o \in TrackedOrder, flow \in Nat, NEW e, e = Eaten(o, FilledBy(o))
  PROVE  /\ FilledBy(o) \in Nat /\ FilledBy(o) <= o.remaining
         /\ flow - MinOf2(o.queue, flow) - FilledBy(o) \in Nat
         /\ e \in TrackedOrder
         /\ e.side = o.side /\ e.price = o.price /\ e.created = o.created
         /\ e.size = o.size /\ e.expires = o.expires
         /\ e.remaining = o.remaining - FilledBy(o)
         /\ e.queue = o.queue - MinOf2(o.queue, flow)
         /\ e.queue <= o.queue /\ (FilledBy(o) > 0 => e.queue = 0)
<1>1. o.queue \in Nat /\ o.remaining \in Nat
  BY DEF TrackedOrder
<1>2. FilledBy(o) \in Nat /\ FilledBy(o) <= o.remaining /\ MinOf2(o.queue, flow) \in Nat
  BY <1>1 DEF FilledBy, MinOf2
<1>3. /\ flow - MinOf2(o.queue, flow) - FilledBy(o) \in Nat
      /\ o.queue - MinOf2(o.queue, flow) \in Nat
      /\ FilledBy(o) > 0 => MinOf2(o.queue, flow) = o.queue
  BY <1>1 DEF FilledBy, MinOf2
<1>4. e = [o EXCEPT !.queue = o.queue - MinOf2(o.queue, flow), !.remaining = o.remaining - FilledBy(o)]
  BY DEF Eaten
<1>5. o.remaining - FilledBy(o) \in Nat
  BY <1>1, <1>2
<1>6. e \in TrackedOrder
  BY <1>3, <1>4, <1>5 DEF TrackedOrder
<1>7. /\ e.side = o.side /\ e.price = o.price /\ e.created = o.created
      /\ e.size = o.size /\ e.expires = o.expires
      /\ e.remaining = o.remaining - FilledBy(o)
      /\ e.queue = o.queue - MinOf2(o.queue, flow)
  BY <1>4 DEF TrackedOrder
<1>. QED BY <1>1, <1>2, <1>3, <1>6, <1>7

(* A fee is an integer. *)
LEMMA FeeType ==
  ASSUME NEW price \in Int, NEW size \in Int, makerFee \in Int
  PROVE  Fee(price, size) \in Int
<1>1. price * size * makerFee \in Int
  OBVIOUS
<1>. QED BY <1>1, FillModelAssumption DEF Fee

(***************************************************************************)
(* The fill model after sync(): what was neither canceled nor placed is as *)
(* it was, and every new order is tracked under its id with its own terms. *)
(***************************************************************************)
LEMMA SettledFacts ==
  ASSUME NEW orders, NEW kept, NEW visible, NEW after, after = TrackedAfter(orders, kept, visible)
  PROVE  /\ after = [i \in DOMAIN after |-> after[i]]
         /\ \A i : i \in DOMAIN after <=>
              \/ i \in DOMAIN tracked /\ \A k \in DOMAIN active \ kept : active[k].id # i
              \/ \E k \in DOMAIN orders \ kept : orders[k].id = i
         /\ \A i \in DOMAIN after :
              \/ /\ i \in DOMAIN tracked /\ after[i] = tracked[i]
                 /\ \A k \in DOMAIN orders \ kept : orders[k].id # i
              \/ \E k \in DOMAIN orders \ kept :
                   orders[k].id = i /\ after[i] = Track(k, orders[k], visible[k])
<1> DEFINE fresh    == {orders[k].id : k \in DOMAIN orders \ kept}
           canceled == {active[k].id : k \in DOMAIN active \ kept}
           Key(i)   == CHOOSE k \in DOMAIN orders \ kept : orders[k].id = i
           placed   == Placed(orders, kept, visible)
<1>1. placed = [i \in fresh |-> Track(Key(i), orders[Key(i)], visible[Key(i)])]
  BY DEF Placed
<1>2. \A i \in fresh : Key(i) \in DOMAIN orders \ kept /\ orders[Key(i)].id = i
  OBVIOUS
<1>3. after = [i \in (DOMAIN tracked \ canceled) \cup DOMAIN placed |->
                 IF i \in DOMAIN placed THEN placed[i] ELSE tracked[i]]
  BY DEF TrackedAfter, Settled
<1>4. /\ \A i : i \in fresh <=> \E k \in DOMAIN orders \ kept : orders[k].id = i
      /\ \A i : i \in canceled <=> \E k \in DOMAIN active \ kept : active[k].id = i
  OBVIOUS
<1>. HIDE DEF fresh, canceled, Key, placed
<1>5. DOMAIN placed = fresh
  BY <1>1
<1>6. /\ after = [i \in DOMAIN after |-> after[i]]
      /\ DOMAIN after = (DOMAIN tracked \ canceled) \cup fresh
      /\ \A i \in DOMAIN after \ fresh : i \in DOMAIN tracked /\ after[i] = tracked[i]
      /\ \A i \in fresh : after[i] = placed[i]
  BY <1>3, <1>5
<1>7. ASSUME NEW i \in fresh
      PROVE  \E k \in DOMAIN orders \ kept : orders[k].id = i /\ after[i] = Track(k, orders[k], visible[k])
  <2>1. after[i] = Track(Key(i), orders[Key(i)], visible[Key(i)])
    BY <1>1, <1>6
  <2>. QED BY <1>2, <2>1
<1>8. \A i \in DOMAIN after :
         \/ /\ i \in DOMAIN tracked /\ after[i] = tracked[i]
            /\ \A k \in DOMAIN orders \ kept : orders[k].id # i
         \/ \E k \in DOMAIN orders \ kept :
              orders[k].id = i /\ after[i] = Track(k, orders[k], visible[k])
  BY <1>4, <1>6, <1>7
<1>. QED BY <1>4, <1>6, <1>8

(* After sync()'s events the fill model holds the old orders that were not
   canceled and the placed ones, behind their queue. *)
LEMMA TrackFacts ==
  ASSUME NEW k \in Keys, NEW o \in ActiveOrder, NEW n \in Nat, NEW t, t = Track(k, o, n)
  PROVE  /\ t \in TrackedOrder /\ t.side = Side(k) /\ t.price = o.price /\ t.created = o.created
         /\ t.size = o.size /\ t.remaining = o.size /\ t.expires = o.expires
<1>1. Side(k) \in Sides
  BY KeyParts
<1>2. o.size \in Nat
  BY DEF ActiveOrder
<1>3. n * QueueMultiplier \in Nat /\ o.size * QueueMultiplier \in Nat
  BY <1>2, FillModelAssumption
<1>4. MaxOf2(n * QueueMultiplier, o.size * QueueMultiplier) \in Nat
  BY <1>3 DEF MaxOf2
<1>. HIDE DEF MaxOf2
<1>. QED BY <1>1, <1>4 DEF Track, TrackedOrder, ActiveOrder

(***************************************************************************)
(* Risk's memory keeps its type.                                           *)
(***************************************************************************)
LEMMA RecordFillType ==
  ASSUME RiskTypeOK, NEW side \in Sides, NEW ts \in Int, NEW price \in Int, NEW size \in Int,
         RecordFill(side, ts, price, size)
  PROVE  RiskTypeOK'
<1> DEFINE Burst == [ts : Int, side : Sides]
           Notional == [ts : Int, side : Sides, notional : Int]
           grown == Append(fillHistory, [ts |-> ts, side |-> side])
           history == Expire(grown, ts, BurstWindow)
           change == [ts |-> ts, side |-> side, notional |-> MaxOf2(0, price * size)]
<1>1. history \in Seq(Burst)
  <2>1. [ts |-> ts, side |-> side] \in Burst /\ fillHistory \in Seq(Burst)
    BY DEF RiskTypeOK
  <2>. HIDE DEF Burst
  <2>2. grown \in Seq(Burst)
    BY <2>1, AppendProperties
  <2>. HIDE DEF grown
  <2>. QED BY <2>2, ExpireType
<1>2. fillHistory' \in Seq(Burst)
  BY <1>1 DEF RecordFill, RiskTypeOK
<1>3. inventoryChanges' \in Seq(Notional)
  <2>1. MaxOf2(0, price * size) \in Int
    <3>1. price * size \in Int
      OBVIOUS
    <3>. QED BY <3>1 DEF MaxOf2
  <2>2. change \in Notional /\ inventoryChanges \in Seq(Notional)
    BY <2>1 DEF RiskTypeOK
  <2>3. inventoryChanges' = Append(inventoryChanges, change)
    BY DEF RecordFill
  <2>. HIDE DEF Notional, change
  <2>. QED BY <2>2, <2>3, AppendProperties
<1>4. DOMAIN cooldownUntil' \subseteq Sides /\ cooldownUntil' \in [DOMAIN cooldownUntil' -> Int]
  <2>1. \/ cooldownUntil' = cooldownUntil
        \/ cooldownUntil' = [s \in DOMAIN cooldownUntil \cup {side} |->
                               IF s = side THEN ts + BurstCooldown ELSE cooldownUntil[s]]
    BY DEF RecordFill
  <2>2. ts + BurstCooldown \in Int
    BY RiskAssumption
  <2>. QED BY <2>1, <2>2 DEF RiskTypeOK
<1>. QED BY <1>2, <1>3, <1>4 DEF RecordFill, RiskTypeOK

(* evaluate() leaves well formed histories and cooldowns. *)
LEMMA EvaluateType ==
  ASSUME RiskTypeOK, NEW v \in View, NEW spec, NEW status, NEW t \in Int,
         Evaluate(v, spec, status, t)
  PROVE  RiskTypeOK'
<1>1. CASE HardBlocked(v, spec, status, t)
  BY <1>1 DEF Evaluate, riskVars, RiskTypeOK
<1>2. CASE ~HardBlocked(v, spec, status, t)
  <2> DEFINE Fair == [ts : Int, fair : Nat]
             Notional == [ts : Int, side : Sides, notional : Int]
             grown == Append(fairHistory, [ts |-> t, fair |-> v.fair])
  <2>1. v.fair \in Nat
    BY <1>2 DEF HardBlocked, View
  <2>2. fairHistory' \in Seq(Fair)
    <3>1. [ts |-> t, fair |-> v.fair] \in Fair /\ fairHistory \in Seq(Fair)
      BY <2>1 DEF RiskTypeOK
    <3>2. fairHistory' = Expire(grown, t, LongHorizon)
      BY <1>2 DEF Evaluate
    <3>. HIDE DEF Fair
    <3>3. grown \in Seq(Fair)
      BY <3>1, AppendProperties
    <3>. HIDE DEF grown
    <3>. QED BY <3>2, <3>3, ExpireType
  <2>3. inventoryChanges' \in Seq(Notional)
    <3>1. inventoryChanges \in Seq(Notional)
      BY DEF RiskTypeOK
    <3>2. inventoryChanges' = inventoryChanges
            \/ inventoryChanges' = Expire(inventoryChanges, t, OneSideWindow)
      BY <1>2 DEF Evaluate
    <3>. HIDE DEF Notional
    <3>. QED BY <3>1, <3>2, ExpireType
  <2>4. cooldownUntil' = [s \in BurstBlocked(t) |-> cooldownUntil[s]]
        /\ BurstBlocked(t) \subseteq DOMAIN cooldownUntil
    BY <1>2 DEF Evaluate, BurstBlocked
  <2>. QED BY <1>2, <2>2, <2>3, <2>4 DEF Evaluate, RiskTypeOK
<1>. QED BY <1>1, <1>2

===============================================================================
