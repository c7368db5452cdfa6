---------------------------- MODULE RecordingProofs ----------------------------
(***************************************************************************)
(* What the tools say of a recording, for recordings of every length and   *)
(* all splits: the strict sequence assertion and the inspection compare    *)
(* neighbours, and mean all pairs; sorting, splitting and growth keep what *)
(* holds of all pairs.                                                     *)
(***************************************************************************)
EXTENDS Recordings, FoldLemmas

-------------------------------------------------------------------------------
(***************************************************************************)
(* Orders: ByRank lists a finite set in a strict total order.              *)
(***************************************************************************)
StrictOrder(S, R) ==
  /\ \A x \in S : <<x, x>> \notin R
  /\ \A x, y, z \in S : <<x, y>> \in R /\ <<y, z>> \in R => <<x, z>> \in R
  /\ \A x, y \in S : x = y \/ <<x, y>> \in R \/ <<y, x>> \in R
Below(S, R, x) == {y \in S : <<y, x>> \in R}

(* The element with n below it, for every n less than the size of the set. *)
LEMMA Ranks ==
  ASSUME NEW S, IsFiniteSet(S), NEW R, StrictOrder(S, R)
  PROVE  /\ Cardinality(S) \in Nat
         /\ \A x \in S : Cardinality(Below(S, R, x)) \in 0..(Cardinality(S) - 1)
         /\ \A x, y \in S : <<x, y>> \in R => Cardinality(Below(S, R, x)) < Cardinality(Below(S, R, y))
         /\ \A n \in 0..(Cardinality(S) - 1) : \E x \in S : Cardinality(Below(S, R, x)) = n
<1> DEFINE N == Cardinality(S)
           rank(x) == Cardinality(Below(S, R, x))
<1>0. \A T \in SUBSET S : IsFiniteSet(T) /\ Cardinality(T) \in Nat /\ Cardinality(T) <= N
  BY FS_Subset, FS_CardinalityType
<1>1. N \in Nat
  BY <1>0
<1>2. ASSUME NEW x \in S, NEW T \in SUBSET S, Below(S, R, x) \cup {x} \subseteq T
      PROVE  rank(x) \in Nat /\ rank(x) + 1 <= Cardinality(T)
  <2> DEFINE B == Below(S, R, x)
  <2>1. x \notin B /\ B \in SUBSET S
    BY DEF StrictOrder, Below
  <2>2. IsFiniteSet(B) /\ Cardinality(B) \in Nat /\ IsFiniteSet(T)
    BY <1>0, <2>1
  <2>3. Cardinality(B \cup {x}) = Cardinality(B) + 1
    BY <2>1, <2>2, FS_AddElement
  <2>4. Cardinality(B \cup {x}) <= Cardinality(T)
    BY <1>2, <2>2, FS_Subset
  <2>. QED BY <2>2, <2>3, <2>4
<1>3. ASSUME NEW x \in S
      PROVE  rank(x) \in 0..(N - 1)
  <2>1. Below(S, R, x) \cup {x} \subseteq S
    BY DEF Below
  <2>2. rank(x) \in Nat /\ rank(x) + 1 <= N
    BY <1>2, <2>1
  <2>. QED BY <1>1, <2>2
<1>4. ASSUME NEW x \in S, NEW y \in S, <<x, y>> \in R
      PROVE  rank(x) < rank(y)
  <2>1. Below(S, R, x) \cup {x} \subseteq Below(S, R, y) /\ Below(S, R, y) \in SUBSET S
    BY <1>4 DEF StrictOrder, Below
  <2>2. rank(x) \in Nat /\ rank(x) + 1 <= rank(y)
    BY <1>2, <2>1
  <2>3. rank(y) \in Nat
    BY <1>0, <2>1
  <2>. QED BY <2>2, <2>3
<1> DEFINE r == [x \in S |-> rank(x)]
           ranks == 0..(N - 1)
<1>. HIDE DEF rank, N
<1>5. ASSUME NEW x \in S, NEW y \in S, rank(x) = rank(y)
      PROVE  x = y
  <2>1. ~ (rank(x) < rank(y)) /\ ~ (rank(y) < rank(x))
    BY <1>1, <1>3, <1>5
  <2>2. <<x, y>> \notin R /\ <<y, x>> \notin R
    BY <1>4, <2>1
  <2>. QED BY <2>2 DEF StrictOrder
<1>6. r \in Injection(S, ranks)
  BY <1>3, <1>5 DEF Injection, IsInjective
<1>7. IsFiniteSet(ranks) /\ Cardinality(ranks) = N
  <2>1. IsFiniteSet(ranks) /\ Cardinality(ranks) = IF 0 > N - 1 THEN 0 ELSE N - 1 - 0 + 1
    BY <1>1, FS_Interval
  <2>. QED BY <1>1, <2>1
<1>8. r \in Surjection(S, ranks)
  <2>. HIDE DEF r, ranks
  <2>1. Cardinality(S) = Cardinality(ranks) <=> r \in Surjection(S, ranks)
    BY <1>6, <1>7, FS_Injection
  <2>. QED BY <1>7, <2>1 DEF N
<1>9. \A n \in ranks : \E x \in S : r[x] = n
  BY <1>8 DEF Surjection
<1>. QED BY <1>1, <1>3, <1>4, <1>9 DEF rank, N

(* ByRank lists the set, each element before those it precedes. *)
LEMMA RankedList ==
  ASSUME NEW S, IsFiniteSet(S), NEW R, StrictOrder(S, R)
  PROVE  /\ Cardinality(S) \in Nat
         /\ ByRank(S, R) \in [1..Cardinality(S) -> S]
         /\ \A x \in S : \E n \in 1..Cardinality(S) : ByRank(S, R)[n] = x
         /\ \A m, n \in 1..Cardinality(S) : m < n => <<ByRank(S, R)[m], ByRank(S, R)[n]>> \in R
<1> DEFINE N == Cardinality(S)
           rank(x) == Cardinality(Below(S, R, x))
           order == ByRank(S, R)
<1>1. /\ N \in Nat /\ \A x \in S : rank(x) \in 0..(N - 1)
      /\ \A x, y \in S : <<x, y>> \in R => rank(x) < rank(y)
      /\ \A n \in 0..(N - 1) : \E x \in S : rank(x) = n
  BY Ranks
<1>2. order = [n \in 1..N |-> CHOOSE x \in S : rank(x) = n - 1]
  BY DEF ByRank, Below
<1>. HIDE DEF order, rank, N
<1>3. ASSUME NEW n \in 1..N
      PROVE  order[n] \in S /\ rank(order[n]) = n - 1
  <2>1. n - 1 \in 0..(N - 1)
    BY <1>1
  <2>2. \E x \in S : rank(x) = n - 1
    BY <1>1, <2>1
  <2>. QED BY <1>2, <2>2
<1>4. order \in [1..N -> S]
  BY <1>2, <1>3
<1>5. ASSUME NEW m \in 1..N, NEW n \in 1..N, m < n
      PROVE  <<order[m], order[n]>> \in R
  <2>1. /\ order[m] \in S /\ rank(order[m]) = m - 1
        /\ order[n] \in S /\ rank(order[n]) = n - 1
    BY <1>3
  <2>2. m \in Int /\ n \in Int /\ m < n
    BY <1>1, <1>5
  <2>3. order[m] # order[n]
    BY <2>1, <2>2
  <2>4. <<order[n], order[m]>> \notin R
    BY <1>1, <2>1, <2>2
  <2>. QED BY <2>1, <2>3, <2>4 DEF StrictOrder
<1>6. ASSUME NEW x \in S
      PROVE  \E n \in 1..N : order[n] = x
  <2>1. rank(x) + 1 \in 1..N
    BY <1>1
  <2> DEFINE n == rank(x) + 1
  <2>2. /\ order[n] \in S /\ rank(order[n]) = rank(x)
    BY <1>1, <1>3, <2>1
  <2>. HIDE DEF n
  <2>3. ~ (rank(x) < rank(order[n])) /\ ~ (rank(order[n]) < rank(x))
    BY <1>1, <2>2
  <2>4. order[n] = x
    BY <1>1, <2>2, <2>3 DEF StrictOrder
  <2>. QED BY <2>1, <2>4 DEF n
<1>. QED BY <1>1, <1>4, <1>5, <1>6 DEF order, N

-------------------------------------------------------------------------------
(***************************************************************************)
(* Lines of a recording, or of a part of one.                              *)
(***************************************************************************)
AKind == Depth \cup MetadataKinds \cup {"failed", "trade"}
ASequence == 0..(Limit - 1) \cup {None}
Line == [kind : AKind, ts : Int, seq : ASequence, fair : Nat \cup {None}]

(* The greatest of some positions. *)
LEMMA Greatest ==
  ASSUME NEW n \in Nat, NEW T, T \subseteq 1..n, T # {}
  PROVE  Max(T) \in T /\ \A y \in T : y <= Max(T)
<1>1. IsFiniteSet(T)
  <2>1. IsFiniteSet(1..n)
    BY FS_Interval
  <2>. QED BY <2>1, FS_Subset
<1>2. \E x \in T : \A y \in T : x >= y
  <2>1. T \in SUBSET Int
    OBVIOUS
  <2>. QED BY <1>1, <2>1, HasExtremes
<1>3. PICK x : x = Max(T)
  OBVIOUS
<1>4. x \in T /\ \A y \in T : x >= y
  BY <1>2, <1>3 DEF Max
<1>. QED BY <1>3, <1>4

(* The least of some integers. *)
LEMMA Least ==
  ASSUME NEW T, T \subseteq Int, T # {}, IsFiniteSet(T)
  PROVE  Min(T) \in T /\ \A y \in T : Min(T) <= y
<1>1. \E x \in T : \A y \in T : x <= y
  BY HasExtremes
<1>. QED BY <1>1 DEF Min

(* The greatest of some integers. *)
LEMMA GreatestInt ==
  ASSUME NEW T, T \subseteq Int, T # {}, IsFiniteSet(T)
  PROVE  Max(T) \in T /\ \A y \in T : y <= Max(T)
<1>1. \E x \in T : \A y \in T : x >= y
  BY HasExtremes
<1>2. PICK x : x = Max(T)
  OBVIOUS
<1>3. x \in T /\ \A y \in T : x >= y
  BY <1>1, <1>2 DEF Max
<1>. QED BY <1>2, <1>3

-------------------------------------------------------------------------------
(***************************************************************************)
(* Strict replay compares an event with the one before it in its stream.   *)
(* That is to say of all pairs of a stream that they are in sequence.      *)
(***************************************************************************)
Comparable(e, f) == e.seq # None /\ f.seq # None /\ Stream(e) = Stream(f)
InSequence(events) ==
  \A i, j \in DOMAIN events :
    j < i /\ Comparable(events[j], events[i]) => events[j].seq <= events[i].seq

(* The comparison of neighbours in each stream compares all pairs of it. *)
LEMMA AcceptedIsInSequence ==
  ASSUME NEW events \in Seq(Line)
  PROVE  Accepted(events) <=> InSequence(events)
<1>. None \notin Int
  BY RecordingToolsAssumption
<1>0. /\ Len(events) \in Nat /\ DOMAIN events = 1..Len(events)
      /\ \A i \in DOMAIN events : events[i] \in Line
  OBVIOUS
<1>1. \A i \in DOMAIN events : events[i].seq # None => events[i].seq \in Int
  BY <1>0, RecordingToolsAssumption DEF Line, ASequence
<1>2. ASSUME NEW i \in DOMAIN events
      PROVE  /\ Numbered(events, i) \subseteq 1..(i - 1) /\ i - 1 \in Nat
             /\ Numbered(events, i) = {j \in DOMAIN events :
                   j < i /\ events[j].seq # None /\ Stream(events[j]) = Stream(events[i])}
  BY <1>0 DEF Numbered
<1>3. ASSUME NEW i \in DOMAIN events, Numbered(events, i) # {}
      PROVE  /\ Max(Numbered(events, i)) \in Numbered(events, i)
             /\ \A j \in Numbered(events, i) : j <= Max(Numbered(events, i))
  BY <1>2, <1>3, Greatest
<1>4. ASSUME InSequence(events)
      PROVE  Accepted(events)
  <2> SUFFICES ASSUME NEW i \in Rejected(events) PROVE FALSE
    BY DEF Accepted
  <2>1. /\ i \in DOMAIN events /\ events[i].seq # None /\ Numbered(events, i) # {}
        /\ events[i].seq < events[Max(Numbered(events, i))].seq
    BY DEF Rejected
  <2>2. PICK m : m = Max(Numbered(events, i))
    OBVIOUS
  <2>3. /\ m \in DOMAIN events /\ m < i /\ events[m].seq # None
        /\ Stream(events[m]) = Stream(events[i])
    BY <1>2, <1>3, <2>1, <2>2
  <2>4. events[m].seq <= events[i].seq
    BY <1>4, <2>1, <2>3 DEF InSequence, Comparable
  <2>. QED BY <1>1, <2>1, <2>2, <2>3, <2>4
<1>5. ASSUME Accepted(events)
      PROVE  InSequence(events)
  <2> DEFINE Bad(j, i) == /\ j < i /\ Comparable(events[j], events[i])
                          /\ events[i].seq < events[j].seq
             T == {i \in DOMAIN events : \E j \in DOMAIN events : Bad(j, i)}
  <2>1. T = {} => InSequence(events)
    BY <1>1 DEF InSequence, Comparable
  <2> SUFFICES ASSUME T # {} PROVE FALSE
    BY <2>1
  <2>2. PICK i \in T : \A k \in T : i <= k
    <3>1. T \subseteq Nat
      BY <1>0
    <3>. QED BY <3>1, NatMin
  <2>3. PICK j \in DOMAIN events : Bad(j, i)
    OBVIOUS
  <2>4. i \in DOMAIN events /\ j \in Numbered(events, i)
    BY <1>2, <2>3 DEF Comparable
  <2>5. PICK m : m = Max(Numbered(events, i))
    OBVIOUS
  <2>6. /\ m \in DOMAIN events /\ m < i /\ events[m].seq # None /\ j <= m
        /\ Stream(events[m]) = Stream(events[i])
    BY <1>2, <1>3, <2>4, <2>5
  <2>7. /\ events[i].seq \in Int /\ events[j].seq \in Int /\ events[m].seq \in Int
        /\ i \in Int /\ j \in Int /\ m \in Int
    BY <1>0, <1>1, <2>3, <2>4, <2>6 DEF Comparable
  <2>8. events[m].seq <= events[i].seq
    <3>1. i \notin Rejected(events)
      BY <1>5 DEF Accepted
    <3>2. ~ (events[i].seq < events[m].seq)
      BY <2>3, <2>4, <2>5, <3>1 DEF Rejected, Comparable
    <3>. QED BY <2>7, <3>2
  <2>9. j # m
    BY <2>3, <2>7, <2>8
  <2>10. Bad(j, m)
    BY <2>3, <2>6, <2>7, <2>8, <2>9 DEF Comparable
  <2>. QED BY <2>2, <2>6, <2>7, <2>10
<1>. QED BY <1>4, <1>5

-------------------------------------------------------------------------------
(***************************************************************************)
(* The sort by exchange time.                                              *)
(***************************************************************************)
SortOrder(events) == {pair \in (DOMAIN events) \X (DOMAIN events) :
                        Precedes(events, pair[1], pair[2])}

(* A sequence has a number of zeros to pad it with. *)
LEMMA ScaleType ==
  ASSUME NEW seq \in ASequence
  PROVE  /\ Scale(seq) \in Nat /\ Padded(seq) \in Nat
         /\ seq # None => Scale(seq) > 0 /\ Padded(seq) = seq * Scale(seq)
<1>1. CASE seq = None
  BY <1>1, RecordingToolsAssumption DEF Scale, Padded
<1>2. CASE seq # None
  <2> DEFINE T == {p \in Powers : seq * p < Limit}
  <2>1. seq \in 0..(Limit - 1)
    BY <1>2 DEF ASequence
  <2>2. 1 \in T /\ T \subseteq 1..Limit /\ Limit \in Nat
    <3>1. seq * 1 = seq /\ seq < Limit
      BY <2>1, RecordingToolsAssumption
    <3>. QED BY <3>1, RecordingToolsAssumption
  <2>3. PICK p : p = Max(T)
    OBVIOUS
  <2>. HIDE DEF T
  <2>4. Max(T) \in T
    BY <2>2, Greatest
  <2>5. p \in 1..Limit /\ Scale(seq) = p /\ Padded(seq) = seq * p
    BY <1>2, <2>2, <2>3, <2>4 DEF Scale, Padded, T
  <2>6. PICK q \in Nat : q = seq * p
    BY <2>1, <2>2, <2>5
  <2>. QED BY <2>2, <2>5, <2>6
<1>. QED BY <1>1, <1>2

(* Of two sequences of the same length, the smaller string is the smaller
   number. *)
LEMMA SameLength ==
  ASSUME NEW a \in ASequence, NEW b \in ASequence, a # None, b # None,
         Scale(a) = Scale(b), Padded(a) <= Padded(b)
  PROVE  a <= b
<1>1. /\ Scale(a) \in Nat /\ Scale(a) > 0
      /\ Padded(a) = a * Scale(a) /\ Padded(b) = b * Scale(a)
  BY ScaleType
<1>2. a \in Nat /\ b \in Nat
  BY RecordingToolsAssumption DEF ASequence
<1>3. PICK p \in Nat \ {0} : p = Scale(a)
  BY <1>1
<1>4. a * p <= b * p
  BY <1>1, <1>3
<1>5. ASSUME b < a PROVE FALSE
  <2>1. PICK d \in Nat : a = b + d /\ d > 0
    <3>1. a - b \in Nat /\ a = b + (a - b) /\ a - b > 0
      BY <1>2, <1>5
    <3>. QED BY <3>1
  <2>2. a * p = b * p + d * p
    BY <1>2, <1>3, <2>1
  <2>3. d * p > 0 /\ d * p \in Nat /\ b * p \in Nat
    BY <1>2, <1>3, <2>1
  <2>. QED BY <1>4, <2>2, <2>3
<1>. QED BY <1>2, <1>5

(* The comparison of four keys, one after the other. *)
LEMMA Lexicographic ==
  ASSUME NEW a, NEW b
  PROVE  (\E k \in 1..4 : a[k] < b[k] /\ \A l \in 1..(k - 1) : a[l] = b[l]) <=>
           \/ a[1] < b[1]
           \/ a[1] = b[1] /\ a[2] < b[2]
           \/ a[1] = b[1] /\ a[2] = b[2] /\ a[3] < b[3]
           \/ a[1] = b[1] /\ a[2] = b[2] /\ a[3] = b[3] /\ a[4] < b[4]
<1> DEFINE Same(k) == \A l \in 1..(k - 1) : a[l] = b[l]
<1>1. /\ Same(1)
      /\ Same(2) <=> a[1] = b[1]
      /\ Same(3) <=> a[1] = b[1] /\ a[2] = b[2]
      /\ Same(4) <=> a[1] = b[1] /\ a[2] = b[2] /\ a[3] = b[3]
  <2>1. /\ 1..(1 - 1) = {} /\ 1..(2 - 1) = {1} /\ 1..(3 - 1) = {1, 2} /\ 1..(4 - 1) = {1, 2, 3}
    OBVIOUS
  <2>2. Same(1)
    BY <2>1
  <2>3. Same(2) <=> a[1] = b[1]
    BY <2>1
  <2>4. Same(3) <=> a[1] = b[1] /\ a[2] = b[2]
    BY <2>1
  <2>5. Same(4) <=> a[1] = b[1] /\ a[2] = b[2] /\ a[3] = b[3]
    BY <2>1
  <2>. QED BY <2>2, <2>3, <2>4, <2>5
<1>2. 1..4 = {1, 2, 3, 4}
  OBVIOUS
<1>. HIDE DEF Same
<1>3. (\E k \in 1..4 : a[k] < b[k] /\ Same(k)) <=>
        \/ a[1] < b[1] /\ Same(1)
        \/ a[2] < b[2] /\ Same(2)
        \/ a[3] < b[3] /\ Same(3)
        \/ a[4] < b[4] /\ Same(4)
  BY <1>2
<1>. QED BY <1>1, <1>3 DEF Same

(* The comparison of the sort keys. *)
LEMMA PrecedesIs ==
  ASSUME NEW events, NEW i, NEW j
  PROVE  Precedes(events, i, j) <=>
           \/ events[i].ts < events[j].ts
           \/ /\ events[i].ts = events[j].ts
              /\ \/ Padded(events[i].seq) < Padded(events[j].seq)
                 \/ /\ Padded(events[i].seq) = Padded(events[j].seq)
                    /\ \/ -Scale(events[i].seq) < -Scale(events[j].seq)
                       \/ -Scale(events[i].seq) = -Scale(events[j].seq) /\ i < j
<1>1. PICK a : a = <<events[i].ts, Padded(events[i].seq), -Scale(events[i].seq), i>>
  OBVIOUS
<1>2. PICK b : b = <<events[j].ts, Padded(events[j].seq), -Scale(events[j].seq), j>>
  OBVIOUS
<1>3. Precedes(events, i, j) <=> \E k \in 1..4 : a[k] < b[k] /\ \A l \in 1..(k - 1) : a[l] = b[l]
  BY <1>1, <1>2 DEF Precedes
<1>4. /\ a[1] = events[i].ts /\ a[2] = Padded(events[i].seq) /\ a[3] = -Scale(events[i].seq) /\ a[4] = i
      /\ b[1] = events[j].ts /\ b[2] = Padded(events[j].seq) /\ b[3] = -Scale(events[j].seq) /\ b[4] = j
  BY <1>1, <1>2
<1>. QED BY <1>3, <1>4, Lexicographic

(* They are a strict order. *)
LEMMA SortOrderIsStrict ==
  ASSUME NEW events \in Seq(Line)
  PROVE  StrictOrder(DOMAIN events, SortOrder(events))
<1>1. /\ Len(events) \in Nat /\ DOMAIN events = 1..Len(events)
      /\ \A i \in DOMAIN events : events[i] \in Line
  OBVIOUS
<1>2. \A i \in DOMAIN events : /\ events[i].ts \in Int /\ Padded(events[i].seq) \in Int
                             /\ -Scale(events[i].seq) \in Int /\ i \in Int
  <2> SUFFICES ASSUME NEW i \in DOMAIN events
               PROVE  /\ events[i].ts \in Int /\ Padded(events[i].seq) \in Int
                      /\ -Scale(events[i].seq) \in Int /\ i \in Int
    OBVIOUS
  <2>1. events[i].ts \in Int /\ events[i].seq \in ASequence
    BY <1>1 DEF Line
  <2>. QED BY <1>1, <2>1, ScaleType
<1>3. \A i, j \in DOMAIN events : <<i, j>> \in SortOrder(events) <=> Precedes(events, i, j)
  BY DEF SortOrder
<1>4. \A i \in DOMAIN events : ~ Precedes(events, i, i)
  BY <1>2, PrecedesIs
<1>5. ASSUME NEW i \in DOMAIN events, NEW j \in DOMAIN events, NEW k \in DOMAIN events,
             Precedes(events, i, j), Precedes(events, j, k)
      PROVE  Precedes(events, i, k)
  <2>1. PICK t \in Int, u \in Int, v \in Int : t = events[i].ts /\ u = events[j].ts /\ v = events[k].ts
    BY <1>2
  <2>2. PICK p \in Int, q \in Int, r \in Int :
          p = Padded(events[i].seq) /\ q = Padded(events[j].seq) /\ r = Padded(events[k].seq)
    BY <1>2
  <2>3. PICK x \in Int, y \in Int, z \in Int :
          x = -Scale(events[i].seq) /\ y = -Scale(events[j].seq) /\ z = -Scale(events[k].seq)
    BY <1>2
  <2>4. /\ t < u \/ (t = u /\ (p < q \/ (p = q /\ (x < y \/ (x = y /\ i < j)))))
        /\ u < v \/ (u = v /\ (q < r \/ (q = r /\ (y < z \/ (y = z /\ j < k)))))
    BY <1>5, <2>1, <2>2, <2>3, PrecedesIs
  <2>. i \in Int /\ j \in Int /\ k \in Int
    BY <1>2
  <2>5. t < v \/ (t = v /\ (p < r \/ (p = r /\ (x < z \/ (x = z /\ i < k)))))
    BY ONLY <2>4, t \in Int, u \in Int, v \in Int, p \in Int, q \in Int, r \in Int,
            x \in Int, y \in Int, z \in Int, i \in Int, j \in Int, k \in Int, SMT
  <2>. QED BY <2>1, <2>2, <2>3, <2>5, PrecedesIs
<1>6. \A i, j \in DOMAIN events : i = j \/ Precedes(events, i, j) \/ Precedes(events, j, i)
  BY <1>2, PrecedesIs
<1>. QED BY <1>3, <1>4, <1>5, <1>6 DEF StrictOrder

(* The events at a list of positions. *)
LEMMA AtType ==
  ASSUME NEW events \in Seq(Line), NEW n \in Nat, NEW order \in [1..n -> DOMAIN events]
  PROVE  /\ At(events, order) \in Seq(Line)
         /\ DOMAIN At(events, order) = 1..n /\ Len(At(events, order)) = n
         /\ \A m \in 1..n : order[m] \in DOMAIN events /\ At(events, order)[m] = events[order[m]]
<1>1. \A i \in DOMAIN events : events[i] \in Line
  OBVIOUS
<1>2. DOMAIN order = 1..n /\ \A m \in 1..n : order[m] \in DOMAIN events
  OBVIOUS
<1>3. At(events, order) = [m \in 1..n |-> events[order[m]]]
  BY <1>2 DEF At
<1>4. At(events, order) \in [1..n -> Line]
  BY <1>1, <1>2, <1>3
<1>. QED BY <1>2, <1>3, <1>4

(* Strict replay of a sorted recording compares pairs in the sort's order. *)
InSortSequence(events) ==
  \A i, j \in DOMAIN events :
    Precedes(events, j, i) /\ Comparable(events[j], events[i]) => events[j].seq <= events[i].seq

(* The same of the sorted recording. *)
LEMMA SortedIsInSequence ==
  ASSUME NEW events \in Seq(Line)
  PROVE  Accepted(ExchangeTimeSorted(events)) <=> InSortSequence(events)
<1> DEFINE S == DOMAIN events
           N == Cardinality(S)
           order == ByRank(S, SortOrder(events))
           sorted == ExchangeTimeSorted(events)
<1>1. IsFiniteSet(S)
  <2>1. S = 1..Len(events) /\ Len(events) \in Nat
    OBVIOUS
  <2>. QED BY <2>1, FS_Interval
<1>2. StrictOrder(S, SortOrder(events))
  BY SortOrderIsStrict
<1>3. sorted = At(events, order)
  BY DEF ExchangeTimeSorted, SortOrder
<1>4. /\ N \in Nat /\ order \in [1..N -> S]
      /\ \A i \in S : \E n \in 1..N : order[n] = i
      /\ \A m, n \in 1..N : m < n => <<order[m], order[n]>> \in SortOrder(events)
  BY <1>1, <1>2, RankedList
<1>. HIDE DEF order, N, sorted
<1>5. /\ sorted \in Seq(Line) /\ DOMAIN sorted = 1..N
      /\ \A m \in 1..N : order[m] \in DOMAIN events /\ sorted[m] = events[order[m]]
  BY <1>3, <1>4, AtType
<1>6. \A m, n \in 1..N : m < n <=> Precedes(events, order[m], order[n])
  <2> SUFFICES ASSUME NEW m \in 1..N, NEW n \in 1..N
               PROVE  m < n <=> Precedes(events, order[m], order[n])
    OBVIOUS
  <2>1. m \in Int /\ n \in Int /\ order[m] \in S /\ order[n] \in S
    BY <1>4, <1>5
  <2>2. m < n => <<order[m], order[n]>> \in SortOrder(events)
    BY <1>4
  <2>3. n < m => <<order[n], order[m]>> \in SortOrder(events)
    BY <1>4
  <2>4. <<order[m], order[n]>> \in SortOrder(events) <=> Precedes(events, order[m], order[n])
    BY <2>1 DEF SortOrder
  <2>. HIDE DEF S
  <2>5. ~ (<<order[m], order[n]>> \in SortOrder(events) /\ <<order[n], order[m]>> \in SortOrder(events))
    BY <1>2, <2>1 DEF StrictOrder
  <2>6. n = m => <<order[m], order[n]>> \notin SortOrder(events)
    BY <1>2, <2>1 DEF StrictOrder
  <2>. QED BY <2>1, <2>2, <2>3, <2>4, <2>5, <2>6
<1>7. InSequence(sorted) <=> InSortSequence(events)
  <2>1. ASSUME InSortSequence(events), NEW n \in 1..N, NEW m \in 1..N,
               m < n, Comparable(sorted[m], sorted[n])
        PROVE  sorted[m].seq <= sorted[n].seq
    BY <1>5, <1>6, <2>1 DEF InSortSequence
  <2>2. ASSUME InSequence(sorted), NEW i \in S, NEW j \in S,
               Precedes(events, j, i), Comparable(events[j], events[i])
        PROVE  events[j].seq <= events[i].seq
    <3>1. PICK m \in 1..N, n \in 1..N : order[m] = j /\ order[n] = i
      BY <1>4
    <3>2. m < n /\ sorted[m] = events[j] /\ sorted[n] = events[i]
      BY <1>5, <1>6, <2>2, <3>1
    <3>. QED BY <1>5, <2>2, <3>1, <3>2 DEF InSequence
  <2>. QED BY <1>5, <2>1, <2>2 DEF InSequence, InSortSequence
<1>. QED BY <1>5, <1>7, AcceptedIsInSequence DEF sorted

(* A stable sort by exchange time keeps what is in sequence so, of streams
   in exchange time order. *)
LEMMA SortKeepsSequence ==
  ASSUME recording \in Seq(Line)
  PROVE  SortKeepsAcceptance
<1> SUFFICES ASSUME InSequence(recording), SortIsHarmless
             PROVE  InSortSequence(recording)
  BY AcceptedIsInSequence, SortedIsInSequence DEF SortKeepsAcceptance
<1> SUFFICES ASSUME NEW i \in DOMAIN recording, NEW j \in DOMAIN recording,
                    Precedes(recording, j, i), Comparable(recording[j], recording[i])
             PROVE  recording[j].seq <= recording[i].seq
  BY DEF InSortSequence
<1>1. /\ i \in Int /\ j \in Int /\ recording[i] \in Line /\ recording[j] \in Line
  OBVIOUS
<1>2. /\ recording[i].ts \in Int /\ recording[j].ts \in Int
      /\ recording[i].seq \in ASequence /\ recording[j].seq \in ASequence
  BY <1>1 DEF Line
<1>3. /\ Padded(recording[i].seq) \in Nat /\ Scale(recording[i].seq) \in Nat
      /\ Padded(recording[j].seq) \in Nat /\ Scale(recording[j].seq) \in Nat
  BY <1>2, ScaleType
<1>4. CASE j < i
  BY <1>4 DEF InSequence
<1>5. CASE i < j
  <2>1. recording[i].ts <= recording[j].ts
    BY <1>5 DEF SortIsHarmless, Comparable
  <2>2. recording[i].ts = recording[j].ts /\ Padded(recording[j].seq) <= Padded(recording[i].seq)
    BY <1>2, <1>3, <2>1, PrecedesIs
  <2>3. Scale(recording[i].seq) = Scale(recording[j].seq)
    BY <1>5, <2>2 DEF SortIsHarmless, Comparable
  <2>. QED BY <1>2, <2>2, <2>3, SameLength DEF Comparable
<1>6. CASE i = j
  <2>1. ~ Precedes(recording, i, i)
    BY <1>1, <1>2, <1>3, PrecedesIs
  <2>. QED BY <1>6, <2>1
<1>. QED BY <1>1, <1>4, <1>5, <1>6

-------------------------------------------------------------------------------
(***************************************************************************)
(* The inspection's count, a fold over the recording: its states after     *)
(* each line, what they remember, and which deltas they count.             *)
(***************************************************************************)
State == [last : ASequence, violations : Nat]
Nothing == [last |-> None, violations |-> 0]
Folded(it, events) ==
  it = [s \in SUBSET DOMAIN events |->
          IF s = {} THEN Nothing ELSE Inspect(it[s \ {Max(s)}], events[Max(s)])]

(* A line keeps the state of the count well typed. *)
LEMMA InspectType ==
  ASSUME NEW s \in State, NEW e \in Line
  PROVE  Inspect(s, e) \in State
<1>1. e.seq \in ASequence /\ s.last \in ASequence /\ s.violations \in Nat
  BY DEF Line, State
<1>2. Compare(s, e) \in State
  BY <1>1 DEF Compare, State
<1>3. [s EXCEPT !.last = e.seq] \in State
  BY <1>1 DEF State
<1>. QED BY <1>2, <1>3 DEF Inspect

(* What the fold iterates to exists. *)
LEMMA FoldExists ==
  ASSUME NEW events \in Seq(Line)
  PROVE  \E it : Folded(it, events)
<1> DEFINE S == DOMAIN events
           Next1(h, s) == IF s = {} THEN Nothing ELSE Inspect(h[s \ {Max(s)}], events[Max(s)])
           Small(n) == {s \in SUBSET S : Cardinality(s) <= n}
           Good1(h, n) == \A s \in Small(n) : h[s] = Next1(h, s)
           T == {n \in Nat : \E h \in [Small(n) -> State] : Good1(h, n)}
<1>s. S = 1..Len(events) /\ Len(events) \in Nat /\ \A i \in S : events[i] \in Line
  OBVIOUS
<1>f. IsFiniteSet(S)
  BY <1>s, FS_Interval
<1>0. \A s \in SUBSET S : IsFiniteSet(s) /\ Cardinality(s) \in Nat
  BY <1>f, FS_Subset, FS_CardinalityType
<1>b. Nothing \in State
  BY DEF Nothing, State, ASequence
<1>1. 0 \in T
  <2>1. \A s \in Small(0) : s = {}
    BY <1>0, FS_EmptySet
  <2>2. [s \in Small(0) |-> Nothing] \in [Small(0) -> State] /\ Good1([s \in Small(0) |-> Nothing], 0)
    BY <1>b, <2>1
  <2>. QED BY <2>2
<1>2. ASSUME NEW n \in Nat, n \in T
      PROVE  n + 1 \in T
  <2>1. PICK h \in [Small(n) -> State] : Good1(h, n)
    BY <1>2
  <2> DEFINE g == [s \in Small(n + 1) |-> Next1(h, s)]
  <2>2. \A s \in Small(n + 1) : s # {} => Max(s) \in S /\ s \ {Max(s)} \in Small(n)
    <3> SUFFICES ASSUME NEW s \in Small(n + 1), s # {}
                 PROVE  Max(s) \in S /\ s \ {Max(s)} \in Small(n)
      OBVIOUS
    <3>1. PICK x : x = Max(s)
      OBVIOUS
    <3>2. x \in s
      BY <1>s, <3>1, Greatest
    <3>3. IsFiniteSet(s) /\ Cardinality(s) \in Nat /\ Cardinality(s) <= n + 1
      BY <1>0
    <3>4. Cardinality(s \ {x}) = Cardinality(s) - 1
      BY <3>2, <3>3, FS_RemoveElement
    <3>. QED BY <3>1, <3>2, <3>3, <3>4
  <2>3. Small(n) \subseteq Small(n + 1)
    BY <1>0
  <2>4. g \in [Small(n + 1) -> State]
    <3>1. ASSUME NEW s \in Small(n + 1)
          PROVE  Next1(h, s) \in State
      <4>1. CASE s = {}
        BY <1>b, <4>1
      <4>2. CASE s # {}
        <5>1. h[s \ {Max(s)}] \in State /\ events[Max(s)] \in Line
          BY <1>s, <2>2, <4>2
        <5>. QED BY <4>2, <5>1, InspectType
      <4>. QED BY <4>1, <4>2
    <3>. QED BY <3>1
  <2>5. \A s \in Small(n) : g[s] = h[s]
    BY <2>1, <2>3
  <2>6. Good1(g, n + 1)
    BY <2>2, <2>5
  <2>. HIDE DEF g, Small, Good1
  <2>. QED BY <2>4, <2>6
<1>3. Cardinality(S) \in T
  <2>. HIDE DEF T
  <2>1. \A n \in Nat : n \in T
    BY <1>1, <1>2, NatInduct
  <2>. QED BY <1>f, <2>1, FS_CardinalityType
<1>4. Small(Cardinality(S)) = SUBSET S
  BY <1>f, FS_Subset
<1>5. PICK h \in [SUBSET S -> State] : Good1(h, Cardinality(S))
  BY <1>3, <1>4
<1>6. h = [s \in SUBSET S |-> Next1(h, s)]
  BY <1>4, <1>5
<1>. QED BY <1>6 DEF Folded

(* The states of the inspection, line after line. *)
LEMMA InspectStates ==
  ASSUME NEW events \in Seq(Line)
  PROVE  \E st \in [0..Len(events) -> State] :
           /\ st[0] = Nothing
           /\ \A k \in 1..Len(events) : st[k] = Inspect(st[k - 1], events[k])
           /\ Violations(events) = st[Len(events)].violations
<1> DEFINE N == Len(events)
           S == DOMAIN events
           it == CHOOSE f : Folded(f, events)
           st == [k \in 0..N |-> it[1..k]]
<1>1. N \in Nat /\ S = 1..N /\ \A k \in 1..N : events[k] \in Line
  OBVIOUS
<1>2. Folded(it, events)
  BY FoldExists
<1>3. Violations(events) = it[S].violations
  BY DEF Violations, FoldLeft, MapThenFoldSet, Folded, Nothing
<1>. HIDE DEF it, S
<1>4. \A s \in SUBSET S : it[s] = IF s = {} THEN Nothing ELSE Inspect(it[s \ {Max(s)}], events[Max(s)])
  BY <1>2 DEF Folded, S
<1>5. st[0] = Nothing
  <2>1. 1..0 = {} /\ 0 \in 0..N
    BY <1>1
  <2>2. it[{}] = Nothing
    BY <1>4
  <2>3. st[0] = it[1..0]
    BY <2>1
  <2>. QED BY <2>1, <2>2, <2>3, Zenon
<1>6. ASSUME NEW k \in 1..N
      PROVE  st[k] = Inspect(st[k - 1], events[k])
  <2>0. k \in Nat /\ 1 <= k /\ k <= N /\ N \in Nat
    BY <1>1
  <2>1. k \in Nat /\ 1..k \in SUBSET S /\ 1..k # {} /\ k \in 0..N /\ k - 1 \in 0..N
    <3>1. 1..k \subseteq 1..N /\ k \in 1..k
      BY <2>0
    <3>. QED BY <1>1, <2>0, <3>1
  <2>2. Max(1..k) \in 1..k /\ \A y \in 1..k : y <= Max(1..k)
    BY <2>1, Greatest
  <2>3. PICK x : x = Max(1..k)
    OBVIOUS
  <2>4. x = k
    <3>1. x \in 1..k /\ k <= x
      BY <2>1, <2>2, <2>3
    <3>. QED BY <2>1, <3>1
  <2>5. (1..k) \ {k} = 1..(k - 1)
    BY <2>1
  <2>6. it[1..k] = Inspect(it[1..(k - 1)], events[k])
    BY <1>4, <2>1, <2>3, <2>4, <2>5
  <2>. QED BY <2>1, <2>6
<1>7. st \in [0..N -> State]
  <2> DEFINE T == {k \in Nat : k \in 0..N => st[k] \in State}
  <2>. HIDE DEF st
  <2>1. 0 \in T
    BY <1>5 DEF Nothing, State, ASequence
  <2>2. ASSUME NEW k \in Nat, k \in T
        PROVE  k + 1 \in T
    <3> SUFFICES ASSUME k + 1 \in 0..N PROVE st[k + 1] \in State
      OBVIOUS
    <3>1. k \in 0..N /\ k + 1 \in 1..N /\ k + 1 - 1 = k
      BY <1>1
    <3>2. st[k + 1] = Inspect(st[k], events[k + 1])
      BY <1>6, <3>1
    <3>. QED BY <1>1, <2>2, <3>1, <3>2, InspectType
  <2>. HIDE DEF T
  <2>3. \A k \in Nat : k \in T
    BY <2>1, <2>2, NatInduct
  <2>4. \A k \in 0..N : st[k] \in State
    BY <1>1, <2>3 DEF T
  <2>. QED BY <2>4 DEF st
<1>8. Violations(events) = st[N].violations
  BY <1>1, <1>3
<1>. HIDE DEF st
<1>. QED BY <1>5, <1>6, <1>7, <1>8

(* The depth events before a position, and the deltas that are counted: none
   before the first snapshot. *)
DepthBefore(events, i) == {j \in DOMAIN events : j < i /\ events[j].kind \in Depth}
Started(events, i) == \E j \in DepthBefore(events, i) : events[j].kind = "snapshot"
Counted(events, i) ==
  /\ events[i].kind = "delta" /\ Started(events, i)
  /\ events[i].seq <= events[Max(DepthBefore(events, i))].seq
DepthIsNumbered(events) == \A i \in DOMAIN events : events[i].kind \in Depth => events[i].seq # None

(* The inspection finds no violation if no delta is counted. *)
LEMMA CountedAre ==
  ASSUME NEW events \in Seq(Line), DepthIsNumbered(events)
  PROVE  /\ Violations(events) \in Nat
         /\ Violations(events) = 0 <=> \A i \in DOMAIN events : ~ Counted(events, i)
<1> DEFINE N == Len(events)
           Remembered(k) == IF ~ Started(events, k + 1) THEN None
                            ELSE events[Max(DepthBefore(events, k + 1))].seq
<1>0. N \in Nat /\ DOMAIN events = 1..N /\ \A k \in 1..N : events[k] \in Line
  OBVIOUS
<1>1. PICK st \in [0..N -> State] :
        /\ st[0] = Nothing /\ \A k \in 1..N : st[k] = Inspect(st[k - 1], events[k])
        /\ Violations(events) = st[N].violations
  BY InspectStates
<1> DEFINE Right(k) == /\ st[k].last = Remembered(k)
                       /\ st[k].violations = 0 <=> \A i \in 1..k : ~ Counted(events, i)
           T == {k \in Nat : k \in 0..N => Right(k)}
<1>2. 0 \in T
  <2>1. DepthBefore(events, 0 + 1) = {} /\ 1..0 = {}
    BY <1>0 DEF DepthBefore
  <2>. QED BY <1>1, <2>1 DEF Nothing, Started
<1>3. ASSUME NEW k \in Nat, k \in T, k + 1 \in 0..N
      PROVE  Right(k + 1)
  <2> DEFINE e == events[k + 1]
             s == st[k]
             n == st[k + 1]
             before == DepthBefore(events, k + 1)
  <2>1. /\ k \in 0..N /\ k + 1 \in 1..N /\ k + 1 - 1 = k
        /\ 1..(k + 1) = (1..k) \cup {k + 1}
    BY <1>0, <1>3
  <2>2. Right(k) /\ n = Inspect(s, e) /\ s \in State /\ e \in Line
    BY <1>0, <1>1, <1>3, <2>1
  <2>3. /\ e.seq \in ASequence /\ s.last \in ASequence /\ s.violations \in Nat
        /\ e.kind \in Depth => e.seq # None
    BY <1>0, <2>1, <2>2 DEF State, Line, DepthIsNumbered
  <2>4. before # {} => Max(before) \in before /\ \A j \in before : j <= Max(before)
    <3>1. before \subseteq 1..N
      BY <1>0 DEF DepthBefore
    <3>. QED BY <1>0, <3>1, Greatest
  <2> DEFINE started == Started(events, k + 1)
  <2>5. s.last = IF ~ started THEN None ELSE events[Max(before)].seq
    BY <2>2
  <2>6. s.last = None <=> ~ started
    <3>1. ASSUME started PROVE events[Max(before)].seq # None
      BY <2>4, <3>1 DEF Started, DepthBefore, DepthIsNumbered
    <3>. QED BY <2>5, <3>1
  <2>7. DepthBefore(events, k + 1 + 1) = before \cup (IF e.kind \in Depth THEN {k + 1} ELSE {})
    BY <1>0, <2>1 DEF DepthBefore
  <2>8. (\A i \in 1..(k + 1) : ~ Counted(events, i)) <=>
          (\A i \in 1..k : ~ Counted(events, i)) /\ ~ Counted(events, k + 1)
    BY <2>1
  <2>8a. Started(events, k + 1 + 1) <=> started \/ e.kind = "snapshot"
    BY <1>0, <2>1, <2>7 DEF Started, Depth
  <2>9. e.kind \in Depth =>
          Remembered(k + 1) = IF started \/ e.kind = "snapshot" THEN e.seq ELSE None
    <3> SUFFICES ASSUME e.kind \in Depth
                 PROVE  events[Max(DepthBefore(events, k + 1 + 1))].seq = e.seq
      BY <2>8a
    <3>1. PICK after : after = DepthBefore(events, k + 1 + 1)
      OBVIOUS
    <3>2. after = before \cup {k + 1} /\ after \subseteq 1..N
      BY <1>0, <2>7, <3>1 DEF DepthBefore
    <3>3. \A j \in before : j < k + 1
      BY DEF DepthBefore
    <3>4. Max(after) \in after /\ k + 1 <= Max(after)
      BY <1>0, <3>2, Greatest
    <3>5. PICK x : x = Max(after)
      OBVIOUS
    <3>6. x = k + 1
      BY <1>0, <3>2, <3>3, <3>4, <3>5
    <3>. QED BY <3>1, <3>2, <3>5, <3>6
  <2>10. e.kind \notin Depth => Remembered(k + 1) = s.last
    <3> SUFFICES ASSUME e.kind \notin Depth PROVE Remembered(k + 1) = s.last
      OBVIOUS
    <3>1. DepthBefore(events, k + 1 + 1) = before /\ (Started(events, k + 1 + 1) <=> started)
      BY <2>7, <2>8a DEF Depth
    <3>. QED BY <2>5, <3>1
  <2>. HIDE DEF e, s, n, before, started, Remembered
  <2>11. CASE e.kind = "snapshot"
    <3>1. n.last = e.seq /\ n.violations = s.violations /\ ~ Counted(events, k + 1)
      BY <2>2, <2>11 DEF Inspect, State, Counted, e
    <3>. QED BY <2>2, <2>8, <2>9, <2>11, <3>1 DEF Depth, s, n
  <2>12. CASE e.kind = "delta" /\ ~ started
    <3>1. n = s /\ ~ Counted(events, k + 1)
      BY <2>2, <2>6, <2>12 DEF Inspect, Compare, Counted, started
    <3>. QED BY <2>2, <2>6, <2>8, <2>9, <2>12, <3>1 DEF Depth, s, n
  <2>13. CASE e.kind = "delta" /\ started
    <3>1. /\ n.last = e.seq /\ n.violations = s.violations + IF e.seq <= s.last THEN 1 ELSE 0
      BY <2>2, <2>3, <2>6, <2>13 DEF Inspect, Compare, Depth
    <3>2. Counted(events, k + 1) <=> e.seq <= s.last
      BY <2>5, <2>13 DEF Counted, e, before, started
    <3>3. n.violations = 0 <=> s.violations = 0 /\ ~ Counted(events, k + 1)
      BY <2>3, <3>1, <3>2
    <3>. QED BY <2>2, <2>8, <2>9, <2>13, <3>1, <3>3 DEF Depth, s, n
  <2>14. CASE e.kind \notin Depth
    <3>1. n = s /\ ~ Counted(events, k + 1)
      BY <2>2, <2>14 DEF Inspect, Compare, Counted, Depth, e
    <3>. QED BY <2>2, <2>8, <2>10, <2>14, <3>1 DEF s, n
  <2>. QED BY <2>11, <2>12, <2>13, <2>14 DEF Depth
<1>4. N \in T
  <2>. HIDE DEF T
  <2>1. \A k \in Nat : k \in T => k + 1 \in T
    BY <1>3 DEF T
  <2>2. \A k \in Nat : k \in T
    BY <1>2, <2>1, NatInduct
  <2>. QED BY <1>0, <2>2
<1>5. Right(N) /\ st[N] \in State
  BY <1>0, <1>4
<1>. QED BY <1>0, <1>1, <1>5 DEF State

(***************************************************************************)
(* Of a recording in sequence, the inspection counts the deltas after the  *)
(* first snapshot that are not above all depth before them.                *)
(***************************************************************************)
Above(events) ==
  \A i, j \in DOMAIN events :
    /\ j < i /\ events[i].kind = "delta" /\ events[j].kind \in Depth /\ Started(events, i)
    => events[j].seq < events[i].seq

(* What the inspection and strict replay say together. *)
LEMMA SoundIs ==
  ASSUME NEW events \in Seq(Line), DepthIsNumbered(events)
  PROVE  Sound(events) <=> InSequence(events) /\ Above(events)
<1>0. Len(events) \in Nat /\ DOMAIN events = 1..Len(events) /\ \A i \in DOMAIN events : events[i] \in Line
  OBVIOUS
<1>1. /\ Accepted(events) <=> InSequence(events)
      /\ Violations(events) = 0 <=> \A i \in DOMAIN events : ~ Counted(events, i)
  BY AcceptedIsInSequence, CountedAre
<1>2. \A i \in DOMAIN events : events[i].kind \in Depth => events[i].seq \in Int
  BY <1>0 DEF DepthIsNumbered, Line, ASequence
<1>3. ASSUME NEW i \in DOMAIN events, Started(events, i)
      PROVE  /\ Max(DepthBefore(events, i)) \in DepthBefore(events, i)
             /\ \A j \in DepthBefore(events, i) : j <= Max(DepthBefore(events, i))
  <2>1. DepthBefore(events, i) \subseteq 1..Len(events) /\ DepthBefore(events, i) # {}
    BY <1>0, <1>3 DEF DepthBefore, Started
  <2>. QED BY <1>0, <2>1, Greatest
<1>4. ASSUME InSequence(events), \A i \in DOMAIN events : ~ Counted(events, i),
             NEW i \in DOMAIN events, NEW j \in DOMAIN events,
             j < i, events[i].kind = "delta", events[j].kind \in Depth, Started(events, i)
      PROVE  events[j].seq < events[i].seq
  <2>1. PICK m : m = Max(DepthBefore(events, i))
    OBVIOUS
  <2>2. m \in DOMAIN events /\ m < i /\ events[m].kind \in Depth /\ j <= m
    BY <1>3, <1>4, <2>1 DEF DepthBefore
  <2>3. events[m].seq \in Int /\ events[j].seq \in Int /\ events[i].seq \in Int
    BY <1>2, <1>4, <2>2 DEF Depth
  <2>4. ~ (events[i].seq <= events[m].seq)
    BY <1>4, <2>1 DEF Counted
  <2>5. Comparable(events[j], events[m])
    BY <1>4, <2>2 DEF Comparable, Stream, DepthIsNumbered
  <2>6. events[j].seq <= events[m].seq
    BY <1>0, <1>4, <2>2, <2>3, <2>5 DEF InSequence
  <2>. QED BY <2>3, <2>4, <2>6
<1>5. ASSUME Above(events), NEW i \in DOMAIN events, Counted(events, i)
      PROVE  FALSE
  <2>1. PICK m : m = Max(DepthBefore(events, i))
    OBVIOUS
  <2>2. m \in DOMAIN events /\ m < i /\ events[m].kind \in Depth
    BY <1>3, <1>5, <2>1 DEF DepthBefore, Counted
  <2>3. events[m].seq \in Int /\ events[i].seq \in Int /\ events[i].seq <= events[m].seq
    BY <1>2, <1>5, <2>1, <2>2 DEF Depth, Counted
  <2>4. events[m].seq < events[i].seq
    BY <1>5, <2>2 DEF Above, Counted
  <2>. QED BY <2>3, <2>4
<1>6. InSequence(events) => (Above(events) <=> \A i \in DOMAIN events : ~ Counted(events, i))
  BY <1>4, <1>5 DEF Above
<1>. QED BY <1>1, <1>6 DEF Sound

-------------------------------------------------------------------------------
(***************************************************************************)
(* The parts of a split.                                                   *)
(***************************************************************************)
MetadataIsUnnumbered(events) ==
  \A i \in DOMAIN events : events[i].kind \in MetadataKinds => events[i].seq = None

(* Positions in line are the positions, each once, in their order. *)
LEMMA InLineIs ==
  ASSUME NEW n \in Nat, NEW S, S \subseteq 1..n
  PROVE  /\ Cardinality(S) \in Nat /\ InLine(S) \in [1..Cardinality(S) -> S]
         /\ \A i \in S : \E m \in 1..Cardinality(S) : InLine(S)[m] = i
         /\ \A l, m \in 1..Cardinality(S) : l < m => InLine(S)[l] < InLine(S)[m]
<1> DEFINE R == {pair \in S \X S : pair[1] < pair[2]}
<1>1. IsFiniteSet(S)
  <2>1. IsFiniteSet(1..n)
    BY FS_Interval
  <2>. QED BY <2>1, FS_Subset
<1>2. \A x, y \in S : <<x, y>> \in R <=> x < y
  OBVIOUS
<1>3. \A x \in S : x \in Int
  OBVIOUS
<1>. HIDE DEF R
<1>4. StrictOrder(S, R)
  BY <1>2, <1>3 DEF StrictOrder
<1>5. InLine(S) = ByRank(S, R)
  BY DEF InLine, R
<1>6. /\ Cardinality(S) \in Nat /\ ByRank(S, R) \in [1..Cardinality(S) -> S]
      /\ \A i \in S : \E m \in 1..Cardinality(S) : ByRank(S, R)[m] = i
      /\ \A l, m \in 1..Cardinality(S) : l < m => <<ByRank(S, R)[l], ByRank(S, R)[m]>> \in R
  BY <1>1, <1>4, RankedList
<1>. QED BY <1>2, <1>5, <1>6

(* A split has parts with times. *)
LEMMA SelectedType ==
  ASSUME NEW events \in Seq(Line), NEW n \in Nat, NEW k \in 1..n, Splits(events, n)
  PROVE  /\ Selected(events, k, n) \subseteq Data(events) /\ Data(events) \subseteq DOMAIN events
         /\ Selected(events, k, n) # {}
         /\ LET times == {events[i].ts : i \in Selected(events, k, n)}
            IN  times \subseteq Int /\ times # {} /\ IsFiniteSet(times)
<1>1. Selected(events, k, n) \subseteq Data(events) /\ Data(events) \subseteq DOMAIN events
  BY DEF Selected, Data
<1>2. Selected(events, k, n) # {}
  BY DEF Splits
<1>3. \A i \in DOMAIN events : events[i].ts \in Int
  <2>1. \A i \in DOMAIN events : events[i] \in Line
    OBVIOUS
  <2>. QED BY <2>1 DEF Line
<1> DEFINE S == Selected(events, k, n)
           times == {events[i].ts : i \in S}
<1>4. IsFiniteSet(S)
  <2>1. DOMAIN events = 1..Len(events) /\ Len(events) \in Nat
    OBVIOUS
  <2>2. IsFiniteSet(DOMAIN events)
    BY <2>1, FS_Interval
  <2>. QED BY <1>1, <2>2, FS_Subset
<1>. HIDE DEF S
<1>5. IsFiniteSet(times)
  <2> DEFINE f == [i \in S |-> events[i].ts]
  <2>1. IsFiniteSet({f[i] : i \in S})
    BY <1>4, ValuesAreFinite
  <2>2. times = {f[i] : i \in S}
    OBVIOUS
  <2>. QED BY <2>1, <2>2
<1>6. times \subseteq Int /\ times # {}
  BY <1>1, <1>2, <1>3 DEF S
<1>. QED BY <1>1, <1>2, <1>5, <1>6 DEF S

(* The metadata of a part has no sequences, and is earlier than its data. *)
LEMMA MovedIs ==
  ASSUME NEW events \in Seq(Line), MetadataIsUnnumbered(events),
         NEW n \in Nat, NEW k \in 1..n, Splits(events, n)
  PROVE  /\ Moved(events, k, n) \in Seq(Line)
         /\ \A m \in DOMAIN Moved(events, k, n) :
              LET event == Moved(events, k, n)[m]
              IN  /\ event.kind \in MetadataKinds /\ event.seq = None
                  /\ event.ts < Min({events[i].ts : i \in Selected(events, k, n)})
<1>0. Len(events) \in Nat /\ DOMAIN events = 1..Len(events) /\ \A i \in DOMAIN events : events[i] \in Line
  OBVIOUS
<1> DEFINE M == Metadata(events)
           L == Cardinality(M)
           metadata == At(events, InLine(M))
           start == Min({events[i].ts : i \in Selected(events, k, n)})
           moved == Moved(events, k, n)
<1>1. M \subseteq 1..Len(events) /\ \A i \in M : events[i].kind \in MetadataKinds
  BY <1>0 DEF Metadata, IsMetadata
<1>2. start \in Int
  BY SelectedType, Least
<1>3. moved = [m \in DOMAIN metadata |-> [metadata[m] EXCEPT !.ts = start - (Len(metadata) - m + 1)]]
  BY DEF Moved
<1>. HIDE DEF M, L, metadata, start, moved
<1>4. /\ L \in Nat /\ InLine(M) \in [1..L -> M] /\ InLine(M) \in [1..L -> DOMAIN events]
  <2>1. L \in Nat /\ InLine(M) \in [1..L -> M]
    BY <1>0, <1>1, InLineIs DEF L
  <2>. QED BY <1>0, <1>1, <2>1
<1>5. /\ metadata \in Seq(Line) /\ DOMAIN metadata = 1..L /\ Len(metadata) = L
      /\ \A m \in 1..L : metadata[m].kind \in MetadataKinds /\ metadata[m].seq = None
  <2>1. /\ metadata \in Seq(Line) /\ DOMAIN metadata = 1..L /\ Len(metadata) = L
        /\ \A m \in 1..L : metadata[m] = events[InLine(M)[m]]
    BY <1>4, AtType DEF metadata
  <2>2. \A m \in 1..L : InLine(M)[m] \in M /\ InLine(M)[m] \in DOMAIN events
    BY <1>4
  <2>. QED BY <1>1, <2>1, <2>2 DEF MetadataIsUnnumbered
<1>6. \A m \in 1..L : metadata[m] \in Line /\ start - (L - m + 1) \in Int /\ start - (L - m + 1) < start
  BY <1>2, <1>4, <1>5
<1>7. moved = [m \in 1..L |-> [metadata[m] EXCEPT !.ts = start - (L - m + 1)]]
  BY <1>3, <1>5
<1>8. \A m \in 1..L : /\ moved[m] \in Line /\ moved[m].ts < start
                      /\ moved[m].kind = metadata[m].kind /\ moved[m].seq = metadata[m].seq
  BY <1>6, <1>7 DEF Line
<1>9. moved \in [1..L -> Line] /\ DOMAIN moved = 1..L
  BY <1>7, <1>8
<1>10. moved \in Seq(Line)
  BY <1>4, <1>9
<1>. QED BY <1>5, <1>8, <1>9, <1>10 DEF moved, start

(* A part is its metadata, L events without sequences, and then C events of
   the recording in their order. *)
Arranged(events, part, L, C, c) ==
  /\ part \in Seq(Line) /\ DOMAIN part = 1..(L + C)
  /\ \A p \in 1..L : part[p].kind \in MetadataKinds /\ part[p].seq = None
  /\ \A q \in 1..C : L + q \in 1..(L + C) /\ c[q] \in DOMAIN events /\ part[L + q] = events[c[q]]
  /\ \A q, r \in 1..C : q < r <=> c[q] < c[r]

(* What _split_lines writes of a part has that form. *)
LEMMA PartIs ==
  ASSUME NEW events \in Seq(Line), MetadataIsUnnumbered(events),
         NEW n \in Nat, NEW k \in 1..n, Splits(events, n)
  PROVE  \E L \in Nat, C \in Nat : \E c \in [1..C -> DOMAIN events] :
           Arranged(events, Part(events, k, n), L, C, c)
<1>0. Len(events) \in Nat /\ DOMAIN events = 1..Len(events) /\ \A i \in DOMAIN events : events[i] \in Line
  OBVIOUS
<1> DEFINE S == Selected(events, k, n)
<1>1. PICK part : part = Part(events, k, n)
  OBVIOUS
<1>2. PICK moved : moved = Moved(events, k, n)
  OBVIOUS
<1>3. PICK C : C = Cardinality(S)
  OBVIOUS
<1>4. PICK c : c = InLine(S)
  OBVIOUS
<1>5. PICK L : L = Len(moved)
  OBVIOUS
<1>6. /\ moved \in Seq(Line) /\ L \in Nat /\ DOMAIN moved = 1..L
      /\ \A m \in 1..L : moved[m].kind \in MetadataKinds /\ moved[m].seq = None
  <2>1. /\ moved \in Seq(Line)
        /\ \A m \in DOMAIN moved : moved[m].kind \in MetadataKinds /\ moved[m].seq = None
    BY <1>2, MovedIs
  <2>. QED BY <1>5, <2>1
<1>7. S \subseteq 1..Len(events)
  BY <1>0, SelectedType
<1>8. /\ C \in Nat /\ c \in [1..C -> S] /\ c \in [1..C -> DOMAIN events]
      /\ \A q, r \in 1..C : q < r => c[q] < c[r]
  <2>1. /\ C \in Nat /\ c \in [1..C -> S]
        /\ \A q, r \in 1..C : q < r => c[q] < c[r]
    BY <1>0, <1>3, <1>4, <1>7, InLineIs
  <2>. QED BY <1>0, <1>7, <2>1
<1>9. PICK chosen : chosen = Chosen(events, k, n)
  OBVIOUS
<1>10. part = moved \o chosen /\ chosen = At(events, c)
  BY <1>1, <1>2, <1>4, <1>9 DEF Part, Chosen
<1>11. /\ chosen \in Seq(Line) /\ Len(chosen) = C
       /\ \A q \in 1..C : chosen[q] = events[c[q]]
  BY <1>8, <1>10, AtType
<1>12. /\ part \in Seq(Line) /\ Len(part) = L + C
       /\ \A i \in 1..(L + C) : part[i] = IF i <= L THEN moved[i] ELSE chosen[i - L]
  BY <1>5, <1>6, <1>10, <1>11, ConcatProperties
<1>13. DOMAIN part = 1..(L + C)
  BY <1>12
<1>14. \A p \in 1..L : part[p].kind \in MetadataKinds /\ part[p].seq = None
  BY <1>6, <1>8, <1>12
<1>15. ASSUME NEW q \in 1..C
       PROVE  L + q \in 1..(L + C) /\ c[q] \in DOMAIN events /\ part[L + q] = events[c[q]]
  <2>1. L + q \in 1..(L + C) /\ ~ (L + q <= L) /\ (L + q) - L = q
    BY <1>6, <1>8
  <2>2. part[L + q] = chosen[(L + q) - L]
    BY <1>12, <2>1
  <2>. QED BY <1>8, <1>11, <2>1, <2>2
<1>16. ASSUME NEW q \in 1..C, NEW r \in 1..C
       PROVE  q < r <=> c[q] < c[r]
  <2>1. c[q] \in Int /\ c[r] \in Int /\ q \in Int /\ r \in Int
    BY <1>0, <1>8
  <2>2. (q < r => c[q] < c[r]) /\ (r < q => c[r] < c[q])
    BY <1>8
  <2>. QED BY <2>1, <2>2
<1>17. Arranged(events, part, L, C, c)
  BY <1>12, <1>13, <1>14, <1>15, <1>16 DEF Arranged
<1>. QED BY <1>1, <1>6, <1>8, <1>17

(* What is numbered in a part is an event of the recording, and pairs of such
   events are in the same order there, also by the keys of the sort. *)
LEMMA NumberedInPart ==
  ASSUME NEW events \in Seq(Line), NEW part, NEW L \in Nat, NEW C \in Nat,
         NEW c \in [1..C -> DOMAIN events], Arranged(events, part, L, C, c),
         NEW p \in DOMAIN part, NEW r \in DOMAIN part,
         part[p].seq # None \/ part[p].kind \notin MetadataKinds,
         part[r].seq # None \/ part[r].kind \notin MetadataKinds
  PROVE  /\ c[p - L] \in DOMAIN events /\ part[p] = events[c[p - L]]
         /\ c[r - L] \in DOMAIN events /\ part[r] = events[c[r - L]]
         /\ p < r <=> c[p - L] < c[r - L]
         /\ Precedes(part, p, r) <=> Precedes(events, c[p - L], c[r - L])
<1>0. DOMAIN part = 1..(L + C) /\ p \in Int /\ r \in Int
  BY DEF Arranged
<1>1. ~ (p \in 1..L) /\ ~ (r \in 1..L)
  BY DEF Arranged
<1>2. p - L \in 1..C /\ L + (p - L) = p /\ r - L \in 1..C /\ L + (r - L) = r
  BY <1>0, <1>1
<1>3. PICK q \in 1..C, u \in 1..C : L + q = p /\ L + u = r /\ q = p - L /\ u = r - L
  BY <1>2
<1>4. /\ c[q] \in DOMAIN events /\ c[u] \in DOMAIN events
      /\ part[p] = events[c[q]] /\ part[r] = events[c[u]]
      /\ q < u <=> c[q] < c[u]
  BY <1>3 DEF Arranged
<1>5. p < r <=> c[q] < c[u]
  BY <1>0, <1>3, <1>4
<1>6. Precedes(part, p, r) <=> Precedes(events, c[q], c[u])
  BY <1>4, <1>5, PrecedesIs
<1>. QED BY <1>3, <1>4, <1>5, <1>6

(* So parts are in sequence in either order, numbered, and above. *)
LEMMA PartKeeps ==
  ASSUME NEW events \in Seq(Line), DepthIsNumbered(events), MetadataIsUnnumbered(events),
         NEW n \in Nat, NEW k \in 1..n, Splits(events, n)
  PROVE  LET part == Part(events, k, n)
         IN  /\ part \in Seq(Line) /\ DepthIsNumbered(part)
             /\ InSequence(events) => InSequence(part)
             /\ Above(events) => Above(part)
             /\ InSortSequence(events) => InSortSequence(part)
<1>1. PICK part : part = Part(events, k, n)
  OBVIOUS
<1>2. PICK L \in Nat, C \in Nat : \E c \in [1..C -> DOMAIN events] : Arranged(events, part, L, C, c)
  BY <1>1, PartIs
<1>3. PICK c \in [1..C -> DOMAIN events] : Arranged(events, part, L, C, c)
  BY <1>2
<1>4. part \in Seq(Line)
  BY <1>3 DEF Arranged
<1>5. ASSUME NEW p \in DOMAIN part, part[p].kind \in Depth
      PROVE  part[p].seq # None
  <2>1. part[p].kind \notin MetadataKinds
    BY <1>5 DEF Depth, MetadataKinds
  <2>2. c[p - L] \in DOMAIN events /\ part[p] = events[c[p - L]]
    BY <1>3, <2>1, NumberedInPart
  <2>. QED BY <1>5, <2>2 DEF DepthIsNumbered
<1>6. ASSUME InSequence(events), NEW p \in DOMAIN part, NEW r \in DOMAIN part,
             p < r, Comparable(part[p], part[r])
      PROVE  part[p].seq <= part[r].seq
  <2>1. /\ c[p - L] \in DOMAIN events /\ part[p] = events[c[p - L]]
        /\ c[r - L] \in DOMAIN events /\ part[r] = events[c[r - L]]
        /\ p < r <=> c[p - L] < c[r - L]
    BY <1>3, <1>6, NumberedInPart DEF Comparable
  <2>. QED BY <1>6, <2>1 DEF InSequence
<1>7. ASSUME InSortSequence(events), NEW p \in DOMAIN part, NEW r \in DOMAIN part,
             Precedes(part, p, r), Comparable(part[p], part[r])
      PROVE  part[p].seq <= part[r].seq
  <2>1. /\ c[p - L] \in DOMAIN events /\ part[p] = events[c[p - L]]
        /\ c[r - L] \in DOMAIN events /\ part[r] = events[c[r - L]]
        /\ Precedes(part, p, r) <=> Precedes(events, c[p - L], c[r - L])
    BY <1>3, <1>7, NumberedInPart DEF Comparable
  <2>. QED BY <1>7, <2>1 DEF InSortSequence
<1>8. ASSUME Above(events), NEW p \in DOMAIN part, NEW r \in DOMAIN part, p < r,
             part[r].kind = "delta", part[p].kind \in Depth, Started(part, r)
      PROVE  part[p].seq < part[r].seq
  <2>0. \A m \in DOMAIN part : part[m].kind \in Depth => part[m].kind \notin MetadataKinds
    BY DEF Depth, MetadataKinds
  <2>1. /\ c[p - L] \in DOMAIN events /\ part[p] = events[c[p - L]]
        /\ c[r - L] \in DOMAIN events /\ part[r] = events[c[r - L]]
        /\ p < r <=> c[p - L] < c[r - L]
    BY <1>3, <1>8, <2>0, NumberedInPart DEF Depth
  <2>2. PICK m \in DOMAIN part : m < r /\ part[m].kind = "snapshot"
    BY <1>8 DEF Started, DepthBefore
  <2>3. /\ c[m - L] \in DOMAIN events /\ part[m] = events[c[m - L]]
        /\ m < r <=> c[m - L] < c[r - L]
    <3>1. part[m].kind \notin MetadataKinds /\ part[r].kind \notin MetadataKinds
      BY <1>8, <2>0, <2>2 DEF Depth
    <3>. m \in DOMAIN part /\ r \in DOMAIN part
      BY <2>2
    <3>2. /\ c[m - L] \in DOMAIN events /\ part[m] = events[c[m - L]]
          /\ m < r <=> c[m - L] < c[r - L]
      BY ONLY events \in Seq(Line), L \in Nat, C \in Nat, c \in [1..C -> DOMAIN events], <1>3, <3>1,
              m \in DOMAIN part, r \in DOMAIN part, NumberedInPart
    <3>. QED BY <3>2
  <2>4. Started(events, c[r - L])
    BY <2>1, <2>2, <2>3 DEF Started, DepthBefore, Depth
  <2>. QED BY <1>8, <2>1, <2>3, <2>4 DEF Above
<1>. QED BY <1>1, <1>4, <1>5, <1>6, <1>7, <1>8 DEF InSequence, InSortSequence, Above, DepthIsNumbered

(* The least n that two integers have: where a rising bound first exceeds. *)
LEMMA OnePart ==
  ASSUME NEW n \in Nat \ {0}, NEW offset \in Int, NEW span \in Int,
         0 <= offset, offset <= span, 0 < span
  PROVE  \E k \in 1..n : \A l \in 1..n : InPart(offset, span, l, n) <=> l = k
<1> DEFINE T == {k \in 1..n : k = n \/ n * offset < k * span}
<1>1. PICK k \in T : \A l \in T : k <= l
  <2>1. T \subseteq Nat /\ n \in T
    OBVIOUS
  <2>. QED BY <2>1, NatMin
<1>2. PICK x \in Int : x = n * offset
  OBVIOUS
<1>3. x <= n * span
  <2>1. PICK d \in Nat : span = offset + d
    <3>1. span - offset \in Nat /\ span = offset + (span - offset)
      OBVIOUS
    <3>. QED BY <3>1
  <2>2. n * span = n * offset + n * d
    BY <2>1
  <2>3. n * d \in Nat
    OBVIOUS
  <2>. QED BY <1>2, <2>2, <2>3
<1>4. \A l, m \in Nat : l <= m => l * span <= m * span
  <2> SUFFICES ASSUME NEW l \in Nat, NEW m \in Nat, l <= m PROVE l * span <= m * span
    OBVIOUS
  <2>1. PICK d \in Nat : m = l + d
    <3>1. m - l \in Nat /\ m = l + (m - l)
      OBVIOUS
    <3>. QED BY <3>1
  <2>2. m * span = l * span + d * span
    BY <2>1
  <2>3. d * span \in Nat /\ l * span \in Int
    OBVIOUS
  <2>. QED BY <2>2, <2>3
<1>5. InPart(offset, span, k, n)
  <2>1. x >= (k - 1) * span
    <3>1. CASE k = 1
      <4>1. (k - 1) * span = 0 /\ n * offset >= 0
        BY <3>1
      <4>. QED BY <1>2, <4>1
    <3>2. CASE k # 1
      <4>1. k - 1 \in 1..n /\ k - 1 # n /\ ~ (k <= k - 1)
        BY <3>2
      <4>2. k - 1 \notin T
        BY <1>1, <4>1
      <4>3. ~ (n * offset < (k - 1) * span)
        BY <4>1, <4>2
      <4>4. (k - 1) * span \in Int
        OBVIOUS
      <4>. QED BY <1>2, <4>3, <4>4
    <3>. QED BY <3>1, <3>2
  <2>. QED BY <1>1, <1>2, <1>3, <2>1 DEF InPart
<1>6. ASSUME NEW l \in 1..n, NEW m \in 1..n, l < m,
             InPart(offset, span, l, n), InPart(offset, span, m, n)
      PROVE  FALSE
  <2>1. l # n /\ m - 1 \in Nat /\ l \in Nat /\ l <= m - 1
    BY <1>6
  <2>2. x < l * span /\ x >= (m - 1) * span
    BY <1>2, <1>6, <2>1 DEF InPart
  <2>3. l * span <= (m - 1) * span
    BY <1>4, <2>1
  <2>4. l * span \in Int /\ (m - 1) * span \in Int
    BY <2>1
  <2>. QED BY <2>2, <2>3, <2>4
<1>7. ASSUME NEW l \in 1..n, InPart(offset, span, l, n)
      PROVE  l = k
  <2>1. k \in 1..n /\ k \in Int /\ l \in Int
    OBVIOUS
  <2>2. ~ (l < k) /\ ~ (k < l)
    BY <1>5, <1>6, <1>7, <2>1
  <2>. QED BY <2>1, <2>2
<1>. HIDE DEF T
<1>8. k \in 1..n
  BY DEF T
<1>. QED BY <1>5, <1>7, <1>8

(* The parts before the last end before the next begins. *)
LEMMA PartsInOrder ==
  ASSUME NEW n \in Nat, NEW k \in 1..(n - 1), NEW x \in Int, NEW y \in Int, NEW span \in Int,
         InPart(x, span, k, n), InPart(y, span, k + 1, n)
  PROVE  x < y
<1>1. n * x < k * span /\ n * y >= (k + 1 - 1) * span
  BY DEF InPart
<1>2. PICK b \in Int : b = k * span
  OBVIOUS
<1>3. (k + 1 - 1) * span = b
  BY <1>2
<1>4. n * x \in Int /\ n * y \in Int /\ n * x < n * y
  BY <1>1, <1>2, <1>3
<1>5. ASSUME y <= x PROVE FALSE
  <2>1. PICK d \in Nat : x = y + d
    <3>1. x - y \in Nat /\ x = y + (x - y)
      BY <1>5
    <3>. QED BY <3>1
  <2>2. n * x = n * y + n * d /\ n * d \in Nat
    BY <2>1
  <2>. QED BY <1>4, <2>2
<1>. QED BY <1>5

(* The times of the data, and how long it lasts. *)
LEMMA TimesType ==
  ASSUME NEW events \in Seq(Line), NEW n \in Nat, Splits(events, n)
  PROVE  LET first == Min(Times(events))
             span  == Max(Times(events)) - first
         IN  /\ first \in Int /\ span \in Int /\ 0 < span
             /\ \A i \in Data(events) : /\ events[i].ts - first \in Int /\ events[i].ts \in Int
                                       /\ 0 <= events[i].ts - first /\ events[i].ts - first <= span
<1>1. \A i \in DOMAIN events : events[i].ts \in Int
  <2>1. \A i \in DOMAIN events : events[i] \in Line
    OBVIOUS
  <2>. QED BY <2>1 DEF Line
<1>2. Data(events) \subseteq DOMAIN events /\ IsFiniteSet(Data(events))
  <2>1. DOMAIN events = 1..Len(events) /\ Len(events) \in Nat
    OBVIOUS
  <2>2. IsFiniteSet(DOMAIN events)
    BY <2>1, FS_Interval
  <2>3. Data(events) \subseteq DOMAIN events
    BY DEF Data
  <2>. QED BY <2>2, <2>3, FS_Subset
<1>3. IsFiniteSet(Times(events))
  <2> DEFINE f == [i \in Data(events) |-> events[i].ts]
  <2>1. IsFiniteSet({f[i] : i \in Data(events)})
    BY <1>2, ValuesAreFinite
  <2>2. Times(events) = {f[i] : i \in Data(events)}
    BY DEF Times
  <2>. QED BY <2>1, <2>2
<1>4. Times(events) \subseteq Int
  BY <1>1, <1>2 DEF Times
<1>5. ~ (Cardinality(Times(events)) < 2)
  BY DEF Splits
<1>6. Times(events) # {}
  <2>1. Cardinality({}) = 0
    BY FS_EmptySet
  <2>. QED BY <1>5, <2>1
<1>7. PICK a \in Int : a = Min(Times(events)) /\ a \in Times(events) /\ \A t \in Times(events) : a <= t
  BY <1>3, <1>4, <1>6, Least
<1>8. PICK b \in Int : b = Max(Times(events)) /\ b \in Times(events) /\ \A t \in Times(events) : t <= b
  BY <1>3, <1>4, <1>6, GreatestInt
<1>9. a # b
  <2> SUFFICES ASSUME a = b PROVE FALSE
    OBVIOUS
  <2>1. Times(events) = {a}
    <3>1. \A t \in Times(events) : t \in Int /\ a <= t /\ t <= a
      BY <1>4, <1>7, <1>8
    <3>2. \A t \in Times(events) : t = a
      BY <3>1
    <3>. QED BY <1>7, <3>2
  <2>2. Cardinality(Times(events)) = 1
    BY <2>1, FS_Singleton
  <2>. QED BY <1>5, <2>2
<1>10. a < b
  BY <1>7, <1>8, <1>9
<1>11. \A i \in Data(events) : events[i].ts \in Times(events) /\ events[i].ts \in Int
  BY <1>1, <1>2 DEF Times
<1>12. \A i \in Data(events) : /\ events[i].ts - a \in Int /\ events[i].ts \in Int
                              /\ 0 <= events[i].ts - a /\ events[i].ts - a <= b - a
  BY <1>7, <1>8, <1>11
<1>. QED BY <1>7, <1>8, <1>10, <1>12

(* A split is a partition. *)
LEMMA PartitionOf ==
  ASSUME recording \in Seq(Line), MetadataIsUnnumbered(recording), NEW n \in Nat \ {0, 1}, Splits(recording, n)
  PROVE  IsPartition(n)
<1>1. PICK first \in Int : first = Min(Times(recording))
  BY TimesType
<1>2. PICK span \in Int : span = Max(Times(recording)) - first
  BY <1>1, TimesType
<1>3. /\ 0 < span
      /\ \A i \in Data(recording) : /\ recording[i].ts - first \in Int /\ recording[i].ts \in Int
                                   /\ 0 <= recording[i].ts - first /\ recording[i].ts - first <= span
  BY <1>1, <1>2, TimesType
<1>4. \A k : Selected(recording, k, n) = {i \in Data(recording) : InPart(recording[i].ts - first, span, k, n)}
  BY <1>1, <1>2 DEF Selected
<1> DEFINE selected == [k \in 1..n |-> Selected(recording, k, n)]
           times == [k \in 1..n |-> {recording[i].ts : i \in selected[k]}]
<1>5. ASSUME NEW k \in 1..n
      PROVE  /\ times[k] \subseteq Int /\ times[k] # {} /\ IsFiniteSet(times[k])
             /\ \A t \in times[k] : InPart(t - first, span, k, n)
  <2>1. times[k] = {recording[i].ts : i \in Selected(recording, k, n)}
    OBVIOUS
  <2>. HIDE DEF times, selected
  <2>2. \A t \in times[k] : InPart(t - first, span, k, n)
    BY <1>4, <2>1
  <2>. QED BY <2>1, <2>2, SelectedType
<1>6. ASSUME NEW i \in Data(recording)
      PROVE  Cardinality({k \in 1..n : i \in selected[k]}) = 1
  <2>1. PICK offset \in Int : offset = recording[i].ts - first
    BY <1>3
  <2>2. PICK k \in 1..n : \A l \in 1..n : InPart(offset, span, l, n) <=> l = k
    <3>1. 0 <= offset /\ offset <= span /\ n \in Nat \ {0}
      BY <1>3, <2>1
    <3>2. 0 < span
      BY <1>3
    <3>. QED BY ONLY <3>1, <3>2, offset \in Int, span \in Int, OnePart
  <2>3. \A l \in 1..n : i \in selected[l] <=> InPart(offset, span, l, n)
    BY <1>4, <2>1
  <2>4. {l \in 1..n : i \in selected[l]} = {k}
    BY <2>2, <2>3
  <2>. QED BY <2>4, FS_Singleton
<1>. HIDE DEF selected
<1>7. ASSUME NEW k \in 1..(n - 1)
      PROVE  Max(times[k]) < Min(times[k + 1])
  <2>0. k \in 1..n /\ k + 1 \in 1..n
    OBVIOUS
  <2>. HIDE DEF times
  <2>1. PICK x \in Int : x = Max(times[k]) /\ x \in times[k]
    BY <1>5, <2>0, GreatestInt
  <2>2. PICK y \in Int : y = Min(times[k + 1]) /\ y \in times[k + 1]
    BY <1>5, <2>0, Least
  <2>3. InPart(x - first, span, k, n) /\ InPart(y - first, span, k + 1, n)
    BY <1>5, <2>0, <2>1, <2>2
  <2>4. x - first < y - first
    BY <2>3, PartsInOrder
  <2>. QED BY <2>1, <2>2, <2>4
<1>8. ASSUME NEW k \in 1..n, NEW event \in ToSet(Moved(recording, k, n))
      PROVE  event.ts < Min(times[k])
  <2>1. PICK m \in DOMAIN Moved(recording, k, n) : event = Moved(recording, k, n)[m]
    BY <1>8 DEF ToSet
  <2>2. times[k] = {recording[i].ts : i \in Selected(recording, k, n)}
    BY DEF selected
  <2>3. event.ts < Min({recording[i].ts : i \in Selected(recording, k, n)})
    BY <2>1, MovedIs
  <2>. QED BY <2>2, <2>3
<1>9. /\ \A i \in Data(recording) : Cardinality({k \in 1..n : i \in selected[k]}) = 1
      /\ \A k \in 1..(n - 1) : Max(times[k]) < Min(times[k + 1])
      /\ \A k \in 1..n : \A event \in ToSet(Moved(recording, k, n)) : event.ts < Min(times[k])
  <2>. HIDE DEF times
  <2>. QED BY <1>6, <1>7, <1>8
<1>. QED BY <1>9 DEF IsPartition, selected

-------------------------------------------------------------------------------
(***************************************************************************)
(* The invariant: depth events and trades are numbered, metadata is not.   *)
(* In which order the numbers come it does not say.                        *)
(***************************************************************************)
Written == [kind : AKind, ts : 0..(MaxTime + MaxSkew + 1), seq : ASequence, fair : Nat \cup {None}]
Numbering(event) == event.kind \in Depth \cup {"trade"} <=> event.seq # None

RecordingInv ==
  /\ recording \in Seq(Written) /\ Len(recording) \in 1..MaxEvents
  /\ now \in 0..MaxTime
  /\ diffed \in FirstSequence..(FirstSequence + Len(recording)) /\ traded \in 0..Len(recording)
  /\ \A i \in DOMAIN recording : Numbering(recording[i])

(* What the constants are. *)
LEMMA Constants ==
  /\ None \notin Int /\ None \notin Range(Complaints) /\ Limit \in Nat
  /\ MaxSkew \in Nat /\ FirstSequence \in Nat /\ MaxTime \in Nat /\ MaxEvents \in Nat /\ MaxEvents >= 2
  /\ FirstSequence + MaxEvents < Limit
  /\ \A lead \in Leads : lead \in Int /\ FirstSequence + lead >= 0 /\ FirstSequence + MaxEvents + lead < Limit
<1>1. /\ None \notin Int /\ None \notin Range(Complaints) /\ Limit \in Nat
      /\ MaxSkew \in Nat /\ FirstSequence \in Nat /\ MaxTime \in Nat /\ MaxEvents \in Nat \ {0, 1}
  BY RecordingToolsAssumption, RecordingsAssumption
<1>2. MaxEvents \in Nat /\ MaxEvents >= 2
  BY <1>1
<1>3. FirstSequence + MaxEvents + 0 < Limit
  BY RecordingsAssumption
<1>4. ASSUME NEW lead \in Leads
      PROVE  lead \in Int /\ FirstSequence + lead >= 0 /\ FirstSequence + MaxEvents + lead < Limit
  BY RecordingsAssumption
<1>. QED BY <1>1, <1>2, <1>3, <1>4

(* The invariant's recordings are lines, and typed. *)
LEMMA WrittenIs ==
  ASSUME NEW events \in Seq(Written)
  PROVE  events \in Seq(Line) /\ events \in Seq(AnEvent)
<1>1. Written \subseteq Line /\ Written \subseteq AnEvent
  BY Constants DEF Written, Line, AnEvent, AKind, ASequence
<1>. QED BY <1>1, SeqMonotonic

(* An event the model writes. *)
LEMMA EventIs ==
  ASSUME NEW kind \in AKind, NEW ts \in 0..(MaxTime + MaxSkew + 1), NEW seq \in ASequence,
         NEW fair \in Nat \cup {None}, kind \in Depth \cup {"trade"} <=> seq # None
  PROVE  /\ Event(kind, ts, seq, fair) \in Written /\ Numbering(Event(kind, ts, seq, fair))
         /\ Event(kind, ts, seq, fair).kind = kind /\ Event(kind, ts, seq, fair).seq = seq
         /\ <<Event(kind, ts, seq, fair)>> \in Seq(Written)
<1>1. Event(kind, ts, seq, fair) \in Written
  BY DEF Event, Written
<1>. QED BY <1>1 DEF Event, Numbering

(* The metadata of a run. *)
LEMMA MetadataIs ==
  ASSUME NEW exchange \in 0..MaxTime, NEW events \in MetadataEvents(exchange)
  PROVE  /\ events \in Seq(Written) /\ Len(events) \in 1..2
         /\ \A m \in 1..Len(events) : Numbering(events[m]) /\ events[m].kind \notin Depth
<1> DEFINE ts == exchange + MaxSkew
<1>1. ts \in 0..(MaxTime + MaxSkew + 1) /\ ts + 1 \in 0..(MaxTime + MaxSkew + 1)
  BY Constants
<1>2. /\ None \in ASequence /\ None \in Nat \cup {None}
      /\ {"spec", "status", "failed"} \subseteq AKind
      /\ \A kind \in {"spec", "status", "failed"} : kind \notin Depth \cup {"trade"}
  BY DEF ASequence, AKind, MetadataKinds, Depth
<1>3. \A kind \in {"spec", "status", "failed"} : \A t \in {ts, ts + 1} :
        NoFair(kind, t) \in Written /\ Numbering(NoFair(kind, t)) /\ NoFair(kind, t).kind = kind
  <2> SUFFICES ASSUME NEW kind \in {"spec", "status", "failed"}, NEW t \in {ts, ts + 1}
               PROVE  NoFair(kind, t) \in Written /\ Numbering(NoFair(kind, t)) /\ NoFair(kind, t).kind = kind
    OBVIOUS
  <2>1. kind \in AKind /\ t \in 0..(MaxTime + MaxSkew + 1) /\ kind \notin Depth \cup {"trade"}
    BY <1>1, <1>2
  <2>2. /\ Event(kind, t, None, None) \in Written /\ Numbering(Event(kind, t, None, None))
        /\ Event(kind, t, None, None).kind = kind
    BY <1>2, <2>1 DEF Event, Written, Numbering
  <2>. QED BY <2>2 DEF NoFair
<1>4. /\ NoFair("spec", ts) \in Written /\ Numbering(NoFair("spec", ts)) /\ NoFair("spec", ts).kind = "spec"
      /\ NoFair("status", ts + 1) \in Written /\ Numbering(NoFair("status", ts + 1))
      /\ NoFair("status", ts + 1).kind = "status"
      /\ NoFair("failed", ts) \in Written /\ Numbering(NoFair("failed", ts)) /\ NoFair("failed", ts).kind = "failed"
  BY <1>3
<1>5. events = <<NoFair("spec", ts), NoFair("status", ts + 1)>> \/ events = <<NoFair("failed", ts)>>
  BY DEF MetadataEvents
<1>. HIDE DEF ts
<1>6. CASE events = <<NoFair("spec", ts), NoFair("status", ts + 1)>>
  <2>1. /\ Len(events) = 2 /\ events[1] = NoFair("spec", ts) /\ events[2] = NoFair("status", ts + 1)
        /\ events \in Seq(Written)
    BY <1>4, <1>6
  <2>. QED BY <1>2, <1>4, <2>1
<1>7. CASE events = <<NoFair("failed", ts)>>
  <2>1. Len(events) = 1 /\ events[1] = NoFair("failed", ts) /\ events \in Seq(Written)
    BY <1>4, <1>7
  <2>. QED BY <1>2, <1>4, <2>1
<1>. QED BY <1>5, <1>6, <1>7

(* The fair price of a mark. *)
LEMMA FairType ==
  ASSUME RecordingInv, NEW kind
  PROVE  FairWith(kind) \in Nat \cup {None}
<1> DEFINE depth == {i \in DOMAIN recording : recording[i].kind \in Depth}
<1>1. DOMAIN recording = 1..Len(recording) /\ Len(recording) \in Nat
  BY DEF RecordingInv
<1>2. IsFiniteSet(DOMAIN recording)
  BY <1>1, FS_Interval
<1>3. Cardinality(depth) \in Nat
  <2>1. IsFiniteSet(depth)
    BY <1>2, FS_Subset
  <2>. QED BY <2>1, FS_CardinalityType
<1>. HIDE DEF depth
<1>4. Cardinality(depth) + (IF kind \in Depth THEN 1 ELSE 0) \in Nat
  BY <1>3
<1>. QED BY <1>4 DEF FairWith, depth

(* The recording as it was is what a longer one begins with. *)
Extends(longer, shorter) ==
  /\ Len(shorter) <= Len(longer)
  /\ \A i \in 1..Len(shorter) : longer[i] = shorter[i]

(* What the recorder writes is well formed and comes at the end. *)
LEMMA WriteAppends ==
  ASSUME RecordingInv, NEW events \in Seq(Written), Len(events) >= 1,
         \A m \in 1..Len(events) : Numbering(events[m]), Write(events)
  PROVE  /\ recording' \in Seq(Written) /\ Len(recording') \in 1..MaxEvents
         /\ Len(recording') = Len(recording) + Len(events)
         /\ Extends(recording', recording)
         /\ \A i \in 1..Len(recording') : i \notin 1..Len(recording) =>
              i - Len(recording) \in 1..Len(events) /\ recording'[i] = events[i - Len(recording)]
         /\ \A i \in DOMAIN recording' : Numbering(recording'[i])
<1>1. /\ recording \in Seq(Written) /\ Len(recording) \in Nat /\ Len(recording) >= 1
      /\ DOMAIN recording = 1..Len(recording) /\ Len(events) \in Nat
      /\ \A i \in DOMAIN recording : Numbering(recording[i])
  BY DEF RecordingInv
<1>2. recording' = recording \o events /\ Len(recording) + Len(events) <= MaxEvents
  BY DEF Write
<1>3. /\ recording' \in Seq(Written) /\ Len(recording') = Len(recording) + Len(events)
      /\ \A i \in 1..(Len(recording) + Len(events)) :
           recording'[i] = IF i <= Len(recording) THEN recording[i] ELSE events[i - Len(recording)]
  BY <1>2, ConcatProperties DEF RecordingInv
<1>4. Len(recording') \in 1..MaxEvents /\ DOMAIN recording' = 1..(Len(recording) + Len(events))
  BY <1>1, <1>2, <1>3, Constants
<1>5. Extends(recording', recording)
  BY <1>1, <1>3 DEF Extends
<1>6. ASSUME NEW i \in 1..Len(recording'), i \notin 1..Len(recording)
      PROVE  i - Len(recording) \in 1..Len(events) /\ recording'[i] = events[i - Len(recording)]
  BY <1>1, <1>3, <1>6
<1>7. ASSUME NEW i \in DOMAIN recording'
      PROVE  Numbering(recording'[i])
  <2>1. CASE i \in 1..Len(recording)
    BY <1>1, <1>3, <1>5, <2>1 DEF Extends
  <2>2. CASE i \notin 1..Len(recording)
    BY <1>3, <1>4, <1>6, <2>2
  <2>. QED BY <2>1, <2>2
<1>. QED BY <1>3, <1>4, <1>5, <1>6, <1>7

(* What is written keeps the invariant, when the sequences count no more than
   the lines. *)
LEMMA WriteKeeps ==
  ASSUME RecordingInv, NEW events \in Seq(Written), Len(events) >= 1,
         \A m \in 1..Len(events) : Numbering(events[m]), Write(events),
         diffed' \in diffed..(diffed + Len(events)), traded' \in traded..(traded + Len(events)),
         now' = now
  PROVE  RecordingInv' /\ Extends(recording', recording)
<1>1. /\ recording' \in Seq(Written) /\ Len(recording') \in 1..MaxEvents
      /\ Len(recording') = Len(recording) + Len(events)
      /\ Extends(recording', recording)
      /\ \A i \in DOMAIN recording' : Numbering(recording'[i])
  BY WriteAppends
<1>2. /\ Len(recording) \in Nat /\ Len(events) \in Nat /\ Len(recording') \in Nat
      /\ diffed \in Int /\ traded \in Nat /\ FirstSequence \in Nat
  BY <1>1, Constants DEF RecordingInv
<1>3. /\ diffed' \in FirstSequence..(FirstSequence + Len(recording')) /\ traded' \in 0..Len(recording')
      /\ now' \in 0..MaxTime
  BY <1>1, <1>2 DEF RecordingInv
<1>. QED BY <1>1, <1>3 DEF RecordingInv

(* One event that is written. *)
LEMMA WriteOne ==
  ASSUME RecordingInv, NEW kind \in AKind, NEW ts \in ExchangeTimes, NEW seq \in 0..(Limit - 1),
         kind \in Depth \cup {"trade"}, Write(<<Event(kind, ts, seq, FairWith(kind))>>),
         diffed' \in diffed..(diffed + 1), traded' \in traded..(traded + 1), now' = now
  PROVE  RecordingInv' /\ Extends(recording', recording)
<1>1. PICK fair \in Nat \cup {None} : fair = FairWith(kind)
  BY FairType
<1>2. ts \in 0..(MaxTime + MaxSkew + 1)
  BY Constants DEF ExchangeTimes, RecordingInv
<1>3. PICK event : event = Event(kind, ts, seq, fair)
  OBVIOUS
<1>4. seq \in ASequence /\ seq # None
  BY Constants DEF ASequence
<1>5. event \in Written /\ Numbering(event)
  BY <1>2, <1>3, <1>4 DEF Event, Written, Numbering
<1>6. PICK events : events = <<event>>
  OBVIOUS
<1>7. /\ events \in Seq(Written) /\ Len(events) = 1 /\ events[1] = event /\ Write(events)
  BY <1>1, <1>3, <1>5, <1>6
<1>8. \A m \in 1..Len(events) : Numbering(events[m])
  BY <1>5, <1>6
<1>9. /\ Len(events) >= 1 /\ traded' \in traded..(traded + Len(events))
      /\ diffed' \in diffed..(diffed + Len(events))
  BY <1>7
<1>. QED BY <1>7, <1>8, <1>9, WriteKeeps

(* A new recording has the invariant. *)
LEMMA InvInit == Init => RecordingInv
<1> SUFFICES ASSUME Init PROVE RecordingInv
  OBVIOUS
<1>1. /\ recording \in MetadataEvents(0) /\ now = 0 /\ diffed = FirstSequence /\ traded = 0
      /\ 0 \in 0..MaxTime /\ FirstSequence \in Nat /\ MaxEvents \in Nat /\ MaxEvents >= 2
  BY Constants DEF Init
<1>2. /\ recording \in Seq(Written) /\ Len(recording) \in 1..2
      /\ \A m \in 1..Len(recording) : Numbering(recording[m]) /\ recording[m].kind \notin Depth
  BY <1>1, MetadataIs
<1>3. DOMAIN recording = 1..Len(recording)
  BY ONLY <1>2
<1>4. Len(recording) \in 1..MaxEvents
  BY ONLY <1>1, <1>2
<1>. QED BY <1>1, <1>2, <1>3, <1>4 DEF RecordingInv, Depth

(* Every step keeps it, and only appends. *)
LEMMA InvStep == RecordingInv /\ [Next]_vars => RecordingInv' /\ Extends(recording', recording)
<1> SUFFICES ASSUME RecordingInv, [Next]_vars
             PROVE  RecordingInv' /\ Extends(recording', recording)
  OBVIOUS
<1>1. /\ Len(recording) \in Nat /\ diffed \in Nat /\ traded \in Nat /\ now \in 0..MaxTime
      /\ diffed >= FirstSequence /\ diffed <= FirstSequence + Len(recording) /\ traded <= Len(recording)
      /\ FirstSequence \in Nat /\ MaxEvents \in Nat /\ FirstSequence + MaxEvents < Limit /\ Limit \in Nat
  BY Constants DEF RecordingInv
<1>2. {"snapshot", "delta", "trade"} \subseteq AKind /\ {"snapshot", "delta", "trade"} = Depth \cup {"trade"}
  BY DEF AKind, Depth
<1>3. CASE Diff
  <2>1. PICK ts \in ExchangeTimes, seq \in FirstSequence..(diffed + 1) :
          /\ Write(<<Event("delta", ts, seq, FairWith("delta"))>>)
          /\ diffed' = IF seq > diffed THEN seq ELSE diffed
    BY <1>3 DEF Diff
  <2>2. Len(recording) + 1 <= MaxEvents
    <3>1. Len(<<Event("delta", ts, seq, FairWith("delta"))>>) = 1
      OBVIOUS
    <3>. QED BY <2>1, <3>1 DEF Write
  <2>3. /\ seq \in 0..(Limit - 1) /\ diffed' \in diffed..(diffed + 1)
        /\ traded' \in traded..(traded + 1) /\ now' = now
    BY <1>1, <1>3, <2>1, <2>2 DEF Diff
  <2>. QED BY <1>2, <2>1, <2>3, WriteOne
<1>4. CASE Whole
  <2>1. PICK ts \in ExchangeTimes, lead \in Leads :
          Write(<<Event("snapshot", ts, diffed + lead, FairWith("snapshot"))>>)
    BY <1>4 DEF Whole
  <2>2. Len(recording) + 1 <= MaxEvents
    <3>1. Len(<<Event("snapshot", ts, diffed + lead, FairWith("snapshot"))>>) = 1
      OBVIOUS
    <3>. QED BY <2>1, <3>1 DEF Write
  <2>3. lead \in Int /\ FirstSequence + lead >= 0 /\ FirstSequence + MaxEvents + lead < Limit
    BY Constants
  <2>4. /\ diffed + lead \in 0..(Limit - 1) /\ diffed' \in diffed..(diffed + 1)
        /\ traded' \in traded..(traded + 1) /\ now' = now
    BY <1>1, <1>4, <2>2, <2>3 DEF Whole
  <2>. QED BY <1>2, <2>1, <2>4, WriteOne
<1>5. CASE Transactions
  <2>1. PICK ids \in {<<1>>, <<1, 2>>, <<2, 1>>} : \E ts \in [DOMAIN ids -> ExchangeTimes] :
          /\ Write([m \in DOMAIN ids |-> Event("trade", ts[m], traded + ids[m], FairWith("trade"))])
          /\ traded' = traded + Len(ids)
    BY <1>5 DEF Transactions
  <2>1a. PICK ts \in [DOMAIN ids -> ExchangeTimes] :
          /\ Write([m \in DOMAIN ids |-> Event("trade", ts[m], traded + ids[m], FairWith("trade"))])
          /\ traded' = traded + Len(ids)
    BY <2>1
  <2>2. PICK events : events = [m \in DOMAIN ids |-> Event("trade", ts[m], traded + ids[m], FairWith("trade"))]
    OBVIOUS
  <2>3. PICK fair \in Nat \cup {None} : fair = FairWith("trade")
    BY FairType
  <2>4. /\ Len(ids) \in 1..2 /\ DOMAIN ids = 1..Len(ids)
        /\ \A m \in 1..Len(ids) : ids[m] \in 1..Len(ids)
    <3>1. CASE ids = <<1>>
      BY <3>1
    <3>2. CASE ids = <<1, 2>>
      BY <3>2
    <3>3. CASE ids = <<2, 1>>
      BY <3>3
    <3>. QED BY <3>1, <3>2, <3>3
  <2>5. \A m \in 1..Len(ids) : ts[m] \in 0..(MaxTime + MaxSkew + 1)
    <3>1. ExchangeTimes \subseteq 0..(MaxTime + MaxSkew + 1)
      BY <1>1, Constants DEF ExchangeTimes
    <3>. QED BY <2>4, <3>1
  <2>6. events = [m \in 1..Len(ids) |-> Event("trade", ts[m], traded + ids[m], fair)]
    BY <2>2, <2>3, <2>4
  <2>7. Len(events) = Len(ids) /\ Len(recording) + Len(ids) <= MaxEvents
    <3>1. Len(events) = Len(ids)
      BY <2>4, <2>6
    <3>. QED BY <2>1a, <2>2, <3>1 DEF Write
  <2>8. ASSUME NEW m \in 1..Len(ids)
        PROVE  events[m] \in Written /\ Numbering(events[m])
    <3>1. traded + ids[m] \in 0..(Limit - 1)
      BY <1>1, <2>4, <2>7
    <3>2. traded + ids[m] \in ASequence /\ traded + ids[m] # None
      BY <3>1, Constants DEF ASequence
    <3>3. PICK seq \in ASequence : seq = traded + ids[m] /\ seq # None
      BY <3>2
    <3>4. PICK t \in 0..(MaxTime + MaxSkew + 1) : t = ts[m]
      BY <2>5
    <3>5. events[m] = Event("trade", t, seq, fair)
      BY <2>6, <3>3, <3>4
    <3>. QED BY <1>2, <3>3, <3>5 DEF Event, Written, Numbering
  <2>9. events \in Seq(Written)
    BY <2>4, <2>6, <2>8
  <2>10. /\ \A m \in 1..Len(events) : Numbering(events[m])
         /\ Write(events) /\ Len(events) >= 1
         /\ traded' \in traded..(traded + Len(events)) /\ now' = now
         /\ diffed' \in diffed..(diffed + Len(events))
    <3>1. \A m \in 1..Len(events) : Numbering(events[m])
      BY <2>7, <2>8
    <3>2. Write(events) /\ traded' = traded + Len(events)
      BY <2>1a, <2>2, <2>7
    <3>3. now' = now /\ diffed' = diffed
      BY <1>5 DEF Transactions
    <3>4. Len(events) \in 1..2
      BY <2>4, <2>7
    <3>5. /\ Len(events) >= 1 /\ traded' \in traded..(traded + Len(events))
          /\ diffed' \in diffed..(diffed + Len(events))
      <4>1. PICK l \in 1..2, t \in Nat, d \in Nat : l = Len(events) /\ t = traded /\ d = diffed
        BY <1>1, <3>4
      <4>2. l >= 1 /\ t + l \in t..(t + l) /\ d \in d..(d + l)
        OBVIOUS
      <4>. QED BY <3>2, <3>3, <4>1, <4>2
    <3>. QED BY <3>1, <3>2, <3>3, <3>5
  <2>. QED BY <2>9, <2>10, WriteKeeps
<1>6. CASE Restart
  <2>1. PICK metadata \in MetadataEvents(now) :
          Write([m \in DOMAIN metadata |-> [metadata[m] EXCEPT !.fair = FairWith("status")]])
    BY <1>6 DEF Restart
  <2>2. PICK fair \in Nat \cup {None} : fair = FairWith("status")
    BY FairType
  <2>3. PICK events : events = [m \in DOMAIN metadata |-> [metadata[m] EXCEPT !.fair = fair]]
    OBVIOUS
  <2>4. /\ metadata \in Seq(Written) /\ Len(metadata) \in 1..2
        /\ \A m \in 1..Len(metadata) : Numbering(metadata[m]) /\ metadata[m].kind \notin Depth
    BY <1>1, MetadataIs
  <2>5. events = [m \in 1..Len(metadata) |-> [metadata[m] EXCEPT !.fair = fair]] /\ Len(events) = Len(metadata)
    BY <2>3, <2>4
  <2>6. ASSUME NEW m \in 1..Len(metadata)
        PROVE  events[m] \in Written /\ Numbering(events[m])
    <3>1. metadata[m] \in Written /\ events[m] = [metadata[m] EXCEPT !.fair = fair]
      BY <2>4, <2>5
    <3>2. /\ events[m] \in Written
          /\ events[m].kind = metadata[m].kind /\ events[m].seq = metadata[m].seq
      BY <3>1 DEF Written
    <3>. QED BY <2>4, <3>2 DEF Numbering, Depth
  <2>7. events \in Seq(Written)
    BY <2>4, <2>5, <2>6
  <2>8. /\ \A m \in 1..Len(events) : Numbering(events[m])
        /\ Write(events) /\ Len(events) >= 1
        /\ traded' \in traded..(traded + Len(events)) /\ now' = now
        /\ diffed' \in diffed..(diffed + Len(events))
    BY <1>1, <1>6, <2>1, <2>2, <2>3, <2>4, <2>5, <2>6 DEF Restart
  <2>. QED BY <2>7, <2>8, WriteKeeps
<1>7. CASE Tick
  <2>1. now' \in 0..MaxTime /\ recording' = recording /\ diffed' = diffed /\ traded' = traded
    BY <1>1, <1>7, Constants DEF Tick
  <2>. QED BY <1>1, <2>1 DEF RecordingInv, Extends
<1>8. CASE UNCHANGED vars
  BY <1>1, <1>8 DEF vars, RecordingInv, Extends
<1>. QED BY <1>3, <1>4, <1>5, <1>6, <1>7, <1>8 DEF Next

(* Every reachable recording has the invariant. *)
LEMMA InvAlways == Spec => []RecordingInv
BY InvInit, InvStep, PTL DEF Spec

-------------------------------------------------------------------------------
(***************************************************************************)
(* What the tools say.                                                     *)
(***************************************************************************)

(* The invariant's recordings are what the lemmas above are about. *)
LEMMA InvLines ==
  ASSUME RecordingInv
  PROVE  /\ recording \in Seq(Line) /\ recording \in Seq(AnEvent)
         /\ DepthIsNumbered(recording) /\ MetadataIsUnnumbered(recording)
         /\ Len(recording) \in Nat /\ Len(recording) >= 1
         /\ DOMAIN recording = 1..Len(recording)
         /\ \A i \in DOMAIN recording : recording[i].ts \in 0..(MaxTime + MaxSkew + 1)
<1>1. recording \in Seq(Written) /\ Len(recording) \in 1..MaxEvents
  BY DEF RecordingInv
<1>2. DepthIsNumbered(recording)
  BY DEF RecordingInv, DepthIsNumbered, Numbering
<1>3. MetadataIsUnnumbered(recording)
  BY DEF RecordingInv, MetadataIsUnnumbered, Numbering, MetadataKinds, Depth
<1>4. \A i \in DOMAIN recording : recording[i] \in Written
  BY <1>1
<1>5. \A i \in DOMAIN recording : recording[i].ts \in 0..(MaxTime + MaxSkew + 1)
  BY <1>4 DEF Written
<1>. QED BY <1>1, <1>2, <1>3, <1>5, WrittenIs, Constants

(* The duration reported is between two lines of the recording. *)
LEMMA DurationIs ==
  ASSUME NEW events, NEW a \in Int, NEW b \in Int, Head(events).ts = a, Last(events).ts = b
  PROVE  Duration(events) = IF a <= b THEN b - a ELSE 0
<1>1. IsFiniteSet({0, b - a}) /\ {0, b - a} \subseteq Int /\ {0, b - a} # {}
  <2>1. IsFiniteSet({0}) /\ {0} \cup {b - a} = {0, b - a}
    BY FS_Singleton
  <2>2. IsFiniteSet({0} \cup {b - a})
    BY <2>1, FS_AddElement
  <2>. QED BY <2>1, <2>2
<1>2. PICK x : x = Max({0, b - a})
  OBVIOUS
<1>3. x \in {0, b - a} /\ \A y \in {0, b - a} : y <= x
  BY <1>1, <1>2, GreatestInt
<1>4. Duration(events) = x
  BY <1>2 DEF Duration
<1>. QED BY <1>3, <1>4

(* The invariant types the recording and what the tools say of it. *)
LEMMA InvTypes ==
  ASSUME RecordingInv
  PROVE  TypeOK
<1>1. PICK n \in Nat : n = Len(recording) /\ n >= 1
  BY InvLines
<1>2. /\ Head(recording) = recording[1] /\ Last(recording) = recording[n]
      /\ 1 \in DOMAIN recording /\ n \in DOMAIN recording
  BY <1>1, InvLines DEF Last
<1>3. PICK a \in 0..(MaxTime + MaxSkew + 1), b \in 0..(MaxTime + MaxSkew + 1) :
        a = recording[1].ts /\ b = recording[n].ts
  BY <1>2, InvLines
<1>4. Duration(recording) = IF a <= b THEN b - a ELSE 0
  <2>1. a \in Int /\ b \in Int
    OBVIOUS
  <2>. QED BY <1>2, <1>3, <2>1, DurationIs
<1>5. Duration(recording) \in 0..(MaxTime + MaxSkew + 1)
  BY <1>4, Constants
<1>6. diffed \in Nat /\ traded \in Nat
  BY Constants DEF RecordingInv
<1>. QED BY <1>5, <1>6, InvLines DEF TypeOK, RecordingInv

(* A recording and the duration reported of it are typed. *)
THEOREM RecordingsTypeCorrect == Spec => []TypeOK
<1>1. RecordingInv => TypeOK
  BY InvTypes
<1>. QED BY <1>1, InvAlways, PTL

(* A split by exchange time loses nothing and repeats nothing, and its parts
   are one after the other, each behind its metadata. *)
THEOREM SplitsArePartitions == Spec => []SplitIsAPartition
<1>1. ASSUME RecordingInv PROVE SplitIsAPartition
  <2> SUFFICES ASSUME NEW n \in PartCounts, Splits(recording, n)
               PROVE  IsPartition(n)
    BY DEF SplitIsAPartition
  <2>1. n \in Nat \ {0, 1}
    BY RecordingsAssumption
  <2>. QED BY <1>1, <2>1, InvLines, PartitionOf
<1>. QED BY <1>1, InvAlways, PTL

(* A stable sort by exchange time, with sequences as strings, keeps what
   strict replay accepts. *)
THEOREM SortingKeepsAcceptance == Spec => []SortKeepsAcceptance
<1>1. ASSUME RecordingInv PROVE SortKeepsAcceptance
  BY <1>1, InvLines, SortKeepsSequence
<1>. QED BY <1>1, InvAlways, PTL

(* What has no violation and is accepted is so in all its parts. *)
LEMMA PartsKeepTheVerdict ==
  ASSUME RecordingInv
  PROVE  SplitKeepsTheVerdict
<1> SUFFICES ASSUME NEW n \in PartCounts
             PROVE  /\ Sound(recording) /\ Splits(recording, n) =>
                          \A k \in 1..n : Sound(Part(recording, k, n))
                    /\ \A order \in Orders :
                          PublicDataGate(recording, order, n, MinDuration) # "split_replay"
  BY DEF SplitKeepsTheVerdict
<1>1. n \in Nat
  BY RecordingsAssumption
<1>2. recording \in Seq(Line) /\ DepthIsNumbered(recording) /\ MetadataIsUnnumbered(recording)
  BY InvLines
<1>3. ASSUME Splits(recording, n), NEW k \in 1..n
      PROVE  /\ Sound(recording) => Sound(Part(recording, k, n))
             /\ Accepted(recording) => Accepted(Part(recording, k, n))
             /\ Accepted(ExchangeTimeSorted(recording)) => Accepted(ExchangeTimeSorted(Part(recording, k, n)))
  <2>1. PICK part : part = Part(recording, k, n)
    OBVIOUS
  <2>2. /\ part \in Seq(Line) /\ DepthIsNumbered(part)
        /\ InSequence(recording) => InSequence(part)
        /\ Above(recording) => Above(part)
        /\ InSortSequence(recording) => InSortSequence(part)
    BY <1>1, <1>2, <1>3, <2>1, PartKeeps
  <2>3. Sound(recording) => Sound(part)
    BY <1>2, <2>2, SoundIs
  <2>4. Accepted(recording) => Accepted(part)
    BY <1>2, <2>2, AcceptedIsInSequence
  <2>5. Accepted(ExchangeTimeSorted(recording)) => Accepted(ExchangeTimeSorted(part))
    BY <1>2, <2>2, SortedIsInSequence
  <2>. QED BY <2>1, <2>3, <2>4, <2>5
<1>4. ASSUME NEW order \in Orders, PublicDataGate(recording, order, n, MinDuration) = "split_replay"
      PROVE  FALSE
  <2>1. Accepted(Ordered(recording, order)) /\ SplitStage(recording, order, n) = "split_replay"
    BY <1>4 DEF PublicDataGate
  <2>2. Splits(recording, n) /\ \E k \in 1..n : ~ Accepted(Ordered(Part(recording, k, n), order))
    BY <2>1 DEF SplitStage
  <2>3. \A k \in 1..n : Accepted(Ordered(recording, order)) => Accepted(Ordered(Part(recording, k, n), order))
    BY <1>3, <2>2 DEF Ordered
  <2>. QED BY <2>1, <2>2, <2>3
<1>. QED BY <1>3, <1>4

(* The parts of a sound recording are sound, and a recording that is replayed
   whole, in either order, is replayed in parts. *)
THEOREM SplittingKeepsTheVerdict == Spec => []SplitKeepsTheVerdict
<1>1. RecordingInv => SplitKeepsTheVerdict
  BY PartsKeepTheVerdict
<1>. QED BY <1>1, InvAlways, PTL

(* Strict replay and the inspection disagree on a delta only when it comes
   before all snapshots or repeats the sequence before it. *)
LEMMA VerdictsAgree ==
  ASSUME RecordingInv
  PROVE  VerdictsAgreeOnDeltas
<1>1. /\ recording \in Seq(Line) /\ DepthIsNumbered(recording)
      /\ Len(recording) \in Nat /\ DOMAIN recording = 1..Len(recording)
  BY InvLines
<1>2. /\ Accepted(recording) <=> InSequence(recording)
      /\ Violations(recording) \in Nat
      /\ Violations(recording) = 0 <=> \A i \in DOMAIN recording : ~ Counted(recording, i)
  BY <1>1, AcceptedIsInSequence, CountedAre
<1>3. \A i \in DOMAIN recording :
        /\ Numbering(recording[i]) /\ recording[i].kind \in AKind
        /\ recording[i].seq # None => recording[i].seq \in Int
  <2>1. \A i \in DOMAIN recording : recording[i] \in Line
    BY <1>1
  <2>. QED BY <2>1 DEF RecordingInv, Line, ASequence
<1>4. ASSUME NEW i \in DOMAIN recording, recording[i].kind \in Depth
      PROVE  /\ Numbered(recording, i) = DepthBefore(recording, i)
             /\ DepthBefore(recording, i) # {} =>
                  /\ Max(DepthBefore(recording, i)) \in DepthBefore(recording, i)
                  /\ \A j \in DepthBefore(recording, i) : j <= Max(DepthBefore(recording, i))
  <2>1. ASSUME NEW j \in DOMAIN recording
        PROVE  recording[j].seq # None /\ Stream(recording[j]) = Stream(recording[i])
                 <=> recording[j].kind \in Depth
    BY <1>3, <1>4 DEF Stream, Numbering, AKind, MetadataKinds, Depth
  <2>2. \A j : j \in 1..(i - 1) <=> j \in DOMAIN recording /\ j < i
    BY <1>1
  <2>3. Numbered(recording, i) = DepthBefore(recording, i)
    BY <2>1, <2>2 DEF Numbered, DepthBefore
  <2>4. DepthBefore(recording, i) \subseteq 1..Len(recording)
    BY <1>1 DEF DepthBefore
  <2>. QED BY <1>1, <2>3, <2>4, Greatest
<1>5. ASSUME Violations(recording) = 0, NEW i \in Rejected(recording),
             recording[i].kind \notin {"snapshot", "trade"}, ~ BeforeSnapshots(i)
      PROVE  FALSE
  <2>1. /\ i \in DOMAIN recording /\ recording[i].seq # None /\ Numbered(recording, i) # {}
        /\ recording[i].seq < recording[Max(Numbered(recording, i))].seq
    BY DEF Rejected
  <2>2. recording[i].kind = "delta"
    BY <1>3, <1>5, <2>1 DEF Numbering, Depth
  <2>3. PICK j \in 1..(i - 1) : recording[j].kind = "snapshot"
    BY <1>5, <2>2 DEF BeforeSnapshots
  <2>4. Started(recording, i)
    <3>1. j \in DOMAIN recording /\ j < i
      BY <1>1, <2>1, <2>3
    <3>. QED BY <2>3, <3>1 DEF Started, DepthBefore, Depth
  <2>5. PICK m : m = Max(Numbered(recording, i))
    OBVIOUS
  <2>6. m \in DOMAIN recording /\ recording[m].kind \in Depth /\ m = Max(DepthBefore(recording, i))
    BY <1>4, <2>1, <2>2, <2>5 DEF DepthBefore, Depth
  <2>7. recording[i].seq \in Int /\ recording[m].seq \in Int /\ recording[i].seq < recording[m].seq
    BY <1>3, <2>1, <2>5, <2>6 DEF Numbering
  <2>8. Counted(recording, i)
    BY <2>2, <2>4, <2>6, <2>7 DEF Counted
  <2>. QED BY <1>2, <1>5, <2>1, <2>8
<1>6. ASSUME Accepted(recording), Violations(recording) > 0
      PROVE  \E i \in DOMAIN recording : Repeats(i)
  <2>1. PICK i \in DOMAIN recording : Counted(recording, i)
    BY <1>2, <1>6
  <2>2. /\ recording[i].kind = "delta" /\ DepthBefore(recording, i) # {}
        /\ recording[i].seq <= recording[Max(DepthBefore(recording, i))].seq
    BY <2>1 DEF Counted, Started
  <2>3. PICK m : m = Max(Numbered(recording, i))
    OBVIOUS
  <2>4. /\ Numbered(recording, i) # {} /\ m = Max(DepthBefore(recording, i))
        /\ m \in DOMAIN recording /\ m < i /\ recording[m].kind \in Depth
    BY <1>4, <2>2, <2>3 DEF DepthBefore, Depth
  <2>5. recording[i].seq \in Int /\ recording[m].seq \in Int
    BY <1>3, <2>2, <2>4 DEF Numbering, Depth
  <2>6. recording[m].seq <= recording[i].seq
    BY <1>2, <1>3, <1>6, <2>2, <2>4 DEF InSequence, Comparable, Stream, Numbering, Depth
  <2>7. recording[m].seq = recording[i].seq
    BY <2>2, <2>4, <2>5, <2>6
  <2>8. Repeats(i)
    BY <2>2, <2>3, <2>4, <2>7 DEF Repeats
  <2>. QED BY <2>8
<1>. QED BY <1>5, <1>6 DEF VerdictsAgreeOnDeltas, OkForReplay

(* Whatever is late, repeated or out of order: replay refuses no delta of a
   recording that is ok_for_replay but one before all snapshots, and the
   inspection counts none of an accepted one but a repeated sequence. *)
THEOREM VerdictsAgreeCorrect == Spec => []VerdictsAgreeOnDeltas
<1>1. RecordingInv => VerdictsAgreeOnDeltas
  BY VerdictsAgree
<1>. QED BY <1>1, InvAlways, PTL

-------------------------------------------------------------------------------
(***************************************************************************)
(* What growth keeps.                                                      *)
(***************************************************************************)

(* A price that has a mark at its horizon keeps that mark. *)
LEMMA MarkoutStays ==
  ASSUME NEW events \in Seq(Line), NEW longer \in Seq(Line), Extends(longer, events), NEW t,
         Reaching(events, t) # {}
  PROVE  FairAfter(longer, t) = FairAfter(events, t)
<1>1. /\ Len(events) \in Nat /\ DOMAIN events = 1..Len(events)
      /\ Len(longer) \in Nat /\ DOMAIN longer = 1..Len(longer)
  OBVIOUS
<1>2. \A i : i \in Reaching(events, t) <=> i \in 1..Len(events) /\ i \in Reaching(longer, t)
  BY <1>1 DEF Extends, Reaching, Marks
<1>3. /\ Reaching(longer, t) \subseteq 1..Len(longer) /\ IsFiniteSet(1..Len(longer))
      /\ Reaching(events, t) \subseteq Reaching(longer, t)
  <2>1. IsFiniteSet(1..Len(longer))
    BY <1>1, FS_Interval
  <2>2. Reaching(longer, t) \subseteq 1..Len(longer)
    BY <1>1 DEF Reaching, Marks
  <2>. QED BY <1>2, <2>1, <2>2
<1>4. IsFiniteSet(Reaching(longer, t)) /\ IsFiniteSet(Reaching(events, t))
  <2>1. IsFiniteSet(Reaching(longer, t))
    BY <1>3, FS_Subset
  <2>. QED BY <1>3, <2>1, FS_Subset
<1>5. PICK a : a = Min(Reaching(events, t)) /\ a \in Reaching(events, t) /\ \A i \in Reaching(events, t) : a <= i
  <2>1. Reaching(events, t) \subseteq Int
    BY <1>3
  <2>. QED BY <1>4, <2>1, Least
<1>6. PICK b : b = Min(Reaching(longer, t)) /\ b \in Reaching(longer, t) /\ \A i \in Reaching(longer, t) : b <= i
  <2>1. Reaching(longer, t) \subseteq Int /\ Reaching(longer, t) # {}
    BY <1>3
  <2>. QED BY <1>4, <2>1, Least
<1>7. a \in 1..Len(events) /\ b \in 1..Len(longer) /\ b <= a
  BY <1>2, <1>3, <1>5, <1>6
<1>8. b \in Reaching(events, t)
  BY <1>1, <1>2, <1>6, <1>7
<1>9. a = b
  BY <1>1, <1>5, <1>7, <1>8
<1>10. longer[a] = events[a]
  BY <1>7 DEF Extends
<1>. QED BY <1>3, <1>5, <1>6, <1>9, <1>10 DEF FairAfter

(* A fill's fair_after price never changes once a mark has reached its
   horizon. *)
THEOREM MarkoutsAreFinal == Spec => SettledMarkoutsStay
<1>1. ASSUME RecordingInv, [Next]_vars
      PROVE  \A i \in Fills, h \in Horizons :
               Settled(i, h) => FairAfter(recording', recording[i].ts + h)
                              = FairAfter(recording, recording[i].ts + h)
  <2>1. RecordingInv' /\ Extends(recording', recording) /\ recording \in Seq(Line)
    BY <1>1, InvStep, InvLines
  <2>2. recording' \in Seq(Line)
    BY <2>1, WrittenIs DEF RecordingInv
  <2>. QED BY <2>1, <2>2, MarkoutStays DEF Settled
<1>. QED BY <1>1, InvAlways, PTL DEF Spec, SettledMarkoutsStay

(* A recording that grows in order stays ok_for_replay, accepted and at least
   as long. *)
LEMMA GrowthInOrder ==
  ASSUME NEW events \in Seq(Line), NEW longer \in Seq(Line), Extends(longer, events), Len(events) >= 1,
         DepthIsNumbered(events), DepthIsNumbered(longer), Last(longer).ts >= Last(events).ts,
         \A i \in DOMAIN longer \ DOMAIN events : InOrder(longer, i)
  PROVE  /\ OkForReplay(events) => OkForReplay(longer)
         /\ Accepted(events) => Accepted(longer)
         /\ Duration(events) \in Int /\ Duration(longer) \in Int /\ Duration(events) <= Duration(longer)
<1>1. /\ Len(events) \in Nat /\ DOMAIN events = 1..Len(events)
      /\ Len(longer) \in Nat /\ DOMAIN longer = 1..Len(longer) /\ Len(events) <= Len(longer)
      /\ DOMAIN events \subseteq DOMAIN longer /\ \A i \in DOMAIN events : longer[i] = events[i]
  BY DEF Extends
<1>2. \A i \in DOMAIN longer : longer[i] \in Line
  OBVIOUS
<1>3. \A i \in DOMAIN longer : longer[i].seq # None => longer[i].seq \in Int
  BY <1>2, Constants DEF Line, ASequence
<1>4. ASSUME NEW i \in DOMAIN longer \ DOMAIN events, NEW j \in DOMAIN longer, j < i,
             Comparable(longer[j], longer[i])
      PROVE  IF longer[i].kind = "delta" THEN longer[j].seq < longer[i].seq
                                         ELSE longer[j].seq <= longer[i].seq
  <2>1. j \in Numbered(longer, i)
    BY <1>1, <1>4 DEF Numbered, Comparable
  <2>. QED BY <1>4, <2>1 DEF InOrder, Comparable
<1>5. ASSUME InSequence(events)
      PROVE  InSequence(longer)
  <2> SUFFICES ASSUME NEW i \in DOMAIN longer, NEW j \in DOMAIN longer,
                      j < i, Comparable(longer[j], longer[i])
               PROVE  longer[j].seq <= longer[i].seq
    BY DEF InSequence
  <2>1. CASE i \in DOMAIN events
    <3>1. j \in DOMAIN events
      BY <1>1, <2>1
    <3>. QED BY <1>1, <1>5, <2>1, <3>1 DEF InSequence
  <2>2. CASE i \notin DOMAIN events
    <3>1. longer[i].seq \in Int /\ longer[j].seq \in Int
      BY <1>3 DEF Comparable
    <3>2. longer[j].seq < longer[i].seq \/ longer[j].seq <= longer[i].seq
      BY <1>4, <2>2
    <3>. QED BY <3>1, <3>2
  <2>. QED BY <2>1, <2>2
<1>6. ASSUME NEW i \in DOMAIN longer, Counted(longer, i)
      PROVE  i \in DOMAIN events /\ Counted(events, i)
  <2>1. /\ longer[i].kind = "delta" /\ DepthBefore(longer, i) # {} /\ Started(longer, i)
        /\ longer[i].seq <= longer[Max(DepthBefore(longer, i))].seq
    BY <1>6 DEF Counted, Started
  <2>2. PICK m : m = Max(DepthBefore(longer, i))
    OBVIOUS
  <2>3. m \in DOMAIN longer /\ m < i /\ longer[m].kind \in Depth
    <3>1. DepthBefore(longer, i) \subseteq 1..Len(longer)
      BY <1>1 DEF DepthBefore
    <3>2. m \in DepthBefore(longer, i)
      BY <1>1, <2>1, <2>2, <3>1, Greatest
    <3>. QED BY <3>2 DEF DepthBefore
  <2>4. i \in DOMAIN events
    <3> SUFFICES ASSUME i \notin DOMAIN events PROVE FALSE
      OBVIOUS
    <3>1. Comparable(longer[m], longer[i])
      BY <2>1, <2>3 DEF Comparable, Stream, Depth, DepthIsNumbered
    <3>2. longer[m].seq < longer[i].seq
      BY <1>4, <2>1, <2>3, <3>1
    <3>. QED BY <1>3, <2>1, <2>2, <2>3, <3>1, <3>2 DEF Comparable
  <2>5. DepthBefore(longer, i) = DepthBefore(events, i)
    BY <1>1, <2>4 DEF DepthBefore
  <2>6. \A j \in DepthBefore(longer, i) : longer[j] = events[j]
    BY <1>1, <2>5 DEF DepthBefore
  <2>7. Started(events, i)
    BY <2>1, <2>5, <2>6 DEF Started
  <2>8. m \in DOMAIN events
    BY <1>1, <2>3, <2>4
  <2>. QED BY <1>1, <2>1, <2>2, <2>4, <2>5, <2>7, <2>8 DEF Counted
<1>7. Violations(events) = 0 => Violations(longer) = 0
  BY <1>6, CountedAre
<1>8. Kinds(events) \subseteq Kinds(longer)
  BY <1>1 DEF Kinds
<1>9. "failed" \notin Kinds(events) => "failed" \notin Kinds(longer)
  <2>1. ASSUME NEW i \in DOMAIN longer, longer[i].kind = "failed"
        PROVE  i \in DOMAIN events /\ events[i].kind = "failed"
    BY <1>1, <2>1 DEF InOrder
  <2>. QED BY <2>1 DEF Kinds
<1>10. OkForReplay(events) => OkForReplay(longer)
  BY <1>7, <1>8, <1>9 DEF OkForReplay
<1>11. Accepted(events) => Accepted(longer)
  BY <1>5, AcceptedIsInSequence
<1>12. /\ Duration(events) \in Int /\ Duration(longer) \in Int /\ Duration(events) <= Duration(longer)
  <2>1. /\ Head(events) = events[1] /\ Head(longer) = longer[1] /\ longer[1] = events[1]
        /\ Last(events) = events[Len(events)] /\ Last(longer) = longer[Len(longer)]
        /\ 1 \in DOMAIN longer /\ Len(longer) \in DOMAIN longer /\ Len(events) \in DOMAIN longer
        /\ longer[Len(events)] = events[Len(events)]
    BY <1>1 DEF Last
  <2>2. \A i \in DOMAIN longer : longer[i].ts \in Int
    BY <1>2 DEF Line
  <2>3. PICK a \in Int, b \in Int, c \in Int :
          /\ a = longer[1].ts /\ b = longer[Len(events)].ts /\ c = longer[Len(longer)].ts
    BY <2>1, <2>2
  <2>4. b <= c
    BY <2>1, <2>3
  <2>5. /\ Duration(events) = IF a <= b THEN b - a ELSE 0
        /\ Duration(longer) = IF a <= c THEN c - a ELSE 0
    BY <2>1, <2>3, DurationIs
  <2>6. /\ (IF a <= b THEN b - a ELSE 0) \in Int /\ (IF a <= c THEN c - a ELSE 0) \in Int
        /\ (IF a <= b THEN b - a ELSE 0) <= (IF a <= c THEN c - a ELSE 0)
    BY <2>4
  <2>. QED BY ONLY <2>5, <2>6
<1>. QED BY <1>10, <1>11, <1>12

(* When the status has no complaint. *)
LEMMA StatusIs ==
  ASSUME NEW events, NEW m \in Nat
  PROVE  StatusReason(events, FALSE, FALSE, TRUE, m) = None <=>
           OkForReplay(events) /\ ~ (Duration(events) < m)
<1>1. m # None /\ None \notin Range(Complaints)
  BY Constants
<1>2. PICK bad \in BOOLEAN : bad <=> ~ OkForReplay(events)
  OBVIOUS
<1>3. PICK brief \in BOOLEAN : brief <=> Duration(events) < m
  OBVIOUS
<1>4. PICK applies : applies = <<FALSE, FALSE, FALSE, bad, brief>>
  OBVIOUS
<1> DEFINE given == {n \in DOMAIN Complaints : applies[n]}
<1>5. StatusReason(events, FALSE, FALSE, TRUE, m) = IF given = {} THEN None ELSE Complaints[Min(given)]
  BY <1>1, <1>2, <1>3, <1>4 DEF StatusReason
<1>6. DOMAIN Complaints = 1..5
  BY DEF Complaints
<1>7. given = {} <=> ~ bad /\ ~ brief
  <2>1. 1..5 = {1, 2, 3, 4, 5}
    OBVIOUS
  <2>2. /\ applies[1] = FALSE /\ applies[2] = FALSE /\ applies[3] = FALSE
        /\ applies[4] = bad /\ applies[5] = brief
    BY <1>4
  <2>. QED BY <1>6, <2>1, <2>2
<1>8. given # {} => Min(given) \in 1..5
  <2>1. IsFiniteSet(1..5)
    <3>1. 1 \in Int /\ 5 \in Int
      OBVIOUS
    <3>. QED BY ONLY <3>1, FS_Interval
  <2>2. given \in SUBSET (1..5)
    BY <1>6
  <2>3. IsFiniteSet(given) /\ given \subseteq Int
    BY <2>1, <2>2, FS_Subset
  <2>. QED BY <2>2, <2>3, Least
<1>9. given # {} => Complaints[Min(given)] # None
  BY <1>1, <1>6, <1>8 DEF Range
<1>. QED BY <1>2, <1>3, <1>5, <1>7, <1>9

(* When the public data gate replays the whole. *)
LEMMA GateIs ==
  ASSUME NEW events, NEW m
  PROVE  PublicDataGate(events, "arrival_order", 2, m) \in {"split_recording", "split_replay", "quality"} <=>
           OkForReplay(events) /\ ~ (Duration(events) < m) /\ Accepted(events)
<1>1. Ordered(events, "arrival_order") = events
  BY DEF Ordered
<1>2. SplitStage(events, "arrival_order", 2) \in {"split_recording", "split_replay", "quality"}
  BY DEF SplitStage
<1>. QED BY <1>1, <1>2 DEF PublicDataGate

(* What was good of a recording is good of one that grew in order. *)
LEMMA GoodStays ==
  ASSUME NEW events, NEW longer,
         OkForReplay(events) => OkForReplay(longer), Accepted(events) => Accepted(longer),
         Duration(events) \in Int, Duration(longer) \in Int, Duration(events) <= Duration(longer)
  PROVE  Good(events) \subseteq Good(longer)
<1>0. MaxTime \in Nat /\ Thresholds.duration \in Int
  BY RecordingsAssumption
<1>1. ASSUME NEW m \in 0..MaxTime, StatusReason(events, FALSE, FALSE, TRUE, m) = None
      PROVE  StatusReason(longer, FALSE, FALSE, TRUE, m) = None
  <2>1. m \in Nat
    BY <1>0
  <2>2. OkForReplay(events) /\ ~ (Duration(events) < m)
    BY <1>1, <2>1, StatusIs
  <2>3. OkForReplay(longer) /\ ~ (Duration(longer) < m)
    BY <2>1, <2>2
  <2>. QED BY <2>1, <2>3, StatusIs
<1>2. ASSUME NEW reports \in ReportSets, QualityFailures(events, TRUE, reports, Thresholds) = {}
      PROVE  QualityFailures(longer, TRUE, reports, Thresholds) = {}
  <2> DEFINE few == IF Len(reports) < Thresholds.reports THEN {"report_count_below_min"} ELSE {}
             poor == UNION {ReportFailures(reports[i], Thresholds) : i \in DOMAIN reports}
  <2>1. /\ QualityFailures(events, TRUE, reports, Thresholds)
             = few \cup InspectionFailures(events, Thresholds.duration) \cup poor
        /\ QualityFailures(longer, TRUE, reports, Thresholds)
             = few \cup InspectionFailures(longer, Thresholds.duration) \cup poor
    BY DEF QualityFailures
  <2>. HIDE DEF few, poor
  <2>2. few = {} /\ poor = {} /\ InspectionFailures(events, Thresholds.duration) = {}
    BY <1>2, <2>1
  <2>3. OkForReplay(events) /\ ~ (Duration(events) < Thresholds.duration)
    BY <2>2 DEF InspectionFailures
  <2>4. OkForReplay(longer) /\ ~ (Duration(longer) < Thresholds.duration)
    BY <1>0, <2>3
  <2>5. InspectionFailures(longer, Thresholds.duration) = {}
    BY <2>4 DEF InspectionFailures
  <2>. QED BY <2>1, <2>2, <2>5
<1>3. ASSUME NEW m \in 0..MaxTime,
             PublicDataGate(events, "arrival_order", 2, m) \in {"split_recording", "split_replay", "quality"}
      PROVE  PublicDataGate(longer, "arrival_order", 2, m) \in {"split_recording", "split_replay", "quality"}
  <2>1. OkForReplay(events) /\ ~ (Duration(events) < m) /\ Accepted(events)
    BY <1>3, GateIs
  <2>2. OkForReplay(longer) /\ ~ (Duration(longer) < m) /\ Accepted(longer)
    BY <1>0, <2>1
  <2>. QED BY <2>2, GateIs
<1> DEFINE Status(es) == {<<"status", minimum>> : minimum \in
                            {m \in 0..MaxTime : StatusReason(es, FALSE, FALSE, TRUE, m) = None}}
           Quality(es) == {<<"quality", reports>> : reports \in
                             {rs \in ReportSets : QualityFailures(es, TRUE, rs, Thresholds) = {}}}
           Gate(es) == {<<"gate", minimum>> : minimum \in
                          {m \in 0..MaxTime : PublicDataGate(es, "arrival_order", 2, m) \in
                                                 {"split_recording", "split_replay", "quality"}}}
<1>4. Status(events) \subseteq Status(longer)
  BY <1>1
<1>5. Quality(events) \subseteq Quality(longer)
  BY <1>2
<1>6. Gate(events) \subseteq Gate(longer)
  BY <1>3
<1>7. /\ Good(events) = Status(events) \cup Quality(events) \cup Gate(events)
      /\ Good(longer) = Status(longer) \cup Quality(longer) \cup Gate(longer)
  BY DEF Good
<1>. HIDE DEF Status, Quality, Gate
<1>. QED BY <1>4, <1>5, <1>6, <1>7

(* A good verdict on a recording stays good while it grows in order: the
   status, the quality gate's and the public data gate's. *)
THEOREM VerdictsSurviveGrowth == Spec => GrowthKeepsTheVerdicts
<1>1. ASSUME RecordingInv, [Next]_vars, Last(recording').ts >= Last(recording).ts,
             \A i \in DOMAIN recording' \ DOMAIN recording : InOrder(recording', i)
      PROVE  Good(recording) \subseteq Good(recording')
  <2>1. RecordingInv' /\ Extends(recording', recording)
    BY <1>1, InvStep
  <2>2. /\ recording \in Seq(Line) /\ DepthIsNumbered(recording) /\ Len(recording) >= 1
    BY <1>1, InvLines
  <2>3. (RecordingInv => recording \in Seq(Line) /\ DepthIsNumbered(recording))'
    BY InvLines, PTL
  <2>4. recording' \in Seq(Line) /\ DepthIsNumbered(recording')
    BY <2>1, <2>3
  <2>5. PICK events \in Seq(Line) : events = recording
    BY <2>2
  <2>6. PICK longer \in Seq(Line) : longer = recording'
    BY <2>4
  <2>7. /\ Extends(longer, events) /\ DepthIsNumbered(events) /\ DepthIsNumbered(longer) /\ Len(events) >= 1
        /\ Last(longer).ts >= Last(events).ts
        /\ \A i \in DOMAIN longer \ DOMAIN events : InOrder(longer, i)
    BY <1>1, <2>1, <2>2, <2>4, <2>5, <2>6
  <2>8. /\ OkForReplay(events) => OkForReplay(longer)
        /\ Accepted(events) => Accepted(longer)
        /\ Duration(events) \in Int /\ Duration(longer) \in Int /\ Duration(events) <= Duration(longer)
    BY <2>7, GrowthInOrder
  <2>9. Good(events) \subseteq Good(longer)
    BY <2>8, GoodStays
  <2>. QED BY <2>5, <2>6, <2>9
<1>. QED BY <1>1, InvAlways, PTL DEF Spec, GrowthKeepsTheVerdicts
================================================================================
