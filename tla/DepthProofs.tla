------------------------------ MODULE DepthProofs ------------------------------
(***************************************************************************)
(* The order book behind the exchange's stream, for every set of books and *)
(* every bound: it is typed, exact when complete, and has its gaps only    *)
(* from a lost connection or a snapshot that overtook changes.             *)
(***************************************************************************)
EXTENDS DepthFeed, SequenceTheorems, TLAPS

-------------------------------------------------------------------------------
(***************************************************************************)
(* The operators of the book.                                              *)
(***************************************************************************)

(* A snapshot of positive amounts is taken in as it is. *)
LEMMA LevelledSide ==
  ASSUME NEW side, IsSide(side)
  PROVE  Levelled(side) = side
<1>1. {p \in DOMAIN side : side[p] > 0} = DOMAIN side
  BY DEF IsSide
<1>2. side = [p \in DOMAIN side |-> side[p]]
  BY DEF IsSide
<1>. QED BY <1>1, <1>2 DEF Levelled, Restrict

(* What the exchange says of a change is a typed update. *)
LEMMA DifferenceType ==
  ASSUME NEW old, NEW new, IsSide(old), IsSide(new)
  PROVE  IsDiff(Difference(old, new))
BY DEF IsSide, IsDiff, Difference, AmountAt

(* Absolute amounts rebuild the exchange's side: applied to the side before
   the change, the update gives the side after it, no level more or less. *)
LEMMA UpdateRebuilds ==
  ASSUME NEW old, NEW new, IsSide(old), IsSide(new)
  PROVE  Updated(old, Difference(old, new)) = new
<1> DEFINE diff == Difference(old, new)
           levels == (DOMAIN old \ DOMAIN diff) \cup {q \in DOMAIN diff : diff[q] # 0}
<1>1. /\ DOMAIN diff = {q \in DOMAIN old \cup DOMAIN new : AmountAt(old, q) # AmountAt(new, q)}
      /\ \A q \in DOMAIN diff : diff[q] = AmountAt(new, q)
  BY DEF Difference
<1>2. levels = DOMAIN new
  BY <1>1 DEF IsSide, AmountAt
<1>3. ASSUME NEW p \in DOMAIN new
      PROVE  (IF p \in DOMAIN diff THEN diff[p] ELSE old[p]) = new[p]
  BY <1>1 DEF IsSide, AmountAt
<1>4. new = [p \in DOMAIN new |-> new[p]]
  BY DEF IsSide
<1>5. Updated(old, diff) = [p \in levels |-> IF p \in DOMAIN diff THEN diff[p] ELSE old[p]]
  BY DEF Updated
<1>. HIDE DEF diff, levels
<1>6. Updated(old, diff) = [p \in DOMAIN new |-> new[p]]
  BY <1>2, <1>3, <1>5
<1>. QED BY <1>4, <1>6 DEF diff

(* Whatever the update, a side of positive amounts stays one. *)
LEMMA UpdateType ==
  ASSUME NEW side, NEW diff, IsSide(side), IsDiff(diff)
  PROVE  IsSide(Updated(side, diff))
BY DEF IsSide, IsDiff, Updated

-------------------------------------------------------------------------------
(***************************************************************************)
(* The inductive invariant.  The messages on their way say what the        *)
(* exchange's history says: the diffs are its last changes, one after the  *)
(* other, and a whole book is one of its states.                           *)
(***************************************************************************)
DiffOf(history, n) ==
  LET old == history[n - 1]
      new == history[n]
  IN  [seq |-> n, ts |-> n, bids |-> Difference(old.bids, new.bids), asks |-> Difference(old.asks, new.asks)]
WholeOf(history, n) == [seq |-> n, ts |-> n, bids |-> history[n].bids, asks |-> history[n].asks]

Levels == UNION {[D -> Nat] : D \in SUBSET Nat}
Messages == [seq : Nat, ts : Nat, bids : Levels, asks : Levels]

Sent == Len(truth) - Len(diffs)      \* changes no message is on its way for

StreamInv ==
  /\ truth \in Seq(Books) /\ diffs \in Seq(Messages) /\ wholes \in Seq(Messages)
  /\ Sent >= 1
  /\ \A n \in 1..Len(diffs) : diffs[n] = DiffOf(truth, Sent + n)
  /\ \A n \in 1..Len(wholes) : \E k \in 1..Len(truth) : wholes[n] = WholeOf(truth, k)

(***************************************************************************)
(* The fresh book has a snapshot, and applied has the updates on top of    *)
(* it; whatever was sent is in the book, was lost, or came before.         *)
(***************************************************************************)
FreshInv ==
  ~stale =>
    /\ base \in 1..Len(truth) /\ lastSequence \in base..Len(truth)
    /\ lastSequence = base \/ lastSequence <= Sent
    /\ applied \subseteq base + 1 .. lastSequence
    /\ Complete => Book = truth[lastSequence]
    /\ \A n \in 1..Sent : n <= base \/ n <= seen \/ n \in applied \/ n \in lost

(* Every state of the exchange's book is a book. *)
LEMMA BooksAreTyped ==
  \A b \in Books : b = [bids |-> b.bids, asks |-> b.asks] /\ IsSide(b.bids) /\ IsSide(b.asks)
BY DepthFeedAssumption

(* Typed levels are what an update's or a snapshot's side is. *)
LEMMA LevelsAreDiffs ==
  /\ \A d : IsDiff(d) => d \in Levels
  /\ \A side : IsSide(side) => IsDiff(side)
<1>1. ASSUME NEW d, IsDiff(d) PROVE d \in Levels
  <2>1. DOMAIN d \in SUBSET Nat /\ d \in [DOMAIN d -> Nat]
    BY <1>1 DEF IsDiff
  <2>. QED BY <2>1 DEF Levels
<1>2. ASSUME NEW side, IsSide(side) PROVE IsDiff(side)
  BY <1>2 DEF IsSide, IsDiff
<1>. QED BY <1>1, <1>2

(* The messages that a history determines are typed. *)
LEMMA MessagesAreTyped ==
  ASSUME NEW h \in Seq(Books)
  PROVE  /\ \A n \in 2..Len(h) :
              /\ DiffOf(h, n) \in Messages /\ DiffOf(h, n).seq = n /\ DiffOf(h, n).ts = n
              /\ IsDiff(DiffOf(h, n).bids) /\ IsDiff(DiffOf(h, n).asks)
         /\ \A n \in 1..Len(h) :
              /\ WholeOf(h, n) \in Messages /\ WholeOf(h, n).seq = n /\ WholeOf(h, n).ts = n
              /\ IsSide(WholeOf(h, n).bids) /\ IsSide(WholeOf(h, n).asks)
<1>1. ASSUME NEW n \in 1..Len(h)
      PROVE  IsSide(h[n].bids) /\ IsSide(h[n].asks)
  <2>1. h[n] \in Books
    OBVIOUS
  <2>. QED BY <2>1, BooksAreTyped
<1>2. ASSUME NEW n \in 2..Len(h)
      PROVE  /\ DiffOf(h, n) \in Messages /\ DiffOf(h, n).seq = n /\ DiffOf(h, n).ts = n
             /\ IsDiff(DiffOf(h, n).bids) /\ IsDiff(DiffOf(h, n).asks)
  <2>1. n \in 1..Len(h) /\ n - 1 \in 1..Len(h)
    OBVIOUS
  <2>2. /\ IsDiff(Difference(h[n - 1].bids, h[n].bids))
        /\ IsDiff(Difference(h[n - 1].asks, h[n].asks))
    BY <1>1, <2>1, DifferenceType
  <2>. QED BY <2>1, <2>2, LevelsAreDiffs DEF DiffOf, Messages
<1>3. ASSUME NEW n \in 1..Len(h)
      PROVE  /\ WholeOf(h, n) \in Messages /\ WholeOf(h, n).seq = n /\ WholeOf(h, n).ts = n
             /\ IsSide(WholeOf(h, n).bids) /\ IsSide(WholeOf(h, n).asks)
  BY <1>1, LevelsAreDiffs DEF WholeOf, Messages
<1>. QED BY <1>2, <1>3

(* A message of the exchange is what TypeOK asks a message to be. *)
LEMMA MessagesOfHistory ==
  ASSUME NEW m, NEW h \in Seq(Books), NEW n \in 1..Len(h), m \in Messages, m.seq = n, m.ts = n,
         IsDiff(m.bids), IsDiff(m.asks)
  PROVE  m = [seq |-> m.seq, ts |-> m.seq, bids |-> m.bids, asks |-> m.asks] /\ m.seq \in 1..Len(h)
BY DEF Messages

-------------------------------------------------------------------------------
(***************************************************************************)
(* The exchange's steps.                                                   *)
(***************************************************************************)

(* A longer history determines the same messages. *)
LEMMA HistoryIsKept ==
  ASSUME NEW h \in Seq(Books), NEW b \in Books
  PROVE  /\ Append(h, b) \in Seq(Books) /\ Len(Append(h, b)) = Len(h) + 1
         /\ Append(h, b)[Len(h) + 1] = b
         /\ \A n \in 1..Len(h) : /\ Append(h, b)[n] = h[n]
                                 /\ WholeOf(Append(h, b), n) = WholeOf(h, n)
                                 /\ n >= 2 => DiffOf(Append(h, b), n) = DiffOf(h, n)
<1>1. /\ Append(h, b) \in Seq(Books) /\ Len(Append(h, b)) = Len(h) + 1
      /\ Append(h, b)[Len(h) + 1] = b
      /\ \A n \in 1..Len(h) : Append(h, b)[n] = h[n]
  OBVIOUS
<1>. QED BY <1>1 DEF WholeOf, DiffOf

(* TypeOK but for the book follows from the stream's invariant. *)
LEMMA StreamIsTyped ==
  ASSUME StreamInv
  PROVE  /\ \A n \in 1..Len(truth) : truth[n] \in Books
         /\ \A n \in 1..Len(diffs) : IsMessage(diffs[n])
         /\ \A n \in 1..Len(wholes) : IsMessage(wholes[n])
         /\ truth # <<>>
<1>1. truth \in Seq(Books) /\ Len(truth) \in Nat /\ Len(diffs) \in Nat /\ Len(wholes) \in Nat /\ Len(truth) >= 1
  BY DEF StreamInv, Sent
<1>2. ASSUME NEW n \in 1..Len(diffs) PROVE IsMessage(diffs[n])
  <2>1. Sent + n \in 2..Len(truth) /\ diffs[n] = DiffOf(truth, Sent + n)
    BY <1>1 DEF StreamInv, Sent
  <2>2. /\ diffs[n] \in Messages /\ diffs[n].seq = Sent + n /\ diffs[n].ts = Sent + n
        /\ IsDiff(diffs[n].bids) /\ IsDiff(diffs[n].asks)
    BY <1>1, <2>1, MessagesAreTyped
  <2>. QED BY <1>1, <2>1, <2>2 DEF IsMessage, Messages
<1>3. ASSUME NEW n \in 1..Len(wholes) PROVE IsMessage(wholes[n])
  <2>1. PICK k \in 1..Len(truth) : wholes[n] = WholeOf(truth, k)
    BY DEF StreamInv
  <2>2. /\ wholes[n] \in Messages /\ wholes[n].seq = k /\ wholes[n].ts = k
        /\ IsDiff(wholes[n].bids) /\ IsDiff(wholes[n].asks)
    BY <1>1, <2>1, MessagesAreTyped, LevelsAreDiffs
  <2>. QED BY <2>2 DEF IsMessage, Messages
<1>. QED BY <1>1, <1>2, <1>3

(* The part of the type invariant that the book and the histories are in. *)
BookTyped ==
  /\ IsSide(bids) /\ IsSide(asks)
  /\ lastSequence \in Nat \cup {None} /\ lastTs \in Nat \cup {None} /\ stale \in BOOLEAN
  /\ disconnects \in Nat /\ base \in Nat /\ seen \in Nat
  /\ applied \subseteq Nat /\ lost \subseteq Nat

Inv == BookTyped /\ StreamInv /\ FreshInv

LEMMA InvIsTyped == Inv => TypeOK
BY StreamIsTyped DEF Inv, BookTyped, TypeOK

LEMMA InitInv == Init => Inv
<1> SUFFICES ASSUME Init PROVE Inv
  OBVIOUS
<1>1. PICK b \in Books : truth = <<b>>
  BY DEF Init
<1>2. truth \in Seq(Books) /\ Len(truth) = 1 /\ Len(diffs) = 0 /\ Len(wholes) = 0 /\ truth[1] = b
  BY <1>1 DEF Init
<1>3. IsSide(bids) /\ IsSide(asks)
  BY DEF Init, OrderBookInit, EmptySide, IsSide
<1>4. BookTyped
  BY <1>2, <1>3 DEF Init, OrderBookInit, BookTyped
<1>5. StreamInv
  BY <1>2 DEF Init, StreamInv, Sent
<1>6. FreshInv
  BY DEF Init, OrderBookInit, FreshInv
<1>. QED BY <1>4, <1>5, <1>6 DEF Inv

LEMMA ChangeInv ==
  ASSUME Inv, NEW b \in Books, Change(b)
  PROVE  Inv'
<1> DEFINE n == Len(truth)
<1>1. truth \in Seq(Books) /\ diffs \in Seq(Messages) /\ wholes \in Seq(Messages)
  BY DEF Inv, StreamInv
<1>2. n \in Nat /\ Len(diffs) \in Nat /\ Len(wholes) \in Nat /\ Sent \in Nat /\ Sent >= 1 /\ n >= 1
  BY <1>1 DEF Inv, StreamInv, Sent
<1>3. /\ truth' = Append(truth, b)
      /\ truth' \in Seq(Books) /\ Len(truth') = n + 1 /\ truth'[n + 1] = b
      /\ \A k \in 1..n : /\ truth'[k] = truth[k] /\ WholeOf(truth', k) = WholeOf(truth, k)
                         /\ k >= 2 => DiffOf(truth', k) = DiffOf(truth, k)
  BY <1>1, HistoryIsKept DEF Change
<1>4. diffs' = Append(diffs, DiffOf(truth', n + 1))
  <2>1. n + 1 - 1 = n /\ Current = truth'[n] /\ truth'[n + 1 - 1] = Current /\ truth'[n + 1] = b
    BY <1>2, <1>3 DEF Current
  <2>2. DiffOf(truth', n + 1) =
          [seq |-> n + 1, ts |-> n + 1, bids |-> Difference(Current.bids, b.bids),
                                        asks |-> Difference(Current.asks, b.asks)]
    BY <2>1 DEF DiffOf
  <2>. QED BY <1>3, <2>2 DEF Change
<1>5. DiffOf(truth', n + 1) \in Messages
  <2>1. n + 1 \in 2..Len(truth')
    BY <1>2, <1>3
  <2>. QED BY <1>3, <2>1, MessagesAreTyped
<1>6. /\ diffs' \in Seq(Messages) /\ Len(diffs') = Len(diffs) + 1
      /\ diffs'[Len(diffs) + 1] = DiffOf(truth', n + 1)
      /\ \A k \in 1..Len(diffs) : diffs'[k] = diffs[k]
  BY <1>1, <1>4, <1>5
<1>7. Sent' = Sent
  BY <1>2, <1>3, <1>6 DEF Sent
<1>8. /\ UNCHANGED <<bids, asks, lastSequence, lastTs, stale, wholes, disconnects, base, seen, applied, lost>>
  BY DEF Change, bookVars, historyVars
<1>9. BookTyped'
  BY <1>8 DEF Inv, BookTyped
<1>10. StreamInv'
  <2>1. ASSUME NEW k \in 1..Len(diffs') PROVE diffs'[k] = DiffOf(truth', Sent' + k)
    <3>1. CASE k = Len(diffs) + 1
      BY <1>2, <1>6, <1>7, <3>1 DEF Sent
    <3>2. CASE k \in 1..Len(diffs)
      <4>1. diffs[k] = DiffOf(truth, Sent + k) /\ Sent + k \in 2..n
        BY <1>2, <3>2 DEF Inv, StreamInv, Sent
      <4>. QED BY <1>3, <1>6, <1>7, <3>2, <4>1
    <3>. QED BY <1>2, <1>6, <3>1, <3>2
  <2>2. ASSUME NEW k \in 1..Len(wholes') PROVE \E j \in 1..Len(truth') : wholes'[k] = WholeOf(truth', j)
    <3>1. wholes'[k] = wholes[k] /\ k \in 1..Len(wholes)
      BY <1>8
    <3>2. PICK j \in 1..n : wholes[k] = WholeOf(truth, j)
      BY <3>1 DEF Inv, StreamInv
    <3>. QED BY <1>2, <1>3, <3>1, <3>2
  <2>. QED BY <1>1, <1>2, <1>3, <1>6, <1>7, <1>8, <2>1, <2>2 DEF StreamInv
<1>11. FreshInv'
  BY <1>2, <1>3, <1>7, <1>8 DEF Inv, FreshInv, Complete, Book
<1>. QED BY <1>9, <1>10, <1>11 DEF Inv

LEMMA PublishInv ==
  ASSUME Inv, Publish
  PROVE  Inv'
<1>1. truth \in Seq(Books) /\ wholes \in Seq(Messages) /\ Len(wholes) \in Nat
  BY DEF Inv, StreamInv
<1>2. Len(truth) \in 1..Len(truth)
  BY <1>1 DEF Inv, StreamInv, Sent
<1>3. wholes' = Append(wholes, WholeOf(truth, Len(truth)))
  BY DEF Publish, WholeOf, Current
<1>4. WholeOf(truth, Len(truth)) \in Messages
  BY <1>1, <1>2, MessagesAreTyped
<1>5. /\ wholes' \in Seq(Messages) /\ Len(wholes') = Len(wholes) + 1
      /\ wholes'[Len(wholes) + 1] = WholeOf(truth, Len(truth))
      /\ \A k \in 1..Len(wholes) : wholes'[k] = wholes[k]
  BY <1>1, <1>3, <1>4
<1>6. UNCHANGED <<bids, asks, lastSequence, lastTs, stale, truth, diffs, disconnects, base, seen, applied, lost>>
  BY DEF Publish, bookVars, historyVars
<1>7. ASSUME NEW k \in 1..Len(wholes') PROVE \E j \in 1..Len(truth') : wholes'[k] = WholeOf(truth', j)
  <2>1. CASE k = Len(wholes) + 1
    BY <1>2, <1>5, <1>6, <2>1
  <2>2. CASE k \in 1..Len(wholes)
    BY <1>5, <1>6, <2>2 DEF Inv, StreamInv
  <2>. QED BY <1>1, <1>5, <2>1, <2>2
<1>8. StreamInv'
  BY <1>5, <1>6, <1>7 DEF Inv, StreamInv, Sent
<1>9. BookTyped' /\ FreshInv'
  BY <1>6 DEF Inv, BookTyped, FreshInv, Complete, Book, Sent
<1>. QED BY <1>8, <1>9 DEF Inv

(* What was on its way is lost: it counts as sent and as lost. *)
LEMMA DisconnectInv ==
  ASSUME Inv, Disconnect
  PROVE  Inv'
<1>1. truth \in Seq(Books) /\ diffs \in Seq(Messages) /\ Len(truth) \in Nat /\ Len(diffs) \in Nat /\ Sent >= 1
  BY DEF Inv, StreamInv
<1>2. /\ UNCHANGED <<bids, asks, lastSequence, lastTs, stale, truth, base, seen, applied>>
      /\ diffs' = <<>> /\ wholes' = <<>> /\ disconnects' = disconnects + 1
      /\ lost' = lost \cup {diffs[n].seq : n \in 1..Len(diffs)}
  BY DEF Disconnect, bookVars
<1>3. Sent' = Len(truth) /\ Sent' >= Sent
  BY <1>1, <1>2 DEF Sent
<1>4. ASSUME NEW n \in 1..Len(diffs) PROVE diffs[n].seq = Sent + n /\ Sent + n \in Nat
  <2>1. diffs[n] = DiffOf(truth, Sent + n) /\ Sent + n \in 2..Len(truth)
    BY <1>1 DEF Inv, StreamInv, Sent
  <2>. QED BY <1>1, <2>1, MessagesAreTyped
<1>5. StreamInv'
  <2>1. /\ diffs' \in Seq(Messages) /\ wholes' \in Seq(Messages)
        /\ 1..Len(diffs') = {} /\ 1..Len(wholes') = {}
    BY <1>2
  <2>2. Sent' >= 1 /\ truth' \in Seq(Books)
    BY <1>1, <1>2, <1>3 DEF Sent
  <2>. QED BY <2>1, <2>2 DEF StreamInv
<1>6. BookTyped'
  <2>1. lost' \subseteq Nat
    BY <1>2, <1>4 DEF Inv, BookTyped
  <2>. QED BY <1>2, <2>1 DEF Inv, BookTyped
<1>7. ASSUME ~stale', NEW n \in 1..Sent' PROVE n <= base' \/ n <= seen' \/ n \in applied' \/ n \in lost'
  <2>1. CASE n \in 1..Sent
    BY <1>2, <1>7, <2>1 DEF Inv, FreshInv
  <2>2. CASE n \notin 1..Sent
    <3>1. n - Sent \in 1..Len(diffs) /\ diffs[n - Sent].seq = n
      BY <1>1, <1>3, <1>4, <2>2 DEF Sent
    <3>. QED BY <1>2, <3>1
  <2>. QED BY <2>1, <2>2
<1>8. FreshInv'
  BY <1>1, <1>2, <1>3, <1>7 DEF Inv, FreshInv, Complete, Book, Sent
<1>. QED BY <1>5, <1>6, <1>8 DEF Inv

-------------------------------------------------------------------------------
(***************************************************************************)
(* The handler's steps.                                                    *)
(***************************************************************************)

(* A snapshot makes the book the exchange's book of its number. *)
LEMMA ReceiveWholeInv ==
  ASSUME Inv, ReceiveWhole
  PROVE  Inv'
<1> DEFINE m == Head(wholes)
<1>1. truth \in Seq(Books) /\ wholes \in Seq(Messages) /\ wholes # <<>> /\ Len(truth) \in Nat /\ Sent >= 1
      /\ Len(diffs) \in Nat /\ 1 \in 1..Len(wholes) /\ m = wholes[1]
  BY DEF Inv, StreamInv, ReceiveWhole
<1>2. PICK k \in 1..Len(truth) : m = WholeOf(truth, k)
  BY <1>1 DEF Inv, StreamInv
<1>3. /\ m.seq = k /\ m.ts = k /\ IsSide(m.bids) /\ IsSide(m.asks)
      /\ m.bids = truth[k].bids /\ m.asks = truth[k].asks
  <2>1. m.seq = k /\ m.ts = k /\ IsSide(m.bids) /\ IsSide(m.asks)
    <3>. HIDE DEF m
    <3>. QED BY <1>1, <1>2, MessagesAreTyped
  <2>2. m.bids = truth[k].bids /\ m.asks = truth[k].asks
    <3>. HIDE DEF m
    <3>. QED BY <1>2 DEF WholeOf
  <2>. QED BY <2>1, <2>2
<1>4. /\ bids' = truth[k].bids /\ asks' = truth[k].asks
      /\ lastSequence' = k /\ lastTs' = k /\ stale' = FALSE
      /\ wholes' = Tail(wholes) /\ base' = k /\ applied' = {} /\ seen' = Sent
      /\ UNCHANGED <<truth, diffs, disconnects, lost>>
  BY <1>3, LevelledSide DEF ReceiveWhole, ApplySnapshot, Sent
<1>5. BookTyped'
  <2>1. Sent \in Nat /\ IsSide(bids') /\ IsSide(asks') /\ k \in Nat
    BY <1>1, <1>3, <1>4 DEF Sent
  <2>. QED BY <1>4, <2>1 DEF Inv, BookTyped
<1>6. StreamInv'
  <2>1. wholes' \in Seq(Messages) /\ \A n \in 1..Len(wholes') : n + 1 \in 1..Len(wholes) /\ wholes'[n] = wholes[n + 1]
    BY <1>1, <1>4
  <2>. QED BY <1>4, <2>1 DEF Inv, StreamInv, Sent
<1>7. truth[k] = [bids |-> truth[k].bids, asks |-> truth[k].asks]
  BY <1>1, BooksAreTyped
<1>8. FreshInv'
  BY <1>1, <1>4, <1>7 DEF FreshInv, Complete, Book, Sent
<1>. QED BY <1>5, <1>6, <1>8 DEF Inv

(* An update in order is applied to the side before it, if nothing is missing. *)
LEMMA ReceiveDiffInv ==
  ASSUME Inv, ReceiveDiff
  PROVE  Inv'
<1> DEFINE m == Head(diffs)
           s == Sent + 1
<1>1. /\ truth \in Seq(Books) /\ diffs \in Seq(Messages) /\ diffs # <<>>
      /\ Len(truth) \in Nat /\ Len(diffs) \in Nat /\ Sent \in Nat /\ Sent >= 1
      /\ 1 \in 1..Len(diffs) /\ m = diffs[1]
  BY DEF Inv, StreamInv, ReceiveDiff, Sent
<1>2. m = DiffOf(truth, s) /\ s \in 2..Len(truth)
  BY <1>1 DEF Inv, StreamInv, Sent
<1>3. /\ m.seq = s /\ m.ts = s /\ IsDiff(m.bids) /\ IsDiff(m.asks)
      /\ m.bids = Difference(truth[s - 1].bids, truth[s].bids)
      /\ m.asks = Difference(truth[s - 1].asks, truth[s].asks)
  <2>. HIDE DEF m, s
  <2>1. m.seq = s /\ m.ts = s /\ IsDiff(m.bids) /\ IsDiff(m.asks)
    BY <1>1, <1>2, MessagesAreTyped
  <2>2. /\ m.bids = Difference(truth[s - 1].bids, truth[s].bids)
        /\ m.asks = Difference(truth[s - 1].asks, truth[s].asks)
    BY <1>2 DEF DiffOf
  <2>. QED BY <2>1, <2>2
<1>4. /\ diffs' = Tail(diffs) /\ ApplyDelta(m)
      /\ applied' = IF stale' THEN applied ELSE applied \cup {s}
      /\ UNCHANGED <<truth, wholes, disconnects, base, seen, lost>>
  BY <1>3 DEF ReceiveDiff
<1>5. diffs' \in Seq(Messages) /\ Len(diffs') = Len(diffs) - 1
      /\ \A n \in 1..Len(diffs') : n + 1 \in 1..Len(diffs) /\ diffs'[n] = diffs[n + 1]
  BY <1>1, <1>4
<1>6. Sent' = s
  BY <1>1, <1>4, <1>5 DEF Sent
<1>7. StreamInv'
  <2>1. ASSUME NEW n \in 1..Len(diffs') PROVE diffs'[n] = DiffOf(truth', Sent' + n)
    <3>1. diffs[n + 1] = DiffOf(truth, Sent + (n + 1)) /\ Sent + (n + 1) = Sent' + n
      BY <1>1, <1>5, <1>6 DEF Inv, StreamInv
    <3>. QED BY <1>4, <1>5, <3>1
  <2>. QED BY <1>1, <1>4, <1>5, <1>6, <2>1 DEF Inv, StreamInv
<1>. HIDE DEF m
<1>8. CASE Usable(m.seq)
  <2>1. /\ bids' = Updated(bids, m.bids) /\ asks' = Updated(asks, m.asks)
        /\ lastSequence' = s /\ lastTs' = s /\ ~stale /\ ~stale' /\ stale' \in BOOLEAN
        /\ applied' = applied \cup {s}
    <3>1. s # None
      BY <1>2, MarketAssumption
    <3>. QED BY <1>3, <1>4, <1>8, <3>1 DEF ApplyDelta, TakeIn, Usable, Inv, BookTyped
  <2>2. /\ base \in 1..Len(truth) /\ lastSequence \in base..Len(truth) /\ lastSequence < s
        /\ applied \subseteq base + 1 .. lastSequence
        /\ \A n \in 1..Sent : n <= base \/ n <= seen \/ n \in applied \/ n \in lost
    <3>1. base \in 1..Len(truth) /\ lastSequence \in base..Len(truth)
      BY <2>1 DEF Inv, FreshInv
    <3>2. s # None /\ lastSequence # None
      BY <1>2, <3>1, MarketAssumption
    <3>3. lastSequence < s
      BY <1>1, <1>3, <1>8, <3>1, <3>2 DEF Usable, OutOfOrder
    <3>. QED BY <2>1, <3>1, <3>3 DEF Inv, FreshInv
  <2>3. BookTyped'
    <3>1. IsSide(bids') /\ IsSide(asks')
      BY <1>3, <2>1, UpdateType DEF Inv, BookTyped
    <3>. QED BY <1>1, <1>4, <2>1, <3>1 DEF Inv, BookTyped
  <2>4. ASSUME Complete' PROVE Book' = truth'[lastSequence']
    <3>1. lastSequence = s - 1 /\ applied = base + 1 .. lastSequence
      <4>1. applied \cup {s} = base + 1 .. s
        BY <1>4, <2>1, <2>4 DEF Complete
      <4>2. CASE lastSequence = s - 1
        <5>1. ASSUME NEW n \in base + 1 .. lastSequence PROVE n \in applied
          <6>1. n \in base + 1 .. s /\ n # s
            BY <1>1, <2>2, <4>2
          <6>. QED BY <4>1, <6>1
        <5>. QED BY <2>2, <4>2, <5>1
      <4>3. CASE lastSequence # s - 1
        <5>1. s - 1 \in base + 1 .. s /\ s - 1 # s
          BY <1>1, <2>2, <4>3
        <5>2. s - 1 \in applied
          BY <4>1, <5>1
        <5>3. s - 1 \in base + 1 .. lastSequence
          BY <2>2, <5>2
        <5>4. lastSequence \in Int /\ base \in Int /\ s \in Int
          BY <1>1, <2>2
        <5>5. s - 1 <= lastSequence /\ lastSequence < s
          BY <2>2, <5>3, <5>4
        <5>. QED BY <4>3, <5>4, <5>5
      <4>. QED BY <4>2, <4>3
    <3>2. [bids |-> bids, asks |-> asks] = truth[s - 1]
      BY <2>1, <3>1 DEF Inv, FreshInv, Complete, Book
    <3>3. /\ truth[s] = [bids |-> truth[s].bids, asks |-> truth[s].asks]
          /\ IsSide(truth[s].bids) /\ IsSide(truth[s].asks)
      <4>1. truth[s] \in Books
        BY <1>1, <1>2
      <4>. QED BY <4>1, BooksAreTyped
    <3>4. bids = truth[s - 1].bids /\ asks = truth[s - 1].asks
      BY <3>2
    <3>5. bids' = truth[s].bids /\ asks' = truth[s].asks
      BY <1>3, <2>1, <3>3, <3>4, UpdateRebuilds DEF Inv, BookTyped
    <3>. QED BY <1>4, <2>1, <3>3, <3>5 DEF Book
  <2>5. ASSUME NEW n \in 1..s
        PROVE  n <= base \/ n <= seen \/ n \in applied' \/ n \in lost
    BY <1>1, <2>1, <2>2
  <2>6. FreshInv'
    <3>1. applied' \subseteq base + 1 .. s
      BY <1>1, <2>1, <2>2
    <3>2. s \in base..Len(truth) /\ base \in 1..Len(truth)
      BY <1>1, <1>2, <2>2
    <3>. QED BY <1>4, <1>6, <2>1, <2>4, <2>5, <3>1, <3>2 DEF FreshInv
  <2>. QED BY <1>7, <2>3, <2>6 DEF Inv
<1>9. CASE ~Usable(m.seq)
  <2>1. stale' = TRUE /\ UNCHANGED <<bids, asks, lastSequence, lastTs, applied>>
    BY <1>4, <1>9 DEF ApplyDelta
  <2>2. BookTyped' /\ FreshInv'
    BY <1>4, <2>1 DEF Inv, BookTyped, FreshInv
  <2>. QED BY <1>7, <2>2 DEF Inv
<1>. QED BY <1>8, <1>9

-------------------------------------------------------------------------------
(***************************************************************************)
(* The theorems.                                                           *)
(***************************************************************************)

LEMMA NextInv == Inv /\ [Next]_vars => Inv'
<1> SUFFICES ASSUME Inv, [Next]_vars PROVE Inv'
  OBVIOUS
<1>1. CASE \E b \in Books : Change(b)
  BY <1>1, ChangeInv
<1>2. CASE Publish
  BY <1>2, PublishInv
<1>3. CASE Disconnect
  BY <1>3, DisconnectInv
<1>4. CASE ReceiveWhole
  BY <1>4, ReceiveWholeInv
<1>5. CASE ReceiveDiff
  BY <1>5, ReceiveDiffInv
<1>6. CASE UNCHANGED vars
  BY <1>6 DEF vars, bookVars, exchangeVars, historyVars, Inv, BookTyped, StreamInv, FreshInv, Complete, Book, Sent
<1>. QED BY <1>1, <1>2, <1>3, <1>4, <1>5, <1>6 DEF Next

LEMMA DepthInvariant == Spec => []Inv
BY InitInv, NextInv, PTL DEF Spec

(***************************************************************************)
(* The order book and the stream are typed: OrderBook never holds a level  *)
(* without an amount, whatever messages it gets in whatever order.         *)
(***************************************************************************)
THEOREM BookTypeCorrect == Spec => []TypeOK
BY DepthInvariant, InvIsTyped, PTL

(***************************************************************************)
(* apply_snapshot and apply_delta rebuild the exchange's book: fresh and   *)
(* with every change since its snapshot, the book is the exchange's.       *)
(***************************************************************************)
THEOREM ReconstructionIsExact == Spec => []FreshBookIsExact
<1>1. Inv => FreshBookIsExact
  BY DEF Inv, FreshInv, FreshBookIsExact
<1>. QED BY <1>1, DepthInvariant, PTL

(***************************************************************************)
(* The sequence check of apply_delta lets no change be missing from a      *)
(* fresh book but those that were lost with a connection or came before    *)
(* the snapshot.                                                           *)
(***************************************************************************)
THEOREM GapsAreExplained == Spec => []GapsHaveACause
<1>1. Inv => GapsHaveACause
  <2> SUFFICES ASSUME Inv, ~stale, NEW n \in base + 1 .. lastSequence
               PROVE  n \in applied \/ n \in lost \/ n <= seen
    BY DEF GapsHaveACause
  <2>1. base \in Nat /\ lastSequence \in Nat /\ lastSequence <= Sent /\ Sent \in Nat
    BY DEF Inv, FreshInv, StreamInv, Sent
  <2>. QED BY <2>1 DEF Inv, FreshInv
<1>. QED BY <1>1, DepthInvariant, PTL
===============================================================================
