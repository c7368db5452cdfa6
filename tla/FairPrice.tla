------------------------------ MODULE FairPrice ------------------------------
(***************************************************************************)
(* market/fair_price.py: the fair price from the reconstructed book, the   *)
(* ticker and external quotes.  A source is kept until its name speaks     *)
(* again; the book's is put in or taken out at every event.                *)
(*                                                                         *)
(* Prices are whole ticks: a mid or median between two ticks rounds down.  *)
(***************************************************************************)
EXTENDS OrderBook, FiniteSetsExt, Clock

CONSTANTS
  StaleAfter,          (* market.stale_after_ms         *)
  MinSources,          (* fair.min_source_count         *)
  MaxSourceAge,        (* fair.max_source_age_ms        *)
  MaxDeviationBps,     (* fair.max_source_deviation_bps *)
  UseMedian,           (* fair.use_median               *)
  ExternalNames        (* payload.source of external_fair_price events *)

OwnNames == {"book", "ticker_mid", "ticker_last"}

ASSUME FairPriceAssumption ==
  /\ \A n \in {StaleAfter, MaxSourceAge, MaxDeviationBps} : n \in Nat
  /\ MinSources \in Nat \ {0} /\ UseMedian \in BOOLEAN
  /\ ExternalNames \cap OwnNames = {}

VARIABLE sources     (* function from some names to [fair, ts] *)

NoSources == [n \in {} |-> [fair |-> 0, ts |-> 0]]

(***************************************************************************)
(* _source_from_orderbook: the mid of a book in good order, None if not.   *)
(***************************************************************************)
TooWide == 20000 * (BestAsk - BestBid) > MaxSpreadBps * (BestAsk + BestBid)
BookMid ==
  [fair |-> (BestBid + BestAsk) \div 2, ts |-> IF lastTs \in {None, 0} THEN now ELSE lastTs]

TooOld == IF lastTs = None THEN FALSE ELSE now - lastTs > StaleAfter
BookSource ==
  IF stale \/ ~HasMid \/ TooOld THEN None ELSE IF TooWide THEN None ELSE BookMid

(***************************************************************************)
(* _source_from_ticker, _source_from_external_fair: what the event says,   *)
(* as a function from no name or one.  An unusable quote is not heard, so  *)
(* the name keeps what it last said.  An external quote may bring its own  *)
(* time, ts_ms: behind the event's by its lag, ahead if that is negative.  *)
(***************************************************************************)
Quotes(t) == t.buy # None /\ t.sell # None
Uncrossed(t) == t.buy > 0 /\ t.sell > 0 /\ t.buy < t.sell
TickerSource(t, ts) ==
  IF IF Quotes(t) THEN Uncrossed(t) ELSE FALSE
  THEN [n \in {"ticker_mid"} |-> [fair |-> (t.buy + t.sell) \div 2, ts |-> ts]]
  ELSE IF IF t.last = None THEN FALSE ELSE t.last > 0
  THEN [n \in {"ticker_last"} |-> [fair |-> t.last, ts |-> ts]]
  ELSE NoSources

ExternalTime(q, ts) == IF q.lag = None THEN ts ELSE ts - q.lag
ExternalSource(q, ts) ==
  IF IF q.fair = None THEN FALSE ELSE q.fair > 0
  THEN [n \in {q.name} |-> [fair |-> q.fair, ts |-> ExternalTime(q, ts)]]
  ELSE NoSources

(***************************************************************************)
(* from_market_event: what the event says, then the book as it is now.     *)
(* Mutant: the book's source stays when the book is not usable.            *)
(***************************************************************************)
Said(heard, n) == IF n \in DOMAIN heard THEN heard[n] ELSE sources[n]
BookStaysIn(heard) ==
  sources' = [n \in DOMAIN sources \cup DOMAIN heard
                      \cup (IF BookSource' = None THEN {} ELSE {"book"}) |->
                IF n = "book" /\ BookSource' # None THEN BookSource' ELSE Said(heard, n)]
Hear(heard) ==
  sources' = [n \in ((DOMAIN sources \cup DOMAIN heard) \ {"book"})
                      \cup (IF BookSource' = None THEN {} ELSE {"book"}) |->
                IF n = "book" THEN BookSource' ELSE Said(heard, n)]

(***************************************************************************)
(* statistics.median of the fair prices of some names: halfway between the *)
(* smallest that half of them do not exceed and the largest that half of   *)
(* them reach.                                                             *)
(***************************************************************************)
Median(names) ==
  LET half(some)  == 2 * Cardinality(some) >= Cardinality(names)
      lower == Min({sources[n].fair : n \in
                 {n \in names : half({m \in names : sources[m].fair <= sources[n].fair})}})
      upper == Max({sources[n].fair : n \in
                 {n \in names : half({m \in names : sources[m].fair >= sources[n].fair})}})
  IN  (lower + upper) \div 2

Mean(names) ==
  SumFunctionOnSet([n \in names |-> sources[n].fair], names)
    \div Cardinality(names)

(***************************************************************************)
(* from_sources.  Mutant: a source never ages.                             *)
(***************************************************************************)
EverFresh == DOMAIN sources
Fresh == {n \in DOMAIN sources : now - sources[n].ts <= MaxSourceAge}

Near(fair, reference) == 10000 * Distance(fair, reference) <= MaxDeviationBps * reference
Accepted ==
  LET fresh  == Fresh
      median == Median(fresh)
  IN  {n \in fresh : Near(sources[n].fair, median)}

Fair ==
  LET names == Accepted
  IN  IF Cardinality(names) < MinSources THEN None
      ELSE IF UseMedian THEN Median(names) ELSE Mean(names)
==============================================================================
