# Verification of ghost_amm

TLA+ modules, TLC configurations and TLAPS proofs for ghost_amm, a virtual
market maker that replays recorded bitbank data (or follows the public stream)
and decides which orders it would have quoted and which of them trades would
have filled. No real order is ever sent, so what has to be right is the book-keeping:
which virtual orders rest, when, behind how much queue, under which risk
decision, and what their fills do to the balances the report is made from.

## Inventory of the system

| Component | State | Operations | Hard behaviour | What makes it correct |
|---|---|---|---|---|
| `pipeline.py` | the components below, `last_*` | `process(event)` | an exception leaves the call half done; two components hold the same orders | orders in both agree, outputs explain state |
| `amm/inventory.py` | base, quote | `apply_fill`, `skew` | assigns, then raises | balances = initial + reported fills |
| `amm/quote_surface.py` | none | `generate` | cut-offs at minimum, lot, maximum size | quotes are positive, keyed once |
| `amm/projector.py` | `active`, `counter` | `sync`, `cancel_all`, `remove_filled` | an order decided under an old book meets a new one | active orders are allowed, post-only, unexpired; ids unique |
| `replay/fill_model.py` | `orders`, maker fee | `on_market_event`, `on_virtual_order`, `on_cancel` | one trade against several orders and queues | no volume invented, queue first, price-time priority |
| `risk/kernel.py` | fair, fill and notional deques, cooldowns, last trade | `evaluate`, `record_fill`, `record_trade` | windows and cooldowns, early returns that skip recording | a blocked side is not quoted |
| `market/orderbook.py` | two sides, sequence, stale flag | snapshot, delta | lost, late, reordered messages | a fresh book is the exchange's book |
| `market/fair_price.py` | sources | `from_market_event` | sources age at different times | a fair price rests on fresh, agreeing sources |
| `market/shock.py` | trade deque, last shock | `update` | window, wait, decay | activation only after a shock and its wait |
| `replay/engine.py` | output list | ordering, sequence check, enrichment | order of events, end of recording | no lookahead in decisions |
| `dryrun/public_stream_engine.py` | events, pipeline | socket handler | exceptions in a callback | report and state agree |
| `recorder/bitbank_public_recorder.py` | writer, tasks, reconnect budget | connect, message, heartbeat, idle watchdog | concurrent tasks, dropped connections, timeouts | a lost connection is replaced, nothing recorded is lost |
| `recorder/jsonl_writer.py` | file, counters | `write`, `close`, rotation | reopening, rotation limits | every event is in exactly one file |
| `recorder/inspection.py`, `split.py`, `status.py`, the public data gate of `cli.py` | none | verdicts and partitions of recordings | first and last elements, order, recordings that still grow | agreement with what replay accepts; a good verdict is not taken back |
| `analytics/quality_gate.py` | none | failures of a recording and its reports | thresholds at their limits | agreement with the other verdicts |
| `execution/live_gates.py`, `exchange/bitbank_rules.py` | none | the gates of a live order | the same conditions as kernel and projector, written again | gates and kernel agree |
| the rest of `analytics/*`, `cli.py`, `config.py`, `events.py`, `exchange/*` | none | summaries, I/O, parsing | - | not modelled |

A market event reaches `process`, which hands it in turn to metadata, order
book, fair price, shock activator, fill model, inventory, risk kernel, quote
surface, projector, back to the fill model, and to the live gates for every order placed. Everything is a direct call in
one thread; the only way out of the middle is an exception. The recorder and the
dry-run engine are asyncio programs: their handlers and tasks interleave at
`await`.

The hazards, each at its line and with the properties aimed at it, are in
`PROJECT.json`.

## Modules

| Module | Models | Correspondence |
|---|---|---|
| `Clock` | the `ts_exchange` of the event being processed | `now`, and how far from one event to the next; it may go back |
| `Market` | shared vocabulary | a `View` is what the order book, fair price and shock state look like after an event; `Expire` is the deque loop used by the risk kernel |
| `Inventory` | `amm/inventory.py` | `base`, `quote`; `ApplyFill`, `Skew`; `Overdrawn` is the condition of the late exception |
| `QuoteSurface` | `amm/quote_surface.py` | a quote is a function value at its key `<<side, level>>`; `Rank` is the list order |
| `OrderProjector` | `amm/projector.py` | `active` is the dict by key, `counter` the id source; `Sync` is both loops of `sync` |
| `FillModel` | `replay/fill_model.py` | `tracked` is the dict by id; `Before` the sort key of the candidates, ids compared as strings (`IdBefore`); `Consume` one round of the matching loop; `TrackedAfter` the placed and canceled events of a sync |
| `RiskKernel` | `risk/kernel.py` | five variables for its deques, cooldowns and last trade; `HardBlocked` the early returns, `Allowed` the sides left |
| `Pipeline` | `pipeline.py`, and how `replay/engine.py`, `dryrun/public_stream_engine.py` and `analytics/metrics.py` treat its result | `process` in phases: receive, match, book, decide |
| `OrderLifecycle` | the promise about virtual orders | abstract: placed once, fresh id, only shrinks, never returns |
| `PipelineSafety` | properties | invariants and the refinement |
| `MCPipeline` | TLC instances | views, trades |
| `OrderBook` | `market/orderbook.py` | `bids`, `asks` are functions from prices to amounts; `ApplySnapshot`, `ApplyDelta`; `BestBid`, `HasMid`, `Depth` the derived values |
| `DepthFeed` | `OrderBook` behind the exchange and its two order book rooms (external) | `truth` the exchange's book after every change, `diffs` and `wholes` the messages on their way; `ReceiveWhole`, `ReceiveDiff` what the normaliser and `apply_event` make of them |
| `FairPrice` | `market/fair_price.py` | `sources` by name; `Hear` what an event changes in them, `Accepted` and `Fair` the state computed from them; an external quote may bring a time of its own |
| `Shock` | `market/shock.py` | `trades` the deque, `lastShock` the time and direction of the last one; `Window`, `Detect` what `update` changes, `ForceRatio` what it compares, `Activation` what it returns |
| `MarketData` | the first half of `process` over the three | `SnapshotEvent`, `DeltaEvent`, `TickerEvent`, `PrintEvent`, `ExternalEvent`, `OtherEvent`, each with `Advance` and `Refresh`; `MarketView` is the `View` they leave for the pipeline |
| `LiveGates` | `execution/live_gates.py`, `validate_order` of `exchange/bitbank_rules.py` | `Gates` the list of gates in the code's order, `GateReason` what the live-order observation says |
| `Strategy` | the whole of `process` | extends both halves: `Ingest` takes an event into `MarketData`, `Process` gives the view it leaves to the pipeline, `Settle` books and matches, `Requote` is `Decide` with the queues the book shows |
| `JsonlWriter` | `recorder/jsonl_writer.py` | a writer is a record with the files' contents; `Written` is `write`, with `Rotated`, `Opened`, `Flushed`, `Closed`; `Failed` is what a write leaves that raises in `open`, in `close` for a rotation, in the `write` of the handle or in `flush`; `FailsToClose` what a `close` leaves that raises |
| `Recorder` | `recorder/bitbank_public_recorder.py` | `main` is where `run()` is, `heartbeat` and `watchdog` where its tasks are; an action is what runs between two awaits. Every recording of an event and every closing may raise, up to `MaxFailures` times |
| `RecordingTools` | `replay/engine.py` without the pipeline, `recorder/inspection.py`, `recorder/split.py`, `recorder/status.py`, `analytics/quality_gate.py`, the public data gate of `cli.py` | operators on a sequence of events |
| `Recordings` | a recording that grows | an action appends the events of one message or of one start of the recorder; diffs may be late or repeated, trades of a message have their own times |
| `MCDepthFeed`, `MCMarketData`, `MCStrategy`, `MCRecorder`, `MCRecordings` | TLC instances | books, messages and event sizes |
| `FoldLemmas`, `StrategyLemmas` | lemmas | sums over sets and sequences, quotients, flattened sequences; quote surface, projector, fill model and risk kernel |
| `PipelineProofs`, `DepthProofs`, `MarketProofs`, `StrategyProofs`, `RecorderProofs`, `RecordingProofs` | proofs | see below |

`process` runs without interruption, so its phases could be one step. They are
steps of their own because an exception can abandon the call between them: with
`SwallowErrors` FALSE (replay) the run ends in `failed`; with TRUE (dry-run: the
socket library logs exceptions of handlers and goes on) the strategy continues
from the half-booked state.

`Pipeline` takes any view and any visible queue as input, which is what the
proofs need; `Strategy` closes the loop. It takes an event into the market data
modules first and processes it in a second step at the same time, before
anything else is received: two steps instead of one only so that the view is
evaluated once. The queue a placed order is put behind is the order book's at
its price (`QueuesAreVisible`). External fair prices are not part of bitbank's
stream and left out there (`MarketData` has them).

Abstractions. Prices, sizes and time are integers. `exp(-d)` of the quote
surface is taken to first order, so levels, skew and side activation move prices
and sizes in the code's direction and every cut-off is kept, but sizes are not
the code's numbers. The fee's 10,000 is the constant `FeeScale`, so that small
prices produce non-zero fees. Formatting and the reasons of risk are left
out; the reason of a live-order observation is `GateReason`, and as it changes no
state it is read in a property and not stored. The book and fair price
reach the pipeline as a set of views; a trade, status or pair spec event leaves
the book part of the view alone (`SameBook`), as only order book events touch it.
Emitted fills are kept as the sum `metrics.summarize` makes of them.
History variables, which no action of the code reads: `absorbed`, what queues have
taken of the trade being matched; `created` in the fills being matched; and `fillLog`, all
fills ever booked, as the kernel forgets its own. Of the gates that read settings
(`ConfigGates`) each is open or closed for the whole run.

In the market modules prices are whole ticks, spreads and deviations are
compared by cross multiplication, and the exponentials of the shock activation
are first order again. `DepthFeed` keeps histories of what was delivered, lost
and applied, `MarketData` of every trade, `Recorder` of messages and
heartbeats; no action of the code reads them. In `Recorder` an event is its kind
and the number of reconnects at that time, and its size a constant per kind.
In `RecordingTools` a fill is a trade at which a fair price is known. The sort
compares sequences as strings: `Padded` is the number padded with zeros to the
length of `Limit`, a power of ten above every sequence, and `Scale` the power of ten in
`Powers` that this takes, so that equal ones are told apart by their length.
`order_id` in the fill model is compared as a string too; `IdBefore` says which of
two numbers comes first, as the number of digits of `IdCeilings` decides.

A failing write or flush in `JsonlWriter` loses any number of the newest events that were
not flushed yet, as a file object keeps its buffer but for the text on its way into
it. The text is dropped by whole events: a torn line at the end of a file is not
modelled, nor a `close(2)` that raises after its flush has succeeded.

## Runs

| Run | Question | Result |
|---|---|---|
| `pipeline_core` | two levels a side, three active orders, partial fills, expiry, replacement, a view that moves up, thins out or turns invalid: do the two order books, queues, priority, ids and balances stay right, and does the fill model implement `OrderLifecycle`? | holds |
| `pipeline_orphans` | are stale orders always canceled? | violated: a partly filled order is forgotten by the projector and stays fillable |
| `pipeline_unfunded` | do the balance limits keep fills funded? | violated: the limit reserves one order while several rest |
| `pipeline_dryrun` | does the report explain the balances in dry-run? | violated: the exception of an overdrawn fill leaves the balances changed and the fills unreported |
| `depth_feed` | is a fresh book the exchange's book if nothing was missed, are gaps only due to loss or overtaking, and does the book become fresh and equal again? | holds |
| `depth_rewind` | is a book that a late whole book took back marked stale? | violated: a snapshot is taken whatever its sequence is |
| `market_data` | book source, fair price, pressure and activation over six units of events | holds |
| `strategy` | the market data modules and the pipeline together, all risk stops on: do orders rest only in a market that can be quoted, is a new shock, a drift and a burst of fills answered, do live gates and kernel agree? | holds |
| `strategy_stale` | is no order left in a book that has not been heard of for `stale_after_ms`? | violated: the ticker keeps the fair price, and nothing asks for the book's age |
| `recorder` | main task, watchdog and handlers over two connections, with a write or closing that fails anywhere: are the connections told apart in the files, and does `run()` leave nothing behind? | holds |
| `recorder_tasks` | the same with periodic heartbeats in between: do the files hold every event but those a failure cost, within their limits and with few unflushed, is a lost connection replaced, and does `run()` end when it has enough? | holds |
| `recordings` | do split, inspection, strict replay, sort, enrichment and the gates agree on every recording of up to five events, in and out of order, and do their verdicts last while it grows? | holds, in the weakened form below |

Bounds. `MaxTime` ends the recording (7 units: orders live for 3, so an order can be placed, filled in part, replaced, expire
and be placed again); `MaxCounter` stops new events once the projector has
numbered 30 cancels and placements, beyond what `MaxTime` lets it reach. A trade of 3 against orders of 2 fills one
and part of another; a trade of 1 fills a part. The `Up` view crosses resting sells,
`Thin` and `InitialView` block everything. Deadlock is not checked because a
recording ends. No fairness is assumed in the pipeline runs: everything checked
there is safety.

* `depth_feed`: four changes of the exchange's book, two messages on their way
  per room, one dropped connection. A whole book can overtake and be overtaken
  by up to two deltas, and a connection can drop before and after staleness.
* `market_data`: time up to 6 in steps of 1 or 2, so sources (age 2), window (3),
  wait (2) and decay (6) begin and end; two snapshots, deltas, trades, tickers
  and quotes of opposite sense, external quotes that are late or on time (a clock ahead
  of the event's is left to the theorem); two trades. `MinSources` is 2, so agreement
  matters; `strategy` has the default 1.
* `strategy`: five units of time with an event at each, so that a fill burst (window
  1), a shock with its wait (1), an order's life (2), a source's age (2) and both drift
  horizons (1 and 2) begin and end, and later fills come within a burst's cooldown (3,
  up to the end of the run: when quotes come back is not asked); three trades, enough
  for a shock, a fill that begins the burst and a second shock in either direction;
  a book and the same without asks, an update out of order, a ticker below the
  book. `MinSources` is 1, the default, so the ticker alone can carry the fair price;
  two sources that must agree are `market_data`'s. Every setting of the live
  gates is open, so the gates that read the pipeline's state decide.
* `recorder`: two messages, so one on each of two connections, a watchdog of 1, a timeout of 1
  or none, files of 4 events or 5 bytes, a flush every 3 events, `max_events` 5, one
  write or closing that fails. Each can come before, between or after any other.
  Periodic heartbeats are left to the other run: they mark nothing and wake nobody.
* `recorder_tasks`: one message, one reconnect, one periodic heartbeat, a watchdog of 1, no
  timeout, files of 3 events or 4 bytes, a flush every 2 events, so that flushes and
  rotations fall on different events, `max_events` 2, one failure. Up to nine events are
  recorded, which is three files and more. A timeout could only end a run earlier.

* `recordings`: five events, exchange times 0 to 2 with a lag of 1, diffs from the first
  sequence to the next, so late and repeated ones, also before the first whole book;
  whole books one behind or one ahead of the diffs, depth sequences around 9 and 10
  (`Limit` 100, `Powers` 1 and 10: strings of one and of two digits),
  one or two transactions per message in both orders, each with its time, two or three parts.
  Five events are what it takes for metadata, two diffs out of order and the snapshot that
  make a recording `ok_for_replay` and refused.

Fairness. `depth_feed`: the exchange publishes its whole book again and again, and
the socket client hands arrived messages to the handlers; nothing is
assumed of changes, loss or order between rooms. `recorder`: the event loop does not
stop while a task of `run()` is ready, a connect attempt is open or time is awaited
(weak fairness of `Progress`, the disjunction of those steps; none of them is
promised on its own). Messages need not come, heartbeats need not wake, and a
broken connection need not be noticed by the socket client, which is what
the watchdog is for.

`recorder` and `recorder_tasks` state limits of the promise. `run()` waits for done, idle or the
timeout and never for the disconnect, so with `max_idle_sec` off and no timeout a
connection that drops is not replaced: the runs have the watchdog on. A failed
write or closing can take up to `FlushEvery` events with it that earlier calls of
`write()` had returned for (`RecordingIsComplete` counts them, `TailLossIsBounded` allows
for them), the disconnect mark between two connections among them: the files then
hold the messages of both with nothing in between, and `ConnectionsAreSeparated` says
that this is the only way. A `close()` that fails in `run()` leaves the file open. And a failed
write costs a task: a watchdog whose write failed wakes nobody, a heartbeat
whose write failed makes `run()` raise where it would reconnect.
`LostConnectionIsReplaced` names both escapes, so it says that there is no third.

`strategy`'s `DriftStops` compares only with moments at which risk allowed a side:
the kernel records no fair price at the others, and a drift that began during a
block is not seen. `GatesAgreeWithTheKernel` names the one disagreement left: the gates
refuse an order whose status (or pair spec) was never fetched, the kernel lets it pass.
What `strategy_stale` shows of an old book goes for a crossed one too, though no run
is spent on it: it only stops being a source (`Accepted`), and where one is enough the
ticker keeps the fair price valid.

`recordings` states the agreement that is left. Strict replay does refuse
recordings that the inspection calls `ok_for_replay`: when a whole book is behind
the diffs (the inspection restarts its sequence there, replay does not), when
transactions are listed newest first (the inspection looks at depth only) and when
diffs before the first whole book are late or out of order (the inspection compares a diff
only once a snapshot has given it a sequence). `VerdictsAgreeOnDeltas` says that
these are all, and that the inspection finds a violation in what replay accepts only where a
diff repeats a sequence. `GrowthKeepsTheVerdicts`
is of lines in order, for a late whole book does take a verdict back. `exchange_time_sort`
compares sequences as strings, so "10" is replayed before "9" of the same time;
`SortKeepsAcceptance` holds where the number of digits does not change.

Each property has a mutant of the modelled code (kept next to the definition it
alters, and listed in `PROJECT.json`) under which TLC finds it violated.

## Proofs

TLAPS proves what follows for every value of the constants that satisfies the
assumptions of the modules (`ClockAssumption`, `MarketAssumption` and so on): they
give constants their types, keep `None` apart from numbers, events and names of
sources, and ask for nothing else but that what is divided by, counted to or
compared with makes sense (a lot, a flush interval, a full activation of at least 1). TLC evaluates each in the runs.

**The pipeline** (`PipelineProofs`).

* `TypeCorrect`: `[]TypeOK`. The invariant is `TypeInv`: `TypeOK` and `Phases`,
  which ties `pc` to the trade, the fills and the eligible orders.
* `IdsStayUnique`, `FillsWaitForTheQueue`: from `OrderInv`, which adds that a
  remaining amount is positive and at most the placed size. The crux is `SyncFacts`: the
  ids handed out by a sync are above the counter and different, because
  `UpTo` numbers a set of keys in their rank order (`UpToFacts`).
* `PriorityHolds`: no order still eligible comes before one already filled, in price
  or, at the same price, in the time it was created. (Orders created at the same
  time follow the string order of their ids; no property ranks them.)
* `TradeIsConsumedOnce`: what is filled, what queues have absorbed and what is left to
  hand out add up to exactly the trade's amount, also in the middle of the loop.
* `Refinement`: every step is a step of `OrderLifecycle` or leaves it alone.
* In replay (`~SwallowErrors`): `ProjectorIsTracked`, `OnlyPartialFillsOrphan`
  (from `BooksInv`, which describes the two order books also while fills wait to
  be booked), `ActiveStayCurrent` and `LedgerExplains` (from the sum of balances, booked
  and reported amounts). They are false in dry-run: `pipeline_dryrun` shows it.
* `BurstsCoolDown`, in replay of events in order of time: for `BurstCooldown` after a
  fill that completes a burst the side is not quoted. Bursts are judged on `fillLog`, all
  fills there ever were. `BurstInv` says that the kernel's own history is the log without
  a head that is out of the window (`Pruned`), so it counts all of a burst when it is
  completed, and that every burst of the log still within its time has its cooldown, whatever
  later fills and `evaluate()` did to the deques (`Cooling`).

**The order book** (`DepthProofs`): `BookTypeCorrect`, `ReconstructionIsExact`,
`GapsAreExplained`. `StreamInv` says that a message on its way is the difference,
or the whole, of a state the exchange's book was in, and that diffs are in sequence;
`FreshInv` that the book, if complete, is the exchange's at its sequence, and that
a change that was sent is in the book, was lost or came before the snapshot. The step is
that the difference of two books, applied to the first, gives the second.

**The market data** (`MarketProofs`): `DataIsTyped`, `BookIsCurrent`,
`FairHasSupport` (recent by the time each source gives for itself), and for events in order of time `PressureOfTheWindow` and
`ActivationHasABurst`. `DataTypeOK` is not inductive: it needs that sources and
levels are finitely many and that a book in use has a time (`DataInv`). That the
deque is the window is `WindowInv`: it is the tape of all trades without a head that is
too old. `HistoryInv` keeps the shock at the moment at which the pressure turned.

**The whole of process()** (`StrategyProofs`). Every step belongs to one half and
leaves the other alone, so `StrategyRunsData`: the market data modules run as if
alone, and what is proved of them holds here. `StrategyInv` puts the invariants of
both halves together with what joins them, that the pipeline's view is the market's
unless an event waits. From it

* `StrategyTypeCorrect`, with nothing assumed: in particular `MarketView \in View`,
  the typing that `Pipeline` takes for granted of its input;
* `MarketBehindTheQuotes`: the view that risk allowed a side in is still the market's;
* `ShockPullsTheQuotes`: while an event waits, the orders may be those of the shock
  before (`JustShocked`); deciding takes them off the book;
* `StrategyCoolsDown`, the burst cooldown on the log of all fills again, as the clock moves in the other half;
* `DriftIsAnswered`: the kernel's history lacks the events it blocked outright, and
  is cut at other times than by the horizons. `DriftInv` says that both it and the
  marks are in order of time and that an event at which a side was allowed is in the
  history, with none but later marks behind it (`Tied`);
* `GatesAgree`: the gates, written a second time, against kernel and projector.

Their hypotheses are settings of the program, or what a recording is like:
`~SwallowErrors` (replay: in dry-run an exception leaves orders where they are and the
event unprocessed), `TimeSteps \subseteq Nat` (exchange times do not go back, without
which the deques are no windows), `BlockStale` with `MinDepth > 0` (the default
blocks stale books; a crossed book has no depth, and if none is asked for, its negative
spread passes), `BlockStatus`, `BlockStopFlags` and a live limit of at least `MaxOrderSize`
(gates that are stricter than the kernel's settings do refuse its orders).

**The recorder** (`RecorderProofs`): `RecorderTypeCorrect`, `FilesAreComplete`,
`RotationKeepsLimits`, `TailIsBounded`, `ConnectionsAreMarked`, `RunCleansUp`, with
writes and closings that fail anywhere. `TaskInv` says which tasks may be alive where `run()` is,
`LogInv` what the files, the counters of the writer and the lost events have to
do with the list of events recorded so far: the files are the list without what was lost
(`Holds`: an event kept is found at its place among those kept, the number of kept ones up to it),
the writer is in order (`WriterInv`) and its tail bounded (`TailInv`). A failing write cuts the
end of the files, and `HoldsCut` says which events of the list join the lost.
`LogWritten`, `LogFailed` and `LogCut` prove it of a write that returns, a write and a
closing that raise, so each action of the tasks is left with its own part.
`ConnectionInv` is of the list: a connection that is up has a disconnect behind the
messages of the one before. `ConnectionsAreMarked` carries it over to the files: messages keep
their order there, so the mark is between them, or it is one of the lost events.

**The recording tools** (`RecordingProofs`), for recordings of any length, any
number of parts and any horizon. Strict replay and the inspection compare an event
with the one before it, while sorting and splitting change what is before what.
So the proofs turn both into statements about all pairs: `AcceptedIsInSequence`
(no two events of a stream are out of order) and `SoundIs` (no delta after the first
snapshot is at or behind a depth event before it), for which `InspectStates` says
what the fold of the inspection remembers after every line. What holds of all
pairs holds of any selection of the events in the same order, and so

* `SplitsArePartitions` needs only the arithmetic of the parts, that the intervals
  of `InPart` cover the span and do not overlap;
* `SplittingKeepsTheVerdict`: `PartIs` writes a part as its metadata, which has no
  sequence, and a selection of the recording;
* `SortingKeepsAcceptance`: `SortOrderIsStrict` and `RankedList` make the sorted
  recording a list of the positions, in which only pairs that the hypothesis is
  about have moved;
* `VerdictsAgreeCorrect`: a delta behind a snapshot that replay refuses is one the
  inspection counts (`CountedAre`), with nothing assumed of the order of diffs;
  `RecordingsTypeCorrect`;
* `MarkoutsAreFinal` and `VerdictsSurviveGrowth`, action properties: what a longer
  recording begins with is the shorter one (`Extends`), so its first event at a
  horizon is the same, and a bad pair would have a new event in it.

The invariant, `RecordingInv`, is of what the recorder writes: depth events and trades
are numbered and metadata is not, no sequence reaches `Limit`, and nothing is said of the
order they come in. The assumptions on the constants make `Limit` a power of ten above
every sequence the bounds allow and its sequences natural numbers.

Sums and flattened sequences are folds of the community modules, whose induction
over a set cannot be cited (the theorem has an operator for a parameter).
`FoldLemmas` does it with sets instead: the numbers of elements for which the
statement holds contain 0 and with every number the next, so they are all numbers.

Only model-checked: the liveness properties (`BookCatchesUp`,
`LostConnectionIsReplaced`, `EnoughIsEnough`), which
rest on fairness, and the proof system does not treat it; and the five violations.
Every invariant and every other action property of a passing run is a theorem.

## Plan

What is left:

1. The dry-run engine's socket handler: a message of several events whose first
   one raises, which drops the rest and skips the check of `max_events`.
2. Events whose exchange time goes back: histories that expire from the head only.

## Not modelled

The exchange clients, request signing and `ccxt_gateway` (pure I/O), parsing of
configuration and exchange rules (their results are constants and the metadata
of `Pipeline`), reports, percentiles, quote churn and sweeps (arithmetic over
finished lists), the mock recorder and the other commands of the CLI.
`recording_status` reads file times; the model takes their verdict, stale or not, as
an input. That heartbeats keep a file young while nothing is connected is
listed as a hazard and not modelled.
