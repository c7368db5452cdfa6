---------------------------- MODULE RecordingTools ----------------------------
(***************************************************************************)
(* What the tools compute from a recording: the replay order and its       *)
(* strict sequence assertion, the enrichment of fills (replay/engine.py),  *)
(* the inspection's verdict and the split by exchange time.                *)
(*                                                                         *)
(* A recording is a sequence of events [kind, ts, seq, fair]: ts is        *)
(* ts_exchange, seq None where the event has no integer sequence, fair the *)
(* fair price of the mark the replay emits at the event, None without one. *)
(* Each message's bitbank_raw copy repeats its sequence in a stream of its *)
(* own and is left out.                                                    *)
(***************************************************************************)
EXTENDS Integers, SequencesExt

CONSTANTS
  None,            (* Python's None *)
  Limit, Powers    (* a power of ten above every sequence, and those below it *)

(* What the recording's status may complain of, first come first said. *)
Complaints == <<"missing_files", "recording_stale", "inspection_required_for_min_duration",
                "inspection_failed", "recording_duration_below_min">>

ASSUME RecordingToolsAssumption ==
  /\ None \notin Int \cup Range(Complaints)
  /\ Limit \in Nat /\ Powers \subseteq 1..Limit /\ 1 \in Powers
  /\ \A p \in Powers : 10 * p \in Powers \cup {Limit} /\ p # Limit

Depth == {"snapshot", "delta"}
MetadataKinds == {"spec", "status"}
Kinds(events) == {events[i].kind : i \in DOMAIN events}

(***************************************************************************)
(* The positions of a set one after another, in a strict order of them,    *)
(* and the events at them.                                                 *)
(***************************************************************************)
ByRank(positions, before) ==
  [n \in 1..Cardinality(positions) |->
     CHOOSE i \in positions : Cardinality({j \in positions : <<j, i>> \in before}) = n - 1]
InLine(positions) == ByRank(positions, {pair \in positions \X positions : pair[1] < pair[2]})
At(events, order) == [n \in DOMAIN order |-> events[order[n]]]

(***************************************************************************)
(* _assert_monotonic_sequences: the positions at which it raises, were it  *)
(* to go on.  One stream for both kinds of depth event; equal is allowed.  *)
(***************************************************************************)
Stream(event) == IF event.kind \in Depth THEN "order_book" ELSE event.kind

Numbered(events, i) ==
  {j \in 1..(i - 1) : events[j].seq # None /\ Stream(events[j]) = Stream(events[i])}
Rejected(events) ==
  {i \in DOMAIN events : /\ events[i].seq # None
                         /\ Numbered(events, i) # {}
                         /\ events[i].seq < events[Max(Numbered(events, i))].seq}
Accepted(events) == Rejected(events) = {}

(***************************************************************************)
(* _order_events sorts by ts and the sequence as a string.  Strings of     *)
(* digits compare as the numbers padded with zeros to the same length do,  *)
(* the shorter one first among equals: 1 < 10 < 19 < 2.  "None" comes      *)
(* after digits.  Python's sort is stable.  Mutant: one that is not.       *)
(***************************************************************************)
Scale(seq) == IF seq = None THEN 0 ELSE Max({p \in Powers : seq * p < Limit})
Padded(seq) == IF seq = None THEN Limit ELSE seq * Scale(seq)
UnstablyPrecedes(events, i, j) ==
  \/ events[i].ts < events[j].ts
  \/ events[i].ts = events[j].ts /\ i > j
Precedes(events, i, j) ==
  LET a == <<events[i].ts, Padded(events[i].seq), -Scale(events[i].seq), i>>
      b == <<events[j].ts, Padded(events[j].seq), -Scale(events[j].seq), j>>
  IN  \E k \in 1..4 : a[k] < b[k] /\ \A l \in 1..(k - 1) : a[l] = b[l]
ExchangeTimeSorted(events) ==
  LET positions == DOMAIN events
  IN  At(events, ByRank(positions, {pair \in positions \X positions :
                                      Precedes(events, pair[1], pair[2])}))

(***************************************************************************)
(* enrich_fair_after.  Mutant: the mark nearest in time is taken.          *)
(***************************************************************************)
Marks(events) == {i \in DOMAIN events : events[i].fair # None}
Reaching(events, t) == {i \in Marks(events) : events[i].ts >= t}
NearestFair(events, t) ==
  LET reach == Reaching(events, t)
  IN  IF reach = {} THEN events[Max(Marks(events))].fair
      ELSE events[CHOOSE i \in reach : \A j \in reach :
                    events[i].ts < events[j].ts \/ (events[i].ts = events[j].ts /\ i <= j)].fair
FairAfter(events, t) ==
  LET reach == Reaching(events, t)
  IN  events[IF reach = {} THEN Max(Marks(events)) ELSE Min(reach)].fair

(***************************************************************************)
(* inspect_recording: a snapshot restarts the sequence, and a delta counts *)
(* against it only when there is one to compare with.  Mutants: a snapshot *)
(* starts nothing; it is compared like a delta.                            *)
(***************************************************************************)
Compare(s, e) ==
  IF e.kind # "delta" \/ e.seq = None \/ s.last = None THEN s
  ELSE [last |-> e.seq, violations |-> s.violations + IF e.seq <= s.last THEN 1 ELSE 0]
SnapshotForgets(s, e) == IF e.kind = "snapshot" THEN [s EXCEPT !.last = None] ELSE Compare(s, e)
SnapshotCompared(s, e) ==
  IF s.last = None /\ e.kind = "snapshot" THEN [s EXCEPT !.last = e.seq]
  ELSE Compare(s, IF e.kind = "snapshot" THEN [e EXCEPT !.kind = "delta"] ELSE e)
Inspect(s, e) == IF e.kind = "snapshot" THEN [s EXCEPT !.last = e.seq] ELSE Compare(s, e)

Violations(events) == FoldLeft(Inspect, [last |-> None, violations |-> 0], events).violations
Required == {"spec", "status", "snapshot", "delta"}
OkForReplay(events) ==
  Required \subseteq Kinds(events) /\ Violations(events) = 0 /\ "failed" \notin Kinds(events)

(***************************************************************************)
(* The duration is between the first and the last line.  Mutant: without   *)
(* the lower bound of 0.                                                   *)
(***************************************************************************)
SignedDuration(events) == Last(events).ts - Head(events).ts
Duration(events) == Max({0, Last(events).ts - Head(events).ts})

(***************************************************************************)
(* recording_status: the reason it gives, None if the recording is ok.     *)
(* stale is what the time of the last write says; inspected is an option   *)
(* and so is a minimum.                                                    *)
(***************************************************************************)
StatusReason(events, missing, stale, inspected, minimum) ==
  LET applies == << missing, stale, ~inspected /\ minimum # None,
                    inspected /\ ~OkForReplay(events),
                    inspected /\ minimum # None /\ Duration(events) < minimum >>
      given   == {n \in DOMAIN Complaints : applies[n]}
  IN  IF given = {} THEN None ELSE Complaints[Min(given)]

(***************************************************************************)
(* evaluate_quality_gate: what is wrong with the inspection and with the   *)
(* reports of the replays.  Alpha must be above its threshold, fills and   *)
(* their rate not below, orders and cancels not above.                     *)
(***************************************************************************)
ReportFailures(report, thresholds) ==
  {m \in {"fills", "fill_rate"} : report[m] < thresholds[m]}
    \cup {m \in {"alpha"} : report[m] <= thresholds[m]}
    \cup {m \in {"orders", "cancels"} : report[m] > thresholds[m]}
InspectionFailures(events, minimum) ==
  (IF OkForReplay(events) THEN {} ELSE {"recording_inspection_not_ok"})
    \cup (IF Duration(events) < minimum THEN {"recording_duration_below_min"} ELSE {})
QualityFailures(events, inspected, reports, thresholds) ==
  (IF Len(reports) < thresholds.reports THEN {"report_count_below_min"} ELSE {})
    \cup (IF inspected THEN InspectionFailures(events, thresholds.duration)
                       ELSE {"recording_inspection_required"})
    \cup UNION {ReportFailures(reports[i], thresholds) : i \in DOMAIN reports}

(***************************************************************************)
(* split_recording_by_time.  The first spec and the first status are the   *)
(* metadata; everything else, later specs too, is data.  Part k of n is    *)
(* half open, the last part closed.  It raises without two different times *)
(* and on an empty part.  Mutant: every part is closed.                    *)
(***************************************************************************)
IsMetadata(events, i) ==
  events[i].kind \in MetadataKinds /\ \A j \in 1..(i - 1) : events[j].kind # events[i].kind
Metadata(events) == {i \in DOMAIN events : IsMetadata(events, i)}
Data(events) == DOMAIN events \ Metadata(events)
Times(events) == {events[i].ts : i \in Data(events)}

EveryPartClosed(offset, span, k, n) == n * offset >= (k - 1) * span /\ n * offset <= k * span
InPart(offset, span, k, n) ==
  /\ n * offset >= (k - 1) * span
  /\ IF k = n THEN n * offset <= k * span ELSE n * offset < k * span

Selected(events, k, n) ==
  LET first == Min(Times(events))
      span  == Max(Times(events)) - first
  IN  {i \in Data(events) : InPart(events[i].ts - first, span, k, n)}
Splits(events, n) ==
  IF Cardinality(Times(events)) < 2 THEN FALSE
  ELSE \A k \in 1..n : Selected(events, k, n) # {}

(***************************************************************************)
(* A part starts with the metadata, moved in front of its first data.      *)
(* Mutant: the data is put in exchange time order.                         *)
(***************************************************************************)
Moved(events, k, n) ==
  LET metadata == At(events, InLine(Metadata(events)))
      start    == Min({events[i].ts : i \in Selected(events, k, n)})
  IN  [m \in DOMAIN metadata |-> [metadata[m] EXCEPT !.ts = start - (Len(metadata) - m + 1)]]
Chosen(events, k, n) == At(events, InLine(Selected(events, k, n)))
PartInTimeOrder(events, k, n) == Moved(events, k, n) \o ExchangeTimeSorted(Chosen(events, k, n))
Part(events, k, n) == Moved(events, k, n) \o Chosen(events, k, n)

(***************************************************************************)
(* cli.py, run-public-data-gate: the stage at which it stops.  The split   *)
(* comes last and its parts are replayed like the whole.  A replay fails   *)
(* here by its strict sequence assertion; that it can fail in the strategy *)
(* too is in Pipeline.  The quality gate decides the result, not whether   *)
(* the parts are replayed.  The duration check and the split are options,  *)
(* taken here as given; --strict, the default, stops a recording without   *)
(* ticker or trade at the inspection and is left out.                      *)
(***************************************************************************)
Orders == {"arrival_order", "exchange_time_sort"}
Ordered(events, order) == IF order = "arrival_order" THEN events ELSE ExchangeTimeSorted(events)

SplitStage(events, order, n) ==
  IF ~Splits(events, n) THEN "split_recording"
  ELSE IF \E k \in 1..n : ~Accepted(Ordered(Part(events, k, n), order)) THEN "split_replay"
  ELSE "quality"
PublicDataGate(events, order, n, minimum) ==
  IF ~OkForReplay(events) THEN "inspect_recording"
  ELSE IF Duration(events) < minimum THEN "recording_duration"
  ELSE IF ~Accepted(Ordered(events, order)) THEN "replay"
  ELSE SplitStage(events, order, n)
==============================================================================
