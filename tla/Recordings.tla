------------------------------ MODULE Recordings ------------------------------
(***************************************************************************)
(* A recording as the recorder writes it, one exchange message at a time,  *)
(* and what the tools say of it at every length: recordings are inspected, *)
(* replayed and split while they are still growing.                        *)
(***************************************************************************)
EXTENDS RecordingTools

CONSTANTS
  Leads,           (* how far the sequence of a whole book is from the diffs' *)
  MaxSkew,         (* how far an event's exchange time is behind the newest, *)
                   (* and the newest behind the recorder's own clock         *)
  FirstSequence,   (* of the depth when the recording starts                  *)
  PartCounts, Horizons, MinDuration,
  ReportSets, Thresholds,   (* of the quality gate *)
  MaxTime, MaxEvents   (* bounds *)

ASSUME RecordingsAssumption ==
  /\ {MaxSkew, FirstSequence, MaxTime} \subseteq Nat /\ MaxEvents \in Nat \ {0, 1}
  /\ Leads \subseteq Int /\ \A lead \in Leads : FirstSequence + lead \in Nat
  /\ \A lead \in Leads \cup {0} : FirstSequence + MaxEvents + lead < Limit
  /\ PartCounts \subseteq Nat \ {0, 1} /\ Horizons \subseteq Nat \ {0} /\ MinDuration \in Nat
  /\ Thresholds.duration \in Int

VARIABLES
  recording,
  now,             (* the exchange's clock *)
  diffed,          (* sequence of the newest depth_diff *)
  traded           (* newest transaction id *)

vars == <<recording, now, diffed, traded>>

Event(kind, ts, seq, fair) == [kind |-> kind, ts |-> ts, seq |-> seq, fair |-> fair]
NoFair(kind, ts) == Event(kind, ts, None, None)

(***************************************************************************)
(* A run of the recorder starts with the metadata, or with the event that  *)
(* says they are missing, at the time of the recorder's own clock.         *)
(***************************************************************************)
MetadataEvents(exchange) ==
  LET ts == exchange + MaxSkew
  IN  {<<NoFair("spec", ts), NoFair("status", ts + 1)>>, <<NoFair("failed", ts)>>}

Init ==
  /\ recording \in MetadataEvents(0)
  /\ now = 0 /\ diffed = FirstSequence /\ traded = 0

Write(events) ==
  /\ Len(recording) + Len(events) <= MaxEvents
  /\ recording' = recording \o events

(***************************************************************************)
(* The fair price the replay marks at the next event: from the first       *)
(* snapshot on, one tick higher after every depth event.                   *)
(***************************************************************************)
FairWith(kind) ==
  LET depth == {i \in DOMAIN recording : recording[i].kind \in Depth}
  IN  IF "snapshot" \notin Kinds(recording) \cup {kind} THEN None
      ELSE Cardinality(depth) + IF kind \in Depth THEN 1 ELSE 0

ExchangeTimes == {t \in (now - MaxSkew)..now : t >= 0}

(***************************************************************************)
(* The next diff, or one that comes late or once more.                     *)
(***************************************************************************)
Diff ==
  /\ \E ts \in ExchangeTimes, seq \in FirstSequence..(diffed + 1) :
       /\ Write(<<Event("delta", ts, seq, FairWith("delta"))>>)
       /\ diffed' = IF seq > diffed THEN seq ELSE diffed
  /\ UNCHANGED <<now, traded>>

Whole ==
  /\ \E ts \in ExchangeTimes, lead \in Leads :
       Write(<<Event("snapshot", ts, diffed + lead, FairWith("snapshot"))>>)
  /\ UNCHANGED <<now, diffed, traded>>

(***************************************************************************)
(* A message lists transactions, the newest last or first, each with the   *)
(* time it was executed at.                                                *)
(***************************************************************************)
Transactions ==
  /\ \E ids \in {<<1>>, <<1, 2>>, <<2, 1>>} : \E ts \in [DOMAIN ids -> ExchangeTimes] :
       /\ Write([m \in DOMAIN ids |-> Event("trade", ts[m], traded + ids[m], FairWith("trade"))])
       /\ traded' = traded + Len(ids)
  /\ UNCHANGED <<now, diffed>>

(***************************************************************************)
(* The files of several runs are given to the tools together.              *)
(***************************************************************************)
Restart ==
  /\ \E events \in MetadataEvents(now) :
       Write([m \in DOMAIN events |-> [events[m] EXCEPT !.fair = FairWith("status")]])
  /\ UNCHANGED <<now, diffed, traded>>

Tick == now < MaxTime /\ now' = now + 1 /\ UNCHANGED <<recording, diffed, traded>>

Next == Diff \/ Whole \/ Transactions \/ Restart \/ Tick

Spec == Init /\ [][Next]_vars

(***************************************************************************)
(* Recordings are sequences of events, and the duration reported is a      *)
(* length of time that the recording has.                                  *)
(***************************************************************************)
AnEvent == [kind : Depth \cup MetadataKinds \cup {"failed", "trade"}, ts : 0..(MaxTime + MaxSkew + 1),
            seq : Nat \cup {None}, fair : Nat \cup {None}]
TypeOK ==
  /\ recording \in Seq(AnEvent) /\ Len(recording) \in 1..MaxEvents
  /\ now \in 0..MaxTime /\ diffed \in Nat /\ traded \in Nat
  /\ Duration(recording) \in 0..(MaxTime + MaxSkew + 1)

(***************************************************************************)
(* A split loses nothing and repeats nothing: an event is the metadata of  *)
(* every part or the data of exactly one.  A part is earlier than the      *)
(* next, and its metadata earlier than its data, so that sorting it by     *)
(* exchange time keeps them first.                                         *)
(***************************************************************************)
IsPartition(n) ==
  LET selected == [k \in 1..n |-> Selected(recording, k, n)]
      times    == [k \in 1..n |-> {recording[i].ts : i \in selected[k]}]
  IN  /\ \A i \in Data(recording) : Cardinality({k \in 1..n : i \in selected[k]}) = 1
      /\ \A k \in 1..(n - 1) : Max(times[k]) < Min(times[k + 1])
      /\ \A k \in 1..n : \A event \in ToSet(Moved(recording, k, n)) : event.ts < Min(times[k])
SplitIsAPartition == \A n \in PartCounts : Splits(recording, n) => IsPartition(n)

(***************************************************************************)
(* A recording that strict replay accepts and that has no sequence         *)
(* violation is split into parts of which the same is true, and in either  *)
(* replay order the public data gate, having replayed the whole, does not  *)
(* fail at the replay of a part.                                           *)
(***************************************************************************)
Sound(events) == Accepted(events) /\ Violations(events) = 0
SplitKeepsTheVerdict ==
  \A n \in PartCounts :
    /\ Sound(recording) /\ Splits(recording, n) => \A k \in 1..n : Sound(Part(recording, k, n))
    /\ \A order \in Orders : PublicDataGate(recording, order, n, MinDuration) # "split_replay"

(***************************************************************************)
(* How far the inspection and strict replay agree on the depth, whatever   *)
(* is late, repeated or out of order in it.  What replay refuses in a      *)
(* recording that is ok_for_replay is a snapshot, a trade or a delta that  *)
(* comes before all snapshots, where the inspection does not look yet.  A  *)
(* recording that replay accepts has violations only where a delta repeats *)
(* the sequence of the snapshot or delta it follows.                       *)
(***************************************************************************)
BeforeSnapshots(i) ==
  recording[i].kind = "delta" /\ \A j \in 1..(i - 1) : recording[j].kind # "snapshot"
Repeats(i) ==
  /\ recording[i].kind = "delta" /\ Numbered(recording, i) # {}
  /\ recording[Max(Numbered(recording, i))].seq = recording[i].seq
VerdictsAgreeOnDeltas ==
  /\ OkForReplay(recording) => \A i \in Rejected(recording) :
       recording[i].kind \in {"snapshot", "trade"} \/ BeforeSnapshots(i)
  /\ Accepted(recording) /\ Violations(recording) > 0 => \E i \in DOMAIN recording : Repeats(i)

(***************************************************************************)
(* Sorting by exchange time keeps a recording acceptable whose streams are *)
(* in exchange time order, unless two events of a stream at the same time  *)
(* have sequences of different lengths ("10" is sorted before "9").        *)
(***************************************************************************)
SortIsHarmless ==
  \A i, j \in DOMAIN recording :
    i < j /\ Stream(recording[i]) = Stream(recording[j]) /\ recording[j].seq # None =>
      /\ recording[i].ts <= recording[j].ts
      /\ recording[i].ts = recording[j].ts => Scale(recording[i].seq) = Scale(recording[j].seq)
SortKeepsAcceptance ==
  Accepted(recording) /\ SortIsHarmless => Accepted(ExchangeTimeSorted(recording))

(***************************************************************************)
(* A fill's fair_after price is final once a mark has reached its horizon: *)
(* the report of a recording that grew differs only in fills near the end. *)
(***************************************************************************)
Fills == {i \in DOMAIN recording : recording[i].kind = "trade" /\ recording[i].fair # None}
Settled(i, h) == Reaching(recording, recording[i].ts + h) # {}
SettledMarkoutsStay ==
  [][\A i \in Fills, h \in Horizons :
       Settled(i, h) => FairAfter(recording', recording[i].ts + h)
                      = FairAfter(recording, recording[i].ts + h)]_vars

(***************************************************************************)
(* A recording is judged again and again while it grows.  A verdict that   *)
(* was good stays good as long as what is added is in order: nothing       *)
(* earlier than the last line, no delta at or behind and no snapshot or    *)
(* trade behind its stream, no missing metadata.  That goes for the status *)
(* with its minimum duration, for the quality gate on any reports, and for *)
(* the public data gate up to the replay of the whole.                     *)
(***************************************************************************)
InOrder(events, i) ==
  /\ events[i].kind # "failed"
  /\ events[i].seq # None => \A j \in Numbered(events, i) :
       IF events[i].kind = "delta" THEN events[j].seq < events[i].seq
                                   ELSE events[j].seq <= events[i].seq
Good(events) ==
  {<<"status", minimum>> : minimum \in
     {m \in 0..MaxTime : StatusReason(events, FALSE, FALSE, TRUE, m) = None}}
  \cup {<<"quality", reports>> : reports \in
     {r \in ReportSets : QualityFailures(events, TRUE, r, Thresholds) = {}}}
  \cup {<<"gate", minimum>> : minimum \in
     {m \in 0..MaxTime : PublicDataGate(events, "arrival_order", 2, m) \in
                           {"split_recording", "split_replay", "quality"}}}
GrowthKeepsTheVerdicts ==
  [][/\ Last(recording').ts >= Last(recording).ts
     /\ \A i \in DOMAIN recording' \ DOMAIN recording : InOrder(recording', i)
     => Good(recording) \subseteq Good(recording')]_vars
==============================================================================
