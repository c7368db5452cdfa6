----------------------------- MODULE JsonlWriter -----------------------------
(***************************************************************************)
(* recorder/jsonl_writer.py: an event log in numbered files.  A writer is  *)
(* a record, its methods are functions from writers to writers.            *)
(*   files    what was written to file 0, 1, ..., flushed or not           *)
(*   open     _fh is not None                                              *)
(*   index    file_index                                                   *)
(*   events, bytes   of the current file;  total  of all files             *)
(*            (events that a failing write dropped stay counted)           *)
(*   flushed  history: how many of the events in the files have left the   *)
(*            buffer                                                       *)
(***************************************************************************)
EXTENDS Integers, Sequences, SequencesExt

CONSTANTS
  RotateEvents, RotateBytes,   (* rotate_every_events, rotate_every_bytes; 0: off *)
  FlushEvery,                  (* flush_every_events *)
  Bytes                        (* from the kinds of events to their length *)

ASSUME WriterAssumption ==
  /\ RotateEvents \in Nat /\ RotateBytes \in Nat /\ FlushEvery \in Nat \ {0}
  /\ Bytes \in [DOMAIN Bytes -> Nat \ {0}]

NewWriter ==
  [files |-> <<>>, open |-> FALSE, index |-> 0, events |-> 0, bytes |-> 0, total |-> 0, flushed |-> 0]

(***************************************************************************)
(* open(): mode "w" starts the current file from nothing.                  *)
(***************************************************************************)
Opened(w) ==
  IF w.open THEN w
  ELSE [w EXCEPT !.open = TRUE, !.events = 0, !.bytes = 0,
                 !.files = IF w.index < Len(@) THEN [@ EXCEPT ![w.index + 1] = <<>>]
                           ELSE Append(@, <<>>)]

OnDisk(w) == FlattenSeq(w.files)

Closed(w) == [w EXCEPT !.open = FALSE, !.flushed = Len(OnDisk(w))]

(***************************************************************************)
(* Mutants: one event too many; the next file is the same file.            *)
(***************************************************************************)
RotatesLate(w, size) ==
  /\ w.events > 0
  /\ \/ RotateEvents > 0 /\ w.events > RotateEvents
     \/ RotateBytes > 0 /\ w.bytes + size > RotateBytes
MustRotate(w, size) ==
  /\ w.events > 0
  /\ \/ RotateEvents > 0 /\ w.events >= RotateEvents
     \/ RotateBytes > 0 /\ w.bytes + size > RotateBytes

RotatesInPlace(w) == Opened(Closed(w))
Rotated(w) == Opened([Closed(w) EXCEPT !.index = @ + 1])

(***************************************************************************)
(* write(), which opens the file if it is not.                             *)
(* Mutant: the buffer is flushed only by close().                          *)
(***************************************************************************)
Appended(w, e) ==
  [w EXCEPT !.files[w.index + 1] = Append(@, e), !.total = @ + 1,
            !.events = @ + 1, !.bytes = @ + Bytes[e.kind]]

NeverFlushed(w) == w
Flushed(w) == IF w.total % FlushEvery = 0 THEN [w EXCEPT !.flushed = Len(OnDisk(w))] ELSE w

ReadyFor(w, e) ==
  LET o == Opened(w) IN IF MustRotate(o, Bytes[e.kind]) THEN Rotated(o) ELSE o
Written(w, e) == Flushed(Appended(ReadyFor(w, e), e))

(***************************************************************************)
(* The handle raises when it gives its buffer to the file.  The buffer     *)
(* keeps what it holds, but for the text that was on its way into it: any  *)
(* number of the last events that are not flushed yet are gone.            *)
(***************************************************************************)
Unflushed(w) == Len(OnDisk(w)) - w.flushed
Dropped(w, n) == [w EXCEPT !.files[w.index + 1] = SubSeq(@, 1, Len(@) - n)]
BufferFails(w) == {Dropped(w, n) : n \in 0..Unflushed(w)}

(***************************************************************************)
(* close() that raises does so in flush(): the file stays open.            *)
(***************************************************************************)
FailsToClose(w) == IF Unflushed(w) > 0 THEN BufferFails(w) ELSE {}

(***************************************************************************)
(* What a write() that raises leaves behind.  open() fails, for the first  *)
(* event of a file: the next write() opens the file again.  Or close()     *)
(* fails in a rotation, which the next write() tries again.  Or write() of *)
(* the handle fails, in the new file if the event begins one.  Or flush()  *)
(* fails: the event is counted, and in the buffer or dropped.              *)
(***************************************************************************)
FailsToOpen(w, e) ==
  IF ~w.open THEN {w}
  ELSE IF MustRotate(w, Bytes[e.kind]) THEN {[Closed(w) EXCEPT !.index = @ + 1]}
  ELSE {}
FailsToRotate(w, e) ==
  IF w.open /\ MustRotate(w, Bytes[e.kind]) THEN FailsToClose(w) ELSE {}
FailsToWrite(w, e) == BufferFails(ReadyFor(w, e))
FailsToFlush(w, e) ==
  LET appended == Appended(ReadyFor(w, e), e)
  IN  IF appended.total % FlushEvery = 0 THEN BufferFails(appended) ELSE {}
Failed(w, e) ==
  FailsToOpen(w, e) \cup FailsToRotate(w, e) \cup FailsToWrite(w, e) \cup FailsToFlush(w, e)
==============================================================================
