------------------------------- MODULE Recorder -------------------------------
(***************************************************************************)
(* recorder/bitbank_public_recorder.py: run() as asyncio tasks that take   *)
(* turns where they await: the main task, the heartbeat and the idle       *)
(* watchdog it creates for each connection, and the handlers that the      *)
(* socket client calls.  Between two awaits nothing else runs, so that is  *)
(* a step.                                                                 *)
(*                                                                         *)
(* External: the socket client (connect either ends with an open socket or *)
(* raises; disconnect calls the disconnect handler) and the exchange.      *)
(***************************************************************************)
EXTENDS JsonlWriter

CONSTANTS
  None,
  MetadataCounts,    (* how many events the metadata can be               *)
  Timeouts,          (* timeout_sec, None for none: chosen for the run    *)
  MaxIdle,           (* max_idle_sec; 0: no watchdog                      *)
  MaxEvents,         (* max_events, None for none                         *)
  MaxReconnects,
  HeartbeatOn,       (* heartbeat_interval_sec is positive                *)
  MaxHeartbeats,     (* bound: periodic heartbeats                        *)
  MaxMessages,       (* bound: messages that arrive                       *)
  MaxFailures        (* bound: exceptions of the writer                    *)

Kinds == {"metadata", "connect", "disconnect", "heartbeat", "error", "idle", "give_up", "raw", "data"}

ASSUME RecorderAssumption ==
  /\ None \notin Int /\ MetadataCounts \subseteq Nat /\ Timeouts \subseteq (Nat \ {0}) \cup {None}
  /\ MaxIdle \in Nat /\ MaxEvents \in Nat \cup {None} /\ MaxReconnects \in Nat
  /\ HeartbeatOn \in BOOLEAN /\ {MaxHeartbeats, MaxMessages, MaxFailures} \subseteq Nat
  /\ Kinds \subseteq DOMAIN Bytes

VARIABLES
  main,          (* where run() is *)
  done, idle,    (* the two asyncio events: set or not *)
  reconnects,
  heartbeat,     (* "off", "sleeping", or "failed" by an exception *)
  watchdog,      (* "off", "sleeping", "disconnecting" or "failed" *)
  timeout,       (* this run's timeout_sec *)
  events,        (* self.events *)
  writer,
  socket,        (* "none", "up", "broken" (nobody noticed yet), "down" *)
  joining,       (* the connect handler awaits its join-room calls *)
  quiet,         (* time since last_message_ms, as far as MaxIdle *)
  elapsed,       (* time since started_ms, as far as the timeout *)
  messages,      (* history: messages that arrived *)
  heartbeats,    (* history: periodic heartbeats *)
  failures,      (* history: exceptions of the writer; one within another is one *)
  lost           (* history: the events that are not in the files for it *)

taskVars == <<main, done, idle, reconnects, heartbeat, watchdog, timeout>>
outputVars == <<events, writer, failures, lost>>
socketVars == <<socket, joining, messages>>
clockVars == <<quiet, elapsed>>
vars == <<taskVars, outputVars, socketVars, clockVars, heartbeats>>

Connected == socket \in {"up", "broken"}        \* sio.connected

Event(kind) == [kind |-> kind, reconnects |-> reconnects]

(***************************************************************************)
(* _record: the event is in the list, then it is written or that raises,   *)
(* which may cost events that were written before and not flushed.         *)
(* Where nobody catches an exception, run() ends: the writer is closed on  *)
(* the way out, which may raise as well, and asyncio.run ends every task   *)
(* that is left.                                                           *)
(***************************************************************************)
Recorded(e) ==
  /\ events' = Append(events, e) /\ writer' = Written(writer, e)
  /\ UNCHANGED <<failures, lost>>
Missing(list, w) ==
  LET kept == 1..Len(list) \ lost
  IN  {i \in kept : Cardinality({j \in kept : j <= i}) > Len(OnDisk(w))}
Raise(list, w) ==
  /\ failures < MaxFailures /\ failures' = failures + 1
  /\ events' = list /\ writer' = w /\ lost' = lost \cup Missing(list, w)
RecordRaises(e) == \E w \in Failed(writer, e) : Raise(Append(events, e), w)
Record(e) == Recorded(e) \/ RecordRaises(e)       \* where the exception is only logged

Crash == main' = "crashed"
CloseRaises(list, w) == Crash /\ \E v \in FailsToClose(w) : Raise(list, v)
RecordCrashes(e) ==
  Crash /\ \E w \in Failed(writer, e) : \E v \in {Closed(w)} \cup FailsToClose(w) : Raise(Append(events, e), v)
CloseAndEnd(where) ==
  \/ main' = where /\ writer' = Closed(writer) /\ UNCHANGED <<events, failures, lost>>
  \/ CloseRaises(events, writer)

Alive == main # "crashed"

Init ==
  /\ main = "start" /\ done = FALSE /\ idle = FALSE /\ reconnects = 0
  /\ heartbeat = "off" /\ watchdog = "off" /\ timeout \in Timeouts
  /\ events = <<>> /\ writer = Opened(NewWriter)
  /\ socket = "none" /\ joining = FALSE /\ messages = 0
  /\ quiet = 0 /\ elapsed = 0 /\ heartbeats = 0 /\ failures = 0 /\ lost = {}

-------------------------------------------------------------------------------
(***************************************************************************)
(* The main task.  Metadata: the pair spec and the status, or one event    *)
(* that says why there are none.                                           *)
(***************************************************************************)
FetchMetadata ==
  /\ main = "start"
  /\ \/ Len(events) \in MetadataCounts /\ main' = "head" /\ UNCHANGED outputVars
     \/ /\ \E n \in MetadataCounts : n > Len(events)
        /\ \/ Recorded(Event("metadata")) /\ UNCHANGED main
           \/ RecordCrashes(Event("metadata"))
  /\ UNCHANGED <<done, idle, reconnects, heartbeat, watchdog, timeout, socketVars, clockVars, heartbeats>>

TimedOut == IF timeout = None THEN FALSE ELSE elapsed >= timeout

Loop ==
  /\ main = "head"
  /\ IF done \/ TimedOut
     THEN CloseAndEnd("stopped") /\ UNCHANGED <<idle, socket, quiet>>
     ELSE /\ main' = "connecting" /\ idle' = FALSE /\ socket' = "none" /\ quiet' = 0
          /\ UNCHANGED outputVars
  /\ UNCHANGED <<done, reconnects, heartbeat, watchdog, timeout, joining, messages, elapsed, heartbeats>>

ConnectReturns ==
  /\ main = "connecting" /\ socket # "none"
  /\ main' = "waiting"
  /\ heartbeat' = IF HeartbeatOn THEN "sleeping" ELSE "off"
  /\ watchdog' = IF MaxIdle > 0 THEN "sleeping" ELSE "off"
  /\ UNCHANGED <<done, idle, reconnects, timeout, outputVars, socketVars, clockVars, heartbeats>>

ConnectFails ==
  /\ main = "connecting" /\ socket # "up"
  /\ \/ Recorded(Event("error")) /\ main' = "cleanup"
     \/ RecordRaises(Event("error")) /\ main' = "raising"
  /\ UNCHANGED <<done, idle, reconnects, heartbeat, watchdog, timeout, socketVars, clockVars, heartbeats>>

(***************************************************************************)
(* Mutant: the main task waits for the watchdog only.                      *)
(***************************************************************************)
WokenByIdle == idle
Woken == done \/ idle

WaitEnds ==
  /\ main = "waiting"
  /\ \/ Woken /\ main' = "cleanup"
     \/ ~Woken /\ TimedOut /\ main' = "timed_out"
  /\ UNCHANGED <<done, idle, reconnects, heartbeat, watchdog, timeout, outputVars, socketVars, clockVars, heartbeats>>

(***************************************************************************)
(* The finally block, an await at a time.  A watchdog that is cancelled    *)
(* within disconnect() leaves the disconnecting to the main task.  A task  *)
(* that failed raises its exception where it is awaited, and the rest of   *)
(* the block is left out.                                                  *)
(***************************************************************************)
InFinally == main \in {"cleanup", "timed_out", "raising"}

FailedTaskRaises ==
  /\ InFinally
  /\ heartbeat = "failed" \/ (heartbeat = "off" /\ watchdog = "failed")
  /\ CloseAndEnd("crashed")
  /\ UNCHANGED <<done, idle, reconnects, heartbeat, watchdog, timeout, socketVars, clockVars, heartbeats>>

CancelHeartbeat ==
  /\ InFinally /\ heartbeat = "sleeping"
  /\ heartbeat' = "off"
  /\ UNCHANGED <<main, done, idle, reconnects, watchdog, timeout, outputVars, socketVars, clockVars, heartbeats>>

CancelWatchdog ==
  /\ InFinally /\ heartbeat = "off" /\ watchdog \in {"sleeping", "disconnecting"}
  /\ watchdog' = "off"
  /\ UNCHANGED <<main, done, idle, reconnects, heartbeat, timeout, outputVars, socketVars, clockVars, heartbeats>>

(***************************************************************************)
(* disconnect() of the socket client, and its handler.                     *)
(* Mutant: the handler records nothing.                                    *)
(***************************************************************************)
DisconnectUnmarked == socket' = "down" /\ joining' = FALSE /\ UNCHANGED outputVars
Disconnected == socket' = "down" /\ joining' = FALSE /\ Record(Event("disconnect"))

TasksAreOff == heartbeat = "off" /\ watchdog = "off"

DisconnectSocket ==
  /\ InFinally /\ TasksAreOff /\ Connected
  /\ Disconnected
  /\ UNCHANGED <<taskVars, messages, clockVars, heartbeats>>

(***************************************************************************)
(* Mutant: it goes on without disconnecting.                               *)
(***************************************************************************)
TasksSuffice == InFinally /\ TasksAreOff
CleanedUp == InFinally /\ TasksAreOff /\ ~Connected

(***************************************************************************)
(* Mutant: the budget is not looked at.                                    *)
(***************************************************************************)
AlwaysOnceMore(attempts) == TRUE
WithinBudget(attempts) == attempts <= MaxReconnects

GiveUp(e) ==
  \/ /\ main' = "stopped"
     /\ events' = Append(events, e) /\ writer' = Closed(Written(writer, e))
     /\ UNCHANGED <<failures, lost>>
  \/ CloseRaises(Append(events, e), Written(writer, e))
  \/ RecordCrashes(e)

AfterConnection ==
  /\ CleanedUp
  /\ \/ /\ main # "raising" /\ (main = "timed_out" \/ done)
        /\ CloseAndEnd("stopped") /\ UNCHANGED reconnects
     \/ main = "raising" /\ CloseAndEnd("crashed") /\ UNCHANGED reconnects
     \/ /\ main = "cleanup" /\ ~done
        /\ reconnects' = reconnects + 1
        /\ IF WithinBudget(reconnects')
           THEN main' = "sleeping" /\ UNCHANGED outputVars
           ELSE GiveUp([kind |-> "give_up", reconnects |-> reconnects'])
  /\ UNCHANGED <<done, idle, heartbeat, watchdog, timeout, socketVars, clockVars, heartbeats>>

Wake ==
  /\ main = "sleeping" /\ main' = "head"
  /\ UNCHANGED <<done, idle, reconnects, heartbeat, watchdog, timeout, outputVars, socketVars, clockVars, heartbeats>>

-------------------------------------------------------------------------------
(***************************************************************************)
(* _heartbeat_loop.                                                        *)
(***************************************************************************)
HeartbeatWakes ==
  /\ Alive /\ heartbeat = "sleeping"
  /\ IF done THEN heartbeat' = "off" /\ UNCHANGED <<outputVars, heartbeats>>
     ELSE /\ heartbeats < MaxHeartbeats /\ heartbeats' = heartbeats + 1
          /\ \/ Recorded(Event("heartbeat")) /\ UNCHANGED heartbeat
             \/ RecordRaises(Event("heartbeat")) /\ heartbeat' = "failed"
  /\ UNCHANGED <<main, done, idle, reconnects, watchdog, timeout, socketVars, clockVars>>

(***************************************************************************)
(* _idle_watchdog_loop, when its check finds the stream idle: it records,  *)
(* sets idle and disconnects if it has to.                                 *)
(* Mutant: it only looks after a socket that is connected.                 *)
(***************************************************************************)
IdleIfConnected == quiet >= MaxIdle /\ Connected
IsIdle == quiet >= MaxIdle

WatchdogWakes ==
  /\ Alive /\ watchdog = "sleeping"
  /\ IF IsIdle
     THEN \/ /\ Recorded(Event("idle"))
             /\ idle' = TRUE
             /\ watchdog' = IF Connected THEN "disconnecting" ELSE "off"
          \/ /\ RecordRaises(Event("idle"))
             /\ watchdog' = "failed" /\ UNCHANGED idle
     ELSE done /\ watchdog' = "off" /\ UNCHANGED <<idle, outputVars>>
  /\ UNCHANGED <<main, done, reconnects, heartbeat, timeout, socketVars, clockVars, heartbeats>>

WatchdogDisconnects ==
  /\ Alive /\ watchdog = "disconnecting"
  /\ watchdog' = "off"
  /\ IF Connected THEN Disconnected ELSE UNCHANGED <<socket, joining, outputVars>>
  /\ UNCHANGED <<main, done, idle, reconnects, heartbeat, timeout, messages, clockVars, heartbeats>>

-------------------------------------------------------------------------------
(***************************************************************************)
(* The handlers.  connect: the rooms are joined one after the other, the   *)
(* heartbeat is recorded when the last call has returned.  A call on a     *)
(* client that is not connected raises, which ends the handler.            *)
(***************************************************************************)
SocketOpens ==
  /\ main = "connecting" /\ socket = "none"
  /\ socket' = "up" /\ joining' = TRUE /\ quiet' = 0
  /\ UNCHANGED <<taskVars, outputVars, messages, elapsed, heartbeats>>

RoomsJoined ==
  /\ Alive /\ joining /\ Connected
  /\ joining' = FALSE
  /\ Record(Event("connect"))
  /\ UNCHANGED <<taskVars, socket, messages, clockVars, heartbeats>>

(***************************************************************************)
(* message: a raw event and what it is normalised to.  It arrives if the   *)
(* socket is up, from the rooms joined so far.  The rest of a message of   *)
(* which a write fails is not recorded.                                    *)
(***************************************************************************)
Enough(w) == IF MaxEvents = None THEN FALSE ELSE w.total >= MaxEvents

SecondRaises(pair) ==
  LET first == Written(writer, pair[1])
  IN  \E w \in Failed(first, pair[2]) : Raise(events \o pair, w)

Message ==
  /\ Alive /\ socket = "up" /\ messages < MaxMessages
  /\ messages' = messages + 1
  /\ quiet' = 0
  /\ LET pair == <<Event("raw"), Event("data")>>
     IN  \/ /\ events' = events \o pair
            /\ writer' = Written(Written(writer, pair[1]), pair[2])
            /\ done' = (done \/ Enough(writer'))
            /\ UNCHANGED <<failures, lost>>
         \/ RecordRaises(Event("raw")) /\ UNCHANGED done
         \/ SecondRaises(pair) /\ UNCHANGED done
  /\ UNCHANGED <<main, idle, reconnects, heartbeat, watchdog, timeout, socket, joining, elapsed, heartbeats>>

(***************************************************************************)
(* The connection breaks; the client may or may not notice.                *)
(***************************************************************************)
Break ==
  /\ Alive /\ socket = "up"
  /\ socket' = "broken"
  /\ UNCHANGED <<taskVars, outputVars, joining, messages, clockVars, heartbeats>>

Notice ==
  /\ Alive /\ socket = "broken"
  /\ Disconnected
  /\ UNCHANGED <<taskVars, messages, clockVars, heartbeats>>

Tick ==
  /\ Alive /\ main # "stopped"
  /\ quiet' = IF quiet < MaxIdle THEN quiet + 1 ELSE quiet
  /\ elapsed' = IF timeout # None /\ ~TimedOut THEN elapsed + 1 ELSE elapsed
  /\ <<quiet', elapsed'>> # clockVars
  /\ UNCHANGED <<taskVars, outputVars, socketVars, heartbeats>>

Main ==
  \/ FetchMetadata \/ Loop \/ ConnectReturns \/ WaitEnds
  \/ CancelHeartbeat \/ CancelWatchdog \/ FailedTaskRaises
  \/ DisconnectSocket \/ AfterConnection \/ Wake

Next ==
  \/ FetchMetadata \/ Loop \/ ConnectReturns \/ ConnectFails \/ WaitEnds
  \/ CancelHeartbeat \/ CancelWatchdog \/ FailedTaskRaises
  \/ DisconnectSocket \/ AfterConnection \/ Wake
  \/ HeartbeatWakes \/ WatchdogWakes \/ WatchdogDisconnects
  \/ SocketOpens \/ RoomsJoined \/ Message \/ Break \/ Notice
  \/ Tick

Spec == Init /\ [][Next]_vars

(***************************************************************************)
(* The event loop does not stop while a task of run() is ready, an attempt *)
(* to connect is open or time is awaited.  Nothing is assumed of the       *)
(* exchange, the network or the socket client's noticing.                  *)
(***************************************************************************)
Progress ==
  Main \/ SocketOpens \/ ConnectFails \/ WatchdogWakes \/ WatchdogDisconnects \/ Tick
FairSpec == Spec /\ WF_vars(Progress)

-------------------------------------------------------------------------------
(***************************************************************************)
(* The values the state ranges over.                                       *)
(***************************************************************************)
IsEvent(e) == e \in [kind : Kinds, reconnects : 0..MaxReconnects + 1]
TypeOK ==
  /\ main \in {"start", "head", "connecting", "waiting", "cleanup", "timed_out", "raising",
             "sleeping", "stopped", "crashed"}
  /\ done \in BOOLEAN /\ idle \in BOOLEAN /\ reconnects \in 0..MaxReconnects + 1
  /\ heartbeat \in {"off", "sleeping", "failed"}
  /\ watchdog \in {"off", "sleeping", "disconnecting", "failed"}
  /\ timeout \in Timeouts
  /\ \A i \in 1..Len(events) : IsEvent(events[i])
  /\ Len(writer.files) \in {writer.index, writer.index + 1}
  /\ writer.total <= Len(events) /\ Len(events) - writer.total <= failures
  /\ failures \in 0..MaxFailures /\ lost \subseteq 1..Len(events)
  /\ socket \in {"none", "up", "broken", "down"} /\ joining \in BOOLEAN
  /\ quiet \in 0..MaxIdle /\ elapsed \in Nat
  /\ messages \in 0..MaxMessages /\ heartbeats \in 0..MaxHeartbeats

(***************************************************************************)
(* The files together hold every event that was recorded, once and in      *)
(* order, whatever task recorded it and wherever a rotation fell.  Every   *)
(* failing write costs at most a flush interval of events.                 *)
(***************************************************************************)
RecordingIsComplete ==
  LET disk == OnDisk(writer)
      kept == 1..Len(events) \ lost
  IN  /\ Len(disk) = Cardinality(kept) /\ Cardinality(lost) <= FlushEvery * failures
      /\ \A i \in kept : disk[Cardinality({j \in kept : j <= i})] = events[i]

(***************************************************************************)
(* No file exceeds what it may hold; a single event may be larger.         *)
(***************************************************************************)
FileBytes(file) == SumFunction([n \in DOMAIN file |-> Bytes[file[n].kind]])
FilesKeepTheirLimits ==
  \A i \in 1..Len(writer.files) :
    LET file == writer.files[i]
    IN  /\ RotateEvents > 0 => Len(file) <= RotateEvents
        /\ RotateBytes > 0 => FileBytes(file) <= RotateBytes \/ Len(file) = 1

(***************************************************************************)
(* A process that is killed has lost fewer than FlushEvery events, and as  *)
(* many again for a write that failed.                                     *)
(***************************************************************************)
TailLossIsBounded == Len(events) - writer.flushed < FlushEvery * (1 + failures)

(***************************************************************************)
(* Messages of two connections are never recorded as if they were one      *)
(* stream: in the files the end of the first is marked between them,       *)
(* unless just that mark is an event a failing write has lost.             *)
(***************************************************************************)
IsMessage(e) == e.kind \in {"raw", "data"}
EndOf(e) == [kind |-> "disconnect", reconnects |-> e.reconnects]
ConnectionsAreSeparated ==
  LET disk == OnDisk(writer)
  IN  \A m, n \in 1..Len(disk) :
        m < n /\ IsMessage(disk[m]) /\ IsMessage(disk[n]) /\ disk[m].reconnects # disk[n].reconnects
          => \/ \E k \in m..n : disk[k] = EndOf(disk[m])
             \/ \E l \in lost : events[l] = EndOf(disk[m])

(***************************************************************************)
(* When run() returns no task of it is left, nothing can call a handler    *)
(* any more and the file is closed.  When it raises the file is closed     *)
(* too, unless there was something to flush and that failed.               *)
(***************************************************************************)
NothingLeftBehind ==
  /\ main = "stopped" => TasksAreOff /\ ~Connected /\ ~joining /\ ~writer.open
  /\ main = "crashed" /\ writer.open => writer.flushed < Len(events)

(***************************************************************************)
(* "recorder reconnects and rejoins public channels after connection       *)
(* failures" (goal, recorder hardening): a connection that broke while the *)
(* recorder waits is followed by a new one, or the budget or the time of   *)
(* the recording is used up.  Failed writes limit that: a watchdog whose   *)
(* write failed does not wake anyone, and a heartbeat whose write failed   *)
(* ends run() where it would reconnect.                                    *)
(***************************************************************************)
LostConnectionIsReplaced ==
  (main = "waiting" /\ socket \in {"broken", "down"})
    ~> (socket = "up" \/ main = "stopped" \/ (main = "crashed" /\ failures > 0) \/ watchdog = "failed")

(***************************************************************************)
(* Once max_events are recorded run() ends, whatever the stream, the       *)
(* watchdog and the disk do then.                                          *)
(***************************************************************************)
EnoughIsEnough == done ~> (main = "stopped" \/ (main = "crashed" /\ failures > 0))
===============================================================================
