------------------------- MODULE AudioOutputController -------------------------
(***************************************************************************)
(* AudioOutputController (src/filters/ffmpeg_demuxer_unittest.cc, the      *)
(* audio_output_controller.cc part): the object between a renderer-side    *)
(* client and an AudioOutputStream.  Three threads touch it:               *)
(*   - the client calls Play, Pause, Close, SetVolume, SwitchOutputDevice, *)
(*     StartDiverting and StopDiverting, which only post a Do* task;       *)
(*   - the audio thread runs the posted tasks in FIFO order, and the       *)
(*     AudioManager's device-change notifications and the wedge timer;     *)
(*   - the device thread calls OnMoreIOData while the stream is started,   *)
(*     and OnError, which posts DoReportError.                             *)
(*                                                                         *)
(* The controller's members, and the state of the objects it drives (the   *)
(* stream, the SyncReader, the AudioManager's listener list and the        *)
(* EventHandler), are one record ctl, so that a Do* method that calls      *)
(* others is the composition of their operators, run as one step of the   *)
(* audio thread.  A stream is "none", "divert" (the stream given to        *)
(* StartDiverting) or the device id a proxy stream was opened on.          *)
(***************************************************************************)
EXTENDS Integers, Sequences

CONSTANTS
  Devices,          \* output device ids
  InitDevice,       \* output_device_id_ given to Create
  Volumes,          \* volumes the client may set
  InitVolume,       \* volume_(1.0)
  MaxCalls,         \* bound on client calls
  MaxErrors,        \* bound on OnError calls from the device thread
  MaxDeviceChanges  \* bound on AudioManager device-change notifications

ASSUME InitDevice \in Devices /\ InitVolume \in Volumes

States == {"kEmpty", "kCreated", "kPlaying", "kPaused", "kClosed", "kError"}
NoStream == "none"
Divert == "divert"
Streams == {NoStream, Divert} \cup Devices
NoPending == -2      \* UpdatePendingBytes never called

VARIABLES
  ctl,               \* the controller and the objects it drives
  tasks,             \* the audio thread's message loop
  io,                \* device thread: "idle" or "in" OnMoreIOData
  calls,             \* client calls made
  client_diverting,  \* client: StartDiverting called, StopDiverting not yet
  close_reply,       \* Close's closed_task: "none", "pending", "posted", "run"
  errors, changes    \* environment events so far

vars == <<ctl, tasks, io, calls, client_diverting, close_reply, errors, changes>>

Task(op, arg) == [op |-> op, arg |-> arg]

-----------------------------------------------------------------------------
(* EventHandler calls (OnCreated, OnPlaying, OnPaused, OnError) are        *)
(* counted: no property tells them apart.                                  *)
Notify(c, ev) == [c EXCEPT !.handler_calls = @ + 1]

(* AllowEntryToOnMoreIOData / DisallowEntryToOnMoreIOData: the atomic      *)
(* num_allowed_io_ counter (its DCHECKs are stated by IOEntryGate).        *)
AllowEntry(c) == [c EXCEPT !.num_allowed_io_ = @ + 1]
DisallowEntry(c) == [c EXCEPT !.num_allowed_io_ = @ - 1]

(* Mutant: StopStream not closing the OnMoreIOData gate.                   *)
StopStreamKeepsEntry(c) ==
  IF c.state_ = "kPlaying"
  THEN [c EXCEPT !.wedge_armed = FALSE, !.started = FALSE, !.did_stop = TRUE,
                 !.state_ = "kPaused"]
  ELSE c

(* StopStream: stop a playing stream (stream_->Stop() returns once no      *)
(* callback is running) and cancel the wedge timer.                        *)
StopStream(c) ==
  IF c.state_ = "kPlaying"
  THEN [DisallowEntry([c EXCEPT !.wedge_armed = FALSE, !.started = FALSE, !.did_stop = TRUE])
          EXCEPT !.state_ = "kPaused"]
  ELSE c

(* DoStopCloseAndClearStream: deregister from device changes if the        *)
(* stream came from the AudioManager, stop and close it, forget a          *)
(* diverting stream, and go to kEmpty.                                     *)
DoStopCloseAndClearStream(c) ==
  IF c.stream_ = NoStream THEN [c EXCEPT !.state_ = "kEmpty"]
  ELSE LET c1 == StopStream([c EXCEPT !.listening =
                               IF c.stream_ # c.diverting_to_stream_ THEN FALSE ELSE @])
       IN [c1 EXCEPT !.diverting_to_stream_ =
                        IF c1.stream_ = c1.diverting_to_stream_ THEN NoStream ELSE @,
                     !.stream_ = NoStream,
                     !.state_ = "kEmpty"]

(* Mutant: the listener registered for a diverting stream too.             *)
OpenedStreamListensToDiverted(c, s, is_for_device_change) ==
  LET c1 == [c EXCEPT !.stream_ = s, !.listening = TRUE,
                      !.stream_volume = c.volume_, !.state_ = "kCreated"]
  IN IF is_for_device_change THEN c1 ELSE Notify(c1, "OnCreated")

(* Mutant: a recreated stream left at the default volume.                  *)
OpenedStreamDefaultVolume(c, s, is_for_device_change) ==
  LET c1 == [c EXCEPT !.stream_ = s,
                      !.listening = IF s # c.diverting_to_stream_ THEN TRUE ELSE @,
                      !.stream_volume = InitVolume, !.state_ = "kCreated"]
  IN IF is_for_device_change THEN c1 ELSE Notify(c1, "OnCreated")

(* DoCreate's tail once stream_->Open() succeeded: listen for device       *)
(* changes unless diverted, set the volume, go to kCreated, and report     *)
(* OnCreated unless recreating.                                            *)
OpenedStream(c, s, is_for_device_change) ==
  LET c1 == [c EXCEPT !.stream_ = s,
                      !.listening = IF s # c.diverting_to_stream_ THEN TRUE ELSE @,
                      !.stream_volume = c.volume_, !.state_ = "kCreated"]
  IN IF is_for_device_change THEN c1 ELSE Notify(c1, "OnCreated")

(***************************************************************************)
(* DoCreate(is_for_device_change): nothing once closed; else clear the old *)
(* stream, take the diverting stream or make a proxy on output_device_id_  *)
(* (made: MakeAudioOutputStreamProxy returned one) and open it (opened:   *)
(* Open() succeeded).  Failures go to kError and report OnError.           *)
(***************************************************************************)
DoCreate(c, is_for_device_change, made, opened) ==
  IF c.state_ = "kClosed" THEN c
  ELSE LET c1 == DoStopCloseAndClearStream(c)
           s == IF c1.diverting_to_stream_ # NoStream THEN c1.diverting_to_stream_
                ELSE IF made THEN c1.output_device_id_ ELSE NoStream
       IN CASE s = NoStream -> Notify([c1 EXCEPT !.state_ = "kError"], "OnError")
            [] ~opened -> Notify([DoStopCloseAndClearStream([c1 EXCEPT !.stream_ = s])
                                    EXCEPT !.state_ = "kError"], "OnError")
            [] OTHER -> OpenedStream(c1, s, is_for_device_change)

(* Mutant: DoPlay without its state check.                                 *)
DoPlayFromAnyState(c) ==
  AllowEntry([c EXCEPT !.reader_pending = 0, !.state_ = "kPlaying",
                       !.on_more_io_data_called_ = 0, !.started = TRUE,
                       !.wedge_armed = TRUE, !.handler_calls = @ + 1])

(* DoPlay: from kCreated or kPaused only; ask the reader for the first     *)
(* packet, reset the wedge flag, open the gate, start the stream, arm the  *)
(* wedge timer and report OnPlaying.                                       *)
DoPlay(c) ==
  IF c.state_ \notin {"kCreated", "kPaused"} THEN c
  ELSE AllowEntry([c EXCEPT !.reader_pending = 0, !.state_ = "kPlaying",
                            !.on_more_io_data_called_ = 0, !.started = TRUE,
                            !.wedge_armed = TRUE, !.handler_calls = @ + 1])

(* DoPause: StopStream, then, if paused, tell the reader (-1) and report.  *)
DoPause(c) ==
  LET c1 == StopStream(c)
  IN IF c1.state_ # "kPaused" THEN c1
     ELSE Notify([c1 EXCEPT !.reader_pending = -1], "OnPaused")

(* Mutant: DoClose closing the reader without clearing the stream.         *)
DoCloseKeepsStream(c) ==
  IF c.state_ # "kClosed" THEN [c EXCEPT !.reader_closed = TRUE, !.state_ = "kClosed"]
  ELSE c

DoClose(c) ==
  IF c.state_ # "kClosed"
  THEN [DoStopCloseAndClearStream(c) EXCEPT !.reader_closed = TRUE, !.state_ = "kClosed"]
  ELSE c

(* DoSetVolume: save the volume; apply it to an open stream.               *)
DoSetVolume(c, v) ==
  IF c.state_ \in {"kCreated", "kPlaying", "kPaused"}
  THEN [c EXCEPT !.volume_ = v, !.stream_volume = v]
  ELSE [c EXCEPT !.volume_ = v]

(* DoReportError runs on the audio thread some time after OnError.         *)
(* Mutant: without the kClosed check.                                      *)
DoReportErrorUnguarded(c) == Notify(c, "OnError")

DoReportError(c) == IF c.state_ # "kClosed" THEN Notify(c, "OnError") ELSE c

(***************************************************************************)
(* OnDeviceChange: recreate the stream, then return to the original state: *)
(* replay if it was playing; kCreated and kPaused are "equivalent"; any    *)
(* other original state is NOTREACHED, recorded in notreached.             *)
(***************************************************************************)
OnDeviceChange(c, made, opened) ==
  LET original_state == c.state_
      c1 == DoCreate(c, TRUE, made, opened)
  IN IF c1.stream_ = NoStream \/ c1.state_ = "kError" THEN c1
     ELSE CASE original_state = "kPlaying" -> DoPlay(c1)
            [] original_state \in {"kCreated", "kPaused"} -> c1
            [] OTHER -> [c1 EXCEPT !.notreached = TRUE]

(* Mutant: the stream recreated before the new device id is stored.       *)
DoSwitchOutputDeviceLate(c, d, made, opened) ==
  IF c.state_ = "kClosed" THEN c
  ELSE IF c.stream_ # c.diverting_to_stream_
       THEN [OnDeviceChange(c, made, opened) EXCEPT !.output_device_id_ = d]
       ELSE [c EXCEPT !.output_device_id_ = d]

(* DoSwitchOutputDevice: store the id; recreate unless diverted.           *)
DoSwitchOutputDevice(c, d, made, opened) ==
  IF c.state_ = "kClosed" THEN c
  ELSE LET c1 == [c EXCEPT !.output_device_id_ = d]
       IN IF c1.stream_ # c1.diverting_to_stream_ THEN OnDeviceChange(c1, made, opened)
          ELSE c1

DoStartDiverting(c, made, opened) ==
  IF c.state_ = "kClosed" THEN c
  ELSE OnDeviceChange([c EXCEPT !.diverting_to_stream_ = Divert], made, opened)

DoStopDiverting(c, made, opened) ==
  IF c.state_ = "kClosed" THEN c ELSE OnDeviceChange(c, made, opened)

(* WedgeCheck: the one-shot timer's task; while playing, CHECK that the    *)
(* device has called OnMoreIOData since DoPlay.                            *)
WedgeCheck(c) ==
  [c EXCEPT !.wedge_armed = FALSE,
            !.wedge_crash = @ \/ (c.state_ = "kPlaying" /\ c.on_more_io_data_called_ # 1)]

(* One task of the message loop.                                           *)
RunTask(c, t, made, opened) ==
  CASE t.op = "DoCreate"             -> DoCreate(c, FALSE, made, opened)
    [] t.op = "DoPlay"               -> DoPlay(c)
    [] t.op = "DoPause"              -> DoPause(c)
    [] t.op = "DoClose"              -> DoClose(c)
    [] t.op = "DoSetVolume"          -> DoSetVolume(c, t.arg)
    [] t.op = "DoSwitchOutputDevice" -> DoSwitchOutputDevice(c, t.arg, made, opened)
    [] t.op = "DoStartDiverting"     -> DoStartDiverting(c, made, opened)
    [] t.op = "DoStopDiverting"      -> DoStopDiverting(c, made, opened)
    [] t.op = "DoReportError"        -> DoReportError(c)
-----------------------------------------------------------------------------
Init ==
  /\ ctl = [state_ |-> "kEmpty", stream_ |-> NoStream, diverting_to_stream_ |-> NoStream,
           volume_ |-> InitVolume, output_device_id_ |-> InitDevice,
           num_allowed_io_ |-> 0, on_more_io_data_called_ |-> 0,
           wedge_armed |-> FALSE, wedge_crash |-> FALSE, notreached |-> FALSE,
           started |-> FALSE, did_stop |-> FALSE, stream_volume |-> InitVolume,
           listening |-> FALSE, reader_pending |-> NoPending, reader_closed |-> FALSE,
           handler_calls |-> 0]
  \* Create: the controller is returned with DoCreate(false) posted.
  /\ tasks = <<Task("DoCreate", NoStream)>>
  /\ io = "idle"
  /\ calls = 0
  /\ client_diverting = FALSE
  /\ close_reply = "none"
  /\ errors = 0
  /\ changes = 0

(* The client's calls: each posts its Do* task.  No call follows Close.    *)
Post(op, arg) ==
  /\ calls < MaxCalls
  /\ close_reply = "none"
  /\ tasks' = Append(tasks, Task(op, arg))
  /\ calls' = calls + 1

Play == Post("DoPlay", NoStream) /\ UNCHANGED <<ctl, io, client_diverting, close_reply, errors, changes>>
Pause == Post("DoPause", NoStream) /\ UNCHANGED <<ctl, io, client_diverting, close_reply, errors, changes>>
SetVolume ==
  \E v \in Volumes :
    Post("DoSetVolume", v) /\ UNCHANGED <<ctl, io, client_diverting, close_reply, errors, changes>>
SwitchOutputDevice ==
  \E d \in Devices :
    Post("DoSwitchOutputDevice", d) /\ UNCHANGED <<ctl, io, client_diverting, close_reply, errors, changes>>
(* PostTaskAndReply: closed_task runs on the client once DoClose has run.  *)
Close ==
  /\ Post("DoClose", NoStream)
  /\ close_reply' = "pending"
  /\ UNCHANGED <<ctl, io, client_diverting, errors, changes>>
(* DoStartDiverting DCHECKs that no diversion is active: the client        *)
(* alternates StartDiverting and StopDiverting.                            *)
StartDiverting ==
  /\ ~client_diverting
  /\ Post("DoStartDiverting", NoStream)
  /\ client_diverting' = TRUE
  /\ UNCHANGED <<ctl, io, close_reply, errors, changes>>
StopDiverting ==
  /\ client_diverting
  /\ Post("DoStopDiverting", NoStream)
  /\ client_diverting' = FALSE
  /\ UNCHANGED <<ctl, io, close_reply, errors, changes>>
RunClosedTask ==
  /\ close_reply = "posted"
  /\ close_reply' = "run"
  /\ UNCHANGED <<ctl, tasks, io, calls, client_diverting, errors, changes>>

(* An audio-thread step from c to c2: stream_->Stop() inside it waits      *)
(* until no OnMoreIOData call is running.                                  *)
AudioStep(c2) ==
  /\ c2.did_stop => io = "idle"
  /\ ctl' = [c2 EXCEPT !.did_stop = FALSE]

RunNextTask ==
  /\ tasks # <<>>
  /\ \E made, opened \in BOOLEAN :
       AudioStep(RunTask(ctl, Head(tasks), made, opened))
  /\ tasks' = Tail(tasks)
  /\ close_reply' = IF Head(tasks).op = "DoClose" THEN "posted" ELSE close_reply
  /\ UNCHANGED <<io, calls, client_diverting, errors, changes>>

(* The AudioManager notifies its listeners on the audio thread.            *)
DeviceChange ==
  /\ ctl.listening
  /\ changes < MaxDeviceChanges
  /\ \E made, opened \in BOOLEAN : AudioStep(OnDeviceChange(ctl, made, opened))
  /\ changes' = changes + 1
  /\ UNCHANGED <<tasks, io, calls, client_diverting, close_reply, errors>>

WedgeTimer ==
  /\ ctl.wedge_armed
  /\ AudioStep(WedgeCheck(ctl))
  /\ UNCHANGED <<tasks, io, calls, client_diverting, close_reply, errors, changes>>

(* OnMoreIOData on the device thread, split at the SyncReader calls:       *)
(* entry closes the gate, marks the wedge flag and reads from the reader;  *)
(* exit reports the pending bytes and reopens the gate.                    *)
OnMoreIODataEnter ==
  /\ io = "idle"
  /\ ctl.started
  /\ io' = "in"
  /\ ctl' = [DisallowEntry(ctl) EXCEPT !.on_more_io_data_called_ = IF @ = 0 THEN 1 ELSE @]
  /\ UNCHANGED <<tasks, calls, client_diverting, close_reply, errors, changes>>

OnMoreIODataExit ==
  /\ io = "in"
  /\ io' = "idle"
  /\ ctl' = AllowEntry([ctl EXCEPT !.reader_pending = 1])
  /\ UNCHANGED <<tasks, calls, client_diverting, close_reply, errors, changes>>

(* OnError(stream): the stream reports an error; DoReportError is posted.  *)
OnError ==
  /\ ctl.stream_ # NoStream
  /\ errors < MaxErrors
  /\ tasks' = Append(tasks, Task("DoReportError", NoStream))
  /\ errors' = errors + 1
  /\ UNCHANGED <<ctl, io, calls, client_diverting, close_reply, changes>>

Next ==
  \/ Play \/ Pause \/ SetVolume \/ SwitchOutputDevice \/ Close
  \/ StartDiverting \/ StopDiverting \/ RunClosedTask
  \/ RunNextTask \/ DeviceChange \/ WedgeTimer
  \/ OnMoreIODataEnter \/ OnMoreIODataExit \/ OnError

(* The message loop runs its tasks; a task that stops the stream waits for *)
(* the running callback and no new one starts, so RunNextTask is strongly  *)
(* fair.  A device callback returns, and a posted reply runs.  The client, *)
(* the device's errors and the AudioManager are not obliged to act.        *)
Fairness ==
  /\ SF_vars(RunNextTask)
  /\ WF_vars(OnMoreIODataExit)
  /\ WF_vars(RunClosedTask)

Spec == Init /\ [][Next]_vars /\ Fairness

-----------------------------------------------------------------------------
Ops == {"DoCreate", "DoPlay", "DoPause", "DoClose", "DoSetVolume", "DoSwitchOutputDevice",
        "DoStartDiverting", "DoStopDiverting", "DoReportError"}

TypeOK ==
  /\ ctl.state_ \in States
  /\ ctl.stream_ \in Streams
  /\ ctl.diverting_to_stream_ \in {NoStream, Divert}
  /\ ctl.volume_ \in Volumes /\ ctl.stream_volume \in Volumes
  /\ ctl.output_device_id_ \in Devices
  /\ ctl.num_allowed_io_ \in {0, 1}
  /\ ctl.on_more_io_data_called_ \in {0, 1}
  /\ ctl.reader_pending \in {NoPending, -1, 0, 1}
  /\ ctl.handler_calls \in Nat
  /\ tasks \in Seq([op : Ops, arg : {NoStream} \cup Volumes \cup Devices])
  /\ io \in {"idle", "in"}
  /\ close_reply \in {"none", "pending", "posted", "run"}

(* The DCHECKs of AllowEntryToOnMoreIOData and DisallowEntryToOnMoreIOData *)
(* hold: the gate is open exactly while the stream is started and no       *)
(* OnMoreIOData call is running, whatever the audio thread does meanwhile. *)
IOEntryGate == ctl.num_allowed_io_ = IF ctl.started /\ io = "idle" THEN 1 ELSE 0

(* The AudioManager holds the controller as a device-change listener       *)
(* exactly while it has a stream the AudioManager made: never for a        *)
(* diverted stream, and not after a failed open or Close.                  *)
ListenerMatchesStream ==
  ctl.listening <=> (ctl.stream_ # NoStream /\ ctl.stream_ # ctl.diverting_to_stream_)

(* An open stream plays at the volume last set, including a volume set     *)
(* while there was no stream and a stream recreated by a device change.    *)
StreamVolumeCurrent ==
  ctl.state_ \in {"kCreated", "kPlaying", "kPaused"} => ctl.stream_volume = ctl.volume_

(* A proxy stream is always on the current output_device_id_: a switch     *)
(* made while diverted takes effect when diversion stops.                  *)
ProxyOnCurrentDevice == ctl.stream_ \in Devices => ctl.stream_ = ctl.output_device_id_

(* No SyncReader read while it is closed: DoClose stops the device first.  *)
ReaderOpenWhileDeviceRuns == (ctl.started \/ io = "in") => ~ctl.reader_closed

(* Once closed, the EventHandler hears nothing more, even from an OnError  *)
(* the device posted before Close.                                         *)
NoCallbacksAfterClose ==
  [][ctl.state_ = "kClosed" => ctl'.handler_calls = ctl.handler_calls]_vars

(* After Close, the controller eventually is closed, its stream stopped,   *)
(* no callback running, and closed_task has run.                           *)
ClosedQuiesces ==
  close_reply = "pending" ~>
    (ctl.state_ = "kClosed" /\ ~ctl.started /\ io = "idle" /\ close_reply = "run")

(* OnDeviceChange's NOTREACHED: it is only entered in kCreated, kPlaying   *)
(* or kPaused.                                                             *)
NoInvalidDeviceChange == ~ctl.notreached

=============================================================================
