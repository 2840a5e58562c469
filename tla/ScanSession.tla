---------------------------- MODULE ScanSession ----------------------------
(***************************************************************************)
(* One call of RunScript of the two Grasshopper components, from the two   *)
(* connections to the destruction of its local variables: two              *)
(* communicators, two recorders that refer to them, and the recording      *)
(* thread of each.                                                         *)
(*                                                                         *)
(* A recorder is what module Recorder shows it to be, a log that is open   *)
(* while its thread is joinable.  The bindings keep no communicator alive  *)
(* for its recorder: the locals are destroyed in the order they were made. *)
(*                                                                         *)
(* The profiler's Shutdown calls its SDK, which may throw: out of          *)
(* Disconnect into the script, out of the destructor nowhere (it is        *)
(* noexcept), so that it ends the process.  The rangefinder's ignores the  *)
(* status of its calls and does not throw.                                 *)
(***************************************************************************)
EXTENDS Naturals

CONSTANTS
    Duration,       \* i_recording_duration, in seconds
    MaxRecorded     \* bound: readings of a device are counted up to here

ASSUME SessionAssumption ==
    /\ Duration \in Nat
    /\ MaxRecorded \in Nat

VARIABLES
    component,      \* whose RunScript it is: "calibrate" or "stream"
    script,         \* where RunScript is: "aborted" when the process has ended
    device,         \* the device a step that is done for both is at: "tcp", then "opcua"
    comm,           \* the communicators: "torn" is a profiler whose Shutdown threw
    recorder,       \* the recorders
    thread,         \* the recording threads: "exit" has ended and not been joined
    switch,         \* recordingSwitch of the recorders
    recorded,       \* number of readings in recordedData
    fetched,        \* number of readings in what GetRecordedData returned
    elapsed,        \* seconds recorded
    cloudShown,     \* the cloud to pick from is in the Rhino document
    escaped         \* the phase an exception left RunScript from, "" when none did

objects == <<comm, recorder>>
recording == <<thread, switch, recorded>>
results == <<fetched, cloudShown>>
vars == <<component, script, device, objects, recording, elapsed, results, escaped>>

Devices == {"tcp", "opcua"}

Init ==
    /\ component \in {"calibrate", "stream"}
    /\ script = "idle"
    /\ device = "tcp"
    /\ comm = [d \in Devices |-> "none"]
    /\ recorder = [d \in Devices |-> "none"]
    /\ thread = [d \in Devices |-> "none"]
    /\ switch = [d \in Devices |-> FALSE]
    /\ recorded = [d \in Devices |-> 0]
    /\ fetched = [d \in Devices |-> 0]
    /\ elapsed = 0
    /\ cloudShown = FALSE
    /\ escaped = ""

-----------------------------------------------------------------------------
(* Control.                                                                *)

Go(from, to) ==
    /\ script = from
    /\ script' = to
    /\ UNCHANGED <<component, device, escaped>>

\* The same call for the other device, or on to the next phase.
BothThen(from, to) ==
    /\ script = from
    /\ IF device = "tcp"
       THEN device' = "opcua" /\ script' = from
       ELSE device' = "tcp" /\ script' = to
    /\ UNCHANGED <<component, escaped>>

\* An exception nobody handles: the host keeps the frame with its traceback.
Escape(from) ==
    /\ script = from
    /\ script' = "unwound"
    /\ escaped' = from
    /\ UNCHANGED <<component, device>>

\* Disconnect of the profiler throws: its handles stay, the rangefinder's turn never comes.
DisconnectThrows(from) ==
    /\ Escape(from)
    /\ comm' = [comm EXCEPT !["tcp"] = "torn"]

-----------------------------------------------------------------------------
(* Connecting.                                                             *)

\* i_activate_component is set; otherwise the script returns at once.
RunScript ==
    /\ Go("idle", "connect")
    /\ UNCHANGED <<objects, recording, elapsed, results>>

ConnectDevice ==
    /\ BothThen("connect", "start")
    /\ comm' = [comm EXCEPT ![device] = "connected"]
    /\ recorder' = IF device = "opcua" THEN [d \in Devices |-> "made"] ELSE recorder
    /\ UNCHANGED <<recording, elapsed, results>>

\* The constructor throws (nothing was made) or Connect does: the handler disconnects
\* and deletes the communicator, and the script returns, or that Disconnect throws too.
ConnectFails ==
    /\ \/ /\ Go("connect", "leaving")
          /\ \E made \in BOOLEAN :
                comm' = IF made THEN [comm EXCEPT ![device] = "destroyed"] ELSE comm
       \/ device = "tcp" /\ DisconnectThrows("connect")
    /\ UNCHANGED <<recorder, recording, elapsed, results>>

-----------------------------------------------------------------------------
(* Recording.                                                              *)

StartRecording ==
    /\ BothThen("start", "sleep")
    /\ thread' = [thread EXCEPT ![device] = "between"]
    /\ switch' = [switch EXCEPT ![device] = TRUE]
    /\ UNCHANGED <<objects, recorded, elapsed, results>>

\* The thread cannot be created.
StartThrows ==
    /\ Escape("start")
    /\ switch' = [switch EXCEPT ![device] = TRUE]
    /\ UNCHANGED <<objects, thread, recorded, elapsed, results>>

\* A second of time.sleep(i_recording_duration).
Second ==
    /\ script = "sleep"
    /\ elapsed < Duration
    /\ elapsed' = elapsed + 1
    /\ UNCHANGED <<component, script, device, objects, recording, results, escaped>>

Slept ==
    /\ Go("sleep", "stop")
    /\ elapsed = Duration
    /\ UNCHANGED <<objects, recording, elapsed, results>>

\* A negative duration, or an interrupt.
SleepThrows ==
    /\ Escape("sleep")
    /\ UNCHANGED <<objects, recording, elapsed, results>>

\* StopRecording: clear the switch, then wait for the thread.
RequestStop ==
    /\ Go("stop", "join")
    /\ switch' = [switch EXCEPT ![device] = FALSE]
    /\ UNCHANGED <<objects, thread, recorded, elapsed, results>>

\* Fault: the script does not wait for the threads.
JoinNotWaiting ==
    /\ script = "join"
    /\ IF device = "tcp"
       THEN script' = "stop" /\ device' = "opcua"
       ELSE script' = "fetch" /\ device' = "tcp"
    /\ UNCHANGED <<component, objects, recording, elapsed, results, escaped>>

Join ==
    /\ script = "join"
    /\ thread[device] = "exit"
    /\ thread' = [thread EXCEPT ![device] = "none"]
    /\ IF device = "tcp"
       THEN script' = "stop" /\ device' = "opcua"
       ELSE script' = "fetch" /\ device' = "tcp"
    /\ UNCHANGED <<component, objects, switch, recorded, elapsed, results, escaped>>

-----------------------------------------------------------------------------
(* The recording threads.                                                  *)

\* Fault: the thread reads once more after the switch was cleared.
LoopTestIgnoringSwitch(d) ==
    /\ thread[d] = "between"
    /\ thread' = [thread EXCEPT ![d] = "calling"]
    /\ UNCHANGED <<component, script, device, objects, switch, recorded, elapsed, results, escaped>>

\* while (recordingSwitch): on into the communicator, or out of the loop.
LoopTest(d) ==
    /\ thread[d] = "between"
    /\ thread' = [thread EXCEPT ![d] = IF switch[d] THEN "calling" ELSE "exit"]
    /\ UNCHANGED <<component, script, device, objects, switch, recorded, elapsed, results, escaped>>

\* GetDataWithTimestamp returned: the reading is recorded, or dropped because the
\* rangefinder gave no point.
ReadingTaken(d) ==
    /\ thread[d] = "calling"
    /\ thread' = [thread EXCEPT ![d] = "between"]
    /\ \/ recorded' = [recorded EXCEPT ![d] = IF @ < MaxRecorded THEN @ + 1 ELSE @]
       \/ d = "opcua" /\ UNCHANGED recorded
    /\ UNCHANGED <<component, script, device, objects, switch, elapsed, results, escaped>>

\* It threw: the thread clears the switch and ends.
ReadingThrows(d) ==
    /\ thread[d] = "calling"
    /\ thread' = [thread EXCEPT ![d] = "exit"]
    /\ switch' = [switch EXCEPT ![d] = FALSE]
    /\ UNCHANGED <<component, script, device, objects, recorded, elapsed, results, escaped>>

\* A thread ends with its process.
Thread(d) == script # "aborted" /\ (LoopTest(d) \/ ReadingTaken(d) \/ ReadingThrows(d))

-----------------------------------------------------------------------------
(* Using the recordings.                                                   *)

Disconnected == [d \in Devices |-> "closed"]

NothingRecorded == \E d \in Devices : recorded[d] = 0

\* Fault: the recording is moved out of the recorder.
GetRecordedDataMoving ==
    /\ Go("fetch", IF NothingRecorded THEN "leaving" ELSE "slice")
    /\ fetched' = recorded
    /\ recorded' = [d \in Devices |-> 0]
    /\ comm' = IF NothingRecorded THEN Disconnected ELSE comm
    /\ UNCHANGED <<recorder, thread, switch, elapsed, cloudShown>>

\* Both recordings are fetched; if one is empty both devices are disconnected.
GetRecordedData ==
    /\ \/ /\ Go("fetch", IF NothingRecorded THEN "leaving" ELSE "slice")
          /\ comm' = IF NothingRecorded THEN Disconnected ELSE comm
       \/ NothingRecorded /\ DisconnectThrows("fetch")
    /\ fetched' = recorded
    /\ UNCHANGED <<recorder, recording, elapsed, cloudShown>>

\* There is a pass with readings and profiles.
SliceFindsPasses ==
    /\ Go("slice", "compute")
    /\ UNCHANGED <<objects, recording, elapsed, results>>

\* "No valid segments found.": the script returns and leaves both devices connected.
SliceFindsNone ==
    /\ Go("slice", "leaving")
    /\ UNCHANGED <<objects, recording, elapsed, results>>

\* Fault: the profiler stays connected.
ComputeKeepingProfiler ==
    /\ Go("compute", IF component = "calibrate" THEN "show" ELSE "place")
    /\ comm' = [comm EXCEPT !["opcua"] = "closed"]
    /\ UNCHANGED <<recorder, recording, elapsed, results>>

\* ComputeRegularizedProfilesAsArray, then both devices are disconnected.
Compute ==
    /\ \/ /\ Go("compute", IF component = "calibrate" THEN "show" ELSE "place")
          /\ comm' = Disconnected
       \/ DisconnectThrows("compute")
    /\ UNCHANGED <<recorder, recording, elapsed, results>>

\* Calibration only: the cloud is put into the document for the user to pick from.
ShowCloud ==
    /\ Go("show", "select")
    /\ cloudShown' = TRUE
    /\ UNCHANGED <<objects, recording, elapsed, fetched>>

DeleteCloud ==
    /\ Go("select", "place")
    /\ cloudShown' = FALSE
    /\ UNCHANGED <<objects, recording, elapsed, fetched>>

\* Something that is not a point was picked.
SelectThrows ==
    /\ Escape("select")
    /\ UNCHANGED <<objects, recording, elapsed, results>>

\* The transforms and the result (module Calibration).
Place ==
    /\ Go("place", "leaving")
    /\ UNCHANGED <<objects, recording, elapsed, results>>

\* No trajectory, too few calibration data, or points that do not match.
PlaceThrows ==
    /\ Escape("place")
    /\ UNCHANGED <<objects, recording, elapsed, results>>

-----------------------------------------------------------------------------
(* Leaving: the locals are destroyed in the order of their first use.      *)

\* The host lets go of the traceback.
ReleaseFrame ==
    /\ Go("unwound", "leaving")
    /\ UNCHANGED <<objects, recording, elapsed, results>>

Alive(state) == state \notin {"none", "destroyed"}

\* A communicator's destructor disconnects.  A Shutdown that throws out of it ends the
\* process; it cannot once Disconnect has dropped the handles.
DestroyCommunicator(d) ==
    /\ script = "leaving"
    /\ Alive(comm[d])
    /\ d = "opcua" => ~Alive(comm["tcp"])
    /\ \/ comm' = [comm EXCEPT ![d] = "destroyed"] /\ UNCHANGED script
       \/ /\ d = "tcp" /\ comm[d] # "closed"
          /\ comm' = [comm EXCEPT ![d] = "torn"]
          /\ script' = "aborted"
    /\ UNCHANGED <<component, device, recorder, recording, elapsed, results, escaped>>

\* A recorder's destructor stops the recording ...
DestroyRecorder(d) ==
    /\ script = "leaving"
    /\ recorder[d] = "made"
    /\ \A c \in Devices : ~Alive(comm[c])
    /\ d = "opcua" => ~Alive(recorder["tcp"])
    /\ recorder' = [recorder EXCEPT ![d] = IF thread[d] = "none" THEN "destroyed" ELSE "stopping"]
    /\ switch' = [switch EXCEPT ![d] = FALSE]
    /\ UNCHANGED <<component, script, device, comm, thread, recorded, elapsed, results, escaped>>

\* Fault: the destructor does not wait.
JoinDestroyingNotWaiting(d) ==
    /\ recorder[d] = "stopping"
    /\ recorder' = [recorder EXCEPT ![d] = "destroyed"]
    /\ UNCHANGED <<component, script, device, comm, recording, elapsed, results, escaped>>

\* ... and waits for the thread.
JoinDestroying(d) ==
    /\ recorder[d] = "stopping"
    /\ thread[d] = "exit"
    /\ thread' = [thread EXCEPT ![d] = "none"]
    /\ recorder' = [recorder EXCEPT ![d] = "destroyed"]
    /\ UNCHANGED <<component, script, device, comm, switch, recorded, elapsed, results, escaped>>

Left ==
    /\ Go("leaving", "left")
    /\ \A d \in Devices : ~Alive(comm[d]) /\ ~Alive(recorder[d])
    /\ UNCHANGED <<objects, recording, elapsed, results>>

-----------------------------------------------------------------------------
ScriptNext ==
    \/ ConnectDevice \/ ConnectFails
    \/ StartRecording \/ StartThrows \/ Second \/ Slept \/ SleepThrows
    \/ RequestStop \/ Join
    \/ GetRecordedData \/ SliceFindsPasses \/ SliceFindsNone \/ Compute
    \/ ShowCloud \/ DeleteCloud \/ SelectThrows \/ Place \/ PlaceThrows

LeavingNext ==
    \/ \E d \in Devices : DestroyCommunicator(d) \/ DestroyRecorder(d) \/ JoinDestroying(d)
    \/ Left

Terminating == script \in {"left", "aborted"} /\ UNCHANGED vars

Next ==
    \/ RunScript \/ ScriptNext \/ ReleaseFrame \/ LeavingNext
    \/ \E d \in Devices : Thread(d)
    \/ Terminating

Spec == Init /\ [][Next]_vars

\* RunScript goes on until it returns or throws, locals are destroyed, and the
\* recording threads run: a call on a communicator returns or throws.  Nothing makes
\* the host let go of a traceback.
FairSpec ==
    /\ Spec
    /\ WF_vars(ScriptNext)
    /\ WF_vars(LeavingNext)
    /\ \A d \in Devices : WF_vars(Thread(d))

-----------------------------------------------------------------------------
(* Properties.                                                             *)

\* Every variable has its type.
TypeOK ==
    /\ component \in {"calibrate", "stream"}
    /\ script \in {"idle", "connect", "start", "sleep", "stop", "join", "fetch", "slice",
                   "compute", "show", "select", "place", "unwound", "leaving", "left", "aborted"}
    /\ device \in Devices
    /\ comm \in [Devices -> {"none", "connected", "closed", "torn", "destroyed"}]
    /\ recorder \in [Devices -> {"none", "made", "stopping", "destroyed"}]
    /\ thread \in [Devices -> {"none", "between", "calling", "exit"}]
    /\ switch \in [Devices -> BOOLEAN]
    /\ recorded \in [Devices -> Nat]
    /\ fetched \in [Devices -> Nat]
    /\ elapsed \in Nat
    /\ cloudShown \in BOOLEAN
    /\ escaped \in {"", "connect", "start", "sleep", "fetch", "compute", "select", "place"}

\* A recording thread only calls a communicator that is connected: the script never
\* disconnects or destroys one under the thread (code.py:83-89, bindings.cc:34-44).
CallsConnected == \A d \in Devices : thread[d] = "calling" => comm[d] = "connected"

\* So it is unless an exception leaves RunScript while a recording is under way:
\* every return, and every exception before or after, finds both threads joined.
CallsConnectedUnlessInterrupted == escaped \in {"start", "sleep"} \/ CallsConnected

\* A run that has been left has released both devices and joined both threads, and the
\* document is clean but after an exception in the selection (code.py:62-135).  A run
\* that ends the process instead does so on a profiler that would not shut down, which
\* it was never rid of before, and with its threads joined but when an exception
\* interrupted the recording.
NothingLeftBehind ==
    /\ script = "left" =>
          /\ \A d \in Devices : thread[d] = "none" /\ ~Alive(comm[d])
          /\ cloudShown => escaped = "select"
    /\ script = "aborted" =>
          /\ comm["tcp"] = "torn" /\ ~cloudShown
          /\ escaped \notin {"start", "sleep"} => \A d \in Devices : thread[d] = "none"

\* What is sliced is the whole recording: nothing is recorded after it was fetched.
FetchedIsFinal ==
    script \in {"slice", "compute", "show", "select", "place"} => fetched = recorded

\* While the user picks points, for as long as that takes, both devices are free.
FreeWhileSelecting ==
    script \in {"show", "select", "place"} =>
        \A d \in Devices : comm[d] = "closed" /\ thread[d] = "none"

\* The parts of the inductive invariant that the properties above do not state.
\* What each phase has established, for the devices it has dealt with (Past) and not.
Past(d) == d = "tcp" /\ device = "opcua"

ConnectingInv ==
    /\ script = "idle" => device = "tcp"
    /\ script \in {"idle", "connect"} =>
          \A d \in Devices : /\ comm[d] = IF Past(d) THEN "connected" ELSE "none"
                             /\ recorder[d] = "none"
                             /\ thread[d] = "none"

RecordingInv ==
    /\ script \in {"start", "sleep", "stop", "join", "fetch", "slice", "compute"} =>
          \A d \in Devices : comm[d] = "connected" /\ recorder[d] = "made"
    /\ script = "start" => \A d \in Devices : thread[d] = "none" <=> ~Past(d)
    /\ script = "sleep" => device = "tcp" /\ \A d \in Devices : thread[d] # "none"
    /\ script \in {"stop", "join"} => \A d \in Devices : thread[d] = "none" <=> Past(d)
    /\ script \in {"fetch", "slice", "compute"} => \A d \in Devices : thread[d] = "none"

\* The phases outside RunScript.
Leaving == script \in {"unwound", "leaving", "left", "aborted"}

LeavingInv ==
    /\ script = "unwound" => escaped # ""
    /\ ~Leaving => escaped = ""
    /\ Leaving /\ escaped \notin {"start", "sleep"} => \A d \in Devices : thread[d] = "none"
    /\ \A d \in Devices : thread[d] # "none" => recorder[d] \in {"made", "stopping"}
    /\ cloudShown => script = "select" \/ escaped = "select"
    /\ cloudShown => comm["tcp"] \in {"closed", "destroyed"}

\* The inductive invariant: where the script is tells what it may find there.
IInv ==
    /\ TypeOK
    /\ ConnectingInv
    /\ RecordingInv
    /\ LeavingInv
    /\ NothingLeftBehind
    /\ FetchedIsFinal
    /\ FreeWhileSelecting

\* A script that has been started returns, throws or ends its process: it does not block
\* Grasshopper for ever, whatever the devices do.
RunReturns == script = "connect" ~> script \in {"unwound", "left", "aborted"}

-----------------------------------------------------------------------------
(* Seen from the script each recorder is the log that module RecordingLog  *)
(* describes.                                                              *)
Readings(d) == [n \in 1 .. recorded[d] |-> n]

TcpLog == INSTANCE RecordingLog WITH open <- thread["tcp"] # "none", log <- Readings("tcp")
OpcuaLog == INSTANCE RecordingLog WITH open <- thread["opcua"] # "none", log <- Readings("opcua")

TcpRecorderIsLog == TcpLog!LogSpec
OpcuaRecorderIsLog == OpcuaLog!LogSpec
RecordersAreLogs == TcpRecorderIsLog /\ OpcuaRecorderIsLog
=============================================================================
