------------------------------ MODULE Recorder ------------------------------
(***************************************************************************)
(* A recorder object (TCPRecorder or OPCUARecorder): the recording thread  *)
(* it spawns, and the one thread that owns the object and calls            *)
(* StartRecording, StopRecording, GetRecordedData and the destructor.      *)
(*                                                                         *)
(* The two classes differ in two ways: TCPRecorder keeps every reading and *)
(* joins at once; OPCUARecorder drops readings without points and sleeps   *)
(* through StopPolls rounds first.                                         *)
(*                                                                         *)
(* Data: a reading is the number of the communicator call it came from, so *)
(* the order of the numbers is the order of the time stamps.               *)
(***************************************************************************)
EXTENDS Naturals, Sequences, SequencesExt

CONSTANTS
    OpcuaPolls,  \* rounds of 100 ms OPCUARecorder::StopRecording waits before it joins: 5
    MaxReads     \* bound: readings the communicator hands out to the recorder

ASSUME RecorderAssumption ==
    /\ OpcuaPolls \in Nat
    /\ MaxReads \in Nat

VARIABLES
    class,            \* the class of the object
    recordingSwitch,  \* std::atomic<bool>, without an initial value in the code
    recordingThread,  \* where the thread is; "none": the std::thread is not joinable
    dataMutex,        \* who holds the mutex
    recordedData,     \* the vector of readings
    reading,          \* the thread's local variable: the reading in its hands
    reads,            \* readings taken so far
    owner,            \* the call the owning thread is in
    destructing,      \* StopRecording was called by the destructor
    polls,            \* rounds StopRecording has yet to wait
    snapshot,         \* the last vector GetRecordedData returned
    terminated,       \* std::terminate was called
    session,          \* history: StartRecording has returned, StopRecording has not
    mark              \* history: length of recordedData when the stop was requested

sharedVars == <<recordingSwitch, dataMutex, recordedData>>
threadVars == <<recordingThread, reading, reads>>
ownerVars  == <<owner, destructing, polls, snapshot, session, mark>>
vars == <<class, sharedVars, terminated, threadVars, ownerVars>>

\* What most steps of the owner, and of the thread, leave alone.
ownerFrame  == <<terminated, threadVars, destructing, polls, snapshot, session, mark>>
threadFrame == <<terminated, reading, reads, ownerVars>>

KeepsEmpty == class = "TCPRecorder"
StopPolls == IF class = "OPCUARecorder" THEN OpcuaPolls ELSE 0

Nobody == "nobody"
Joinable == recordingThread # "none"

InLoop == {"loop", "get", "lock", "push", "catch", "sleep"}
ThreadStates == InLoop \cup {"none", "exit"}
OwnerStates == {"idle", "spawn", "getting", "copy", "stopping", "destroyed"}

Init ==
    /\ class \in {"TCPRecorder", "OPCUARecorder"}
    /\ recordingSwitch \in BOOLEAN
    /\ recordingThread = "none"
    /\ dataMutex = Nobody
    /\ recordedData = <<>>
    /\ reading = 0
    /\ reads = 0
    /\ owner = "idle"
    /\ destructing = FALSE
    /\ polls = 0
    /\ snapshot = <<>>
    /\ terminated = FALSE
    /\ session = FALSE
    /\ mark = 0

-----------------------------------------------------------------------------
(* The owning thread.                                                      *)

\* Fault: StartRecording does not test joinable().
StartRecordingUnguarded ==
    /\ owner = "idle"
    /\ recordingSwitch' = TRUE
    /\ owner' = "spawn"
    /\ UNCHANGED <<dataMutex, recordedData, ownerFrame>>

\* Fault: StartRecording empties the vector of the previous session.
StartRecordingClearing ==
    /\ owner = "idle"
    /\ ~Joinable
    /\ recordingSwitch' = TRUE
    /\ recordedData' = <<>>
    /\ owner' = "spawn"
    /\ UNCHANGED <<dataMutex, ownerFrame>>

\* StartRecording up to the creation of the thread.  While the std::thread is
\* joinable (running, or finished but not joined) it throws: nothing changes.
StartRecording ==
    /\ owner = "idle"
    /\ ~Joinable
    /\ recordingSwitch' = TRUE
    /\ owner' = "spawn"
    /\ UNCHANGED <<dataMutex, recordedData, ownerFrame>>

\* The new std::thread is move-assigned: onto a joinable one that would be
\* std::terminate.
Spawn ==
    /\ owner = "spawn"
    /\ terminated' = IF Joinable THEN TRUE ELSE terminated
    /\ recordingThread' = "loop"
    /\ session' = TRUE
    /\ owner' = "idle"
    /\ UNCHANGED <<sharedVars, reading, reads,
                   destructing, polls, snapshot, mark>>

\* The std::thread constructor throws std::system_error: StartRecording is left
\* with the switch on and no thread.
SpawnFails ==
    /\ owner = "spawn"
    /\ owner' = "idle"
    /\ UNCHANGED <<sharedVars, ownerFrame>>

\* What follows the end of StopRecording: its caller goes on, or the destructor
\* that called it destroys the members.  Destroying a joinable std::thread would be
\* std::terminate.
LeaveStop(destroys, stillJoinable) ==
    /\ owner' = IF destroys THEN "destroyed" ELSE "idle"
    /\ terminated' = IF destroys /\ stillJoinable THEN TRUE ELSE terminated
    /\ session' = FALSE

\* Fault: StopRecording leaves the switch on.
RequestStopSwitchOn(destroys) ==
    /\ owner = "idle"
    /\ destructing' = destroys
    /\ mark' = Len(recordedData)
    /\ IF Joinable
       THEN /\ owner' = "stopping"
            /\ polls' = StopPolls
            /\ UNCHANGED <<terminated, session>>
       ELSE /\ LeaveStop(destroys, Joinable)
            /\ UNCHANGED polls
    /\ UNCHANGED <<sharedVars, threadVars, snapshot>>

\* StopRecording, called by the owner or by the destructor: clears the switch and
\* returns at once when there is nothing to join.
RequestStop(destroys) ==
    /\ owner = "idle"
    /\ destructing' = destroys
    /\ recordingSwitch' = FALSE
    /\ mark' = Len(recordedData)
    /\ IF Joinable
       THEN /\ owner' = "stopping"
            /\ polls' = StopPolls
            /\ UNCHANGED <<terminated, session>>
       ELSE /\ LeaveStop(destroys, Joinable)
            /\ UNCHANGED polls
    /\ UNCHANGED <<dataMutex, recordedData, threadVars, snapshot>>

\* One 100 ms round of OPCUARecorder::StopRecording.  Only the join below makes
\* the thread unjoinable, so the loop always runs to its end.
StopPoll ==
    /\ owner = "stopping"
    /\ polls > 0
    /\ Joinable
    /\ polls' = polls - 1
    /\ UNCHANGED <<sharedVars, terminated, threadVars,
                   owner, destructing, snapshot, session, mark>>

\* Fault: StopRecording returns without waiting for the thread (a detach).
JoinNotWaiting ==
    /\ owner = "stopping"
    /\ polls = 0
    /\ LeaveStop(destructing, FALSE)
    /\ UNCHANGED <<sharedVars, threadVars,
                   destructing, polls, snapshot, mark>>

\* recordingThread.join() blocks until the thread has run to its end.
Join ==
    /\ owner = "stopping"
    /\ polls = 0
    /\ recordingThread = "exit"
    /\ recordingThread' = "none"
    /\ LeaveStop(destructing, recordingThread' # "none")
    /\ UNCHANGED <<sharedVars, reading, reads,
                   destructing, polls, snapshot, mark>>

\* GetRecordedData: called, then holding the mutex, then back with a copy.
GetRecordedData ==
    /\ owner = "idle"
    /\ owner' = "getting"
    /\ UNCHANGED <<sharedVars, ownerFrame>>

LockForCopy ==
    /\ owner = "getting"
    /\ dataMutex = Nobody
    /\ dataMutex' = "owner"
    /\ owner' = "copy"
    /\ UNCHANGED <<recordingSwitch, recordedData, ownerFrame>>

CopyData ==
    /\ owner = "copy"
    /\ snapshot' = recordedData
    /\ dataMutex' = Nobody
    /\ owner' = "idle"
    /\ UNCHANGED <<recordingSwitch, recordedData, terminated, threadVars,
                   destructing, polls, session, mark>>

-----------------------------------------------------------------------------
(* The recording thread.                                                   *)

Go(from, to) ==
    /\ recordingThread = from
    /\ recordingThread' = to

\* Fault: the thread does not test the switch before it reads.
LoopTestIgnoringSwitch ==
    /\ \E next \in {"get", "exit"} : Go("loop", next)
    /\ UNCHANGED <<sharedVars, threadFrame>>

\* while (recordingSwitch)
LoopTest ==
    /\ Go("loop", IF recordingSwitch THEN "get" ELSE "exit")
    /\ UNCHANGED <<sharedVars, threadFrame>>

\* GetDataWithTimestamp returns a reading that is going to be recorded.
TakeReading ==
    /\ reads < MaxReads
    /\ Go("get", "lock")
    /\ reads' = reads + 1
    /\ reading' = reads'
    /\ UNCHANGED <<sharedVars, terminated, ownerVars>>

\* It returns one without points, and this recorder only keeps those with points.
DropEmpty ==
    /\ ~KeepsEmpty
    /\ Go("get", "sleep")
    /\ UNCHANGED <<sharedVars, threadFrame>>

\* It throws.
ReadThrows ==
    /\ Go("get", "catch")
    /\ UNCHANGED <<sharedVars, threadFrame>>

\* Fault: the thread appends without the mutex.
LockForPushNotWaiting ==
    /\ Go("lock", "push")
    /\ UNCHANGED <<sharedVars, threadFrame>>

\* std::lock_guard on dataMutex.
LockForPush ==
    /\ dataMutex = Nobody
    /\ Go("lock", "push")
    /\ dataMutex' = "thread"
    /\ UNCHANGED <<recordingSwitch, recordedData, threadFrame>>

\* Fault: the newest reading goes first.
PushInFront ==
    /\ Go("push", "sleep")
    /\ recordedData' = <<reading>> \o recordedData
    /\ dataMutex' = Nobody
    /\ UNCHANGED <<recordingSwitch, threadFrame>>

\* push_back, and the end of the guarded block.
Push ==
    /\ Go("push", "sleep")
    /\ recordedData' = Append(recordedData, reading)
    /\ dataMutex' = Nobody
    /\ UNCHANGED <<recordingSwitch, threadFrame>>

\* Fault: the mutex stays locked when push_back throws.
PushThrowsHolding ==
    /\ Go("push", "catch")
    /\ UNCHANGED <<sharedVars, threadFrame>>

\* push_back runs out of memory: the lock guard releases the mutex on the way to
\* the handler.
PushThrows ==
    /\ Go("push", "catch")
    /\ dataMutex' = Nobody
    /\ UNCHANGED <<recordingSwitch, recordedData, threadFrame>>

\* Both handlers clear the switch and leave the loop.
Catch ==
    /\ Go("catch", "exit")
    /\ recordingSwitch' = FALSE
    /\ UNCHANGED <<dataMutex, recordedData, threadFrame>>

Sleep ==
    /\ Go("sleep", "loop")
    /\ UNCHANGED <<sharedVars, threadFrame>>

-----------------------------------------------------------------------------
OwnerNext ==
    /\ \/ StartRecording \/ Spawn \/ SpawnFails
       \/ (\E destroys \in BOOLEAN : RequestStop(destroys)) \/ StopPoll \/ Join
       \/ GetRecordedData \/ LockForCopy \/ CopyData
    /\ UNCHANGED class

ThreadNext ==
    /\ \/ LoopTest
       \/ TakeReading \/ DropEmpty \/ ReadThrows
       \/ LockForPush \/ Push \/ PushThrows
       \/ Catch \/ Sleep
    /\ UNCHANGED class

\* The object is gone and nothing is left to run.
Terminating ==
    /\ owner = "destroyed"
    /\ recordingThread = "none"
    /\ UNCHANGED vars

Next == OwnerNext \/ ThreadNext \/ Terminating

Spec == Init /\ [][Next]_vars

\* The operating system runs the thread, every call on the communicator returns
\* or throws, and a StopRecording under way goes on.  The owner is free to make no
\* further call, and no fairness is asked of the mutex.
Fairness ==
    /\ WF_vars(ThreadNext)
    /\ WF_vars(OwnerNext /\ owner = "stopping")

FairSpec == Spec /\ Fairness

-----------------------------------------------------------------------------
(* Properties.                                                             *)

\* Every variable has its type.
TypeOK ==
    /\ class \in {"TCPRecorder", "OPCUARecorder"}
    /\ recordingSwitch \in BOOLEAN
    /\ recordingThread \in ThreadStates
    /\ dataMutex \in {Nobody, "owner", "thread"}
    /\ recordedData \in Seq(Nat)
    /\ reading \in Nat
    /\ reads \in Nat
    /\ owner \in OwnerStates
    /\ destructing \in BOOLEAN
    /\ polls \in Nat
    /\ snapshot \in Seq(Nat)
    /\ terminated \in BOOLEAN
    /\ session \in BOOLEAN
    /\ mark \in Nat

\* No sequence of calls, failures of the device or of the thread constructor makes
\* the recorder assign over or destroy a std::thread that has not been joined,
\* which would abort the process.
NeverTerminates == ~terminated

\* The recording thread never appends to the vector while GetRecordedData copies
\* it, on any path, the ones that leave the critical section by an exception
\* included.
CopyAndPushExclude == ~(recordingThread = "push" /\ owner = "copy")

\* A vector handed out by GetRecordedData stays a prefix of the recording: later
\* readings are only added behind it, restarts of the recording included.
SnapshotIsPrefix == IsPrefix(snapshot, recordedData)

\* Time stamps never move backwards and no reading is recorded twice, across any
\* number of sessions of the same recorder.
RecordingOrdered ==
    \A i, j \in DOMAIN recordedData : i < j => recordedData[i] < recordedData[j]

\* Once StopRecording has cleared the switch, at most one reading, the one the
\* thread is in the middle of, is still added.
AtMostOneLateReading == owner = "stopping" => Len(recordedData) <= mark + 1

\* A thread that has left its loop has left the switch off: a StartRecording that
\* throws on a finished but unjoined thread does not switch it on again.
ExitedMeansOff == recordingThread = "exit" => ~recordingSwitch

\* The parts of the inductive invariant that the properties above do not state.
\* The mutex is held by whoever is between its lock and its release.
MutexInv ==
    /\ dataMutex = "thread" <=> recordingThread = "push"
    /\ dataMutex = "owner" <=> owner = "copy"

\* The thread is joinable exactly during a session; what the owner's calls have
\* established about the switch and the thread.
OwnershipInv ==
    /\ session <=> Joinable
    /\ owner \in {"spawn", "destroyed"} => ~Joinable
    /\ owner = "stopping" => Joinable /\ ~recordingSwitch

\* The reading in the thread's hands is newer than all recorded ones.
ReadingInv ==
    /\ \A i \in DOMAIN recordedData : recordedData[i] <= reads
    /\ recordingThread \in {"lock", "push"} =>
          /\ reading <= reads
          /\ \A i \in DOMAIN recordedData : recordedData[i] < reading

\* While a stop is under way, a reading not yet recorded is the only one to come.
LateReadingInv ==
    owner = "stopping" /\ recordingThread \in {"get", "lock", "push"} =>
        Len(recordedData) <= mark

\* The inductive invariant: every invariant above and what they rest on.
IInv ==
    /\ TypeOK
    /\ NeverTerminates
    /\ MutexInv
    /\ OwnershipInv
    /\ ReadingInv
    /\ LateReadingInv
    /\ SnapshotIsPrefix
    /\ RecordingOrdered
    /\ AtMostOneLateReading
    /\ ExitedMeansOff

\* The recording only changes between the return of StartRecording and the return
\* of StopRecording: what the owner fetches after a stop is final.
FrozenOutsideSession == [][recordedData' # recordedData => session]_vars

\* A StopRecording under way returns.
StopReturns == owner = "stopping" ~> owner \in {"idle", "destroyed"}

-----------------------------------------------------------------------------
(* The recorder implements the log it promises.                            *)
Log == INSTANCE RecordingLog WITH open <- session, log <- recordedData

ImplementsLog == Log!LogSpec
=============================================================================
