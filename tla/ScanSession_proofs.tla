------------------------- MODULE ScanSession_proofs -------------------------
(***************************************************************************)
(* Proofs about ScanSession, for either component, any duration and any   *)
(* number of readings.                                                     *)
(***************************************************************************)
EXTENDS ScanSession, SequenceTheorems, TLAPS

\* The script counts seconds ...
LEMMA SecondType == elapsed \in Nat /\ Second => elapsed' \in Nat
  BY DEF Second

\* ... and a recording thread its readings.
LEMMA RecordedType ==
  ASSUME recorded \in [Devices -> Nat], NEW d \in Devices, ReadingTaken(d)
  PROVE  recorded' \in [Devices -> Nat]
<1>1. CASE UNCHANGED recorded
  BY <1>1
<1>2. ASSUME NEW n \in Nat, recorded' = [recorded EXCEPT ![d] = n] PROVE recorded' \in [Devices -> Nat]
  BY <1>2
<1>3. recorded[d] \in Nat /\ recorded[d] + 1 \in Nat
  OBVIOUS
<1> QED
  BY <1>1, <1>2, <1>3 DEF ReadingTaken

\* The initial state satisfies the inductive invariant.
LEMMA InitInv == Init => IInv
<1> SUFFICES ASSUME Init PROVE IInv
  OBVIOUS
<1> USE DEF Init, Devices
<1>1. TypeOK
  BY DEF TypeOK
<1>2. ConnectingInv /\ RecordingInv
  BY DEF ConnectingInv, RecordingInv, Past
<1>3. LeavingInv
  BY DEF LeavingInv, Leaving
<1>4. NothingLeftBehind /\ FetchedIsFinal /\ FreeWhileSelecting
  BY DEF NothingLeftBehind, FetchedIsFinal, FreeWhileSelecting
<1> QED
  BY <1>1, <1>2, <1>3, <1>4 DEF IInv

\* Every step of the script keeps the inductive invariant.
LEMMA ScriptStep == IInv /\ (RunScript \/ ScriptNext) => IInv'
<1> SUFFICES ASSUME IInv, RunScript \/ ScriptNext PROVE IInv'
  OBVIOUS
<1> USE DEF IInv, ConnectingInv, RecordingInv, LeavingInv, NothingLeftBehind, FetchedIsFinal,
            FreeWhileSelecting, Past, Go, BothThen, Escape, DisconnectThrows, Leaving, Alive, Devices,
            objects, recording, results
<1>1. CASE RunScript
  BY <1>1 DEF RunScript, TypeOK
<1>2. CASE ConnectDevice
  BY <1>2 DEF ConnectDevice, TypeOK
<1>3. CASE ConnectFails
  BY <1>3 DEF ConnectFails, TypeOK
<1>4. CASE StartRecording
  BY <1>4 DEF StartRecording, TypeOK
<1>5. CASE StartThrows
  BY <1>5 DEF StartThrows, TypeOK
<1>6. CASE Second
  <2>1. TypeOK'
    BY <1>6, SecondType DEF Second, TypeOK
  <2>2. ~(script' = "left")
    BY <1>6 DEF Second
  <2> QED
    BY <1>6, <2>1, <2>2 DEF Second
<1>7. CASE Slept
  BY <1>7 DEF Slept, TypeOK
<1>8. CASE SleepThrows
  BY <1>8 DEF SleepThrows, TypeOK
<1>9. CASE RequestStop
  BY <1>9 DEF RequestStop, TypeOK
<1>10. CASE Join
  BY <1>10 DEF Join, TypeOK
<1>11. CASE GetRecordedData
  BY <1>11 DEF GetRecordedData, Disconnected, TypeOK
<1>12. CASE SliceFindsPasses
  BY <1>12 DEF SliceFindsPasses, TypeOK
<1>13. CASE SliceFindsNone
  BY <1>13 DEF SliceFindsNone, TypeOK
<1>14. CASE Compute
  BY <1>14 DEF Compute, Disconnected, TypeOK
<1>15. CASE ShowCloud
  BY <1>15 DEF ShowCloud, TypeOK
<1>16. CASE DeleteCloud
  BY <1>16 DEF DeleteCloud, TypeOK
<1>17. CASE SelectThrows
  BY <1>17 DEF SelectThrows, TypeOK
<1>18. CASE Place
  BY <1>18 DEF Place, TypeOK
<1>19. CASE PlaceThrows
  BY <1>19 DEF PlaceThrows, TypeOK
<1> QED
  BY <1>1, <1>2, <1>3, <1>4, <1>5, <1>6, <1>7, <1>8, <1>9, <1>10, <1>11, <1>12, <1>13, <1>14,
     <1>15, <1>16, <1>17, <1>18, <1>19 DEF ScriptNext

\* So does every step of a recording thread, wherever the script is.
LEMMA ThreadStep == ASSUME IInv, NEW d \in Devices, Thread(d) PROVE IInv'
<1> USE DEF IInv, ConnectingInv, RecordingInv, LeavingInv, NothingLeftBehind, FetchedIsFinal,
            FreeWhileSelecting, Past, Leaving, Alive, Devices, objects, recording, results
<1>1. CASE LoopTest(d)
  BY <1>1 DEF LoopTest, TypeOK
<1>2. CASE ReadingTaken(d)
  <2>1. recorded' \in [Devices -> Nat]
    BY <1>2, RecordedType DEF TypeOK
  <2>2. TypeOK'
    BY <1>2, <2>1 DEF ReadingTaken, TypeOK
  <2>3. thread[d] # "none" /\ thread' = [thread EXCEPT ![d] = "between"] /\ DOMAIN thread = Devices
    BY <1>2 DEF ReadingTaken, TypeOK
  <2>4. UNCHANGED <<component, script, device, comm, recorder, fetched, cloudShown, escaped>>
    BY <1>2 DEF ReadingTaken
  <2>5. \A c \in Devices : thread'[c] = "none" <=> thread[c] = "none"
    BY <2>3
  <2>6. ConnectingInv' /\ RecordingInv' /\ LeavingInv' /\ NothingLeftBehind' /\ FreeWhileSelecting'
    BY <2>3, <2>4, <2>5
  <2>7. FetchedIsFinal'
    BY <2>3, <2>4
  <2> QED
    BY <2>2, <2>6, <2>7
<1>3. CASE ReadingThrows(d)
  BY <1>3 DEF ReadingThrows, TypeOK
<1> QED
  BY <1>1, <1>2, <1>3 DEF Thread

\* And so does every step that releases a local of RunScript.
LEMMA LeavingStep == IInv /\ (ReleaseFrame \/ LeavingNext) => IInv'
<1> SUFFICES ASSUME IInv, ReleaseFrame \/ LeavingNext PROVE IInv'
  OBVIOUS
<1> USE DEF IInv, ConnectingInv, RecordingInv, LeavingInv, NothingLeftBehind, FetchedIsFinal,
            FreeWhileSelecting, Past, Go, Leaving, Alive, Devices, objects, recording, results
<1>1. CASE ReleaseFrame
  BY <1>1 DEF ReleaseFrame, TypeOK
<1>2. ASSUME NEW d \in Devices, DestroyCommunicator(d) PROVE IInv'
  <2>1. CASE comm' = [comm EXCEPT ![d] = "destroyed"] /\ UNCHANGED script
    BY <1>2, <2>1 DEF DestroyCommunicator, TypeOK
  <2>2. CASE d = "tcp" /\ comm[d] # "closed" /\ comm' = [comm EXCEPT ![d] = "torn"] /\ script' = "aborted"
    <3>1. TypeOK' /\ comm'["tcp"] = "torn"
      BY <1>2, <2>2 DEF DestroyCommunicator, TypeOK
    <3>2. ~cloudShown
      BY <1>2, <2>2 DEF DestroyCommunicator, TypeOK
    <3> QED
      BY <1>2, <2>2, <3>1, <3>2 DEF DestroyCommunicator
  <2> QED
    BY <1>2, <2>1, <2>2 DEF DestroyCommunicator
<1>3. ASSUME NEW d \in Devices, DestroyRecorder(d) PROVE IInv'
  BY <1>3 DEF DestroyRecorder, TypeOK
<1>4. ASSUME NEW d \in Devices, JoinDestroying(d) PROVE IInv'
  BY <1>4 DEF JoinDestroying, TypeOK
<1>5. CASE Left
  BY <1>5 DEF Left, TypeOK
<1> QED
  BY <1>1, <1>2, <1>3, <1>4, <1>5 DEF LeavingNext

LEMMA NextInv == IInv /\ [Next]_vars => IInv'
<1> SUFFICES ASSUME IInv, [Next]_vars PROVE IInv'
  OBVIOUS
<1>1. CASE RunScript \/ ScriptNext
  BY <1>1, ScriptStep
<1>2. CASE ReleaseFrame \/ LeavingNext
  BY <1>2, LeavingStep
<1>3. ASSUME NEW d \in Devices, Thread(d) PROVE IInv'
  BY <1>3, ThreadStep
<1>4. CASE UNCHANGED vars
  <2>1. TypeOK'
    BY <1>4 DEF IInv, TypeOK, vars, objects, recording, results
  <2>2. (ConnectingInv /\ RecordingInv /\ LeavingInv)'
    BY <1>4 DEF IInv, ConnectingInv, RecordingInv, LeavingInv, Leaving, Past, vars, objects, recording, results
  <2>3. (NothingLeftBehind /\ FetchedIsFinal /\ FreeWhileSelecting)'
    BY <1>4 DEF IInv, NothingLeftBehind, FetchedIsFinal, FreeWhileSelecting, Alive,
       vars, objects, recording, results
  <2> QED
    BY <2>1, <2>2, <2>3 DEF IInv
<1> QED
  BY <1>1, <1>2, <1>3, <1>4 DEF Next, Terminating

\* In every reachable state the phase of RunScript tells which threads run and which
\* devices are connected, whatever the devices and the user do.
THEOREM Invariance == Spec => []IInv
<1>1. Init => IInv
  BY InitInv
<1>2. IInv /\ [Next]_vars => IInv'
  BY NextInv
<1> QED
  BY <1>1, <1>2, PTL DEF Spec

\* No recording thread calls a device that the script has disconnected, unless an
\* exception interrupted the recording.
THEOREM CallsAreConnected == Spec => []CallsConnectedUnlessInterrupted
<1>1. IInv => CallsConnectedUnlessInterrupted
  BY DEF IInv, TypeOK, ConnectingInv, RecordingInv, LeavingInv, Leaving, FreeWhileSelecting,
         CallsConnectedUnlessInterrupted, CallsConnected, Past, Devices
<1> QED
  BY <1>1, Invariance, PTL

\* What the script slices is the whole recording.
THEOREM FetchedStaysFinal == Spec => []FetchedIsFinal
<1>1. IInv => FetchedIsFinal
  BY DEF IInv
<1> QED
  BY <1>1, Invariance, PTL

\* Both devices are free while the user picks points.
THEOREM DevicesAreFree == Spec => []FreeWhileSelecting
<1>1. IInv => FreeWhileSelecting
  BY DEF IInv
<1> QED
  BY <1>1, Invariance, PTL

\* A run that has been left has released both devices and joined both threads, and one
\* that ended its process did so on a profiler that would not shut down.
THEOREM EverythingReleased == Spec => []NothingLeftBehind
<1>1. IInv => NothingLeftBehind
  BY DEF IInv
<1> QED
  BY <1>1, Invariance, PTL

-----------------------------------------------------------------------------
(* Each recorder, as the script uses it, implements RecordingLog.          *)

\* One more reading is one more entry, newer than all before.
LEMMA ReadingsGrow ==
  ASSUME NEW k \in Nat, NEW old, NEW new,
         old = [n \in 1 .. k |-> n], new = [n \in 1 .. k + 1 |-> n]
  PROVE  /\ Len(new) = Len(old) + 1
         /\ \A i \in DOMAIN old : new[i] = old[i] /\ old[i] < new[Len(new)]
<1>1. old \in Seq(Nat) /\ new \in Seq(Nat)
  OBVIOUS
<1>2. Len(old) = k /\ Len(new) = k + 1
  BY <1>1
<1> QED
  BY <1>2

\* No reading is no entry.
LEMMA NoReadings == ASSUME NEW k, k = 0 PROVE [n \in 1 .. k |-> n] = << >>
<1> DEFINE none == [n \in 1 .. 0 |-> n]
<1>1. none \in Seq(Nat) /\ Len(none) = 0
  OBVIOUS
<1>2. none = << >>
  BY <1>1, EmptySeq
<1> QED
  BY <1>2

\* The four things a step does to a recorder: nothing, start, record one reading, end.
RecorderStep(d) ==
  \/ (thread'[d] = "none" <=> thread[d] = "none") /\ recorded'[d] = recorded[d]
  \/ thread[d] = "none" /\ thread'[d] # "none" /\ recorded'[d] = recorded[d]
  \/ thread[d] # "none" /\ thread'[d] # "none" /\ recorded'[d] = recorded[d] + 1
  \/ thread[d] # "none" /\ thread'[d] = "none" /\ recorded'[d] = recorded[d]

LEMMA RecorderSteps == ASSUME IInv, [Next]_vars, NEW d \in Devices PROVE RecorderStep(d)
<1> USE DEF RecorderStep, Devices, objects, recording, results, IInv, TypeOK
<1>1. CASE UNCHANGED recording
  BY <1>1
<1>2. CASE StartRecording
  BY <1>2 DEF StartRecording
<1>3. CASE Join
  BY <1>3 DEF Join
<1>4. ASSUME NEW c \in Devices, JoinDestroying(c) PROVE RecorderStep(d)
  BY <1>4 DEF JoinDestroying
<1>5. ASSUME NEW c \in Devices, LoopTest(c) PROVE RecorderStep(d)
  BY <1>5 DEF LoopTest
<1>6. ASSUME NEW c \in Devices, ReadingTaken(c) PROVE RecorderStep(d)
  BY <1>6 DEF ReadingTaken
<1>7. ASSUME NEW c \in Devices, ReadingThrows(c) PROVE RecorderStep(d)
  BY <1>7 DEF ReadingThrows
<1>8. CASE UNCHANGED <<thread, recorded>>
  BY <1>8
<1>9. (RunScript \/ ScriptNext \/ ReleaseFrame) /\ ~StartRecording /\ ~Join => UNCHANGED <<thread, recorded>>
  BY DEF RunScript, ScriptNext, ReleaseFrame, ConnectDevice, ConnectFails, StartThrows, Second, Slept,
     SleepThrows, RequestStop, GetRecordedData, SliceFindsPasses, SliceFindsNone, Compute, ShowCloud,
     DeleteCloud, SelectThrows, Place, PlaceThrows
<1>10. ASSUME NEW c \in Devices, DestroyCommunicator(c) \/ DestroyRecorder(c) PROVE UNCHANGED <<thread, recorded>>
  BY <1>10 DEF DestroyCommunicator, DestroyRecorder
<1>11. Left => UNCHANGED <<thread, recorded>>
  BY DEF Left
<1>12. UNCHANGED vars => UNCHANGED <<thread, recorded>>
  BY DEF vars
<1> QED
  BY <1>2, <1>3, <1>4, <1>5, <1>6, <1>7, <1>8, <1>9, <1>10, <1>11, <1>12
     DEF Next, LeavingNext, Thread, Terminating

\* Readings says what the lemma ReadingsGrow is about.
LEMMA ReadingsStep ==
  ASSUME IInv, NEW d \in Devices, recorded'[d] = recorded[d] + 1
  PROVE  /\ Len(Readings(d)') = Len(Readings(d)) + 1
         /\ \A i \in DOMAIN Readings(d) :
               Readings(d)'[i] = Readings(d)[i] /\ Readings(d)[i] < Readings(d)'[Len(Readings(d)')]
<1>1. recorded[d] \in Nat
  BY DEF IInv, TypeOK
<1>2. Readings(d) = [n \in 1 .. recorded[d] |-> n] /\ Readings(d)' = [n \in 1 .. recorded[d] + 1 |-> n]
  BY DEF Readings
<1> HIDE DEF Readings
<1> QED
  BY <1>1, <1>2, ReadingsGrow

\* The recorder of the profiles implements the log: the script opens it only when it is
\* closed, nothing it does takes a reading out, and readings come only while it is open.
THEOREM TcpRecorderImplementsLog == Spec => TcpRecorderIsLog
<1>1. Init => TcpLog!LogInit
  <2> SUFFICES ASSUME Init PROVE TcpLog!LogInit
    OBVIOUS
  <2>1. thread["tcp"] = "none" /\ recorded["tcp"] = 0
    BY DEF Init, Devices
  <2>2. Readings("tcp") = << >>
    BY <2>1, NoReadings DEF Readings
  <2> QED
    BY <2>1, <2>2 DEF TcpLog!LogInit
<1>2. IInv /\ [Next]_vars => [TcpLog!LogNext]_(TcpLog!logVars)
  <2> SUFFICES ASSUME IInv, [Next]_vars PROVE [TcpLog!LogNext]_(TcpLog!logVars)
    OBVIOUS
  <2>1. RecorderStep("tcp")
    BY RecorderSteps DEF Devices
  <2>2. recorded'["tcp"] = recorded["tcp"] => UNCHANGED Readings("tcp")
    BY DEF Readings
  <2>3. CASE recorded'["tcp"] = recorded["tcp"] + 1 /\ thread["tcp"] # "none" /\ thread'["tcp"] # "none"
    <3>1. /\ Len(Readings("tcp")') = Len(Readings("tcp")) + 1
          /\ \A i \in DOMAIN Readings("tcp") :
                Readings("tcp")'[i] = Readings("tcp")[i]
                /\ Readings("tcp")[i] < Readings("tcp")'[Len(Readings("tcp")')]
      BY <2>3, ReadingsStep DEF Devices
    <3> QED
      BY <2>3, <3>1 DEF TcpLog!LogNext, TcpLog!Record
  <2> QED
    BY <2>1, <2>2, <2>3 DEF RecorderStep, TcpLog!LogNext, TcpLog!Open, TcpLog!Close, TcpLog!logVars
<1> QED
  BY <1>1, <1>2, Invariance, PTL DEF Spec, TcpRecorderIsLog, TcpLog!LogSpec

\* And so does the recorder of the distances.
THEOREM OpcuaRecorderImplementsLog == Spec => OpcuaRecorderIsLog
<1>1. Init => OpcuaLog!LogInit
  <2> SUFFICES ASSUME Init PROVE OpcuaLog!LogInit
    OBVIOUS
  <2>1. thread["opcua"] = "none" /\ recorded["opcua"] = 0
    BY DEF Init, Devices
  <2>2. Readings("opcua") = << >>
    BY <2>1, NoReadings DEF Readings
  <2> QED
    BY <2>1, <2>2 DEF OpcuaLog!LogInit
<1>2. IInv /\ [Next]_vars => [OpcuaLog!LogNext]_(OpcuaLog!logVars)
  <2> SUFFICES ASSUME IInv, [Next]_vars PROVE [OpcuaLog!LogNext]_(OpcuaLog!logVars)
    OBVIOUS
  <2>1. RecorderStep("opcua")
    BY RecorderSteps DEF Devices
  <2>2. recorded'["opcua"] = recorded["opcua"] => UNCHANGED Readings("opcua")
    BY DEF Readings
  <2>3. CASE recorded'["opcua"] = recorded["opcua"] + 1 /\ thread["opcua"] # "none" /\ thread'["opcua"] # "none"
    <3>1. /\ Len(Readings("opcua")') = Len(Readings("opcua")) + 1
          /\ \A i \in DOMAIN Readings("opcua") :
                Readings("opcua")'[i] = Readings("opcua")[i]
                /\ Readings("opcua")[i] < Readings("opcua")'[Len(Readings("opcua")')]
      BY <2>3, ReadingsStep DEF Devices
    <3> QED
      BY <2>3, <3>1 DEF OpcuaLog!LogNext, OpcuaLog!Record
  <2> QED
    BY <2>1, <2>2, <2>3 DEF RecorderStep, OpcuaLog!LogNext, OpcuaLog!Open, OpcuaLog!Close, OpcuaLog!logVars
<1> QED
  BY <1>1, <1>2, Invariance, PTL DEF Spec, OpcuaRecorderIsLog, OpcuaLog!LogSpec

\* RunScript uses both recorders as module RecordingLog describes.
THEOREM RecordersImplementLogs == Spec => RecordersAreLogs
  BY TcpRecorderImplementsLog, OpcuaRecorderImplementsLog DEF RecordersAreLogs
=============================================================================
