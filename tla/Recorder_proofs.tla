-------------------------- MODULE Recorder_proofs --------------------------
(***************************************************************************)
(* Proofs about Recorder, for both kinds of recorder and any number of     *)
(* readings.  The inductive invariant IInv, defined in Recorder, is proved *)
(* in three layers: the types; who may be where (the switch, the thread,   *)
(* the mutex and the owner's call); and, resting on these, the contents of *)
(* the recording.                                                          *)
(***************************************************************************)
EXTENDS Recorder, TLAPS

\* Every step keeps the types.
LEMMA TypeStep == TypeOK /\ [Next]_vars => TypeOK'
<1> SUFFICES ASSUME TypeOK, [Next]_vars PROVE TypeOK'
  OBVIOUS
<1>a. class' \in {"TCPRecorder", "OPCUARecorder"}
  BY DEF TypeOK, Next, OwnerNext, ThreadNext, Terminating, vars
<1>b. StopPolls \in Nat
  BY RecorderAssumption DEF StopPolls
<1> USE <1>a, <1>b DEF TypeOK, Nobody, Joinable, ThreadStates, InLoop, OwnerStates,
        sharedVars, threadVars, ownerVars, ownerFrame, threadFrame
<1>1. CASE StartRecording BY <1>1 DEF StartRecording
<1>2. CASE Spawn BY <1>2 DEF Spawn
<1>3. CASE SpawnFails BY <1>3 DEF SpawnFails
<1>4. ASSUME NEW destroys \in BOOLEAN, RequestStop(destroys) PROVE TypeOK'
  <2>1. recordingSwitch' \in BOOLEAN /\ destructing' \in BOOLEAN
    BY <1>4, Zenon DEF RequestStop
  <2>2. UNCHANGED <<dataMutex, recordedData, recordingThread, reading, reads, snapshot>>
    BY <1>4 DEF RequestStop
  <2>3. mark' \in Nat
    BY <1>4 DEF RequestStop
  <2>4. /\ owner' \in OwnerStates
        /\ polls' \in Nat
        /\ terminated' = terminated
        /\ session' \in BOOLEAN
    BY <1>4 DEF RequestStop, LeaveStop
  <2> QED
    BY <2>1, <2>2, <2>3, <2>4
<1>5. CASE StopPoll BY <1>5 DEF StopPoll
<1>6. CASE Join BY <1>6 DEF Join, LeaveStop
<1>7. CASE GetRecordedData BY <1>7 DEF GetRecordedData
<1>8. CASE LockForCopy BY <1>8 DEF LockForCopy
<1>9. CASE CopyData BY <1>9 DEF CopyData
<1>10. CASE LoopTest BY <1>10 DEF LoopTest, Go
<1>11. CASE TakeReading BY <1>11 DEF TakeReading, Go
<1>12. CASE DropEmpty BY <1>12 DEF DropEmpty, Go
<1>13. CASE ReadThrows BY <1>13 DEF ReadThrows, Go
<1>14. CASE LockForPush BY <1>14 DEF LockForPush, Go
<1>15. CASE Push BY <1>15 DEF Push, Go
<1>16. CASE PushThrows BY <1>16 DEF PushThrows, Go
<1>17. CASE Catch BY <1>17 DEF Catch, Go
<1>18. CASE Sleep BY <1>18 DEF Sleep, Go
<1>19. CASE UNCHANGED vars BY <1>19 DEF vars
<1> QED
  BY <1>1, <1>2, <1>3, <1>4, <1>5, <1>6, <1>7, <1>8, <1>9, <1>10, <1>11, <1>12,
     <1>13, <1>14, <1>15, <1>16, <1>17, <1>18, <1>19
  DEF Next, OwnerNext, ThreadNext, Terminating

-----------------------------------------------------------------------------
\* Who may be where: the part of the invariant that is about control.
ControlInv ==
    /\ NeverTerminates
    /\ MutexInv
    /\ OwnershipInv
    /\ ExitedMeansOff

\* Every step keeps the control part.  The interesting ones are Spawn, which
\* relies on the test of joinable() before it, and Join.
LEMMA ControlStep == TypeOK /\ ControlInv /\ [Next]_vars => ControlInv'
<1> SUFFICES ASSUME TypeOK, ControlInv, [Next]_vars PROVE ControlInv'
  OBVIOUS
<1> USE DEF ControlInv, NeverTerminates, MutexInv, OwnershipInv, ExitedMeansOff,
        TypeOK, Nobody, Joinable, ThreadStates, InLoop, OwnerStates,
        sharedVars, threadVars, ownerVars, ownerFrame, threadFrame
<1>1. CASE StartRecording BY <1>1 DEF StartRecording
<1>2. CASE Spawn BY <1>2 DEF Spawn
<1>3. CASE SpawnFails BY <1>3 DEF SpawnFails
<1>4. ASSUME NEW destroys \in BOOLEAN, RequestStop(destroys) PROVE ControlInv'
  BY <1>4 DEF RequestStop, LeaveStop
<1>5. CASE StopPoll BY <1>5 DEF StopPoll
<1>6. CASE Join BY <1>6 DEF Join, LeaveStop
<1>7. CASE GetRecordedData BY <1>7 DEF GetRecordedData
<1>8. CASE LockForCopy BY <1>8 DEF LockForCopy
<1>9. CASE CopyData BY <1>9 DEF CopyData
<1>10. CASE LoopTest BY <1>10 DEF LoopTest, Go
<1>11. CASE TakeReading BY <1>11 DEF TakeReading, Go
<1>12. CASE DropEmpty BY <1>12 DEF DropEmpty, Go
<1>13. CASE ReadThrows BY <1>13 DEF ReadThrows, Go
<1>14. CASE LockForPush BY <1>14 DEF LockForPush, Go
<1>15. CASE Push BY <1>15 DEF Push, Go
<1>16. CASE PushThrows BY <1>16 DEF PushThrows, Go
<1>17. CASE Catch BY <1>17 DEF Catch, Go
<1>18. CASE Sleep BY <1>18 DEF Sleep, Go
<1>19. CASE UNCHANGED vars BY <1>19 DEF vars
<1> QED
  BY <1>1, <1>2, <1>3, <1>4, <1>5, <1>6, <1>7, <1>8, <1>9, <1>10, <1>11, <1>12,
     <1>13, <1>14, <1>15, <1>16, <1>17, <1>18, <1>19
  DEF Next, OwnerNext, ThreadNext, Terminating

-----------------------------------------------------------------------------
\* What the recording contains: the part of the invariant that is about data.
DataInv ==
    /\ ReadingInv
    /\ LateReadingInv
    /\ SnapshotIsPrefix
    /\ RecordingOrdered
    /\ AtMostOneLateReading

\* Appending keeps every element and adds one at the end.
LEMMA AppendFacts ==
  ASSUME NEW s \in Seq(Nat), NEW x \in Nat
  PROVE  /\ Append(s, x) \in Seq(Nat)
         /\ Len(Append(s, x)) = Len(s) + 1
         /\ DOMAIN Append(s, x) = 1 .. (Len(s) + 1)
         /\ \A i \in DOMAIN s : Append(s, x)[i] = s[i]
         /\ Append(s, x)[Len(s) + 1] = x
  OBVIOUS

\* A prefix of a sequence is a prefix of what is appended to, and every sequence is
\* a prefix of itself.
LEMMA PrefixOfAppend ==
  ASSUME NEW s \in Seq(Nat), NEW t \in Seq(Nat), NEW x \in Nat, IsPrefix(s, t)
  PROVE  IsPrefix(s, Append(t, x))
<1>1. Len(s) <= Len(t) /\ SubSeq(s, 1, Len(s)) = SubSeq(t, 1, Len(s))
  BY DEF IsPrefix
<1>2. SubSeq(Append(t, x), 1, Len(s)) = SubSeq(t, 1, Len(s))
  BY <1>1
<1> QED
  BY <1>1, <1>2, AppendFacts DEF IsPrefix

\* A step that leaves the recording, the snapshot and the reading in hand alone
\* keeps the data part, if it keeps what that part says of the late reading.
LEMMA QuietStep ==
  ASSUME DataInv, UNCHANGED <<recordedData, snapshot, reading, reads>>,
         recordingThread' \in {"lock", "push"} => recordingThread \in {"lock", "push"},
         LateReadingInv', AtMostOneLateReading'
  PROVE  DataInv'
  BY DEF DataInv, ReadingInv, SnapshotIsPrefix, RecordingOrdered

\* Every step keeps the data part.  Push is the step that matters: it needs the
\* reading in hand to be newer than the recording, and the stop not to have seen
\* another one.
LEMMA DataStep == TypeOK /\ ControlInv /\ DataInv /\ [Next]_vars => DataInv'
<1> SUFFICES ASSUME TypeOK, ControlInv, DataInv, [Next]_vars PROVE DataInv'
  OBVIOUS
<1> USE DEF TypeOK, Nobody, Joinable, ThreadStates, InLoop, OwnerStates,
        sharedVars, threadVars, ownerVars, ownerFrame, threadFrame,
        LateReadingInv, AtMostOneLateReading
<1>1. CASE StartRecording
  BY <1>1, QuietStep DEF StartRecording, DataInv, ControlInv, OwnershipInv
<1>2. CASE Spawn
  BY <1>2, QuietStep DEF Spawn, DataInv, ControlInv, OwnershipInv
<1>3. CASE SpawnFails
  BY <1>3, QuietStep DEF SpawnFails, DataInv, ControlInv, OwnershipInv
<1>4. ASSUME NEW destroys \in BOOLEAN, RequestStop(destroys) PROVE DataInv'
  BY <1>4, QuietStep DEF RequestStop, LeaveStop, DataInv, ControlInv, OwnershipInv
<1>5. CASE StopPoll
  BY <1>5, QuietStep DEF StopPoll, DataInv, ControlInv, OwnershipInv
<1>6. CASE Join
  BY <1>6, QuietStep DEF Join, LeaveStop, DataInv, ControlInv, OwnershipInv
<1>7. CASE GetRecordedData
  BY <1>7, QuietStep DEF GetRecordedData, DataInv, ControlInv, OwnershipInv
<1>8. CASE LockForCopy
  BY <1>8, QuietStep DEF LockForCopy, DataInv, ControlInv, OwnershipInv
<1>9. CASE CopyData
  <2>1. IsPrefix(recordedData, recordedData)
    BY DEF IsPrefix
  <2> QED
    BY <1>9, <2>1
    DEF CopyData, DataInv, ReadingInv, SnapshotIsPrefix, RecordingOrdered
<1>10. CASE LoopTest
  BY <1>10, QuietStep DEF LoopTest, Go, DataInv, ControlInv, OwnershipInv
<1>11. CASE TakeReading
  <2>1. ReadingInv'
    BY <1>11 DEF TakeReading, Go, DataInv, ReadingInv
  <2> QED
    BY <1>11, <2>1 DEF TakeReading, Go, DataInv, SnapshotIsPrefix, RecordingOrdered
<1>12. CASE DropEmpty
  BY <1>12, QuietStep DEF DropEmpty, Go, DataInv, ControlInv, OwnershipInv
<1>13. CASE ReadThrows
  BY <1>13, QuietStep DEF ReadThrows, Go, DataInv, ControlInv, OwnershipInv
<1>14. CASE LockForPush
  BY <1>14, QuietStep DEF LockForPush, Go, DataInv, ControlInv, OwnershipInv
<1>15. CASE Push
  <2>1. recordedData' = Append(recordedData, reading)
    BY <1>15 DEF Push
  <2>2. UNCHANGED <<reading, reads, snapshot, mark, owner>>
    BY <1>15 DEF Push
  <2>3. recordingThread = "push" /\ recordingThread' = "sleep"
    BY <1>15 DEF Push, Go
  <2>4. ReadingInv'
    BY <2>1, <2>2, <2>3, AppendFacts DEF DataInv, ReadingInv
  <2>5. LateReadingInv' /\ AtMostOneLateReading'
    BY <2>1, <2>2, <2>3, AppendFacts DEF DataInv
  <2>6. SnapshotIsPrefix'
    BY <2>1, <2>2, PrefixOfAppend DEF DataInv, SnapshotIsPrefix
  <2>7. RecordingOrdered'
    BY <2>1, <2>3, AppendFacts DEF DataInv, ReadingInv, RecordingOrdered
  <2> QED
    BY <2>4, <2>5, <2>6, <2>7 DEF DataInv
<1>16. CASE PushThrows
  BY <1>16, QuietStep DEF PushThrows, Go, DataInv, ControlInv, OwnershipInv
<1>17. CASE Catch
  BY <1>17, QuietStep DEF Catch, Go, DataInv, ControlInv, OwnershipInv
<1>18. CASE Sleep
  BY <1>18, QuietStep DEF Sleep, Go, DataInv, ControlInv, OwnershipInv
<1>19. CASE UNCHANGED vars BY <1>19, QuietStep DEF vars, DataInv
<1> QED
  BY <1>1, <1>2, <1>3, <1>4, <1>5, <1>6, <1>7, <1>8, <1>9, <1>10, <1>11, <1>12,
     <1>13, <1>14, <1>15, <1>16, <1>17, <1>18, <1>19
  DEF Next, OwnerNext, ThreadNext, Terminating

-----------------------------------------------------------------------------
\* The inductive invariant is the three parts together.
LEMMA InvParts == IInv <=> TypeOK /\ ControlInv /\ DataInv
<1>1. IInv => TypeOK /\ ControlInv /\ DataInv
  BY DEF IInv, ControlInv, DataInv
<1>2. ASSUME TypeOK, ControlInv, DataInv PROVE IInv
  BY <1>2 DEF IInv, ControlInv, DataInv
<1> QED
  BY <1>1, <1>2

\* Every initial state satisfies the inductive invariant: the recording is empty
\* and nobody has called anything yet, whatever value the switch happens to have.
LEMMA InitInv == Init => IInv
<1> SUFFICES ASSUME Init PROVE IInv
  OBVIOUS
<1> USE DEF Init, Nobody, Joinable, ThreadStates, InLoop, OwnerStates
<1>1. TypeOK
  <2>1. recordedData \in Seq(Nat) /\ snapshot \in Seq(Nat)
    OBVIOUS
  <2>2. terminated \in BOOLEAN /\ session \in BOOLEAN /\ destructing \in BOOLEAN
    OBVIOUS
  <2> QED
    BY <2>1, <2>2 DEF TypeOK
<1>2. ControlInv
  BY DEF ControlInv, NeverTerminates, MutexInv, OwnershipInv, ExitedMeansOff
<1>3. IsPrefix(snapshot, recordedData)
  BY DEF IsPrefix
<1>4. DataInv
  BY <1>3 DEF DataInv, ReadingInv, LateReadingInv, SnapshotIsPrefix,
     RecordingOrdered, AtMostOneLateReading
<1> QED
  BY <1>1, <1>2, <1>4, InvParts

\* The inductive invariant holds in every reachable state.
THEOREM Invariance == Spec => []IInv
<1>1. IInv /\ [Next]_vars => IInv'
  BY TypeStep, ControlStep, DataStep, InvParts DEF IInv, ControlInv, DataInv
<1> QED
  BY InitInv, <1>1, PTL DEF Spec

\* Type correctness.
THEOREM TypeCorrect == Spec => []TypeOK
  BY Invariance, PTL DEF IInv

\* No calls, failures of the device or of the thread constructor lead to
\* std::terminate.
THEOREM NoTerminate == Spec => []NeverTerminates
  BY Invariance, PTL DEF IInv

\* GetRecordedData never copies the vector while the thread appends to it.
THEOREM MutualExclusion == Spec => []CopyAndPushExclude
<1>1. IInv => CopyAndPushExclude
  BY DEF IInv, MutexInv, CopyAndPushExclude
<1> QED
  BY Invariance, <1>1, PTL

\* Readings are recorded in the order they were taken, each at most once.
THEOREM Ordered == Spec => []RecordingOrdered
  BY Invariance, PTL DEF IInv

\* A vector handed out stays a prefix of the recording.
THEOREM SnapshotStays == Spec => []SnapshotIsPrefix
  BY Invariance, PTL DEF IInv

\* After the switch is cleared at most one more reading is recorded.
THEOREM LateReading == Spec => []AtMostOneLateReading
  BY Invariance, PTL DEF IInv

\* A thread that left its loop left the switch off.
THEOREM ExitedOff == Spec => []ExitedMeansOff
  BY Invariance, PTL DEF IInv

\* The recording changes only during a session: Push is the only step that changes
\* it, and a thread that pushes is joinable, so the session has not ended.
THEOREM Frozen == Spec => FrozenOutsideSession
<1>1. IInv /\ [Next]_vars => [recordedData' # recordedData => session]_vars
  <2> SUFFICES ASSUME IInv, Next, recordedData' # recordedData PROVE session
    OBVIOUS
  <2>1. Push
    BY DEF Next, OwnerNext, ThreadNext, Terminating, vars, sharedVars, StartRecording,
       Spawn, SpawnFails, RequestStop, StopPoll, Join, GetRecordedData, LockForCopy,
       CopyData, LoopTest, TakeReading, DropEmpty, ReadThrows, LockForPush,
       PushThrows, Catch, Sleep
  <2> QED
    BY <2>1 DEF Push, Go, IInv, OwnershipInv, Joinable
<1> QED
  BY Invariance, <1>1, PTL DEF Spec, FrozenOutsideSession

-----------------------------------------------------------------------------
\* Every step of a recorder is a step of the log it promises, or none.
LEMMA StepRefines == IInv /\ [Next]_vars => [Log!LogNext]_(Log!logVars)
<1> SUFFICES ASSUME IInv, [Next]_vars PROVE [Log!LogNext]_(Log!logVars)
  OBVIOUS
<1> USE DEF Log!LogNext, Log!logVars, Log!Open, Log!Record, Log!Close,
        sharedVars, threadVars, ownerVars, ownerFrame, threadFrame
<1>1. CASE Spawn
  BY <1>1 DEF Spawn, IInv, OwnershipInv
<1>2. CASE Join
  BY <1>2 DEF Join, LeaveStop, IInv, OwnershipInv, Joinable
<1>3. ASSUME NEW destroys \in BOOLEAN, RequestStop(destroys)
      PROVE  UNCHANGED <<session, recordedData>>
  BY <1>3 DEF RequestStop, LeaveStop, IInv, OwnershipInv, TypeOK
<1>4. CASE Push
  <2>1. recordedData' = Append(recordedData, reading) /\ UNCHANGED session
    BY <1>4 DEF Push
  <2>2. session /\ \A i \in DOMAIN recordedData : recordedData[i] < reading
    BY <1>4 DEF Push, Go, IInv, OwnershipInv, Joinable, ReadingInv
  <2>3. recordedData \in Seq(Nat) /\ reading \in Nat
    BY DEF IInv, TypeOK
  <2>4. Log!Record
    BY <2>1, <2>2, <2>3, AppendFacts
  <2> QED
    BY <2>4
<1>5. CASE StartRecording BY <1>5 DEF StartRecording
<1>6. CASE SpawnFails BY <1>6 DEF SpawnFails
<1>7. CASE StopPoll BY <1>7 DEF StopPoll
<1>8. CASE GetRecordedData BY <1>8 DEF GetRecordedData
<1>9. CASE LockForCopy BY <1>9 DEF LockForCopy
<1>10. CASE CopyData BY <1>10 DEF CopyData
<1>11. CASE LoopTest \/ TakeReading \/ DropEmpty \/ ReadThrows
  BY <1>11 DEF LoopTest, TakeReading, DropEmpty, ReadThrows
<1>12. CASE LockForPush \/ PushThrows \/ Catch \/ Sleep
  BY <1>12 DEF LockForPush, PushThrows, Catch, Sleep
<1>13. CASE UNCHANGED vars BY <1>13 DEF vars
<1> QED
  BY <1>1, <1>2, <1>3, <1>4, <1>5, <1>6, <1>7, <1>8, <1>9, <1>10, <1>11, <1>12, <1>13
  DEF Next, OwnerNext, ThreadNext, Terminating

\* A recorder implements the log it promises to its owner.
THEOREM Refinement == Spec => ImplementsLog
<1>1. Init => Log!LogInit
  BY DEF Init, Log!LogInit
<1> QED
  BY <1>1, StepRefines, Invariance, PTL DEF Spec, ImplementsLog, Log!LogSpec
=============================================================================
