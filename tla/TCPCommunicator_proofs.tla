----------------------- MODULE TCPCommunicator_proofs -----------------------
(***************************************************************************)
(* The invariants of the profiler's communicator, for any number of        *)
(* profiles and changes of the settings.                                   *)
(***************************************************************************)
EXTENDS TCPCommunicator, SequenceTheorems, TLAPS

USE CommunicatorAssumption

\* The object is made with a handle and without a stream.
LEMMA InitInvariant == Init => IInv
<1> SUFFICES ASSUME Init PROVE IInv
  OBVIOUS
<1>1. NoPacket \in [number : Nat, settings : Nat] /\ NoPacket.settings = 0
  BY DEF NoPacket
<1>2. queue \in Seq([number : Nat, settings : Nat]) /\ Len(queue) = 0
  BY EmptySeq DEF Init
<1>3. TypeOK
  BY <1>1, <1>2 DEF Init, TypeOK
<1>4. ControlInv /\ HandlesInv /\ NoPacketYet /\ TrueMeansStreaming
  BY DEF Init, ControlInv, HandlesInv, NoPacketYet, TrueMeansStreaming
<1>5. ReadSinceCleared /\ ScaleNotOlder
  BY DEF Init, ReadSinceCleared, ScaleNotOlder
<1>6. DOMAIN queue = {}
  BY <1>2
<1>7. seen = 0 /\ arrived = 0 /\ settings = 0 /\ packet.settings = 0 /\ at # "read"
  BY <1>1 DEF Init
<1>8. QueueInv
  BY <1>6, <1>7 DEF QueueInv
<1> QED
  BY <1>3, <1>4, <1>5, <1>8 DEF IInv

\* Where a method is, and which handles it then has.
LEMMA ControlStep == ASSUME IInv, [Next]_vars PROVE (ControlInv /\ HandlesInv /\ TrueMeansStreaming)'
<1> USE DEF IInv, TypeOK, ControlInv, HandlesInv, TrueMeansStreaming, handles, control
<1>1. CASE Connect
  BY <1>1 DEF Connect, Call, Idle
<1>2. CASE HandleNotMade
  BY <1>2 DEF HandleNotMade, Return, Idle
<1>3. CASE Disconnect \/ Destroy
  BY <1>3 DEF Disconnect, Destroy, Shutdown, Call, Idle
<1>4. CASE GetDataWithTimestamp
  BY <1>4 DEF GetDataWithTimestamp, Call, Return, Idle
<1>5. CASE ConnectHandle
  BY <1>5 DEF ConnectHandle, Then, Return
<1>6. CASE CreateStream
  BY <1>6 DEF CreateStream, Then
<1>7. CASE StartStream
  BY <1>7 DEF StartStream, Then, Return
<1>8. CASE DisconnectHandle
  BY <1>8 DEF DisconnectHandle, Then, Return, Release
<1>9. CASE StopStream
  BY <1>9 DEF StopStream, Then
<1>10. CASE CloseStream
  BY <1>10 DEF CloseStream, Return, Release
<1>11. CASE ProfileAvailable
  BY <1>11 DEF ProfileAvailable, Then
<1>12. CASE ReadProfile
  BY <1>12 DEF ReadProfile, Then
<1>13. CASE GetProfile
  BY <1>13 DEF GetProfile, Then
<1>14. CASE ClearProfileQueue \/ ClearMeasurementQueue
  BY <1>14 DEF ClearProfileQueue, ClearMeasurementQueue, Then, Return
<1>15. CASE Throws
  BY <1>15 DEF Throws, Return
<1>16. CASE Sensor \/ UNCHANGED vars
  BY <1>16 DEF Sensor, ProfileArrives, SettingsChange, vars
<1> QED
  BY <1>1, <1>2, <1>3, <1>4, <1>5, <1>6, <1>7, <1>8, <1>9, <1>10, <1>11, <1>12, <1>13, <1>14,
     <1>15, <1>16 DEF Next, Method, Destroyed

\* The types that the lemma above does not speak of but for the data.
ControlTypes ==
  /\ handle \in {"none", "made", "connected", "destroyed"}
  /\ stream \in {"none", "made", "started"}
  /\ caller \in {"", "Connect", "GetData", "Disconnect", "Destroy"}
  /\ at \in {"", "connect", "create", "start", "available", "read", "profile", "clear",
             "measurements", "disconnect", "stop", "close"}
  /\ returned \in {"", "connected", "released", "empty", "points", "threw"}
  /\ faulty \in BOOLEAN

LEMMA ControlTypesStep == ASSUME IInv, [Next]_vars PROVE ControlTypes'
<1> USE DEF IInv, TypeOK, ControlTypes, handles, control, Call, Then, Return, Idle
<1>1. CASE Connect \/ HandleNotMade \/ Disconnect \/ Destroy \/ GetDataWithTimestamp
  BY <1>1 DEF Connect, HandleNotMade, Disconnect, Destroy, Shutdown, GetDataWithTimestamp
<1>2. CASE ConnectHandle \/ CreateStream \/ StartStream
  BY <1>2 DEF ConnectHandle, CreateStream, StartStream
<1>3. CASE DisconnectHandle \/ StopStream \/ CloseStream
  BY <1>3 DEF DisconnectHandle, StopStream, CloseStream, Release
<1>4. CASE ProfileAvailable \/ ReadProfile \/ GetProfile \/ ClearProfileQueue \/ ClearMeasurementQueue
  BY <1>4 DEF ProfileAvailable, ReadProfile, GetProfile, ClearProfileQueue, ClearMeasurementQueue
<1>5. CASE Throws
  BY <1>5 DEF Throws
<1>6. CASE Sensor \/ UNCHANGED vars
  BY <1>6 DEF Sensor, ProfileArrives, SettingsChange, vars
<1> QED
  BY <1>1, <1>2, <1>3, <1>4, <1>5, <1>6 DEF Next, Method, Destroyed

LEMMA NoPacketStep == ASSUME IInv, [Next]_vars PROVE NoPacketYet'
<1> USE DEF IInv, ControlInv, NoPacketYet, control, reading, Call, Then, Return, Idle
<1>1. CASE Connect \/ HandleNotMade \/ Disconnect \/ Destroy \/ GetDataWithTimestamp
  BY <1>1 DEF Connect, HandleNotMade, Disconnect, Destroy, Shutdown, GetDataWithTimestamp
<1>2. CASE ConnectHandle \/ CreateStream \/ StartStream
  BY <1>2 DEF ConnectHandle, CreateStream, StartStream
<1>3. CASE DisconnectHandle \/ StopStream \/ CloseStream
  BY <1>3 DEF DisconnectHandle, StopStream, CloseStream, Release
<1>4. CASE ProfileAvailable \/ ReadProfile \/ GetProfile \/ ClearProfileQueue \/ ClearMeasurementQueue \/ Throws
  BY <1>4 DEF ProfileAvailable, ReadProfile, GetProfile, ClearProfileQueue, ClearMeasurementQueue, Throws
<1>5. CASE Sensor \/ UNCHANGED vars
  BY <1>5 DEF Sensor, ProfileArrives, SettingsChange, vars
<1> QED
  BY <1>1, <1>2, <1>3, <1>4, <1>5 DEF Next, Method, Destroyed

\* What waits in the queue, and what was read from it.
Packets == [number : Nat, settings : Nat]
DataInv ==
  /\ packet \in Packets
  /\ scale \in Nat /\ settings \in Nat /\ arrived \in Nat /\ seen \in Nat
  /\ queue \in Seq(Packets)
  /\ QueueInv
  /\ ReadSinceCleared /\ ScaleNotOlder

LEMMA DataHolds == IInv => DataInv
  BY DEF IInv, TypeOK, DataInv, Packets

\* A call that leaves the sensor, the queue and the reading alone, and does not come to
\* one that uses them, keeps all that.
LEMMA DataKept ==
  ASSUME DataInv, UNCHANGED <<packet, scale, settings, arrived, queue, seen>>,
         at' = at \/ at' \notin {"read", "profile", "clear", "measurements"}
  PROVE DataInv'
  BY DEF DataInv, QueueInv, ReadSinceCleared, ScaleNotOlder

\* The same with no packet, and when the queue is emptied.
LEMMA DataEmptied ==
  ASSUME DataInv, UNCHANGED <<settings, arrived, scale>>,
         packet' \in {packet, NoPacket},
         \/ UNCHANGED <<queue, seen>>
         \/ queue' = <<>> /\ seen' = arrived,
         \/ at' \notin {"read", "profile", "clear", "measurements"}
         \/ at = "clear" /\ at' = "measurements" /\ UNCHANGED packet
  PROVE DataInv'
<1>1. NoPacket \in Packets /\ NoPacket.settings = 0
  BY DEF NoPacket, Packets
<1>2. queue' \in Seq(Packets)
  <2>1. << >> \in Seq(Packets)
    OBVIOUS
  <2>2. queue \in Seq(Packets)
    BY DEF DataInv
  <2>3. queue' = queue \/ queue' = << >>
    OBVIOUS
  <2> QED
    BY <2>1, <2>2, <2>3, Zenon
<1>3. QueueInv'
  <2>1. CASE UNCHANGED <<queue, seen>>
    BY <2>1, <1>1 DEF DataInv, QueueInv
  <2>2. CASE queue' = <<>> /\ seen' = arrived
    <3>1. Len(queue') = 0
      BY <2>2, EmptySeq
    <3>2. DOMAIN queue' = {}
      BY <1>2, <3>1
    <3> QED
      BY <2>2, <3>2, <1>1 DEF DataInv, QueueInv
  <2> QED
    BY <2>1, <2>2
<1> QED
  BY <1>1, <1>2, <1>3 DEF DataInv, ReadSinceCleared, ScaleNotOlder

\* The oldest profile is read: it arrived since the queue was last emptied.
LEMMA DataRead == ASSUME IInv, ReadProfile PROVE DataInv'
<1>1. DataInv /\ queue # <<>>
  BY DataHolds DEF IInv, QueueInv, ReadProfile, Then
<1>2. 1 \in DOMAIN queue /\ Head(queue) = queue[1] /\ queue[1] \in Packets
  BY <1>1 DEF DataInv
<1>3. /\ Tail(queue) \in Seq(Packets)
      /\ \A i \in DOMAIN Tail(queue) : i + 1 \in DOMAIN queue /\ Tail(queue)[i] = queue[i + 1]
  BY <1>1 DEF DataInv
<1>4. seen < packet'.number /\ packet'.settings <= settings /\ packet' \in Packets
  BY <1>1, <1>2 DEF ReadProfile, DataInv, QueueInv
<1>5. UNCHANGED <<scale, settings, arrived, seen>> /\ queue' = Tail(queue) /\ at' = "profile"
  BY DEF ReadProfile, Then, sensor
<1>6. QueueInv'
  BY <1>1, <1>3, <1>4, <1>5 DEF DataInv, QueueInv
<1> QED
  BY <1>1, <1>3, <1>4, <1>5, <1>6 DEF DataInv, ReadSinceCleared, ScaleNotOlder

\* A profile arrives behind all others.
LEMMA DataArrives == ASSUME IInv, ProfileArrives PROVE DataInv'
<1>1. DataInv
  BY DataHolds
<1>2. PICK measured \in 0 .. settings :
        queue' = Append(queue, [number |-> arrived + 1, settings |-> measured])
  BY DEF ProfileArrives
<1> DEFINE new == [number |-> arrived + 1, settings |-> measured]
<1>3. new \in Packets /\ new.number = arrived + 1 /\ new.settings <= settings
  BY <1>1 DEF DataInv, Packets
<1>4. UNCHANGED <<packet, scale, settings, seen, at>> /\ arrived' = arrived + 1
  BY DEF ProfileArrives, reading, control
<1> HIDE DEF new
<1>5. /\ queue' \in Seq(Packets)
      /\ queue' # <<>>
      /\ \A i \in DOMAIN queue' : queue'[i] = new \/ (i \in DOMAIN queue /\ queue'[i] = queue[i])
  BY <1>1, <1>2, <1>3 DEF DataInv, new
<1>6. QueueInv'
  BY <1>1, <1>3, <1>4, <1>5 DEF DataInv, QueueInv
<1> QED
  BY <1>1, <1>4, <1>5, <1>6 DEF DataInv, ReadSinceCleared, ScaleNotOlder

LEMMA DataStep == ASSUME IInv, [Next]_vars PROVE DataInv'
<1>0. DataInv
  BY DataHolds
<1>1. CASE Connect \/ HandleNotMade \/ Disconnect \/ Destroy
  BY <1>0, <1>1, DataKept DEF Connect, HandleNotMade, Disconnect, Destroy, Shutdown, Call, Return, reading, sensor
<1>2. CASE ConnectHandle \/ CreateStream \/ StartStream \/ StopStream
  BY <1>0, <1>2, DataKept DEF ConnectHandle, CreateStream, StartStream, StopStream, Then, Return, reading, sensor
<1>3. CASE GetDataWithTimestamp
  BY <1>0, <1>3, DataEmptied DEF GetDataWithTimestamp, Call, Return, sensor
<1>4. CASE DisconnectHandle \/ CloseStream
  BY <1>0, <1>4, DataEmptied DEF DisconnectHandle, CloseStream, Release, Return, Then, reading, sensor
<1>5. CASE ProfileAvailable
  <2>1. UNCHANGED <<packet, scale, settings, arrived, queue, seen>> /\ at' \in {"read", "clear"}
    BY <1>5 DEF ProfileAvailable, Then, reading, sensor
  <2>2. at' = "read" => queue # <<>>
    BY <1>5 DEF ProfileAvailable, Then
  <2>3. packet = NoPacket
    BY <1>5 DEF ProfileAvailable, Then, IInv, NoPacketYet, ControlInv, TypeOK
  <2>4. QueueInv'
    BY <1>0, <2>1, <2>2 DEF DataInv, QueueInv
  <2> QED
    BY <1>0, <2>1, <2>3, <2>4 DEF DataInv, ReadSinceCleared, ScaleNotOlder
<1>6. CASE ReadProfile
  BY <1>6, DataRead
<1>7. CASE GetProfile
  BY <1>0, <1>7 DEF GetProfile, Then, sensor, DataInv, QueueInv, ReadSinceCleared, ScaleNotOlder
<1>8. CASE ClearProfileQueue \/ ClearMeasurementQueue
  BY <1>0, <1>8, DataEmptied DEF ClearProfileQueue, ClearMeasurementQueue, Then, Return, reading, sensor
<1>9. CASE Throws
  BY <1>0, <1>9, DataEmptied DEF Throws, Return, sensor
<1>10. CASE ProfileArrives
  BY <1>10, DataArrives
<1>11. CASE SettingsChange
  <2>1. UNCHANGED <<packet, scale, arrived, queue, seen, at>> /\ settings' = settings + 1
    BY <1>11 DEF SettingsChange, control, reading
  <2>2. packet.settings \in Nat /\ \A i \in DOMAIN queue : queue[i].settings \in Nat
    <3>1. \A p \in Packets : p.settings \in Nat
      BY DEF Packets
    <3>2. packet \in Packets /\ \A i \in DOMAIN queue : queue[i] \in Packets
      BY <1>0 DEF DataInv
    <3> QED
      BY <3>1, <3>2
  <2>3. settings \in Nat /\ settings' \in Nat /\ \A n \in Nat : n <= settings => n <= settings'
    BY <1>0, <2>1 DEF DataInv
  <2>4. QueueInv'
    BY <1>0, <2>1, <2>2, <2>3 DEF DataInv, QueueInv
  <2> QED
    BY <1>0, <2>1, <2>3, <2>4 DEF DataInv, ReadSinceCleared, ScaleNotOlder
<1>12. CASE UNCHANGED vars
  BY <1>0, <1>12, DataKept DEF vars, control, reading, sensor
<1> QED
  BY <1>1, <1>2, <1>3, <1>4, <1>5, <1>6, <1>7, <1>8, <1>9, <1>10, <1>11, <1>12
     DEF Next, Method, Sensor, Destroyed

LEMMA StepInvariant == IInv /\ [Next]_vars => IInv'
  BY ControlStep, ControlTypesStep, NoPacketStep, DataStep DEF IInv, TypeOK, ControlTypes, DataInv, Packets

\* The inductive invariant holds in every state.
THEOREM Invariance == Spec => []IInv
  BY InitInvariant, StepInvariant, PTL DEF Spec

\* A profile that is read arrived since the queue was last emptied, whatever throws in
\* between.  How long ago that was is not bounded (Communicate.cc:77-93).
THEOREM ReadsNothingCleared == Spec => []ReadSinceCleared
<1>1. IInv => ReadSinceCleared
  BY DEF IInv
<1> QED
  BY <1>1, Invariance, PTL

\* A profile is never scaled with settings older than its own (Communicate.cc:77-78).
THEOREM ScaledUpToDate == Spec => []ScaleNotOlder
<1>1. IInv => ScaleNotOlder
  BY DEF IInv
<1> QED
  BY <1>1, Invariance, PTL

\* When Connect returns true the profiler streams, unless the SDK failed to start or to
\* close its stream (Communicate.cc:35-42).
THEOREM ConnectedStreams == Spec => []TrueMeansStreaming
<1>1. IInv => TrueMeansStreaming
  BY DEF IInv
<1> QED
  BY <1>1, Invariance, PTL
=============================================================================
