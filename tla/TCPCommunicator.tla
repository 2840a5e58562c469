-------------------------- MODULE TCPCommunicator --------------------------
(***************************************************************************)
(* The communicator of the line profiler: a handle to the sensor, a stream *)
(* of profiles that is made from it, and the calls that make, use and      *)
(* release both.  Every call of the SDK is a step of its own, in which the *)
(* SDK may throw, and between two of them profiles go on arriving.         *)
(*                                                                         *)
(* The sensor and the SDK are external: profiles that arrive wait in a     *)
(* queue, from which the oldest is read; a call that throws changes        *)
(* nothing.  One thread at a time uses the object.                         *)
(***************************************************************************)
EXTENDS Naturals, Sequences

CONSTANTS
    MaxProfiles,    \* bound: profiles that arrive
    MaxChanges      \* bound: changes of the sensor's settings

ASSUME CommunicatorAssumption ==
    /\ MaxProfiles \in Nat
    /\ MaxChanges \in Nat

VARIABLES
    handle,         \* communicationHandle: "none" is null, "made" not connected
    stream,         \* streamHandle: "none" is null, "made" not started or stopped
    caller,         \* the method that is running, "" when none is
    at,             \* the SDK call it has come to
    returned,       \* what the last method returned
    packet,         \* profilePacket, NoPacket when there is none
    scale,          \* the settings profileInfo was measured with
    settings,       \* the settings of the last profile the sensor measured
    arrived,        \* number of profiles that arrived
    queue,          \* the stream's profile queue
    seen,           \* how many profiles had arrived when the queue was last emptied, 0 before
    faulty          \* a start or a close of this stream threw

handles == <<handle, stream>>
control == <<caller, at, returned>>
reading == <<packet, scale>>
sensor == <<settings, arrived>>
vars == <<handles, control, reading, sensor, queue, seen, faulty>>

NoPacket == [number |-> 0, settings |-> 0]

Init ==
    /\ handle = "made"
    /\ stream = "none"
    /\ caller = "" /\ at = "" /\ returned = ""
    /\ packet = NoPacket /\ scale = 0
    /\ settings = 0 /\ arrived = 0
    /\ queue = <<>>
    /\ seen = 0
    /\ faulty = FALSE

-----------------------------------------------------------------------------
(* Control.                                                                *)

Idle == caller = "" /\ handle # "destroyed"

Call(method, step) ==
    /\ Idle
    /\ caller' = method /\ at' = step /\ returned' = ""

Then(from, to) ==
    /\ at = from
    /\ at' = to
    /\ UNCHANGED <<caller, returned>>

Return(value) == caller' = "" /\ at' = "" /\ returned' = value

\* Any call of the SDK may throw, and nothing handles it here.  In the destructor
\* that ends the process.
Throws ==
    /\ caller # ""
    /\ at = "disconnect" => handle # "none"
    /\ Return("threw")
    /\ handle' = IF caller = "Destroy" THEN "destroyed" ELSE handle
    /\ packet' = NoPacket
    /\ faulty' = (faulty \/ at \in {"start", "close"})
    /\ UNCHANGED <<stream, scale, sensor, queue, seen>>

-----------------------------------------------------------------------------
(* Connect.                                                                *)

\* The handle is made again if a Disconnect has dropped it.
Connect ==
    /\ Call("Connect", "connect")
    /\ handle' = IF handle = "none" THEN "made" ELSE handle
    /\ UNCHANGED <<stream, reading, sensor, queue, seen, faulty>>

\* ... or cannot be made.
HandleNotMade ==
    /\ Idle
    /\ handle = "none"
    /\ Return("threw")
    /\ UNCHANGED <<handles, reading, sensor, queue, seen, faulty>>

\* With a stream there is nothing left to do.
ConnectHandle ==
    /\ at = "connect"
    /\ handle' = "connected"
    /\ IF stream = "none" THEN Then("connect", "create") ELSE Return("connected")
    /\ UNCHANGED <<stream, reading, sensor, queue, seen, faulty>>

\* CreateStream and Start are the same two lines in Connect and GetDataWithTimestamp.
CreateStream ==
    /\ Then("create", "start")
    /\ stream' = "made"
    /\ UNCHANGED <<handle, reading, sensor, queue, seen, faulty>>

StartStream ==
    /\ at = "start"
    /\ stream' = "started"
    /\ IF caller = "Connect" THEN Return("connected") ELSE Then("start", "available")
    /\ UNCHANGED <<handle, reading, sensor, queue, seen, faulty>>

-----------------------------------------------------------------------------
(* Disconnect and the destructor.                                          *)

Shutdown(method) ==
    /\ Call(method, "disconnect")
    /\ UNCHANGED <<handles, reading, sensor, queue, seen, faulty>>

Disconnect == Shutdown("Disconnect")
Destroy == Shutdown("Destroy")

\* Fault: the stopped stream is kept.
ReleaseKeepingStream ==
    /\ Return("released")
    /\ handle' = IF caller = "Destroy" THEN "destroyed" ELSE "none"
    /\ queue' = <<>> /\ seen' = arrived
    /\ faulty' = FALSE
    /\ UNCHANGED stream

\* Both handles are dropped, and with the stream its queue.
Release ==
    /\ Return("released")
    /\ handle' = IF caller = "Destroy" THEN "destroyed" ELSE "none"
    /\ stream' = "none"
    /\ queue' = <<>> /\ seen' = arrived
    /\ faulty' = FALSE

\* Without a handle, after a Disconnect, there is nothing to disconnect.
DisconnectHandle ==
    /\ at = "disconnect"
    /\ IF stream = "none"
       THEN Release
       ELSE /\ Then("disconnect", "stop")
            /\ handle' = "made"
            /\ UNCHANGED <<stream, queue, seen, faulty>>
    /\ UNCHANGED <<reading, sensor>>

StopStream ==
    /\ Then("stop", "close")
    /\ stream' = "made"
    /\ UNCHANGED <<handle, reading, sensor, queue, seen, faulty>>

CloseStream ==
    /\ at = "close"
    /\ Release
    /\ UNCHANGED <<reading, sensor>>

-----------------------------------------------------------------------------
(* GetDataWithTimestamp.                                                   *)

\* Fault: the missing handle is not noticed.
GetDataWithTimestampUnguarded ==
    /\ Call("GetData", IF stream = "none" THEN "create" ELSE "available")
    /\ packet' = NoPacket
    /\ UNCHANGED <<handles, scale, sensor, queue, seen, faulty>>

\* Without a handle there are no points; without a stream one is made.
GetDataWithTimestamp ==
    /\ IF handle = "none"
       THEN Idle /\ Return("empty")
       ELSE Call("GetData", IF stream = "none" THEN "create" ELSE "available")
    /\ packet' = NoPacket
    /\ UNCHANGED <<handles, scale, sensor, queue, seen, faulty>>

ProfileAvailable ==
    /\ Then("available", IF queue # <<>> THEN "read" ELSE "clear")
    /\ UNCHANGED <<handles, reading, sensor, queue, seen, faulty>>

ReadProfile ==
    /\ Then("read", "profile")
    /\ packet' = Head(queue)
    /\ queue' = Tail(queue)
    /\ UNCHANGED <<handles, scale, sensor, seen, faulty>>

\* Fault: the settings of the first reading are kept.
GetProfileOnce ==
    /\ Then("profile", "clear")
    /\ scale' = IF scale = 0 THEN settings ELSE scale
    /\ UNCHANGED <<handles, packet, sensor, queue, seen, faulty>>

\* The last profile the sensor measured says how to scale the packet.
GetProfile ==
    /\ Then("profile", "clear")
    /\ scale' = settings
    /\ UNCHANGED <<handles, packet, sensor, queue, seen, faulty>>

\* Fault: the profiles that wait are kept for the next reading.
ClearProfileQueueNot ==
    /\ Then("clear", "measurements")
    /\ seen' = arrived
    /\ UNCHANGED <<handles, reading, sensor, queue, faulty>>

\* The profiles that came since, or that waited behind the one read, are dropped.
ClearProfileQueue ==
    /\ Then("clear", "measurements")
    /\ queue' = <<>>
    /\ seen' = arrived
    /\ UNCHANGED <<handles, reading, sensor, faulty>>

\* Nothing is read from the measurement queue, but a profile may come in meanwhile.
ClearMeasurementQueue ==
    /\ at = "measurements"
    /\ Return(IF packet = NoPacket THEN "empty" ELSE "points")
    /\ UNCHANGED <<handles, reading, sensor, queue, seen, faulty>>

-----------------------------------------------------------------------------
(* The sensor.                                                             *)

\* A profile arrives, which may have been measured before the last one was.
ProfileArrives ==
    /\ stream = "started"
    /\ arrived < MaxProfiles
    /\ arrived' = arrived + 1
    /\ \E measured \in 0 .. settings :
          queue' = Append(queue, [number |-> arrived + 1, settings |-> measured])
    /\ UNCHANGED <<handles, control, reading, settings, seen, faulty>>

\* Somebody changes the resolution or the field of view.
SettingsChange ==
    /\ settings < MaxChanges
    /\ settings' = settings + 1
    /\ UNCHANGED <<handles, control, reading, arrived, queue, seen, faulty>>

-----------------------------------------------------------------------------
Method ==
    \/ ConnectHandle \/ CreateStream \/ StartStream
    \/ DisconnectHandle \/ StopStream \/ CloseStream
    \/ ProfileAvailable \/ ReadProfile \/ GetProfile \/ ClearProfileQueue \/ ClearMeasurementQueue
    \/ Throws

Sensor == ProfileArrives \/ SettingsChange

Destroyed == handle = "destroyed" /\ UNCHANGED vars

Next ==
    \/ Connect \/ HandleNotMade \/ Disconnect \/ Destroy \/ GetDataWithTimestamp
    \/ Method \/ Sensor \/ Destroyed

Spec == Init /\ [][Next]_vars

-----------------------------------------------------------------------------
(* Properties.                                                             *)

\* Every variable has its type.
TypeOK ==
    /\ handle \in {"none", "made", "connected", "destroyed"}
    /\ stream \in {"none", "made", "started"}
    /\ caller \in {"", "Connect", "GetData", "Disconnect", "Destroy"}
    /\ at \in {"", "connect", "create", "start", "available", "read", "profile", "clear",
               "measurements", "disconnect", "stop", "close"}
    /\ returned \in {"", "connected", "released", "empty", "points", "threw"}
    /\ packet \in [number : Nat, settings : Nat]
    /\ scale \in Nat
    /\ settings \in Nat
    /\ arrived \in Nat
    /\ queue \in Seq([number : Nat, settings : Nat])
    /\ seen \in Nat
    /\ faulty \in BOOLEAN

\* A profile that is read arrived since the queue was last emptied, by the last reading
\* that came to ClearProfileQueue or with the last stream: none that an earlier reading
\* left waiting, none of an earlier connection, none twice (Communicate.cc:77, 93).
\* Between two readings in a row that both come back that is one round of the recording
\* loop.  It bounds nothing else: what has been queued since Connect started the stream,
\* since the last reading of an earlier recording, or since one that threw before it
\* came to ClearProfileQueue, is read however long ago it arrived, with the time of now.
ReadSinceCleared == packet # NoPacket /\ at \in {"profile", "clear"} => packet.number > seen

\* A profile is never scaled with settings older than its own: the settings are asked
\* for after it was read (Communicate.cc:77-78).
ScaleNotOlder == at \in {"clear", "measurements"} => packet.settings <= scale \/ packet = NoPacket

\* When Connect returns true the profiler streams, unless the SDK failed to start or
\* to close this stream: then it never does until a Disconnect succeeds
\* (Communicate.cc:35-42, Communicate.hh:78-91).
TrueMeansStreaming == returned = "connected" => stream = "started" \/ faulty

\* Only the running method has come to a call of the SDK, to one that it makes.
ControlInv ==
    /\ caller = "" => at = ""
    /\ caller = "Connect" => at \in {"connect", "create", "start"}
    /\ caller = "GetData" => at \in {"create", "start", "available", "read", "profile", "clear",
                                    "measurements"}
    /\ caller \in {"Disconnect", "Destroy"} => at \in {"disconnect", "stop", "close"}
    /\ caller # "" => returned = "" /\ handle # "destroyed"

\* No method calls through a null pointer, and a stream never outlives its handle.
HandlesInv ==
    /\ caller \in {"Connect", "GetData"} \/ at \in {"stop", "close"} => handle # "none"
    /\ at = "create" => stream = "none"
    /\ at \in {"start", "close"} => stream = "made"
    /\ at \in {"available", "read", "profile", "clear", "measurements", "stop"} => stream # "none"
    /\ handle = "none" => stream = "none"
    /\ stream = "made" => faulty \/ at \in {"start", "close"}

\* A reading starts without a packet.
NoPacketYet == caller = "GetData" /\ at \notin {"profile", "clear", "measurements"} => packet = NoPacket

\* The profiles that wait arrived after the queue was emptied, and a profile is only read
\* from a queue that holds one.
QueueInv ==
    /\ seen <= arrived
    /\ \A i \in DOMAIN queue : seen < queue[i].number /\ queue[i].settings <= settings
    /\ at = "read" => queue # <<>>
    /\ packet.settings <= settings

\* The inductive invariant.
IInv ==
    /\ TypeOK /\ ControlInv /\ HandlesInv /\ NoPacketYet /\ QueueInv
    /\ ReadSinceCleared /\ ScaleNotOlder /\ TrueMeansStreaming
=============================================================================
