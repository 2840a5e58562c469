-------------------------- MODULE OPCUACommunicator --------------------------
(***************************************************************************)
(* The OPC UA side: an OPCUACommunicator object, its caller, and the server *)
(* (MockOPCUAServer, or the rangefinder it stands for) that serves a node   *)
(* holding a distance as two bytes, the high one first.                     *)
(*                                                                          *)
(* The open62541 client is external.  It is a resource that is created and  *)
(* deleted; a read fills a UA_Variant that must be cleared before           *)
(* GetDataWithTimestamp returns.  Time is the number of server updates.     *)
(***************************************************************************)
EXTENDS Integers, Sequences

CONSTANTS
    Distances,   \* the distances in mm the server may publish
    MaxUpdates   \* bound: updates of the node

ASSUME OPCUAAssumption ==
    /\ \A mm \in Distances : mm \in Nat /\ mm < 65536
    /\ Distances # {}
    /\ MaxUpdates \in Nat

VARIABLES
    distance,   \* distanceValueMm, as the server last published it
    node,       \* the value of the node: what a read returns
    updates,    \* tick: updates so far
    client,     \* the client pointer: "null", "new" (created) or "open" (connected)
    clients,    \* UA_Client objects that are allocated
    variant,    \* the local UA_Variant of GetDataWithTimestamp
    call,       \* what the caller is in, or how its last call came back
    sampled,    \* history: the update the value in the variant comes from
    result,     \* the reading GetDataWithTimestamp last returned
    window      \* history: distances the node held while the last read was under way

serverVars == <<distance, node, updates>>
clientVars == <<client, clients>>
readVars   == <<variant, sampled, result, window>>
vars == <<serverVars, clientVars, call, readVars>>

\* What a node, and the variant it is read into, may hold: a pair of bytes, a Byte
\* array of another length, a value of another type, nothing.
Byte == 0 .. 255
Values == [kind : {"pair", "array", "other", "none"}, high : Byte, low : Byte]
Pair(h, l) == [kind |-> "pair", high |-> h, low |-> l]
Useless(kind) == [kind |-> kind, high |-> 0, low |-> 0]

\* A UA_Variant after UA_Variant_init or UA_Variant_clear.
Empty == Useless("none")

\* A reading without points, stamped with the time of the call.
NoPoint(t) == [points |-> <<>>, stamp |-> t]

Returned == {"idle", "true", "threw"}

-----------------------------------------------------------------------------
(* The server.                                                             *)

\* Fault: the low byte is sent first.
EncodeLowFirst(mm) == Pair(mm % 256, (mm \div 256) % 256)

\* (mm >> 8) & 0xFF and mm & 0xFF
Encode(mm) == Pair((mm \div 256) % 256, mm % 256)

\* The distance a node value stands for, if it stands for one.
Held(value, mm) == IF value = Encode(mm) THEN {mm} ELSE {}

\* The repeated callback: any distance of the oscillation.  A real device may also
\* hold something that is not a pair of bytes.
UpdateDistanceValue ==
    /\ updates < MaxUpdates
    /\ call # "destroyed"
    /\ updates' = updates + 1
    /\ distance' \in Distances
    /\ node' \in {Encode(distance'), Useless("array"), Useless("other")}
    /\ window' = IF call = "reading" THEN window \cup Held(node', distance') ELSE window
    /\ UNCHANGED <<clientVars, call, variant, sampled, result>>

-----------------------------------------------------------------------------
(* The communicator.                                                       *)

\* The constructor: UA_Client_new() has returned a client, or NULL, which is not checked.
Init ==
    /\ distance \in Distances
    /\ node = Encode(distance)
    /\ updates = 0
    /\ \/ client = "new" /\ clients = 1
       \/ client = "null" /\ clients = 0
    /\ variant = Empty
    /\ call = "idle"
    /\ sampled = 0
    /\ result = NoPoint(0)
    /\ window = {}

\* UA_Client_connect succeeds.
ConnectGood ==
    /\ call \in Returned
    /\ client # "null"
    /\ client' = "open"
    /\ call' = "true"
    /\ UNCHANGED <<serverVars, clients, readVars>>

\* Fault: the client is deleted and the pointer kept.
ConnectFailsDangling ==
    /\ call \in Returned
    /\ client # "null"
    /\ clients' = clients - 1
    /\ call' = "threw"
    /\ UNCHANGED <<serverVars, client, readVars>>

\* UA_Client_connect fails: the client is deleted, Connect throws.
ConnectFails ==
    /\ call \in Returned
    /\ client # "null"
    /\ clients' = clients - 1
    /\ client' = "null"
    /\ call' = "threw"
    /\ UNCHANGED <<serverVars, readVars>>

\* There is no client (any more): Connect has nothing to do and returns true.
ConnectWithoutClient ==
    /\ call \in Returned
    /\ client = "null"
    /\ call' = "true"
    /\ UNCHANGED <<serverVars, clientVars, readVars>>

\* Disconnects and deletes the client, when there is one.
ReleaseClient ==
    /\ client' = "null"
    /\ clients' = IF client = "null" THEN clients ELSE clients - 1

Disconnect ==
    /\ call \in Returned
    /\ ReleaseClient
    /\ call' = "true"
    /\ UNCHANGED <<serverVars, readVars>>

\* The destructor.
Destroy ==
    /\ call \in Returned
    /\ ReleaseClient
    /\ call' = "destroyed"
    /\ UNCHANGED <<serverVars, readVars>>

\* GetDataWithTimestamp without a client.
GetNothing ==
    /\ call \in Returned
    /\ client = "null"
    /\ result' = NoPoint(updates)
    /\ call' = "idle"
    /\ UNCHANGED <<serverVars, clientVars, variant, sampled, window>>

\* GetDataWithTimestamp sends the read request.
RequestRead ==
    /\ call \in Returned
    /\ client # "null"
    /\ variant' = Empty
    /\ window' = Held(node, distance)
    /\ call' = "reading"
    /\ UNCHANGED <<serverVars, clientVars, sampled, result>>

\* The read has not succeeded: not connected, no such node, no answer.
ReadBad ==
    /\ call = "reading"
    /\ variant' = Empty
    /\ result' = NoPoint(updates)
    /\ call' = "idle"
    /\ UNCHANGED <<serverVars, clientVars, sampled, window>>

\* The read has returned the value of the node.
ReadGood ==
    /\ call = "reading"
    /\ client = "open"
    /\ variant' = node
    /\ sampled' = updates
    /\ call' = "decoding"
    /\ UNCHANGED <<serverVars, clientVars, result, window>>

TwoBytes(v) == v.kind = "pair"

\* (data[0] << 8) | data[1], as uint16_t
Decode(v) == (v.high * 256 + v.low) % 65536

\* Fault: the variant is not cleared when the value is of no use.
RejectValueUncleared ==
    /\ call = "decoding"
    /\ ~TwoBytes(variant)
    /\ result' = NoPoint(updates)
    /\ call' = "idle"
    /\ UNCHANGED <<serverVars, clientVars, variant, sampled, window>>

\* A Byte array of another length, or a value of another type.
RejectValue ==
    /\ call = "decoding"
    /\ ~TwoBytes(variant)
    /\ variant' = Empty
    /\ result' = NoPoint(updates)
    /\ call' = "idle"
    /\ UNCHANGED <<serverVars, clientVars, sampled, window>>

\* One point, time-stamped after it was decoded.
AcceptValue ==
    /\ call = "decoding"
    /\ TwoBytes(variant)
    /\ variant' = Empty
    /\ result' = [points |-> <<Decode(variant)>>, stamp |-> updates]
    /\ call' = "idle"
    /\ UNCHANGED <<serverVars, clientVars, sampled, window>>

Terminating ==
    /\ call = "destroyed"
    /\ UNCHANGED vars

Connect == ConnectGood \/ ConnectFails \/ ConnectWithoutClient

GetDataWithTimestamp ==
    \/ GetNothing \/ RequestRead
    \/ ReadBad \/ ReadGood
    \/ RejectValue \/ AcceptValue

Next ==
    \/ UpdateDistanceValue
    \/ Connect \/ Disconnect \/ Destroy
    \/ GetDataWithTimestamp
    \/ Terminating

Spec == Init /\ [][Next]_vars

-----------------------------------------------------------------------------
(* Properties.                                                             *)

\* Every variable has its type.
TypeOK ==
    /\ distance \in Distances
    /\ node \in Values
    /\ updates \in 0 .. MaxUpdates
    /\ client \in {"null", "new", "open"}
    /\ clients \in Nat
    /\ variant \in Values
    /\ call \in Returned \cup {"reading", "decoding", "destroyed"}
    /\ sampled \in 0 .. MaxUpdates
    /\ result \in [points : Seq(Nat), stamp : 0 .. MaxUpdates]
    /\ window \subseteq Distances

\* Failed connections, disconnections and the destructor, in any order, delete the
\* client exactly once: the pointer is null exactly when the client is gone.
ClientOwnedOnce == clients = IF client = "null" THEN 0 ELSE 1

\* No path out of GetDataWithTimestamp leaks the value that was read.
VariantCleared == call \in Returned \cup {"destroyed"} => variant = Empty

\* A reading with a point was published by the server while the call was under way,
\* at or before its time stamp: it is neither stale nor garbled on the way.
FreshReading ==
    result.points # <<>> /\ call = "idle" =>
        /\ Len(result.points) = 1
        /\ result.points[1] \in window
        /\ sampled <= result.stamp

\* What FreshReading rests on: a pair of bytes, on its way from the node to the
\* reading, encodes a distance the node has held since the read was requested.
BytesInTransit ==
    /\ sampled <= updates
    /\ result.stamp <= updates
    /\ TwoBytes(node) => node = Encode(distance)
    /\ call = "reading" => Held(node, distance) \subseteq window
    /\ call = "decoding" /\ TwoBytes(variant) =>
          \E mm \in window : variant = Encode(mm)

\* The inductive invariant.
IInv ==
    /\ TypeOK
    /\ ClientOwnedOnce
    /\ VariantCleared
    /\ FreshReading
    /\ BytesInTransit
=============================================================================
