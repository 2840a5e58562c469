---------------------- MODULE OPCUACommunicator_proofs ----------------------
(***************************************************************************)
(* Proofs about OPCUACommunicator, for any distances that fit 16 bits and  *)
(* any number of updates.                                                  *)
(***************************************************************************)
EXTENDS OPCUACommunicator, TLAPS

\* What the server encodes are two bytes, and the client decodes them to the same
\* distance, for every 16-bit distance.
THEOREM RoundTrip ==
  ASSUME NEW mm \in Nat, mm < 65536
  PROVE  /\ Encode(mm) \in Values
         /\ TwoBytes(Encode(mm))
         /\ Decode(Encode(mm)) = mm
<1> DEFINE high == mm \div 256
           low  == mm % 256
<1>1. high \in Nat /\ high < 256
  BY SMT
<1>2. low \in Nat /\ low < 256
  BY SMT
<1>3. low = mm - high * 256
  BY SMT
<1>4. Encode(mm) = Pair(high % 256, low)
  BY DEF Encode
<1> HIDE DEF high, low
<1>5. high % 256 = high
  BY <1>1, SMT
<1>6. Encode(mm) = Pair(high, low)
  BY <1>4, <1>5
<1>7. Encode(mm) \in Values /\ TwoBytes(Encode(mm))
  BY <1>1, <1>2, <1>6 DEF TwoBytes, Pair, Values, Byte
<1>8. Decode(Encode(mm)) = (high * 256 + low) % 65536
  BY <1>6 DEF Decode, Pair
<1>9. high * 256 + low = mm
  BY <1>1, <1>2, <1>3
<1>10. mm % 65536 = mm
  BY SMT
<1> QED
  BY <1>7, <1>8, <1>9, <1>10

\* RoundTrip, for the distances of the server.
LEMMA DistanceRoundTrip ==
  ASSUME NEW mm \in Distances
  PROVE  /\ mm \in Nat
         /\ Encode(mm) \in Values
         /\ TwoBytes(Encode(mm))
         /\ Decode(Encode(mm)) = mm
  BY RoundTrip, OPCUAAssumption

\* Decoding any value gives a number.
LEMMA DecodeType ==
  ASSUME NEW v \in Values
  PROVE  Decode(v) \in Nat
<1> DEFINE word == v.high * 256 + v.low
<1>1. word \in Nat
  <2>1. v.high \in Nat /\ v.low \in Nat
    BY DEF Values, Byte
  <2> QED
    BY <2>1
<1>2. Decode(v) = word % 65536
  BY DEF Decode
<1> HIDE DEF word
<1>3. word % 65536 \in Nat
  BY <1>1, SMT
<1> QED
  BY <1>2, <1>3

LEMMA ValueTypes ==
  /\ Empty \in Values
  /\ \A kind \in {"array", "other"} : Useless(kind) \in Values /\ ~TwoBytes(Useless(kind))
  BY DEF Empty, Useless, Values, Byte, TwoBytes

\* The bound is a number.
LEMMA BoundIsNat == MaxUpdates \in Nat
  BY OPCUAAssumption

-----------------------------------------------------------------------------
\* Every initial state satisfies the inductive invariant.
LEMMA InitInv == Init => IInv
<1> SUFFICES ASSUME Init PROVE IInv
  OBVIOUS
<1>1. TypeOK
  BY DistanceRoundTrip, ValueTypes, BoundIsNat DEF Init, TypeOK, Returned, NoPoint
<1>2. ClientOwnedOnce /\ VariantCleared /\ FreshReading /\ BytesInTransit
  BY DEF Init, ClientOwnedOnce, VariantCleared, FreshReading, BytesInTransit, NoPoint
<1> QED
  BY <1>1, <1>2 DEF IInv

\* Every step keeps the types, and the client is deleted exactly when the pointer is
\* set to null.
LEMMA TypeStep == TypeOK /\ ClientOwnedOnce /\ [Next]_vars => TypeOK' /\ ClientOwnedOnce'
<1> SUFFICES ASSUME TypeOK, ClientOwnedOnce, [Next]_vars PROVE TypeOK' /\ ClientOwnedOnce'
  OBVIOUS
<1> USE BoundIsNat, ValueTypes
    DEF TypeOK, ClientOwnedOnce, Returned, NoPoint,
        vars, serverVars, clientVars, readVars, ReleaseClient
<1>1. CASE UpdateDistanceValue
  <2>1. distance' \in Distances /\ Encode(distance') \in Values
    BY <1>1, DistanceRoundTrip DEF UpdateDistanceValue
  <2>2. window' \subseteq Distances
    BY <1>1, <2>1 DEF UpdateDistanceValue, Held
  <2> QED
    BY <1>1, <2>1, <2>2 DEF UpdateDistanceValue
<1>2. CASE ConnectGood BY <1>2 DEF ConnectGood
<1>3. CASE ConnectFails BY <1>3 DEF ConnectFails
<1>4. CASE ConnectWithoutClient BY <1>4 DEF ConnectWithoutClient
<1>5. CASE Disconnect BY <1>5 DEF Disconnect
<1>6. CASE Destroy BY <1>6 DEF Destroy
<1>7. CASE GetNothing BY <1>7 DEF GetNothing
<1>8. CASE RequestRead BY <1>8 DEF RequestRead, Held
<1>9. CASE ReadBad BY <1>9 DEF ReadBad
<1>10. CASE ReadGood BY <1>10 DEF ReadGood
<1>11. CASE RejectValue BY <1>11 DEF RejectValue
<1>12. CASE AcceptValue
  <2>1. Decode(variant) \in Nat
    BY DecodeType
  <2> QED
    BY <1>12, <2>1 DEF AcceptValue
<1>13. CASE UNCHANGED vars BY <1>13
<1> QED
  BY <1>1, <1>2, <1>3, <1>4, <1>5, <1>6, <1>7, <1>8, <1>9, <1>10, <1>11, <1>12, <1>13
  DEF Next, Connect, GetDataWithTimestamp, Terminating

\* Every step keeps what the reading rests on: the bytes in transit are those of a
\* distance the node has held since the request, and they are cleared on every path.
LEMMA ReadStep == IInv /\ [Next]_vars => (VariantCleared /\ FreshReading /\ BytesInTransit)'
<1> SUFFICES ASSUME IInv, [Next]_vars PROVE (VariantCleared /\ FreshReading /\ BytesInTransit)'
  OBVIOUS
<1> USE BoundIsNat
    DEF IInv, TypeOK, VariantCleared, FreshReading, BytesInTransit, Returned, NoPoint,
        vars, serverVars, clientVars, readVars
<1>1. CASE UpdateDistanceValue
  <2>1. TwoBytes(node') => node' = Encode(distance')
    BY <1>1, ValueTypes DEF UpdateDistanceValue
  <2>2. window \subseteq window'
    BY <1>1 DEF UpdateDistanceValue
  <2>3. call = "reading" => Held(node', distance') \subseteq window'
    BY <1>1 DEF UpdateDistanceValue
  <2> QED
    BY <1>1, <2>1, <2>2, <2>3 DEF UpdateDistanceValue
<1>2. CASE ConnectGood BY <1>2 DEF ConnectGood
<1>3. CASE ConnectFails BY <1>3 DEF ConnectFails
<1>4. CASE ConnectWithoutClient BY <1>4 DEF ConnectWithoutClient
<1>5. CASE Disconnect BY <1>5 DEF Disconnect
<1>6. CASE Destroy BY <1>6 DEF Destroy
<1>7. CASE GetNothing BY <1>7 DEF GetNothing
<1>8. CASE RequestRead BY <1>8 DEF RequestRead
<1>9. CASE ReadBad BY <1>9 DEF ReadBad
<1>10. CASE ReadGood BY <1>10 DEF ReadGood, Held
<1>11. CASE RejectValue BY <1>11 DEF RejectValue
<1>12. CASE AcceptValue
  <2>1. PICK mm \in window : variant = Encode(mm)
    BY <1>12 DEF AcceptValue
  <2>2. Decode(variant) = mm
    BY <2>1, DistanceRoundTrip
  <2> QED
    BY <1>12, <2>1, <2>2 DEF AcceptValue
<1>13. CASE UNCHANGED vars BY <1>13
<1> QED
  BY <1>1, <1>2, <1>3, <1>4, <1>5, <1>6, <1>7, <1>8, <1>9, <1>10, <1>11, <1>12, <1>13
  DEF Next, Connect, GetDataWithTimestamp, Terminating

\* The inductive invariant holds in every reachable state.
THEOREM Invariance == Spec => []IInv
<1>1. IInv /\ [Next]_vars => IInv'
  BY TypeStep, ReadStep DEF IInv
<1> QED
  BY InitInv, <1>1, PTL DEF Spec

\* The client is deleted exactly once, on every sequence of calls.
THEOREM ClientReleased == Spec => []ClientOwnedOnce
  BY Invariance, PTL DEF IInv

\* No path leaks the value that was read.
THEOREM NoVariantLeak == Spec => []VariantCleared
  BY Invariance, PTL DEF IInv

\* A reading with a point is a distance the server held during the call.
THEOREM Fresh == Spec => []FreshReading
  BY Invariance, PTL DEF IInv
=============================================================================
