-------------------------- MODULE RecvBufferProofs --------------------------
(***************************************************************************)
(* Proofs about RecvBuffer for every header, buffer and packet size and    *)
(* every stream: the cursors stay in the buffer, data is moved only where  *)
(* memcpy is defined, and the packet loop implements Framing.              *)
(***************************************************************************)
EXTENDS RecvBuffer, TLAPS

(* The buffer is at least three buffer sizes long. *)
LEMMA CapacityBound == Capacity \in Nat /\ Capacity >= 3 * BufferSize
  <1>1. BufferSize \in Nat /\ BufferCount \in Nat /\ BufferCount >= 3
    BY SizesAssumption
  <1>2. BufferSize * BufferCount \in Nat
    BY <1>1
  <1>3. BufferSize * BufferCount >= 3 * BufferSize
    BY <1>1
  <1> QED BY <1>2, <1>3 DEF Capacity

(* The size field of the header at the read position is that of the packet *)
(* that follows the consumed ones, and it is below BufferSize.             *)
LEMMA HeaderIsNext ==
  ASSUME IndInv, DataSize >= HeaderSize
  PROVE  /\ received - DataSize \in 0 .. StreamBound
         /\ HeaderSizeField = sizeOf[received - DataSize]
         /\ HeaderSizeField \in 0 .. BufferSize - 1
  <1>1. /\ readPos \in Nat /\ writePos \in Nat /\ received \in 0 .. StreamBound
        /\ StreamBound \in Nat /\ HeaderSize \in Nat /\ HeaderSize > 0
    BY SizesAssumption DEF IndInv, TypeOK
  <1>2. DataSize \in Nat /\ DataSize > 0 /\ DataSize <= received
    BY <1>1 DEF DataSize, IndInv, TypeOK
  <1>3. buffer[readPos] = received - DataSize
    <2>1. 0 \in 0 .. StreamBound
      BY <1>1
    <2>2. buffer[readPos + 0] = received - DataSize + 0
      BY <2>1, <1>2 DEF IndInv, Contents
    <2> QED BY <2>2, <1>1, <1>2
  <1>4. received - DataSize \in 0 .. StreamBound
    BY <1>1, <1>2
  <1>5. HeaderSizeField = sizeOf[received - DataSize]
    BY <1>3, <1>4 DEF HeaderSizeField, Junk
  <1>6. sizeOf \in [0 .. StreamBound -> 0 .. BufferSize - 1]
    BY StreamsAssumption DEF IndInv, TypeOK
  <1> QED BY <1>4, <1>5, <1>6

(* What is left when the loop ends is less than a packet of full size. *)
LEMMA RestIsSmall ==
  ASSUME IndInv, Incomplete
  PROVE  DataSize < BufferSize
  <1>1. /\ DataSize \in Nat /\ BufferSize \in Nat /\ HeaderSize \in Nat
        /\ HeaderSize <= BufferSize
    BY SizesAssumption DEF DataSize, IndInv, TypeOK
  <1> QED BY <1>1, HeaderIsNext DEF Incomplete

(* A move has its source behind its destination. *)
LEMMA MoveStep == IndInv => MoveIsDefined
  <1> SUFFICES ASSUME IndInv, Incomplete, FreeSize < BufferSize
               PROVE  DataSize <= readPos
    BY DEF MoveIsDefined
  <1>1. /\ readPos \in Nat /\ writePos \in Nat /\ BufferSize \in Nat
        /\ readPos <= writePos /\ DataSize = writePos - readPos
        /\ FreeSize = Capacity - writePos
    BY SizesAssumption DEF IndInv, TypeOK, DataSize, FreeSize
  <1> QED BY <1>1, CapacityBound, RestIsSmall

(* Clean keeps the data between the cursors and makes room for a packet. *)
LEMMA CleanStep ==
  ASSUME IndInv, pc = "loop", Incomplete, Clean
  PROVE  /\ readPos' \in Nat /\ writePos' \in Nat
         /\ readPos' <= writePos' /\ writePos' <= Capacity
         /\ buffer' \in [0 .. Capacity - 1 -> Bytes]
         /\ DataSize' = DataSize /\ FreeSize' >= BufferSize
         /\ \A i \in 0 .. StreamBound : i < DataSize => buffer'[readPos' + i] = buffer[readPos + i]
  <1> USE CapacityBound
  <1>1. /\ readPos \in Nat /\ writePos \in Nat /\ BufferSize \in Nat
        /\ readPos <= writePos /\ writePos <= Capacity
        /\ buffer \in [0 .. Capacity - 1 -> Bytes]
    BY SizesAssumption DEF IndInv, TypeOK
  <1>2. DataSize < BufferSize /\ DataSize \in Nat
    BY <1>1, RestIsSmall DEF DataSize
  <1>3. CASE DataSize = 0 /\ readPos' = 0 /\ writePos' = 0 /\ buffer' = buffer
    BY <1>1, <1>3 DEF DataSize, FreeSize
  <1>4. CASE FreeSize >= BufferSize /\ UNCHANGED <<readPos, writePos, buffer>>
    BY <1>1, <1>4 DEF DataSize, FreeSize
  <1>5. CASE /\ DataSize # 0 /\ FreeSize < BufferSize
             /\ buffer' \in {Moved, IF DataSize <= readPos THEN Moved ELSE Garbled}
             /\ readPos' = 0 /\ writePos' = DataSize
    <2>1. buffer' = Moved
      BY <1>5, MoveStep DEF MoveIsDefined
    <2>2. /\ DataSize' = DataSize /\ FreeSize' = Capacity - DataSize
          /\ FreeSize' >= BufferSize
      BY <1>1, <1>2, <1>5 DEF DataSize, FreeSize
    <2>3. buffer' \in [0 .. Capacity - 1 -> Bytes]
      <3>1. \A p \in 0 .. Capacity - 1 : p < DataSize => readPos + p \in 0 .. Capacity - 1
        BY <1>1 DEF DataSize
      <3> QED BY <3>1, <2>1, <1>1 DEF Moved
    <2>4. ASSUME NEW i \in 0 .. StreamBound, i < DataSize
          PROVE  buffer'[readPos' + i] = buffer[readPos + i]
      <3>1. i \in 0 .. Capacity - 1 /\ readPos' + i = i
        BY <2>4, <1>1, <1>2, <1>5, SizesAssumption
      <3> QED BY <3>1, <2>1, <2>4 DEF Moved
    <2> QED BY <2>2, <2>3, <2>4, <1>1, <1>2, <1>5
  <1> QED BY <1>3, <1>4, <1>5 DEF Clean

(* An empty buffer and an outstanding receive. *)
LEMMA InitInv == Init => IndInv
  <1> SUFFICES ASSUME Init PROVE IndInv
    OBVIOUS
  <1> USE CapacityBound
  <1>1. DataSize = 0 /\ FreeSize = Capacity
    BY DEF Init, DataSize, FreeSize
  <1>2. TypeOK
    BY SizesAssumption DEF Init, TypeOK, Bytes
  <1>3. Contents
    BY <1>1 DEF Contents
  <1>4. RoomToReceive /\ NothingLeft
    BY <1>1, SizesAssumption DEF RoomToReceive, NothingLeft
  <1> QED BY <1>1, <1>2, <1>3, <1>4, SizesAssumption DEF Init, IndInv

(* Bytes that arrive behind the data leave it as it was. *)
LEMMA ArriveStep ==
  ASSUME IndInv, NEW n \in 0 .. StreamBound, ProcessRecv(n)
  PROVE  IndInv' /\ DataSize' = DataSize + n
  <1> USE CapacityBound
  <1>1. /\ readPos \in Nat /\ writePos \in Nat /\ n \in Nat
        /\ readPos <= writePos /\ writePos <= Capacity
        /\ received \in 0 .. StreamBound /\ StreamBound \in Nat
        /\ buffer \in [0 .. Capacity - 1 -> Bytes]
        /\ DataSize = writePos - readPos /\ FreeSize = Capacity - writePos
        /\ DataSize <= received
    BY SizesAssumption DEF IndInv, TypeOK, DataSize, FreeSize
  <1>2. /\ readPos' = readPos /\ writePos' = writePos + n /\ received' = received + n
        /\ writePos + n <= Capacity /\ received + n <= StreamBound
        /\ DataSize' = DataSize + n /\ pc' \in {"loop", "closed"}
    BY <1>1 DEF ProcessRecv, Close, DataSize
  <1>3. buffer' = [p \in 0 .. Capacity - 1 |->
                     IF p \in writePos .. writePos + n - 1 THEN received + (p - writePos)
                                                           ELSE buffer[p]]
    BY DEF ProcessRecv
  <1>4. buffer' \in [0 .. Capacity - 1 -> Bytes]
    <2>1. \A p \in writePos .. writePos + n - 1 : received + (p - writePos) \in Bytes
      BY <1>1, <1>2 DEF Bytes
    <2> QED BY <2>1, <1>1, <1>3, ZenonT(30)
  <1>5. TypeOK'
    <2>1. sizeOf' \in Streams /\ connected' \in BOOLEAN
      BY ZenonT(30) DEF ProcessRecv, Close, IndInv, TypeOK
    <2> QED BY <2>1, <1>1, <1>2, <1>4 DEF TypeOK
  <1>6. Contents'
    <2> SUFFICES ASSUME NEW i \in 0 .. StreamBound, i < DataSize + n
                 PROVE  buffer'[readPos + i] = received + n - (DataSize + n) + i
      BY <1>1, <1>2 DEF Contents
    <2>1. readPos + i \in 0 .. Capacity - 1
      BY <1>1, <1>2
    <2>2. CASE i < DataSize
      <3>1. buffer[readPos + i] = received - DataSize + i
        BY <2>2 DEF IndInv, Contents
      <3>2. readPos + i \notin writePos .. writePos + n - 1
        BY <2>2, <1>1
      <3> QED BY <3>1, <3>2, <2>1, <1>1, <1>3
    <2>3. CASE i >= DataSize
      <3>1. readPos + i \in writePos .. writePos + n - 1
        BY <2>3, <1>1
      <3>2. buffer'[readPos + i] = received + (readPos + i - writePos)
        BY <3>1, <2>1, <1>1, <1>3
      <3> QED BY <3>2, <1>1
    <2> QED BY <2>2, <2>3, <1>1
  <1>7. (RoomToReceive /\ NothingLeft)'
    BY <1>2 DEF RoomToReceive, NothingLeft
  <1> QED BY <1>1, <1>2, <1>5, <1>6, <1>7 DEF IndInv

(* Stepping over a packet keeps what follows it in place. *)
LEMMA OnRecvStep ==
  ASSUME IndInv, OnRecv
  PROVE  IndInv' /\ DataSize' = DataSize - HeaderSizeField
  <1> USE CapacityBound
  <1>1. /\ readPos \in Nat /\ writePos \in Nat
        /\ readPos <= writePos /\ writePos <= Capacity
        /\ received \in 0 .. StreamBound /\ StreamBound \in Nat
        /\ DataSize = writePos - readPos /\ DataSize <= received
    BY SizesAssumption DEF IndInv, TypeOK, DataSize
  <1>2. HeaderSizeField \in Nat /\ HeaderSizeField <= DataSize /\ DataSize >= HeaderSize
    BY HeaderIsNext, SizesAssumption DEF OnRecv, Whole
  <1>3. /\ readPos' = readPos + HeaderSizeField /\ writePos' = writePos
        /\ received' = received /\ buffer' = buffer /\ pc' = "loop"
        /\ DataSize' = DataSize - HeaderSizeField
    BY <1>1, <1>2 DEF OnRecv, DataSize
  <1>4. TypeOK'
    BY <1>1, <1>2, <1>3 DEF TypeOK, OnRecv, IndInv
  <1>5. Contents'
    <2> SUFFICES ASSUME NEW i \in 0 .. StreamBound, i < DataSize - HeaderSizeField
                 PROVE  buffer[readPos + HeaderSizeField + i]
                          = received - (DataSize - HeaderSizeField) + i
      BY <1>3 DEF Contents
    <2>1. HeaderSizeField + i \in 0 .. StreamBound /\ HeaderSizeField + i < DataSize
      BY <1>1, <1>2
    <2>2. buffer[readPos + (HeaderSizeField + i)] = received - DataSize + (HeaderSizeField + i)
      BY <2>1 DEF IndInv, Contents
    <2> QED BY <2>2, <1>1, <1>2
  <1>6. (RoomToReceive /\ NothingLeft)'
    BY <1>3 DEF RoomToReceive, NothingLeft
  <1> QED BY <1>1, <1>2, <1>3, <1>4, <1>5, <1>6 DEF IndInv

(* Clean and the next receive. *)
LEMMA RegisterRecvStep ==
  ASSUME IndInv, RegisterRecv
  PROVE  IndInv' /\ DataSize' = DataSize
  <1> USE CapacityBound
  <1>1. /\ readPos \in Nat /\ writePos \in Nat /\ readPos <= writePos
        /\ received \in 0 .. StreamBound /\ StreamBound \in Nat
        /\ HeaderSize \in Nat /\ HeaderSize > 0 /\ BufferSize \in Nat
        /\ DataSize \in Nat /\ DataSize <= received
    BY SizesAssumption DEF IndInv, TypeOK, DataSize
  <1>2. /\ readPos' \in Nat /\ writePos' \in Nat
        /\ readPos' <= writePos' /\ writePos' <= Capacity
        /\ buffer' \in [0 .. Capacity - 1 -> Bytes]
        /\ DataSize' = DataSize /\ FreeSize' >= BufferSize
        /\ \A i \in 0 .. StreamBound : i < DataSize => buffer'[readPos' + i] = buffer[readPos + i]
    BY CleanStep DEF RegisterRecv
  <1>3. /\ sizeOf' = sizeOf /\ received' = received /\ connected' = connected
        /\ pc' \in {"recv", "closed"} /\ Incomplete
    BY DEF RegisterRecv
  <1>4. TypeOK'
    BY <1>2, <1>3 DEF TypeOK, IndInv
  <1>5. Contents'
    BY <1>1, <1>2, <1>3, ZenonT(30) DEF Contents, IndInv
  <1>6. NothingLeft'
    <2>1. CASE DataSize < HeaderSize
      BY <2>1, <1>2 DEF NothingLeft, Incomplete
    <2>2. CASE DataSize >= HeaderSize
      <3>1. 0 \in 0 .. StreamBound /\ 0 < DataSize
        BY <2>2, <1>1
      <3>2. buffer'[readPos' + 0] = buffer[readPos + 0]
        BY <3>1, <1>2, ZenonT(30)
      <3>3. buffer'[readPos'] = buffer[readPos]
        <4>1. readPos' + 0 = readPos' /\ readPos + 0 = readPos
          <5>1. readPos \in Nat /\ readPos' \in Nat
            BY <1>1, <1>2
          <5>2. \A k \in Nat : k + 0 = k
            OBVIOUS
          <5> QED BY <5>1, <5>2, Zenon
        <4> QED BY <3>2, <4>1, Zenon
      <3>4. HeaderSizeField' = HeaderSizeField
        BY <3>3, <1>3 DEF HeaderSizeField
      <3> QED BY <3>4, <2>2, <1>1, <1>2, <1>3 DEF NothingLeft, Incomplete
    <2> QED BY <2>1, <2>2, <1>1
  <1>7. RoomToReceive' /\ DataSize' < BufferSize
    BY <1>2, <1>3, RestIsSmall DEF RoomToReceive
  <1> QED BY <1>1, <1>2, <1>3, <1>4, <1>5, <1>6, <1>7 DEF IndInv

(* Every step of the receive side keeps the inductive invariant. *)
LEMMA Step == IndInv /\ [Next]_vars => IndInv'
  <1> SUFFICES ASSUME IndInv, [Next]_vars PROVE IndInv'
    OBVIOUS
  <1>1. ASSUME NEW n \in 0 .. StreamBound, ProcessRecv(n) PROVE IndInv'
    BY <1>1, ArriveStep
  <1>2. CASE OnRecv
    BY <1>2, OnRecvStep
  <1>3. CASE OnRecvFails \/ InvalidSize
    BY <1>3, ZenonT(30) DEF OnRecvFails, InvalidSize, Close, IndInv, TypeOK, Contents, RoomToReceive,
                NothingLeft, DataSize
  <1>4. CASE RegisterRecv
    BY <1>4, RegisterRecvStep
  <1>5. CASE Disconnect
    BY <1>5, ZenonT(30) DEF Disconnect, IndInv, TypeOK, Contents, RoomToReceive, NothingLeft,
                DataSize, FreeSize, Incomplete, HeaderSizeField
  <1>6. CASE UNCHANGED vars
    BY <1>6 DEF vars, IndInv, TypeOK, Contents, RoomToReceive, NothingLeft,
                DataSize, FreeSize, Incomplete, HeaderSizeField
  <1> QED BY <1>1, <1>2, <1>3, <1>4, <1>5, <1>6 DEF Next

(* The inductive invariant holds in every reachable state. *)
THEOREM Invariance == Spec => []IndInv
  <1> QED BY InitInv, Step, PTL DEF Spec

(* The cursors of the receive buffer never leave it. *)
THEOREM TypeCorrect == Spec => []TypeOK
  <1>1. IndInv => TypeOK
    BY DEF IndInv
  <1> QED BY <1>1, Invariance, PTL

(* The memcpy of RecvBuffer::Clean is never undefined, if the capacity is  *)
(* three times the bound of a packet or more.                              *)
THEOREM MovesAreDefined == Spec => []MoveIsDefined
  <1> QED BY MoveStep, Invariance, PTL

(* A receive is never posted with less room than the largest packet. *)
THEOREM RoomForAnyPacket == Spec => []RoomToReceive
  <1>1. IndInv => RoomToReceive
    BY DEF IndInv
  <1> QED BY <1>1, Invariance, PTL

(* Session::ProcessRecv with RecvBuffer implements framing: OnRecv is      *)
(* given the packets of the stream, whole, in order and once.              *)
THEOREM ImplementsFraming == Spec => FramesPackets
  <1>1. Init => Frames!Init
    BY DEF Init, Frames!Init, DataSize
  <1>2. ASSUME IndInv, [Next]_vars PROVE [Frames!Next]_Frames!vars
    <2> USE DEF Frames!vars
    <2>1. /\ received \in 0 .. StreamBound /\ StreamBound \in Nat /\ HeaderSize \in Nat
          /\ DataSize \in Nat /\ DataSize <= received
      BY <1>2, SizesAssumption DEF IndInv, TypeOK, DataSize
    <2>2. ASSUME NEW n \in 0 .. StreamBound, ProcessRecv(n), n # 0
          PROVE  Frames!Next
      <3>1. received' - DataSize' = received - DataSize
        BY <1>2, <2>1, <2>2, ArriveStep DEF ProcessRecv
      <3>2. Frames!Arrive(n)
        BY <3>1, <2>2 DEF ProcessRecv, Frames!Arrive
      <3>3. n \in 1 .. StreamBound
        BY <2>1, <2>2
      <3> QED BY <3>2, <3>3 DEF Frames!Next
    <2>3. ASSUME ProcessRecv(0) PROVE Frames!Next
      <3>1. received' - DataSize' = received - DataSize
        BY <1>2, <2>1, <2>3, ArriveStep DEF ProcessRecv
      <3>2. Frames!Close
        BY <3>1, <2>1, <2>3 DEF ProcessRecv, Close, Frames!Close
      <3> QED BY <3>2 DEF Frames!Next
    <2>4. ASSUME Whole
          PROVE  /\ HeaderSizeField = sizeOf[received - DataSize] /\ HeaderSizeField \in Nat
                 /\ HeaderSizeField <= DataSize /\ HeaderSizeField >= HeaderSize
                 /\ DataSize >= HeaderSize
                 /\ [i \in 0 .. HeaderSizeField - 1 |-> buffer[readPos + i]]
                      = [i \in 0 .. HeaderSizeField - 1 |-> received - DataSize + i]
      <3>1. /\ HeaderSizeField = sizeOf[received - DataSize] /\ HeaderSizeField \in Nat
            /\ HeaderSizeField <= DataSize /\ HeaderSizeField >= HeaderSize
            /\ DataSize >= HeaderSize
        BY <1>2, <2>1, <2>4, HeaderIsNext DEF Whole
      <3>2. \A i \in 0 .. HeaderSizeField - 1 : buffer[readPos + i] = received - DataSize + i
        BY <3>1, <1>2, <2>1 DEF IndInv, Contents
      <3> QED BY <3>1, <3>2
    <2>5. CASE OnRecv
      <3>1. received' = received /\ DataSize' = DataSize - HeaderSizeField
        BY <1>2, <2>5, OnRecvStep DEF OnRecv
      <3>2. received' - DataSize' = received - DataSize + HeaderSizeField
        BY <3>1, <2>1, <2>4, <2>5 DEF OnRecv
      <3>3. Frames!HandOver
        BY <3>1, <3>2, <2>1, <2>4, <2>5 DEF OnRecv, Frames!HandOver
      <3> QED BY <3>3 DEF Frames!Next
    <2>6. CASE OnRecvFails
      <3>1. received' = received /\ DataSize' = DataSize
        BY <2>6 DEF OnRecvFails, DataSize
      <3>2. Frames!HandOver
        BY <3>1, <2>1, <2>4, <2>6 DEF OnRecvFails, Close, Frames!HandOver
      <3> QED BY <3>2 DEF Frames!Next
    <2>7. CASE InvalidSize
      <3>1. Frames!Close
        BY <2>7 DEF InvalidSize, Close, DataSize, Frames!Close
      <3> QED BY <3>1 DEF Frames!Next
    <2>8. CASE RegisterRecv
      <3>1. received' = received /\ DataSize' = DataSize
        BY <1>2, <2>8, RegisterRecvStep DEF RegisterRecv
      <3>2. CASE connected
        BY <3>1, <3>2, <2>8 DEF RegisterRecv
      <3>3. CASE ~connected
        BY <3>1, <3>3, <2>8 DEF RegisterRecv, Frames!Close, Frames!Next
      <3> QED BY <3>2, <3>3
    <2>9. CASE Disconnect \/ UNCHANGED vars
      BY <2>9 DEF Disconnect, vars, DataSize
    <2> QED BY <1>2, <2>2, <2>3, <2>5, <2>6, <2>7, <2>8, <2>9 DEF Next
  <1> QED BY <1>1, <1>2, Invariance, PTL DEF Spec, FramesPackets, Frames!Spec
=============================================================================
