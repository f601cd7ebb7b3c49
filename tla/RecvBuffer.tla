----------------------------- MODULE RecvBuffer -----------------------------
(***************************************************************************)
(* The receive side of a session: RecvBuffer (its cursors and Clean) and   *)
(* the packet loop of Session::ProcessRecv that uses it.                   *)
(*                                                                         *)
(* One receive is outstanding at a time, so one thread at a time is in     *)
(* this code; only m_connected is changed by others.  A byte is its        *)
(* position in the stream of the peer, as in module Framing: the buffer    *)
(* holds positions, and reading a header at the wrong place, or from bytes *)
(* that were moved wrongly, gives a wrong size.                            *)
(***************************************************************************)
EXTENDS Integers

CONSTANTS
  HeaderSize,   \* sizeof(PacketHeader)
  BufferSize,   \* Session::BUFFER_SIZE, above every value of m_dataSize
  BufferCount,  \* BUFFER_COUNT
  Streams,      \* what the peer may send: sizeOf of module Framing
  StreamBound   \* bound of the model: bytes the peer sends

ASSUME SizesAssumption ==
  /\ HeaderSize \in Nat \ {0} /\ BufferSize \in Nat \ {0} /\ StreamBound \in Nat
  /\ BufferCount \in Nat /\ BufferCount >= 3 /\ HeaderSize <= BufferSize

\* m_dataSize is an unsigned short and BUFFER_SIZE is 0x10000.
ASSUME StreamsAssumption == Streams \subseteq [0 .. StreamBound -> 0 .. BufferSize - 1]

\* m_capacity.
Capacity == BufferSize * BufferCount

Junk == -1      \* no byte of the stream
Bytes == 0 .. StreamBound \cup {Junk}

VARIABLES
  sizeOf,     \* the stream
  received,   \* bytes of it that the system has put into the buffer
  readPos,    \* m_readPos
  writePos,   \* m_writePos
  buffer,     \* m_buffer
  packet,     \* history: the packet last given to OnRecv
  connected,  \* m_connected
  pc          \* "recv": WSARecv is outstanding; "loop": in ProcessRecv; "closed"

vars == <<sizeOf, received, readPos, writePos, buffer, packet, connected, pc>>

DataSize == writePos - readPos
FreeSize == Capacity - writePos

Init ==
  /\ sizeOf \in Streams
  /\ received = 0
  /\ readPos = 0 /\ writePos = 0
  /\ buffer = [p \in 0 .. Capacity - 1 |-> Junk]
  /\ packet = [i \in {} |-> 0]
  /\ connected = TRUE
  /\ pc = "recv"

-----------------------------------------------------------------------------
Close ==
  /\ connected' = FALSE
  /\ pc' = "closed"

(* The system fills the WSABUF, which starts at WritePos and is FreeSize   *)
(* long, with the next n bytes; OnWrite accounts for them.  No byte means  *)
(* that the peer has closed the connection, or that the WSABUF was empty.  *)
ProcessRecv(n) ==
  /\ pc = "recv"
  /\ n <= FreeSize /\ received + n <= StreamBound
  /\ received' = received + n
  /\ buffer' = [p \in 0 .. Capacity - 1 |->
                  IF p \in writePos .. writePos + n - 1 THEN received + (p - writePos)
                                                        ELSE buffer[p]]
  /\ writePos' = writePos + n
  /\ IF n = 0 THEN Close ELSE pc' = "loop" /\ UNCHANGED connected
  /\ UNCHANGED <<sizeOf, readPos, packet>>

\* The m_dataSize field of the header at ReadPos; junk passes for a packet.
HeaderSizeField ==
  IF buffer[readPos] = Junk THEN BufferSize - 1 ELSE sizeOf[buffer[readPos]]

\* Mutant: off by one in the comparison of the sizes.
WholeStrict ==
  /\ DataSize >= HeaderSize
  /\ HeaderSizeField >= HeaderSize
  /\ DataSize > HeaderSizeField

Whole ==
  /\ DataSize >= HeaderSize
  /\ HeaderSizeField >= HeaderSize
  /\ DataSize >= HeaderSizeField

\* OnRecv accepts the packet, OnRead steps over it.
OnRecv ==
  /\ pc = "loop" /\ Whole
  /\ packet' = [i \in 0 .. HeaderSizeField - 1 |-> buffer[readPos + i]]
  /\ readPos' = readPos + HeaderSizeField
  /\ UNCHANGED <<sizeOf, received, writePos, buffer, connected, pc>>

\* OnRecv returns false.
OnRecvFails ==
  /\ pc = "loop" /\ Whole
  /\ packet' = [i \in 0 .. HeaderSizeField - 1 |-> buffer[readPos + i]]
  /\ Close
  /\ UNCHANGED <<sizeOf, received, readPos, writePos, buffer>>

\* The size in the header is smaller than a header.
InvalidSize ==
  /\ pc = "loop" /\ DataSize >= HeaderSize /\ HeaderSizeField < HeaderSize
  /\ Close
  /\ UNCHANGED <<sizeOf, received, readPos, writePos, buffer, packet>>

\* memcpy of the data to the front; what overlapping bytes become is undefined.
Moved ==
  [p \in 0 .. Capacity - 1 |-> IF p < DataSize THEN buffer[readPos + p] ELSE buffer[p]]
Garbled ==
  [p \in 0 .. Capacity - 1 |-> IF p < DataSize /\ p >= readPos THEN Junk ELSE Moved[p]]

\* Mutant: the cursors are reset whether or not there is data.
CleanAlways ==
  readPos' = 0 /\ writePos' = 0 /\ UNCHANGED buffer

\* Mutant: the data is moved whenever a packet is incomplete.
CleanEager ==
  \/ /\ DataSize = 0
     /\ readPos' = 0 /\ writePos' = 0
     /\ UNCHANGED buffer
  \/ /\ DataSize # 0
     /\ buffer' \in {Moved, IF DataSize <= readPos THEN Moved ELSE Garbled}
     /\ readPos' = 0 /\ writePos' = DataSize

\* RecvBuffer::Clean.
Clean ==
  \/ /\ DataSize = 0
     /\ readPos' = 0 /\ writePos' = 0
     /\ UNCHANGED buffer
  \/ /\ DataSize # 0 /\ FreeSize >= BufferSize
     /\ UNCHANGED <<readPos, writePos, buffer>>
  \/ /\ DataSize # 0 /\ FreeSize < BufferSize
     /\ buffer' \in {Moved, IF DataSize <= readPos THEN Moved ELSE Garbled}
     /\ readPos' = 0 /\ writePos' = DataSize

\* The rest is less than a packet.
Incomplete ==
  \/ DataSize < HeaderSize
  \/ /\ DataSize >= HeaderSize
     /\ HeaderSizeField >= HeaderSize /\ DataSize < HeaderSizeField

\* The loop ends: Clean, then RegisterRecv.
RegisterRecv ==
  /\ pc = "loop" /\ Incomplete
  /\ Clean
  /\ pc' = IF connected THEN "recv" ELSE "closed"
  /\ UNCHANGED <<sizeOf, received, packet, connected>>

\* Another thread disconnects the session; the loop goes on.
Disconnect ==
  /\ connected
  /\ connected' = FALSE
  /\ UNCHANGED <<sizeOf, received, readPos, writePos, buffer, packet, pc>>

Next ==
  \/ \E n \in 0 .. StreamBound : ProcessRecv(n)
  \/ OnRecv \/ OnRecvFails \/ InvalidSize \/ RegisterRecv \/ Disconnect

Spec == Init /\ [][Next]_vars

(* The thread in ProcessRecv goes on, and what the peer has sent arrives.  *)
FairSpec ==
  /\ Spec
  /\ WF_vars(OnRecv \/ OnRecvFails \/ InvalidSize \/ RegisterRecv)
  /\ WF_vars(\E n \in 1 .. StreamBound : ProcessRecv(n))

-----------------------------------------------------------------------------
(* The cursors stay inside the buffer, and every variable in its range. *)
TypeOK ==
  /\ sizeOf \in Streams
  /\ received \in 0 .. StreamBound
  /\ readPos \in Nat /\ writePos \in Nat
  /\ readPos <= writePos /\ writePos <= Capacity
  /\ buffer \in [0 .. Capacity - 1 -> Bytes]
  /\ connected \in BOOLEAN
  /\ pc \in {"recv", "loop", "closed"}

(* The memcpy of Clean is defined: when the data is moved to the front of  *)
(* the buffer, source and destination do not overlap.                      *)
MoveIsDefined ==
  pc = "loop" /\ Incomplete /\ DataSize # 0 /\ FreeSize < BufferSize => DataSize <= readPos

(* Whenever a receive is outstanding there is room for a packet of any     *)
(* size, so the buffer never fills up and an empty WSABUF is never taken   *)
(* for a connection closed by the peer.                                    *)
RoomToReceive == pc = "recv" => FreeSize >= BufferSize

(* What lies between the cursors is the part of the stream that follows    *)
(* the packets consumed so far.                                            *)
Contents ==
  \A i \in 0 .. StreamBound : i < DataSize => buffer[readPos + i] = received - DataSize + i

(* A receive is posted only after every complete packet was handed over. *)
NothingLeft == pc = "recv" => DataSize = 0 \/ Incomplete

(* The inductive invariant behind the theorems of RecvBufferProofs: after  *)
(* Clean less than a packet is left.                                       *)
IndInv ==
  /\ TypeOK /\ Contents /\ RoomToReceive /\ NothingLeft
  /\ DataSize <= received
  /\ pc = "recv" => DataSize < BufferSize

(* OnRecv is given whole packets, in order, each once, however the stream  *)
(* was cut into pieces and whenever the data was moved.                    *)
Frames == INSTANCE Framing WITH
            consumed <- received - DataSize,
            open <- pc # "closed"
FramesPackets == Frames!Spec

(* A packet that has been sent whole is handed over in the end, unless the *)
(* session is disconnected or the stream has a packet without a size.      *)
AllArrive == <>(~connected \/ (received = StreamBound /\ pc = "recv"))
=============================================================================
