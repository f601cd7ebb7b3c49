------------------------------ MODULE SendPool ------------------------------
(***************************************************************************)
(* The pool of packet buffers (ServerCore/SendPool.cpp, Sender.cpp,         *)
(* Sender.h).  N chunks of ChunkSize bytes are handed out in runs found by  *)
(* first fit.  A run belongs to the Sender with the index of its first      *)
(* chunk; a shared_ptr counts its users (the caller, the queues and the     *)
(* send events of the sessions it is sent to), and the last user to drop it *)
(* runs Sender::DeAlloc.                                                    *)
(*                                                                         *)
(* A step is an access to shared state: the lock is held over the search,   *)
(* one flag a step, and the fields of a Sender are reset before and outside *)
(* the lock under which its flags are cleared.  Integers that the code      *)
(* keeps in an unsigned short are kept modulo Width.                        *)
(***************************************************************************)
EXTENDS Integers, FiniteSets

CONSTANTS
    Threads,
    N,          \* Sender::Init(_sendCount): the number of chunks
    ChunkSize,  \* sizeof(DataChunk)
    Width,      \* 2^16: the values of an unsigned short
    Sizes,      \* the sizes of the packets that are sent
    None,
    RefBound    \* bound: users of one Sender at a time

ASSUME NAssumption == N \in Nat \ {0}
ASSUME SizeAssumption ==
    /\ ChunkSize \in Nat \ {0}
    /\ Width \in Nat \ {0}
    /\ Sizes \subseteq 1..Width - 1
ASSUME RefAssumption == RefBound \in Nat \ {0}
ASSUME NoneAssumption == None \notin Threads

VARIABLES
    useFlag,    \* m_useFlag
    useSize,    \* m_useSize
    sender,     \* m_senderList: m_tempChunk (set or null), m_index, m_count
    refs,       \* the use count of the shared_ptr to each Sender
    need,       \* the size of the packet in the run of each Sender
    holder,     \* the thread in m_locks[0]
    pc,
    size,       \* _sendSize, of the thread that allocates
    scan,       \* maxCount, allocIndex and flagIndex of GetAllocIndex
    index, count, \* locals of Alloc and DeAlloc
    crash       \* how the program ended

vars == <<useFlag, useSize, sender, refs, need, holder, pc, size, scan, index, count, crash>>

Index == 0..N - 1
NoSender == [chunk |-> FALSE, index |-> -1, count |-> 0]
NoScan == [maxCount |-> 0, allocIndex |-> -1, flagIndex |-> 0]

Init ==
    /\ useFlag = [i \in Index |-> FALSE]
    /\ useSize = 0
    /\ sender = [i \in Index |-> NoSender]
    /\ refs = [i \in Index |-> 0]
    /\ need = [i \in Index |-> 0]
    /\ holder = None
    /\ pc = [t \in Threads |-> "idle"]
    /\ size = [t \in Threads |-> 0]
    /\ scan = NoScan
    /\ index = [t \in Threads |-> 0]
    /\ count = [t \in Threads |-> 0]
    /\ crash = "none"

Goto(t, l) == pc' = [pc EXCEPT ![t] = l]

(* the call returns and its locals are gone *)
Leave(t) ==
    /\ Goto(t, "idle")
    /\ size' = [size EXCEPT ![t] = 0]
    /\ index' = [index EXCEPT ![t] = 0]
    /\ count' = [count EXCEPT ![t] = 0]

ChunksFor(s) == (s \div ChunkSize) + 1

-----------------------------------------------------------------------------
(* SendPool::Alloc up to the lock *)
Alloc(t, s) ==
    /\ pc[t] = "idle"
    /\ holder = None
    /\ holder' = t
    /\ size' = [size EXCEPT ![t] = s]
    /\ count' = [count EXCEPT ![t] = ChunksFor(s)]
    /\ Goto(t, "scan")
    /\ UNCHANGED <<useFlag, useSize, sender, refs, need, scan, index, crash>>

(* mutant of ScanFlag: a used flag does not start the run again *)
ScanFlagOver(t) ==
    LET free == ~useFlag[scan.flagIndex]
    IN  /\ pc[t] = "scan" /\ scan.flagIndex < N
        /\ scan' = [maxCount |-> IF free THEN scan.maxCount + 1 ELSE scan.maxCount,
                    allocIndex |-> IF free /\ scan.allocIndex = -1 THEN scan.flagIndex
                                   ELSE scan.allocIndex,
                    flagIndex |-> scan.flagIndex + 1]
        /\ Goto(t, IF scan'.maxCount = count[t] THEN "take" ELSE "scan")
        /\ UNCHANGED <<useFlag, useSize, sender, refs, need, holder, size, index, count, crash>>

(* One round of the loop in GetAllocIndex: a free flag makes the run longer *)
(* or begins it, a used one ends it; the loop is left when the run is long  *)
(* enough.  (flagIndex is not read after the loop.)                         *)
ScanFlag(t) ==
    LET free == ~useFlag[scan.flagIndex]
    IN  /\ pc[t] = "scan"
        /\ scan.flagIndex < N
        /\ scan' = [maxCount |-> IF free THEN scan.maxCount + 1 ELSE 0,
                    allocIndex |-> IF ~free THEN -1
                                   ELSE IF scan.allocIndex = -1 THEN scan.flagIndex
                                   ELSE scan.allocIndex,
                    flagIndex |-> scan.flagIndex + 1]
        /\ Goto(t, IF scan'.maxCount = count[t] THEN "take" ELSE "scan")
        /\ UNCHANGED <<useFlag, useSize, sender, refs, need, holder, size, index, count, crash>>

(* the loop ends with the last flag *)
ScanEnd(t) ==
    /\ pc[t] = "scan"
    /\ scan.flagIndex = N
    /\ Goto(t, "take")
    /\ UNCHANGED <<useFlag, useSize, sender, refs, need, holder, size, scan, index, count, crash>>

(* mutant of AllocIndex: a run at the end of the pool is taken as it is *)
AllocIndexShort(t) == scan.allocIndex

(* what GetAllocIndex returns *)
AllocIndex(t) ==
    IF scan.allocIndex # -1 /\ scan.maxCount # count[t] THEN -1 ELSE scan.allocIndex

(* The rest of Alloc, with SetSendDataChunk and its assertion, and Alloc<T>, *)
(* which writes the size of the packet into the run.                        *)
Take(t) ==
    LET i == AllocIndex(t)
    IN  /\ pc[t] = "take"
        /\ i # -1
        /\ useFlag' = [k \in Index |-> useFlag[k] \/ k \in i..(i + count[t] - 1)]
        /\ useSize' = (useSize + count[t] * ChunkSize) % Width
        /\ sender' = [sender EXCEPT ![i] = [chunk |-> TRUE, index |-> i, count |-> count[t]]]
        /\ crash' = IF sender[i].chunk THEN "assert" ELSE crash
        /\ refs' = [refs EXCEPT ![i] = 1]
        /\ need' = [need EXCEPT ![i] = size[t]]
        /\ holder' = None
        /\ scan' = NoScan
        /\ Leave(t)

(* There is no run: Alloc returns null, and its callers (GetSenderAndPacket, *)
(* HandleTestPacket) go through the pointer without a test.                 *)
Exhausted(t) ==
    /\ pc[t] = "take"
    /\ AllocIndex(t) = -1
    /\ holder' = None
    /\ scan' = NoScan
    /\ crash' = "null"
    /\ Leave(t)
    /\ UNCHANGED <<useFlag, useSize, sender, refs, need>>
-----------------------------------------------------------------------------
(* A session queues the Sender, or its send event takes it up *)
CopyRef(i) ==
    /\ refs[i] \in 1..RefBound - 1
    /\ refs' = [refs EXCEPT ![i] = @ + 1]
    /\ UNCHANGED <<useFlag, useSize, sender, need, holder, pc, size, scan, index, count, crash>>

(* mutant of DropRef: the session that has sent the packet deletes it, *)
(* whoever still uses it                                                *)
DropRefEarly(t, i) ==
    /\ pc[t] = "idle" /\ refs[i] > 0
    /\ refs' = [refs EXCEPT ![i] = @ - 1]
    /\ need' = [need EXCEPT ![i] = IF refs[i] = 1 THEN 0 ELSE @]
    /\ index' = [index EXCEPT ![t] = i]
    /\ Goto(t, "dealloc")
    /\ UNCHANGED <<useFlag, useSize, sender, holder, size, scan, count, crash>>

(* A user lets go; the last one runs the deleter *)
DropRef(t, i) ==
    /\ pc[t] = "idle"
    /\ refs[i] > 0
    /\ refs' = [refs EXCEPT ![i] = @ - 1]
    /\ need' = [need EXCEPT ![i] = IF refs[i] = 1 THEN 0 ELSE @]
    /\ index' = [index EXCEPT ![t] = IF refs[i] = 1 THEN i ELSE @]
    /\ Goto(t, IF refs[i] = 1 THEN "dealloc" ELSE "idle")
    /\ UNCHANGED <<useFlag, useSize, sender, holder, size, scan, count, crash>>

(* Sender::DeAlloc up to the call of the pool: early return, assertions,    *)
(* and the fields are reset.                                                *)
SenderDeAlloc(t) ==
    LET s == sender[index[t]]
    IN  /\ pc[t] = "dealloc"
        /\ IF s.chunk
           THEN /\ crash' = IF s.index < 0 \/ s.count <= 0 THEN "assert" ELSE crash
                /\ count' = [count EXCEPT ![t] = s.count]
                /\ sender' = [sender EXCEPT ![index[t]] = NoSender]
                /\ Goto(t, "free")
                /\ UNCHANGED <<size, index>>
           ELSE /\ Leave(t)
                /\ UNCHANGED <<crash, sender>>
        /\ UNCHANGED <<useFlag, useSize, refs, need, holder, scan>>

(* SendPool::DeAlloc asserts that the run is in the pool.  Under the lock   *)
(* it clears the flags and stops at the first that is clear already, which  *)
(* Sender::DeAlloc asserts not to happen.                                   *)
PoolDeAlloc(t) ==
    LET run == index[t]..(index[t] + count[t] - 1)
    IN  /\ pc[t] = "free"
        /\ holder = None
        /\ crash' = IF count[t] > N \/ index[t] >= N \/ \E k \in run : ~useFlag[k]
                    THEN "assert" ELSE crash
        /\ useFlag' = [k \in Index |-> useFlag[k] /\ k \notin run]
        /\ useSize' = (useSize - count[t] * ChunkSize) % Width
        /\ Leave(t)
        /\ UNCHANGED <<sender, refs, need, holder, scan>>

Next ==
    /\ crash = "none"
    /\ \/ \E t \in Threads :
             \/ \E s \in Sizes : Alloc(t, s)
             \/ ScanFlag(t) \/ ScanEnd(t) \/ Take(t) \/ Exhausted(t)
             \/ \E i \in Index : DropRef(t, i)
             \/ SenderDeAlloc(t) \/ PoolDeAlloc(t)
       \/ \E i \in Index : CopyRef(i)

Spec == Init /\ [][Next]_vars

-----------------------------------------------------------------------------
(* The types; a thread in the search has the lock. *)
TypeOK ==
    /\ useFlag \in [Index -> BOOLEAN]
    /\ useSize \in 0..Width - 1
    /\ sender \in [Index -> [chunk : BOOLEAN, index : Index \cup {-1}, count : Nat]]
    /\ refs \in [Index -> 0..RefBound]
    /\ need \in [Index -> Nat]
    /\ holder \in Threads \cup {None}
    /\ pc \in [Threads -> {"idle", "scan", "take", "dealloc", "free"}]
    /\ size \in [Threads -> Nat]
    /\ scan \in [maxCount : Nat, allocIndex : Index \cup {-1}, flagIndex : 0..N]
    /\ index \in [Threads -> Index]
    /\ count \in [Threads -> Nat]
    /\ crash \in {"none", "null", "assert"}
    /\ \A t \in Threads : pc[t] \in {"scan", "take"} <=> holder = t

(* The runs in use: those of the Senders that are set, and those that a     *)
(* thread is about to give back.                                            *)
LiveRun(i) == <<i, sender[i].count>>
FreeRun(t) == <<index[t], count[t]>>
Live == {i \in Index : sender[i].chunk}
Freeing == {t \in Threads : pc[t] = "free"}
Runs == {LiveRun(i) : i \in Live} \cup {FreeRun(t) : t \in Freeing}

Chunks(b) == b[1]..(b[1] + b[2] - 1)
Disjoint(a, b) == Chunks(a) \cap Chunks(b) = {}

(* No chunk is given to two packets: the runs of any two Senders in use are *)
(* disjoint, also while one of them is being given back, and a chunk is     *)
(* marked in m_useFlag exactly when it is in one of these runs.             *)
FlagsExact ==
    /\ \A i, j \in Live : i # j => Disjoint(LiveRun(i), LiveRun(j))
    /\ \A t, u \in Freeing : t # u => Disjoint(FreeRun(t), FreeRun(u))
    /\ \A i \in Live, t \in Freeing : Disjoint(LiveRun(i), FreeRun(t))
    /\ \A k \in Index : useFlag[k] <=> \E b \in Runs : k \in Chunks(b)

(* A Sender that somebody uses is set and its packet lies inside the pool   *)
(* and inside its own run, so that writing and sending it stays there.      *)
Fits ==
    \A i \in Index : refs[i] > 0 =>
        /\ sender[i].chunk
        /\ sender[i].index = i
        /\ i + sender[i].count <= N
        /\ need[i] <= sender[i].count * ChunkSize

(* The assertions of Sender::DeAlloc and SetSendDataChunk hold: a run is    *)
(* given back once, with its flags set, and a Sender is reset before        *)
(* another allocation can find it.                                          *)
NoAssert == crash # "assert"

Fit(i, c) == i + c <= N /\ \A k \in i..(i + c - 1) : ~useFlag[k]

(* The loop in GetAllocIndex is first fit: it finds the lowest run of free  *)
(* chunks that is long enough, and fails only when there is none.  So Alloc *)
(* returns null only when no run of free chunks is long enough.             *)
FirstFit ==
    \A t \in Threads : pc[t] = "take" =>
        IF \E i \in Index : Fit(i, count[t])
        THEN /\ AllocIndex(t) \in Index
             /\ Fit(AllocIndex(t), count[t])
             /\ \A j \in 0..AllocIndex(t) - 1 : ~Fit(j, count[t])
        ELSE AllocIndex(t) = -1

(* The loop invariant of GetAllocIndex, for a search by t: the flags of the *)
(* run that ends before flagIndex are clear, and no run that is long enough *)
(* begins before it.                                                        *)
ScanInv(t) ==
    LET m == scan.maxCount
        f == scan.flagIndex
        c == count[t]
    IN  /\ size[t] \in Sizes /\ c = ChunksFor(size[t])
        /\ m <= f /\ m <= c
        /\ pc[t] = "scan" => m < c
        /\ pc[t] = "take" => m = c \/ f = N
        /\ scan.allocIndex = IF m = 0 THEN -1 ELSE f - m
        /\ \A k \in Index : f - m <= k /\ k < f => ~useFlag[k]
        /\ \A j \in Index : j < f - m =>
              \E k \in Index : j <= k /\ k < j + c /\ k < f /\ useFlag[k]

InLive(i, k) == sender[i].chunk /\ i <= k /\ k < i + sender[i].count
InFree(t, k) == pc[t] = "free" /\ index[t] <= k /\ k < index[t] + count[t]

(* The fields of a Sender in use, and the locals of a thread that gives one *)
(* back: between the last DropRef and SenderDeAlloc the Sender is the       *)
(* thread's alone.                                                          *)
SenderInv ==
    /\ \A i \in Index : sender[i].chunk =>
          sender[i].index = i /\ sender[i].count > 0 /\ i + sender[i].count <= N
    /\ \A i \in Index : refs[i] > 0 =>
          sender[i].chunk /\ need[i] <= sender[i].count * ChunkSize
    /\ \A t \in Threads : pc[t] = "dealloc" => sender[index[t]].chunk /\ refs[index[t]] = 0
    /\ \A t, u \in Threads : pc[t] = "dealloc" /\ pc[u] = "dealloc" /\ index[t] = index[u] => t = u
    /\ \A t \in Threads : pc[t] = "free" => count[t] > 0 /\ index[t] + count[t] <= N

(* FlagsExact, chunk by chunk *)
FlagsInv ==
    /\ \A i, j, k \in Index : InLive(i, k) /\ InLive(j, k) => i = j
    /\ \A t, u \in Threads, k \in Index : InFree(t, k) /\ InFree(u, k) => t = u
    /\ \A i, k \in Index, t \in Threads : ~(InLive(i, k) /\ InFree(t, k))
    /\ \A k \in Index :
          useFlag[k] <=> (\E i \in Index : InLive(i, k)) \/ (\E t \in Threads : InFree(t, k))

(* The inductive invariant behind the theorems of SendPoolProofs. *)
IndInv ==
    /\ TypeOK
    /\ holder = None => scan = NoScan
    /\ \A t \in Threads : holder = t => ScanInv(t)
    /\ SenderInv
    /\ FlagsInv
    /\ NoAssert

(* The pool hands out and takes back disjoint blocks, each whole and once.  *)
Abstract == INSTANCE Blocks WITH blocks <- Runs
ImplementsBlocks == Abstract!Spec

=============================================================================
