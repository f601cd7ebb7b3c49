--------------------------- MODULE SendPoolProofs ---------------------------
(***************************************************************************)
(* The inductive invariant of the send pool, action by action, and what it  *)
(* shows for every number of threads and chunks and every chunk size: the   *)
(* flags are exact, no assertion fails, packets stay inside their runs, the *)
(* search is first fit, and the pool implements Blocks.                     *)
(***************************************************************************)
EXTENDS SendPool, TLAPS

-----------------------------------------------------------------------------
(* Arithmetic *)

(* An unsigned short stays in its range. *)
LEMMA ModRange == ASSUME NEW x \in Int PROVE x % Width \in 0..Width - 1
BY SizeAssumption

(* The chunks of a packet are at least one and hold it (SendPool::Alloc). *)
LEMMA ChunksForFacts ==
    ASSUME NEW s \in Sizes
    PROVE  ChunksFor(s) \in Nat /\ ChunksFor(s) > 0 /\ s <= ChunksFor(s) * ChunkSize
<1> DEFINE q == s \div ChunkSize
<1>1. s \in Nat /\ ChunkSize \in Nat /\ ChunkSize > 0
  BY SizeAssumption
<1>2. q \in Nat
  BY <1>1
<1>3. s = ChunkSize * q + (s % ChunkSize) /\ s % ChunkSize < ChunkSize
  BY <1>1
<1> HIDE DEF q
<1>4. (q + 1) * ChunkSize = ChunkSize * q + ChunkSize
  BY <1>1, <1>2
<1>5. ChunkSize * q \in Nat /\ s % ChunkSize \in Nat
  BY <1>1, <1>2
<1>6. s <= (q + 1) * ChunkSize
  BY <1>1, <1>3, <1>4, <1>5
<1>7. QED
  BY <1>2, <1>6 DEF ChunksFor, q

-----------------------------------------------------------------------------
(* The inductive invariant, action by action *)

LEMMA InitIndInv == Init => IndInv
<1> SUFFICES ASSUME Init PROVE IndInv
  BY Zenon
<1> USE NAssumption, SizeAssumption, RefAssumption, NoneAssumption DEF Init
<1>1. TypeOK
  BY DEF TypeOK, Index, NoSender, NoScan
<1>2. SenderInv
  BY DEF SenderInv, NoSender, Index
<1>3. FlagsInv
  BY Zenon DEF FlagsInv, InLive, InFree, NoSender, Index
<1>4. QED
  BY <1>1, <1>2, <1>3, Zenon DEF IndInv, NoAssert

(* Alloc takes the lock and starts the search at flag 0. *)
LEMMA AllocIndInv ==
    ASSUME IndInv, NEW t \in Threads, NEW s \in Sizes, Alloc(t, s)
    PROVE  IndInv'
<1> USE NAssumption, NoneAssumption
<1>0. TypeOK /\ SenderInv /\ FlagsInv /\ NoAssert /\ scan = NoScan
  BY Zenon DEF IndInv, Alloc
<1>1. s \in Nat /\ ChunksFor(s) \in Nat /\ ChunksFor(s) > 0
  BY ChunksForFacts, SizeAssumption
<1>2. TypeOK'
  BY <1>0, <1>1, Zenon DEF TypeOK, Alloc, Goto
<1>3. (holder = None => scan = NoScan)'
  BY Zenon DEF Alloc
<1>4. (\A u \in Threads : holder = u => ScanInv(u))'
  <2> SUFFICES ScanInv(t)'
    BY Zenon DEF Alloc
  <2> QED BY <1>0, <1>1 DEF ScanInv, Alloc, Goto, NoScan, TypeOK, Index
<1>5. SenderInv'
  BY <1>0 DEF SenderInv, Alloc, Goto, TypeOK
<1>6. FlagsInv'
  <2>1. \A u \in Threads, k \in Index : InFree(u, k)' <=> InFree(u, k)
    BY <1>0, Zenon DEF InFree, Alloc, Goto, TypeOK
  <2>2. \A i, k \in Index : InLive(i, k)' <=> InLive(i, k)
    BY Zenon DEF InLive, Alloc
  <2> QED BY <1>0, <2>1, <2>2, Zenon DEF FlagsInv, Alloc
<1>7. QED
  BY <1>0, <1>2, <1>3, <1>4, <1>5, <1>6, Zenon DEF IndInv, NoAssert, Alloc

(* A round of the search keeps the loop invariant. *)
LEMMA ScanFlagIndInv ==
    ASSUME IndInv, NEW t \in Threads, ScanFlag(t)
    PROVE  IndInv'
<1> USE NAssumption, NoneAssumption
<1> DEFINE f == scan.flagIndex
           m == scan.maxCount
<1>0. TypeOK /\ SenderInv /\ FlagsInv /\ NoAssert /\ holder = t /\ ScanInv(t)
  BY Zenon DEF IndInv, TypeOK, ScanFlag
<1>1. f \in Index /\ m \in Nat /\ m <= f /\ m < count[t] /\ count[t] \in Nat /\ N \in Nat
  BY <1>0 DEF TypeOK, Index, ScanFlag, ScanInv
<1>2. scan' = IF useFlag[f] THEN [maxCount |-> 0, allocIndex |-> -1, flagIndex |-> f + 1]
              ELSE [maxCount |-> m + 1, allocIndex |-> f - m, flagIndex |-> f + 1]
  <2>1. scan.allocIndex = IF m = 0 THEN -1 ELSE f - m
    BY <1>0, Zenon DEF ScanInv
  <2>2. (IF scan.allocIndex = -1 THEN f ELSE scan.allocIndex) = f - m
    BY <1>1, <2>1 DEF Index
  <2> QED BY <2>2, Zenon DEF ScanFlag
<1>3. TypeOK'
  <2>1. scan' \in [maxCount : Nat, allocIndex : Index \cup {-1}, flagIndex : 0..N]
    BY <1>1, <1>2 DEF Index
  <2> QED BY <1>0, <2>1, Zenon DEF TypeOK, ScanFlag, Goto
<1>4. (holder = None => scan = NoScan)'
  BY <1>0, Zenon DEF ScanFlag
<1>5. (\A u \in Threads : holder = u => ScanInv(u))'
  <2> SUFFICES ScanInv(t)'
    BY <1>0, Zenon DEF ScanFlag
  <2>1. CASE useFlag[f]
    <3>1. scan'.maxCount = 0 /\ scan'.allocIndex = -1 /\ scan'.flagIndex = f + 1
      BY <1>2, <2>1, Zenon
    <3>2. pc'[t] = "scan"
      BY <1>0, <1>1, <3>1 DEF ScanFlag, Goto, TypeOK
    <3>3. \A j \in Index : j < f + 1 =>
            \E k \in Index : j <= k /\ k < j + count[t] /\ k < f + 1 /\ useFlag[k]
      <4> TAKE j \in Index
      <4> HAVE j < f + 1
      <4>1. CASE j < f - m
        <5>1. PICK k \in Index : j <= k /\ k < j + count[t] /\ k < f /\ useFlag[k]
          BY <1>0, <4>1, Zenon DEF ScanInv
        <5> QED BY <1>1, <5>1 DEF Index
      <4>2. CASE j >= f - m
        BY <1>1, <2>1, <4>2 DEF Index
      <4> QED BY <1>1, <4>1, <4>2 DEF Index
    <3> QED BY <1>0, <1>1, <3>1, <3>2, <3>3 DEF ScanInv, ScanFlag, Index
  <2>2. CASE ~useFlag[f]
    <3>1. scan'.maxCount = m + 1 /\ scan'.allocIndex = f - m /\ scan'.flagIndex = f + 1
      BY <1>2, <2>2, Zenon
    <3>2. pc'[t] = IF m + 1 = count[t] THEN "take" ELSE "scan"
      BY <1>0, <1>1, <3>1, Zenon DEF ScanFlag, Goto, TypeOK
    <3>3. \A k \in Index : f - m <= k /\ k < f + 1 => ~useFlag[k]
      BY <1>0, <1>1, <2>2 DEF ScanInv, Index
    <3>4. \A j \in Index : j < f - m =>
            \E k \in Index : j <= k /\ k < j + count[t] /\ k < f + 1 /\ useFlag[k]
      <4> TAKE j \in Index
      <4> HAVE j < f - m
      <4>1. PICK k \in Index : j <= k /\ k < j + count[t] /\ k < f /\ useFlag[k]
        BY <1>0, Zenon DEF ScanInv
      <4> QED BY <1>1, <4>1 DEF Index
    <3>5. (f + 1) - (m + 1) = f - m /\ m + 1 # 0 /\ m + 1 <= f + 1 /\ m + 1 <= count[t]
      BY <1>1 DEF Index
    <3> QED BY <1>0, <1>1, <3>1, <3>2, <3>3, <3>4, <3>5 DEF ScanInv, ScanFlag
  <2> QED BY <2>1, <2>2, Zenon
<1>6. SenderInv'
  BY <1>0 DEF SenderInv, ScanFlag, Goto, TypeOK
<1>7. FlagsInv'
  <2>1. \A u \in Threads, k \in Index : InFree(u, k)' <=> InFree(u, k)
    BY <1>0, Zenon DEF InFree, ScanFlag, Goto, TypeOK
  <2>2. \A i, k \in Index : InLive(i, k)' <=> InLive(i, k)
    BY Zenon DEF InLive, ScanFlag
  <2> QED BY <1>0, <2>1, <2>2, Zenon DEF FlagsInv, ScanFlag
<1>8. QED
  BY <1>0, <1>3, <1>4, <1>5, <1>6, <1>7, Zenon DEF IndInv, NoAssert, ScanFlag

(* After the last flag the search ends where it is. *)
LEMMA ScanEndIndInv ==
    ASSUME IndInv, NEW t \in Threads, ScanEnd(t)
    PROVE  IndInv'
<1> USE NAssumption, NoneAssumption
<1>0. TypeOK /\ SenderInv /\ FlagsInv /\ NoAssert /\ holder = t /\ ScanInv(t)
  BY Zenon DEF IndInv, TypeOK, ScanEnd
<1>1. TypeOK'
  BY <1>0, Zenon DEF TypeOK, ScanEnd, Goto
<1>2. (holder = None => scan = NoScan)'
  BY <1>0, Zenon DEF ScanEnd
<1>3. (\A u \in Threads : holder = u => ScanInv(u))'
  <2> SUFFICES ScanInv(t)'
    BY <1>0, Zenon DEF ScanEnd
  <2> QED BY <1>0, Zenon DEF ScanInv, ScanEnd, Goto, TypeOK
<1>4. SenderInv'
  BY <1>0 DEF SenderInv, ScanEnd, Goto, TypeOK
<1>5. FlagsInv'
  <2>1. \A u \in Threads, k \in Index : InFree(u, k)' <=> InFree(u, k)
    BY <1>0, Zenon DEF InFree, ScanEnd, Goto, TypeOK
  <2>2. \A i, k \in Index : InLive(i, k)' <=> InLive(i, k)
    BY Zenon DEF InLive, ScanEnd
  <2> QED BY <1>0, <2>1, <2>2, Zenon DEF FlagsInv, ScanEnd
<1>6. QED
  BY <1>0, <1>1, <1>2, <1>3, <1>4, <1>5, Zenon DEF IndInv, NoAssert, ScanEnd

(* What a search that succeeded has found: a run of clear flags inside the  *)
(* pool, as long as the packet needs.                                       *)
LEMMA FoundRun ==
    ASSUME IndInv, NEW t \in Threads, pc[t] = "take", AllocIndex(t) # -1
    PROVE  /\ AllocIndex(t) \in Index
           /\ count[t] \in Nat /\ count[t] > 0
           /\ AllocIndex(t) + count[t] <= N
           /\ \A k \in Index : AllocIndex(t) <= k /\ k < AllocIndex(t) + count[t] => ~useFlag[k]
<1> USE NAssumption
<1>0. TypeOK /\ holder = t /\ ScanInv(t)
  BY Zenon DEF IndInv, TypeOK
<1>1. /\ scan.flagIndex \in 0..N /\ scan.maxCount \in Nat /\ count[t] \in Nat
      /\ size[t] \in Sizes /\ count[t] = ChunksFor(size[t]) /\ scan.maxCount <= scan.flagIndex
  BY <1>0, Zenon DEF TypeOK, ScanInv
<1>2. count[t] > 0
  BY <1>1, ChunksForFacts, Zenon
<1>3. scan.maxCount = count[t] /\ AllocIndex(t) = scan.flagIndex - count[t]
  BY <1>0, <1>1, <1>2, Zenon DEF AllocIndex, ScanInv
<1>4. AllocIndex(t) \in Index /\ AllocIndex(t) + count[t] = scan.flagIndex
  BY <1>1, <1>2, <1>3 DEF Index
<1>5. QED
  BY <1>0, <1>1, <1>2, <1>3, <1>4 DEF ScanInv

(* A Sender whose first flag is clear is not set. *)
LEMMA ClearIsUnset ==
    ASSUME IndInv, NEW i \in Index, ~useFlag[i]
    PROVE  ~sender[i].chunk /\ refs[i] = 0
<1>1. TypeOK /\ SenderInv /\ FlagsInv
  BY Zenon DEF IndInv
<1>2. sender[i].count \in Nat /\ i \in Nat /\ refs[i] \in Nat
  BY <1>1, NAssumption, RefAssumption DEF TypeOK, Index
<1>3. ~InLive(i, i)
  BY <1>1, Zenon DEF FlagsInv
<1>4. ~sender[i].chunk
  BY <1>1, <1>2, <1>3 DEF InLive, SenderInv
<1>5. QED
  BY <1>1, <1>2, <1>4 DEF SenderInv

(* Alloc takes the run that the search found. *)
LEMMA TakeIndInv ==
    ASSUME IndInv, NEW t \in Threads, Take(t)
    PROVE  IndInv'
<1> USE NAssumption, NoneAssumption
<1>a. PICK i, c : i = AllocIndex(t) /\ c = count[t]
  BY Zenon
<1>0. TypeOK /\ SenderInv /\ FlagsInv /\ NoAssert /\ holder = t /\ ScanInv(t)
  BY Zenon DEF IndInv, TypeOK, Take
<1>1. /\ i \in Index /\ c \in Nat /\ c > 0 /\ i + c <= N
      /\ \A k \in Index : i <= k /\ k < i + c => ~useFlag[k]
  BY <1>a, FoundRun, Zenon DEF Take
<1>2. i \in Nat /\ N \in Nat
  BY <1>1 DEF Index
<1>3. ~sender[i].chunk /\ refs[i] = 0
  BY ClearIsUnset, <1>1, <1>2
<1>4. size[t] \in Nat /\ size[t] <= c * ChunkSize
  BY <1>0, <1>a, ChunksForFacts, SizeAssumption, Zenon DEF ScanInv, TypeOK
<1>5. /\ useFlag' = [k \in Index |-> useFlag[k] \/ k \in i..(i + c - 1)]
      /\ sender' = [sender EXCEPT ![i] = [chunk |-> TRUE, index |-> i, count |-> c]]
      /\ refs' = [refs EXCEPT ![i] = 1]
      /\ need' = [need EXCEPT ![i] = size[t]]
      /\ holder' = None /\ scan' = NoScan /\ crash' = crash
      /\ pc' = [pc EXCEPT ![t] = "idle"]
      /\ size' = [size EXCEPT ![t] = 0]
      /\ index' = [index EXCEPT ![t] = 0]
      /\ count' = [count EXCEPT ![t] = 0]
      /\ useSize' = (useSize + c * ChunkSize) % Width
  BY <1>3, <1>a, Zenon DEF Take, Leave, Goto
<1>6. TypeOK'
  <2>1. useSize' \in 0..Width - 1
    <3>1. useSize + c * ChunkSize \in Int
      BY <1>0, <1>1, SizeAssumption DEF TypeOK
    <3> QED BY <3>1, <1>5, ModRange, Zenon
  <2>2. NoScan \in [maxCount : Nat, allocIndex : Index \cup {-1}, flagIndex : 0..N]
    BY DEF NoScan
  <2>3. 0 \in Index /\ 1 \in 0..RefBound
    BY RefAssumption DEF Index
  <2>4. /\ useFlag' \in [Index -> BOOLEAN]
        /\ sender' \in [Index -> [chunk : BOOLEAN, index : Index \cup {-1}, count : Nat]]
        /\ refs' \in [Index -> 0..RefBound]
        /\ need' \in [Index -> Nat]
    BY <1>0, <1>1, <1>4, <1>5, <2>3, Zenon DEF TypeOK
  <2>5. /\ pc' \in [Threads -> {"idle", "scan", "take", "dealloc", "free"}]
        /\ size' \in [Threads -> Nat]
        /\ index' \in [Threads -> Index]
        /\ count' \in [Threads -> Nat]
        /\ \A u \in Threads : pc'[u] \in {"scan", "take"} <=> holder' = u
    BY <1>0, <1>5, <2>3, Zenon DEF TypeOK
  <2> QED BY <1>0, <1>5, <2>1, <2>2, <2>4, <2>5, Zenon DEF TypeOK
<1>7. SenderInv'
  <2>1. sender'[i].chunk /\ sender'[i].index = i /\ sender'[i].count = c /\ refs'[i] = 1 /\ need'[i] = size[t]
    BY <1>0, <1>1, <1>5, Zenon DEF TypeOK
  <2>2. \A j \in Index : j # i => sender'[j] = sender[j] /\ refs'[j] = refs[j] /\ need'[j] = need[j]
    BY <1>0, <1>5, Zenon DEF TypeOK
  <2>3. \A u \in Threads : pc'[u] \in {"dealloc", "free"} =>
          u # t /\ pc[u] = pc'[u] /\ index'[u] = index[u] /\ count'[u] = count[u] /\ index[u] \in Index
    BY <1>0, <1>5, Zenon DEF TypeOK
  <2>4. \A u \in Threads : pc[u] = "dealloc" => index[u] # i
    BY <1>0, <1>3, Zenon DEF SenderInv
  <2>5. (\A j \in Index : sender[j].chunk =>
          sender[j].index = j /\ sender[j].count > 0 /\ j + sender[j].count <= N)'
    BY <1>0, <1>1, <2>1, <2>2 DEF SenderInv
  <2>6. (\A j \in Index : refs[j] > 0 => sender[j].chunk /\ need[j] <= sender[j].count * ChunkSize)'
    BY <1>0, <1>4, <2>1, <2>2, Zenon DEF SenderInv
  <2>7. (\A u \in Threads : pc[u] = "dealloc" => sender[index[u]].chunk /\ refs[index[u]] = 0)'
    BY <1>0, <2>2, <2>3, <2>4 DEF SenderInv
  <2>8. (\A u, v \in Threads : pc[u] = "dealloc" /\ pc[v] = "dealloc" /\ index[u] = index[v] => u = v)'
    BY <1>0, <2>3 DEF SenderInv
  <2>9. (\A u \in Threads : pc[u] = "free" => count[u] > 0 /\ index[u] + count[u] <= N)'
    BY <1>0, <2>3, Zenon DEF SenderInv
  <2> QED BY <2>5, <2>6, <2>7, <2>8, <2>9, Zenon DEF SenderInv
<1>8. FlagsInv'
  <2>1. \A u \in Threads, k \in Index : InFree(u, k)' <=> InFree(u, k)
    BY <1>0, <1>5 DEF InFree, TypeOK, Take
  <2>2. \A j, k \in Index : j # i => (InLive(j, k)' <=> InLive(j, k))
    BY <1>0, <1>5, Zenon DEF InLive, TypeOK
  <2>3. \A k \in Index : InLive(i, k)' <=> i <= k /\ k < i + c
    BY <1>0, <1>1, <1>5, Zenon DEF InLive, TypeOK
  <2>4. \A k \in Index : ~InLive(i, k)
    BY <1>3, Zenon DEF InLive
  <2>5. \A k \in Index : useFlag'[k] <=> useFlag[k] \/ (i <= k /\ k < i + c)
    <3>1. \A k \in Index : k \in i..(i + c - 1) <=> i <= k /\ k < i + c
      BY <1>1, <1>2 DEF Index
    <3> QED BY <1>0, <1>5, <3>1, ZenonT(30) DEF TypeOK
  <2>6. \A k \in Index : i <= k /\ k < i + c =>
          (\A j \in Index : ~InLive(j, k)) /\ (\A u \in Threads : ~InFree(u, k))
    BY <1>0, <1>1, Zenon DEF FlagsInv
  <2>7. (\A j, l, k \in Index : InLive(j, k) /\ InLive(l, k) => j = l)'
    BY <1>0, <2>2, <2>3, <2>6, Zenon DEF FlagsInv
  <2>8. (\A u, v \in Threads, k \in Index : InFree(u, k) /\ InFree(v, k) => u = v)'
    BY <1>0, <2>1, Zenon DEF FlagsInv
  <2>9. (\A j, k \in Index, u \in Threads : ~(InLive(j, k) /\ InFree(u, k)))'
    BY <1>0, <2>1, <2>2, <2>3, <2>6, Zenon DEF FlagsInv
  <2>10. (\A k \in Index :
          useFlag[k] <=> (\E j \in Index : InLive(j, k)) \/ (\E u \in Threads : InFree(u, k)))'
    <3> SUFFICES ASSUME NEW k \in Index
                 PROVE  useFlag'[k] <=> \/ \E j \in Index : InLive(j, k)'
                                       \/ \E u \in Threads : InFree(u, k)'
      BY Zenon
    <3>1. useFlag[k] <=> (\E j \in Index : InLive(j, k)) \/ (\E u \in Threads : InFree(u, k))
      BY <1>0, Zenon DEF FlagsInv
    <3> QED BY <1>1, <3>1, <2>1, <2>2, <2>3, <2>4, <2>5, Zenon
  <2> QED BY <2>7, <2>8, <2>9, <2>10, Zenon DEF FlagsInv
<1>9. QED
  BY <1>0, <1>5, <1>6, <1>7, <1>8, Zenon DEF IndInv, NoAssert

(* A search that failed changes no Sender and no flag. *)
LEMMA ExhaustedIndInv ==
    ASSUME IndInv, NEW t \in Threads, Exhausted(t)
    PROVE  IndInv'
<1> USE NAssumption, NoneAssumption
<1>0. TypeOK /\ SenderInv /\ FlagsInv /\ NoAssert /\ holder = t
  BY Zenon DEF IndInv, TypeOK, Exhausted
<1>1. TypeOK'
  <2>1. NoScan \in [maxCount : Nat, allocIndex : Index \cup {-1}, flagIndex : 0..N] /\ 0 \in Index
    BY DEF NoScan, Index
  <2>2. /\ pc' \in [Threads -> {"idle", "scan", "take", "dealloc", "free"}]
        /\ size' \in [Threads -> Nat]
        /\ index' \in [Threads -> Index]
        /\ count' \in [Threads -> Nat]
        /\ \A u \in Threads : pc'[u] \in {"scan", "take"} <=> holder' = u
    BY <1>0, <2>1, Zenon DEF TypeOK, Exhausted, Leave, Goto
  <2> QED BY <1>0, <2>1, <2>2, Zenon DEF TypeOK, Exhausted
<1>2. SenderInv'
  BY <1>0 DEF SenderInv, Exhausted, Leave, Goto, TypeOK
<1>3. FlagsInv'
  <2>1. \A u \in Threads, k \in Index : InFree(u, k)' <=> InFree(u, k)
    BY <1>0, Zenon DEF InFree, Exhausted, Leave, Goto, TypeOK
  <2>2. \A i, k \in Index : InLive(i, k)' <=> InLive(i, k)
    BY Zenon DEF InLive, Exhausted
  <2> QED BY <1>0, <2>1, <2>2, Zenon DEF FlagsInv, Exhausted
<1>4. QED
  BY <1>0, <1>1, <1>2, <1>3, Zenon DEF IndInv, NoAssert, Exhausted

(* One more user of a Sender that has one. *)
LEMMA CopyRefIndInv ==
    ASSUME IndInv, NEW i \in Index, CopyRef(i)
    PROVE  IndInv'
<1> USE RefAssumption
<1>0. TypeOK /\ SenderInv /\ FlagsInv /\ NoAssert
  BY Zenon DEF IndInv
<1>1. TypeOK'
  BY <1>0 DEF TypeOK, CopyRef
<1>2. SenderInv'
  <2>1. \A j \in Index : (refs'[j] > 0 <=> refs[j] > 0) /\ (refs[j] = 0 <=> refs'[j] = 0)
    BY <1>0 DEF TypeOK, CopyRef
  <2> QED BY <1>0, <2>1 DEF SenderInv, CopyRef, TypeOK
<1>3. FlagsInv'
  BY <1>0, ZenonT(30) DEF FlagsInv, InLive, InFree, CopyRef
<1>4. (holder = None => scan = NoScan)'
  BY Zenon DEF IndInv, CopyRef
<1>5. (\A u \in Threads : holder = u => ScanInv(u))'
  BY Zenon DEF IndInv, CopyRef, ScanInv
<1>6. QED
  BY <1>0, <1>1, <1>2, <1>3, <1>4, <1>5, Zenon DEF IndInv, NoAssert, CopyRef

(* The search of another thread is not disturbed by a step that leaves the  *)
(* flags, the lock and that thread alone.                                   *)
LEMMA ScanKept ==
    ASSUME IndInv, TypeOK, NEW t \in Threads, holder # t,
           useFlag' = useFlag, holder' = holder, scan' = scan,
           \A u \in Threads \ {t} : pc'[u] = pc[u] /\ size'[u] = size[u] /\ count'[u] = count[u]
    PROVE  /\ (holder = None => scan = NoScan)'
           /\ (\A u \in Threads : holder = u => ScanInv(u))'
<1>1. (holder = None => scan = NoScan)'
  BY Zenon DEF IndInv
<1>2. ASSUME NEW u \in Threads, holder' = u PROVE ScanInv(u)'
  <2>1. ScanInv(u) /\ u # t
    BY <1>2, Zenon DEF IndInv
  <2>2. pc'[u] = pc[u] /\ size'[u] = size[u] /\ count'[u] = count[u]
    BY <2>1, Zenon
  <2> QED BY <2>1, <2>2, Zenon DEF ScanInv
<1>3. QED
  BY <1>1, <1>2, Zenon

(* The last user of a Sender has it alone afterwards. *)
LEMMA DropRefIndInv ==
    ASSUME IndInv, NEW t \in Threads, NEW i \in Index, DropRef(t, i)
    PROVE  IndInv'
<1> USE RefAssumption, NAssumption
<1>0. TypeOK /\ SenderInv /\ FlagsInv /\ NoAssert /\ holder # t /\ pc[t] = "idle"
  BY Zenon DEF IndInv, TypeOK, DropRef
<1>1. TypeOK'
  BY <1>0 DEF TypeOK, DropRef, Goto
<1>2. SenderInv'
  <2>1. refs[i] \in Nat /\ refs[i] > 0 /\ refs'[i] = refs[i] - 1 /\ sender[i].chunk
    BY <1>0 DEF TypeOK, DropRef, SenderInv
  <2>2. \A j \in Index : j # i => refs'[j] = refs[j] /\ need'[j] = need[j]
    BY <1>0, Zenon DEF TypeOK, DropRef
  <2>3. \A u \in Threads : u # t => pc'[u] = pc[u] /\ index'[u] = index[u]
    BY <1>0, Zenon DEF TypeOK, DropRef, Goto
  <2>4. sender' = sender /\ count' = count
    BY Zenon DEF DropRef
  <2>5. refs[i] # 1 => pc'[t] = "idle" /\ need'[i] = need[i]
    BY <1>0, Zenon DEF TypeOK, DropRef, Goto
  <2>6. refs[i] = 1 => pc'[t] = "dealloc" /\ index'[t] = i
    BY <1>0, Zenon DEF TypeOK, DropRef, Goto
  <2>7. \A u \in Threads : pc[u] = "dealloc" => index[u] # i /\ index[u] \in Index
    BY <1>0, <2>1 DEF SenderInv, TypeOK
  <2>8. pc'[t] \in {"idle", "dealloc"}
    BY <2>5, <2>6, Zenon
  <2>9. (\A j \in Index : sender[j].chunk =>
          sender[j].index = j /\ sender[j].count > 0 /\ j + sender[j].count <= N)'
    BY <1>0, <2>4, Zenon DEF SenderInv
  <2>10. (\A j \in Index : refs[j] > 0 => sender[j].chunk /\ need[j] <= sender[j].count * ChunkSize)'
    BY <1>0, <2>1, <2>2, <2>4, <2>5 DEF SenderInv
  <2>11. (\A u \in Threads : pc[u] = "dealloc" => sender[index[u]].chunk /\ refs[index[u]] = 0)'
    BY <1>0, <2>1, <2>2, <2>3, <2>4, <2>5, <2>6, <2>7 DEF SenderInv
  <2>12. (\A u, v \in Threads : pc[u] = "dealloc" /\ pc[v] = "dealloc" /\ index[u] = index[v] => u = v)'
    BY <1>0, <2>3, <2>5, <2>6, <2>7 DEF SenderInv
  <2>13. (\A u \in Threads : pc[u] = "free" => count[u] > 0 /\ index[u] + count[u] <= N)'
    BY <1>0, <2>3, <2>4, <2>8, Zenon DEF SenderInv
  <2> QED BY <2>9, <2>10, <2>11, <2>12, <2>13, Zenon DEF SenderInv
<1>3. FlagsInv'
  <2>1. \A u \in Threads, k \in Index : InFree(u, k)' <=> InFree(u, k)
    BY <1>0, Zenon DEF InFree, DropRef, Goto, TypeOK
  <2>2. \A j, k \in Index : InLive(j, k)' <=> InLive(j, k)
    BY Zenon DEF InLive, DropRef
  <2> QED BY <1>0, <2>1, <2>2 DEF FlagsInv, DropRef
<1>4. \A u \in Threads \ {t} : pc'[u] = pc[u] /\ size'[u] = size[u] /\ count'[u] = count[u]
  BY <1>0, Zenon DEF DropRef, Goto, TypeOK
<1>5. useFlag' = useFlag /\ holder' = holder /\ scan' = scan /\ crash' = crash
  BY Zenon DEF DropRef
<1>6. QED
  BY <1>0, <1>1, <1>2, <1>3, <1>4, <1>5, ScanKept, Zenon DEF IndInv, NoAssert

(* Sender::DeAlloc: the run passes from the Sender to the thread. *)
LEMMA SenderDeAllocFacts ==
    ASSUME IndInv, NEW t \in Threads, SenderDeAlloc(t),
           NEW i, i = index[t]
    PROVE  /\ i \in Index /\ pc[t] = "dealloc" /\ holder # t
           /\ sender[i].chunk /\ sender[i].count \in Nat /\ sender[i].count > 0
           /\ i + sender[i].count <= N
           /\ refs[i] = 0
           /\ sender' = [sender EXCEPT ![i] = NoSender]
           /\ count' = [count EXCEPT ![t] = sender[i].count]
           /\ pc' = [pc EXCEPT ![t] = "free"]
           /\ UNCHANGED <<useFlag, useSize, refs, need, holder, scan, size, index, crash>>
<1>0. TypeOK /\ SenderInv /\ pc[t] = "dealloc"
  BY Zenon DEF IndInv, SenderDeAlloc
<1>1. i \in Index /\ holder # t /\ sender[i].count \in Nat
  BY <1>0, Zenon DEF TypeOK
<1>2. /\ sender[i].chunk /\ refs[i] = 0 /\ sender[i].index = i
      /\ sender[i].count > 0 /\ i + sender[i].count <= N
  BY <1>0, <1>1, Zenon DEF SenderInv
<1>3. ~(sender[i].index < 0 \/ sender[i].count <= 0)
  BY <1>1, <1>2, NAssumption DEF Index
<1>4. QED
  BY <1>0, <1>1, <1>2, <1>3, Zenon DEF SenderDeAlloc, Goto

LEMMA SenderDeAllocIndInv ==
    ASSUME IndInv, NEW t \in Threads, SenderDeAlloc(t)
    PROVE  IndInv'
<1> USE NAssumption
<1>a. PICK i : i = index[t]
  BY Zenon
<1>b. PICK c : c = sender[i].count
  BY Zenon
<1>0. TypeOK /\ SenderInv /\ FlagsInv /\ NoAssert
  BY Zenon DEF IndInv
<1>1. /\ i \in Index /\ pc[t] = "dealloc" /\ holder # t
      /\ sender[i].chunk /\ c \in Nat /\ c > 0 /\ i + c <= N
      /\ refs[i] = 0
      /\ sender' = [sender EXCEPT ![i] = NoSender]
      /\ count' = [count EXCEPT ![t] = c]
      /\ pc' = [pc EXCEPT ![t] = "free"]
      /\ UNCHANGED <<useFlag, useSize, refs, need, holder, scan, size, index, crash>>
  BY <1>a, <1>b, SenderDeAllocFacts, Zenon
<1>2. TypeOK'
  <2>1. NoSender \in [chunk : BOOLEAN, index : Index \cup {-1}, count : Nat]
    BY Zenon DEF NoSender
  <2> QED BY <1>0, <1>1, <2>1, Zenon DEF TypeOK
<1>3. SenderInv'
  <2>1. ~sender'[i].chunk
    BY <1>0, <1>1, Zenon DEF TypeOK, NoSender
  <2>2. \A j \in Index : j # i => sender'[j] = sender[j]
    BY <1>0, <1>1, Zenon DEF TypeOK
  <2>3. \A u \in Threads : u # t => pc'[u] = pc[u] /\ count'[u] = count[u]
    BY <1>0, <1>1, Zenon DEF TypeOK
  <2>4. pc'[t] = "free" /\ count'[t] = c /\ index'[t] = i
    BY <1>0, <1>1, <1>a, Zenon DEF TypeOK
  <2>5. \A u \in Threads : pc'[u] = "dealloc" => u # t /\ pc[u] = "dealloc" /\ index[u] # i /\ index[u] \in Index
    BY <1>0, <1>1, <1>a, <2>3, <2>4 DEF SenderInv, TypeOK
  <2>6. (\A j \in Index : sender[j].chunk =>
          sender[j].index = j /\ sender[j].count > 0 /\ j + sender[j].count <= N)'
    BY <1>0, <2>1, <2>2, Zenon DEF SenderInv
  <2>7. (\A j \in Index : refs[j] > 0 => sender[j].chunk /\ need[j] <= sender[j].count * ChunkSize)'
    <3>1. ASSUME NEW j \in Index, refs'[j] > 0
          PROVE  sender'[j].chunk /\ need'[j] <= sender'[j].count * ChunkSize
      <4>1. refs[j] > 0 /\ j # i
        BY <1>1, <3>1
      <4> QED BY <1>0, <1>1, <2>2, <4>1, Zenon DEF SenderInv
    <3> QED BY <3>1, Zenon
  <2>8. (\A u \in Threads : pc[u] = "dealloc" => sender[index[u]].chunk /\ refs[index[u]] = 0)'
    BY <1>0, <1>1, <2>2, <2>5 DEF SenderInv
  <2>9. (\A u, v \in Threads : pc[u] = "dealloc" /\ pc[v] = "dealloc" /\ index[u] = index[v] => u = v)'
    BY <1>0, <1>1, <2>5, Zenon DEF SenderInv
  <2>10. (\A u \in Threads : pc[u] = "free" => count[u] > 0 /\ index[u] + count[u] <= N)'
    BY <1>0, <1>1, <2>3, <2>4 DEF SenderInv
  <2> QED BY <2>6, <2>7, <2>8, <2>9, <2>10, Zenon DEF SenderInv
<1>4. FlagsInv'
  <2>1. \A u \in Threads, k \in Index : u # t => (InFree(u, k)' <=> InFree(u, k))
    BY <1>0, <1>1, Zenon DEF InFree, TypeOK
  <2>2. \A k \in Index : ~InFree(t, k)
    BY <1>1, Zenon DEF InFree
  <2>3. \A k \in Index : InFree(t, k)' <=> InLive(i, k)
    BY <1>0, <1>1, <1>a, <1>b, Zenon DEF InFree, InLive, TypeOK
  <2>4. \A k \in Index : ~InLive(i, k)'
    BY <1>0, <1>1, Zenon DEF InLive, NoSender, TypeOK
  <2>5. \A j, k \in Index : j # i => (InLive(j, k)' <=> InLive(j, k))
    BY <1>0, <1>1, Zenon DEF InLive, TypeOK
  <2>6. (\A j, l, k \in Index : InLive(j, k) /\ InLive(l, k) => j = l)'
    BY <1>0, <2>4, <2>5, Zenon DEF FlagsInv
  <2>7. (\A u, v \in Threads, k \in Index : InFree(u, k) /\ InFree(v, k) => u = v)'
    BY <1>0, <1>1, <2>1, <2>3 DEF FlagsInv
  <2>8. (\A j, k \in Index, u \in Threads : ~(InLive(j, k) /\ InFree(u, k)))'
    BY <1>0, <1>1, <2>1, <2>3, <2>4, <2>5 DEF FlagsInv
  <2>9. (\A k \in Index :
          useFlag[k] <=> (\E j \in Index : InLive(j, k)) \/ (\E u \in Threads : InFree(u, k)))'
    <3> SUFFICES ASSUME NEW k \in Index
                 PROVE  useFlag[k] <=> \/ \E j \in Index : InLive(j, k)'
                                      \/ \E u \in Threads : InFree(u, k)'
      BY <1>1, Zenon
    <3>1. useFlag[k] <=> (\E j \in Index : InLive(j, k)) \/ (\E u \in Threads : InFree(u, k))
      BY <1>0, Zenon DEF FlagsInv
    <3> QED BY <1>1, <3>1, <2>1, <2>2, <2>3, <2>4, <2>5, Zenon
  <2> QED BY <2>6, <2>7, <2>8, <2>9, Zenon DEF FlagsInv
<1>5. \A u \in Threads \ {t} : pc'[u] = pc[u] /\ size'[u] = size[u] /\ count'[u] = count[u]
  BY <1>0, <1>1, Zenon DEF TypeOK
<1>6. QED
  BY <1>0, <1>1, <1>2, <1>3, <1>4, <1>5, ScanKept, Zenon DEF IndInv, NoAssert

(* SendPool::DeAlloc: every flag of the run is set, and is cleared. *)
LEMMA PoolDeAllocIndInv ==
    ASSUME IndInv, NEW t \in Threads, PoolDeAlloc(t)
    PROVE  IndInv'
<1> USE NAssumption, NoneAssumption
<1>a. PICK i, c : i = index[t] /\ c = count[t]
  BY Zenon
<1>0. TypeOK /\ SenderInv /\ FlagsInv /\ NoAssert /\ scan = NoScan /\ holder = None /\ pc[t] = "free"
  BY Zenon DEF IndInv, PoolDeAlloc
<1>1. i \in Index /\ i \in Nat /\ c \in Nat /\ c > 0 /\ i + c <= N
  BY <1>0, <1>a DEF TypeOK, SenderInv, Index
<1>2. \A k \in Index : InFree(t, k) <=> k \in i..(i + c - 1)
  BY <1>0, <1>1, <1>a DEF InFree, Index
<1>3. i..(i + c - 1) \subseteq Index
  BY <1>1 DEF Index
<1>4. \A k \in i..(i + c - 1) : useFlag[k]
  BY <1>0, <1>2, <1>3, Zenon DEF FlagsInv
<1>b. ~(c > N) /\ ~(i >= N)
  BY <1>1 DEF Index
<1>5. /\ useFlag' = [k \in Index |-> useFlag[k] /\ k \notin i..(i + c - 1)]
      /\ useSize' = (useSize - c * ChunkSize) % Width
      /\ pc' = [pc EXCEPT ![t] = "idle"]
      /\ size' = [size EXCEPT ![t] = 0]
      /\ index' = [index EXCEPT ![t] = 0]
      /\ count' = [count EXCEPT ![t] = 0]
      /\ UNCHANGED <<sender, refs, need, holder, scan, crash>>
  BY <1>4, <1>a, <1>b, Zenon DEF PoolDeAlloc, Leave, Goto
<1>6. TypeOK'
  <2>1. useSize' \in 0..Width - 1
    <3>1. useSize - c * ChunkSize \in Int
      BY <1>0, <1>1, SizeAssumption DEF TypeOK
    <3> QED BY <3>1, <1>5, ModRange, Zenon
  <2>2. 0 \in Index
    BY DEF Index
  <2>3. useFlag' \in [Index -> BOOLEAN]
    BY <1>5, Zenon
  <2>4. /\ pc' \in [Threads -> {"idle", "scan", "take", "dealloc", "free"}]
        /\ size' \in [Threads -> Nat]
        /\ index' \in [Threads -> Index]
        /\ count' \in [Threads -> Nat]
        /\ \A u \in Threads : pc'[u] \in {"scan", "take"} <=> holder' = u
    BY <1>0, <1>5, <2>2, Zenon DEF TypeOK
  <2> QED BY <1>0, <1>5, <2>1, <2>3, <2>4, Zenon DEF TypeOK
<1>7. SenderInv'
  BY <1>0, <1>5 DEF SenderInv, TypeOK
<1>8. FlagsInv'
  <2>1. \A u \in Threads, k \in Index : u # t => (InFree(u, k)' <=> InFree(u, k))
    BY <1>0, <1>5, Zenon DEF InFree, TypeOK
  <2>2. \A k \in Index : ~InFree(t, k)'
    BY <1>0, <1>5, Zenon DEF InFree, TypeOK
  <2>3. \A j, k \in Index : InLive(j, k)' <=> InLive(j, k)
    BY <1>5, Zenon DEF InLive
  <2>4. \A k \in Index : useFlag'[k] <=> useFlag[k] /\ ~InFree(t, k)
    BY <1>0, <1>2, <1>5, ZenonT(30) DEF TypeOK
  <2>5. (\A j, l, k \in Index : InLive(j, k) /\ InLive(l, k) => j = l)'
    BY <1>0, <2>3, Zenon DEF FlagsInv
  <2>6. (\A u, v \in Threads, k \in Index : InFree(u, k) /\ InFree(v, k) => u = v)'
    BY <1>0, <2>1, <2>2, ZenonT(30) DEF FlagsInv
  <2>7. (\A j, k \in Index, u \in Threads : ~(InLive(j, k) /\ InFree(u, k)))'
    BY <1>0, <2>1, <2>2, <2>3, ZenonT(30) DEF FlagsInv
  <2>8. (\A k \in Index :
          useFlag[k] <=> (\E j \in Index : InLive(j, k)) \/ (\E u \in Threads : InFree(u, k)))'
    <3> SUFFICES ASSUME NEW k \in Index
                 PROVE  useFlag'[k] <=> \/ \E j \in Index : InLive(j, k)'
                                       \/ \E u \in Threads : InFree(u, k)'
      BY Zenon
    <3>1. useFlag[k] <=> (\E j \in Index : InLive(j, k)) \/ (\E u \in Threads : InFree(u, k))
      BY <1>0, Zenon DEF FlagsInv
    <3>2. InFree(t, k) => (\A j \in Index : ~InLive(j, k)) /\ (\A u \in Threads : InFree(u, k) => u = t)
      BY <1>0, Zenon DEF FlagsInv
    <3> QED BY <3>1, <3>2, <2>1, <2>2, <2>3, <2>4, Zenon
  <2> QED BY <2>5, <2>6, <2>7, <2>8, Zenon DEF FlagsInv
<1>9. QED
  BY <1>0, <1>5, <1>6, <1>7, <1>8, Zenon DEF IndInv, NoAssert

LEMMA NextIndInv ==
    ASSUME IndInv, [Next]_vars
    PROVE  IndInv'
<1>1. CASE UNCHANGED vars
  <2>1. TypeOK' /\ (NoAssert' <=> NoAssert)
    BY <1>1, Zenon DEF vars, IndInv, TypeOK, NoAssert
  <2>2. \A t \in Threads : ScanInv(t)' <=> ScanInv(t)
    BY <1>1, Zenon DEF vars, ScanInv
  <2>3. SenderInv'
    BY <1>1, Zenon DEF vars, IndInv, SenderInv
  <2>4. FlagsInv'
    BY <1>1, Zenon DEF vars, IndInv, FlagsInv, InLive, InFree
  <2> QED BY <1>1, <2>1, <2>2, <2>3, <2>4, Zenon DEF vars, IndInv
<1>2. CASE Next
  <2>1. ASSUME NEW t \in Threads, NEW s \in Sizes, Alloc(t, s) PROVE IndInv'
    BY <2>1, AllocIndInv, Zenon
  <2>2. ASSUME NEW t \in Threads, ScanFlag(t) PROVE IndInv'
    BY <2>2, ScanFlagIndInv, Zenon
  <2>3. ASSUME NEW t \in Threads, ScanEnd(t) PROVE IndInv'
    BY <2>3, ScanEndIndInv, Zenon
  <2>4. ASSUME NEW t \in Threads, Take(t) PROVE IndInv'
    BY <2>4, TakeIndInv, Zenon
  <2>5. ASSUME NEW t \in Threads, Exhausted(t) PROVE IndInv'
    BY <2>5, ExhaustedIndInv, Zenon
  <2>6. ASSUME NEW t \in Threads, NEW i \in Index, DropRef(t, i) PROVE IndInv'
    BY <2>6, DropRefIndInv, Zenon
  <2>7. ASSUME NEW t \in Threads, SenderDeAlloc(t) PROVE IndInv'
    BY <2>7, SenderDeAllocIndInv, Zenon
  <2>8. ASSUME NEW t \in Threads, PoolDeAlloc(t) PROVE IndInv'
    BY <2>8, PoolDeAllocIndInv, Zenon
  <2>9. ASSUME NEW i \in Index, CopyRef(i) PROVE IndInv'
    BY <2>9, CopyRefIndInv, Zenon
  <2> QED BY <1>2, <2>1, <2>2, <2>3, <2>4, <2>5, <2>6, <2>7, <2>8, <2>9, Zenon DEF Next
<1>3. QED
  BY <1>1, <1>2, Zenon

(* The invariant holds of the pool with any number of threads and chunks. *)
THEOREM IndInvHolds == Spec => []IndInv
BY InitIndInv, NextIndInv, PTL DEF Spec

-----------------------------------------------------------------------------
(* What follows from it *)

(* The runs in use, one by one *)
LEMMA RunsMember ==
    ASSUME NEW b
    PROVE  b \in Runs <=> \/ \E j \in Index : sender[j].chunk /\ b = <<j, sender[j].count>>
                          \/ \E u \in Threads : pc[u] = "free" /\ b = <<index[u], count[u]>>
BY Zenon DEF Runs, LiveRun, FreeRun, Live, Freeing

LEMMA ChunksMember ==
    ASSUME NEW i \in Index, NEW c \in Nat, NEW k
    PROVE  /\ k \in Chunks(<<i, c>>) <=> k \in i..(i + c - 1)
           /\ k \in Index => (k \in i..(i + c - 1) <=> i <= k /\ k < i + c)
BY NAssumption DEF Chunks, Index

LEMMA LiveChunks ==
    ASSUME IndInv, NEW i \in Live
    PROVE  \A k : k \in Chunks(LiveRun(i)) <=> k \in Index /\ InLive(i, k)
<1>0. TypeOK /\ SenderInv
  BY Zenon DEF IndInv
<1>a. i \in Index /\ sender[i].chunk /\ i + sender[i].count <= N
  BY <1>0, Zenon DEF Live, SenderInv
<1>1. i \in Index /\ sender[i].chunk /\ sender[i].count \in Nat /\ i + sender[i].count <= N
  BY <1>0, <1>a, Zenon DEF TypeOK
<1>2. i..(i + sender[i].count - 1) \subseteq Index
  BY <1>1, NAssumption DEF Index
<1>3. \A k : k \in Chunks(LiveRun(i)) <=> k \in i..(i + sender[i].count - 1)
  BY <1>1, ChunksMember, Zenon DEF LiveRun
<1>4. \A k \in Index : k \in i..(i + sender[i].count - 1) <=> InLive(i, k)
  BY <1>1, ChunksMember, ZenonT(30) DEF InLive
<1>5. QED
  BY <1>2, <1>3, <1>4, Zenon

LEMMA FreeChunks ==
    ASSUME IndInv, NEW t \in Freeing
    PROVE  \A k : k \in Chunks(FreeRun(t)) <=> k \in Index /\ InFree(t, k)
<1>1. t \in Threads /\ pc[t] = "free" /\ index[t] \in Index /\ count[t] \in Nat /\ index[t] + count[t] <= N
  BY Zenon DEF Freeing, IndInv, TypeOK, SenderInv
<1>2. index[t]..(index[t] + count[t] - 1) \subseteq Index
  BY <1>1, NAssumption DEF Index
<1>3. \A k : k \in Chunks(FreeRun(t)) <=> k \in index[t]..(index[t] + count[t] - 1)
  BY <1>1, ChunksMember, Zenon DEF FreeRun
<1>4. \A k \in Index : k \in index[t]..(index[t] + count[t] - 1) <=> InFree(t, k)
  BY <1>1, ChunksMember, ZenonT(30) DEF InFree
<1>5. QED
  BY <1>2, <1>3, <1>4, Zenon

LEMMA FlagsFollow == IndInv => FlagsExact
<1> SUFFICES ASSUME IndInv PROVE FlagsExact
  BY Zenon
<1>0. FlagsInv /\ Live \subseteq Index /\ Freeing \subseteq Threads
  BY Zenon DEF IndInv, Live, Freeing
<1>1. \A i, j \in Live : i # j => Disjoint(LiveRun(i), LiveRun(j))
  BY <1>0, LiveChunks, Zenon DEF FlagsInv, Disjoint
<1>2. \A t, u \in Freeing : t # u => Disjoint(FreeRun(t), FreeRun(u))
  BY <1>0, FreeChunks, Zenon DEF FlagsInv, Disjoint
<1>3. \A i \in Live, t \in Freeing : Disjoint(LiveRun(i), FreeRun(t))
  BY <1>0, LiveChunks, FreeChunks, Zenon DEF FlagsInv, Disjoint
<1>4. ASSUME NEW k \in Index PROVE useFlag[k] <=> \E b \in Runs : k \in Chunks(b)
  <2>1. (\E i \in Index : InLive(i, k)) <=> \E i \in Live : k \in Chunks(LiveRun(i))
    BY LiveChunks, Zenon DEF Live, InLive
  <2>2. (\E t \in Threads : InFree(t, k)) <=> \E t \in Freeing : k \in Chunks(FreeRun(t))
    BY FreeChunks, Zenon DEF Freeing, InFree
  <2>3. (\E b \in Runs : k \in Chunks(b)) <=>
           \/ \E i \in Live : k \in Chunks(LiveRun(i))
           \/ \E t \in Freeing : k \in Chunks(FreeRun(t))
    BY Zenon DEF Runs
  <2> QED BY <1>0, <2>1, <2>2, <2>3, Zenon DEF FlagsInv
<1>5. QED
  BY <1>1, <1>2, <1>3, <1>4, Zenon DEF FlagsExact

(* No chunk is given to two packets, and m_useFlag marks exactly the chunks *)
(* that are in use (SendPool::Alloc, Sender::DeAlloc, SendPool::DeAlloc).   *)
THEOREM FlagsExactHolds == Spec => []FlagsExact
BY IndInvHolds, FlagsFollow, PTL

(* No assertion of Sender::DeAlloc and SetSendDataChunk fails. *)
THEOREM NoAssertHolds == Spec => []NoAssert
<1>1. IndInv => NoAssert
  BY Zenon DEF IndInv
<1>2. QED
  BY <1>1, IndInvHolds, PTL

(* A packet that somebody uses lies inside its own run and inside the pool. *)
THEOREM FitsHolds == Spec => []Fits
<1>1. IndInv => Fits
  BY Zenon DEF IndInv, SenderInv, Fits
<1>2. QED
  BY <1>1, IndInvHolds, PTL

LEMMA FirstFitFollows == IndInv => FirstFit
<1> USE NAssumption
<1> SUFFICES ASSUME IndInv, NEW t \in Threads, pc[t] = "take"
             PROVE  IF \E i \in Index : Fit(i, count[t])
                    THEN /\ AllocIndex(t) \in Index
                         /\ Fit(AllocIndex(t), count[t])
                         /\ \A j \in 0..AllocIndex(t) - 1 : ~Fit(j, count[t])
                    ELSE AllocIndex(t) = -1
  BY Zenon DEF FirstFit
<1> DEFINE f == scan.flagIndex
           m == scan.maxCount
           c == count[t]
<1>0. TypeOK /\ ScanInv(t)
  BY Zenon DEF IndInv, TypeOK
<1>1. /\ f \in 0..N /\ m \in Nat /\ c \in Nat /\ c = ChunksFor(size[t]) /\ size[t] \in Sizes
      /\ m <= f /\ m <= c /\ (m = c \/ f = N)
      /\ scan.allocIndex = IF m = 0 THEN -1 ELSE f - m
  BY <1>0, Zenon DEF TypeOK, ScanInv
<1>2. c > 0
  BY <1>1, ChunksForFacts, Zenon
<1>3. \A j \in Index : j < f - m => ~Fit(j, c)
  <2> TAKE j \in Index
  <2> HAVE j < f - m
  <2>1. PICK k \in Index : j <= k /\ k < j + c /\ k < f /\ useFlag[k]
    BY <1>0, Zenon DEF ScanInv
  <2>2. k \in j..(j + c - 1)
    BY <1>1, <2>1 DEF Index
  <2> QED BY <2>1, <2>2, Zenon DEF Fit
<1>4. CASE m = c
  <2>1. AllocIndex(t) \notin {-1} /\ AllocIndex(t) \in Index /\ AllocIndex(t) + c <= N
    BY <1>1, <1>2, <1>4 DEF AllocIndex, Index
  <2>2. Fit(AllocIndex(t), c)
    BY <2>1, FoundRun DEF Fit, Index
  <2>3. \A j \in 0..AllocIndex(t) - 1 : ~Fit(j, c)
    BY <1>1, <1>2, <1>3, <1>4 DEF AllocIndex, Index
  <2> QED BY <2>1, <2>2, <2>3, Zenon
<1>5. CASE m # c
  <2>1. AllocIndex(t) = -1
    BY <1>5, <1>1, Zenon DEF AllocIndex
  <2>2. \A j \in Index : j >= f - m => ~Fit(j, c)
    BY <1>1, <1>5 DEF Fit, Index
  <2>3. \A j \in Index : ~Fit(j, c)
    BY <1>1, <1>3, <2>2 DEF Index
  <2> QED BY <2>1, <2>3, Zenon
<1>6. QED
  BY <1>4, <1>5, Zenon

(* GetAllocIndex finds the lowest run that is long enough, and fails only   *)
(* when there is none.                                                      *)
THEOREM FirstFitHolds == Spec => []FirstFit
BY IndInvHolds, FirstFitFollows, PTL

-----------------------------------------------------------------------------
(* The pool implements Blocks *)

(* A step that changes no Sender and no thread in SendPool::DeAlloc changes *)
(* no run.                                                                  *)
LEMMA RunsKept ==
    ASSUME sender' = sender,
           \A u \in Threads : (pc'[u] = "free") <=> (pc[u] = "free"),
           \A u \in Threads : pc[u] = "free" => index'[u] = index[u] /\ count'[u] = count[u]
    PROVE  Runs' = Runs
<1>1. Freeing' = Freeing /\ Live' = Live
  BY Zenon DEF Freeing, Live
<1>2. \A u \in Freeing : <<index'[u], count'[u]>> = <<index[u], count[u]>>
  BY Zenon DEF Freeing
<1>3. {<<index'[u], count'[u]>> : u \in Freeing} = {<<index[u], count[u]>> : u \in Freeing}
  BY <1>2, Zenon
<1>4. QED
  BY <1>1, <1>3, Zenon DEF Runs, LiveRun, FreeRun

(* Alloc hands out a block. *)
LEMMA TakeAllocates ==
    ASSUME IndInv, NEW t \in Threads, Take(t)
    PROVE  Abstract!Allocate
<1> USE NAssumption
<1>a. PICK i, c : i = AllocIndex(t) /\ c = count[t]
  BY Zenon
<1>0. TypeOK /\ FlagsExact /\ pc[t] = "take"
  BY FlagsFollow, Zenon DEF IndInv, Take
<1>1. /\ i \in Index /\ c \in Nat /\ c > 0 /\ i + c <= N
      /\ \A k \in Index : i <= k /\ k < i + c => ~useFlag[k]
  BY <1>a, FoundRun, Zenon DEF Take
<1>2. i \in 0..N - 1 /\ c \in 1..N /\ i \in Nat
  BY <1>1 DEF Index
<1>3. \A k \in Chunks(<<i, c>>) : k \in Index /\ ~useFlag[k]
  <2>1. \A k \in i..(i + c - 1) : k \in Index /\ i <= k /\ k < i + c
    BY <1>1, <1>2 DEF Index
  <2> QED BY <1>1, <2>1, Zenon DEF Chunks
<1>4. ~sender[i].chunk
  BY <1>1, <1>2, ClearIsUnset
<1>5. \A b \in Runs : Chunks(b) \cap Chunks(<<i, c>>) = {}
  BY <1>0, <1>3, Zenon DEF FlagsExact
<1>6. Runs' = Runs \cup {<<i, c>>}
  <2>1. /\ sender'[i].chunk /\ sender'[i].count = c
        /\ \A j \in Index \ {i} : sender'[j] = sender[j]
    BY <1>0, <1>1, <1>a, Zenon DEF Take, TypeOK
  <2>2. /\ Freeing' = Freeing
        /\ \A u \in Freeing : index'[u] = index[u] /\ count'[u] = count[u]
    BY <1>0, Zenon DEF Freeing, Take, Leave, Goto, TypeOK
  <2>3. ASSUME NEW b PROVE b \in Runs' <=> b \in Runs \/ b = <<i, c>>
    <3>1. b \in Runs' <=> \/ \E j \in Index : sender'[j].chunk /\ b = <<j, sender'[j].count>>
                          \/ \E u \in Freeing : b = <<index[u], count[u]>>
      BY <2>2, Zenon DEF Runs, LiveRun, FreeRun, Live
    <3>2. b \in Runs <=> \/ \E j \in Index : sender[j].chunk /\ b = <<j, sender[j].count>>
                         \/ \E u \in Freeing : b = <<index[u], count[u]>>
      BY Zenon DEF Runs, LiveRun, FreeRun, Live
    <3> QED BY <1>1, <1>4, <2>1, <3>1, <3>2, Zenon
  <2> QED BY <2>3, Zenon
<1>7. QED
  BY <1>1, <1>2, <1>5, <1>6, Zenon DEF Abstract!Allocate, Abstract!Chunks, Chunks

(* Sender::DeAlloc passes the run on. *)
LEMMA SenderDeAllocKeepsRuns ==
    ASSUME IndInv, NEW t \in Threads, SenderDeAlloc(t)
    PROVE  Runs' = Runs
<1>a. PICK i : i = index[t]
  BY Zenon
<1>b. PICK c : c = sender[i].count
  BY Zenon
<1>0. TypeOK
  BY Zenon DEF IndInv
<1>1. /\ i \in Index /\ pc[t] = "dealloc" /\ sender[i].chunk
      /\ sender' = [sender EXCEPT ![i] = NoSender]
      /\ count' = [count EXCEPT ![t] = c]
      /\ pc' = [pc EXCEPT ![t] = "free"]
      /\ index' = index
  BY <1>a, <1>b, SenderDeAllocFacts, Zenon
<1>2. ~sender'[i].chunk /\ \A j \in Index \ {i} : sender'[j] = sender[j]
  BY <1>0, <1>1, Zenon DEF TypeOK, NoSender
<1>3. /\ pc'[t] = "free" /\ index'[t] = i /\ count'[t] = c
      /\ \A u \in Threads \ {t} : pc'[u] = pc[u] /\ index'[u] = index[u] /\ count'[u] = count[u]
  BY <1>0, <1>1, <1>a, Zenon DEF TypeOK
<1>4. ASSUME NEW b PROVE b \in Runs' <=> b \in Runs
  <2>1. b \in Runs' <=> \/ \E j \in Index : sender'[j].chunk /\ b = <<j, sender'[j].count>>
                        \/ \E u \in Threads : pc'[u] = "free" /\ b = <<index'[u], count'[u]>>
    BY Zenon DEF Runs, LiveRun, FreeRun, Live, Freeing
  <2>2. (\E j \in Index : sender[j].chunk /\ b = <<j, sender[j].count>>) <=>
           b = <<i, c>> \/ \E j \in Index : sender'[j].chunk /\ b = <<j, sender'[j].count>>
    BY <1>1, <1>2, <1>b, Zenon
  <2>3. (\E u \in Threads : pc'[u] = "free" /\ b = <<index'[u], count'[u]>>) <=>
           b = <<i, c>> \/ \E u \in Threads : pc[u] = "free" /\ b = <<index[u], count[u]>>
    BY <1>1, <1>3, Zenon
  <2> QED BY <2>1, <2>2, <2>3, RunsMember, Zenon
<1>5. QED
  BY <1>4, Zenon

(* SendPool::DeAlloc takes the block back. *)
LEMMA PoolDeAllocGivesBack ==
    ASSUME IndInv, NEW t \in Threads, PoolDeAlloc(t)
    PROVE  Abstract!GiveBack
<1>a. PICK i, c : i = index[t] /\ c = count[t]
  BY Zenon
<1>0. TypeOK /\ SenderInv /\ FlagsInv /\ pc[t] = "free"
  BY Zenon DEF IndInv, PoolDeAlloc
<1>1. i \in Index /\ i \in Nat /\ c \in Nat /\ c > 0 /\ InFree(t, i)
  <2>1. i \in Index /\ c \in Nat /\ c > 0
    BY <1>0, <1>a, Zenon DEF TypeOK, SenderInv
  <2>2. i \in Nat /\ i <= i /\ i < i + c
    BY <2>1, NAssumption DEF Index
  <2> QED BY <1>0, <1>a, <2>1, <2>2, Zenon DEF InFree
<1>2. ASSUME NEW j \in Index, sender[j].chunk PROVE <<j, sender[j].count>> # <<i, c>>
  <2>1. ~InLive(j, i)
    BY <1>0, <1>1, Zenon DEF FlagsInv
  <2>2. j = i => sender[j].count # c
    BY <1>1, <1>2, <2>1 DEF InLive
  <2> QED BY <2>2, Zenon
<1>3. ASSUME NEW u \in Threads, u # t, pc[u] = "free" PROVE <<index[u], count[u]>> # <<i, c>>
  <2>1. ~InFree(u, i)
    BY <1>0, <1>1, <1>3, Zenon DEF FlagsInv
  <2>2. index[u] = i => count[u] # c
    BY <1>1, <1>3, <2>1 DEF InFree
  <2> QED BY <2>2, Zenon
<1>4. /\ sender' = sender /\ pc'[t] = "idle"
      /\ \A u \in Threads \ {t} : pc'[u] = pc[u] /\ index'[u] = index[u] /\ count'[u] = count[u]
  BY <1>0, Zenon DEF PoolDeAlloc, Leave, Goto, TypeOK
<1>5. ASSUME NEW b PROVE b \in Runs' <=> b \in Runs /\ b # <<i, c>>
  <2>1. b \in Runs' <=> \/ \E j \in Index : sender[j].chunk /\ b = <<j, sender[j].count>>
                        \/ \E u \in Threads : pc'[u] = "free" /\ b = <<index'[u], count'[u]>>
    BY <1>4, Zenon DEF Runs, LiveRun, FreeRun, Live, Freeing
  <2>2. (\E u \in Threads : pc'[u] = "free" /\ b = <<index'[u], count'[u]>>) <=>
           \E u \in Threads : u # t /\ pc[u] = "free" /\ b = <<index[u], count[u]>>
    BY <1>4, Zenon
  <2>3. (\E u \in Threads : pc[u] = "free" /\ b = <<index[u], count[u]>>) <=>
           \/ b = <<i, c>>
           \/ \E u \in Threads : u # t /\ pc[u] = "free" /\ b = <<index[u], count[u]>>
    BY <1>0, <1>a, Zenon
  <2> QED BY <1>2, <1>3, <2>1, <2>2, <2>3, RunsMember, Zenon
<1>6. <<i, c>> \in Runs
  BY <1>0, <1>a, RunsMember, Zenon
<1>7. Runs' = Runs \ {<<i, c>>}
  BY <1>5, Zenon
<1>8. QED
  BY <1>6, <1>7, Zenon DEF Abstract!GiveBack

(* Whatever threads allocate, share and drop, the pool hands out blocks of  *)
(* chunks that no other block in use touches, and takes each back whole.    *)
THEOREM PoolImplementsBlocks == Spec => ImplementsBlocks
<1>1. Init => Abstract!Init
  BY DEF Init, Abstract!Init, Runs, Live, Freeing, NoSender
<1>2. ASSUME IndInv, [Next]_vars PROVE [Abstract!Next]_Runs
  <2>0. TypeOK
    BY <1>2, Zenon DEF IndInv
  <2>1. CASE UNCHANGED vars
    BY <2>1, RunsKept, Zenon DEF vars
  <2>2. ASSUME NEW t \in Threads, NEW s \in Sizes, Alloc(t, s) PROVE Runs' = Runs
    BY <2>0, <2>2, RunsKept, Zenon DEF Alloc, Goto, TypeOK
  <2>3. ASSUME NEW t \in Threads, ScanFlag(t) PROVE Runs' = Runs
    BY <2>0, <2>3, RunsKept, Zenon DEF ScanFlag, Goto, TypeOK
  <2>4. ASSUME NEW t \in Threads, ScanEnd(t) PROVE Runs' = Runs
    BY <2>0, <2>4, RunsKept, Zenon DEF ScanEnd, Goto, TypeOK
  <2>5. ASSUME NEW t \in Threads, Take(t) PROVE Abstract!Next
    BY <1>2, <2>5, TakeAllocates, Zenon DEF Abstract!Next
  <2>6. ASSUME NEW t \in Threads, Exhausted(t) PROVE Runs' = Runs
    BY <2>0, <2>6, RunsKept, Zenon DEF Exhausted, Leave, Goto, TypeOK
  <2>7. ASSUME NEW t \in Threads, NEW i \in Index, DropRef(t, i) PROVE Runs' = Runs
    BY <2>0, <2>7, RunsKept, Zenon DEF DropRef, Goto, TypeOK
  <2>8. ASSUME NEW t \in Threads, SenderDeAlloc(t) PROVE Runs' = Runs
    BY <1>2, <2>8, SenderDeAllocKeepsRuns, Zenon
  <2>9. ASSUME NEW t \in Threads, PoolDeAlloc(t) PROVE Abstract!Next
    BY <1>2, <2>9, PoolDeAllocGivesBack, Zenon DEF Abstract!Next
  <2>10. ASSUME NEW i \in Index, CopyRef(i) PROVE Runs' = Runs
    BY <2>10, RunsKept, ZenonT(30) DEF CopyRef
  <2> QED BY <1>2, <2>1, <2>2, <2>3, <2>4, <2>5, <2>6, <2>7, <2>8, <2>9, <2>10, Zenon DEF Next
<1>3. QED
  BY <1>1, <1>2, IndInvHolds, PTL DEF Spec, ImplementsBlocks, Abstract!Spec
=============================================================================
