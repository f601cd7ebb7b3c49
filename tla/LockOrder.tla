------------------------------ MODULE LockOrder ------------------------------
(***************************************************************************)
(* The deadlock profiler of DhUtil (DeadLockProfiler.cpp) together with     *)
(* the write locks that call it in a debug build (Lock.cpp).                *)
(*                                                                         *)
(* A lock is known to the profiler by the name of the class that owns it    *)
(* (Macro.h: typeid(this).name()), so that locks of two objects of a class  *)
(* share a name.  PushLock runs before the thread starts to spin and        *)
(* PopLock before the lock is given up; both hold the profiler's mutex from *)
(* begin to end and are one step each.  Ids are given in the order in which *)
(* names are first seen; they count from 1 here and from 0 in the code.     *)
(* The lock itself is abstract: SpinLock checks the exchanges inside it.    *)
(***************************************************************************)
EXTENDS Integers, Sequences, SequencesExt, Graphs

CONSTANTS
    Threads,    \* threads that take locks
    Locks,      \* the locks, one for each object
    Name,       \* [Locks -> names]: the class of the object
    None,       \* no lock
    DepthBound  \* [Threads -> Nat], bound: how many guards a thread nests

VARIABLES
    idToName,   \* m_nameToId and m_idToName: names in the order of their ids
    history,    \* m_lockHistory, as the set of pairs <<prevId, lockId>>
    stack,      \* LLockStack of each thread
    held,       \* the guards of each thread whose lock is taken
    want,       \* the lock a thread spins for
    unlocking,  \* the thread is between PopLock and the release
    crash,      \* the cause given to CRASH
    report      \* the ids that DFS logs before it crashes

vars == <<idToName, history, stack, held, want, unlocking, crash, report>>

Causes == {"none", "DEADLOCK_DETECTED", "MULTIPLE_UNLOCK", "INVALID_UNLOCK",
           "LOCK_TIMEOUT"}

Init ==
    /\ idToName = <<>>
    /\ history = {}
    /\ stack = [t \in Threads |-> <<>>]
    /\ held = [t \in Threads |-> <<>>]
    /\ want = [t \in Threads |-> None]
    /\ unlocking = [t \in Threads |-> FALSE]
    /\ crash = "none"
    /\ report = <<>>

-----------------------------------------------------------------------------
(* The search: st is the state of m_discoveredOrder (0: not discovered),   *)
(* m_discoveredCount, m_finished and m_parent; back is the edge at which    *)
(* the search crashes.                                                      *)

Unvisited(n) == [order |-> [i \in 1..n |-> 0], count |-> 0, finished |-> {},
                 parent |-> [i \in 1..n |-> 0], back |-> <<>>]

(* m_lockHistory[here] in ascending order, as a std::set is traversed *)
NextSet(edges, here) ==
    SetToSortSeq({e[2] : e \in {d \in edges : d[1] = here}}, LAMBDA a, b : a < b)

(* mutant of IsBackEdge: takes there for an ancestor only when it is the root *)
IsBackEdgeRoot(st, here, there) ==
    /\ st.order[there] = 1
    /\ there \notin st.finished

IsBackEdge(st, here, there) ==
    /\ st.order[here] >= st.order[there]
    /\ there \notin st.finished

RECURSIVE DFS(_, _, _)
RECURSIVE VisitNext(_, _, _, _)
VisitNext(edges, st, here, nextSet) ==
    IF st.back # <<>> THEN st
    ELSE IF nextSet = <<>> THEN [st EXCEPT !.finished = @ \cup {here}]
    ELSE LET there == Head(nextSet)
             next == IF st.order[there] = 0
                     THEN DFS(edges, [st EXCEPT !.parent[there] = here], there)
                     ELSE IF IsBackEdge(st, here, there)
                     THEN [st EXCEPT !.back = <<here, there>>]
                     ELSE st
         IN  VisitNext(edges, next, here, Tail(nextSet))

DFS(edges, st, here) ==
    IF st.back # <<>> \/ st.order[here] # 0 THEN st
    ELSE VisitNext(edges,
                   [st EXCEPT !.count = @ + 1, !.order[here] = st.count + 1],
                   here, NextSet(edges, here))

CheckCycle(edges, n) ==
    FoldLeft(LAMBDA st, lockId : DFS(edges, st, lockId),
             Unvisited(n), [i \in 1..n |-> i])

(* The loop that logs the cycle: from here along m_parent up to there.  An  *)
(* id of 0 is an access outside m_parent, after which the walk ends.        *)
RECURSIVE WalkBack(_, _, _)
WalkBack(parent, now, there) ==
    IF now = 0 THEN <<0>>
    ELSE IF parent[now] = there THEN <<now, there>>
    ELSE <<now>> \o WalkBack(parent, parent[now], there)

-----------------------------------------------------------------------------
IdOf(names, name) == SelectInSeq(names, LAMBDA x : x = name)

(* The names after PushLock has looked the name up or given it an id *)
Known(name) ==
    IF IdOf(idToName, name) = 0 THEN Append(idToName, name) ELSE idToName

(* mutant of EdgeTo: the edge starts at the outermost lock *)
EdgeFromBottom(t, id) ==
    IF stack[t] = <<>> \/ stack[t][1] = id THEN {} ELSE {<<stack[t][1], id>>}

(* The edge from the innermost lock of the thread, unless it is the same class *)
EdgeTo(t, id) ==
    IF stack[t] = <<>> \/ Last(stack[t]) = id THEN {} ELSE {<<Last(stack[t]), id>>}

(* Lock::WriteLock up to the spin: the profiler, in one step under its mutex *)
PushLock(t, l) ==
    LET names == Known(Name[l])
        id == IdOf(names, Name[l])
        new == EdgeTo(t, id) \ history
        found == IF new = {} THEN <<>>
                 ELSE LET st == CheckCycle(history \cup new, Len(names))
                      IN  IF st.back = <<>> THEN <<>>
                          ELSE WalkBack(st.parent, st.back[1], st.back[2])
    IN  /\ want[t] = None
        /\ ~unlocking[t]
        /\ Len(held[t]) < DepthBound[t]
        /\ idToName' = names
        /\ history' = history \cup new
        /\ \/ /\ found # <<>>
              /\ crash' = "DEADLOCK_DETECTED"
              /\ report' = found
              /\ UNCHANGED <<stack, want>>
           \/ /\ found = <<>>
              /\ stack' = [stack EXCEPT ![t] = Append(@, id)]
              /\ want' = [want EXCEPT ![t] = l]
              /\ UNCHANGED <<crash, report>>
        /\ UNCHANGED <<held, unlocking>>

Free(t, l) == \A u \in Threads \ {t} : l \notin Range(held[u])

(* the exchange succeeds, or the thread already owns the lock *)
Acquire(t) ==
    /\ want[t] # None
    /\ Free(t, want[t])
    /\ held' = [held EXCEPT ![t] = Append(@, want[t])]
    /\ want' = [want EXCEPT ![t] = None]
    /\ UNCHANGED <<idToName, history, stack, unlocking, crash, report>>

(* ACQUIRE_TIMEOUT_TICK has passed *)
LockTimeout(t) ==
    /\ want[t] # None
    /\ ~Free(t, want[t])
    /\ crash' = "LOCK_TIMEOUT"
    /\ UNCHANGED <<idToName, history, stack, held, want, unlocking, report>>

(* mutant of PopLock: the first entry of the stack is removed *)
PopLockBottom(t) ==
    /\ want[t] = None /\ ~unlocking[t] /\ held[t] # <<>>
    /\ crash' = IF stack[t] = <<>> THEN "MULTIPLE_UNLOCK"
                ELSE IF Last(stack[t]) # IdOf(idToName, Name[Last(held[t])])
                THEN "INVALID_UNLOCK" ELSE "none"
    /\ stack' = [stack EXCEPT ![t] = IF crash' = "none" THEN Tail(@) ELSE @]
    /\ unlocking' = [unlocking EXCEPT ![t] = crash' = "none"]
    /\ UNCHANGED <<idToName, history, held, want, report>>

(* The innermost guard of the thread is destroyed: PopLock *)
PopLock(t) ==
    /\ want[t] = None
    /\ ~unlocking[t]
    /\ held[t] # <<>>
    /\ crash' = IF stack[t] = <<>> THEN "MULTIPLE_UNLOCK"
                ELSE IF Last(stack[t]) # IdOf(idToName, Name[Last(held[t])])
                THEN "INVALID_UNLOCK" ELSE "none"
    /\ stack' = [stack EXCEPT ![t] = IF crash' = "none" THEN Front(@) ELSE @]
    /\ unlocking' = [unlocking EXCEPT ![t] = crash' = "none"]
    /\ UNCHANGED <<idToName, history, held, want, report>>

(* The rest of WriteUnlock: the owner gives the lock, or one nesting, back *)
Release(t) ==
    /\ unlocking[t]
    /\ held' = [held EXCEPT ![t] = Front(@)]
    /\ unlocking' = [unlocking EXCEPT ![t] = FALSE]
    /\ UNCHANGED <<idToName, history, stack, want, crash, report>>

Next ==
    /\ crash = "none"
    /\ \E t \in Threads :
          \/ \E l \in Locks : PushLock(t, l)
          \/ Acquire(t)
          \/ LockTimeout(t)
          \/ PopLock(t)
          \/ Release(t)

Spec == Init /\ [][Next]_vars

-----------------------------------------------------------------------------
(* The types: ids are positions in idToName, and a stack holds ids. *)
TypeOK ==
    /\ idToName \in Seq(Range(Name))
    /\ history \subseteq (1..Len(idToName)) \X (1..Len(idToName))
    /\ stack \in [Threads -> Seq(1..Len(idToName))]
    /\ held \in [Threads -> Seq(Locks)]
    /\ want \in [Threads -> Locks \cup {None}]
    /\ unlocking \in [Threads -> BOOLEAN]
    /\ crash \in Causes
    /\ report \in Seq(0..Len(idToName))

(* CheckCycle and DFS decide exactly whether the recorded lock orders form  *)
(* a cycle: PushLock crashes with DEADLOCK_DETECTED when they do, at the    *)
(* first edge that closes one, and never otherwise.  What DFS logs before   *)
(* it crashes is a cycle of recorded orders, and the walk along m_parent    *)
(* ends without leaving the array.                                          *)
SearchExact ==
    /\ crash = "DEADLOCK_DETECTED" <=>
          HasCycle([node |-> 1..Len(idToName), edge |-> history])
    /\ crash = "DEADLOCK_DETECTED" =>
        /\ 0 \notin Range(report)
        /\ \A i \in 1..Len(report) - 1 : <<report[i + 1], report[i]>> \in history
        /\ <<report[1], Last(report)>> \in history

(* LLockStack lists the classes of the locks a thread holds or waits for,   *)
(* in the order of its guards, so that PopLock never finds another lock on  *)
(* top (INVALID_UNLOCK) or an empty stack (MULTIPLE_UNLOCK).                *)
StackAgrees ==
    /\ crash \notin {"MULTIPLE_UNLOCK", "INVALID_UNLOCK"}
    /\ \A t \in Threads :
          LET guards == IF unlocking[t] THEN Front(held[t])
                        ELSE IF want[t] = None THEN held[t]
                        ELSE Append(held[t], want[t])
          IN  stack[t] = [i \in 1..Len(guards) |-> IdOf(idToName, Name[guards[i]])]

(* The profiler and the locks agree on what each thread holds. *)
Consistent == TypeOK /\ StackAgrees

(* every thread of C spins for a lock that another thread of C holds *)
Stuck(C) ==
    \A t \in C : \E u \in C \ {t} : want[t] \in Range(held[u])

CircularWait(C) ==
    /\ C # {}
    /\ Stuck(C)
    /\ \A D \in SUBSET C \ {{}, C} : ~Stuck(D)

(* The profiler does what it is for: threads never come to wait for each    *)
(* other in a circle of locks of two or more classes, because the thread    *)
(* that would close the circle crashes in PushLock before it spins.  Locks  *)
(* of one class are not ordered (lockId != prevId) and are excepted: such a  *)
(* circle is left to the timeout of the spin (LockTimeout).                 *)
DeadlockCaught ==
    \A C \in SUBSET Threads : CircularWait(C) =>
        \A t, u \in C : Name[want[t]] = Name[want[u]]

=============================================================================
