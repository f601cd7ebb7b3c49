------------------------------ MODULE SpinLock ------------------------------
(***************************************************************************)
(* The reentrant reader/writer spin lock of DhUtil (Lock.h, Lock.cpp) and  *)
(* the RAII guards through which the server takes it.                      *)
(*                                                                         *)
(* m_lockFlag is one atomic word with two fields: the thread that owns the *)
(* lock for writing (0: nobody) and the number of read guards.  The owner  *)
(* re-enters without touching the owner field: it counts its write guards  *)
(* in m_writeCount, which is not atomic, and its read guards in the word.  *)
(* Every access to the word and every access to m_writeCount is a step.    *)
(*                                                                         *)
(* A guard object belongs to one thread and may be constructed again after *)
(* it is destroyed.  Guards are scoped, so a thread works on one guard at  *)
(* a time and destroys them in reverse order; Lock.h excludes taking a     *)
(* write guard over a read guard, so that its write guards go last.        *)
(***************************************************************************)
EXTENDS Integers, FiniteSets

CONSTANTS
  Threads,      \* the threads that use the lock
  ReadGuards,   \* the ReadLockGuard objects
  WriteGuards,  \* the WriteLockGuard objects
  By,           \* the thread that runs a guard
  Id            \* LThreadId of a thread

Guards == ReadGuards \cup WriteGuards
Free == 0       \* the owner field of EMPTY_FLAG

ASSUME GuardsAssumption ==
  /\ ReadGuards \cap WriteGuards = {}
  /\ IsFiniteSet(Guards)
  /\ By \in [Guards -> Threads]
ASSUME IdAssumption == Id \in [Threads -> Nat]

(* InitTLS has run in every thread: it hands out 1, 2, 3, ... *)
InitTLS == \A t, u \in Threads : Id[t] # Free /\ (Id[t] = Id[u] => t = u)

VARIABLES
  owner,       \* m_lockFlag & WRITE_THREAD_MASK
  readers,     \* m_lockFlag & READ_COUNT_MASK
  writeCount,  \* m_writeCount
  pc,          \* where a guard is in its constructor or destructor
  expected,    \* the local variable of ReadLock
  crashed      \* the cause given to CRASH, or "no"

vars == <<owner, readers, writeCount, pc, expected, crashed>>

WritePc == {"none", "spin", "count", "held", "release", "store"}
ReadPc == {"none", "add", "load", "cas", "held"}

Init ==
  /\ owner = Free
  /\ readers = 0
  /\ writeCount = 0
  /\ pc = [g \in Guards |-> "none"]
  /\ expected = [g \in Guards |-> 0]
  /\ crashed = "no"

Mine(g) == owner = Id[By[g]]
Goto(g, label) == pc' = [pc EXCEPT ![g] = label]
Crash(cause) == crashed' = cause

(* The thread of g is between two operations on the lock. *)
Ready(g) ==
  /\ crashed = "no"
  /\ \A h \in Guards : By[h] = By[g] => pc[h] \in {"none", "held"}

(* The thread of g holds no read guard. *)
NoReadOver(g) == \A h \in ReadGuards : By[h] = By[g] => pc[h] # "held"
-----------------------------------------------------------------------------
(* Lock::WriteLock *)

(* The owner is loaded and compared with LThreadId. *)
WriteLock(g) ==
  /\ Ready(g)
  /\ NoReadOver(g)
  /\ pc[g] = "none"
  /\ Goto(g, IF Mine(g) THEN "count" ELSE "spin")
  /\ UNCHANGED <<owner, readers, writeCount, expected, crashed>>

(* compare_exchange_strong of EMPTY_FLAG; it is retried when it fails. *)
WriteCas(g) ==
  /\ crashed = "no"
  /\ pc[g] = "spin"
  /\ owner = Free /\ readers = 0
  /\ owner' = Id[By[g]]
  /\ Goto(g, "count")
  /\ UNCHANGED <<readers, writeCount, expected, crashed>>

WriteCount(g) ==
  /\ crashed = "no"
  /\ pc[g] = "count"
  /\ writeCount' = writeCount + 1
  /\ Goto(g, "held")
  /\ UNCHANGED <<owner, readers, expected, crashed>>
-----------------------------------------------------------------------------
(* Lock::WriteUnlock *)

WriteUnlock(g) ==
  /\ Ready(g)
  /\ NoReadOver(g)
  /\ pc[g] = "held"
  /\ \/ /\ readers # 0
        /\ Crash("INVALID_UNLOCK_ORDER")
        /\ UNCHANGED pc
     \/ /\ readers = 0
        /\ Goto(g, "release")
        /\ UNCHANGED crashed
  /\ UNCHANGED <<owner, readers, writeCount, expected>>

(* Mutant: every write guard frees the lock, the outer ones too. *)
WriteReleaseAlways(g) ==
  /\ crashed = "no"
  /\ pc[g] = "release"
  /\ writeCount' = writeCount - 1
  /\ Goto(g, "store")
  /\ UNCHANGED <<owner, readers, expected, crashed>>

(* --m_writeCount and the test of its value. *)
WriteRelease(g) ==
  /\ crashed = "no"
  /\ pc[g] = "release"
  /\ writeCount' = writeCount - 1
  /\ Goto(g, IF writeCount = 1 THEN "store" ELSE "none")
  /\ UNCHANGED <<owner, readers, expected, crashed>>

WriteStore(g) ==
  /\ crashed = "no"
  /\ pc[g] = "store"
  /\ owner' = Free
  /\ readers' = 0
  /\ Goto(g, "none")
  /\ UNCHANGED <<writeCount, expected, crashed>>
-----------------------------------------------------------------------------
(* Lock::ReadLock *)

ReadLock(g) ==
  /\ Ready(g)
  /\ pc[g] = "none"
  /\ Goto(g, IF Mine(g) THEN "add" ELSE "load")
  /\ UNCHANGED <<owner, readers, writeCount, expected, crashed>>

(* fetch_add(1) by the owner. *)
ReadAdd(g) ==
  /\ crashed = "no"
  /\ pc[g] = "add"
  /\ readers' = readers + 1
  /\ Goto(g, "held")
  /\ UNCHANGED <<owner, writeCount, expected, crashed>>

ReadLoad(g) ==
  /\ crashed = "no"
  /\ pc[g] = "load"
  /\ expected' = [expected EXCEPT ![g] = readers]
  /\ Goto(g, "cas")
  /\ UNCHANGED <<owner, readers, writeCount, crashed>>

(* The expected word has no owner, so the exchange fails under a writer.   *)
(* The local variable ends with its loop iteration.                        *)
ReadCas(g) ==
  /\ crashed = "no"
  /\ pc[g] = "cas"
  /\ owner = Free /\ readers = expected[g]
  /\ readers' = expected[g] + 1
  /\ expected' = [expected EXCEPT ![g] = 0]
  /\ Goto(g, "held")
  /\ UNCHANGED <<owner, writeCount, crashed>>

ReadRetry(g) ==
  /\ crashed = "no"
  /\ pc[g] = "cas"
  /\ owner # Free \/ readers # expected[g]
  /\ expected' = [expected EXCEPT ![g] = 0]
  /\ Goto(g, "load")
  /\ UNCHANGED <<owner, readers, writeCount, crashed>>

(* Lock::ReadUnlock: fetch_sub(1). *)
ReadUnlock(g) ==
  /\ Ready(g)
  /\ pc[g] = "held"
  /\ readers' = readers - 1
  /\ Goto(g, "none")
  /\ IF readers = 0 THEN Crash("MULTIPLE_UNLOCK") ELSE UNCHANGED crashed
  /\ UNCHANGED <<owner, writeCount, expected>>

(* Mutant: readers wait without a limit. *)
TimeoutWritersOnly(g) ==
  /\ crashed = "no"
  /\ pc[g] = "spin"
  /\ owner # Free \/ readers # 0
  /\ Crash("LOCK_TIMEOUT")
  /\ UNCHANGED <<owner, readers, writeCount, pc, expected>>

(* Ten seconds of failed exchanges end the process. *)
Timeout(g) ==
  /\ crashed = "no"
  /\ \/ pc[g] = "spin" /\ (owner # Free \/ readers # 0)
     \/ pc[g] = "cas" /\ (owner # Free \/ readers # expected[g])
  /\ Crash("LOCK_TIMEOUT")
  /\ UNCHANGED <<owner, readers, writeCount, pc, expected>>
-----------------------------------------------------------------------------
WriteStep(g) == WriteCas(g) \/ WriteCount(g) \/ WriteRelease(g) \/ WriteStore(g)
ReadStep(g) == ReadAdd(g) \/ ReadLoad(g) \/ ReadCas(g) \/ ReadRetry(g)

Next ==
  \/ \E g \in WriteGuards : WriteLock(g) \/ WriteUnlock(g) \/ WriteStep(g) \/ Timeout(g)
  \/ \E g \in ReadGuards : ReadLock(g) \/ ReadUnlock(g) \/ ReadStep(g) \/ Timeout(g)

Spec == Init /\ [][Next]_vars

(* A thread inside the lock's code keeps running, and a thread whose       *)
(* exchange fails again and again finds in the end that 10 s are over.     *)
Fairness ==
  /\ \A g \in WriteGuards : WF_vars(WriteStep(g))
  /\ \A g \in ReadGuards : WF_vars(ReadStep(g))
  /\ \A g \in Guards : SF_vars(Timeout(g))

FairSpec == Spec /\ Fairness
-----------------------------------------------------------------------------
(* Every variable has its type. *)
TypeOK ==
  /\ owner \in {Free} \cup {Id[t] : t \in Threads}
  /\ readers \in Nat
  /\ writeCount \in Nat
  /\ pc \in [Guards -> WritePc \cup ReadPc]
  /\ \A g \in WriteGuards : pc[g] \in WritePc
  /\ \A g \in ReadGuards : pc[g] \in ReadPc
  /\ expected \in [Guards -> Nat]
  /\ crashed \in {"no", "LOCK_TIMEOUT", "INVALID_UNLOCK_ORDER", "MULTIPLE_UNLOCK"}

Reading == {g \in ReadGuards : pc[g] = "held"}
Counted == {g \in WriteGuards : pc[g] \in {"held", "release"}}
Owning == {g \in WriteGuards : pc[g] \in {"count", "held", "release", "store"}}

(* Lock.h: the owner thread has the lock to itself.  While a thread has a  *)
(* write guard, no other thread has a guard of either kind.                *)
Exclusive ==
  \A g \in Owning, h \in Owning \cup Reading : By[g] = By[h]

(* Well nested guards never run into the two CRASHes of the unlocks; the   *)
(* process can end only because a thread waited for ten seconds.           *)
NoUnlockCrash == crashed \in {"no", "LOCK_TIMEOUT"}

(* The two counters count the guards, whichever threads they belong to and *)
(* however their steps interleave.                                         *)
CountsExact ==
  /\ readers = Cardinality(Reading)
  /\ writeCount = Cardinality(Counted)

(* The owner field names the thread with a write guard, and is free when   *)
(* there is none.                                                          *)
OwnerExact ==
  /\ \A g \in Owning : owner = Id[By[g]]
  /\ Owning = {} => owner = Free

(* A thread is inside at most one operation of the lock. *)
OneAtATime ==
  \A g, h \in Guards : By[g] = By[h] /\ g # h =>
    pc[g] \in {"none", "held"} \/ pc[h] \in {"none", "held"}

(* What a guard relies on between two steps: a write guard is on top of    *)
(* the read guards of its thread, the last one finds nobody left, and the  *)
(* owner takes a read guard without an exchange.                           *)
GuardsAgree ==
  /\ \A g \in WriteGuards : pc[g] \in {"spin", "count", "release", "store"} => NoReadOver(g)
  /\ \A g \in WriteGuards : pc[g] = "store" => Counted = {}
  /\ \A g \in WriteGuards : pc[g] = "spin" => ~Mine(g)
  /\ \A g \in ReadGuards : pc[g] = "add" => Mine(g)

IndInv ==
  /\ TypeOK /\ Exclusive /\ NoUnlockCrash /\ CountsExact /\ OwnerExact
  /\ OneAtATime /\ GuardsAgree

(* A guard that waits for the lock gets it, or the process ends: nobody    *)
(* spins forever, although neither readers nor writers have precedence.    *)
WaitEnds ==
  \A g \in Guards : pc[g] \in {"spin", "load", "cas"} ~> pc[g] = "held" \/ crashed # "no"
=============================================================================
