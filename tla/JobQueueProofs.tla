--------------------------- MODULE JobQueueProofs ---------------------------
(***************************************************************************)
(* Proofs about JobQueue for any sets of threads, queues and jobs.         *)
(*                                                                         *)
(* OneExecutor alone is not inductive: whether a second thread may enter   *)
(* Execute depends on m_jobCount being zero only when nobody is            *)
(* responsible for the queue.  IndInv adds where the responsibility for a  *)
(* queue can be (OneHolder), that a held queue has counted jobs            *)
(* (HeldHasJobs), what m_jobCount counts (JobCountExact) and the life of a *)
(* one-off queue (OneOffsFresh).                                           *)
(*                                                                         *)
(* JobQueueHolders has the types and the steps of Push; here are the       *)
(* responsibility for a queue in the steps of Execute and of the worker    *)
(* loop, the initial states, the counters, and the theorems on invariants. *)
(*                                                                         *)
(* The last section shows that the queues implement SerialQueues.  By      *)
(* OneExecutor the jobs that LeftOf and RunningOf choose are those of the  *)
(* one executor a queue has (Views), so each step of that thread is a step *)
(* of the abstract queue; JobsOnce (a job about to be enqueued is with one *)
(* thread and nowhere else) is what Submit asks for.                       *)
(***************************************************************************)
EXTENDS JobQueueHolders, FiniteSetTheorems

(* A helper passes its one-off queue to GGlobalQueue. *)
LEMMA HolderPushOneOff ==
  ASSUME IndInv, NEW t \in Helpers, PushOneOff(t)
  PROVE  HolderInv'
  <1> USE DEF pushVars, execVars, loopVars
  <1>s. PushOneOff(t)
    BY Zenon
  <1>0. TypeOK
    BY Zenon DEF IndInv
  <1>1. t \in Threads /\ oneOff[t] \in OneOffs /\ oneOff[t] \in AllQueues /\ t \in Making(oneOff[t])
    BY <1>0, <1>s, Zenon DEF PushOneOff, Threads, TypeOK, Making, AllQueues
  <1>2. /\ oneOff[t] \notin InGlobal /\ oneOff[t] \in made
        /\ \A r \in AllQueues : t \notin Pushing(r) /\ t \notin Executing(r)
    BY <1>s, <1>1, Zenon DEF PushOneOff, Idle, IndInv, OneHolder, OneOffsFresh, Holders, Pushing,
       Executing
  <1>3. \A u \in Holders(oneOff[t]) : u = t
    BY <1>1, Zenon DEF IndInv, OneHolder, Holders
  <1>4. \A r \in AllQueues : Pushing(r)' = Pushing(r) /\ Executing(r)' = Executing(r)
    BY <1>s, Zenon DEF PushOneOff, Pushing, Executing
  <1>5. \A r \in AllQueues : Making(r)' = IF r = oneOff[t] THEN Making(r) \ {t} ELSE Making(r)
    BY <1>0, <1>s, NoneAssumption DEF PushOneOff, Idle, Making, TypeOK
  <1>6. \A r \in AllQueues : /\ Holders(r)' = IF r = oneOff[t] THEN {} ELSE Holders(r)
                             /\ Pushing(r)' \cap Executing(r)' = {}
    BY <1>2, <1>3, <1>4, <1>5 DEF IndInv, OneHolder, Holders
  <1>7. \A u \in Threads, r \in OneOffs : oneOff'[u] = r => oneOff[u] = r /\ u # t
    BY <1>0, <1>s, NoneAssumption DEF PushOneOff, TypeOK, AllQueues
  <1>8. \A u \in Threads, r \in OneOffs : oneOff'[u] = r => oneOff[u] = r /\ r # oneOff[t]
    BY <1>3, <1>7, Zenon DEF IndInv, OneOffsHeld
  <1>9. Responsible'
    BY <1>s, <1>1, <1>2, <1>6, <1>8, HolderGone, Zenon DEF PushOneOff
  <1>10. OneOffsPushed'
    BY <1>s DEF PushOneOff, Idle, IndInv, OneOffsPushed
  <1>11. OneOffsKept' /\ OneOffsEmptied'
    BY <1>s, <1>4, EmptiedKept, Zenon DEF PushOneOff, Taking, AllQueues, IndInv, OneOffsKept
  <1> QED BY <1>9, <1>10, <1>11, Zenon DEF HolderInv, Responsible

(* An executor gives up a queue only with its count at zero. *)
LEMMA HolderExecuteDrained ==
  ASSUME IndInv, NEW t \in Threads, ExecuteDrained(t)
  PROVE  HolderInv'
  <1> USE DEF pushVars, execVars, loopVars
  <1>s. ExecuteDrained(t)
    BY Zenon
  <1>0. TypeOK /\ LocalsAgree
    BY Zenon DEF IndInv
  <1>1. /\ self[t] \in AllQueues /\ t \in Executing(self[t]) /\ pushPc[t] = "none"
        /\ \A r \in AllQueues : t \notin Making(r)
    BY <1>0, <1>s DEF ExecuteDrained, SubtractTaken, TypeOK, LocalsAgree, Executing,
       Making, Idle
  <1>2. jobCount'[self[t]] = 0 /\ \A r \in AllQueues : r # self[t] => jobCount'[r] = jobCount[r]
    BY <1>0, <1>s, <1>1 DEF ExecuteDrained, SubtractTaken, TypeOK
  <1>3. oneOff[t] # None => oneOff[t] = self[t]
    BY <1>1, Zenon DEF IndInv, OneOffsHeld, TypeOK, Holders, Pushing, Executing, Making, Idle
  <1>4. \A r \in Queues : oneOff[t] # r
    BY <1>0, QueuesAssumption, NoneAssumption DEF TypeOK, AllQueues
  <1>5. self[t] \notin InGlobal /\ \A u \in Holders(self[t]) : u = t
    BY <1>1, Zenon DEF IndInv, OneHolder, Holders
  <1>6. UNCHANGED <<jobs, globalQueue, pushVars, oneOff, made>> /\ InGlobal' = InGlobal
    BY <1>s DEF ExecuteDrained, SubtractTaken, InGlobal
  <1>7. \A r \in AllQueues :
          /\ Pushing(r)' = Pushing(r)
          /\ Executing(r)' = IF r = self[t] THEN Executing(r) \ {t} ELSE Executing(r)
    BY <1>0, <1>s, <1>6 DEF ExecuteDrained, Pushing, Executing, TypeOK
  <1>8. \A r \in AllQueues : Making(r)' = IF r = self[t] /\ r = oneOff[t] THEN Making(r) \cup {t} ELSE Making(r)
    BY <1>0, <1>s, <1>1, <1>3, <1>6, NoneAssumption DEF ExecuteDrained, Making, TypeOK, Idle
  <1>9. /\ \A r \in AllQueues : r # self[t] => Holders(r)' = Holders(r)
        /\ \A r \in AllQueues : r = self[t] /\ r = oneOff[t] => Holders(r)' = {t}
        /\ \A r \in AllQueues : r = self[t] /\ r # oneOff[t] => Holders(r)' = {}
    BY <1>7, <1>8, <1>1 DEF IndInv, OneHolder, Holders
  <1>10. OneHolder'
    BY <1>5, <1>6, <1>7, <1>9 DEF IndInv, OneHolder
  <1>11. HeldHasJobs'
    BY <1>2, <1>4, <1>5, <1>6, <1>9, Zenon DEF IndInv, HeldHasJobs, AllQueues
  <1>12. NotStranded'
    BY <1>2, <1>6, <1>9, Zenon DEF IndInv, NotStranded
  <1>13. OneOffsFresh'
    BY <1>1, <1>2, <1>6, <1>9 DEF IndInv, OneOffsFresh, Holders, AllQueues
  <1>14. OneOffsHeld'
    BY <1>5, <1>6, <1>9 DEF IndInv, OneOffsHeld, AllQueues
  <1>15. OneOffsPushed' /\ OneOffsKept'
    BY <1>s, <1>1, <1>6 DEF ExecuteDrained, SubtractTaken, IndInv, OneOffsPushed, OneOffsKept
  <1>16. OneOffsEmptied'
    BY <1>s, <1>6, <1>7, EmptiedKept DEF ExecuteDrained, SubtractTaken, Taking, AllQueues
  <1> QED BY <1>10, <1>11, <1>12, <1>13, <1>14, <1>15, <1>16, Zenon DEF HolderInv

(* The executor passes its queue to GGlobalQueue. *)
LEMMA HolderRequeue ==
  ASSUME IndInv, NEW t \in Threads, Requeue(t)
  PROVE  HolderInv'
  <1> USE DEF pushVars, execVars, loopVars
  <1>s. Requeue(t)
    BY Zenon
  <1>0. TypeOK
    BY Zenon DEF IndInv
  <1>1. /\ self[t] \in Queues /\ self[t] \in AllQueues /\ t \in Executing(self[t])
        /\ pushPc[t] = "none"
    BY <1>s, Zenon DEF Requeue, IndInv, OneOffsKept, LocalsAgree, AllQueues, Executing
  <1>2. jobCount[self[t]] # 0
    BY <1>1, Zenon DEF IndInv, HeldHasJobs, Holders
  <1>3. oneOff[t] = None
    BY <1>1, QueuesAssumption, Zenon DEF IndInv, OneOffsHeld, Holders, Pushing, Executing, Making,
       Idle, TypeOK
  <1>4. self[t] \notin InGlobal /\ t \notin Pushing(self[t]) /\ \A r \in AllQueues : t \notin Making(r)
    BY <1>1, <1>3, NoneAssumption, Zenon DEF IndInv, OneHolder, Holders, Making
  <1>5. \A r \in AllQueues :
          /\ Pushing(r)' = Pushing(r)
          /\ Executing(r)' = IF r = self[t] THEN Executing(r) \ {t} ELSE Executing(r)
    BY <1>0, <1>s DEF Requeue, Pushing, Executing, TypeOK
  <1>6. \A r \in AllQueues : Making(r)' = Making(r)
    BY <1>s, <1>3, NoneAssumption DEF Requeue, Making, Idle
  <1>7. \A r \in AllQueues : /\ Holders(r)' = IF r = self[t] THEN {} ELSE Holders(r)
                             /\ Pushing(r)' \cap Executing(r)' = {}
    BY <1>5, <1>6, <1>1, <1>4 DEF IndInv, OneHolder, Holders
  <1>8. Responsible'
    BY <1>s, <1>1, <1>2, <1>4, <1>7, QueuesAssumption, HolderGone DEF Requeue
  <1>9. OneOffsPushed' /\ OneOffsKept'
    BY <1>0, <1>s DEF Requeue, IndInv, OneOffsPushed, OneOffsKept, TypeOK
  <1>10. \A r \in OneOffs : jobs'[r] # <<>> =>
           Taking(r)' # {} \/ (jobs[r] # <<>> /\ Taking(r) \subseteq Taking(r)')
    BY <1>s, <1>5 DEF Requeue, Taking, AllQueues
  <1> QED BY <1>8, <1>9, <1>10, EmptiedKept, Zenon DEF HolderInv, Responsible

(* A worker that pops a queue becomes its only holder. *)
LEMMA HolderGlobalPop ==
  ASSUME IndInv, NEW t \in Workers, GlobalPop(t)
  PROVE  HolderInv'
  <1> USE DEF pushVars, execVars, loopVars
  <1>s. GlobalPop(t)
    BY Zenon
  <1>0. TypeOK
    BY Zenon DEF IndInv
  <1>1. t \in Threads /\ oneOff[t] = None
    BY ThreadsAssumption, Zenon DEF Threads, IndInv, OneOffsHeld, TypeOK
  <1>2. PICK q \in AllQueues : /\ q = Head(globalQueue)
                               /\ q \in InGlobal /\ Holders(q) = {}
    BY <1>s, GlobalIsEntries, GlobalTail DEF GlobalPop, IndInv, OneHolder
  <1>3. /\ Idle(t) /\ UNCHANGED <<jobCount, jobs, pushVars, oneOff, made>>
        /\ self' = [self EXCEPT ![t] = q] /\ execPc' = [execPc EXCEPT ![t] = "popall"]
    BY <1>s, <1>2, Zenon DEF GlobalPop, EnterExecute
  <1>4. \A r \in AllQueues : t \notin Making(r)
    BY <1>1, NoneAssumption, Zenon DEF Making
  <1>5. \A r \in AllQueues :
          /\ Pushing(r)' = Pushing(r)
          /\ Executing(r)' = IF r = q THEN Executing(r) \cup {t} ELSE Executing(r)
    BY <1>0, <1>1, <1>3 DEF Idle, Pushing, Executing, TypeOK
  <1>6. \A r \in AllQueues : Making(r)' = Making(r)
    BY <1>3, <1>4 DEF Idle, Making
  <1>7. \A r \in AllQueues : /\ Holders(r)' = IF r = q THEN {t} ELSE Holders(r)
                             /\ Pushing(r)' \cap Executing(r)' = {}
    BY <1>2, <1>5, <1>6 DEF IndInv, OneHolder, Holders
  <1>8. InGlobal' = InGlobal \ {q} /\ Distinct(globalQueue')
    BY <1>s, <1>2, GlobalIsEntries, GlobalTail, Zenon DEF GlobalPop
  <1>9. OneHolder'
    BY <1>7, <1>8 DEF IndInv, OneHolder, Distinct
  <1>10. HeldHasJobs' /\ NotStranded'
    BY <1>2, <1>3, <1>7, <1>8, Zenon DEF IndInv, HeldHasJobs, NotStranded, AllQueues
  <1>11. OneOffsFresh' /\ OneOffsHeld'
    BY <1>2, <1>3, <1>7, <1>8 DEF IndInv, OneOffsFresh, OneOffsHeld, AllQueues
  <1>12. OneOffsPushed' /\ OneOffsKept'
    BY <1>0, <1>3, Zenon DEF Idle, IndInv, OneOffsPushed, OneOffsKept, TypeOK
  <1>13. OneOffsEmptied'
    BY <1>1, <1>3, <1>5, EmptiedKept DEF Idle, Taking, AllQueues
  <1> QED BY <1>9, <1>10, <1>11, <1>12, <1>13, Zenon DEF HolderInv

(* An executor that finds more jobs stays in charge: with time left it     *)
(* goes on, otherwise it is about to requeue.                              *)
LEMMA HolderExecuteMore ==
  ASSUME IndInv, Counts, NEW t \in Threads, ExecuteAgain(t) \/ ExecuteTimeUp(t)
  PROVE  HolderInv'
  <1> USE DEF pushVars, loopVars
  <1>0. TypeOK /\ LocalsAgree
    BY Zenon DEF IndInv
  <1>1. PICK pc \in {"popall", "requeue"} :
          /\ SubtractTaken(t) /\ jobCount[self[t]] # taken[t] /\ self' = self
          /\ execPc' = [execPc EXCEPT ![t] = pc]
    BY Zenon DEF ExecuteAgain, ExecuteTimeUp
  <1>2. self[t] \in Queues /\ self[t] \in AllQueues /\ t \in Executing(self[t])
    BY <1>0, <1>1 DEF Counts, SubtractTaken, TypeOK, LocalsAgree, Executing, AllQueues
  <1>3. \A r \in AllQueues : jobCount'[r] = 0 <=> jobCount[r] = 0
    BY <1>0, <1>1, <1>2 DEF SubtractTaken, TypeOK, IndInv, HeldHasJobs, Holders
  <1>4. \A r \in AllQueues : /\ Pushing(r)' = Pushing(r)
                             /\ Executing(r)' = Executing(r)
                             /\ Making(r)' = Making(r)
    BY <1>0, <1>1, Zenon DEF SubtractTaken, Pushing, Executing, Making, Idle, TypeOK
  <1>5. \A r \in AllQueues : Holders(r)' = Holders(r) /\ Pushing(r)' \cap Executing(r)' = {}
    BY <1>4, Zenon DEF Holders, IndInv, OneHolder, TypeOK
  <1>6. Responsible'
    BY <1>1, <1>3, <1>5, HoldersKept, Zenon DEF SubtractTaken, IndInv, TypeOK
  <1>7. OneOffsPushed' /\ OneOffsKept'
    <2>1. UNCHANGED <<pushPc, pushQ, prevCount, oneOff>> /\ pushPc[t] = "none"
      BY <1>0, <1>1, ZenonT(30) DEF SubtractTaken, LocalsAgree
    <2>2. OneOffsPushed'
      BY <1>0, <1>1, <2>1, ZenonT(30) DEF IndInv, OneOffsPushed, TypeOK
    <2>3. OneOffsKept'
      BY <1>0, <1>1, <1>2, ZenonT(30) DEF IndInv, OneOffsKept, TypeOK
    <2> QED BY <2>2, <2>3, Zenon
  <1>8. OneOffsEmptied'
    BY <1>1, <1>4, EmptiedKept DEF SubtractTaken, Taking, AllQueues
  <1> QED BY <1>6, <1>7, <1>8, Zenon DEF HolderInv, Responsible

(* A step that moves no responsibility and touches no counter or queue. *)
LEMMA HolderFrame ==
  ASSUME IndInv, UNCHANGED <<jobCount, jobs, globalQueue, pushVars, self, oneOff, made>>,
         \A u \in Threads : /\ execPc'[u] = "none" <=> execPc[u] = "none"
                            /\ execPc'[u] = "popall" <=> execPc[u] = "popall"
                            /\ execPc'[u] = "requeue" <=> execPc[u] = "requeue"
  PROVE  HolderInv'
  <1> USE DEF pushVars
  <1>1. \A r \in AllQueues : /\ Pushing(r)' = Pushing(r)
                             /\ Executing(r)' = Executing(r)
                             /\ Making(r)' = Making(r)
    BY Zenon DEF Pushing, Executing, Making, Idle
  <1>2. \A r \in AllQueues : Holders(r)' = Holders(r) /\ Pushing(r)' \cap Executing(r)' = {}
    BY <1>1, Zenon DEF Holders, IndInv, OneHolder
  <1>3. Responsible'
    BY <1>2, HoldersKept, Zenon
  <1>4. OneOffsPushed' /\ OneOffsKept'
    BY Zenon DEF IndInv, OneOffsPushed, OneOffsKept
  <1>5. OneOffsEmptied'
    BY <1>1, EmptiedKept, Zenon DEF Taking, AllQueues
  <1> QED BY <1>3, <1>4, <1>5, Zenon DEF HolderInv, Responsible

(* Starting and ending a job move no responsibility. *)
LEMMA HolderJob ==
  ASSUME IndInv, NEW t \in Threads, StartJob(t) \/ FinishJob(t)
  PROVE  HolderInv'
  <1>1. execPc \in [Threads -> {"none", "popall", "loop", "job", "requeue"}]
    BY Zenon DEF IndInv, TypeOK
  <1>2. CASE StartJob(t)
    BY <1>1, <1>2, HolderFrame, Zenon DEF StartJob, loopVars
  <1>3. CASE FinishJob(t)
    BY <1>1, <1>3, HolderFrame, Zenon DEF FinishJob, loopVars
  <1> QED BY <1>2, <1>3, Zenon

(* The steps of the worker loop that take nothing, and stuttering. *)
LEMMA HolderLoop ==
  ASSUME IndInv, UNCHANGED vars \/ \E t \in Workers : DispatchReturn(t) \/ GlobalQuit(t)
  PROVE  HolderInv'
  BY HolderFrame, Zenon DEF DispatchReturn, GlobalQuit, vars, execVars, loopVars

(* Every step keeps the responsibility for a queue in one place. *)
LEMMA HolderStep ==
  IndInv /\ Counts /\ [Next]_vars => HolderInv'
  BY HolderDoAsync, HolderPushGlobalQueue, HolderEnqueue, HolderPushReturn,
     HolderPushDelegate, HolderPushExecute, HolderPopAll, HolderJob,
     HolderExecuteDrained, HolderExecuteMore, HolderRequeue, HolderGlobalPop,
     HolderPushOneOff, HolderLoop, ZenonT(30)
     DEF Next, PushStep, ExecStep, LoopStep

-----------------------------------------------------------------------------
(* Initially every queue is empty and no thread is in Push or Execute. *)
LEMMA InitInv == Init => IndInv
  <1> SUFFICES ASSUME Init PROVE IndInv
    BY Zenon
  <1> USE NoneAssumption DEF Init
  <1>1. TypeOK
    BY DEF TypeOK
  <1>2. LocalsAgree
    BY Zenon DEF LocalsAgree
  <1>3. InGlobal = {} /\ \A q \in AllQueues : Holders(q) = {}
    BY DEF InGlobal, Holders, Pushing, Executing, Making
  <1>4. OneHolder
    BY <1>3 DEF OneHolder, Executing
  <1>5. HeldHasJobs /\ NotStranded
    BY <1>3, Zenon DEF HeldHasJobs, NotStranded, AllQueues
  <1>6. OneOffsFresh /\ OneOffsHeld /\ OneOffsPushed /\ OneOffsKept /\ OneOffsEmptied
    BY <1>3, Zenon DEF OneOffsFresh, OneOffsHeld, OneOffsPushed, OneOffsKept, OneOffsEmptied, AllQueues
  <1>7. JobCountExact
    <2>1. \A q \in AllQueues : Counted(q) = {}
      BY Zenon DEF Counted
    <2>2. \A q \in AllQueues : Len(jobs[q]) = 0 /\ Cardinality(Counted(q)) = 0
      BY <2>1, FS_EmptySet, ZenonT(30)
    <2> QED BY <2>2 DEF JobCountExact, Waiting
  <1> QED BY <1>1, <1>2, <1>4, <1>5, <1>6, <1>7, Zenon DEF IndInv

-----------------------------------------------------------------------------

-----------------------------------------------------------------------------
(* What m_jobCount counts. *)

(* A thread that counts a job, or enqueues the job it counted. *)
LEMMA CountedSize ==
  ASSUME NEW S, NEW t, IsFiniteSet(S)
  PROVE  /\ Cardinality(S) \in Nat
         /\ t \notin S => Cardinality(S \cup {t}) = Cardinality(S) + 1
         /\ t \in S => Cardinality(S \ {t}) = Cardinality(S) - 1
  BY FS_CardinalityType, FS_AddElement, FS_RemoveElement, ZenonT(30)

(* m_jobCount of the queue q counts what waits and what its executor took. *)
Exact(q) ==
  /\ \A t \in Threads : InExecute(t, q) => jobCount[q] = Waiting(q) + taken[t]
  /\ (\A t \in Threads : ~InExecute(t, q)) => jobCount[q] = Waiting(q)

LEMMA ExactNow ==
  ASSUME IndInv, NEW q \in AllQueues
  PROVE  /\ Exact(q)
         /\ IsFiniteSet(Counted(q)) /\ Cardinality(Counted(q)) \in Nat
         /\ jobs[q] \in Seq(Jobs) /\ Len(jobs[q]) \in Nat /\ jobCount[q] \in Int
         /\ Waiting(q) \in Nat /\ \A t \in Threads : taken[t] \in Nat
         /\ \A t, u \in Threads : InExecute(t, q) /\ InExecute(u, q) => t = u
  <1>1. Counted(q) \subseteq Threads
    BY Zenon DEF Counted
  <1>2. IsFiniteSet(Counted(q)) /\ Cardinality(Counted(q)) \in Nat
    BY <1>1, ThreadsAssumption, FS_Subset, FS_CardinalityType, Zenon
  <1>3. /\ jobs[q] \in Seq(Jobs) /\ Len(jobs[q]) \in Nat /\ jobCount[q] \in Int
        /\ \A t \in Threads : taken[t] \in Nat
    BY DEF IndInv, TypeOK
  <1>4. Exact(q)
    BY Zenon DEF IndInv, JobCountExact, Exact
  <1>5. \A t, u \in Threads : InExecute(t, q) /\ InExecute(u, q) => t = u
    BY Zenon DEF IndInv, OneHolder, Holders, Executing, InExecute
  <1> QED BY <1>2, <1>3, <1>4, <1>5 DEF Waiting

(* The counters are never negative, and Execute of a one-off queue always  *)
(* ends by ExecuteDrained: nobody else can have pushed to the queue, so    *)
(* nothing is left after the batch.                                        *)
LEMMA CountsFollow == IndInv => Counts
  <1> SUFFICES ASSUME IndInv PROVE Counts
    BY Zenon
  <1>1. ASSUME NEW q \in AllQueues PROVE jobCount[q] \in Nat
    BY ExactNow DEF Exact
  <1>2. ASSUME NEW t \in Threads, execPc[t] \in {"loop", "job"}, self[t] \in OneOffs
        PROVE  jobCount[self[t]] = taken[t]
    <2> DEFINE q == self[t]
    <2>1. q \in AllQueues /\ t \in Executing(q) /\ InExecute(t, q)
      BY <1>2, Zenon DEF AllQueues, Executing, InExecute
    <2>2. Executing(q) = {t} /\ Pushing(q) = {}
      BY <2>1 DEF IndInv, OneHolder, Holders
    <2>3. Counted(q) = {}
      BY <1>2, <2>2, Zenon DEF Counted, IndInv, OneOffsPushed, Pushing
    <2>4. jobs[q] = <<>>
      BY <1>2, <2>2, Zenon DEF IndInv, OneOffsEmptied, Taking, Executing
    <2>5. Waiting(q) = 0
      BY <2>3, <2>4, FS_EmptySet DEF Waiting
    <2> QED BY <2>1, <2>5, ExactNow DEF Exact
  <1> QED BY <1>1, <1>2, Zenon DEF Counts

(* A step that neither counts a job of q nor starts or ends its executor. *)
LEMMA CountFrame ==
  ASSUME IndInv, NEW q \in AllQueues,
         jobCount'[q] = jobCount[q], jobs'[q] = jobs[q], Counted(q)' = Counted(q),
         \A u \in Threads : InExecute(u, q)' <=> InExecute(u, q),
         \A u \in Threads : InExecute(u, q) => taken'[u] = taken[u]
  PROVE  Exact(q)'
  <1>1. Waiting(q)' = Waiting(q)
    BY Zenon DEF Waiting
  <1> QED BY <1>1, ExactNow, Zenon DEF Exact

(* Counting a job, in DoAsync and in PushGlobalQueue. *)
LEMMA CountBeginPush ==
  ASSUME IndInv, NEW q \in AllQueues, NEW t \in Threads, NEW r \in AllQueues, NEW j \in Jobs,
         BeginPush(t, r, j), pushPc[t] = "none"
  PROVE  Exact(q)'
  <1>0. pushPc \in [Threads -> {"none", "counted", "queued"}] /\ DOMAIN pushQ = Threads
        /\ DOMAIN jobCount = AllQueues
    BY Zenon DEF IndInv, TypeOK
  <1>1. \A u \in Threads : (InExecute(u, q)' <=> InExecute(u, q)) /\ taken'[u] = taken[u]
    BY Zenon DEF BeginPush, execVars, InExecute
  <1>2. CASE r # q
    <2>1. jobCount'[q] = jobCount[q] /\ jobs'[q] = jobs[q] /\ Counted(q)' = Counted(q)
      BY <1>0, <1>2, Zenon DEF BeginPush, Counted
    <2> QED BY <1>1, <2>1, CountFrame, ZenonT(30)
  <1>3. CASE r = q
    <2>1. Counted(q)' = Counted(q) \cup {t} /\ t \notin Counted(q)
      BY <1>0, <1>3, Zenon DEF BeginPush, Counted
    <2>2. jobCount'[q] = jobCount[q] + 1 /\ jobs'[q] = jobs[q]
      BY <1>0, <1>3, Zenon DEF BeginPush
    <2>3. Cardinality(Counted(q)') = Cardinality(Counted(q)) + 1
      BY <2>1, ExactNow, CountedSize, ZenonT(30)
    <2>4. Len(jobs[q]) \in Nat /\ Cardinality(Counted(q)) \in Nat
      BY ExactNow, Zenon
    <2>5. Waiting(q)' = Waiting(q) + 1
      BY <2>2, <2>3, <2>4 DEF Waiting
    <2>6. ASSUME NEW u \in Threads, InExecute(u, q)' PROVE jobCount'[q] = Waiting(q)' + taken'[u]
      <3>1. jobCount[q] = Waiting(q) + taken[u] /\ taken'[u] = taken[u]
        BY <1>1, <2>6, ExactNow, Zenon DEF Exact
      <3> QED BY <2>2, <2>5, <3>1, ExactNow
    <2>7. ASSUME \A u \in Threads : ~InExecute(u, q)' PROVE jobCount'[q] = Waiting(q)'
      BY <1>1, <2>2, <2>5, <2>7, ExactNow, Zenon DEF Exact
    <2> QED BY <2>6, <2>7, ZenonT(30) DEF Exact
  <1> QED BY <1>2, <1>3, Zenon

(* Enqueueing turns a counted job into a waiting one. *)
LEMMA CountEnqueue ==
  ASSUME IndInv, NEW q \in AllQueues, NEW t \in Threads, Enqueue(t)
  PROVE  Exact(q)'
  <1>0. TypeOK /\ LocalsAgree
    BY Zenon DEF IndInv
  <1>1. \A u \in Threads : (InExecute(u, q)' <=> InExecute(u, q)) /\ taken'[u] = taken[u]
    BY Zenon DEF Enqueue, execVars, InExecute
  <1>2. CASE pushQ[t] # q
    <2>1. jobCount'[q] = jobCount[q] /\ jobs'[q] = jobs[q] /\ Counted(q)' = Counted(q)
      BY <1>2 DEF Enqueue, Counted
    <2> QED BY <1>1, <2>1, CountFrame, ZenonT(30)
  <1>3. CASE pushQ[t] = q
    <2>1. Counted(q)' = Counted(q) \ {t} /\ t \in Counted(q)
      BY <1>0, <1>3, Zenon DEF Enqueue, Counted, TypeOK
    <2>2. jobCount'[q] = jobCount[q] /\ jobs'[q] = Append(jobs[q], pushJob[t]) /\ pushJob[t] \in Jobs
      BY <1>0, <1>3, Zenon DEF Enqueue, TypeOK, LocalsAgree
    <2>3. Len(jobs'[q]) = Len(jobs[q]) + 1
      BY <2>2, ExactNow
    <2>4. Cardinality(Counted(q)') = Cardinality(Counted(q)) - 1
      BY <2>1, ExactNow, CountedSize, ZenonT(30)
    <2>5. Waiting(q)' = Waiting(q)
      BY <2>3, <2>4, ExactNow DEF Waiting
    <2> QED BY <1>1, <2>2, <2>5, ExactNow, Zenon DEF Exact
  <1> QED BY <1>2, <1>3, Zenon

(* A thread that enters Execute of a queue nobody executes has taken       *)
(* nothing yet.                                                            *)
LEMMA CountEnter ==
  ASSUME IndInv, NEW q \in AllQueues, NEW t \in Threads, NEW r \in AllQueues, EnterExecute(t, r),
         execPc[t] = "none", Executing(r) = {}, UNCHANGED <<jobCount, jobs>>,
         Counted(q)' = Counted(q)
  PROVE  Exact(q)'
  <1>1. taken[t] = 0 /\ taken' = taken
    BY Zenon DEF IndInv, LocalsAgree, EnterExecute
  <1>2. \A u \in Threads : InExecute(u, q)' <=> (InExecute(u, q) \/ (u = t /\ q = r))
    BY Zenon DEF EnterExecute, InExecute, IndInv, TypeOK
  <1>3. CASE r # q
    BY <1>1, <1>2, <1>3, CountFrame, ZenonT(30)
  <1>4. CASE r = q
    <2>1. Waiting(q)' = Waiting(q) /\ \A u \in Threads : ~InExecute(u, q)
      BY <1>4, Zenon DEF Waiting, Executing, InExecute
    <2>2. jobCount'[q] = Waiting(q)' /\ Waiting(q)' \in Nat
      BY <2>1, ExactNow, Zenon DEF Exact
    <2> QED BY <1>1, <1>2, <2>1, <2>2 DEF Exact
  <1> QED BY <1>3, <1>4, Zenon

(* PopAll turns the waiting jobs of the queue into taken ones. *)
LEMMA CountPopAll ==
  ASSUME IndInv, NEW q \in AllQueues, NEW t \in Threads, PopAll(t)
  PROVE  Exact(q)'
  <1>0. TypeOK /\ LocalsAgree
    BY Zenon DEF IndInv
  <1>1. self[t] \in AllQueues /\ InExecute(t, self[t]) /\ taken[t] = 0 /\ taken'[t] = Len(jobs[self[t]])
    BY <1>0, Zenon DEF PopAll, TypeOK, LocalsAgree, InExecute
  <1>2. /\ jobCount'[q] = jobCount[q] /\ Counted(q)' = Counted(q)
        /\ \A u \in Threads : /\ InExecute(u, q)' <=> InExecute(u, q)
                              /\ u # t => taken'[u] = taken[u]
    BY DEF PopAll, pushVars, Counted, InExecute
  <1>3. CASE self[t] # q
    <2>1. jobs'[q] = jobs[q] /\ ~InExecute(t, q)
      BY <1>3 DEF PopAll, InExecute
    <2> QED BY <1>2, <2>1, CountFrame, ZenonT(30)
  <1>4. CASE self[t] = q
    <2>1. jobs'[q] = <<>> /\ Len(jobs'[q]) = 0
      BY <1>0, <1>4, Zenon DEF PopAll, TypeOK
    <2>2. Waiting(q)' = Cardinality(Counted(q)) /\ jobCount[q] = Waiting(q)
      BY <1>1, <1>2, <1>4, <2>1, ExactNow DEF Waiting, Exact
    <2>3. jobCount'[q] = Waiting(q)' + taken'[t]
      BY <1>1, <1>2, <1>4, <2>2, ExactNow DEF Waiting
    <2>4. InExecute(t, q)' /\ \A u \in Threads : InExecute(u, q)' => u = t
      BY <1>1, <1>2, <1>4, ExactNow, Zenon
    <2> QED BY <2>3, <2>4, ZenonT(30) DEF Exact
  <1> QED BY <1>3, <1>4, Zenon

(* At the end of a batch the executor subtracts what it took, whether it   *)
(* stops, goes on or hands the queue over.                                 *)
LEMMA CountSubtract ==
  ASSUME IndInv, NEW q \in AllQueues, NEW t \in Threads, SubtractTaken(t),
         self'[t] = self[t] \/ execPc'[t] = "none",
         \A u \in Threads : u # t => execPc'[u] = execPc[u] /\ self'[u] = self[u]
  PROVE  Exact(q)'
  <1>0. TypeOK /\ LocalsAgree
    BY Zenon DEF IndInv
  <1>1. self[t] \in AllQueues /\ InExecute(t, self[t]) /\ taken'[t] = 0
    BY <1>0 DEF SubtractTaken, TypeOK, LocalsAgree, InExecute
  <1>2. /\ jobs'[q] = jobs[q] /\ Counted(q)' = Counted(q)
        /\ \A u \in Threads : u # t => /\ InExecute(u, q)' <=> InExecute(u, q)
                                       /\ taken'[u] = taken[u]
    BY DEF SubtractTaken, pushVars, Counted, InExecute
  <1>3. CASE self[t] # q
    <2>1. ~InExecute(t, q) /\ ~InExecute(t, q)' /\ jobCount'[q] = jobCount[q]
      BY <1>3 DEF SubtractTaken, InExecute
    <2> QED BY <1>2, <2>1, CountFrame, ZenonT(30)
  <1>4. CASE self[t] = q
    <2>1. jobCount[q] = Waiting(q) + taken[t] /\ jobCount'[q] = jobCount[q] - taken[t]
      BY <1>0, <1>1, <1>4, ExactNow, Zenon DEF SubtractTaken, TypeOK, Exact
    <2>2. Waiting(q)' = Waiting(q)
      BY <1>2, Zenon DEF Waiting
    <2>3. jobCount'[q] = Waiting(q)' /\ Waiting(q)' \in Nat
      BY <2>1, <2>2, ExactNow
    <2>4. \A u \in Threads : u # t => ~InExecute(u, q)'
      BY <1>1, <1>2, <1>4, ExactNow, Zenon
    <2> QED BY <1>1, <2>3, <2>4 DEF Exact
  <1> QED BY <1>3, <1>4, Zenon

(* The other steps count nothing and neither start nor end an executor. *)
LEMMA CountOther ==
  ASSUME IndInv, NEW q \in AllQueues, NEW t \in Threads,
         \/ PushReturn(t) \/ PushDelegate(t) \/ StartJob(t) \/ FinishJob(t) \/ Requeue(t)
         \/ DispatchReturn(t) \/ GlobalQuit(t) \/ PushOneOff(t)
  PROVE  Exact(q)'
  <1> USE DEF pushVars, execVars
  <1>1. CASE PushReturn(t)
    <2>1. /\ Counted(q)' = Counted(q) /\ UNCHANGED <<jobCount, jobs, taken>>
          /\ \A u \in Threads : InExecute(u, q)' <=> InExecute(u, q)
      BY <1>1 DEF PushReturn, EndPush, Counted, InExecute
    <2> QED BY <2>1, CountFrame, ZenonT(30)
  <1>2. CASE PushDelegate(t)
    <2>1. /\ Counted(q)' = Counted(q) /\ UNCHANGED <<jobCount, jobs, taken>>
          /\ \A u \in Threads : InExecute(u, q)' <=> InExecute(u, q)
      BY <1>2 DEF PushDelegate, EndPush, Counted, InExecute
    <2> QED BY <2>1, CountFrame, ZenonT(30)
  <1>4. CASE StartJob(t)
    <2>1. /\ Counted(q)' = Counted(q) /\ UNCHANGED <<jobCount, jobs, taken>>
          /\ \A u \in Threads : InExecute(u, q)' <=> InExecute(u, q)
      BY <1>4 DEF StartJob, Counted, InExecute
    <2> QED BY <2>1, CountFrame, ZenonT(30)
  <1>5. CASE FinishJob(t)
    <2>1. /\ Counted(q)' = Counted(q) /\ UNCHANGED <<jobCount, jobs, taken>>
          /\ \A u \in Threads : InExecute(u, q)' <=> InExecute(u, q)
      BY <1>5 DEF FinishJob, Counted, InExecute
    <2> QED BY <2>1, CountFrame, ZenonT(30)
  <1>6. CASE Requeue(t)
    <2>1. /\ Counted(q)' = Counted(q) /\ UNCHANGED <<jobCount, jobs, taken>>
          /\ \A u \in Threads : InExecute(u, q)' <=> InExecute(u, q)
      BY <1>6 DEF Requeue, Counted, InExecute
    <2> QED BY <2>1, CountFrame, ZenonT(30)
  <1>3. CASE DispatchReturn(t) \/ GlobalQuit(t) \/ PushOneOff(t)
    <2>1. /\ Counted(q)' = Counted(q) /\ UNCHANGED <<jobCount, jobs, taken>>
          /\ \A u \in Threads : InExecute(u, q)' <=> InExecute(u, q)
      BY <1>3, Zenon DEF DispatchReturn, GlobalQuit, PushOneOff, Counted, InExecute
    <2> QED BY <2>1, CountFrame, ZenonT(30)
  <1> QED BY <1>1, <1>2, <1>3, <1>4, <1>5, <1>6, ZenonT(30)

(* Every step keeps m_jobCount exact. *)
LEMMA CountStep ==
  IndInv /\ [Next]_vars => JobCountExact'
  <1> SUFFICES ASSUME IndInv, [Next]_vars, NEW q \in AllQueues PROVE Exact(q)'
    BY Zenon DEF JobCountExact, Exact
  <1>1. ASSUME NEW t \in Threads, NEW r \in Queues, NEW j \in Jobs, DoAsync(t, r, j) PROVE Exact(q)'
    BY <1>1, CountBeginPush, Zenon DEF DoAsync, AllQueues
  <1>2. ASSUME NEW t \in Helpers, NEW r \in OneOffs, NEW j \in Jobs, PushGlobalQueue(t, r, j)
        PROVE  Exact(q)'
    BY <1>2, CountBeginPush, Zenon DEF PushGlobalQueue, Idle, Threads, AllQueues
  <1>3. ASSUME NEW t \in Threads, PushExecute(t) PROVE Exact(q)'
    <2>1. pushQ[t] \in AllQueues /\ execPc[t] = "none" /\ t \in Pushing(pushQ[t])
      BY <1>3 DEF PushExecute, EndPush, IndInv, TypeOK, LocalsAgree, Pushing
    <2>2. Executing(pushQ[t]) = {}
      <3>1. \A u \in Executing(pushQ[t]) : u = t
        BY <2>1, Zenon DEF IndInv, OneHolder, Holders
      <3>2. t \notin Executing(pushQ[t])
        BY <2>1, Zenon DEF IndInv, OneHolder
      <3> QED BY <3>1, <3>2, Zenon
    <2>3. Counted(q)' = Counted(q)
      <3>1. pushPc \in [Threads -> {"none", "counted", "queued"}]
        BY Zenon DEF IndInv, TypeOK
      <3> QED BY <1>3, <3>1 DEF PushExecute, EndPush, Counted
    <2> QED BY <1>3, <2>1, <2>2, <2>3, CountEnter, ZenonT(30) DEF PushExecute
  <1>4. ASSUME NEW t \in Workers, GlobalPop(t) PROVE Exact(q)'
    <2>1. t \in Threads /\ Head(globalQueue) \in InGlobal /\ Head(globalQueue) \in AllQueues
      BY <1>4, GlobalIsEntries, GlobalTail DEF GlobalPop, Threads
    <2>2. Executing(Head(globalQueue)) = {}
      BY <2>1, Zenon DEF IndInv, OneHolder, Holders
    <2> QED BY <1>4, <2>1, <2>2, CountEnter, Zenon DEF GlobalPop, Idle, pushVars, Counted
  <1>5. ASSUME NEW t \in Threads, ExecuteDrained(t) \/ ExecuteAgain(t) \/ ExecuteTimeUp(t)
        PROVE  Exact(q)'
    <2>1. SubtractTaken(t) /\ (self'[t] = self[t] \/ execPc'[t] = "none")
          /\ \A u \in Threads : u # t => execPc'[u] = execPc[u] /\ self'[u] = self[u]
      BY <1>5 DEF ExecuteDrained, ExecuteAgain, ExecuteTimeUp, IndInv, TypeOK
    <2> QED BY <2>1, CountSubtract, ZenonT(30)
  <1>6. CASE UNCHANGED vars
    BY <1>6, CountFrame, Zenon DEF vars, pushVars, execVars, Counted, InExecute
  <1> QED
    BY <1>1, <1>2, <1>3, <1>4, <1>5, <1>6, CountEnqueue, CountPopAll, CountOther
       DEF Next, PushStep, ExecStep, LoopStep, Threads

-----------------------------------------------------------------------------
(* The inductive invariant holds in every reachable state. *)
THEOREM Invariance == Spec => []IndInv
  <1>1. Init => IndInv
    BY InitInv, Zenon
  <1>2. IndInv /\ [Next]_vars => IndInv'
    BY LocalStep, CountsFollow, HolderStep, CountStep, ZenonT(30) DEF HolderInv, IndInv
  <1> QED BY <1>1, <1>2, PTL DEF Spec

(* Type correctness of every variable of the job queues and threads. *)
THEOREM TypeCorrect == Spec => []TypeOK
  <1>1. IndInv => TypeOK
    BY Zenon DEF IndInv
  <1> QED BY <1>1, Invariance, PTL

(* No two threads are ever inside JobQueue::Execute of the same queue, so  *)
(* the jobs of one lobby or room never run concurrently.                   *)
THEOREM MutualExclusion == Spec => []OneExecutor
  <1>1. IndInv => OneExecutor
    BY Zenon DEF IndInv, OneHolder, Holders, Executing, InExecute, OneExecutor
  <1> QED BY <1>1, Invariance, PTL

(* m_jobCount is exact: the fetch_sub of Execute reads zero only when no   *)
(* job of the queue is announced, queued or taken.                         *)
THEOREM CountIsExact == Spec => []JobCountExact
  <1>1. IndInv => JobCountExact
    BY Zenon DEF IndInv
  <1> QED BY <1>1, Invariance, PTL

(* The responsibility for a queue is never in two places. *)
THEOREM HolderIsUnique == Spec => []OneHolder
  <1>1. IndInv => OneHolder
    BY Zenon DEF IndInv
  <1> QED BY <1>1, Invariance, PTL

(* A queue with a job always has a thread responsible for it or waits in   *)
(* GGlobalQueue: no interleaving of Push and Execute loses the wake-up.    *)
THEOREM NoQueueStranded == Spec => []NotStranded
  <1>1. IndInv => NotStranded
    BY Zenon DEF IndInv
  <1> QED BY <1>1, Invariance, PTL

(* A one-off job runs on the thread that posted it, inside PushGlobalQueue. *)
THEOREM OneOffsRunInline == Spec => []OneOffInline
  <1>1. Init => OneOffsSpent
    BY NoneAssumption DEF Init, OneOffsSpent
  <1>2. IndInv /\ OneOffsSpent => OneOffInline
    BY DEF IndInv, LocalsAgree, OneOffsSpent, OneOffInline
  <1> QED BY <1>1, <1>2, Invariance, SpentStep, PTL DEF Spec

-----------------------------------------------------------------------------
(* The queues as serial executors. *)

(* The first of two sequences is taken from first. *)
LEMMA FirstFirst ==
  ASSUME NEW S, NEW s \in Seq(S), NEW r \in Seq(S), s # <<>>
  PROVE  s \o r # <<>> /\ Head(s \o r) = Head(s) /\ Tail(s \o r) = Tail(s) \o r
  <1>1. s \o r # <<>> /\ Head(s \o r) = Head(s)
    OBVIOUS
  <1>2. Tail(s \o r) = Tail(s) \o r
    OBVIOUS
  <1> QED BY <1>1, <1>2, Zenon

(* A larger set has more sequences. *)
LEMMA SeqGrows ==
  ASSUME NEW S, NEW T, S \subseteq T
  PROVE  Seq(S) \subseteq Seq(T)
  OBVIOUS

(* Where a thread is in Push and Execute says what its locals are. *)
LEMMA LocalFacts ==
  ASSUME IndInv, NEW t \in Threads
  PROVE  /\ execPc[t] # "none" => self[t] \in AllQueues
         /\ execPc[t] \in {"none", "popall", "requeue"} => batch[t] = <<>>
         /\ execPc[t] = "job" => batch[t] # <<>>
         /\ batch[t] \in Seq(Jobs)
         /\ pushPc[t] # "none" => pushQ[t] \in AllQueues /\ pushJob[t] \in Jobs
         /\ pushPc[t] # "none" /\ current[t] = None => execPc[t] = "none"
  <1>1. TypeOK /\ LocalsAgree
    BY Zenon DEF IndInv
  <1>2. execPc[t] # "none" => self[t] \in AllQueues
    BY <1>1, Zenon DEF TypeOK, LocalsAgree
  <1>3. pushPc[t] # "none" => pushQ[t] \in AllQueues /\ pushJob[t] \in Jobs
    <2>1. pushQ[t] \in AllQueues \cup {None}
      BY <1>1, Zenon DEF TypeOK
    <2>2. pushPc[t] # "none" => pushQ[t] # None /\ pushJob[t] \in Jobs
      BY <1>1, Zenon DEF LocalsAgree
    <2> QED BY <2>1, <2>2, Zenon
  <1>4. execPc[t] = "job" => current[t] = self[t]
    BY <1>1 DEF LocalsAgree
  <1>5. pushPc[t] # "none" /\ current[t] = None => execPc[t] = "none"
    <2>1. pushPc[t] # "none" => execPc[t] \in {"none", "job"}
      BY <1>1, Zenon DEF LocalsAgree
    <2>2. "job" # "none"
      OBVIOUS
    <2> QED BY <1>2, <1>4, <2>1, <2>2, NoneAssumption, Zenon
  <1> QED BY <1>1, <1>2, <1>3, <1>5, Zenon DEF TypeOK, LocalsAgree

(* Nobody else executes the queue of an executor. *)
LEMMA Alone ==
  ASSUME IndInv, NEW q \in AllQueues, NEW t \in Threads, NEW u \in Threads, InExecute(t, q), InExecute(u, q)
  PROVE  t = u
  BY Zenon DEF IndInv, OneHolder, Holders, Executing, InExecute

\* What the thread t has left of its batch, and the job it runs.
Left(t) == IF execPc[t] = "job" THEN Tail(batch[t]) ELSE batch[t]
Run(t) == IF execPc[t] = "job" THEN Head(batch[t]) ELSE None

\* LeftOf and RunningOf are those of the executor.
Views ==
  \A q \in AllQueues :
    /\ \A t \in Threads : InExecute(t, q) => LeftOf(q) = Left(t) /\ RunningOf(q) = Run(t)
    /\ (\A t \in Threads : ~InExecute(t, q)) => LeftOf(q) = <<>> /\ RunningOf(q) = None

(* The executor of a queue is unique, so it is the one LeftOf chooses. *)
LEMMA ViewsFollow == IndInv => Views
  <1> SUFFICES ASSUME IndInv, NEW q \in AllQueues
               PROVE  /\ \A t \in Threads : InExecute(t, q) => LeftOf(q) = Left(t) /\ RunningOf(q) = Run(t)
                      /\ (\A t \in Threads : ~InExecute(t, q)) => LeftOf(q) = <<>> /\ RunningOf(q) = None
    BY Zenon DEF Views
  <1>1. \A t, u \in Threads : InExecute(t, q) /\ InExecute(u, q) => t = u
    BY Zenon DEF IndInv, OneHolder, Holders, Executing, InExecute
  <1>2. ASSUME NEW t \in Threads, InExecute(t, q) PROVE LeftOf(q) = Left(t) /\ RunningOf(q) = Run(t)
    <2>1. t = CHOOSE u \in Threads : InExecute(u, q)
      BY <1>1, <1>2, Zenon
    <2>2. LeftOf(q) = Left(t)
      BY <1>2, <2>1, Zenon DEF LeftOf, Left
    <2>3. CASE execPc[t] = "job"
      <3>1. t = CHOOSE u \in Threads : InExecute(u, q) /\ execPc[u] = "job"
        BY <1>1, <1>2, <2>3, Zenon
      <3> QED BY <1>2, <2>2, <2>3, <3>1, Zenon DEF RunningOf, Run
    <2>4. CASE execPc[t] # "job"
      <3>1. ~\E u \in Threads : InExecute(u, q) /\ execPc[u] = "job"
        BY <1>1, <1>2, <2>4, Zenon
      <3> QED BY <2>2, <2>4, <3>1, Zenon DEF RunningOf, Run
    <2> QED BY <2>3, <2>4, Zenon
  <1>3. (\A t \in Threads : ~InExecute(t, q)) => LeftOf(q) = <<>> /\ RunningOf(q) = None
    BY Zenon DEF LeftOf, RunningOf
  <1> QED BY <1>2, <1>3, Zenon

\* The variables of SerialQueues.
Pending == [q \in AllQueues |-> LeftOf(q) \o jobs[q]]
Running == [q \in AllQueues |-> RunningOf(q)]

(* A queue whose executor stays as it is looks the same. *)
LEMMA SeenAlike ==
  ASSUME Views, Views', NEW r \in AllQueues,
         \A u \in Threads : /\ InExecute(u, r)' <=> InExecute(u, r)
                            /\ InExecute(u, r) => execPc'[u] = execPc[u] /\ batch'[u] = batch[u]
  PROVE  LeftOf(r)' = LeftOf(r) /\ RunningOf(r)' = RunningOf(r)
  <1>1. ASSUME NEW u \in Threads, InExecute(u, r)
        PROVE  LeftOf(r)' = LeftOf(r) /\ RunningOf(r)' = RunningOf(r)
    <2>1. Left(u)' = Left(u) /\ Run(u)' = Run(u)
      BY <1>1, Zenon DEF Left, Run
    <2>2. LeftOf(r)' = Left(u)' /\ RunningOf(r)' = Run(u)'
      BY <1>1, Zenon DEF Views
    <2>3. LeftOf(r) = Left(u) /\ RunningOf(r) = Run(u)
      BY <1>1, Zenon DEF Views
    <2> QED BY <2>1, <2>2, <2>3, Zenon
  <1>2. CASE \A u \in Threads : ~InExecute(u, r)
    BY <1>2, Zenon DEF Views
  <1> QED BY <1>1, <1>2, Zenon

(* The step of a thread on q is not seen on other queues. *)
LEMMA OthersAlike ==
  ASSUME Views, Views', NEW t \in Threads, NEW q \in AllQueues,
         \A u \in Threads \ {t} : execPc'[u] = execPc[u] /\ self'[u] = self[u] /\ batch'[u] = batch[u],
         \A r \in AllQueues \ {q} : ~InExecute(t, r) /\ ~InExecute(t, r)'
  PROVE  \A r \in AllQueues \ {q} : LeftOf(r)' = LeftOf(r) /\ RunningOf(r)' = RunningOf(r)
  <1> SUFFICES ASSUME NEW r \in AllQueues \ {q}
               PROVE  LeftOf(r)' = LeftOf(r) /\ RunningOf(r)' = RunningOf(r)
    BY Zenon
  <1>1. \A u \in Threads \ {t} : InExecute(u, r)' <=> InExecute(u, r)
    BY Zenon DEF InExecute
  <1> QED BY <1>1, SeenAlike, Zenon

(* Execute takes all jobs of the queue, subtracts them, or ends: nothing is  *)
(* seen, since the batch is empty before it and the queue after it.          *)
LEMMA SerialTake ==
  ASSUME IndInv, Views, Views', NEW t \in Threads,
         PopAll(t) \/ ExecuteDrained(t) \/ ExecuteAgain(t) \/ ExecuteTimeUp(t)
  PROVE  Pending' = Pending /\ Running' = Running
  <1> USE DEF SubtractTaken
  <1>0. /\ "job" \notin {"popall", "loop", "none", "requeue"} /\ "none" # "popall"
        /\ {"none", "requeue"} \cap {"popall", "loop", "job"} = {}
    OBVIOUS
  <1>1. execPc[t] \in {"popall", "loop"} /\ batch[t] = <<>>
    BY LocalFacts, Zenon DEF PopAll, ExecuteDrained, ExecuteAgain, ExecuteTimeUp
  <1>q. PICK q \in AllQueues : q = self[t]
    BY <1>0, <1>1, LocalFacts, Zenon
  <1>2. InExecute(t, q) /\ jobs[q] \in Seq(Jobs)
    BY <1>1, <1>q, Zenon DEF IndInv, TypeOK, InExecute
  <1>3. LeftOf(q) = <<>> /\ RunningOf(q) = None
    BY <1>0, <1>1, <1>2, Zenon DEF Views, Left, Run
  <1>4. \A u \in Threads \ {t} : ~InExecute(u, q)
    BY <1>2, Alone, Zenon
  <1>5. \A u \in Threads \ {t} : execPc'[u] = execPc[u] /\ self'[u] = self[u] /\ batch'[u] = batch[u]
    BY ZenonT(60) DEF PopAll, ExecuteDrained, ExecuteAgain, ExecuteTimeUp, IndInv, TypeOK
  <1>6. \/ execPc'[t] \in {"popall", "loop"} /\ self'[t] = q
        \/ execPc'[t] \in {"none", "requeue"}
    BY <1>q, Zenon DEF PopAll, ExecuteDrained, ExecuteAgain, ExecuteTimeUp, IndInv, TypeOK
  <1>7. \/ batch'[t] = <<>> /\ jobs' = jobs
        \/ execPc'[t] = "loop" /\ batch'[t] = jobs[q] /\ jobs' = [jobs EXCEPT ![q] = <<>>]
    BY <1>1, <1>q, Zenon DEF PopAll, ExecuteDrained, ExecuteAgain, ExecuteTimeUp, IndInv, TypeOK
  <1>8. \A r \in AllQueues \ {q} : ~InExecute(t, r) /\ ~InExecute(t, r)'
    BY <1>0, <1>2, <1>6, Zenon DEF InExecute
  <1>9. \A r \in AllQueues \ {q} : LeftOf(r)' = LeftOf(r) /\ RunningOf(r)' = RunningOf(r)
    BY <1>2, <1>5, <1>8, OthersAlike, Zenon
  <1>10. RunningOf(q)' = None /\ LeftOf(q)' \o jobs'[q] = jobs[q]
    <2>1. <<>> \o jobs[q] = jobs[q] /\ jobs[q] \o <<>> = jobs[q]
      BY <1>2
    <2>2. CASE execPc'[t] \in {"popall", "loop"} /\ self'[t] = q
      <3>1. InExecute(t, q)' /\ execPc'[t] # "job"
        BY <1>0, <2>2, Zenon DEF InExecute
      <3>2. LeftOf(q)' = batch'[t] /\ RunningOf(q)' = None
        BY <1>2, <3>1, Zenon DEF Views, Left, Run
      <3>3. jobs' = [jobs EXCEPT ![q] = <<>>] => jobs'[q] = <<>>
        BY <1>2, Zenon DEF IndInv, TypeOK
      <3> QED BY <1>7, <2>1, <3>2, <3>3, Zenon
    <2>3. CASE execPc'[t] \in {"none", "requeue"}
      <3>1. \A u \in Threads : ~InExecute(u, q)'
        BY <1>0, <1>4, <1>5, <2>3, Zenon DEF InExecute
      <3>2. LeftOf(q)' = <<>> /\ RunningOf(q)' = None
        BY <1>2, <3>1, Zenon DEF Views
      <3>3. jobs' = jobs
        BY <1>0, <1>7, <2>3, Zenon
      <3> QED BY <2>1, <3>2, <3>3, Zenon
    <2> QED BY <1>6, <2>2, <2>3, Zenon
  <1>11. LeftOf(q) \o jobs[q] = jobs[q]
    BY <1>2, <1>3
  <1>12. \A r \in AllQueues \ {q} : jobs'[r] = jobs[r]
    BY <1>2, <1>7, Zenon DEF IndInv, TypeOK
  <1> QED BY <1>3, <1>9, <1>10, <1>11, <1>12, Zenon DEF Pending, Running

(* A thread becomes the executor with an empty batch. *)
LEMMA SerialEnter ==
  ASSUME IndInv, Views, Views', NEW t \in Threads, NEW q \in AllQueues, EnterExecute(t, q),
         execPc[t] = "none", jobs' = jobs, \A u \in Threads : ~InExecute(u, q)
  PROVE  Pending' = Pending /\ Running' = Running
  <1>0. "none" \notin {"popall", "loop", "job"} /\ "popall" # "job"
    OBVIOUS
  <1>1. /\ \A u \in Threads \ {t} : execPc'[u] = execPc[u] /\ self'[u] = self[u] /\ batch'[u] = batch[u]
        /\ execPc'[t] = "popall" /\ self'[t] = q /\ batch'[t] = <<>>
    BY ZenonT(60) DEF EnterExecute, IndInv, TypeOK, LocalsAgree
  <1>2. \A r \in AllQueues \ {q} : ~InExecute(t, r) /\ ~InExecute(t, r)'
    BY <1>0, <1>1, Zenon DEF InExecute
  <1>3. \A r \in AllQueues \ {q} : LeftOf(r)' = LeftOf(r) /\ RunningOf(r)' = RunningOf(r)
    BY <1>1, <1>2, OthersAlike, Zenon
  <1>4. LeftOf(q) = <<>> /\ RunningOf(q) = None
    BY Zenon DEF Views
  <1>5. InExecute(t, q)'
    BY <1>1, Zenon DEF InExecute
  <1>6. LeftOf(q)' = <<>> /\ RunningOf(q)' = None
    BY <1>0, <1>1, <1>5, Zenon DEF Views, Left, Run
  <1> QED BY <1>3, <1>4, <1>6, Zenon DEF Pending, Running

(* The executor starts the next job of its batch. *)
LEMMA SerialStart ==
  ASSUME IndInv, Views, Views', NEW t \in Threads, StartJob(t)
  PROVE  Serial!Next
  <1>0. "job" # "loop" /\ "loop" # "none"
    OBVIOUS
  <1>q. PICK q \in AllQueues : q = self[t]
    BY <1>0, LocalFacts, Zenon DEF StartJob
  <1>1. InExecute(t, q) /\ jobs[q] \in Seq(Jobs) /\ batch[t] \in Seq(Jobs) /\ batch[t] # <<>>
    BY <1>q, Zenon DEF StartJob, IndInv, TypeOK, InExecute
  <1>2. /\ \A u \in Threads \ {t} : execPc'[u] = execPc[u] /\ self'[u] = self[u] /\ batch'[u] = batch[u]
        /\ execPc[t] = "loop" /\ execPc'[t] = "job" /\ self'[t] = q /\ batch'[t] = batch[t]
        /\ jobs' = jobs /\ done' = done
    BY <1>q, Zenon DEF StartJob, IndInv, TypeOK
  <1>3. InExecute(t, q)' /\ \A r \in AllQueues \ {q} : ~InExecute(t, r) /\ ~InExecute(t, r)'
    BY <1>1, <1>2, Zenon DEF InExecute
  <1>4. \A r \in AllQueues \ {q} : LeftOf(r)' = LeftOf(r) /\ RunningOf(r)' = RunningOf(r)
    BY <1>1, <1>2, <1>3, OthersAlike, Zenon
  <1>5. LeftOf(q) = batch[t] /\ RunningOf(q) = None
    BY <1>0, <1>1, <1>2, Zenon DEF Views, Left, Run
  <1>6. LeftOf(q)' = Tail(batch[t]) /\ RunningOf(q)' = Head(batch[t])
    <2>1. LeftOf(q)' = Left(t)' /\ RunningOf(q)' = Run(t)'
      BY <1>3, Zenon DEF Views
    <2>2. Left(t)' = Tail(batch[t]) /\ Run(t)' = Head(batch[t])
      BY <1>2, Zenon DEF Left, Run
    <2> QED BY <2>1, <2>2, Zenon
  <1>7. /\ batch[t] \o jobs[q] # <<>> /\ Head(batch[t] \o jobs[q]) = Head(batch[t])
        /\ Tail(batch[t] \o jobs[q]) = Tail(batch[t]) \o jobs[q]
    BY <1>1, FirstFirst, Zenon
  <1>8. Pending[q] = batch[t] \o jobs[q] /\ Running[q] = None
    BY <1>1, <1>5, Zenon DEF Pending, Running
  <1>9. Running' = [Running EXCEPT ![q] = Head(Pending[q])]
    BY <1>1, <1>4, <1>6, <1>7, <1>8, Zenon DEF Running
  <1>10. Pending' = [Pending EXCEPT ![q] = Tail(Pending[q])]
    BY <1>1, <1>2, <1>4, <1>6, <1>7, <1>8, ZenonT(60) DEF Pending
  <1>11. Serial!Start(q)
    BY <1>2, <1>7, <1>8, <1>9, <1>10, Zenon DEF Serial!Start, Pending, Running
  <1> QED BY <1>1, <1>11, Zenon DEF Serial!Next

(* The job it runs ends. *)
LEMMA SerialFinish ==
  ASSUME IndInv, Views, Views', NEW t \in Threads, FinishJob(t)
  PROVE  Serial!Next
  <1>0. "job" # "loop" /\ "job" # "none"
    OBVIOUS
  <1>q. PICK q \in AllQueues : q = self[t]
    BY <1>0, LocalFacts, Zenon DEF FinishJob
  <1>1. InExecute(t, q) /\ batch[t] \in Seq(Jobs) /\ batch[t] # <<>> /\ execPc[t] = "job"
    BY <1>q, LocalFacts, Zenon DEF FinishJob, InExecute
  <1>2. /\ \A u \in Threads \ {t} : execPc'[u] = execPc[u] /\ self'[u] = self[u] /\ batch'[u] = batch[u]
        /\ execPc'[t] = "loop" /\ self'[t] = q /\ batch'[t] = Tail(batch[t])
        /\ jobs' = jobs /\ done' = done \cup {Head(batch[t])}
    BY <1>q, Zenon DEF FinishJob, IndInv, TypeOK
  <1>3. InExecute(t, q)' /\ \A r \in AllQueues \ {q} : ~InExecute(t, r) /\ ~InExecute(t, r)'
    BY <1>1, <1>2, Zenon DEF InExecute
  <1>4. \A r \in AllQueues \ {q} : LeftOf(r)' = LeftOf(r) /\ RunningOf(r)' = RunningOf(r)
    BY <1>1, <1>2, <1>3, OthersAlike, Zenon
  <1>5. LeftOf(q) = Tail(batch[t]) /\ RunningOf(q) = Head(batch[t])
    BY <1>1, Zenon DEF Views, Left, Run
  <1>6. LeftOf(q)' = Tail(batch[t]) /\ RunningOf(q)' = None
    BY <1>0, <1>1, <1>2, <1>3, Zenon DEF Views, Left, Run
  <1>7. Running[q] = Head(batch[t]) /\ Head(batch[t]) # None
    <2>1. Head(batch[t]) \in Jobs
      BY <1>1
    <2> QED BY <1>1, <1>5, <2>1, NoneAssumption, Zenon DEF Running
  <1>8. Pending' = Pending
    BY <1>1, <1>2, <1>4, <1>5, <1>6, Zenon DEF Pending
  <1>9. Running' = [Running EXCEPT ![q] = None]
    BY <1>1, <1>4, <1>6, Zenon DEF Running
  <1>10. Serial!Finish(q)
    BY <1>2, <1>7, <1>8, <1>9, Zenon DEF Serial!Finish, Pending, Running
  <1> QED BY <1>1, <1>10, Zenon DEF Serial!Next

(* Enqueue submits the job. *)
LEMMA SerialSubmit ==
  ASSUME IndInv, JobsOnce, Views, Views', NEW t \in Threads, Enqueue(t)
  PROVE  Serial!Next
  <1>0. "counted" # "none"
    OBVIOUS
  <1>q. PICK q \in AllQueues, j \in Jobs : q = pushQ[t] /\ j = pushJob[t]
    BY <1>0, LocalFacts, Zenon DEF Enqueue
  <1>1. j \in Announced
    BY <1>q, Zenon DEF Enqueue, Announced
  <1>2. /\ execPc' = execPc /\ self' = self /\ batch' = batch /\ done' = done
        /\ jobs' = [jobs EXCEPT ![q] = Append(jobs[q], j)]
    BY <1>q, Zenon DEF Enqueue, execVars
  <1>3. \A r \in AllQueues : LeftOf(r)' = LeftOf(r) /\ RunningOf(r)' = RunningOf(r)
    BY <1>2, SeenAlike, Zenon DEF InExecute
  <1>4. ASSUME NEW r \in AllQueues
        PROVE  /\ jobs[r] \in Seq(Enqueued) /\ LeftOf(r) \in Seq(Enqueued)
               /\ RunningOf(r) \in Enqueued \cup {None}
    <2>1. CASE \A u \in Threads : ~InExecute(u, r)
      <3>1. <<>> \in Seq(Enqueued)
        OBVIOUS
      <3> QED BY <2>1, <3>1, Zenon DEF Views, JobsOnce
    <2>2. ASSUME NEW u \in Threads, InExecute(u, r)
          PROVE  LeftOf(r) \in Seq(Enqueued) /\ RunningOf(r) \in Enqueued \cup {None}
      <3>1. batch[u] \in Seq(Enqueued) /\ (execPc[u] = "job" => batch[u] # <<>>)
        BY Zenon DEF JobsOnce, IndInv, LocalsAgree
      <3>2. batch[u] # <<>> => Head(batch[u]) \in Enqueued /\ Tail(batch[u]) \in Seq(Enqueued)
        BY <3>1
      <3> QED BY <2>2, <3>1, <3>2, Zenon DEF Views, Left, Run
    <2> QED BY <2>1, <2>2, Zenon DEF JobsOnce
  <1>5. j \notin Enqueued /\ j # None /\ j \notin done
    BY <1>1, NoneAssumption, Zenon DEF Enqueued, JobsOnce
  <1>6. ASSUME NEW r \in AllQueues PROVE Running[r] # j /\ \A i \in DOMAIN Pending[r] : Pending[r][i] # j
    <2>1. Running[r] = RunningOf(r) /\ Pending[r] = LeftOf(r) \o jobs[r]
      BY Zenon DEF Running, Pending
    <2>2. Pending[r] \in Seq(Enqueued)
      <3>1. \A s1, s2 \in Seq(Enqueued) : s1 \o s2 \in Seq(Enqueued)
        OBVIOUS
      <3> QED BY <1>4, <2>1, <3>1, Zenon
    <2>3. \A i \in DOMAIN Pending[r] : Pending[r][i] \in Enqueued
      BY <2>2
    <2>4. RunningOf(r) # j
      BY <1>4, <1>5, Zenon
    <2>5. \A i \in DOMAIN Pending[r] : Pending[r][i] # j
      BY <1>5, <2>3, Zenon
    <2> QED BY <2>1, <2>4, <2>5, Zenon
  <1>7. Pending' = [Pending EXCEPT ![q] = Append(Pending[q], j)]
    <2>1. LeftOf(q) \in Seq(Enqueued \cup {j}) /\ jobs[q] \in Seq(Enqueued \cup {j})
      BY <1>1, <1>4, SeqGrows, Zenon
    <2>2. LeftOf(q) \o Append(jobs[q], j) = Append(LeftOf(q) \o jobs[q], j)
      BY <2>1
    <2>3. jobs'[q] = Append(jobs[q], j) /\ \A r \in AllQueues \ {q} : jobs'[r] = jobs[r]
      BY <1>1, <1>2, Zenon DEF IndInv, TypeOK
    <2> QED BY <1>1, <1>3, <2>2, <2>3, Zenon DEF Pending
  <1>8. Running' = Running
    BY <1>3, Zenon DEF Running
  <1>9. Serial!Submit(q, j)
    BY <1>2, <1>5, <1>6, <1>7, <1>8, Zenon DEF Serial!Submit, Serial!Waiting, Pending, Running
  <1> QED BY <1>1, <1>9, Zenon DEF Serial!Next

(* Every step of the threads is a step of SerialQueues or not seen there. *)
LEMMA SerialStep ==
  ASSUME IndInv, IndInv', JobsOnce, [Next]_vars
  PROVE  [Serial!Next]_Serial!vars
  <1>0. Views /\ Views'
    BY ViewsFollow, PTL
  <1>1. ASSUME Pending' = Pending, Running' = Running, done' = done PROVE UNCHANGED Serial!vars
    BY <1>1, Zenon DEF Serial!vars, Pending, Running
  <1>2. ASSUME execPc' = execPc, self' = self, batch' = batch, jobs' = jobs, done' = done
        PROVE  UNCHANGED Serial!vars
    <2>1. \A r \in AllQueues : LeftOf(r)' = LeftOf(r) /\ RunningOf(r)' = RunningOf(r)
      BY <1>0, <1>2, SeenAlike, Zenon DEF InExecute
    <2> QED BY <1>1, <1>2, <2>1, Zenon DEF Pending, Running
  <1>3. ASSUME NEW t \in Threads, PushReturn(t) \/ PushDelegate(t) PROVE UNCHANGED Serial!vars
    BY <1>2, <1>3, Zenon DEF PushReturn, PushDelegate, execVars
  <1>4. ASSUME NEW t \in Threads, PushExecute(t) PROVE UNCHANGED Serial!vars
    <2>0. "none" \notin {"popall", "loop", "job"} /\ "queued" # "none"
      OBVIOUS
    <2>q. PICK q \in AllQueues : q = pushQ[t]
      BY <1>4, <2>0, LocalFacts, Zenon DEF PushExecute, EndPush
    <2>1. execPc[t] = "none" /\ EnterExecute(t, q) /\ UNCHANGED <<jobs, done>>
      BY <1>4, <2>0, <2>q, LocalFacts, Zenon DEF PushExecute, EndPush
    <2>2. t \in Pushing(q) /\ t \notin Executing(q)
      BY <1>4, <2>0, <2>1, <2>q, Zenon DEF PushExecute, EndPush, Pushing, Executing
    <2>3. \A u \in Holders(q) : u = t
      BY <2>2, Zenon DEF IndInv, OneHolder, Holders
    <2>4. \A u \in Threads : ~InExecute(u, q)
      BY <2>0, <2>2, <2>3, Zenon DEF Holders, Executing, InExecute
    <2> QED BY <1>0, <1>1, <2>1, <2>4, SerialEnter, Zenon
  <1>5. ASSUME NEW t \in Threads, GlobalPop(t) PROVE UNCHANGED Serial!vars
    <2>0. "none" \notin {"popall", "loop", "job"}
      OBVIOUS
    <2>1. Head(globalQueue) \in AllQueues /\ Head(globalQueue) \in InGlobal
      <3>1. globalQueue \in Seq(AllQueues) /\ globalQueue # <<>>
        BY <1>5, Zenon DEF GlobalPop, IndInv, TypeOK
      <3>2. Head(globalQueue) = globalQueue[1] /\ 1 \in DOMAIN globalQueue /\ Head(globalQueue) \in AllQueues
        BY <3>1
      <3> QED BY <3>2, Zenon DEF InGlobal
    <2>2. Executing(Head(globalQueue)) = {}
      BY <2>1, Zenon DEF IndInv, OneHolder, Holders
    <2>3. \A u \in Threads : ~InExecute(u, Head(globalQueue))
      BY <2>0, <2>2, Zenon DEF Executing, InExecute
    <2> QED BY <1>0, <1>1, <1>5, <2>1, <2>3, SerialEnter, Zenon DEF GlobalPop, Idle
  <1>6. ASSUME NEW t \in Threads, Requeue(t) PROVE UNCHANGED Serial!vars
    <2>0. {"none", "requeue"} \cap {"popall", "loop", "job"} = {}
      OBVIOUS
    <2>1. /\ \A u \in Threads \ {t} : execPc'[u] = execPc[u] /\ self'[u] = self[u]
          /\ execPc[t] = "requeue" /\ execPc'[t] = "none"
          /\ batch' = batch /\ jobs' = jobs /\ done' = done
      <3>1. execPc \in [Threads -> {"none", "popall", "loop", "job", "requeue"}]
        BY Zenon DEF IndInv, TypeOK
      <3>2. self \in [Threads -> AllQueues \cup {None}]
        BY Zenon DEF IndInv, TypeOK
      <3> QED BY <1>6, <3>1, <3>2, Zenon DEF Requeue
    <2>2. \A r \in AllQueues : \A u \in Threads :
            /\ InExecute(u, r)' <=> InExecute(u, r)
            /\ InExecute(u, r) => execPc'[u] = execPc[u] /\ batch'[u] = batch[u]
      BY <2>0, <2>1, Zenon DEF InExecute
    <2>3. \A r \in AllQueues : LeftOf(r)' = LeftOf(r) /\ RunningOf(r)' = RunningOf(r)
      BY <1>0, <2>2, SeenAlike, Zenon
    <2> QED BY <1>1, <2>1, <2>3, Zenon DEF Pending, Running
  <1>7. ASSUME NEW t \in Threads, PopAll(t) \/ ExecuteDrained(t) \/ ExecuteAgain(t) \/ ExecuteTimeUp(t)
        PROVE  UNCHANGED Serial!vars
    <2>1. done' = done
      BY <1>7, Zenon DEF PopAll, ExecuteDrained, ExecuteAgain, ExecuteTimeUp, SubtractTaken
    <2> QED BY <1>0, <1>1, <1>7, <2>1, SerialTake, Zenon
  <1>8. ASSUME NEW t \in Threads, Enqueue(t) \/ StartJob(t) \/ FinishJob(t) PROVE Serial!Next
    BY <1>0, <1>8, SerialSubmit, SerialStart, SerialFinish, Zenon
  <1>9. ASSUME NEW t \in Threads, NEW q, NEW j, DoAsync(t, q, j) \/ PushGlobalQueue(t, q, j)
        PROVE  UNCHANGED Serial!vars
    BY <1>2, <1>9, Zenon DEF DoAsync, PushGlobalQueue, BeginPush, execVars
  <1>10. ASSUME NEW t \in Threads, DispatchReturn(t) \/ GlobalQuit(t) \/ PushOneOff(t)
         PROVE  UNCHANGED Serial!vars
    BY <1>2, <1>10, Zenon DEF DispatchReturn, GlobalQuit, PushOneOff, execVars
  <1>11. CASE UNCHANGED vars
    BY <1>2, <1>11, Zenon DEF vars, execVars
  <1>12. Workers \subseteq Threads /\ Helpers \subseteq Threads
    BY Zenon DEF Threads
  <1>13. ASSUME NEW t \in Threads, PushStep(t) \/ ExecStep(t) PROVE Serial!Next \/ UNCHANGED Serial!vars
    BY <1>3, <1>4, <1>6, <1>7, <1>8, <1>13, Zenon DEF PushStep, ExecStep
  <1>14. CASE Next
    BY <1>5, <1>9, <1>10, <1>12, <1>13, <1>14, Zenon DEF Next, LoopStep
  <1> QED BY <1>11, <1>14, Zenon

(* Who is about to enqueue a job. *)
LEMMA AnnouncedIs ==
  \A x : x \in Announced <=> \E u \in Threads : pushPc[u] = "counted" /\ pushJob[u] = x
  BY Zenon DEF Announced

(* Only Push and Enqueue move a job that is not yet in a queue. *)
LEMMA OnceFrame ==
  ASSUME JobsOnce, pushPc' = pushPc, pushJob' = pushJob, posted' = posted,
         done' \subseteq Enqueued, jobs' \in [AllQueues -> Seq(Enqueued)], batch' \in [Threads -> Seq(Enqueued)]
  PROVE  JobsOnce'
  BY Zenon DEF JobsOnce, Enqueued, Announced, Threads, AllQueues

(* No step enqueues a job a second time. *)
LEMMA OnceStep ==
  ASSUME IndInv, JobsOnce, [Next]_vars
  PROVE  JobsOnce'
  <1> USE DEF execVars, pushVars
  <1>0. /\ Workers \subseteq Threads /\ Helpers \subseteq Threads /\ "counted" \notin {"none", "queued"}
        /\ pushPc \in [Threads -> {"none", "counted", "queued"}] /\ pushJob \in [Threads -> Jobs \cup {None}]
        /\ jobs \in [AllQueues -> Seq(Enqueued)] /\ batch \in [Threads -> Seq(Enqueued)]
        /\ done \subseteq Enqueued /\ Announced \subseteq posted
    BY DEF IndInv, TypeOK, Threads, JobsOnce
  <1>a. \A x : x \in Announced' <=> \E u \in Threads : pushPc'[u] = "counted" /\ pushJob'[u] = x
    BY Zenon DEF Announced
  <1>b. "counted" # "none" /\ "counted" # "queued" /\ "queued" # "none"
    OBVIOUS
  <1>1. ASSUME NEW t \in Threads, NEW q, NEW j, BeginPush(t, q, j), pushPc[t] = "none" PROVE JobsOnce'
    <2>1. /\ pushPc'[t] = "counted" /\ pushJob'[t] = j
          /\ \A u \in Threads \ {t} : pushPc'[u] = pushPc[u] /\ pushJob'[u] = pushJob[u]
          /\ posted' = posted \cup {j} /\ j \notin posted /\ jobs' = jobs /\ batch' = batch /\ done' = done
      BY <1>0, <1>1, Zenon DEF BeginPush
    <2>2. Announced' = Announced \cup {j}
      <3>1. ASSUME NEW x PROVE x \in Announced' <=> x \in Announced \/ x = j
        <4>1. ASSUME x \in Announced PROVE x \in Announced'
          <5>1. PICK u \in Threads : pushPc[u] = "counted" /\ pushJob[u] = x
            BY <4>1, AnnouncedIs, Zenon
          <5> QED BY <1>1, <1>a, <1>b, <2>1, <5>1, Zenon
        <4>2. ASSUME x \in Announced' PROVE x \in Announced \/ x = j
          BY <1>a, <2>1, <4>2, AnnouncedIs
        <4> QED BY <1>a, <2>1, <4>1, <4>2, Zenon
      <3> QED BY <3>1, Zenon
    <2>3. Enqueued' = Enqueued
      BY <1>0, <2>1, <2>2, Zenon DEF Enqueued
    <2>4. ASSUME NEW u \in Threads \ {t}, pushPc'[u] = "counted" PROVE pushJob'[u] # j
      BY <1>0, <2>1, <2>4, Zenon DEF Announced
    <2>5. \A u, v \in Threads :
            pushPc'[u] = "counted" /\ pushPc'[v] = "counted" /\ pushJob'[u] = pushJob'[v] => u = v
      BY <2>1, <2>4, Zenon DEF JobsOnce
    <2> QED BY <1>0, <2>1, <2>2, <2>3, <2>5, Zenon DEF JobsOnce, Threads, AllQueues
  <1>2. ASSUME NEW t \in Threads, Enqueue(t) PROVE JobsOnce'
    <2>1. /\ pushPc[t] = "counted" /\ pushPc'[t] = "queued" /\ pushJob' = pushJob
          /\ \A u \in Threads \ {t} : pushPc'[u] = pushPc[u]
          /\ jobs' = [jobs EXCEPT ![pushQ[t]] = Append(jobs[pushQ[t]], pushJob[t])]
          /\ posted' = posted /\ batch' = batch /\ done' = done
      BY <1>0, <1>2, Zenon DEF Enqueue
    <2>2. Announced' = Announced \ {pushJob[t]} /\ pushJob[t] \in Announced
      <3>1. pushJob[t] \in Announced
        BY <2>1, AnnouncedIs, Zenon
      <3>2. ASSUME NEW x PROVE x \in Announced' <=> x \in Announced /\ x # pushJob[t]
        <4>1. \A u \in Threads : pushPc[u] = "counted" /\ pushJob[u] = pushJob[t] => u = t
          BY <2>1, Zenon DEF JobsOnce
        <4>2. ASSUME x \in Announced, x # pushJob[t] PROVE x \in Announced'
          BY <1>a, <2>1, <4>2, AnnouncedIs
        <4>3. ASSUME x \in Announced' PROVE x \in Announced /\ x # pushJob[t]
          <5>1. PICK u \in Threads : pushPc'[u] = "counted" /\ pushJob'[u] = x
            BY <1>a, <4>3, Zenon
          <5>2. u # t /\ pushPc[u] = "counted" /\ pushJob[u] = x
            BY <1>b, <2>1, <5>1, Zenon
          <5> QED BY <4>1, <5>2, AnnouncedIs, Zenon
        <4> QED BY <4>2, <4>3, Zenon
      <3> QED BY <3>1, <3>2, Zenon
    <2>3. Enqueued' = Enqueued \cup {pushJob[t]} /\ pushJob[t] \in Enqueued'
      BY <1>0, <2>1, <2>2, Zenon DEF Enqueued
    <2>4. pushQ[t] \in AllQueues
      BY <1>0, <2>1, LocalFacts, Zenon
    <2>5. Seq(Enqueued) \subseteq Seq(Enqueued')
      BY <2>3, SeqGrows, Zenon
    <2>6. Append(jobs[pushQ[t]], pushJob[t]) \in Seq(Enqueued')
      <3>1. jobs[pushQ[t]] \in Seq(Enqueued')
        BY <1>0, <2>4, <2>5, Zenon
      <3> QED BY <2>3, <3>1
    <2>7. jobs' \in [AllQueues -> Seq(Enqueued')] /\ batch' \in [Threads -> Seq(Enqueued')]
      BY <1>0, <2>1, <2>5, <2>6, Zenon
    <2>8. \A u, v \in Threads :
            pushPc'[u] = "counted" /\ pushPc'[v] = "counted" /\ pushJob'[u] = pushJob'[v] => u = v
      BY <1>0, <2>1, Zenon DEF JobsOnce
    <2> QED BY <1>0, <2>1, <2>2, <2>3, <2>7, <2>8, Zenon DEF JobsOnce, Threads, AllQueues
  <1>3. ASSUME NEW t \in Threads, EndPush(t), UNCHANGED <<jobs, batch, posted, done>> PROVE JobsOnce'
    <2>1. /\ pushPc[t] = "queued" /\ pushPc'[t] = "none"
          /\ \A u \in Threads \ {t} : pushPc'[u] = pushPc[u] /\ pushJob'[u] = pushJob[u]
      BY <1>0, <1>3, Zenon DEF EndPush
    <2>2. Announced' = Announced
      <3>1. ASSUME NEW x PROVE x \in Announced' <=> x \in Announced
        <4>1. \A u \in Threads : (pushPc'[u] = "counted" /\ pushJob'[u] = x)
                                  <=> (pushPc[u] = "counted" /\ pushJob[u] = x)
          BY <1>b, <2>1, Zenon
        <4> QED BY <1>a, <4>1, AnnouncedIs, Zenon
      <3> QED BY <3>1, Zenon
    <2>3. Enqueued' = Enqueued
      BY <1>3, <2>2, Zenon DEF Enqueued
    <2>4. \A u, v \in Threads :
            pushPc'[u] = "counted" /\ pushPc'[v] = "counted" /\ pushJob'[u] = pushJob'[v] => u = v
      <3>1. \A u \in Threads : pushPc'[u] = "counted" => pushPc[u] = "counted" /\ pushJob'[u] = pushJob[u]
        BY <1>b, <2>1, Zenon
      <3> QED BY <3>1, Zenon DEF JobsOnce
    <2> QED BY <1>0, <1>3, <2>2, <2>3, <2>4, Zenon DEF JobsOnce, Threads, AllQueues
  <1>4. ASSUME NEW t \in Threads, PopAll(t) PROVE JobsOnce'
    <2>1. self[t] \in AllQueues /\ <<>> \in Seq(Enqueued) /\ jobs[self[t]] \in Seq(Enqueued)
      <3>1. "popall" # "none" /\ <<>> \in Seq(Enqueued)
        OBVIOUS
      <3>2. self[t] \in AllQueues
        BY <1>4, <3>1, Zenon DEF PopAll, IndInv, TypeOK, LocalsAgree
      <3> QED BY <1>0, <3>1, <3>2, Zenon
    <2>2. jobs' \in [AllQueues -> Seq(Enqueued)] /\ batch' \in [Threads -> Seq(Enqueued)]
      BY <1>0, <1>4, <2>1, Zenon DEF PopAll
    <2>3. UNCHANGED <<pushPc, pushJob, posted, done>>
      BY <1>4, Zenon DEF PopAll
    <2> QED BY <1>0, <2>2, <2>3, OnceFrame, Zenon
  <1>5. ASSUME NEW t \in Threads, FinishJob(t) PROVE JobsOnce'
    <2>1. batch[t] # <<>> /\ batch[t] \in Seq(Enqueued)
      BY <1>0, <1>5, Zenon DEF FinishJob, IndInv, LocalsAgree
    <2>2. Head(batch[t]) \in Enqueued /\ Tail(batch[t]) \in Seq(Enqueued)
      BY <2>1
    <2>3. batch' \in [Threads -> Seq(Enqueued)] /\ done' \subseteq Enqueued
      BY <1>0, <1>5, <2>2, Zenon DEF FinishJob
    <2>4. UNCHANGED <<pushPc, pushJob, posted, jobs>>
      BY <1>5, Zenon DEF FinishJob
    <2> QED BY <1>0, <2>3, <2>4, OnceFrame, Zenon
  <1>6. ASSUME UNCHANGED <<pushPc, pushJob, posted, jobs, batch, done>> PROVE JobsOnce'
    BY <1>0, <1>6, OnceFrame, Zenon
  <1>7. ASSUME NEW t \in Threads, PushReturn(t) \/ PushDelegate(t) \/ PushExecute(t) PROVE JobsOnce'
    BY <1>3, <1>7, Zenon DEF PushReturn, PushDelegate, PushExecute, EnterExecute
  <1>8. ASSUME NEW t \in Threads, ExecStep(t), ~PopAll(t), ~FinishJob(t) PROVE JobsOnce'
    BY <1>6, <1>8, Zenon DEF ExecStep, StartJob, ExecuteDrained, ExecuteAgain, ExecuteTimeUp,
       SubtractTaken, Requeue
  <1>9. ASSUME NEW t \in Threads, LoopStep(t) \/ PushOneOff(t) PROVE JobsOnce'
    BY <1>6, <1>9, Zenon DEF LoopStep, DispatchReturn, GlobalPop, GlobalQuit, EnterExecute, PushOneOff
  <1>10. ASSUME NEW t \in Threads, NEW q, NEW j, DoAsync(t, q, j) \/ PushGlobalQueue(t, q, j) PROVE JobsOnce'
    BY <1>1, <1>10, Zenon DEF DoAsync, PushGlobalQueue, Idle
  <1>11. CASE UNCHANGED vars
    BY <1>6, <1>11, Zenon DEF vars
  <1>12. CASE Next
    BY <1>0, <1>2, <1>4, <1>5, <1>7, <1>8, <1>9, <1>10, <1>12, Zenon DEF Next, PushStep
  <1> QED BY <1>11, <1>12, Zenon

(* Initially no job is posted. *)
LEMMA SerialInit == Init => Serial!Init /\ JobsOnce
  <1> SUFFICES ASSUME Init PROVE Serial!Init /\ JobsOnce
    OBVIOUS
  <1>1. "none" \notin {"popall", "loop", "job", "counted"} /\ <<>> \in Seq(Enqueued) /\ <<>> \o <<>> = <<>>
    OBVIOUS
  <1>2. \A q \in AllQueues : \A t \in Threads : ~InExecute(t, q)
    BY <1>1, Zenon DEF Init, InExecute
  <1>3. \A q \in AllQueues : LeftOf(q) = <<>> /\ RunningOf(q) = None /\ jobs[q] = <<>>
    BY <1>2, Zenon DEF Init, LeftOf, RunningOf
  <1>4. Serial!Init
    BY <1>1, <1>3, Zenon DEF Init, Serial!Init
  <1>5. JobsOnce
    BY <1>1, Zenon DEF Init, JobsOnce, Announced
  <1> QED BY <1>4, <1>5, Zenon

(* The job queues implement SerialQueues: whatever threads push and execute, *)
(* the jobs of a lobby, a room or a one-off queue are run in the order in    *)
(* which m_jobs got them, one at a time, and no job twice.                   *)
THEOREM QueuesAreSerial == Spec => Serial!Spec
  BY SerialInit, SerialStep, OnceStep, Invariance, PTL DEF Spec, Serial!Spec
=============================================================================
