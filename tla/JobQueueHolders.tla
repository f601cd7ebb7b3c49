--------------------------- MODULE JobQueueHolders ---------------------------
(***************************************************************************)
(* First part of the proofs about JobQueue: which thread is responsible    *)
(* for a queue, and the life of the one-off queues.  HoldersKept is about  *)
(* the steps that leave every queue with the holders it had, HolderGone    *)
(* about those that pass a queue to GGlobalQueue.  Then there is one lemma *)
(* for each step of Push and for PopAll (the steps of Execute and of the   *)
(* worker loop are in JobQueueProofs), what one-off queues hold, and the   *)
(* types.                                                                  *)
(***************************************************************************)
EXTENDS JobQueue, TLAPS

(* Pushing to GGlobalQueue a queue that is not in it, and popping its head. *)
Entries(s) == {s[i] : i \in DOMAIN s}
Distinct(s) == \A i, k \in DOMAIN s : s[i] = s[k] => i = k

(* A queue pushed to GGlobalQueue is the only entry added. *)
LEMMA GlobalAppend ==
  ASSUME NEW s \in Seq(AllQueues), NEW q \in AllQueues
  PROVE  /\ Entries(Append(s, q)) = Entries(s) \cup {q}
         /\ Distinct(s) /\ q \notin Entries(s) => Distinct(Append(s, q))
  <1>1. /\ DOMAIN s = 1 .. Len(s) /\ DOMAIN Append(s, q) = 1 .. (Len(s) + 1) /\ Len(s) \in Nat
        /\ Append(s, q)[Len(s) + 1] = q
        /\ \A i \in 1 .. Len(s) : Append(s, q)[i] = s[i]
    OBVIOUS
  <1>2. \A i \in DOMAIN Append(s, q) : i \in DOMAIN s \/ i = Len(s) + 1
    OBVIOUS
  <1>3. DOMAIN s \subseteq DOMAIN Append(s, q) /\ Len(s) + 1 \in DOMAIN Append(s, q)
    OBVIOUS
  <1>4. Entries(Append(s, q)) = Entries(s) \cup {q}
    BY <1>3 DEF Entries
  <1>5. Distinct(s) /\ q \notin Entries(s) => Distinct(Append(s, q))
    BY DEF Entries, Distinct
  <1> QED BY <1>4, <1>5, Zenon

(* A pop of GGlobalQueue removes its first entry and no other. *)
LEMMA GlobalTail ==
  ASSUME NEW s \in Seq(AllQueues), s # <<>>, Distinct(s)
  PROVE  /\ Entries(Tail(s)) = Entries(s) \ {Head(s)}
         /\ Distinct(Tail(s))
         /\ Head(s) \in Entries(s)
  <1>1. /\ DOMAIN s = 1 .. Len(s) /\ Len(s) \in Nat \ {0} /\ Head(s) = s[1]
        /\ DOMAIN Tail(s) = 1 .. (Len(s) - 1)
        /\ \A i \in 1 .. (Len(s) - 1) : Tail(s)[i] = s[i + 1]
    OBVIOUS
  <1>2. \A i \in DOMAIN s : i = 1 \/ (i - 1 \in DOMAIN Tail(s) /\ s[i] = Tail(s)[i - 1])
    OBVIOUS
  <1>3. \A i \in DOMAIN Tail(s) : i + 1 \in DOMAIN s /\ Tail(s)[i] = s[i + 1] /\ i + 1 # 1
    OBVIOUS
  <1>4. 1 \in DOMAIN s
    OBVIOUS
  <1>5. ASSUME NEW r \in Entries(Tail(s)) PROVE r \in Entries(s) /\ r # Head(s)
    BY DEF Entries, Distinct
  <1>6. ASSUME NEW r \in Entries(s), r # Head(s) PROVE r \in Entries(Tail(s))
    <2>1. PICK i \in DOMAIN s : s[i] = r
      BY Zenon DEF Entries
    <2>2. i - 1 \in DOMAIN Tail(s) /\ Tail(s)[i - 1] = r
      BY <1>6, <2>1
    <2> QED BY <2>2, Zenon DEF Entries
  <1>7. Distinct(Tail(s))
    <2> SUFFICES ASSUME NEW i \in DOMAIN Tail(s), NEW k \in DOMAIN Tail(s), Tail(s)[i] = Tail(s)[k]
                 PROVE  i = k
      BY Zenon DEF Distinct
    <2>1. i + 1 = k + 1
      BY DEF Distinct
    <2> QED BY <2>1
  <1> QED BY <1>4, <1>5, <1>6, <1>7 DEF Entries

-----------------------------------------------------------------------------
(* The conjuncts of IndInv about responsibility. *)
HolderInv ==
  /\ OneHolder /\ HeldHasJobs /\ NotStranded /\ OneOffsFresh /\ OneOffsHeld
  /\ OneOffsPushed /\ OneOffsKept /\ OneOffsEmptied

(* What the proofs below need of the counters; CountsFollow of             *)
(* JobQueueProofs derives it from IndInv.  The second part says that       *)
(* Execute of a one-off queue always ends by ExecuteDrained.               *)
Counts ==
  /\ \A q \in AllQueues : jobCount[q] \in Nat
  /\ \A t \in Threads : execPc[t] \in {"loop", "job"} /\ self[t] \in OneOffs =>
                         jobCount[self[t]] = taken[t]

(* The conjuncts of HolderInv that speak of holders and of GGlobalQueue. *)
Responsible == OneHolder /\ HeldHasJobs /\ NotStranded /\ OneOffsFresh /\ OneOffsHeld

LEMMA GlobalIsEntries ==
  ASSUME IndInv
  PROVE  /\ InGlobal = Entries(globalQueue) /\ InGlobal' = Entries(globalQueue')
         /\ Distinct(globalQueue) /\ globalQueue \in Seq(AllQueues)
  BY Zenon DEF InGlobal, Entries, Distinct, IndInv, OneHolder, TypeOK

(* A step after which every queue has the holders it had. *)
LEMMA HoldersKept ==
  ASSUME IndInv, UNCHANGED <<globalQueue, oneOff, made>>,
         \A r \in AllQueues : Holders(r)' = Holders(r) /\ Pushing(r)' \cap Executing(r)' = {},
         \A r \in AllQueues : jobCount'[r] = 0 <=> jobCount[r] = 0,
         \A r \in OneOffs \ made : jobs'[r] = jobs[r]
  PROVE  Responsible'
  <1>1. InGlobal' = InGlobal
    BY Zenon DEF InGlobal
  <1>2. OneHolder'
    BY <1>1 DEF IndInv, OneHolder
  <1>3. HeldHasJobs' /\ NotStranded'
    BY <1>1, Zenon DEF IndInv, HeldHasJobs, NotStranded, AllQueues
  <1>4. OneOffsFresh'
    BY <1>1, Zenon DEF IndInv, OneOffsFresh, AllQueues
  <1>5. OneOffsHeld'
    BY Zenon DEF IndInv, OneOffsHeld, AllQueues
  <1> QED BY <1>2, <1>3, <1>4, <1>5, Zenon DEF Responsible

(* A step that passes the queue q from its holder to GGlobalQueue. *)
LEMMA HolderGone ==
  ASSUME IndInv, NEW q \in AllQueues, q \notin InGlobal, jobCount[q] # 0 \/ q \in made,
         globalQueue' = Append(globalQueue, q), UNCHANGED <<jobCount, jobs, made>>,
         \A r \in AllQueues : /\ Holders(r)' = IF r = q THEN {} ELSE Holders(r)
                              /\ Pushing(r)' \cap Executing(r)' = {},
         \A u \in Threads, r \in OneOffs : oneOff'[u] = r => oneOff[u] = r /\ r # q
  PROVE  Responsible'
  <1>1. InGlobal' = InGlobal \cup {q} /\ Distinct(globalQueue')
    BY GlobalIsEntries, GlobalAppend, Zenon
  <1>2. OneHolder'
    BY <1>1 DEF IndInv, OneHolder, Distinct
  <1>3. q \in Queues => jobCount[q] # 0
    BY QueuesAssumption, Zenon DEF IndInv, TypeOK
  <1>4. HeldHasJobs' /\ NotStranded'
    BY <1>1, <1>3, Zenon DEF IndInv, HeldHasJobs, NotStranded, AllQueues
  <1>5. OneOffsFresh'
    BY <1>1 DEF IndInv, OneOffsFresh, AllQueues
  <1>6. OneOffsHeld'
    BY Zenon DEF IndInv, OneOffsHeld, AllQueues
  <1> QED BY <1>2, <1>4, <1>5, <1>6, Zenon DEF Responsible

(* What becomes of OneOffsEmptied when a step adds to no one-off queue or  *)
(* its helper is still about to take the jobs.                             *)
LEMMA EmptiedKept ==
  ASSUME IndInv, \A r \in OneOffs : jobs'[r] # <<>> =>
           Taking(r)' # {} \/ (jobs[r] # <<>> /\ Taking(r) \subseteq Taking(r)')
  PROVE  OneOffsEmptied'
  BY Zenon DEF IndInv, OneOffsEmptied

-----------------------------------------------------------------------------
(* One lemma for each action: it keeps the conjuncts of HolderInv. *)

(* A pusher inside a job passes its queue to GGlobalQueue. *)
LEMMA HolderPushDelegate ==
  ASSUME IndInv, NEW t \in Threads, PushDelegate(t)
  PROVE  HolderInv'
  <1> USE DEF pushVars, execVars, loopVars
  <1>s. PushDelegate(t)
    BY Zenon
  <1>0. TypeOK /\ LocalsAgree
    BY Zenon DEF IndInv
  <1>1. /\ execPc[t] = "job" /\ pushQ[t] \in AllQueues
        /\ t \in Pushing(pushQ[t])
    BY <1>0, <1>s DEF PushDelegate, EndPush, TypeOK, LocalsAgree, Pushing
  <1>2. pushQ[t] \in Queues /\ pushQ[t] \notin OneOffs
    BY <1>s, <1>1, Zenon DEF PushDelegate, EndPush, IndInv, OneOffsPushed, AllQueues
  <1>3. jobCount[pushQ[t]] # 0
    BY <1>1, <1>2, Zenon DEF IndInv, HeldHasJobs, Holders
  <1>4. /\ pushQ[t] \notin InGlobal /\ t \notin Executing(pushQ[t])
        /\ \A r \in AllQueues : t \notin Making(r)
    BY <1>1, Zenon DEF IndInv, OneHolder, Holders, Making, Idle
  <1>5. \A r \in AllQueues : Pushing(r)' = IF r = pushQ[t] THEN Pushing(r) \ {t} ELSE Pushing(r)
    BY <1>0, <1>s DEF PushDelegate, EndPush, Pushing, TypeOK
  <1>6. \A r \in AllQueues : Executing(r)' = Executing(r) /\ Making(r)' = Making(r)
    BY <1>1, <1>s DEF PushDelegate, EndPush, Executing, Making, Idle
  <1>7. \A r \in AllQueues : /\ Holders(r)' = IF r = pushQ[t] THEN {} ELSE Holders(r)
                             /\ Pushing(r)' \cap Executing(r)' = {}
    BY <1>5, <1>6, <1>1, <1>4 DEF IndInv, OneHolder, Holders
  <1>8. Responsible'
    BY <1>s, <1>1, <1>2, <1>3, <1>4, <1>7, HolderGone, Zenon DEF PushDelegate
  <1>9. OneOffsPushed' /\ OneOffsKept'
    BY <1>0, <1>s DEF PushDelegate, EndPush, IndInv, OneOffsPushed, OneOffsKept, TypeOK
  <1>10. OneOffsEmptied'
    BY <1>s, <1>2, <1>5, EmptiedKept, ZenonT(30) DEF PushDelegate, Taking, AllQueues
  <1> QED BY <1>8, <1>9, <1>10, Zenon DEF HolderInv, Responsible

(* A free pusher becomes the executor of its queue. *)
LEMMA HolderPushExecute ==
  ASSUME IndInv, NEW t \in Threads, PushExecute(t)
  PROVE  HolderInv'
  <1> USE DEF pushVars, execVars, loopVars
  <1>s. PushExecute(t)
    BY Zenon
  <1>0. TypeOK /\ LocalsAgree
    BY Zenon DEF IndInv
  <1>1. /\ execPc[t] = "none" /\ pushQ[t] \in AllQueues
        /\ t \in Pushing(pushQ[t])
    BY <1>0, <1>s DEF PushExecute, EndPush, TypeOK, LocalsAgree, Pushing
  <1>2. \A r \in AllQueues : Pushing(r)' = IF r = pushQ[t] THEN Pushing(r) \ {t} ELSE Pushing(r)
    BY <1>0, <1>s DEF PushExecute, EndPush, Pushing, TypeOK
  <1>3. \A r \in AllQueues : Executing(r)' = IF r = pushQ[t] THEN Executing(r) \cup {t} ELSE Executing(r)
    BY <1>0, <1>1, <1>s DEF PushExecute, EnterExecute, Executing, TypeOK
  <1>4. \A r \in AllQueues : Making(r)' = Making(r)
    BY <1>0, <1>s DEF PushExecute, EndPush, EnterExecute, Making, TypeOK, Idle
  <1>5. \A r \in AllQueues : Holders(r)' = Holders(r) /\ Pushing(r)' \cap Executing(r)' = {}
    BY <1>2, <1>3, <1>4, <1>1 DEF Holders, IndInv, OneHolder
  <1>6. Responsible'
    BY <1>s, <1>5, HoldersKept, Zenon DEF PushExecute
  <1>7. OneOffsPushed' /\ OneOffsKept'
    BY <1>0, <1>1, <1>s DEF PushExecute, EndPush, EnterExecute, IndInv, OneOffsPushed, OneOffsKept, TypeOK
  <1>8. \A r \in OneOffs : jobs'[r] # <<>> =>
          Taking(r)' # {} \/ (jobs[r] # <<>> /\ Taking(r) \subseteq Taking(r)')
    BY <1>0, <1>s, <1>2, <1>1 DEF PushExecute, EnterExecute, Taking, AllQueues, TypeOK
  <1> QED BY <1>6, <1>7, <1>8, EmptiedKept, ZenonT(30) DEF HolderInv, Responsible

(* Enqueueing a counted job moves no responsibility. *)
LEMMA HolderEnqueue ==
  ASSUME IndInv, NEW t \in Threads, Enqueue(t)
  PROVE  HolderInv'
  <1> USE DEF pushVars, execVars, loopVars
  <1>s. Enqueue(t)
    BY Zenon
  <1>1. pushQ[t] \notin OneOffs \ made
    BY <1>s, Zenon DEF Enqueue, IndInv, OneOffsFresh, OneOffsPushed
  <1>2. \A r \in AllQueues : /\ Pushing(r)' = Pushing(r)
                             /\ Executing(r)' = Executing(r)
                             /\ Making(r)' = Making(r)
    BY <1>s DEF Enqueue, Pushing, Executing, Making, Idle
  <1>3. \A r \in AllQueues : Holders(r)' = Holders(r) /\ Pushing(r)' \cap Executing(r)' = {}
    BY <1>2, Zenon DEF Holders, IndInv, OneHolder
  <1>4. Responsible'
    BY <1>s, <1>1, <1>3, HoldersKept DEF Enqueue, IndInv, TypeOK
  <1>5. OneOffsPushed' /\ OneOffsKept'
    BY <1>s DEF Enqueue, IndInv, OneOffsPushed, OneOffsKept
  <1>6. \A r \in OneOffs : jobs'[r] # <<>> =>
          Taking(r)' # {} \/ (jobs[r] # <<>> /\ Taking(r) \subseteq Taking(r)')
    BY <1>s DEF Enqueue, Taking, IndInv, OneOffsPushed, Pushing
  <1> QED BY <1>4, <1>5, <1>6, EmptiedKept, ZenonT(30) DEF HolderInv, Responsible

(* Taking the jobs leaves the executor in charge. *)
LEMMA HolderPopAll ==
  ASSUME IndInv, NEW t \in Threads, PopAll(t)
  PROVE  HolderInv'
  <1> USE DEF pushVars, execVars, loopVars
  <1>s. PopAll(t)
    BY Zenon
  <1>0. TypeOK
    BY Zenon DEF IndInv
  <1>1. \A r \in AllQueues : /\ Pushing(r)' = Pushing(r)
                             /\ Executing(r)' = Executing(r)
                             /\ Making(r)' = Making(r)
    BY <1>s DEF PopAll, Pushing, Executing, Making, Idle
  <1>2. \A r \in AllQueues : Holders(r)' = Holders(r) /\ Pushing(r)' \cap Executing(r)' = {}
    BY <1>1, Zenon DEF Holders, IndInv, OneHolder
  <1>3. \A r \in OneOffs \ made : jobs'[r] = jobs[r]
    BY <1>0, <1>s DEF PopAll, IndInv, OneOffsFresh, TypeOK
  <1>4. Responsible'
    BY <1>s, <1>2, <1>3, HoldersKept, Zenon DEF PopAll
  <1>5. OneOffsPushed' /\ OneOffsKept'
    BY <1>s DEF PopAll, IndInv, OneOffsPushed, OneOffsKept
  <1>6. OneOffsEmptied'
    BY <1>0, <1>s, <1>1, EmptiedKept DEF PopAll, Taking, AllQueues, TypeOK
  <1> QED BY <1>4, <1>5, <1>6, Zenon DEF HolderInv, Responsible

(* A helper that makes a one-off queue becomes its only holder. *)
LEMMA HolderPushGlobalQueue ==
  ASSUME IndInv, NEW t \in Helpers, NEW q \in OneOffs, NEW j \in Jobs, PushGlobalQueue(t, q, j)
  PROVE  HolderInv'
  <1> USE DEF pushVars, execVars, loopVars
  <1>s. PushGlobalQueue(t, q, j)
    BY Zenon
  <1>0. TypeOK
    BY Zenon DEF IndInv
  <1>1. t \in Threads /\ q \in AllQueues /\ q \notin Queues
    BY QueuesAssumption, Zenon DEF Threads, AllQueues
  <1>2. /\ jobCount[q] = 0 /\ q \notin InGlobal /\ Holders(q) = {}
        /\ \A u \in Threads : oneOff[u] # q
    BY <1>s, Zenon DEF PushGlobalQueue, IndInv, OneOffsFresh
  <1>3. /\ UNCHANGED <<globalQueue, jobs, execPc, self>> /\ InGlobal' = InGlobal
        /\ \A r \in AllQueues : r # q => jobCount'[r] = jobCount[r]
        /\ made' = made \cup {q}
    BY <1>s DEF PushGlobalQueue, BeginPush, InGlobal
  <1>4. \A r \in AllQueues : Pushing(r)' = IF r = q THEN Pushing(r) \cup {t} ELSE Pushing(r)
    BY <1>0, <1>s, <1>1, <1>2, NoneAssumption DEF PushGlobalQueue, BeginPush, Idle,
       Pushing, TypeOK
  <1>5. \A r \in AllQueues : Executing(r)' = Executing(r)
    BY <1>3, Zenon DEF Executing
  <1>6. \A r \in AllQueues : Making(r)' = Making(r)
    BY <1>0, <1>s, NoneAssumption DEF PushGlobalQueue, BeginPush, Idle, Making, TypeOK
  <1>7. \A r \in AllQueues : Holders(r)' = IF r = q THEN {t} ELSE Holders(r)
    BY <1>4, <1>5, <1>6, <1>2 DEF Holders
  <1>8. \A r \in AllQueues : Pushing(r)' \cap Executing(r)' = {}
    BY <1>4, <1>5, <1>2 DEF IndInv, OneHolder, Holders
  <1>9. OneHolder'
    BY <1>3, <1>7, <1>8, <1>2, Zenon DEF IndInv, OneHolder
  <1>10. \A u \in Threads, r \in OneOffs : oneOff'[u] = r => (IF u = t THEN r = q ELSE oneOff[u] = r)
    BY <1>s, NoneAssumption DEF PushGlobalQueue, AllQueues
  <1>11. HeldHasJobs' /\ NotStranded'
    BY <1>1, <1>3, <1>7, Zenon DEF IndInv, HeldHasJobs, NotStranded, AllQueues
  <1>12. OneOffsFresh'
    BY <1>3, <1>7, <1>10, Zenon DEF IndInv, OneOffsFresh, AllQueues
  <1>13. OneOffsHeld'
    BY <1>7, <1>10, <1>2, Zenon DEF IndInv, OneOffsHeld, AllQueues
  <1>14. OneOffsPushed'
    BY <1>s, <1>2 DEF PushGlobalQueue, BeginPush, Idle, IndInv, OneOffsPushed, TypeOK
  <1>15. OneOffsKept'
    BY <1>3, ZenonT(30) DEF IndInv, OneOffsKept
  <1>16. OneOffsEmptied'
    BY <1>3, <1>4, EmptiedKept, ZenonT(30) DEF Taking, AllQueues
  <1> QED BY <1>9, <1>11, <1>12, <1>13, <1>14, <1>15, <1>16, Zenon DEF HolderInv

(* A pusher that found a count above zero was not a holder. *)
LEMMA HolderPushReturn ==
  ASSUME IndInv, NEW t \in Threads, PushReturn(t)
  PROVE  HolderInv'
  <1> USE DEF pushVars, execVars, loopVars
  <1>s. PushReturn(t)
    BY Zenon
  <1>0. TypeOK
    BY Zenon DEF IndInv
  <1>1. execPc[t] = "none" => oneOff[t] = None
    BY <1>s, Zenon DEF PushReturn, EndPush, IndInv, OneOffsHeld, TypeOK, Holders, Pushing, Executing,
       Making, Idle
  <1>2. \A r \in AllQueues : Pushing(r)' = Pushing(r)
    BY <1>0, <1>s DEF PushReturn, EndPush, Pushing, TypeOK
  <1>3. \A r \in AllQueues : Executing(r)' = Executing(r) /\ Making(r)' = Making(r)
    BY <1>s, <1>1, NoneAssumption DEF PushReturn, EndPush, Executing, Making, Idle
  <1>4. \A r \in AllQueues : Holders(r)' = Holders(r) /\ Pushing(r)' \cap Executing(r)' = {}
    BY <1>2, <1>3, Zenon DEF Holders, IndInv, OneHolder
  <1>5. Responsible'
    BY <1>s, <1>4, HoldersKept, Zenon DEF PushReturn
  <1>6. OneOffsPushed' /\ OneOffsKept'
    BY <1>0, <1>s DEF PushReturn, EndPush, IndInv, OneOffsPushed, OneOffsKept, TypeOK
  <1>7. OneOffsEmptied'
    BY <1>s, <1>2, EmptiedKept, ZenonT(30) DEF PushReturn, Taking, AllQueues
  <1> QED BY <1>5, <1>6, <1>7, Zenon DEF HolderInv, Responsible

(* DoAsync makes the pusher of the first job of a queue its holder. *)
LEMMA HolderDoAsync ==
  ASSUME IndInv, Counts, NEW t \in Threads, NEW q \in Queues, NEW j \in Jobs, DoAsync(t, q, j)
  PROVE  HolderInv'
  <1> USE DEF pushVars, execVars, loopVars
  <1>s. DoAsync(t, q, j)
    BY Zenon
  <1>0. TypeOK
    BY Zenon DEF IndInv
  <1>1. q \in AllQueues
    BY Zenon DEF AllQueues
  <1>2. jobCount[q] = 0 => q \notin InGlobal /\ Holders(q) = {}
    BY Zenon DEF IndInv, HeldHasJobs
  <1>3. jobCount'[q] # 0 /\ \A r \in AllQueues : r # q => jobCount'[r] = jobCount[r]
    BY <1>0, <1>s, <1>1 DEF Counts, DoAsync, BeginPush, TypeOK
  <1>4. \A r \in AllQueues : t \notin Making(r)
    BY <1>s, NoneAssumption, ThreadsAssumption, Zenon DEF DoAsync, Making, Idle, IndInv,
       OneOffsHeld, TypeOK
  <1>5. \A r \in AllQueues : Pushing(r)' = IF r = q /\ jobCount[q] = 0 THEN Pushing(r) \cup {t} ELSE Pushing(r)
    BY <1>0, <1>s DEF DoAsync, BeginPush, Pushing, TypeOK
  <1>6. \A r \in AllQueues : Executing(r)' = Executing(r) /\ Making(r)' = Making(r)
    BY <1>s, <1>4 DEF DoAsync, BeginPush, Executing, Making, Idle
  <1>7. \A r \in AllQueues : Holders(r)' = IF r = q /\ jobCount[q] = 0 THEN {t} ELSE Holders(r)
    BY <1>5, <1>6, <1>2 DEF Holders
  <1>8. \A r \in AllQueues : Pushing(r)' \cap Executing(r)' = {}
    BY <1>0, <1>5, <1>6, <1>2 DEF IndInv, OneHolder, Holders, TypeOK
  <1>9. UNCHANGED <<globalQueue, oneOff, made, jobs, execPc, self>> /\ InGlobal' = InGlobal
    BY <1>0, <1>s DEF DoAsync, BeginPush, InGlobal, TypeOK
  <1>10. OneHolder'
    BY <1>7, <1>8, <1>9, <1>2, ZenonT(30) DEF IndInv, OneHolder
  <1>11. HeldHasJobs' /\ NotStranded'
    <2>1. HeldHasJobs'
      BY <1>7, <1>9, <1>3, ZenonT(30) DEF IndInv, HeldHasJobs, AllQueues
    <2>2. NotStranded'
      BY <1>7, <1>9, <1>3, ZenonT(30) DEF IndInv, NotStranded, AllQueues
    <2> QED BY <2>1, <2>2, Zenon
  <1>12. OneOffsFresh' /\ OneOffsHeld'
    BY <1>3, <1>7, <1>9, QueuesAssumption DEF IndInv, OneOffsFresh, OneOffsHeld, AllQueues
  <1>13. OneOffsPushed'
    BY <1>s, QueuesAssumption DEF DoAsync, BeginPush, IndInv, OneOffsPushed, TypeOK
  <1>14. OneOffsKept'
    BY <1>9, Zenon DEF IndInv, OneOffsKept
  <1>15. OneOffsEmptied'
    <2>1. \A r \in OneOffs : jobs'[r] = jobs[r] /\ Taking(r) \subseteq Taking(r)'
      BY <1>5, <1>9 DEF Taking, AllQueues
    <2> QED BY <2>1, EmptiedKept, ZenonT(30)
  <1> QED BY <1>10, <1>11, <1>12, <1>13, <1>14, <1>15, Zenon DEF HolderInv

(* Every step keeps OneOffsSpent.  The jobs of a one-off queue are there   *)
(* only while its maker is about to take them, and a worker gets the queue *)
(* from GGlobalQueue, where nobody is responsible for it any more.         *)
LEMMA SpentStep ==
  IndInv /\ OneOffsSpent /\ [Next]_vars => OneOffsSpent'
  <1> SUFFICES ASSUME IndInv, OneOffsSpent, [Next]_vars PROVE OneOffsSpent'
    BY Zenon
  <1> USE DEF OneOffsSpent
  <1>0. /\ self \in [Threads -> AllQueues \cup {None}]
        /\ execPc \in [Threads -> {"none", "popall", "loop", "job", "requeue"}]
        /\ oneOff \in [Threads -> OneOffs \cup {None}] /\ DOMAIN batch = Threads
        /\ DOMAIN jobs = AllQueues /\ Threads = Workers \cup Helpers
        /\ None \notin OneOffs
    BY NoneAssumption, Zenon DEF IndInv, TypeOK, Threads, AllQueues
  <1>1. ASSUME NEW t \in Threads, execPc[t] = "none" PROVE self[t] = None /\ batch[t] = <<>>
    BY <1>1, Zenon DEF IndInv, LocalsAgree
  <1>2. CASE UNCHANGED <<self, oneOff, batch, jobs>>
    BY <1>2, Zenon
  <1>3. ASSUME NEW t \in Threads, Enqueue(t) PROVE OneOffsSpent'
    <2>1. UNCHANGED <<self, oneOff, batch>> /\ \A r \in AllQueues : r # pushQ[t] => jobs'[r] = jobs[r]
      BY <1>0, <1>3, Zenon DEF Enqueue, execVars, loopVars
    <2>2. ASSUME NEW u \in Threads, self[u] \in OneOffs PROVE self[u] # pushQ[t]
      <3>1. CASE pushQ[t] \notin OneOffs
        BY <2>2, <3>1, Zenon
      <3>2. CASE pushQ[t] \in OneOffs
        <4>1. t \in Pushing(pushQ[t])
          BY <1>3, <3>2, Zenon DEF Enqueue, Pushing, IndInv, OneOffsPushed
        <4>2. execPc[u] # "none"
          BY <1>0, <1>1, <2>2, Zenon
        <4> QED BY <2>2, <3>2, <4>1, <4>2 DEF IndInv, OneHolder, Holders, Executing, AllQueues
      <3> QED BY <3>1, <3>2, Zenon
    <2> QED BY <2>1, <2>2, Zenon DEF AllQueues
  <1>4. ASSUME NEW t \in Threads, PushExecute(t) PROVE OneOffsSpent'
    <2>1. /\ UNCHANGED <<oneOff, batch, jobs>> /\ self' = [self EXCEPT ![t] = pushQ[t]]
          /\ pushQ[t] \in OneOffs => oneOff[t] = pushQ[t]
      BY <1>4, Zenon DEF PushExecute, EnterExecute, EndPush, loopVars, IndInv, OneOffsPushed
    <2> QED BY <1>0, <2>1, Zenon
  <1>5. ASSUME NEW t \in Threads, PopAll(t) PROVE OneOffsSpent'
    <2>1. /\ UNCHANGED <<oneOff, self>> /\ batch' = [batch EXCEPT ![t] = jobs[self[t]]]
          /\ jobs' = [jobs EXCEPT ![self[t]] = <<>>]
      BY <1>5, Zenon DEF PopAll, loopVars
    <2> QED BY <1>0, <2>1, Zenon DEF AllQueues
  <1>6. ASSUME NEW t \in Threads, FinishJob(t) PROVE OneOffsSpent'
    <2>1. UNCHANGED <<oneOff, self, jobs>> /\ batch' = [batch EXCEPT ![t] = Tail(@)] /\ batch[t] # <<>>
      BY <1>6, Zenon DEF FinishJob, loopVars, IndInv, LocalsAgree
    <2> QED BY <1>0, <2>1, Zenon
  <1>7. ASSUME NEW t \in Threads, ExecuteDrained(t) \/ Requeue(t) PROVE OneOffsSpent'
    <2>1. UNCHANGED <<oneOff, batch, jobs>> /\ self' = [self EXCEPT ![t] = None]
      BY <1>7, Zenon DEF ExecuteDrained, SubtractTaken, Requeue, loopVars
    <2> QED BY <1>0, <2>1, Zenon
  <1>8. ASSUME NEW t \in Workers, GlobalPop(t) PROVE OneOffsSpent'
    <2> DEFINE q == Head(globalQueue)
    <2>1. t \in Threads /\ q \in InGlobal /\ q \in AllQueues
      BY <1>0, <1>8, GlobalIsEntries, GlobalTail DEF GlobalPop
    <2>2. q \in OneOffs => jobs[q] = <<>>
      BY <2>1 DEF IndInv, OneHolder, OneOffsEmptied, Taking, Holders, Executing
    <2>3. UNCHANGED <<oneOff, batch, jobs>> /\ self' = [self EXCEPT ![t] = q] /\ execPc[t] = "none"
      BY <1>8, Zenon DEF GlobalPop, EnterExecute, Idle, loopVars
    <2> QED BY <1>0, <1>1, <2>1, <2>2, <2>3, Zenon
  <1>9. ASSUME NEW t \in Helpers, PushOneOff(t) \/ \E q \in OneOffs, j \in Jobs : PushGlobalQueue(t, q, j)
        PROVE  OneOffsSpent'
    <2>1. /\ UNCHANGED <<self, batch, jobs>> /\ execPc[t] = "none"
          /\ \A u \in Threads : u # t => oneOff'[u] = oneOff[u]
      BY <1>0, <1>9, Zenon DEF PushOneOff, PushGlobalQueue, BeginPush, Idle, execVars
    <2> QED BY <1>0, <1>1, <2>1, Zenon
  <1>10. ASSUME \/ \E t \in Threads, q \in Queues, j \in Jobs : DoAsync(t, q, j)
                \/ \E t \in Threads : \/ PushReturn(t) \/ PushDelegate(t) \/ StartJob(t)
                                       \/ ExecuteAgain(t) \/ ExecuteTimeUp(t)
                \/ \E t \in Workers : DispatchReturn(t) \/ GlobalQuit(t)
                \/ UNCHANGED vars
         PROVE  UNCHANGED <<self, oneOff, batch, jobs>>
    BY <1>10, Zenon DEF DoAsync, BeginPush, PushReturn, PushDelegate, StartJob, ExecuteAgain,
       ExecuteTimeUp, SubtractTaken, DispatchReturn, GlobalQuit, vars, execVars, loopVars
  <1> QED BY <1>2, <1>3, <1>4, <1>5, <1>6, <1>7, <1>8, <1>9, <1>10, Zenon
       DEF Next, PushStep, ExecStep, LoopStep

-----------------------------------------------------------------------------
(* Types and the agreement of a thread's locals with its position. *)
(* Every step keeps the types and the locals of Push and Execute in order. *)
LEMMA LocalStep ==
  IndInv /\ [Next]_vars => TypeOK' /\ LocalsAgree'
  <1> SUFFICES ASSUME TypeOK, LocalsAgree, [Next]_vars PROVE TypeOK' /\ LocalsAgree'
    BY Zenon DEF IndInv
  <1> USE NoneAssumption DEF pushVars, execVars, loopVars
  <1>1. ASSUME NEW t \in Threads, NEW q \in AllQueues, NEW j \in Jobs, BeginPush(t, q, j),
               pushPc[t] = "none", execPc[t] \in {"none", "job"}
        PROVE  /\ LocalsAgree'
               /\ UNCHANGED loopVars => TypeOK'
               /\ q \in OneOffs /\ UNCHANGED workPc /\ made' = made \cup {q}
                    /\ oneOff' = [oneOff EXCEPT ![t] = q] => TypeOK'
    <2>1. LocalsAgree'
      BY <1>1, ZenonT(60) DEF BeginPush, TypeOK, LocalsAgree
    <2>2. UNCHANGED loopVars => TypeOK'
      BY <1>1 DEF BeginPush, TypeOK
    <2>3. q \in OneOffs /\ UNCHANGED workPc /\ made' = made \cup {q}
            /\ oneOff' = [oneOff EXCEPT ![t] = q] => TypeOK'
      BY <1>1 DEF BeginPush, TypeOK
    <2> QED BY <2>1, <2>2, <2>3, Zenon
  <1>2. ASSUME NEW t \in Threads, NEW q \in Queues, NEW j \in Jobs, DoAsync(t, q, j)
        PROVE  TypeOK' /\ LocalsAgree'
    BY <1>1, <1>2, Zenon DEF DoAsync, AllQueues
  <1>3. ASSUME NEW t \in Helpers, NEW q \in OneOffs, NEW j \in Jobs, PushGlobalQueue(t, q, j)
        PROVE  TypeOK' /\ LocalsAgree'
    BY <1>1, <1>3, ZenonT(30) DEF PushGlobalQueue, Idle, AllQueues, Threads
  <1>4. ASSUME NEW t \in Threads, Enqueue(t) PROVE TypeOK' /\ LocalsAgree'
    <2>1. TypeOK'
      BY <1>4 DEF Enqueue, TypeOK, LocalsAgree
    <2>2. LocalsAgree'
      BY <1>4, Zenon DEF Enqueue, LocalsAgree, TypeOK
    <2> QED BY <2>1, <2>2, Zenon
  <1>5. ASSUME NEW t \in Threads, PushReturn(t) PROVE TypeOK' /\ LocalsAgree'
    <2>1. TypeOK'
      BY <1>5 DEF PushReturn, EndPush, TypeOK
    <2>2. LocalsAgree'
      BY <1>5, Zenon DEF PushReturn, EndPush, TypeOK, LocalsAgree
    <2> QED BY <2>1, <2>2, Zenon
  <1>6. ASSUME NEW t \in Threads, PushDelegate(t) PROVE TypeOK' /\ LocalsAgree'
    <2>1. TypeOK'
      BY <1>6 DEF PushDelegate, EndPush, TypeOK, LocalsAgree
    <2>2. LocalsAgree'
      BY <1>6, Zenon DEF PushDelegate, EndPush, TypeOK, LocalsAgree
    <2> QED BY <2>1, <2>2, Zenon
  <1>7. ASSUME NEW t \in Threads, PushExecute(t) PROVE TypeOK' /\ LocalsAgree'
    <2>1. TypeOK'
      BY <1>7, Zenon DEF PushExecute, EndPush, EnterExecute, TypeOK
    <2>2. LocalsAgree'
      BY <1>7 DEF PushExecute, EndPush, EnterExecute, TypeOK, LocalsAgree
    <2> QED BY <2>1, <2>2, Zenon
  <1>8. ASSUME NEW t \in Threads, PopAll(t) PROVE TypeOK' /\ LocalsAgree'
    <2>1. /\ self[t] \in AllQueues /\ jobs[self[t]] \in Seq(Jobs)
          /\ Len(jobs[self[t]]) \in Nat /\ <<>> \in Seq(Jobs)
      BY <1>8 DEF PopAll, TypeOK, LocalsAgree
    <2>2. TypeOK'
      BY <1>8, <2>1, Zenon DEF PopAll, TypeOK
    <2>3. LocalsAgree'
      BY <1>8, <2>1, Zenon DEF PopAll, TypeOK, LocalsAgree
    <2> QED BY <2>2, <2>3, Zenon
  <1>9. ASSUME NEW t \in Threads, StartJob(t) PROVE TypeOK' /\ LocalsAgree'
    <2>1. TypeOK'
      BY <1>9, Zenon DEF StartJob, TypeOK
    <2>2. LocalsAgree'
      BY <1>9 DEF StartJob, LocalsAgree
    <2> QED BY <2>1, <2>2, Zenon
  <1>10. ASSUME NEW t \in Threads, FinishJob(t) PROVE TypeOK' /\ LocalsAgree'
    <2>1. TypeOK'
      BY <1>10 DEF FinishJob, TypeOK, LocalsAgree
    <2>2. LocalsAgree'
      BY <1>10, Zenon DEF FinishJob, TypeOK, LocalsAgree
    <2> QED BY <2>1, <2>2, Zenon
  <1>11. ASSUME NEW t \in Threads, SubtractTaken(t)
         PROVE  /\ self[t] \in AllQueues /\ jobCount'[self[t]] \in Int
                /\ jobCount' \in [AllQueues -> Int] /\ taken' \in [Threads -> Nat]
                /\ UNCHANGED <<jobs, globalQueue, pushVars, batch, loopVars, posted, done>>
                /\ execPc[t] = "loop" /\ pushPc[t] = "none" /\ batch[t] = <<>> /\ taken'[t] = 0
                /\ \A u \in Threads : u # t => taken'[u] = taken[u]
    <2>1. self[t] \in AllQueues /\ jobCount[self[t]] - taken[t] \in Int
      BY <1>11 DEF SubtractTaken, TypeOK, LocalsAgree
    <2> QED BY <1>11, <2>1 DEF SubtractTaken, TypeOK, LocalsAgree
  <1>12. ASSUME NEW t \in Threads, ExecuteDrained(t) \/ ExecuteAgain(t) \/ ExecuteTimeUp(t)
         PROVE  TypeOK' /\ LocalsAgree'
    <2>1. /\ self[t] \in AllQueues /\ pushPc[t] = "none" /\ execPc[t] = "loop"
          /\ jobCount' \in [AllQueues -> Int] /\ taken' \in [Threads -> Nat]
          /\ UNCHANGED <<jobs, globalQueue, pushVars, batch, loopVars, posted, done>>
          /\ batch[t] = <<>> /\ taken'[t] = 0
          /\ \A u \in Threads : u # t => taken'[u] = taken[u]
      BY <1>11, <1>12, ZenonT(30) DEF ExecuteDrained, ExecuteAgain, ExecuteTimeUp
    <2>a. /\ DOMAIN execPc = Threads /\ DOMAIN self = Threads /\ DOMAIN current = Threads
          /\ self[t] # None /\ current[t] = self[t]
      BY <2>1, Zenon DEF TypeOK, LocalsAgree
    <2>2. CASE ExecuteDrained(t)
      <3>1. TypeOK'
        BY <2>1, <2>2, Zenon DEF ExecuteDrained, TypeOK
      <3>2. LocalsAgree'
        BY <2>a, <2>1, <2>2, Zenon DEF ExecuteDrained, LocalsAgree
      <3> QED BY <3>1, <3>2, Zenon
    <2>3. CASE ExecuteAgain(t)
      <3>1. TypeOK'
        BY <2>1, <2>3, Zenon DEF ExecuteAgain, TypeOK
      <3>2. LocalsAgree'
        BY <2>a, <2>1, <2>3, Zenon DEF ExecuteAgain, LocalsAgree
      <3> QED BY <3>1, <3>2, Zenon
    <2>4. CASE ExecuteTimeUp(t)
      <3>1. TypeOK'
        BY <2>1, <2>4, Zenon DEF ExecuteTimeUp, TypeOK
      <3>2. LocalsAgree'
        BY <2>a, <2>1, <2>4, Zenon DEF ExecuteTimeUp, LocalsAgree
      <3> QED BY <3>1, <3>2, Zenon
    <2> QED BY <1>12, <2>2, <2>3, <2>4, Zenon
  <1>14. ASSUME NEW t \in Threads, Requeue(t) PROVE TypeOK' /\ LocalsAgree'
    <2>1. TypeOK'
      BY <1>14 DEF Requeue, TypeOK, LocalsAgree
    <2>2. LocalsAgree'
      BY <1>14 DEF Requeue, TypeOK, LocalsAgree
    <2> QED BY <2>1, <2>2, Zenon
  <1>15. ASSUME NEW t \in Workers, DispatchReturn(t) PROVE TypeOK' /\ LocalsAgree'
    <2>1. TypeOK'
      BY <1>15, Zenon DEF DispatchReturn, TypeOK, Threads
    <2>2. LocalsAgree'
      BY <1>15, Zenon DEF DispatchReturn, LocalsAgree
    <2> QED BY <2>1, <2>2, Zenon
  <1>16. ASSUME NEW t \in Workers, GlobalPop(t) PROVE TypeOK' /\ LocalsAgree'
    <2>1. /\ t \in Threads /\ Head(globalQueue) \in AllQueues
          /\ Tail(globalQueue) \in Seq(AllQueues)
      BY <1>16 DEF GlobalPop, TypeOK, Threads
    <2>2. TypeOK'
      BY <1>16, <2>1, Zenon DEF GlobalPop, EnterExecute, Idle, TypeOK
    <2>3. LocalsAgree'
      <3>1. /\ \A u \in Threads \ {t} : execPc'[u] = execPc[u] /\ self'[u] = self[u] /\ current'[u] = current[u]
            /\ execPc'[t] = "popall" /\ self'[t] = Head(globalQueue) /\ current'[t] = Head(globalQueue)
            /\ UNCHANGED <<pushPc, pushQ, pushJob, batch, taken>>
        BY <1>16, <2>1, Zenon DEF GlobalPop, EnterExecute, TypeOK
      <3>2. /\ pushPc[t] = "none" /\ pushQ[t] = None /\ batch[t] = <<>> /\ taken[t] = 0
            /\ Head(globalQueue) # None
        BY <1>16, <2>1, Zenon DEF GlobalPop, Idle, LocalsAgree
      <3>3. "popall" \notin {"none", "job"}
        OBVIOUS
      <3> QED BY <2>1, <3>1, <3>2, <3>3, ZenonT(60) DEF LocalsAgree
    <2> QED BY <2>2, <2>3, Zenon
  <1>17. ASSUME NEW t \in Workers, GlobalQuit(t) PROVE TypeOK' /\ LocalsAgree'
    <2>1. TypeOK'
      BY <1>17, Zenon DEF GlobalQuit, TypeOK, Threads
    <2>2. LocalsAgree'
      BY <1>17, Zenon DEF GlobalQuit, LocalsAgree
    <2> QED BY <2>1, <2>2, Zenon
  <1>18. ASSUME NEW t \in Helpers, PushOneOff(t) PROVE TypeOK' /\ LocalsAgree'
    <2>1. t \in Threads /\ oneOff[t] \in AllQueues
      BY <1>18, Zenon DEF PushOneOff, TypeOK, Threads, AllQueues
    <2>2. TypeOK'
      BY <1>18, <2>1 DEF PushOneOff, TypeOK
    <2>3. LocalsAgree'
      BY <1>18, Zenon DEF PushOneOff, LocalsAgree
    <2> QED BY <2>2, <2>3, Zenon
  <1>19. CASE UNCHANGED vars
    BY <1>19, Zenon DEF vars, TypeOK, LocalsAgree
  <1> QED
    BY <1>2, <1>3, <1>4, <1>5, <1>6, <1>7, <1>8, <1>9, <1>10, <1>11, <1>12, <1>14, <1>15,
       <1>16, <1>17, <1>18, <1>19, ZenonT(30) DEF Next, PushStep, ExecStep, LoopStep
=============================================================================
