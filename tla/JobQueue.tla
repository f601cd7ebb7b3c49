------------------------------ MODULE JobQueue ------------------------------
(***************************************************************************)
(* The job queues of DhUtil (JobQueue.cpp, GlobalQueue.cpp) and the        *)
(* threads that push to them and drain them (ThreadManager.cpp, the loop   *)
(* GameServer::Job).                                                       *)
(*                                                                         *)
(* A thread that posts a job counts it (m_jobCount.fetch_add), enqueues it *)
(* (m_jobs.Push, under the queue's lock) and, when the count was zero,     *)
(* becomes the executor of the queue: it either runs Execute on the spot   *)
(* or, when it is already inside a job, hands the queue to GGlobalQueue.   *)
(* The executor takes all jobs, runs them, subtracts their number from the *)
(* count and stops, repeats, or hands the queue over, depending on what is *)
(* left and on its time slice.  Steps of different threads interleave at   *)
(* every atomic or lock-protected access.                                  *)
(*                                                                         *)
(* Helpers are the threads without a logic loop of their own: the database *)
(* threads and the gRPC handler threads.  They post one-off jobs through   *)
(* ThreadManager::PushGlobalQueue, which makes a queue for the single job. *)
(***************************************************************************)
EXTENDS Integers, Sequences, FiniteSets

CONSTANTS
  Workers,   \* the threads of GameServer::Job
  Helpers,   \* threads that call ThreadManager::PushGlobalQueue
  Queues,    \* the long-lived job queues (lobbies and rooms)
  OneOffs,   \* the queues PushGlobalQueue can allocate
  Jobs,      \* the jobs that can be posted, each at most once
  None       \* null pointer

Threads == Workers \cup Helpers
AllQueues == Queues \cup OneOffs

ASSUME ThreadsAssumption ==
  /\ Workers \cap Helpers = {}
  /\ IsFiniteSet(Threads)
ASSUME QueuesAssumption == Queues \cap OneOffs = {}
ASSUME NoneAssumption == None \notin AllQueues /\ None \notin Jobs

VARIABLES
  jobCount,     \* m_jobCount of every queue
  jobs,         \* m_jobs of every queue
  globalQueue,  \* GGlobalQueue
  current,      \* LCurrentJobQueue of every thread
  pushPc,       \* where a thread is inside JobQueue::Push
  pushQ,        \* the queue it pushes to
  pushJob,      \* the job it pushes
  prevCount,    \* its local prevCount
  execPc,       \* where a thread is inside JobQueue::Execute
  self,         \* the queue it executes
  batch,        \* its local vector of jobs, without those already run
  taken,        \* the size of that vector when it was taken
  workPc,       \* where a worker is in the loop of GameServer::Job
  oneOff,       \* the queue a helper made in PushGlobalQueue
  made,         \* the one-off queues allocated so far
  posted,       \* the jobs posted so far
  done          \* history: the jobs that have been run

pushVars == <<pushPc, pushQ, pushJob, prevCount>>
execVars == <<current, execPc, self, batch, taken>>
loopVars == <<workPc, oneOff, made>>
vars == <<jobCount, jobs, globalQueue, pushVars, execVars, loopVars, posted, done>>

Init ==
  /\ jobCount = [q \in AllQueues |-> 0]
  /\ jobs = [q \in AllQueues |-> <<>>]
  /\ globalQueue = <<>>
  /\ current = [t \in Threads |-> None]
  /\ pushPc = [t \in Threads |-> "none"]
  /\ pushQ = [t \in Threads |-> None]
  /\ pushJob = [t \in Threads |-> None]
  /\ prevCount = [t \in Threads |-> 0]
  /\ execPc = [t \in Threads |-> "none"]
  /\ self = [t \in Threads |-> None]
  /\ batch = [t \in Threads |-> <<>>]
  /\ taken = [t \in Threads |-> 0]
  /\ workPc = [t \in Threads |-> "dispatch"]
  /\ oneOff = [t \in Threads |-> None]
  /\ made = {}
  /\ posted = {}
  /\ done = {}

Idle(t) == pushPc[t] = "none" /\ execPc[t] = "none"
InExecute(t, q) == execPc[t] \in {"popall", "loop", "job"} /\ self[t] = q
-----------------------------------------------------------------------------
(* JobQueue::Push *)

(* fetch_add(1) on the count; the other steps of Push follow. *)
BeginPush(t, q, j) ==
  /\ j \notin posted
  /\ posted' = posted \cup {j}
  /\ prevCount' = [prevCount EXCEPT ![t] = jobCount[q]]
  /\ jobCount' = [jobCount EXCEPT ![q] = @ + 1]
  /\ pushPc' = [pushPc EXCEPT ![t] = "counted"]
  /\ pushQ' = [pushQ EXCEPT ![t] = q]
  /\ pushJob' = [pushJob EXCEPT ![t] = j]
  /\ UNCHANGED <<jobs, globalQueue, execVars, done>>

(* DoAsync on a long-lived queue, from the handler of a completion or from *)
(* inside a job.                                                           *)
DoAsync(t, q, j) ==
  /\ pushPc[t] = "none"
  /\ \/ execPc[t] = "job"
     \/ execPc[t] = "none" /\ t \in Workers /\ workPc[t] = "dispatch"
  /\ BeginPush(t, q, j)
  /\ UNCHANGED loopVars

(* PushGlobalQueue allocates a queue and calls DoAsync on it; the queue is *)
(* pushed to GGlobalQueue when DoAsync has returned (PushOneOff).          *)
PushGlobalQueue(t, q, j) ==
  /\ Idle(t)
  /\ oneOff[t] = None
  /\ q \notin made
  /\ made' = made \cup {q}
  /\ oneOff' = [oneOff EXCEPT ![t] = q]
  /\ BeginPush(t, q, j)
  /\ UNCHANGED workPc

(* m_jobs.Push(_job) under the lock of the LockQueue. *)
Enqueue(t) ==
  /\ pushPc[t] = "counted"
  /\ jobs' = [jobs EXCEPT ![pushQ[t]] = Append(@, pushJob[t])]
  /\ pushPc' = [pushPc EXCEPT ![t] = "queued"]
  /\ UNCHANGED <<jobCount, globalQueue, pushQ, pushJob, prevCount, execVars,
                 loopVars, posted, done>>

EndPush(t) ==
  /\ pushPc[t] = "queued"
  /\ pushPc' = [pushPc EXCEPT ![t] = "none"]
  /\ pushQ' = [pushQ EXCEPT ![t] = None]
  /\ pushJob' = [pushJob EXCEPT ![t] = None]
  /\ prevCount' = [prevCount EXCEPT ![t] = 0]

(* Another thread is the executor of the queue. *)
PushReturn(t) ==
  /\ prevCount[t] # 0
  /\ EndPush(t)
  /\ UNCHANGED <<jobCount, jobs, globalQueue, execVars, loopVars, posted, done>>

(* Mutant: the delegated queue is not pushed to GGlobalQueue. *)
PushDelegateLost(t) ==
  /\ prevCount[t] = 0
  /\ current[t] # None
  /\ EndPush(t)
  /\ UNCHANGED <<jobCount, jobs, globalQueue, execVars, loopVars, posted, done>>

(* First job, but this thread is inside Execute already: delegate. *)
PushDelegate(t) ==
  /\ prevCount[t] = 0
  /\ current[t] # None
  /\ globalQueue' = Append(globalQueue, pushQ[t])
  /\ EndPush(t)
  /\ UNCHANGED <<jobCount, jobs, execVars, loopVars, posted, done>>

EnterExecute(t, q) ==
  /\ current' = [current EXCEPT ![t] = q]
  /\ self' = [self EXCEPT ![t] = q]
  /\ execPc' = [execPc EXCEPT ![t] = "popall"]
  /\ UNCHANGED <<batch, taken>>

(* First job and the thread is free: it runs the queue itself. *)
PushExecute(t) ==
  /\ prevCount[t] = 0
  /\ current[t] = None
  /\ EnterExecute(t, pushQ[t])
  /\ EndPush(t)
  /\ UNCHANGED <<jobCount, jobs, globalQueue, loopVars, posted, done>>
-----------------------------------------------------------------------------
(* JobQueue::Execute *)

(* Mutant: the jobs are copied and not removed from m_jobs. *)
PopAllCopies(t) ==
  /\ execPc[t] = "popall"
  /\ batch' = [batch EXCEPT ![t] = jobs[self[t]]]
  /\ taken' = [taken EXCEPT ![t] = Len(jobs[self[t]])]
  /\ execPc' = [execPc EXCEPT ![t] = "loop"]
  /\ UNCHANGED <<jobCount, jobs, globalQueue, pushVars, current, self, loopVars, posted, done>>

(* PopAll: swap out the whole of m_jobs under the lock of the LockQueue. *)
PopAll(t) ==
  /\ execPc[t] = "popall"
  /\ batch' = [batch EXCEPT ![t] = jobs[self[t]]]
  /\ taken' = [taken EXCEPT ![t] = Len(jobs[self[t]])]
  /\ jobs' = [jobs EXCEPT ![self[t]] = <<>>]
  /\ execPc' = [execPc EXCEPT ![t] = "loop"]
  /\ UNCHANGED <<jobCount, globalQueue, pushVars, current, self, loopVars, posted, done>>

StartJob(t) ==
  /\ execPc[t] = "loop"
  /\ batch[t] # <<>>
  /\ execPc' = [execPc EXCEPT ![t] = "job"]
  /\ UNCHANGED <<jobCount, jobs, globalQueue, pushVars, current, self, batch, taken,
                 loopVars, posted, done>>

(* The job returns or throws; Job::Execute swallows what it throws. *)
FinishJob(t) ==
  /\ execPc[t] = "job"
  /\ pushPc[t] = "none"
  /\ done' = done \cup {Head(batch[t])}
  /\ batch' = [batch EXCEPT ![t] = Tail(@)]
  /\ execPc' = [execPc EXCEPT ![t] = "loop"]
  /\ UNCHANGED <<jobCount, jobs, globalQueue, pushVars, current, self, taken, loopVars, posted>>

(* m_jobCount.fetch_sub(jobCount) after the last job of the batch. *)
SubtractTaken(t) ==
  /\ execPc[t] = "loop"
  /\ batch[t] = <<>>
  /\ jobCount' = [jobCount EXCEPT ![self[t]] = @ - taken[t]]
  /\ taken' = [taken EXCEPT ![t] = 0]
  /\ UNCHANGED <<jobs, globalQueue, pushVars, batch, loopVars, posted, done>>

(* Mutant: the executor stops when m_jobs is empty, whatever is counted. *)
ExecuteDrainedByJobs(t) ==
  /\ SubtractTaken(t)
  /\ jobs[self[t]] = <<>>
  /\ current' = [current EXCEPT ![t] = None]
  /\ self' = [self EXCEPT ![t] = None]
  /\ execPc' = [execPc EXCEPT ![t] = "none"]

(* Nothing was added meanwhile: the thread stops being the executor. *)
ExecuteDrained(t) ==
  /\ SubtractTaken(t)
  /\ jobCount[self[t]] = taken[t]
  /\ current' = [current EXCEPT ![t] = None]
  /\ self' = [self EXCEPT ![t] = None]
  /\ execPc' = [execPc EXCEPT ![t] = "none"]

(* More jobs and time left.  A helper has no time slice: its LEndTickCount *)
(* keeps the initial value 0, so it always gives up after one batch.       *)
ExecuteAgain(t) ==
  /\ t \in Workers
  /\ SubtractTaken(t)
  /\ jobCount[self[t]] # taken[t]
  /\ execPc' = [execPc EXCEPT ![t] = "popall"]
  /\ UNCHANGED <<current, self>>

(* More jobs, but the time slice is over. *)
ExecuteTimeUp(t) ==
  /\ SubtractTaken(t)
  /\ jobCount[self[t]] # taken[t]
  /\ current' = [current EXCEPT ![t] = None]
  /\ execPc' = [execPc EXCEPT ![t] = "requeue"]
  /\ UNCHANGED self

Requeue(t) ==
  /\ execPc[t] = "requeue"
  /\ globalQueue' = Append(globalQueue, self[t])
  /\ execPc' = [execPc EXCEPT ![t] = "none"]
  /\ self' = [self EXCEPT ![t] = None]
  /\ UNCHANGED <<jobCount, jobs, pushVars, current, batch, taken, loopVars, posted, done>>
-----------------------------------------------------------------------------
(* The loop of GameServer::Job and ThreadManager *)

(* Dispatch(10) times out, or the handler of its completion is over. *)
DispatchReturn(t) ==
  /\ Idle(t)
  /\ workPc[t] = "dispatch"
  /\ workPc' = [workPc EXCEPT ![t] = "global"]
  /\ UNCHANGED <<jobCount, jobs, globalQueue, pushVars, execVars, oneOff, made, posted, done>>

(* DoGlobalQueueWork takes the next queue that waits for a thread. *)
GlobalPop(t) ==
  /\ Idle(t)
  /\ workPc[t] = "global"
  /\ globalQueue # <<>>
  /\ EnterExecute(t, Head(globalQueue))
  /\ globalQueue' = Tail(globalQueue)
  /\ UNCHANGED <<jobCount, jobs, pushVars, loopVars, posted, done>>

(* DoGlobalQueueWork ends: the queue is empty or the time slice is over. *)
GlobalQuit(t) ==
  /\ Idle(t)
  /\ workPc[t] = "global"
  /\ workPc' = [workPc EXCEPT ![t] = "dispatch"]
  /\ UNCHANGED <<jobCount, jobs, globalQueue, pushVars, execVars, oneOff, made, posted, done>>

(* The last statement of PushGlobalQueue. *)
PushOneOff(t) ==
  /\ Idle(t)
  /\ oneOff[t] # None
  /\ globalQueue' = Append(globalQueue, oneOff[t])
  /\ oneOff' = [oneOff EXCEPT ![t] = None]
  /\ UNCHANGED <<jobCount, jobs, pushVars, execVars, workPc, made, posted, done>>
-----------------------------------------------------------------------------
PushStep(t) == Enqueue(t) \/ PushReturn(t) \/ PushDelegate(t) \/ PushExecute(t)
ExecStep(t) ==
  \/ PopAll(t) \/ StartJob(t) \/ FinishJob(t)
  \/ ExecuteDrained(t) \/ ExecuteAgain(t) \/ ExecuteTimeUp(t) \/ Requeue(t)
LoopStep(t) == DispatchReturn(t) \/ GlobalPop(t) \/ GlobalQuit(t)

Next ==
  \/ \E t \in Threads : PushStep(t) \/ ExecStep(t)
  \/ \E t \in Threads, q \in Queues, j \in Jobs : DoAsync(t, q, j)
  \/ \E t \in Workers : LoopStep(t)
  \/ \E t \in Helpers : PushOneOff(t)
  \/ \E t \in Helpers, q \in OneOffs, j \in Jobs : PushGlobalQueue(t, q, j)

Spec == Init /\ [][Next]_vars

(* The operating system keeps scheduling every thread, jobs terminate, and *)
(* a worker that finds work in GGlobalQueue again and again is not always  *)
(* past its 64 ms when it looks: Dispatch(10) waits 10 ms at most.         *)
Fairness ==
  /\ \A t \in Threads : WF_vars(PushStep(t)) /\ WF_vars(ExecStep(t))
  /\ \A t \in Workers : WF_vars(LoopStep(t)) /\ SF_vars(GlobalPop(t))
  /\ \A t \in Helpers : WF_vars(PushOneOff(t))

FairSpec == Spec /\ Fairness
-----------------------------------------------------------------------------
(* Every variable has its type. *)
TypeOK ==
  /\ jobCount \in [AllQueues -> Int]
  /\ jobs \in [AllQueues -> Seq(Jobs)]
  /\ globalQueue \in Seq(AllQueues)
  /\ current \in [Threads -> AllQueues \cup {None}]
  /\ pushPc \in [Threads -> {"none", "counted", "queued"}]
  /\ pushQ \in [Threads -> AllQueues \cup {None}]
  /\ pushJob \in [Threads -> Jobs \cup {None}]
  /\ prevCount \in [Threads -> Int]
  /\ execPc \in [Threads -> {"none", "popall", "loop", "job", "requeue"}]
  /\ self \in [Threads -> AllQueues \cup {None}]
  /\ batch \in [Threads -> Seq(Jobs)]
  /\ taken \in [Threads -> Nat]
  /\ workPc \in [Threads -> {"dispatch", "global"}]
  /\ oneOff \in [Threads -> OneOffs \cup {None}]
  /\ made \subseteq OneOffs
  /\ posted \subseteq Jobs
  /\ done \subseteq Jobs

(* Two threads are never inside Execute of the same queue: what a lobby or *)
(* a room does in its jobs needs no lock.                                  *)
OneExecutor ==
  \A q \in AllQueues : \A t, u \in Threads :
    InExecute(t, q) /\ InExecute(u, q) => t = u

(* The threads that counted a job of q and have not enqueued it yet. *)
Counted(q) == {t \in Threads : pushPc[t] = "counted" /\ pushQ[t] = q}

(* The jobs of q that were announced and not taken by an executor. *)
Waiting(q) == Len(jobs[q]) + Cardinality(Counted(q))

(* m_jobCount counts exactly the jobs announced, waiting or being run, so  *)
(* it never goes below zero and reaches zero only when no job is left.     *)
JobCountExact ==
  \A q \in AllQueues :
    /\ \A t \in Threads : InExecute(t, q) => jobCount[q] = Waiting(q) + taken[t]
    /\ (\A t \in Threads : ~InExecute(t, q)) => jobCount[q] = Waiting(q)

(* The threads responsible for q: a thread that pushed its first job and   *)
(* has not returned, a thread that executes q or is about to hand it over, *)
(* a helper that made q and still has to push it to GGlobalQueue.          *)
Pushing(q) == {t \in Threads : pushPc[t] # "none" /\ pushQ[t] = q /\ prevCount[t] = 0}
Executing(q) == {t \in Threads : execPc[t] # "none" /\ self[t] = q}
Making(q) == {t \in Threads : Idle(t) /\ oneOff[t] = q}
Holders(q) == Pushing(q) \cup Executing(q) \cup Making(q)
InGlobal == {globalQueue[i] : i \in DOMAIN globalQueue}

(* The responsibility for a queue is in one place only: with one thread,   *)
(* in one role, or in one entry of GGlobalQueue.                           *)
OneHolder ==
  /\ \A q \in AllQueues : \A t, u \in Holders(q) : t = u
  /\ \A q \in AllQueues : q \in InGlobal => Holders(q) = {}
  /\ \A q \in AllQueues : Pushing(q) \cap Executing(q) = {}
  /\ \A i, k \in DOMAIN globalQueue : globalQueue[i] = globalQueue[k] => i = k

(* A queue with a counted job is never stranded: some thread is            *)
(* responsible for it, or it is in GGlobalQueue.                           *)
NotStranded ==
  \A q \in AllQueues : jobCount[q] # 0 => q \in InGlobal \/ Holders(q) # {}

(* The local variables of Push and Execute agree with where a thread is:   *)
(* LCurrentJobQueue is set exactly while the thread is inside Execute, and *)
(* a thread pushes only outside Execute or inside a job.                   *)
LocalsAgree ==
  \A t \in Threads :
    /\ pushPc[t] = "none" <=> pushQ[t] = None
    /\ pushPc[t] # "none" => pushJob[t] \in Jobs /\ execPc[t] \in {"none", "job"}
    /\ execPc[t] = "none" <=> self[t] = None
    /\ current[t] = IF execPc[t] \in {"popall", "loop", "job"} THEN self[t] ELSE None
    /\ execPc[t] \in {"none", "popall", "requeue"} => batch[t] = <<>> /\ taken[t] = 0
    /\ execPc[t] = "job" => batch[t] # <<>>

(* A long-lived queue has a holder only while it has a counted job. *)
HeldHasJobs ==
  \A q \in Queues : jobCount[q] = 0 => q \notin InGlobal /\ Holders(q) = {}

(* A one-off queue is untouched until it is made. *)
OneOffsFresh ==
  \A q \in OneOffs \ made :
    /\ jobCount[q] = 0 /\ jobs[q] = <<>> /\ q \notin InGlobal /\ Holders(q) = {}
    /\ \A t \in Threads : oneOff[t] # q

(* While a helper is in PushGlobalQueue, it is responsible for its queue. *)
OneOffsHeld ==
  \A t \in Threads, q \in OneOffs : oneOff[t] = q => t \in Helpers /\ t \in Holders(q)

(* A one-off queue is pushed to by the helper that made it, before anybody *)
(* executes it, is never handed over by Execute, and holds its job only    *)
(* until its helper takes it.                                              *)
Taking(q) == Pushing(q) \cup {t \in Threads : execPc[t] = "popall" /\ self[t] = q}
OneOffsPushed ==
  \A t \in Threads : pushPc[t] # "none" /\ pushQ[t] \in OneOffs =>
    pushQ[t] = oneOff[t] /\ execPc[t] = "none" /\ prevCount[t] = 0
OneOffsKept == \A t \in Threads : execPc[t] = "requeue" => self[t] \in Queues
OneOffsEmptied == \A q \in OneOffs : jobs[q] # <<>> => Taking(q) # {}

(* The inductive invariant behind the theorems of JobQueueProofs. *)
IndInv ==
  /\ TypeOK /\ LocalsAgree /\ OneHolder /\ HeldHasJobs /\ NotStranded
  /\ OneOffsFresh /\ OneOffsHeld /\ OneOffsPushed /\ OneOffsKept /\ OneOffsEmptied
  /\ JobCountExact

(* What is left of the batch of the executor of q, and the job it runs. *)
LeftOf(q) ==
  IF \E t \in Threads : InExecute(t, q)
  THEN LET t == CHOOSE t \in Threads : InExecute(t, q)
       IN IF execPc[t] = "job" THEN Tail(batch[t]) ELSE batch[t]
  ELSE <<>>
RunningOf(q) ==
  IF \E t \in Threads : InExecute(t, q) /\ execPc[t] = "job"
  THEN Head(batch[CHOOSE t \in Threads : InExecute(t, q) /\ execPc[t] = "job"])
  ELSE None

Serial == INSTANCE SerialQueues WITH
            pending <- [q \in AllQueues |-> LeftOf(q) \o jobs[q]],
            running <- [q \in AllQueues |-> RunningOf(q)]

(* The queues implement serial executors: jobs run in the order in which   *)
(* they were enqueued, one at a time and once, and a queue with work does  *)
(* not stay idle.                                                          *)
SerialExecution == Serial!FairSpec

(* The jobs that are counted and not enqueued yet, and those that are. *)
Announced == {pushJob[t] : t \in {u \in Threads : pushPc[u] = "counted"}}
Enqueued == posted \ Announced

(* A job that is about to be enqueued is with one thread, and nowhere else. *)
JobsOnce ==
  /\ \A t, u \in Threads :
       pushPc[t] = "counted" /\ pushPc[u] = "counted" /\ pushJob[t] = pushJob[u] => t = u
  /\ Announced \subseteq posted
  /\ done \subseteq Enqueued
  /\ jobs \in [AllQueues -> Seq(Enqueued)]
  /\ batch \in [Threads -> Seq(Enqueued)]

(* Every job that DoAsync or PushGlobalQueue accepts is run in the end. *)
PostedJobsRun == \A j \in Jobs : j \in posted ~> j \in done

(* A thread that executes a one-off queue it did not make finds it empty. *)
OneOffsSpent ==
  \A t \in Threads : self[t] \in OneOffs /\ oneOff[t] # self[t] =>
    batch[t] = <<>> /\ jobs[self[t]] = <<>>

(* A one-off job runs on the thread that posted it, inside PushGlobalQueue: *)
(* its queue is empty and the thread has no current queue, so Push executes *)
(* at once (JobQueue.cpp:21), and the entry that PushGlobalQueue makes      *)
(* afterwards is empty.  OnLoginResult on a database thread and the waits   *)
(* of the admin interface rest on this.  The comments at ThreadManager.h:25 *)
(* and GameSession.h:32 say that a logic thread runs the job.               *)
OneOffInline ==
  \A t \in Threads : execPc[t] = "job" /\ self[t] \in OneOffs => oneOff[t] = self[t]
=============================================================================
