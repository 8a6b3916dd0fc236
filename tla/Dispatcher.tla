----------------------------- MODULE Dispatcher -----------------------------
(****************************************************************************)
(* util.Dispatcher (util/work_queue.go): a goroutine that collects jobs and *)
(* idle workers and pairs them on a ticker, a fixed pool of workers, and    *)
(* the shutdown that should end them all.                                   *)
(*                                                                          *)
(* workerPoolCount is read and written without synchronisation by the       *)
(* dispatcher and by every worker that ends, so each decrement is a load    *)
(* and a store.                                                             *)
(****************************************************************************)
EXTENDS Integers, FiniteSets, SequencesExt

CONSTANTS
  Jobs,      \* the jobs handed over, each once
  Panics,    \* the jobs whose WorkFunc panics
  Workers,   \* the workers of the pool
  MaxQueue,  \* capacity of JobQueue
  NoJob

ASSUME ConstantsAssumption ==
  /\ IsFiniteSet(Jobs) /\ IsFiniteSet(Workers) /\ Workers # {}
  /\ Panics \subseteq Jobs
  /\ MaxQueue \in Nat \ {0}
  /\ NoJob \notin Jobs

count == Cardinality(Workers)

VARIABLES
  sent,             \* jobs that went into JobQueue
  finished,         \* how often a job's WorkFunc has ended
  JobQueue,         \* the channel of jobs
  jobSlice,         \* jobs taken by the dispatcher
  workerQueue,      \* the channel of workers that ended a job
  workerPool,       \* idle workers known to the dispatcher
  workerPoolCount,
  stopChan,         \* TRUE: closed
  dpc, dtmp,        \* the dispatcher: control point, loaded count
  worker, job, wtmp \* the workers: control point, job, loaded count

jobVars == <<sent, finished, JobQueue, jobSlice>>
poolVars == <<workerQueue, workerPool>>
dispatcherVars == <<stopChan, dpc, dtmp>>
workerVars == <<worker, job, wtmp>>
vars == <<jobVars, poolVars, workerPoolCount, dispatcherVars, workerVars>>

\* Run up to its loop: every worker is started and is in the pool.
Init ==
  /\ sent = {} /\ finished = [j \in Jobs |-> 0]
  /\ JobQueue = <<>> /\ jobSlice = <<>>
  /\ workerQueue = <<>> /\ workerPool = SetToSeq(Workers)
  /\ workerPoolCount = count
  /\ stopChan = FALSE /\ dpc = "select" /\ dtmp = 0
  /\ worker = [w \in Workers |-> "receive"]
  /\ job = [w \in Workers |-> NoJob]
  /\ wtmp = [w \in Workers |-> 0]

----------------------------------------------------------------------------
(* The callers: d.JobQueue <- job, d.Close()                                *)

HasRoom_OneOver == Len(JobQueue) <= MaxQueue

HasRoom == Len(JobQueue) < MaxQueue

Send(j) ==
  /\ j \notin sent
  /\ HasRoom
  /\ sent' = sent \cup {j}
  /\ JobQueue' = Append(JobQueue, j)
  /\ UNCHANGED <<finished, jobSlice, poolVars, workerPoolCount, dispatcherVars,
                 workerVars>>

Close ==
  /\ ~stopChan
  /\ stopChan' = TRUE
  /\ UNCHANGED <<jobVars, poolVars, workerPoolCount, dpc, dtmp, workerVars>>

----------------------------------------------------------------------------
(* Run: the select loop                                                     *)

TakeWorker ==
  /\ dpc = "select"
  /\ workerQueue # <<>>
  /\ workerPool' = Append(workerPool, Head(workerQueue))
  /\ workerQueue' = Tail(workerQueue)
  /\ UNCHANGED <<jobVars, workerPoolCount, dispatcherVars, workerVars>>

TakeJob ==
  /\ dpc = "select"
  /\ JobQueue # <<>>
  /\ jobSlice' = Append(jobSlice, Head(JobQueue))
  /\ JobQueue' = Tail(JobQueue)
  /\ UNCHANGED <<sent, finished, poolVars, workerPoolCount, dispatcherVars,
                 workerVars>>

\* The jobs and the workers assignmentTask pairs: from the front of the pool
\* when the jobs suffice for all, else from its end.
Pairs == IF Len(jobSlice) >= Len(workerPool) THEN Len(workerPool)
                                             ELSE Len(jobSlice)

Chosen(i) == IF Len(jobSlice) >= Len(workerPool)
             THEN workerPool[i] ELSE workerPool[Len(workerPool) + 1 - i]

JobsLeft_OneKept == SubSeq(jobSlice, Pairs, Len(jobSlice))

JobsLeft_OneDropped == SubSeq(jobSlice, Pairs + 2, Len(jobSlice))

JobsLeft == SubSeq(jobSlice, Pairs + 1, Len(jobSlice))

WorkersLeft_OneKept == SubSeq(workerPool, 1, Len(workerPool) - Pairs + 1)

WorkersLeft == SubSeq(workerPool, 1, Len(workerPool) - Pairs)

\* Every send on an unbuffered jobChan meets a worker that receives.
assignmentTask ==
  /\ Pairs > 0
  /\ \A i \in 1 .. Pairs : worker[Chosen(i)] = "receive"
  /\ job' = [w \in Workers |->
               IF \E i \in 1 .. Pairs : Chosen(i) = w
               THEN jobSlice[CHOOSE i \in 1 .. Pairs : Chosen(i) = w]
               ELSE job[w]]
  /\ worker' = [w \in Workers |->
                  IF \E i \in 1 .. Pairs : Chosen(i) = w
                  THEN "run" ELSE worker[w]]
  /\ jobSlice' = JobsLeft
  /\ workerPool' = WorkersLeft
  /\ UNCHANGED <<sent, finished, JobQueue, workerQueue, workerPoolCount,
                 dispatcherVars, wtmp>>

Tick == dpc = "select" /\ assignmentTask

Goto(l) == dpc' = l /\ UNCHANGED <<stopChan, dtmp>>

Stop ==
  /\ dpc = "select"
  /\ stopChan
  /\ Goto("drain")
  /\ UNCHANGED <<jobVars, poolVars, workerPoolCount, workerVars>>

----------------------------------------------------------------------------
(* Run: the shutdown                                                        *)

\* for len(d.jobSlice) > 0: a round that finds no idle worker changes nothing.
Drain == dpc = "drain" /\ assignmentTask

DrainEnd ==
  /\ dpc = "drain"
  /\ jobSlice = <<>>
  /\ Goto("pool")
  /\ UNCHANGED <<jobVars, poolVars, workerPoolCount, workerVars>>

\* A worker that receives nil runs its deferred function next.
Dismiss(w) ==
  /\ worker[w] = "receive"
  /\ worker' = [worker EXCEPT ![w] = "load"]
  /\ UNCHANGED <<job, wtmp>>

\* for wp := range d.workerPool: the slice is not read again afterwards.
PoolNil ==
  /\ dpc = "pool"
  /\ workerPool # <<>>
  /\ Dismiss(Head(workerPool))
  /\ workerPool' = Tail(workerPool)
  /\ Goto("poolLoad")
  /\ UNCHANGED <<jobVars, workerQueue, workerPoolCount>>

PoolEnd ==
  /\ dpc = "pool"
  /\ workerPool = <<>>
  /\ Goto("queue")
  /\ UNCHANGED <<jobVars, poolVars, workerPoolCount, workerVars>>

\* for d.workerPoolCount > 0
QueueNil ==
  /\ dpc = "queue"
  /\ workerPoolCount > 0
  /\ workerQueue # <<>>
  /\ Dismiss(Head(workerQueue))
  /\ workerQueue' = Tail(workerQueue)
  /\ Goto("queueLoad")
  /\ UNCHANGED <<jobVars, workerPool, workerPoolCount>>

QueueEnd ==
  /\ dpc = "queue"
  /\ workerPoolCount <= 0
  /\ Goto("wait")
  /\ UNCHANGED <<jobVars, poolVars, workerPoolCount, workerVars>>

\* d.workerPoolCount--, in two steps
CountLoad ==
  /\ dpc \in {"poolLoad", "queueLoad"}
  /\ dtmp' = workerPoolCount
  /\ dpc' = IF dpc = "poolLoad" THEN "poolStore" ELSE "queueStore"
  /\ UNCHANGED <<jobVars, poolVars, workerPoolCount, stopChan, workerVars>>

CountStore ==
  /\ dpc \in {"poolStore", "queueStore"}
  /\ workerPoolCount' = dtmp - 1
  /\ Goto(IF dpc = "poolStore" THEN "pool" ELSE "queue")
  /\ UNCHANGED <<jobVars, poolVars, workerVars>>

\* d.Wait(): every worker's Done() was called.
WaitEnd ==
  /\ dpc = "wait"
  /\ \A w \in Workers : worker[w] = "exited"
  /\ Goto("end")
  /\ UNCHANGED <<jobVars, poolVars, workerPoolCount, workerVars>>

----------------------------------------------------------------------------
(* Worker.run                                                               *)

\* j.WorkFunc(): a panic ends the worker, the deferred function recovers it.
WorkFunc(w) ==
  /\ worker[w] = "run"
  /\ finished' = [finished EXCEPT ![job[w]] = @ + 1]
  /\ worker' = [worker EXCEPT ![w] = IF job[w] \in Panics THEN "load"
                                                          ELSE "return"]
  /\ job' = [job EXCEPT ![w] = NoJob]
  /\ UNCHANGED <<sent, JobQueue, jobSlice, poolVars, workerPoolCount,
                 dispatcherVars, wtmp>>

\* w.dispatcher.workerQueue <- w.jobChan
Return(w) ==
  /\ worker[w] = "return"
  /\ Len(workerQueue) < count
  /\ workerQueue' = Append(workerQueue, w)
  /\ worker' = [worker EXCEPT ![w] = "receive"]
  /\ UNCHANGED <<jobVars, workerPool, workerPoolCount, dispatcherVars, job,
                 wtmp>>

ExitLoad(w) ==
  /\ worker[w] = "load"
  /\ wtmp' = [wtmp EXCEPT ![w] = workerPoolCount]
  /\ worker' = [worker EXCEPT ![w] = "store"]
  /\ UNCHANGED <<jobVars, poolVars, workerPoolCount, dispatcherVars, job>>

ExitStore(w) ==
  /\ worker[w] = "store"
  /\ workerPoolCount' = wtmp[w] - 1
  /\ worker' = [worker EXCEPT ![w] = "exited"]
  /\ UNCHANGED <<jobVars, poolVars, dispatcherVars, job, wtmp>>

----------------------------------------------------------------------------

Shutdown ==
  \/ Drain \/ DrainEnd \/ PoolNil \/ PoolEnd \/ QueueNil \/ QueueEnd
  \/ CountLoad \/ CountStore \/ WaitEnd

Work(w) == WorkFunc(w) \/ Return(w) \/ ExitLoad(w) \/ ExitStore(w)

Next ==
  \/ \E j \in Jobs : Send(j)
  \/ Close
  \/ TakeWorker \/ TakeJob \/ Tick \/ Stop
  \/ Shutdown
  \/ \E w \in Workers : Work(w)

Spec == Init /\ [][Next]_vars

\* select picks among its ready cases at random, so a case that stays ready is
\* taken; the ticker keeps ticking; a goroutine that can go on goes on.
FairSpec ==
  /\ Spec
  /\ WF_vars(TakeWorker) /\ WF_vars(TakeJob) /\ WF_vars(Tick) /\ WF_vars(Stop)
  /\ WF_vars(Shutdown)
  /\ \A w \in Workers : WF_vars(Work(w))

----------------------------------------------------------------------------
(* Properties                                                               *)

\* Every variable stays in its type, and the channels within their capacity.
TypeOK ==
  /\ sent \subseteq Jobs
  /\ finished \in [Jobs -> Nat]
  /\ JobQueue \in Seq(Jobs) /\ Len(JobQueue) <= MaxQueue
  /\ jobSlice \in Seq(Jobs)
  /\ workerQueue \in Seq(Workers) /\ Len(workerQueue) <= count
  /\ workerPool \in Seq(Workers)
  /\ workerPoolCount \in Int
  /\ stopChan \in BOOLEAN
  /\ dpc \in {"select", "drain", "pool", "poolLoad", "poolStore", "queue",
              "queueLoad", "queueStore", "wait", "end"}
  /\ dtmp \in Int
  /\ worker \in [Workers -> {"receive", "run", "return", "load", "store",
                             "exited"}]
  /\ job \in [Workers -> Jobs \cup {NoJob}]
  /\ wtmp \in [Workers -> Int]

Occurrences(x, s) == Cardinality({i \in DOMAIN s : s[i] = x})

\* A worker is listed as idle, in workerPool or workerQueue, exactly when it
\* waits on its jobChan, and only once: assignmentTask's unbuffered sends never
\* block and never give one worker two jobs.
IdleListedOnce ==
  \A w \in Workers :
    Occurrences(w, workerPool) + Occurrences(w, workerQueue) =
      IF worker[w] = "receive" THEN 1 ELSE 0

\* The dispatcher implements the abstract pool.
Pool == INSTANCE JobPool
  WITH PoolSize <- count,
       waiting <- {j \in sent : finished[j] = 0 /\ \A w \in Workers : job[w] # j},
       running <- {j \in Jobs : \E w \in Workers : job[w] = j},
       finished <- {j \in Jobs : finished[j] > 0}

\* An accepted job is run at most once, by at most `count` workers at a time
\* (what sessions rely on when they hand a slot over).
ImplementsPool == Pool!Spec

\* While the dispatcher is not told to stop, a job that was sent is run.
JobsRun == \A j \in Jobs : (j \in sent) ~> (finished[j] > 0 \/ stopChan)

\* The drain loop of the shutdown ends.
DrainEnds == (dpc = "drain") ~> (dpc # "drain")

\* The shutdown waits for the workers and ends.
WaitEnds == (dpc = "wait") ~> (dpc = "end")
=============================================================================
