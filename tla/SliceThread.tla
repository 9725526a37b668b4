----------------------------- MODULE SliceThread -----------------------------
(***************************************************************************)
(* The slice thread pool of libavutil/slicethread.c, which deinterlaces    *)
(* (-deint, yadif) and encodes by slices in ffmpeg: the caller's thread    *)
(* and its workers, who share out the jobs of a batch with two atomic      *)
(* counters and wait for each other with a condition variable per worker   *)
(* and one for the end of the batch.                                       *)
(*                                                                         *)
(* Thread 0 is the caller; worker i of the code is thread i + 1.  A step   *)
(* is what one thread does between two operations another can observe: a   *)
(* mutex, an atomic counter, a field read without a lock.                  *)
(***************************************************************************)
EXTENDS Naturals, FiniteSets

CONSTANTS
  Pools,        \* nb_threads asked for, and whether a main_func is given
  MaxThreads,   \* bound: threads of a pool
  MaxJobs,      \* bound: jobs of a batch
  MaxBatches    \* bound: calls of execute

ASSUME PoolsAssumption == Pools \subseteq [threads : 1..MaxThreads, main_func : BOOLEAN]
ASSUME BoundsAssumption == MaxThreads \in Nat /\ MaxJobs \in Nat /\ MaxBatches \in Nat

VARIABLES
  pool,        \* what avpriv_slicethread_create was asked for
  nb_threads, nb_active, nb_jobs, first_job, current_job,   \* AVSliceThread
  done, finished,
  wdone,       \* done of each worker
  mutex,       \* holder of each worker's mutex
  created,     \* workers whose pthread_create succeeded
  pc,          \* where each thread is
  i,           \* the loop counter of the caller: the next worker
  alone,       \* execute_main was 0, or there is no main_func
  jobs, first, cur,   \* locals of run_jobs: nb_jobs and active, first_job, current_job
  ended,       \* jobs of this batch whose worker_func has returned
  batches      \* calls of execute so far

shared == <<nb_threads, nb_active, nb_jobs, first_job, current_job, done, finished>>
vars == <<pool, shared, wdone, mutex, created, pc, i, alone, jobs, first, cur, ended, batches>>

Main == 0
Threads == pool.threads
AllWorkers == IF pool.main_func THEN 1..Threads ELSE 1..(Threads - 1)
Thread == {Main} \cup AllWorkers

NoOne == Threads + 1     \* a mutex nobody holds

Init ==
  /\ pool \in Pools
  /\ nb_threads = Threads /\ nb_active = 0 /\ nb_jobs = 0
  /\ first_job = 0 /\ current_job = 0
  /\ done = FALSE /\ finished = FALSE
  /\ wdone = [w \in AllWorkers |-> FALSE]
  /\ mutex = [w \in AllWorkers |-> NoOne]
  /\ created = {}
  /\ pc = [t \in Thread |-> IF t = Main THEN "create" ELSE "none"]
  /\ i = 1 /\ alone = FALSE
  /\ jobs = [t \in Thread |-> [n |-> 0, active |-> 0]]
  /\ first = [t \in Thread |-> 0] /\ cur = [t \in Thread |-> 0]
  /\ ended = {} /\ batches = 0

Goto(t, l) == pc' = [pc EXCEPT ![t] = l]

-----------------------------------------------------------------------------
(* avpriv_slicethread_create                                               *)

(* The worker starts while the caller holds its mutex.                     *)
Create ==
  /\ pc[Main] = "create" /\ i \in AllWorkers
  /\ created' = created \cup {i}
  /\ pc' = [pc EXCEPT ![Main] = "started", ![i] = "start"]
  /\ UNCHANGED <<pool, shared, wdone, mutex, i, alone, jobs, first, cur, ended, batches>>

(* pthread_create fails: the pool keeps the workers it has and is freed.   *)
CreateFails ==
  /\ pc[Main] = "create" /\ i \in AllWorkers
  /\ nb_threads' = IF pool.main_func THEN i - 1 ELSE i
  /\ Goto(Main, "free")
  /\ UNCHANGED <<pool, nb_active, nb_jobs, first_job, current_job, done, finished, wdone, mutex,
                 created, i, alone, jobs, first, cur, ended, batches>>

(* The caller, waiting on w->cond, has released the mutex; it goes on when *)
(* the worker has set w->done and waits in its turn.                       *)
Started ==
  /\ pc[Main] = "started" /\ wdone[i] /\ mutex[i] = NoOne
  /\ i' = i + 1
  /\ Goto(Main, "create")
  /\ UNCHANGED <<pool, shared, wdone, mutex, created, alone, jobs, first, cur, ended, batches>>

CreateDone ==
  /\ pc[Main] = "create" /\ i \notin AllWorkers
  /\ Goto(Main, "ready")
  /\ UNCHANGED <<pool, shared, wdone, mutex, created, i, alone, jobs, first, cur, ended, batches>>

-----------------------------------------------------------------------------
(* avpriv_slicethread_execute                                              *)

Min2(a, b) == IF a <= b THEN a ELSE b

(* The batch is set up in plain fields, before any worker is woken.        *)
Execute ==
  \E n \in 1..MaxJobs, m \in {pool.main_func, FALSE} :
    /\ pc[Main] = "ready" /\ batches < MaxBatches
    /\ nb_jobs' = n
    /\ nb_active' = Min2(n, nb_threads)
    /\ first_job' = 0
    /\ alone' = ~m
    /\ ended' = {}
    /\ batches' = batches + 1
    /\ Goto(Main, "counter")
    /\ UNCHANGED <<pool, nb_threads, current_job, done, finished, wdone, mutex, created, i,
                   jobs, first, cur>>

CounterZero == 0                                          \* mutant

(* The first nb_active jobs are the threads' own, by first_job.            *)
FirstShared == nb_active

Counter ==
  /\ pc[Main] = "counter"
  /\ current_job' = FirstShared
  /\ i' = 1
  /\ Goto(Main, "wake")
  /\ UNCHANGED <<pool, nb_threads, nb_active, nb_jobs, first_job, done, finished, wdone, mutex,
                 created, alone, jobs, first, cur, ended, batches>>

(* The workers to wake; the caller is one of the active threads when it    *)
(* runs jobs itself.                                                       *)
ToWake == IF alone THEN nb_active - 1 ELSE nb_active

(* w->done = 0 and a signal, under the worker's mutex.                     *)
Signal(w, then) ==
  /\ mutex[w] = NoOne
  /\ wdone' = [wdone EXCEPT ![w] = FALSE]
  /\ pc' = [pc EXCEPT ![Main] = then, ![w] = IF pc[w] = "wait" THEN "woken" ELSE pc[w]]
  /\ i' = i + 1

Wake ==
  /\ pc[Main] = "wake" /\ i <= ToWake
  /\ Signal(i, "wake")
  /\ UNCHANGED <<pool, shared, mutex, created, alone, jobs, first, cur, ended, batches>>

(* main_func is the caller's business; run_jobs is in the next section.    *)
WakeDone ==
  /\ pc[Main] = "wake" /\ i > ToWake
  /\ Goto(Main, IF alone THEN "read" ELSE "waitdone")
  /\ UNCHANGED <<pool, shared, wdone, mutex, created, i, alone, jobs, first, cur, ended, batches>>

DoneTaken == FALSE

(* Under done_mutex; a thread that finds done unset waits and is signalled *)
(* when it is set, so it passes here exactly when it is set.               *)
WaitDone ==
  /\ pc[Main] = "waitdone" /\ done
  /\ done' = DoneTaken
  /\ Goto(Main, "ready")
  /\ UNCHANGED <<pool, nb_threads, nb_active, nb_jobs, first_job, current_job, finished, wdone,
                 mutex, created, i, alone, jobs, first, cur, ended, batches>>

-----------------------------------------------------------------------------
(* run_jobs, by the caller and by the workers                              *)

Read(t) ==
  /\ pc[t] = "read"
  /\ jobs' = [jobs EXCEPT ![t] = [n |-> nb_jobs, active |-> nb_active]]
  /\ Goto(t, "claim")
  /\ UNCHANGED <<pool, shared, wdone, mutex, created, i, alone, first, cur, ended, batches>>

Claim(t) ==
  /\ pc[t] = "claim"
  /\ first_job' = first_job + 1
  /\ first' = [first EXCEPT ![t] = first_job]
  /\ cur' = [cur EXCEPT ![t] = first_job]
  /\ Goto(t, "job")
  /\ UNCHANGED <<pool, nb_threads, nb_active, nb_jobs, current_job, done, finished, wdone, mutex,
                 created, i, alone, jobs, ended, batches>>

(* worker_func(priv, current_job, first_job, ...) returns.                 *)
Job(t) ==
  /\ pc[t] = "job"
  /\ ended' = ended \cup {cur[t]}
  /\ Goto(t, "next")
  /\ UNCHANGED <<pool, shared, wdone, mutex, created, i, alone, jobs, first, cur, batches>>

IsLastOfJobs(c, b) == c = b.n                             \* mutant
IsLastBeyond(c, b) == c = b.n + b.active                  \* mutant

(* Each active thread overshoots nb_jobs once; the last one to do so.      *)
IsLast(c, b) == c = b.n + b.active - 1

(* A caller that is last does not wait; a worker that is last sets done.   *)
AfterJobs(t, last) == IF t = Main THEN (IF last THEN "ready" ELSE "waitdone")
                      ELSE (IF last THEN "last" ELSE "idle")

NextJob(t) ==
  /\ pc[t] = "next"
  /\ current_job' = current_job + 1
  /\ cur' = [cur EXCEPT ![t] = current_job]
  /\ Goto(t, IF current_job < jobs[t].n THEN "job"
             ELSE AfterJobs(t, IsLast(current_job, jobs[t])))
  /\ UNCHANGED <<pool, nb_threads, nb_active, nb_jobs, first_job, done, finished, wdone, mutex,
                 created, i, alone, jobs, first, ended, batches>>

-----------------------------------------------------------------------------
(* thread_worker                                                           *)

(* The worker locks its mutex, signals the creator, sets w->done and waits *)
(* (which unlocks it): nobody sees the steps in between.                   *)
Start(w) ==
  /\ pc[w] = "start" /\ mutex[w] = NoOne
  /\ wdone' = [wdone EXCEPT ![w] = TRUE]
  /\ Goto(w, "wait")
  /\ UNCHANGED <<pool, shared, mutex, created, i, alone, jobs, first, cur, ended, batches>>

(* A condition variable may wake its thread without a signal.              *)
Spurious(w) ==
  /\ pc[w] = "wait"
  /\ Goto(w, "woken")
  /\ UNCHANGED <<pool, shared, wdone, mutex, created, i, alone, jobs, first, cur, ended, batches>>

(* while (w->done) wait; then the end of the pool or a batch.              *)
WokenTo(w) == IF wdone[w] THEN "wait" ELSE IF finished THEN "exit" ELSE "read"

Woken(w) ==
  /\ pc[w] = "woken" /\ mutex[w] = NoOne
  /\ mutex' = [mutex EXCEPT ![w] = IF WokenTo(w) = "read" THEN w ELSE NoOne]
  /\ Goto(w, WokenTo(w))
  /\ UNCHANGED <<pool, shared, wdone, created, i, alone, jobs, first, cur, ended, batches>>

Last(w) ==
  /\ pc[w] = "last"
  /\ done' = TRUE
  /\ Goto(w, "idle")
  /\ UNCHANGED <<pool, nb_threads, nb_active, nb_jobs, first_job, current_job, finished, wdone,
                 mutex, created, i, alone, jobs, first, cur, ended, batches>>

(* Back at the top of the loop: w->done = 1 and wait, with the mutex held  *)
(* since the worker woke.                                                  *)
Idle(w) ==
  /\ pc[w] = "idle"
  /\ wdone' = [wdone EXCEPT ![w] = TRUE]
  /\ mutex' = [mutex EXCEPT ![w] = NoOne]
  /\ Goto(w, "wait")
  /\ UNCHANGED <<pool, shared, created, i, alone, jobs, first, cur, ended, batches>>

-----------------------------------------------------------------------------
(* avpriv_slicethread_free                                                 *)

Workers == IF pool.main_func THEN nb_threads ELSE nb_threads - 1

FreePool ==
  /\ pc[Main] \in {"ready", "free"}
  /\ finished' = TRUE
  /\ i' = 1
  /\ Goto(Main, "stop")
  /\ UNCHANGED <<pool, nb_threads, nb_active, nb_jobs, first_job, current_job, done, wdone, mutex,
                 created, alone, jobs, first, cur, ended, batches>>

Stop ==
  /\ pc[Main] = "stop" /\ i <= Workers
  /\ Signal(i, "stop")
  /\ UNCHANGED <<pool, shared, mutex, created, alone, jobs, first, cur, ended, batches>>

StopDone ==
  /\ pc[Main] = "stop" /\ i > Workers
  /\ i' = 1
  /\ Goto(Main, "join")
  /\ UNCHANGED <<pool, shared, wdone, mutex, created, alone, jobs, first, cur, ended, batches>>

Join ==
  /\ pc[Main] = "join" /\ i <= Workers /\ pc[i] = "exit"
  /\ i' = i + 1
  /\ UNCHANGED <<pool, shared, wdone, mutex, created, pc, alone, jobs, first, cur, ended, batches>>

JoinDone ==
  /\ pc[Main] = "join" /\ i > Workers
  /\ Goto(Main, "freed")
  /\ UNCHANGED <<pool, shared, wdone, mutex, created, i, alone, jobs, first, cur, ended, batches>>

Freed == pc[Main] = "freed" /\ UNCHANGED vars

-----------------------------------------------------------------------------
RunJobs(t) == Read(t) \/ Claim(t) \/ Job(t) \/ NextJob(t)

WorkerStep(w) == Start(w) \/ Woken(w) \/ Last(w) \/ Idle(w) \/ RunJobs(w)

CallerStep ==
  \/ Create \/ CreateFails \/ Started \/ CreateDone
  \/ Execute \/ Counter \/ Wake \/ WakeDone \/ WaitDone \/ RunJobs(Main)
  \/ FreePool \/ Stop \/ StopDone \/ Join \/ JoinDone

Next ==
  \/ CallerStep
  \/ \E w \in AllWorkers : WorkerStep(w) \/ Spurious(w)
  \/ Freed

(* Every thread that can go on does; the caller always ends by freeing.    *)
Fairness ==
  /\ WF_vars(CallerStep)
  /\ \A w \in 1..MaxThreads : WF_vars(w \in AllWorkers /\ WorkerStep(w))

Spec == Init /\ [][Next]_vars /\ Fairness

-----------------------------------------------------------------------------
(* Properties.                                                             *)

Pcs == {"none", "create", "started", "ready", "counter", "wake", "read", "claim", "job",
        "next", "waitdone", "start", "wait", "woken", "last", "idle", "exit", "free",
        "stop", "join", "freed"}

(* TypeOK: and a worker holds its mutex from waking to waiting again.      *)
TypeOK ==
  /\ pc \in [Thread -> Pcs]
  /\ nb_threads \in 0..Threads /\ nb_active \in 0..Threads /\ nb_jobs \in 0..MaxJobs
  /\ first_job \in 0..Threads /\ current_job \in 0..(MaxJobs + Threads)
  /\ done \in BOOLEAN /\ finished \in BOOLEAN
  /\ wdone \in [AllWorkers -> BOOLEAN]
  /\ \A w \in AllWorkers :
       mutex[w] = w <=> pc[w] \in {"read", "claim", "job", "next", "last", "idle"}
  /\ ended \subseteq 0..(MaxJobs - 1)

Running(t) == pc[t] \in {"read", "claim", "job", "next"}

(* Quiescent: between batches no thread is in run_jobs or about to set     *)
(* done, so the next batch's counters are never seen by the last one's     *)
(* threads and a late done cannot end the next batch.                      *)
Quiescent ==
  pc[Main] \in {"ready", "counter", "stop", "join", "freed"} =>
    /\ ~done
    /\ \A w \in AllWorkers : ~Running(w) /\ pc[w] # "last"

(* OwnThreadNr: threads running jobs at the same time have different       *)
(* threadnr, below nb_threads: worker_func indexes buffers with it.        *)
OwnThreadNr ==
  \A t \in Thread : pc[t] = "job" =>
    /\ first[t] < jobs[t].active
    /\ \A u \in Thread \ {t} : pc[u] = "job" => first[u] # first[t]

(* FreedAlone: when the pool is freed every worker that was created has    *)
(* ended: none can touch the memory of the pool.                           *)
FreedAlone == pc[Main] = "freed" => \A w \in created : pc[w] = "exit"

(* Separate: batches, threads and the life of the pool are kept apart: a   *)
(* thread of run_jobs never meets the counters of another batch, the       *)
(* buffers of another thread or the memory of a freed pool.                *)
Separate == TypeOK /\ Quiescent /\ OwnThreadNr /\ FreedAlone

InBatch == pc[Main] \in {"counter", "wake", "read", "claim", "job", "next", "waitdone"}

Doing == {cur[t] : t \in {u \in Thread : pc[u] = "job"}}

Abstract == INSTANCE ParallelFor WITH
  phase <- IF pc[Main] = "freed" THEN "freed" ELSE IF InBatch THEN "busy" ELSE "idle",
  todo <- (0..(nb_jobs - 1)) \ (ended \cup Doing),
  doing <- Doing,
  over <- ended

(* ImplementsParallelFor: every job of a batch runs exactly once and       *)
(* execute returns when all have ended.                                    *)
ImplementsParallelFor == Abstract!Spec

(* Terminates: execute always returns and free always ends.                *)
Terminates ==
  /\ InBatch ~> pc[Main] = "ready"
  /\ pc[Main] = "stop" ~> pc[Main] = "freed"
=============================================================================
