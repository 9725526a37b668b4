-------------------------- MODULE SliceThreadProofs --------------------------
(***************************************************************************)
(* Proof that the slice thread pool keeps batches, threads and its own     *)
(* life apart and implements ParallelFor, for pools of any size and any    *)
(* number of jobs and batches.                                             *)
(***************************************************************************)
EXTENDS SliceThread, FiniteSetTheorems, TLAPS

-----------------------------------------------------------------------------
(***************************************************************************)
(* Types, and what is always true of one thread.                           *)
(***************************************************************************)
Nb == IF pool.main_func THEN Threads ELSE Threads - 1     \* workers

CallerPcs == {"create", "started", "ready", "counter", "wake", "read", "claim", "job",
              "next", "waitdone", "free", "stop", "join", "freed"}
WorkerPcs == {"none", "start", "wait", "woken", "read", "claim", "job", "next", "last",
              "idle", "exit"}
Holding == {"read", "claim", "job", "next", "last", "idle"}

Types ==
  /\ pool \in [threads : Nat \ {0}, main_func : BOOLEAN]
  /\ pc \in [Thread -> CallerPcs \cup WorkerPcs]
  /\ pc[Main] \in CallerPcs /\ \A w \in AllWorkers : pc[w] \in WorkerPcs
  /\ nb_threads \in 0..Threads /\ nb_active \in 0..Threads /\ nb_jobs \in 0..MaxJobs
  /\ first_job \in 0..Threads /\ current_job \in 0..(MaxJobs + Threads)
  /\ done \in BOOLEAN /\ finished \in BOOLEAN /\ alone \in BOOLEAN
  /\ wdone \in [AllWorkers -> BOOLEAN]
  /\ mutex = [w \in AllWorkers |-> IF pc[w] \in Holding THEN w ELSE NoOne]
  /\ i \in Nat \ {0}
  /\ jobs \in [Thread -> [n : Nat, active : Nat]]
  /\ first \in [Thread -> Nat] /\ cur \in [Thread -> Nat]
  /\ ended \subseteq 0..(MaxJobs - 1)

-----------------------------------------------------------------------------
(***************************************************************************)
(* What the workers do while the caller is where it is.                    *)
(***************************************************************************)

(* The worker waits, or will as soon as it goes on. *)
Asleep(w) == \/ pc[w] \in {"wait", "woken"} /\ wdone[w]
             \/ pc[w] = "idle" /\ ~wdone[w]

(* The worker has been signalled for this batch and has not ended its part. *)
Active(w) == ~wdone[w] /\ pc[w] \in {"woken", "read", "claim", "job", "next", "last"}

Unborn(w) == pc[w] = "none" /\ ~wdone[w]

Dying(w) == ~wdone[w] /\ pc[w] \in {"woken", "exit"}

BatchPcs == {"wake", "read", "claim", "job", "next", "waitdone"}

(* All workers exist and the pool is in use. *)
Whole == created = AllWorkers /\ nb_threads = Threads /\ ~finished

Creating ==
  pc[Main] \in {"create", "free"} =>
    /\ ~finished /\ ~done /\ i <= Nb + 1 /\ created = 1..(i - 1)
    /\ \A w \in AllWorkers : IF w < i THEN Asleep(w) ELSE Unborn(w)
    /\ pc[Main] = "create" => nb_threads = Threads
    /\ pc[Main] = "free" => Workers = i - 1

Starting ==
  pc[Main] = "started" =>
    /\ ~finished /\ ~done /\ i <= Nb /\ created = 1..i /\ nb_threads = Threads
    /\ \A w \in AllWorkers : /\ w < i => Asleep(w)
                             /\ w > i => Unborn(w)
    /\ Asleep(i) \/ (pc[i] = "start" /\ ~wdone[i])

Resting ==
  pc[Main] \in {"ready", "counter"} => Whole /\ ~done /\ \A w \in AllWorkers : Asleep(w)

SetUp ==
  /\ nb_jobs > 0 /\ nb_active = Min2(nb_jobs, nb_threads)
  /\ ~alone => pool.main_func

Working ==
  pc[Main] \in BatchPcs =>
    /\ Whole /\ i <= ToWake + 1
    /\ pc[Main] # "wake" => i = ToWake + 1
    /\ pc[Main] \in {"read", "claim", "job", "next"} => alone
    /\ \A w \in AllWorkers : Asleep(w) \/ (w < i /\ Active(w))

Ending ==
  pc[Main] \in {"stop", "join", "freed"} =>
    /\ finished /\ ~done /\ Workers \in 0..Nb /\ created = 1..Workers
    /\ pc[Main] = "stop" => i <= Workers + 1
    /\ \A w \in AllWorkers :
         IF w > Workers THEN Unborn(w)
         ELSE IF pc[Main] = "stop" /\ w >= i THEN Asleep(w) ELSE Dying(w)
    /\ pc[Main] = "join" => \A w \in created : w < i => pc[w] = "exit"
    /\ pc[Main] = "freed" => \A w \in created : pc[w] = "exit"

Phases ==
  /\ Creating /\ Starting /\ Resting /\ Working /\ Ending
  /\ pc[Main] \in {"counter"} \cup BatchPcs => SetUp
  /\ pc[Main] = "counter" => first_job = 0 /\ ended = {}

-----------------------------------------------------------------------------
(***************************************************************************)
(* The two counters of a batch are the numbers of threads that have taken  *)
(* their first job and of those that have found none left.                 *)
(***************************************************************************)
Party == IF alone THEN 0..(nb_active - 1) ELSE 1..nb_active

Over == {t \in Thread : IF t = Main THEN alone /\ pc[Main] = "waitdone"
                        ELSE t < i /\ (wdone[t] \/ pc[t] \in {"last", "idle"})}

Claimed == Over \cup {t \in Thread : pc[t] \in {"job", "next"}}

(* The jobs that some thread has taken. *)
Begun == {j \in 0..(nb_jobs - 1) : j < first_job \/ (nb_active <= j /\ j < current_job)}

Counters ==
  /\ current_job >= nb_active
  /\ Cardinality(Claimed) = first_job
  /\ Cardinality(Over) = IF current_job > nb_jobs THEN current_job - nb_jobs ELSE 0

Locals ==
  \A t \in Thread :
    /\ pc[t] \in {"claim", "job", "next"} => jobs[t] = [n |-> nb_jobs, active |-> nb_active]
    /\ pc[t] \in {"job", "next"} =>
         /\ first[t] < first_job
         /\ \A u \in Thread \ {t} : pc[u] \in {"job", "next"} => first[u] # first[t]
    /\ pc[t] = "job" =>
         /\ cur[t] \in Begun /\ cur[t] \notin ended
         /\ \A u \in Thread \ {t} : pc[u] = "job" => cur[u] # cur[t]

Shares == Begun = ended \cup Doing

LastOne ==
  /\ done => current_job = nb_jobs + nb_active /\ \A w \in AllWorkers : pc[w] # "last"
  /\ \A w \in AllWorkers : pc[w] = "last" =>
       /\ current_job = nb_jobs + nb_active
       /\ \A u \in AllWorkers \ {w} : pc[u] # "last"

Batch == pc[Main] \in BatchPcs => Counters /\ Locals /\ Shares /\ LastOne

IInv == Types /\ Phases /\ Batch

-----------------------------------------------------------------------------
(* Facts about the invariant *)

LEMMA Shape ==
  ASSUME Types
  PROVE  /\ Threads \in Nat \ {0} /\ Nb \in Nat /\ Nb \in {Threads, Threads - 1}
         /\ pool.main_func => Nb = Threads
         /\ pool.main_func \in BOOLEAN
         /\ AllWorkers = 1..Nb /\ Thread = 0..Nb /\ Main = 0 /\ Main \in Thread
         /\ \A w \in AllWorkers : w \in Nat /\ w \in Thread /\ w # Main /\ w # NoOne
BY DEF Types, Threads, Nb, AllWorkers, Thread, Main, NoOne

LEMMA PoolFixed ==
  ASSUME pool' = pool
  PROVE  /\ Threads' = Threads /\ AllWorkers' = AllWorkers /\ Thread' = Thread
         /\ NoOne' = NoOne /\ Nb' = Nb
BY DEF Threads, AllWorkers, Thread, NoOne, Nb

(* The mutex of a worker is free exactly when the worker is not running.   *)
LEMMA MutexFree ==
  ASSUME Types, NEW w \in AllWorkers
  PROVE  mutex[w] = NoOne <=> pc[w] \notin Holding
BY Shape DEF Types

(* What the caller is doing while a thread is inside run_jobs. *)
LEMMA Inside ==
  ASSUME Types, Phases, NEW t \in Thread, pc[t] \in {"read", "claim", "job", "next", "last"}
  PROVE  /\ pc[Main] \in BatchPcs
         /\ t = Main => alone
         /\ t # Main => t \in AllWorkers /\ t < i /\ ~wdone[t]
<1>1. CASE t = Main
  <2>1. pc[Main] \in BatchPcs
    BY <1>1 DEF Types, CallerPcs, BatchPcs
  <2>2. pc[Main] # "last"
    BY DEF Types, CallerPcs
  <2>3. alone
    BY <1>1, <2>1, <2>2 DEF Phases, Working
  <2> QED
    BY <1>1, <2>1, <2>3
<1>2. CASE t # Main
  <2>1. t \in AllWorkers
    BY <1>2 DEF Thread
  <2>2. ~Asleep(t) /\ ~Unborn(t) /\ ~Dying(t) /\ pc[t] # "start"
    BY DEF Asleep, Unborn, Dying
  <2>3. pc[Main] \notin {"create", "free"}
    BY <2>1, <2>2 DEF Phases, Creating
  <2>4. pc[Main] # "started"
    <3>1. t \in Nat /\ i \in Nat
      BY <2>1, Shape DEF Types
    <3>2. t < i \/ t > i \/ t = i
      BY <3>1
    <3> QED
      BY <2>1, <2>2, <3>2 DEF Phases, Starting
  <2>5. pc[Main] \notin {"ready", "counter"}
    BY <2>1, <2>2 DEF Phases, Resting
  <2>6. pc[Main] \notin {"stop", "join", "freed"}
    BY <2>1, <2>2 DEF Phases, Ending
  <2>7. pc[Main] \in BatchPcs
    BY <2>3, <2>4, <2>5, <2>6 DEF Types, CallerPcs, BatchPcs
  <2>8. t < i /\ ~wdone[t]
    BY <2>1, <2>2, <2>7 DEF Phases, Working, Active
  <2> QED
    BY <1>2, <2>1, <2>7, <2>8
<1> QED
  BY <1>1, <1>2

(* The threads of a batch: as many as nb_active. *)
LEMMA PartySize ==
  ASSUME Types, Phases, pc[Main] \in BatchPcs
  PROVE  /\ nb_active \in 1..Threads /\ nb_active <= nb_jobs /\ nb_jobs \in 1..MaxJobs
         /\ MaxJobs \in Nat
         /\ IsFiniteSet(Party) /\ Cardinality(Party) = nb_active
         /\ ToWake \in 0..Nb
         /\ \A w \in AllWorkers : w <= ToWake <=> w \in Party
         /\ Main \in Party <=> alone
<1>1. nb_jobs \in 1..MaxJobs /\ MaxJobs \in Nat
  BY BoundsAssumption DEF Types, Phases, SetUp
<1>2. nb_active = Min2(nb_jobs, Threads)
  BY DEF Phases, SetUp, Working, Whole
<1>3. nb_active \in 1..Threads /\ nb_active <= nb_jobs
  BY <1>1, <1>2, Shape DEF Min2
<1>4. IsFiniteSet(Party) /\ Cardinality(Party) = nb_active
  <2>1. CASE alone
    <3>1. Party = 0..(nb_active - 1) /\ nb_active - 1 \in Nat
      BY <2>1, <1>3, Shape DEF Party
    <3>2. /\ IsFiniteSet(0..(nb_active - 1))
          /\ Cardinality(0..(nb_active - 1)) = nb_active - 1 - 0 + 1
      BY <3>1, FS_Interval
    <3> QED
      BY <3>1, <3>2, <1>3, Shape
  <2>2. CASE ~alone
    BY <2>2, <1>3, FS_Interval, Shape DEF Party
  <2> QED
    BY <2>1, <2>2 DEF Types
<1>5. ToWake \in 0..Nb
  <2>1. ~alone => Nb = Threads
    BY Shape DEF Phases, SetUp
  <2>2. CASE alone
    BY <1>3, <2>2, Shape DEF ToWake
  <2>3. CASE ~alone
    BY <1>3, <2>1, <2>3, Shape DEF ToWake
  <2> QED
    BY <2>2, <2>3 DEF Types
<1>6. \A w \in AllWorkers : w <= ToWake <=> w \in Party
  BY <1>3, Shape DEF ToWake, Party
<1>7. Main \in Party <=> alone
  BY <1>3, Shape DEF Party
<1> QED
  BY <1>1, <1>3, <1>4, <1>5, <1>6, <1>7

(* Whoever has taken a job is one of them. *)
LEMMA InParty ==
  ASSUME Types, Phases, pc[Main] \in BatchPcs
  PROVE  /\ Over \subseteq Claimed /\ Claimed \subseteq Party
         /\ IsFiniteSet(Over) /\ IsFiniteSet(Claimed)
         /\ Cardinality(Over) \in 0..nb_active /\ Cardinality(Claimed) \in 0..nb_active
         /\ Cardinality(Over) = nb_active => Over = Party
         /\ \A t \in Thread : pc[t] \in {"read", "claim", "job", "next", "last"} => t \in Party
<1>1. \A t \in Thread : pc[t] \in {"read", "claim", "job", "next", "last"} => t \in Party
  <2> SUFFICES ASSUME NEW t \in Thread, pc[t] \in {"read", "claim", "job", "next", "last"}
               PROVE  t \in Party
    OBVIOUS
  <2>1. CASE t = Main
    BY <2>1, Inside, PartySize
  <2>2. CASE t # Main
    <3>1. t \in AllWorkers /\ t < i /\ i <= ToWake + 1
      BY <2>2, Inside DEF Phases, Working
    <3>2. i \in Nat
      BY DEF Types
    <3>3. t \in Nat /\ ToWake \in Nat
      BY <3>1, PartySize, Shape
    <3>4. t <= ToWake
      BY <3>1, <3>2, <3>3
    <3> QED
      BY <3>1, <3>4, PartySize
  <2> QED
    BY <2>1, <2>2
<1>2. Over \subseteq Party
  <2> SUFFICES ASSUME NEW t \in Over PROVE t \in Party
    OBVIOUS
  <2>1. CASE t = Main
    BY <2>1, PartySize DEF Over
  <2>2. CASE t # Main
    <3>1. t \in AllWorkers /\ t < i /\ i <= ToWake + 1
      BY <2>2 DEF Phases, Working, Over, Thread
    <3>2. i \in Nat
      BY DEF Types
    <3>3. t \in Nat /\ ToWake \in Nat
      BY <3>1, PartySize, Shape
    <3>4. t <= ToWake
      BY <3>1, <3>2, <3>3
    <3> QED
      BY <3>1, <3>4, PartySize
  <2> QED
    BY <2>1, <2>2
<1>3. Over \subseteq Claimed /\ Claimed \subseteq Party
  BY <1>1, <1>2 DEF Claimed
<1>4. /\ IsFiniteSet(Over) /\ IsFiniteSet(Claimed)
      /\ Cardinality(Over) <= nb_active /\ Cardinality(Claimed) <= nb_active
      /\ Cardinality(Over) = nb_active => Over = Party
  BY <1>2, <1>3, PartySize, FS_Subset
<1>5. Cardinality(Over) \in Nat /\ Cardinality(Claimed) \in Nat
  BY <1>4, FS_CardinalityType
<1> QED
  BY <1>1, <1>3, <1>4, <1>5, PartySize

-----------------------------------------------------------------------------
(* What a step that changes little keeps *)

(* The state of a worker that a step leaves where it is. *)
LEMMA Kept ==
  ASSUME NEW w, pc'[w] = pc[w], wdone'[w] = wdone[w]
  PROVE  /\ Asleep(w)' <=> Asleep(w)
         /\ Active(w)' <=> Active(w)
         /\ Unborn(w)' <=> Unborn(w)
         /\ Dying(w)' <=> Dying(w)
BY DEF Asleep, Active, Unborn, Dying

(* A step of worker w that neither wakes it nor lets it die. *)
LEMMA WorkerPhases ==
  ASSUME Types, Phases, NEW w \in AllWorkers,
         UNCHANGED <<pool, nb_threads, nb_active, nb_jobs, finished, created, i, alone>>,
         pc'[Main] = pc[Main],
         \A u \in AllWorkers \ {w} : pc'[u] = pc[u] /\ wdone'[u] = wdone[u],
         Asleep(w) => Asleep(w)',
         Active(w) /\ pc[Main] \in BatchPcs => Asleep(w)' \/ Active(w)',
         ~Unborn(w),
         Dying(w) /\ finished => Dying(w)' /\ (pc[w] = "exit" => pc'[w] = "exit"),
         pc[w] = "start" /\ ~wdone[w] => Asleep(w)',
         UNCHANGED <<done, first_job, ended>> \/ pc[Main] \in BatchPcs
  PROVE  Phases'
<1>1. /\ Threads' = Threads /\ AllWorkers' = AllWorkers /\ Nb' = Nb /\ Workers' = Workers
      /\ ToWake' = ToWake
  BY PoolFixed DEF Workers, ToWake
<1>2. \A u \in AllWorkers \ {w} :
        /\ Asleep(u)' <=> Asleep(u)
        /\ Active(u)' <=> Active(u)
        /\ Unborn(u)' <=> Unborn(u)
        /\ Dying(u)' <=> Dying(u)
  BY Kept
<1>3. Creating'
  BY <1>1, <1>2 DEF Phases, Creating, BatchPcs
<1>4. Starting'
  <2> SUFFICES ASSUME pc[Main] = "started"
               PROVE  Starting'
    BY DEF Starting
  <2>1. /\ ~finished /\ ~done /\ i <= Nb /\ created = 1..i /\ nb_threads = Threads
        /\ \A u \in AllWorkers : /\ u < i => Asleep(u)
                                 /\ u > i => Unborn(u)
        /\ Asleep(i) \/ (pc[i] = "start" /\ ~wdone[i])
    BY DEF Phases, Starting
  <2>2. UNCHANGED <<done, first_job, ended>>
    BY DEF BatchPcs
  <2>3. i \in AllWorkers
    <3>1. i \in Nat \ {0}
      BY DEF Types
    <3> QED
      BY <2>1, <3>1, Shape
  <2>4. Asleep(i)' \/ (pc'[i] = "start" /\ ~wdone'[i])
    <3>1. CASE i = w
      BY <2>1, <3>1
    <3>2. CASE i # w
      BY <2>1, <2>3, <3>2, <1>2
    <3> QED
      BY <3>1, <3>2
  <2>5. \A u \in AllWorkers : /\ u < i => Asleep(u)'
                              /\ u > i => Unborn(u)'
    <3> SUFFICES ASSUME NEW u \in AllWorkers
                 PROVE  /\ u < i => Asleep(u)'
                        /\ u > i => Unborn(u)'
      OBVIOUS
    <3>1. CASE u = w
      BY <2>1, <3>1
    <3>2. CASE u # w
      BY <2>1, <1>2, <3>2
    <3> QED
      BY <3>1, <3>2
  <2>6. (Asleep(i) \/ (pc[i] = "start" /\ ~wdone[i]))'
    BY <2>4 DEF Asleep
  <2> QED
    BY <2>1, <2>2, <2>5, <2>6, <1>1 DEF Starting
<1>5. Resting'
  BY <1>1, <1>2 DEF Phases, Resting, Whole, BatchPcs
<1>6. Working'
  BY <1>1, <1>2 DEF Phases, Working, Whole, BatchPcs
<1>7. Ending'
  <2> SUFFICES ASSUME pc[Main] \in {"stop", "join", "freed"}
               PROVE  Ending'
    BY DEF Ending
  <2>1. UNCHANGED <<done, first_job, ended>>
    BY DEF BatchPcs
  <2>2. created \subseteq AllWorkers
    <3>1. Workers \in 0..Nb /\ created = 1..Workers
      BY DEF Phases, Ending
    <3> QED
      BY <3>1, Shape
  <2>3. finished
    BY DEF Phases, Ending
  <2>4. \A u \in AllWorkers :
          IF u > Workers THEN Unborn(u)'
          ELSE IF pc[Main] = "stop" /\ u >= i THEN Asleep(u)' ELSE Dying(u)'
    BY <1>2, <2>3 DEF Phases, Ending
  <2>5. \A u \in AllWorkers : pc[u] = "exit" => pc'[u] = "exit"
    <3> SUFFICES ASSUME pc[w] = "exit" PROVE pc'[w] = "exit"
      OBVIOUS
    <3>1. ~Asleep(w)
      BY DEF Asleep
    <3>2. Dying(w)
      BY <3>1 DEF Phases, Ending
    <3> QED
      BY <3>2, <2>3
  <2> QED
    BY <1>1, <2>1, <2>2, <2>4, <2>5 DEF Phases, Ending
<1>8. pc'[Main] \in {"counter"} \cup BatchPcs => SetUp'
  BY DEF Phases, SetUp, Min2
<1>9. pc'[Main] = "counter" => first_job' = 0 /\ ended' = {}
  BY DEF Phases, BatchPcs
<1> QED
  BY <1>3, <1>4, <1>5, <1>6, <1>7, <1>8, <1>9 DEF Phases

(* A step of thread t inside run_jobs that leaves the caller in the batch. *)
LEMMA RunPhases ==
  ASSUME Types, Phases, NEW t \in Thread,
         pc[t] \in {"read", "claim", "job", "next", "last"},
         \A u \in Thread \ {t} : pc'[u] = pc[u],
         t = Main => pc'[t] \in {"claim", "job", "next", "waitdone"},
         t # Main => pc'[t] \in {"claim", "job", "next", "last", "idle"},
         UNCHANGED <<pool, nb_threads, nb_active, nb_jobs, finished, wdone, created, i, alone>>
  PROVE  Phases'
<1>1. /\ pc[Main] \in BatchPcs
      /\ t = Main => alone
      /\ t # Main => t \in AllWorkers /\ t < i /\ ~wdone[t]
  BY Inside
<1>2. Main \in Thread /\ AllWorkers \subseteq Thread \ {Main}
  BY Shape
<1>3. CASE t # Main
  <2>1. \A u \in AllWorkers \ {t} : pc'[u] = pc[u] /\ wdone'[u] = wdone[u]
    BY <1>2
  <2>2. Asleep(t)' \/ Active(t)'
    BY <1>1, <1>2, <1>3 DEF Asleep, Active
  <2>3. ~Asleep(t) /\ ~Unborn(t) /\ ~Dying(t) /\ pc[t] # "start"
    BY DEF Asleep, Unborn, Dying
  <2>4. pc'[Main] = pc[Main]
    BY <1>2, <1>3
  <2> QED
    BY <1>1, <1>3, <2>1, <2>2, <2>3, <2>4, WorkerPhases
<1>4. CASE t = Main
  <2>1. pc'[Main] \in BatchPcs \ {"wake"} /\ pc[Main] # "wake"
    BY <1>2, <1>4 DEF BatchPcs
  <2>2. ToWake' = ToWake /\ AllWorkers' = AllWorkers /\ Threads' = Threads
    BY PoolFixed DEF ToWake
  <2>3. \A u \in AllWorkers : /\ Asleep(u)' <=> Asleep(u)
                              /\ Active(u)' <=> Active(u)
    <3>1. \A u \in AllWorkers : pc'[u] = pc[u] /\ wdone'[u] = wdone[u]
      BY <1>2, <1>4
    <3> QED
      BY <3>1, Kept
  <2>4. Working'
    BY <1>1, <1>4, <2>1, <2>2, <2>3 DEF Phases, Working, Whole
  <2>5. Creating' /\ Starting' /\ Resting' /\ Ending'
    BY <2>1 DEF Creating, Starting, Resting, Ending, BatchPcs
  <2>6. SetUp'
    BY <1>1 DEF Phases, SetUp, Min2
  <2> QED
    BY <2>1, <2>4, <2>5, <2>6 DEF Phases, BatchPcs
<1> QED
  BY <1>3, <1>4

(* What such a step keeps of the types. *)
LEMMA RunTypes ==
  ASSUME Types, NEW t \in Thread,
         pc[t] \in {"read", "claim", "job", "next", "last"},
         pc' \in [Thread -> CallerPcs \cup WorkerPcs],
         \A u \in Thread \ {t} : pc'[u] = pc[u],
         t = Main => pc'[t] \in {"claim", "job", "next", "waitdone", "ready"},
         t # Main => pc'[t] \in {"claim", "job", "next", "last", "idle"},
         UNCHANGED <<pool, mutex>>
  PROVE  /\ pc' \in [Thread' -> CallerPcs \cup WorkerPcs]
         /\ pc'[Main] \in CallerPcs /\ \A w \in AllWorkers' : pc'[w] \in WorkerPcs
         /\ mutex' = [w \in AllWorkers' |-> IF pc'[w] \in Holding THEN w ELSE NoOne']
<1>1. AllWorkers' = AllWorkers /\ Thread' = Thread /\ NoOne' = NoOne
  BY PoolFixed
<1>2. /\ t = Main => pc'[t] \in CallerPcs
      /\ t # Main => pc'[t] \in WorkerPcs /\ pc'[t] \in Holding /\ pc[t] \in Holding
  BY DEF CallerPcs, WorkerPcs, Holding
<1>3. \A w \in AllWorkers : w \in Thread /\ w # Main
  BY Shape
<1>4. pc'[Main] \in CallerPcs /\ \A w \in AllWorkers : pc'[w] \in WorkerPcs
  BY <1>2, <1>3 DEF Types, Thread
<1>5. \A w \in AllWorkers : pc'[w] \in Holding <=> pc[w] \in Holding
  BY <1>2, <1>3
<1>6. mutex' = [w \in AllWorkers |-> IF pc'[w] \in Holding THEN w ELSE NoOne]
  BY <1>5 DEF Types
<1> QED
  BY <1>1, <1>4, <1>6

(* A step that takes no job and ends none. *)
LEMMA Frame ==
  ASSUME Types, Counters, Locals, Shares,
         UNCHANGED <<pool, nb_active, nb_jobs, first_job, current_job, first, cur, ended>>,
         Over' = Over,
         \A t \in Thread : pc[t] \in {"job", "next"} \/ pc'[t] \in {"job", "next"} =>
                             pc'[t] = pc[t],
         \A t \in Thread : pc'[t] \in {"claim", "job", "next"} =>
                             jobs'[t] = [n |-> nb_jobs, active |-> nb_active]
  PROVE  Counters' /\ Locals' /\ Shares'
<1>1. Thread' = Thread /\ AllWorkers' = AllWorkers
  BY PoolFixed
<1>2. Claimed' = Claimed
  BY <1>1 DEF Claimed
<1>3. Begun' = Begun
  BY DEF Begun
<1>4. Counters'
  BY <1>2 DEF Counters
<1>5. Doing' = Doing
  BY <1>1 DEF Doing
<1>6. Shares'
  BY <1>3, <1>5 DEF Shares
<1>7. Locals'
  BY <1>1, <1>3 DEF Locals
<1> QED
  BY <1>4, <1>6, <1>7

(* The same of the end of the batch. *)
LEMMA LastFrame ==
  ASSUME LastOne, UNCHANGED <<pool, nb_active, nb_jobs, current_job, done>>,
         \A w \in AllWorkers : pc'[w] = "last" <=> pc[w] = "last"
  PROVE  LastOne'
<1>1. AllWorkers' = AllWorkers
  BY PoolFixed
<1> QED
  BY <1>1 DEF LastOne

(* Nothing to say of the batch outside one. *)
LEMMA NoBatch ==
  ASSUME pc'[Main] \notin BatchPcs
  PROVE  Batch'
BY DEF Batch

-----------------------------------------------------------------------------
(* run_jobs *)

LEMMA ReadInv ==
  ASSUME IInv, NEW t \in Thread, Read(t)
  PROVE  IInv'
<1> USE DEF Read, Goto, shared
<1>1. Types /\ Phases /\ Batch
  BY DEF IInv
<1>2. pc[Main] \in BatchPcs /\ Counters /\ Locals /\ Shares /\ LastOne
  BY <1>1, Inside DEF Batch
<1>3. /\ pc'[t] = "claim" /\ \A u \in Thread \ {t} : pc'[u] = pc[u]
      /\ pc' \in [Thread -> CallerPcs \cup WorkerPcs]
  BY <1>1 DEF Types, CallerPcs
<1>4. Types'
  <2>1. jobs' \in [Thread -> [n : Nat, active : Nat]]
    BY <1>1 DEF Types
  <2>2. /\ Threads' = Threads /\ AllWorkers' = AllWorkers /\ Thread' = Thread
    BY PoolFixed
  <2>3. /\ pc' \in [Thread' -> CallerPcs \cup WorkerPcs]
        /\ pc'[Main] \in CallerPcs /\ \A w \in AllWorkers' : pc'[w] \in WorkerPcs
        /\ mutex' = [w \in AllWorkers' |-> IF pc'[w] \in Holding THEN w ELSE NoOne']
    BY <1>1, <1>3, RunTypes
  <2> QED
    BY <1>1, <2>1, <2>2, <2>3 DEF Types
<1>5. Phases'
  BY <1>1, <1>3, RunPhases
<1>6. Over' = Over
  BY <1>3, PoolFixed DEF Over
<1>7. \A u \in Thread : pc'[u] \in {"claim", "job", "next"} =>
                          jobs'[u] = [n |-> nb_jobs, active |-> nb_active]
  BY <1>1, <1>2, <1>3 DEF Locals, Types
<1>8. Counters' /\ Locals' /\ Shares'
  BY <1>1, <1>2, <1>3, <1>6, <1>7, Frame
<1>9. LastOne'
  <2>1. \A w \in AllWorkers : pc'[w] = "last" <=> pc[w] = "last"
    BY <1>1, <1>3, Shape
  <2> QED
    BY <1>2, <2>1, LastFrame
<1> QED
  BY <1>4, <1>5, <1>8, <1>9 DEF IInv, Batch

LEMMA ClaimInv ==
  ASSUME IInv, NEW t \in Thread, Claim(t)
  PROVE  /\ IInv' /\ first_job \in (0..(nb_jobs - 1)) \ Begun
         /\ Doing' = Doing \cup {first_job}
<1> USE DEF Claim, Goto
<1>1. Types /\ Phases /\ Batch
  BY DEF IInv
<1>2. /\ pc[Main] \in BatchPcs /\ Counters /\ Locals /\ Shares /\ LastOne
      /\ t = Main => alone
      /\ t # Main => t \in AllWorkers /\ t < i /\ ~wdone[t]
  BY <1>1, Inside DEF Batch
<1>3. /\ pc'[t] = "job" /\ \A u \in Thread \ {t} : pc'[u] = pc[u]
      /\ pc' \in [Thread -> CallerPcs \cup WorkerPcs]
  BY <1>1 DEF Types, CallerPcs
<1>4. Over' = Over
  BY <1>3, PoolFixed DEF Over
<1>5. t \notin Claimed
  BY <1>2 DEF Claimed, Over
<1>6. Claimed' = Claimed \cup {t}
  BY <1>3, <1>4, PoolFixed DEF Claimed
<1>7. /\ Claimed \cup {t} \subseteq Party /\ IsFiniteSet(Claimed) /\ IsFiniteSet(Party)
      /\ Cardinality(Party) = nb_active
  BY <1>1, <1>2, InParty, PartySize
<1>8. IsFiniteSet(Claimed \cup {t}) /\ Cardinality(Claimed \cup {t}) = Cardinality(Claimed) + 1
  BY <1>5, <1>7, FS_AddElement
<1>9. Cardinality(Claimed \cup {t}) <= nb_active
  BY <1>7, FS_Subset
<1>10. Cardinality(Claimed) = first_job /\ first_job \in Nat
  <2>1. first_job \in Nat
    BY <1>1, Shape DEF Types
  <2> QED
    BY <1>2, <2>1 DEF Counters
<1>11. nb_active \in Nat /\ nb_active <= Threads /\ nb_active <= nb_jobs /\ nb_jobs \in Nat
       /\ Threads \in Nat
  BY <1>1, <1>2, PartySize, Shape
<1>12. first_job < nb_active /\ first_job < nb_jobs
  BY <1>8, <1>9, <1>10, <1>11
<1>13. Types'
  <2>1. first' \in [Thread -> Nat] /\ cur' \in [Thread -> Nat]
    BY <1>1, <1>10 DEF Types
  <2>2. first_job' \in 0..Threads
    BY <1>10, <1>11, <1>12
  <2>3. /\ Threads' = Threads /\ AllWorkers' = AllWorkers /\ Thread' = Thread
    BY PoolFixed
  <2>4. /\ pc' \in [Thread' -> CallerPcs \cup WorkerPcs]
        /\ pc'[Main] \in CallerPcs /\ \A w \in AllWorkers' : pc'[w] \in WorkerPcs
        /\ mutex' = [w \in AllWorkers' |-> IF pc'[w] \in Holding THEN w ELSE NoOne']
    BY <1>1, <1>3, RunTypes
  <2> QED
    BY <1>1, <2>1, <2>2, <2>3, <2>4 DEF Types
<1>14. Phases'
  BY <1>1, <1>3, RunPhases
<1>15. current_job \in Nat
  BY <1>1, Shape, BoundsAssumption DEF Types
<1>16. Begun' = Begun \cup {first_job} /\ first_job \notin Begun
  BY <1>10, <1>11, <1>12, <1>15 DEF Begun
<1>17. Doing' = Doing \cup {first_job}
  <2>1. \A u \in Thread : cur'[u] = IF u = t THEN first_job ELSE cur[u]
    BY <1>1 DEF Types
  <2> QED
    BY <1>3, <2>1, PoolFixed DEF Doing
<1>18. Counters'
  BY <1>2, <1>4, <1>6, <1>8, <1>10 DEF Counters
<1>19. Shares'
  BY <1>2, <1>16, <1>17 DEF Shares
<1>20. Locals'
  <2>1. \A u \in Thread : /\ cur'[u] = IF u = t THEN first_job ELSE cur[u]
                          /\ first'[u] = IF u = t THEN first_job ELSE first[u]
    BY <1>1 DEF Types
  <2>2. first_job \notin ended /\ \A u \in Thread : pc[u] = "job" => cur[u] # first_job
    BY <1>2, <1>16 DEF Shares, Doing
  <2>3. \A u \in Thread : first[u] \in Nat
    BY <1>1 DEF Types
  <2>4. \A u \in Thread : pc[u] \in {"job", "next"} => first[u] < first_job
    BY <1>2 DEF Locals
  <2>5. \A u \in Thread : pc'[u] \in {"claim", "job", "next"} =>
                            jobs'[u] = [n |-> nb_jobs', active |-> nb_active']
    BY <1>2, <1>3 DEF Locals
  <2>6. \A u \in Thread : pc'[u] \in {"job", "next"} =>
          /\ first'[u] < first_job'
          /\ \A v \in Thread \ {u} : pc'[v] \in {"job", "next"} => first'[v] # first'[u]
    <3>1. \A u \in Thread : pc'[u] \in {"job", "next"} => first'[u] < first_job'
      BY <1>3, <1>10, <2>1, <2>3, <2>4
    <3>2. \A u \in Thread \ {t} : pc[u] \in {"job", "next"} => first[u] # first_job
      BY <1>10, <2>3, <2>4
    <3>3. \A u \in Thread, v \in Thread : u # v /\ pc'[u] \in {"job", "next"}
             /\ pc'[v] \in {"job", "next"} => first'[v] # first'[u]
      BY <1>2, <1>3, <2>1, <3>2 DEF Locals
    <3> QED
      BY <3>1, <3>3
  <2>7. \A u \in Thread : pc'[u] = "job" =>
          /\ cur'[u] \in Begun' /\ cur'[u] \notin ended'
          /\ \A v \in Thread \ {u} : pc'[v] = "job" => cur'[v] # cur'[u]
    BY <1>2, <1>3, <1>16, <2>1, <2>2 DEF Locals
  <2> QED
    BY <2>5, <2>6, <2>7, PoolFixed DEF Locals
<1>21. LastOne'
  <2>1. \A w \in AllWorkers : pc'[w] = "last" <=> pc[w] = "last"
    BY <1>1, <1>3, Shape
  <2> QED
    BY <1>2, <2>1, LastFrame
<1>22. first_job \in 0..(nb_jobs - 1)
  BY <1>10, <1>11, <1>12
<1> QED
  BY <1>13, <1>14, <1>16, <1>17, <1>22, <1>18, <1>19, <1>20, <1>21 DEF IInv, Batch

LEMMA JobInv ==
  ASSUME IInv, NEW t \in Thread, Job(t)
  PROVE  IInv' /\ Doing' = Doing \ {cur[t]}
<1> USE DEF Job, Goto, shared
<1>1. Types /\ Phases /\ Batch
  BY DEF IInv
<1>2. /\ pc[Main] \in BatchPcs /\ Counters /\ Locals /\ Shares /\ LastOne
  BY <1>1, Inside DEF Batch
<1>3. /\ pc'[t] = "next" /\ \A u \in Thread \ {t} : pc'[u] = pc[u]
      /\ pc' \in [Thread -> CallerPcs \cup WorkerPcs]
  BY <1>1 DEF Types, CallerPcs
<1>4. Over' = Over
  BY <1>3, PoolFixed DEF Over
<1>5. Claimed' = Claimed
  BY <1>3, <1>4, PoolFixed DEF Claimed
<1>6. nb_jobs \in 1..MaxJobs /\ MaxJobs \in Nat
  BY <1>1, <1>2, PartySize
<1>7. cur[t] \in Begun /\ \A u \in Thread \ {t} : pc[u] = "job" => cur[u] # cur[t]
  BY <1>2 DEF Locals
<1>8. Types'
  <2>1. ended' \subseteq 0..(MaxJobs - 1)
    <3>1. ended \subseteq 0..(MaxJobs - 1)
      BY <1>1 DEF Types
    <3>2. cur[t] \in 0..(nb_jobs - 1)
      BY <1>7 DEF Begun
    <3>3. cur[t] \in 0..(MaxJobs - 1)
      BY <3>2, <1>6
    <3> QED
      BY <3>1, <3>3
  <2>2. /\ Threads' = Threads /\ AllWorkers' = AllWorkers /\ Thread' = Thread
    BY PoolFixed
  <2>3. /\ pc' \in [Thread' -> CallerPcs \cup WorkerPcs]
        /\ pc'[Main] \in CallerPcs /\ \A w \in AllWorkers' : pc'[w] \in WorkerPcs
        /\ mutex' = [w \in AllWorkers' |-> IF pc'[w] \in Holding THEN w ELSE NoOne']
    BY <1>1, <1>3, RunTypes
  <2> QED
    BY <1>1, <2>1, <2>2, <2>3 DEF Types
<1>9. Phases'
  BY <1>1, <1>3, RunPhases
<1>10. Doing' = Doing \ {cur[t]}
  BY <1>3, <1>7, PoolFixed DEF Doing
<1>11. Begun' = Begun
  BY DEF Begun
<1>12. Shares'
  BY <1>2, <1>7, <1>10, <1>11 DEF Shares
<1>13. Counters'
  BY <1>2, <1>4, <1>5 DEF Counters
<1>14. Locals'
  <2>1. \A u \in Thread : pc'[u] \in {"claim", "job", "next"} =>
                            jobs'[u] = [n |-> nb_jobs', active |-> nb_active']
    BY <1>2, <1>3 DEF Locals
  <2>2. \A u \in Thread : pc'[u] \in {"job", "next"} =>
          /\ first'[u] < first_job'
          /\ \A v \in Thread \ {u} : pc'[v] \in {"job", "next"} => first'[v] # first'[u]
    BY <1>2, <1>3 DEF Locals
  <2>3. \A u \in Thread : pc'[u] = "job" =>
          /\ cur'[u] \in Begun' /\ cur'[u] \notin ended'
          /\ \A v \in Thread \ {u} : pc'[v] = "job" => cur'[v] # cur'[u]
    BY <1>2, <1>3, <1>7, <1>11 DEF Locals
  <2> QED
    BY <2>1, <2>2, <2>3, PoolFixed DEF Locals
<1>15. LastOne'
  <2>1. \A w \in AllWorkers : pc'[w] = "last" <=> pc[w] = "last"
    BY <1>1, <1>3, Shape
  <2> QED
    BY <1>2, <2>1, LastFrame
<1> QED
  BY <1>8, <1>9, <1>10, <1>12, <1>13, <1>14, <1>15 DEF IInv, Batch

(* The workers when every thread of the batch has found no more jobs. *)
LEMMA AllAsleep ==
  ASSUME Types, Phases, pc[Main] \in BatchPcs, Party \ {Main} \subseteq Over,
         \A w \in AllWorkers : pc[w] # "last"
  PROVE  \A w \in AllWorkers : Asleep(w)
<1> SUFFICES ASSUME NEW w \in AllWorkers PROVE Asleep(w)
  OBVIOUS
<1>1. Asleep(w) \/ (w < i /\ Active(w))
  BY DEF Phases, Working
<1>2. SUFFICES ASSUME w < i, Active(w) PROVE FALSE
  BY <1>1
<1>3. w \in Nat /\ w # Main /\ ToWake \in Nat
  BY Shape, PartySize
<1>4. i \in Nat /\ i <= ToWake + 1
  BY DEF Types, Phases, Working
<1>5. w <= ToWake
  BY <1>2, <1>3, <1>4
<1>6. w \in Party
  BY <1>5, PartySize
<1>7. w \in Over
  BY <1>3, <1>6
<1> QED
  BY <1>2, <1>3, <1>7 DEF Over, Active

(* The counter of a batch before a thread finds no job left. *)
LEMMA Overshoot ==
  ASSUME IInv, NEW t \in Thread, pc[t] = "next", current_job >= nb_jobs
  PROVE  /\ t \notin Over /\ IsFiniteSet(Over)
         /\ Over \cup {t} \subseteq Party
         /\ Cardinality(Over \cup {t}) = Cardinality(Over) + 1
         /\ Cardinality(Over) = current_job - nb_jobs
         /\ current_job + 1 <= nb_jobs + nb_active
         /\ current_job + 1 = nb_jobs + nb_active => Over \cup {t} = Party
         /\ ~done /\ \A w \in AllWorkers : pc[w] # "last"
<1>1. Types /\ Phases /\ Batch
  BY DEF IInv
<1>2. /\ pc[Main] \in BatchPcs /\ Counters /\ Locals /\ Shares /\ LastOne
      /\ t # Main => t \in AllWorkers /\ t < i /\ ~wdone[t]
  BY <1>1, Inside DEF Batch
<1>3. t \notin Over
  BY <1>2 DEF Over
<1>4. Over \cup {t} \subseteq Party /\ IsFiniteSet(Over)
  BY <1>1, <1>2, InParty
<1>5. IsFiniteSet(Party) /\ Cardinality(Party) = nb_active /\ nb_jobs \in Nat /\ nb_active \in Nat
  BY <1>1, <1>2, PartySize
<1>6. IsFiniteSet(Over \cup {t}) /\ Cardinality(Over \cup {t}) = Cardinality(Over) + 1
  BY <1>3, <1>4, FS_AddElement
<1>7. /\ Cardinality(Over \cup {t}) <= nb_active
      /\ Cardinality(Over \cup {t}) = nb_active => Over \cup {t} = Party
  BY <1>4, <1>5, FS_Subset
<1>8. current_job \in Nat
  BY <1>1, Shape, BoundsAssumption DEF Types
<1>9. Cardinality(Over) = current_job - nb_jobs
  BY <1>2, <1>5, <1>8 DEF Counters
<1>10. /\ current_job + 1 <= nb_jobs + nb_active
       /\ current_job + 1 = nb_jobs + nb_active => Over \cup {t} = Party
  BY <1>5, <1>6, <1>7, <1>8, <1>9
<1>11. current_job # nb_jobs + nb_active
  BY <1>5, <1>8, <1>10
<1>12. ~done /\ \A w \in AllWorkers : pc[w] # "last"
  BY <1>2, <1>11 DEF LastOne
<1> QED
  BY <1>3, <1>4, <1>6, <1>9, <1>10, <1>12

(* A thread takes one more job from the shared counter. *)
LEMMA NextJobTakes ==
  ASSUME IInv, NEW t \in Thread, NextJob(t), current_job < jobs[t].n
  PROVE  /\ IInv' /\ current_job \in (0..(nb_jobs - 1)) \ Begun
         /\ Doing' = Doing \cup {current_job}
<1> USE DEF NextJob, Goto
<1>1. Types /\ Phases /\ Batch
  BY DEF IInv
<1>2. /\ pc[Main] \in BatchPcs /\ Counters /\ Locals /\ Shares /\ LastOne
  BY <1>1, Inside DEF Batch
<1>3. /\ pc'[t] = "job" /\ \A u \in Thread \ {t} : pc'[u] = pc[u]
      /\ pc' \in [Thread -> CallerPcs \cup WorkerPcs]
  BY <1>1 DEF Types, CallerPcs
<1>5. Over' = Over
  BY <1>3, PoolFixed DEF Over
<1>6. Claimed' = Claimed
  BY <1>3, <1>5, PoolFixed DEF Claimed
<1>7. jobs[t].n = nb_jobs
  BY <1>2 DEF Locals
<1>8. nb_jobs \in Nat /\ nb_active \in Nat /\ Threads \in Nat /\ MaxJobs \in Nat
      /\ nb_jobs <= MaxJobs
  BY <1>1, <1>2, PartySize, Shape
<1>9. Cardinality(Claimed) \in 0..nb_active
  BY <1>1, <1>2, InParty
<1>10. first_job <= nb_active /\ first_job \in Nat
  BY <1>2, <1>8, <1>9 DEF Counters
<1>11. current_job \in Nat /\ current_job >= nb_active /\ current_job < nb_jobs
  <2>1. current_job \in Nat
    BY <1>1, Shape, BoundsAssumption DEF Types
  <2> QED
    BY <2>1, <1>2, <1>7 DEF Counters
<1>12. Types'
  <2>1. cur' \in [Thread -> Nat]
    BY <1>1, <1>11 DEF Types
  <2>2. current_job' \in 0..(MaxJobs + Threads)
    BY <1>8, <1>11
  <2>3. /\ Threads' = Threads /\ AllWorkers' = AllWorkers /\ Thread' = Thread
    BY PoolFixed
  <2>4. /\ pc' \in [Thread' -> CallerPcs \cup WorkerPcs]
        /\ pc'[Main] \in CallerPcs /\ \A w \in AllWorkers' : pc'[w] \in WorkerPcs
        /\ mutex' = [w \in AllWorkers' |-> IF pc'[w] \in Holding THEN w ELSE NoOne']
    BY <1>1, <1>3, RunTypes
  <2> QED
    BY <1>1, <2>1, <2>2, <2>3, <2>4 DEF Types
<1>13. Phases'
  BY <1>1, <1>3, RunPhases
<1>14. Begun' = Begun \cup {current_job} /\ current_job \in (0..(nb_jobs - 1)) \ Begun
  BY <1>8, <1>10, <1>11 DEF Begun
<1>15. \A u \in Thread : cur'[u] = IF u = t THEN current_job ELSE cur[u]
  BY <1>1 DEF Types
<1>16. Doing' = Doing \cup {current_job}
  BY <1>3, <1>15, PoolFixed DEF Doing
<1>17. Counters'
  <2>1. Cardinality(Over) = 0
    BY <1>2, <1>8, <1>11 DEF Counters
  <2> QED
    BY <1>2, <1>5, <1>6, <1>8, <1>11, <2>1 DEF Counters
<1>18. Shares'
  BY <1>2, <1>14, <1>16 DEF Shares
<1>19. Locals'
  <2>1. \A u \in Thread : pc'[u] \in {"claim", "job", "next"} =>
                            jobs'[u] = [n |-> nb_jobs', active |-> nb_active']
    BY <1>2, <1>3 DEF Locals
  <2>2. \A u \in Thread : pc'[u] \in {"job", "next"} =>
          /\ first'[u] < first_job'
          /\ \A v \in Thread \ {u} : pc'[v] \in {"job", "next"} => first'[v] # first'[u]
    BY <1>2, <1>3 DEF Locals
  <2>3. current_job \notin ended /\ \A u \in Thread : pc[u] = "job" => cur[u] # current_job
    BY <1>2, <1>14 DEF Shares, Doing
  <2>4. \A u \in Thread : pc'[u] = "job" =>
          /\ cur'[u] \in Begun' /\ cur'[u] \notin ended'
          /\ \A v \in Thread \ {u} : pc'[v] = "job" => cur'[v] # cur'[u]
    BY <1>2, <1>3, <1>14, <1>15, <2>3 DEF Locals
  <2> QED
    BY <2>1, <2>2, <2>4, PoolFixed DEF Locals
<1>20. LastOne'
  <2>1. current_job # nb_jobs + nb_active
    BY <1>8, <1>11
  <2>2. ~done /\ \A w \in AllWorkers : pc[w] # "last"
    BY <1>2, <2>1 DEF LastOne
  <2>3. \A w \in AllWorkers : pc'[w] # "last"
    BY <2>2, <1>1, <1>3, Shape
  <2> QED
    BY <2>2, <2>3, PoolFixed DEF LastOne
<1> QED
  BY <1>12, <1>13, <1>14, <1>16, <1>17, <1>18, <1>19, <1>20 DEF IInv, Batch

(* What every overshoot of the counter does to the types. *)
LEMMA OvershootTypes ==
  ASSUME IInv, NEW t \in Thread, NextJob(t), current_job >= nb_jobs
  PROVE  /\ Types' /\ jobs[t].n = nb_jobs /\ jobs[t].active = nb_active
         /\ current_job \in Nat /\ nb_jobs \in Nat /\ nb_active \in Nat
         /\ pc' = [pc EXCEPT ![t] =
                     AfterJobs(t, current_job = nb_jobs + nb_active - 1)]
         /\ Doing' = Doing
<1> USE DEF NextJob, Goto
<1>1. Types /\ Phases /\ Batch
  BY DEF IInv
<1>2. /\ pc[Main] \in BatchPcs /\ Counters /\ Locals /\ Shares /\ LastOne
  BY <1>1, Inside DEF Batch
<1>3. jobs[t].n = nb_jobs /\ jobs[t].active = nb_active
  BY <1>2 DEF Locals
<1>4. nb_jobs \in Nat /\ nb_active \in Nat /\ Threads \in Nat /\ MaxJobs \in Nat
      /\ nb_jobs <= MaxJobs /\ nb_active <= Threads
  BY <1>1, <1>2, PartySize, Shape
<1>5. current_job \in Nat
  BY <1>1, Shape, BoundsAssumption DEF Types
<1>6. pc' = [pc EXCEPT ![t] = AfterJobs(t, current_job = nb_jobs + nb_active - 1)]
  <2>1. ~(current_job < jobs[t].n)
    BY <1>3, <1>4, <1>5
  <2>2. pc' = [pc EXCEPT ![t] = AfterJobs(t, IsLast(current_job, jobs[t]))]
    BY <2>1
  <2>3. IsLast(current_job, jobs[t]) = (current_job = nb_jobs + nb_active - 1)
    BY <1>3 DEF IsLast
  <2> QED
    BY <2>2, <2>3
<1>7. current_job + 1 <= nb_jobs + nb_active
  BY Overshoot
<1>8. Types'
  <2>1. cur' \in [Thread -> Nat]
    BY <1>1, <1>5 DEF Types
  <2>2. current_job' \in 0..(MaxJobs + Threads)
    BY <1>4, <1>5, <1>7
  <2>3. /\ Threads' = Threads /\ AllWorkers' = AllWorkers /\ Thread' = Thread
    BY PoolFixed
  <2>4. /\ \A u \in Thread \ {t} : pc'[u] = pc[u]
        /\ t = Main => pc'[t] \in {"waitdone", "ready"}
        /\ t # Main => pc'[t] \in {"last", "idle"}
    BY <1>1, <1>6 DEF AfterJobs, Types
  <2>5. pc' \in [Thread -> CallerPcs \cup WorkerPcs]
    BY <1>1, <1>6 DEF AfterJobs, Types, CallerPcs, WorkerPcs
  <2>6. pc[t] \in {"read", "claim", "job", "next", "last"} /\ UNCHANGED <<pool, mutex>>
    OBVIOUS
  <2>7. /\ pc' \in [Thread' -> CallerPcs \cup WorkerPcs]
        /\ pc'[Main] \in CallerPcs /\ \A w \in AllWorkers' : pc'[w] \in WorkerPcs
        /\ mutex' = [w \in AllWorkers' |-> IF pc'[w] \in Holding THEN w ELSE NoOne']
    <3> HIDE DEF NextJob
    <3> QED
      BY <1>1, <2>4, <2>5, <2>6, RunTypes
  <2> QED
    BY <1>1, <2>1, <2>2, <2>3, <2>7 DEF Types
<1>9. Doing' = Doing
  <2>1. \A u \in Thread \ {t} : pc'[u] = pc[u] /\ cur'[u] = cur[u]
    BY <1>1 DEF Types
  <2>2. pc[t] # "job" /\ pc'[t] # "job"
    BY <1>1, <1>6 DEF AfterJobs, Types
  <2> QED
    BY <2>1, <2>2, PoolFixed DEF Doing
<1> QED
  BY <1>3, <1>4, <1>5, <1>6, <1>8, <1>9

(* A thread finds no job left and the caller stays in the batch. *)
LEMMA NextJobEnds ==
  ASSUME IInv, NEW t \in Thread, NextJob(t), current_job >= nb_jobs,
         t = Main => current_job # nb_jobs + nb_active - 1
  PROVE  IInv'
<1>1. Types /\ Phases /\ Batch
  BY DEF IInv
<1>2. pc[t] = "next"
  BY DEF NextJob
<1>3. /\ pc[Main] \in BatchPcs /\ Counters /\ Locals /\ Shares /\ LastOne
      /\ t = Main => alone
      /\ t # Main => t \in AllWorkers /\ t < i /\ ~wdone[t]
  BY <1>1, <1>2, Inside DEF Batch
<1>4. pc' = [pc EXCEPT ![t] = AfterJobs(t, current_job = nb_jobs + nb_active - 1)]
  BY OvershootTypes
<1>5. /\ \A u \in Thread \ {t} : pc'[u] = pc[u]
      /\ t = Main => pc'[t] = "waitdone"
      /\ t # Main => pc'[t] \in {"last", "idle"}
      /\ pc'[t] = "last" => current_job = nb_jobs + nb_active - 1
  BY <1>1, <1>4 DEF AfterJobs, Types
<1>6. /\ Types' /\ current_job \in Nat /\ nb_jobs \in Nat /\ nb_active \in Nat
      /\ Doing' = Doing
  BY OvershootTypes
<1>7. /\ t \notin Over /\ IsFiniteSet(Over)
      /\ Cardinality(Over \cup {t}) = Cardinality(Over) + 1
      /\ Cardinality(Over) = current_job - nb_jobs
      /\ ~done /\ \A w \in AllWorkers : pc[w] # "last"
  BY <1>2, Overshoot
<1>8. /\ current_job' = current_job + 1
      /\ UNCHANGED <<pool, nb_threads, nb_active, nb_jobs, first_job, done, finished, wdone, mutex,
                     created, i, alone, jobs, first, ended, batches>>
      /\ \A u \in Thread \ {t} : cur'[u] = cur[u]
  BY <1>1 DEF NextJob, Types
<1>9. Phases'
  <2>1. UNCHANGED <<pool, nb_threads, nb_active, nb_jobs, finished, wdone, created, i, alone>>
    BY <1>8
  <2> QED
    BY <1>1, <1>2, <1>5, <2>1, RunPhases
<1>10. Over' = Over \cup {t}
  <2>1. Thread' = Thread
    BY <1>8, PoolFixed
  <2>2. t \in Over'
    BY <1>3, <1>5, <1>8, <2>1 DEF Over
  <2>3. \A u \in Thread \ {t} : u \in Over' <=> u \in Over
    BY <1>5, <1>8, <2>1 DEF Over
  <2>4. Over' \subseteq Thread /\ Over \subseteq Thread
    BY <2>1 DEF Over
  <2> QED
    BY <2>2, <2>3, <2>4
<1>11. Claimed' = Claimed
  <2>1. Claimed' = Over' \cup {u \in Thread : pc'[u] \in {"job", "next"}}
    BY <1>8, PoolFixed DEF Claimed
  <2>2. {u \in Thread : pc[u] \in {"job", "next"}}
          = {t} \cup {u \in Thread : pc'[u] \in {"job", "next"}}
    BY <1>2, <1>5
  <2> QED
    BY <2>1, <2>2, <1>10 DEF Claimed
<1>12. Begun' = Begun
  BY <1>6, <1>8 DEF Begun
<1>13. Counters'
  BY <1>3, <1>6, <1>7, <1>8, <1>10, <1>11 DEF Counters
<1>14. Shares'
  BY <1>3, <1>6, <1>8, <1>12 DEF Shares
<1>15. Locals'
  <2>1. \A u \in Thread : pc'[u] \in {"claim", "job", "next"} => u # t /\ pc'[u] = pc[u]
    BY <1>5
  <2>2. \A u \in Thread : pc'[u] \in {"claim", "job", "next"} =>
                            jobs'[u] = [n |-> nb_jobs', active |-> nb_active']
    BY <1>3, <1>8, <2>1 DEF Locals
  <2>3. \A u \in Thread : pc'[u] \in {"job", "next"} =>
          /\ first'[u] < first_job'
          /\ \A v \in Thread \ {u} : pc'[v] \in {"job", "next"} => first'[v] # first'[u]
    BY <1>3, <1>8, <2>1 DEF Locals
  <2>4. \A u \in Thread : pc'[u] = "job" =>
          /\ cur'[u] \in Begun' /\ cur'[u] \notin ended'
          /\ \A v \in Thread \ {u} : pc'[v] = "job" => cur'[v] # cur'[u]
    BY <1>3, <1>8, <1>12, <2>1 DEF Locals
  <2>5. Thread' = Thread
    BY <1>8, PoolFixed
  <2> QED
    BY <2>2, <2>3, <2>4, <2>5 DEF Locals
<1>16. LastOne'
  <2>1. AllWorkers' = AllWorkers
    BY <1>8, PoolFixed
  <2>2. \A w \in AllWorkers : pc'[w] = "last" =>
          w = t /\ current_job' = nb_jobs' + nb_active'
    <3>1. \A w \in AllWorkers : w \in Thread
      BY <1>1, Shape
    <3>2. pc'[t] = "last" => current_job + 1 = nb_jobs + nb_active
      BY <1>5, <1>6
    <3> QED
      BY <3>1, <3>2, <1>5, <1>7, <1>8
  <2> QED
    BY <1>7, <1>8, <2>1, <2>2 DEF LastOne
<1> QED
  BY <1>6, <1>9, <1>13, <1>14, <1>15, <1>16 DEF IInv, Batch

(* The caller finds no job left, last of all: execute returns. *)
LEMMA NextJobReady ==
  ASSUME IInv, NextJob(Main), current_job = nb_jobs + nb_active - 1
  PROVE  IInv' /\ pc'[Main] = "ready" /\ Begun = 0..(nb_jobs - 1) /\ Doing = {}
<1>1. Types /\ Phases /\ Batch
  BY DEF IInv
<1>2. pc[Main] = "next" /\ Main \in Thread
  BY <1>1, Shape DEF NextJob
<1>3. /\ pc[Main] \in BatchPcs /\ Counters /\ Locals /\ Shares /\ LastOne /\ alone
  BY <1>1, <1>2, Inside DEF Batch
<1>4. nb_jobs \in Nat /\ nb_active \in Nat /\ nb_active >= 1 /\ current_job \in Nat
  <2>1. current_job \in Nat
    BY <1>1, Shape, BoundsAssumption DEF Types
  <2> QED
    BY <2>1, <1>1, <1>3, PartySize, Shape
<1>5. current_job >= nb_jobs
  BY <1>4
<1>6. Types' /\ pc' = [pc EXCEPT ![Main] = "ready"]
  BY <1>2, <1>5, OvershootTypes DEF AfterJobs
<1>7. /\ Over \cup {Main} \subseteq Party /\ Over \cup {Main} = Party
      /\ ~done /\ \A w \in AllWorkers : pc[w] # "last"
  <2>1. current_job + 1 = nb_jobs + nb_active
    BY <1>4
  <2> QED
    BY <1>2, <1>5, <2>1, Overshoot
<1>8. \A w \in AllWorkers : Asleep(w)
  BY <1>1, <1>3, <1>7, AllAsleep
<1>9. pc'[Main] = "ready" /\ \A w \in AllWorkers : pc'[w] = pc[w]
  BY <1>1, <1>2, <1>6, Shape DEF Types
<1>10. UNCHANGED <<pool, nb_threads, nb_active, nb_jobs, first_job, done, finished, wdone, mutex,
                   created, i, alone, jobs, first, ended, batches>>
  BY DEF NextJob
<1>11. AllWorkers' = AllWorkers /\ Threads' = Threads
  BY <1>10, PoolFixed
<1>12. \A w \in AllWorkers : Asleep(w)'
  BY <1>8, <1>9, <1>10, Kept
<1>13. Resting'
  BY <1>1, <1>3, <1>7, <1>10, <1>11, <1>12 DEF Phases, Working, Whole, Resting
<1>14. Phases'
  BY <1>9, <1>13 DEF Phases, Creating, Starting, Working, Ending, BatchPcs
<1>15. Batch'
  BY <1>9, NoBatch DEF BatchPcs
<1>16. Doing = {}
  <2>1. \A u \in Thread : pc[u] # "job"
    BY <1>2, <1>8 DEF Thread, Asleep
  <2> QED
    BY <2>1 DEF Doing
<1>17. Begun = 0..(nb_jobs - 1)
  <2>1. Cardinality(Claimed) = nb_active
    <3>1. Claimed = Party
      <4>1. Over \subseteq Claimed /\ Claimed \subseteq Party /\ Main \in Claimed
        BY <1>1, <1>2, <1>3, InParty DEF Claimed
      <4> QED
        BY <4>1, <1>7
    <3> QED
      BY <3>1, <1>1, <1>3, PartySize
  <2>2. first_job = nb_active
    BY <2>1, <1>3 DEF Counters
  <2> QED
    BY <2>2, <1>4, <1>5 DEF Begun
<1> QED
  BY <1>6, <1>9, <1>14, <1>15, <1>16, <1>17 DEF IInv

LEMMA NextJobInv ==
  ASSUME IInv, NEW t \in Thread, NextJob(t)
  PROVE  IInv'
<1>1. Types /\ Phases /\ Batch
  BY DEF IInv
<1>2. pc[t] = "next"
  BY DEF NextJob
<1>3. pc[Main] \in BatchPcs /\ Locals
  BY <1>1, <1>2, Inside DEF Batch
<1>4. jobs[t].n = nb_jobs
  BY <1>2, <1>3 DEF Locals
<1>5. nb_jobs \in Nat
  BY <1>1, <1>3, PartySize
<1>6. current_job \in Nat
  BY <1>1, Shape, BoundsAssumption DEF Types
<1>7. CASE current_job < nb_jobs
  BY <1>4, <1>7, NextJobTakes
<1>8. CASE current_job >= nb_jobs
  <2>1. CASE t = Main /\ current_job = nb_jobs + nb_active - 1
    BY <2>1, NextJobReady
  <2>2. CASE ~(t = Main /\ current_job = nb_jobs + nb_active - 1)
    BY <1>8, <2>2, NextJobEnds
  <2> QED
    BY <2>1, <2>2
<1> QED
  BY <1>5, <1>6, <1>7, <1>8

-----------------------------------------------------------------------------
(* thread_worker *)

(* What a step of worker w alone keeps of the types. *)
LEMMA WorkerTypes ==
  ASSUME Types, NEW w \in AllWorkers, NEW l \in WorkerPcs, pc' = [pc EXCEPT ![w] = l],
         wdone' = [wdone EXCEPT ![w] = wdone'[w]], wdone'[w] \in BOOLEAN,
         mutex' = [mutex EXCEPT ![w] = IF l \in Holding THEN w ELSE NoOne],
         done' \in BOOLEAN,
         UNCHANGED <<pool, nb_threads, nb_active, nb_jobs, first_job, current_job, finished, i,
                     alone, jobs, first, cur, ended>>
  PROVE  /\ Types' /\ pc'[w] = l /\ pc'[Main] = pc[Main]
         /\ \A t \in Thread \ {w} : pc'[t] = pc[t]
         /\ \A u \in AllWorkers \ {w} : pc'[u] = pc[u] /\ wdone'[u] = wdone[u]
<1>1. /\ Threads' = Threads /\ AllWorkers' = AllWorkers /\ Thread' = Thread /\ NoOne' = NoOne
  BY PoolFixed
<1>2. w \in Thread /\ w # Main /\ Main \in Thread /\ AllWorkers \subseteq Thread
  BY Shape
<1>3. pc'[w] = l /\ \A u \in Thread \ {w} : pc'[u] = pc[u]
  BY <1>2 DEF Types
<1>4. pc' \in [Thread -> CallerPcs \cup WorkerPcs]
  BY DEF Types
<1>5. pc'[Main] \in CallerPcs /\ \A u \in AllWorkers : pc'[u] \in WorkerPcs
  BY <1>2, <1>3 DEF Types
<1>6. mutex' = [u \in AllWorkers |-> IF pc'[u] \in Holding THEN u ELSE NoOne]
  BY <1>2, <1>3 DEF Types
<1>7. wdone' \in [AllWorkers -> BOOLEAN] /\ \A u \in AllWorkers \ {w} : wdone'[u] = wdone[u]
  BY DEF Types
<1>8. Types'
  BY <1>1, <1>4, <1>5, <1>6, <1>7 DEF Types
<1> QED
  BY <1>2, <1>3, <1>7, <1>8

LEMMA StartInv ==
  ASSUME IInv, NEW w \in AllWorkers, Start(w)
  PROVE  IInv'
<1> USE DEF Start, Goto, shared
<1>1. Types /\ Phases /\ Batch
  BY DEF IInv
<1>2. wdone'[w] = TRUE /\ wdone' = [wdone EXCEPT ![w] = wdone'[w]]
  BY <1>1 DEF Types
<1>3. mutex' = [mutex EXCEPT ![w] = IF "wait" \in Holding THEN w ELSE NoOne]
  BY <1>1 DEF Types, Holding
<1>4. done' \in BOOLEAN /\ "wait" \in WorkerPcs
  BY <1>1 DEF Types, WorkerPcs
<1>5. /\ Types' /\ pc'[w] = "wait" /\ pc'[Main] = pc[Main]
      /\ \A u \in AllWorkers \ {w} : pc'[u] = pc[u] /\ wdone'[u] = wdone[u]
  BY <1>1, <1>2, <1>3, <1>4, WorkerTypes
<1>6. Asleep(w)' /\ ~Asleep(w) /\ ~Active(w) /\ ~Unborn(w) /\ ~Dying(w)
  BY <1>2, <1>5 DEF Asleep, Active, Unborn, Dying
<1>7. Phases'
  BY <1>1, <1>5, <1>6, WorkerPhases
<1>8. pc[Main] \notin BatchPcs
  BY <1>1, <1>6 DEF Phases, Working
<1> QED
  BY <1>5, <1>7, <1>8, NoBatch DEF IInv

(* A step of worker w that is outside run_jobs before and after. *)
LEMMA WorkerBatch ==
  ASSUME Types, Batch, NEW w \in AllWorkers,
         UNCHANGED <<pool, nb_active, nb_jobs, first_job, current_job, done, jobs, first, cur,
                     ended>>,
         Over' = Over, pc'[Main] = pc[Main], \A t \in Thread \ {w} : pc'[t] = pc[t],
         pc[w] \notin {"claim", "job", "next", "last"},
         pc'[w] \notin {"claim", "job", "next", "last"}
  PROVE  Batch'
<1> SUFFICES ASSUME pc[Main] \in BatchPcs
             PROVE  Counters' /\ Locals' /\ Shares' /\ LastOne'
  BY DEF Batch
<1>1. Counters /\ Locals /\ Shares /\ LastOne
  BY DEF Batch
<1>2. \A t \in Thread : pc[t] \in {"job", "next"} \/ pc'[t] \in {"job", "next"} =>
                          pc'[t] = pc[t]
  OBVIOUS
<1>3. \A t \in Thread : pc'[t] \in {"claim", "job", "next"} =>
                          jobs'[t] = [n |-> nb_jobs, active |-> nb_active]
  BY <1>1 DEF Locals
<1>4. Counters' /\ Locals' /\ Shares'
  BY <1>1, <1>2, <1>3, Frame
<1>5. \A u \in AllWorkers : pc'[u] = "last" <=> pc[u] = "last"
  BY Shape
<1>6. LastOne'
  BY <1>1, <1>5, LastFrame
<1> QED
  BY <1>4, <1>6

LEMMA SpuriousInv ==
  ASSUME IInv, NEW w \in AllWorkers, Spurious(w)
  PROVE  IInv'
<1> USE DEF Spurious, Goto, shared
<1>1. Types /\ Phases /\ Batch
  BY DEF IInv
<1>2. wdone'[w] \in BOOLEAN /\ wdone' = [wdone EXCEPT ![w] = wdone'[w]]
  BY <1>1 DEF Types
<1>3. mutex' = [mutex EXCEPT ![w] = IF "woken" \in Holding THEN w ELSE NoOne]
  BY <1>1 DEF Types, Holding
<1>4. done' \in BOOLEAN /\ "woken" \in WorkerPcs
  BY <1>1 DEF Types, WorkerPcs
<1>5. /\ Types' /\ pc'[w] = "woken" /\ pc'[Main] = pc[Main]
      /\ \A t \in Thread \ {w} : pc'[t] = pc[t]
      /\ \A u \in AllWorkers \ {w} : pc'[u] = pc[u] /\ wdone'[u] = wdone[u]
  BY <1>1, <1>2, <1>3, <1>4, WorkerTypes
<1>6. /\ Asleep(w) => Asleep(w)'
      /\ ~Active(w) /\ ~Unborn(w) /\ ~Dying(w)
  BY <1>5 DEF Asleep, Active, Unborn, Dying
<1>7. Phases'
  BY <1>1, <1>5, <1>6, WorkerPhases
<1>8. Over' = Over
  BY <1>5, PoolFixed DEF Over
<1>9. Batch'
  BY <1>1, <1>5, <1>8, WorkerBatch
<1> QED
  BY <1>5, <1>7, <1>9 DEF IInv

LEMMA WokenInv ==
  ASSUME IInv, NEW w \in AllWorkers, Woken(w)
  PROVE  IInv'
<1> USE DEF Woken, Goto, shared
<1>1. Types /\ Phases /\ Batch
  BY DEF IInv
<1>2. wdone'[w] \in BOOLEAN /\ wdone' = [wdone EXCEPT ![w] = wdone'[w]]
  BY <1>1 DEF Types
<1>3. WokenTo(w) \in {"wait", "exit", "read"}
  BY DEF WokenTo
<1>4. mutex' = [mutex EXCEPT ![w] = IF WokenTo(w) \in Holding THEN w ELSE NoOne]
  BY <1>3 DEF Holding
<1>5. done' \in BOOLEAN /\ WokenTo(w) \in WorkerPcs
  BY <1>1, <1>3 DEF Types, WorkerPcs
<1>6. /\ Types' /\ pc'[w] = WokenTo(w) /\ pc'[Main] = pc[Main]
      /\ \A t \in Thread \ {w} : pc'[t] = pc[t]
      /\ \A u \in AllWorkers \ {w} : pc'[u] = pc[u] /\ wdone'[u] = wdone[u]
  <2> HIDE DEF Woken
  <2>1. UNCHANGED <<pool, nb_threads, nb_active, nb_jobs, first_job, current_job, finished, i,
                    alone, jobs, first, cur, ended>>
    BY DEF Woken
  <2>2. pc' = [pc EXCEPT ![w] = WokenTo(w)]
    BY DEF Woken
  <2> QED
    BY <1>1, <1>2, <1>4, <1>5, <2>1, <2>2, WorkerTypes
<1>7. pc[Main] \in BatchPcs => ~finished
  BY <1>1 DEF Phases, Working, Whole
<1>8. /\ Asleep(w) => Asleep(w)'
      /\ Active(w) /\ pc[Main] \in BatchPcs => Active(w)'
      /\ Dying(w) /\ finished => Dying(w)'
      /\ ~Unborn(w)
  BY <1>6, <1>7 DEF Asleep, Active, Unborn, Dying, WokenTo
<1>9. Phases'
  BY <1>1, <1>6, <1>8, WorkerPhases
<1>10. Over' = Over
  <2>1. pc'[w] \notin {"last", "idle"}
    BY <1>3, <1>6
  <2>2. \A t \in Thread : t = Main \/ t \in AllWorkers
    BY DEF Thread
  <2> QED
    BY <1>6, <2>1, <2>2, PoolFixed DEF Over
<1>11. Batch'
  BY <1>1, <1>3, <1>6, <1>10, WorkerBatch
<1> QED
  BY <1>6, <1>9, <1>11 DEF IInv

LEMMA LastInv ==
  ASSUME IInv, NEW w \in AllWorkers, Last(w)
  PROVE  IInv'
<1> USE DEF Last, Goto
<1>1. Types /\ Phases /\ Batch
  BY DEF IInv
<1>2. wdone'[w] \in BOOLEAN /\ wdone' = [wdone EXCEPT ![w] = wdone'[w]]
  BY <1>1 DEF Types
<1>3. mutex' = [mutex EXCEPT ![w] = IF "idle" \in Holding THEN w ELSE NoOne]
  BY <1>1 DEF Types, Holding
<1>4. done' \in BOOLEAN /\ "idle" \in WorkerPcs
  BY DEF WorkerPcs
<1>5. /\ Types' /\ pc'[w] = "idle" /\ pc'[Main] = pc[Main]
      /\ \A t \in Thread \ {w} : pc'[t] = pc[t]
  BY <1>1, <1>2, <1>3, <1>4, WorkerTypes
<1>6. w \in Thread /\ w # Main
  BY <1>1, Shape
<1>7. pc[Main] \in BatchPcs /\ Counters /\ Locals /\ Shares /\ LastOne
  BY <1>1, <1>6, Inside DEF Batch
<1>8. Phases'
  BY <1>1, <1>5, <1>6, RunPhases
<1>9. Over' = Over
  BY <1>5, PoolFixed DEF Over
<1>10. Counters' /\ Locals' /\ Shares'
  <2>1. \A t \in Thread : pc[t] \in {"job", "next"} \/ pc'[t] \in {"job", "next"} =>
                            pc'[t] = pc[t]
    BY <1>5
  <2>2. \A t \in Thread : pc'[t] \in {"claim", "job", "next"} =>
                            jobs'[t] = [n |-> nb_jobs, active |-> nb_active]
    BY <1>5, <1>7 DEF Locals
  <2> QED
    BY <1>1, <1>7, <1>9, <2>1, <2>2, Frame
<1>11. LastOne'
  <2>1. AllWorkers' = AllWorkers /\ AllWorkers \subseteq Thread
    BY PoolFixed, Shape, <1>1
  <2>2. /\ current_job = nb_jobs + nb_active
        /\ \A u \in AllWorkers \ {w} : pc[u] # "last"
    BY <1>7 DEF LastOne
  <2>3. \A u \in AllWorkers : pc'[u] # "last"
    BY <1>5, <2>1, <2>2
  <2> QED
    BY <2>1, <2>2, <2>3 DEF LastOne
<1> QED
  BY <1>5, <1>8, <1>10, <1>11 DEF IInv, Batch

LEMMA IdleInv ==
  ASSUME IInv, NEW w \in AllWorkers, Idle(w)
  PROVE  IInv'
<1> USE DEF Idle, Goto, shared
<1>1. Types /\ Phases /\ Batch
  BY DEF IInv
<1>2. wdone'[w] = TRUE /\ wdone' = [wdone EXCEPT ![w] = wdone'[w]]
  BY <1>1 DEF Types
<1>3. mutex' = [mutex EXCEPT ![w] = IF "wait" \in Holding THEN w ELSE NoOne]
  BY DEF Holding
<1>4. done' \in BOOLEAN /\ "wait" \in WorkerPcs
  BY <1>1 DEF Types, WorkerPcs
<1>5. /\ Types' /\ pc'[w] = "wait" /\ pc'[Main] = pc[Main]
      /\ \A t \in Thread \ {w} : pc'[t] = pc[t]
      /\ \A u \in AllWorkers \ {w} : pc'[u] = pc[u] /\ wdone'[u] = wdone[u]
  BY <1>1, <1>2, <1>3, <1>4, WorkerTypes
<1>6. Asleep(w)' /\ ~Active(w) /\ ~Unborn(w) /\ ~Dying(w)
  BY <1>2, <1>5 DEF Asleep, Active, Unborn, Dying
<1>7. Phases'
  BY <1>1, <1>5, <1>6, WorkerPhases
<1>8. Over' = Over
  <2>1. \A t \in Thread : t = Main \/ t \in AllWorkers
    BY DEF Thread
  <2>2. Thread' = Thread /\ w # Main
    BY PoolFixed, Shape, <1>1
  <2> QED
    BY <1>2, <1>5, <2>1, <2>2 DEF Over
<1>9. Batch'
  BY <1>1, <1>5, <1>8, WorkerBatch
<1> QED
  BY <1>5, <1>7, <1>9 DEF IInv

-----------------------------------------------------------------------------
(* avpriv_slicethread_create *)

(* What a step of the caller alone keeps of the types and of the workers. *)
LEMMA CallerTypes ==
  ASSUME Types, NEW l \in CallerPcs, pc' = [pc EXCEPT ![Main] = l],
         UNCHANGED <<pool, wdone, mutex>>
  PROVE  /\ pc' \in [Thread' -> CallerPcs \cup WorkerPcs]
         /\ pc'[Main] = l /\ \A w \in AllWorkers' : pc'[w] \in WorkerPcs
         /\ mutex' = [w \in AllWorkers' |-> IF pc'[w] \in Holding THEN w ELSE NoOne']
         /\ Threads' = Threads /\ AllWorkers' = AllWorkers /\ Thread' = Thread /\ Nb' = Nb
         /\ \A w \in AllWorkers : /\ pc'[w] = pc[w] /\ wdone'[w] = wdone[w]
                                  /\ Asleep(w)' <=> Asleep(w)
                                  /\ Active(w)' <=> Active(w)
                                  /\ Unborn(w)' <=> Unborn(w)
                                  /\ Dying(w)' <=> Dying(w)
<1>1. /\ Threads' = Threads /\ AllWorkers' = AllWorkers /\ Thread' = Thread /\ NoOne' = NoOne
      /\ Nb' = Nb
  BY PoolFixed
<1>2. Main \in Thread /\ AllWorkers \subseteq Thread \ {Main}
  BY Shape
<1>3. pc' \in [Thread -> CallerPcs \cup WorkerPcs] /\ pc'[Main] = l
  BY <1>2 DEF Types
<1>4. \A w \in AllWorkers : pc'[w] = pc[w] /\ wdone'[w] = wdone[w]
  BY <1>2 DEF Types
<1>5. \A w \in AllWorkers : pc'[w] \in WorkerPcs
  BY <1>4 DEF Types
<1>6. mutex' = [w \in AllWorkers |-> IF pc'[w] \in Holding THEN w ELSE NoOne]
  BY <1>4 DEF Types
<1>7. \A w \in AllWorkers : /\ Asleep(w)' <=> Asleep(w)
                            /\ Active(w)' <=> Active(w)
                            /\ Unborn(w)' <=> Unborn(w)
                            /\ Dying(w)' <=> Dying(w)
  BY <1>4, Kept
<1> QED
  BY <1>1, <1>3, <1>4, <1>5, <1>6, <1>7

LEMMA CreateInv ==
  ASSUME IInv, Create
  PROVE  IInv'
<1> USE DEF Create, shared
<1>1. Types /\ Phases /\ Batch
  BY DEF IInv
<1>2. /\ ~finished /\ ~done /\ i <= Nb + 1 /\ created = 1..(i - 1) /\ nb_threads = Threads
      /\ \A w \in AllWorkers : IF w < i THEN Asleep(w) ELSE Unborn(w)
  BY <1>1 DEF Phases, Creating
<1>3. /\ Threads' = Threads /\ AllWorkers' = AllWorkers /\ Thread' = Thread /\ NoOne' = NoOne
      /\ Nb' = Nb
  BY PoolFixed
<1>4. /\ Nb \in Nat /\ AllWorkers = 1..Nb /\ Main \in Thread /\ Main \notin AllWorkers
      /\ AllWorkers \subseteq Thread
  BY <1>1, Shape
<1>5. Unborn(i)
  BY <1>2, <1>4
<1>6. pc'[Main] = "started" /\ pc'[i] = "start" /\ \A w \in AllWorkers \ {i} : pc'[w] = pc[w]
  BY <1>1, <1>4 DEF Types
<1>7. Types'
  <2>1. pc' \in [Thread -> CallerPcs \cup WorkerPcs]
    BY <1>1 DEF Types, CallerPcs, WorkerPcs
  <2>2. pc'[Main] \in CallerPcs /\ \A w \in AllWorkers : pc'[w] \in WorkerPcs
    BY <1>1, <1>6 DEF Types, CallerPcs, WorkerPcs
  <2>3. \A w \in AllWorkers : pc'[w] \in Holding <=> pc[w] \in Holding
    BY <1>5, <1>6 DEF Unborn, Holding
  <2>4. mutex' = [w \in AllWorkers |-> IF pc'[w] \in Holding THEN w ELSE NoOne]
    BY <1>1, <2>3 DEF Types
  <2> QED
    BY <1>1, <1>3, <2>1, <2>2, <2>4 DEF Types
<1>8. Starting'
  <2>1. \A w \in AllWorkers \ {i} : /\ Asleep(w)' <=> Asleep(w)
                                    /\ Unborn(w)' <=> Unborn(w)
    BY <1>6, Kept
  <2>2. created' = 1..i /\ i <= Nb
    BY <1>2, <1>4
  <2>3. \A w \in AllWorkers : /\ w < i => Asleep(w)'
                              /\ w > i => Unborn(w)'
    BY <1>2, <1>4, <2>1
  <2>4. pc'[i] = "start" /\ ~wdone'[i]
    BY <1>5, <1>6 DEF Unborn
  <2> QED
    BY <1>2, <1>3, <2>2, <2>3, <2>4 DEF Starting
<1>9. Phases'
  BY <1>6, <1>8 DEF Phases, Creating, Resting, Working, Ending, BatchPcs
<1> QED
  BY <1>6, <1>7, <1>9, NoBatch DEF IInv, BatchPcs

LEMMA CreateFailsInv ==
  ASSUME IInv, CreateFails
  PROVE  IInv'
<1> USE DEF CreateFails, Goto
<1>1. Types /\ Phases /\ Batch
  BY DEF IInv
<1>2. /\ ~finished /\ ~done /\ i <= Nb + 1 /\ created = 1..(i - 1) /\ nb_threads = Threads
      /\ \A w \in AllWorkers : IF w < i THEN Asleep(w) ELSE Unborn(w)
  BY <1>1 DEF Phases, Creating
<1>3. "free" \in CallerPcs
  BY DEF CallerPcs
<1>4. /\ pc' \in [Thread' -> CallerPcs \cup WorkerPcs]
      /\ pc'[Main] = "free" /\ \A w \in AllWorkers' : pc'[w] \in WorkerPcs
      /\ mutex' = [w \in AllWorkers' |-> IF pc'[w] \in Holding THEN w ELSE NoOne']
      /\ Threads' = Threads /\ AllWorkers' = AllWorkers /\ Thread' = Thread /\ Nb' = Nb
      /\ \A w \in AllWorkers : (Asleep(w)' <=> Asleep(w)) /\ (Unborn(w)' <=> Unborn(w))
  BY <1>1, <1>3, CallerTypes
<1>5. i \in 1..Nb /\ Nb \in Nat /\ Threads \in Nat /\ Nb \in {Threads, Threads - 1}
      /\ pool.main_func \in BOOLEAN
  BY <1>1, Shape
<1>6. nb_threads' \in 0..Threads /\ Workers' = i - 1
  BY <1>5 DEF Workers
<1>7. Types'
  BY <1>1, <1>3, <1>4, <1>6 DEF Types
<1>8. Creating'
  BY <1>2, <1>4, <1>6 DEF Creating
<1>9. Phases'
  BY <1>4, <1>8 DEF Phases, Starting, Resting, Working, Ending, BatchPcs
<1> QED
  BY <1>4, <1>7, <1>9, NoBatch DEF IInv, BatchPcs

LEMMA StartedInv ==
  ASSUME IInv, Started
  PROVE  IInv'
<1> USE DEF Started, Goto, shared
<1>1. Types /\ Phases /\ Batch
  BY DEF IInv
<1>2. /\ ~finished /\ ~done /\ i <= Nb /\ created = 1..i /\ nb_threads = Threads
      /\ \A w \in AllWorkers : /\ w < i => Asleep(w)
                               /\ w > i => Unborn(w)
      /\ Asleep(i)
  BY <1>1 DEF Phases, Starting
<1>3. "create" \in CallerPcs
  BY DEF CallerPcs
<1>4. /\ pc' \in [Thread' -> CallerPcs \cup WorkerPcs]
      /\ pc'[Main] = "create" /\ \A w \in AllWorkers' : pc'[w] \in WorkerPcs
      /\ mutex' = [w \in AllWorkers' |-> IF pc'[w] \in Holding THEN w ELSE NoOne']
      /\ Threads' = Threads /\ AllWorkers' = AllWorkers /\ Thread' = Thread /\ Nb' = Nb
      /\ \A w \in AllWorkers : (Asleep(w)' <=> Asleep(w)) /\ (Unborn(w)' <=> Unborn(w))
  BY <1>1, <1>3, CallerTypes
<1>5. i \in Nat \ {0}
  BY <1>1 DEF Types
<1>6. Types'
  BY <1>1, <1>3, <1>4, <1>5 DEF Types
<1>7. Nb \in Nat /\ AllWorkers = 1..Nb
  BY <1>1, Shape
<1>8. Creating'
  <2>1. \A w \in AllWorkers : IF w < i' THEN Asleep(w)' ELSE Unborn(w)'
    BY <1>2, <1>4, <1>5, <1>7
  <2>2. created' = 1..(i' - 1) /\ i' <= Nb' + 1
    BY <1>2, <1>4, <1>5, <1>7
  <2> QED
    BY <1>2, <1>4, <2>1, <2>2 DEF Creating
<1>9. Phases'
  BY <1>4, <1>8 DEF Phases, Starting, Resting, Working, Ending, BatchPcs
<1> QED
  BY <1>4, <1>6, <1>9, NoBatch DEF IInv, BatchPcs

LEMMA CreateDoneInv ==
  ASSUME IInv, CreateDone
  PROVE  IInv'
<1> USE DEF CreateDone, Goto, shared
<1>1. Types /\ Phases /\ Batch
  BY DEF IInv
<1>2. /\ ~finished /\ ~done /\ i <= Nb + 1 /\ created = 1..(i - 1) /\ nb_threads = Threads
      /\ \A w \in AllWorkers : IF w < i THEN Asleep(w) ELSE Unborn(w)
  BY <1>1 DEF Phases, Creating
<1>3. "ready" \in CallerPcs
  BY DEF CallerPcs
<1>4. /\ pc' \in [Thread' -> CallerPcs \cup WorkerPcs]
      /\ pc'[Main] = "ready" /\ \A w \in AllWorkers' : pc'[w] \in WorkerPcs
      /\ mutex' = [w \in AllWorkers' |-> IF pc'[w] \in Holding THEN w ELSE NoOne']
      /\ Threads' = Threads /\ AllWorkers' = AllWorkers /\ Thread' = Thread /\ Nb' = Nb
      /\ \A w \in AllWorkers : (Asleep(w)' <=> Asleep(w)) /\ (Unborn(w)' <=> Unborn(w))
  BY <1>1, <1>3, CallerTypes
<1>5. Types'
  BY <1>1, <1>3, <1>4 DEF Types
<1>6. i \in Nat \ {0}
  BY <1>1 DEF Types
<1>7. Nb \in Nat /\ AllWorkers = 1..Nb
  BY <1>1, Shape
<1>8. i = Nb + 1
  BY <1>2, <1>6, <1>7
<1>9. Resting'
  <2>1. \A w \in AllWorkers : Asleep(w)'
    BY <1>2, <1>4, <1>7, <1>8
  <2>2. created' = AllWorkers
    BY <1>2, <1>7, <1>8
  <2> QED
    BY <1>2, <1>4, <2>1, <2>2 DEF Resting, Whole
<1>10. Phases'
  BY <1>4, <1>9 DEF Phases, Creating, Starting, Working, Ending, BatchPcs
<1> QED
  BY <1>4, <1>5, <1>10, NoBatch DEF IInv, BatchPcs

-----------------------------------------------------------------------------
(* avpriv_slicethread_execute *)

LEMMA ExecuteInv ==
  ASSUME IInv, Execute
  PROVE  IInv'
<1>1. Types /\ Phases /\ Batch
  BY DEF IInv
<1>2. PICK n \in 1..MaxJobs, m \in {pool.main_func, FALSE} :
        /\ pc[Main] = "ready" /\ nb_jobs' = n /\ nb_active' = Min2(n, nb_threads)
        /\ first_job' = 0 /\ alone' = ~m /\ ended' = {} /\ pc' = [pc EXCEPT ![Main] = "counter"]
        /\ UNCHANGED <<pool, nb_threads, current_job, done, finished, wdone, mutex, created, i,
                       jobs, first, cur>>
  BY DEF Execute, Goto
<1>3. Whole /\ ~done /\ \A w \in AllWorkers : Asleep(w)
  BY <1>1, <1>2 DEF Phases, Resting
<1>4. "counter" \in CallerPcs
  BY DEF CallerPcs
<1>5. /\ pc' \in [Thread' -> CallerPcs \cup WorkerPcs]
      /\ pc'[Main] = "counter" /\ \A w \in AllWorkers' : pc'[w] \in WorkerPcs
      /\ mutex' = [w \in AllWorkers' |-> IF pc'[w] \in Holding THEN w ELSE NoOne']
      /\ Threads' = Threads /\ AllWorkers' = AllWorkers /\ Thread' = Thread
      /\ \A w \in AllWorkers : Asleep(w)' <=> Asleep(w)
  BY <1>1, <1>2, <1>4, CallerTypes
<1>6. Threads \in Nat /\ pool.main_func \in BOOLEAN /\ MaxJobs \in Nat
  BY <1>1, Shape, BoundsAssumption
<1>7. Types'
  <2>1. nb_active' \in 0..Threads
    BY <1>2, <1>3, <1>6 DEF Min2, Whole
  <2>2. alone' \in BOOLEAN /\ nb_jobs' \in 0..MaxJobs /\ first_job' \in 0..Threads
        /\ ended' \subseteq 0..(MaxJobs - 1)
    BY <1>2, <1>6
  <2> QED
    BY <1>1, <1>2, <1>4, <1>5, <2>1, <2>2 DEF Types
<1>8. Resting'
  BY <1>2, <1>3, <1>5 DEF Resting, Whole
<1>9. SetUp'
  <2>1. nb_jobs' > 0
    BY <1>2, <1>6
  <2>2. nb_active' = Min2(nb_jobs, nb_threads)'
    BY <1>2 DEF Min2
  <2>3. ~alone' => pool'.main_func
    BY <1>2
  <2> QED
    BY <2>1, <2>2, <2>3 DEF SetUp
<1>10. Phases'
  BY <1>2, <1>5, <1>8, <1>9 DEF Phases, Creating, Starting, Working, Ending, BatchPcs
<1> QED
  BY <1>5, <1>7, <1>10, NoBatch DEF IInv, BatchPcs

LEMMA CounterInv ==
  ASSUME IInv, Counter
  PROVE  IInv'
<1> USE DEF Counter, Goto, FirstShared
<1>1. Types /\ Phases /\ Batch
  BY DEF IInv
<1>2. Whole /\ ~done /\ (\A w \in AllWorkers : Asleep(w)) /\ SetUp /\ first_job = 0 /\ ended = {}
  BY <1>1 DEF Phases, Resting
<1>3. "wake" \in CallerPcs
  BY DEF CallerPcs
<1>4. /\ pc' \in [Thread' -> CallerPcs \cup WorkerPcs]
      /\ pc'[Main] = "wake" /\ \A w \in AllWorkers' : pc'[w] \in WorkerPcs
      /\ mutex' = [w \in AllWorkers' |-> IF pc'[w] \in Holding THEN w ELSE NoOne']
      /\ Threads' = Threads /\ AllWorkers' = AllWorkers /\ Thread' = Thread
      /\ \A w \in AllWorkers : (Asleep(w)' <=> Asleep(w)) /\ pc'[w] = pc[w]
  BY <1>1, <1>3, CallerTypes
<1>5. Threads \in Nat \ {0} /\ MaxJobs \in Nat
  BY <1>1, Shape, BoundsAssumption
<1>6. nb_jobs \in 1..MaxJobs
  BY <1>1, <1>2, <1>5 DEF Types, SetUp
<1>7. nb_active \in 1..Threads /\ nb_active <= nb_jobs
  BY <1>2, <1>5, <1>6 DEF SetUp, Whole, Min2
<1>8. Types'
  <2>1. current_job' \in 0..(MaxJobs + Threads)
    BY <1>5, <1>7
  <2> QED
    BY <1>1, <1>3, <1>4, <2>1 DEF Types
<1>9. Working'
  <2>1. i' <= ToWake' + 1
    BY <1>5, <1>7 DEF ToWake
  <2> QED
    BY <1>2, <1>4, <2>1 DEF Working, Whole
<1>10. SetUp'
  BY <1>2 DEF SetUp, Min2
<1>11. Phases'
  BY <1>4, <1>9, <1>10 DEF Phases, Creating, Starting, Resting, Ending, BatchPcs
<1>12. \A t \in Thread : pc'[t] \notin {"read", "claim", "job", "next", "last"}
  BY <1>2, <1>4 DEF Thread, Asleep
<1>13. Over' = {}
  <2>1. \A t \in Thread : t = Main \/ ~(t < 1)
    BY <1>1, Shape DEF Thread
  <2> QED
    BY <1>4, <2>1 DEF Over
<1>14. Claimed' = {}
  BY <1>4, <1>12, <1>13 DEF Claimed
<1>15. Begun' = {} /\ Doing' = {}
  <2>1. Begun' = {}
    BY <1>2, <1>5, <1>6, <1>7 DEF Begun
  <2>2. Doing' = {}
    BY <1>4, <1>12 DEF Doing
  <2> QED
    BY <2>1, <2>2
<1>16. Counters'
  <2>1. Cardinality({}) = 0
    BY FS_EmptySet
  <2> QED
    BY <1>2, <1>5, <1>6, <1>7, <1>13, <1>14, <2>1 DEF Counters
<1>17. Locals' /\ Shares' /\ LastOne'
  <2>1. Locals'
    BY <1>4, <1>12 DEF Locals
  <2>2. Shares'
    BY <1>2, <1>15 DEF Shares
  <2>3. LastOne'
    BY <1>2, <1>4, <1>12 DEF LastOne, Thread
  <2> QED
    BY <2>1, <2>2, <2>3
<1> QED
  BY <1>8, <1>11, <1>16, <1>17 DEF IInv, Batch

(* The caller wakes or stops worker i, which is asleep. *)
LEMMA SignalTypes ==
  ASSUME Types, i \in AllWorkers, Asleep(i), NEW l \in CallerPcs, Signal(i, l),
         UNCHANGED <<pool, shared, mutex, alone, jobs, first, cur, ended>>
  PROVE  /\ Types' /\ Threads' = Threads /\ AllWorkers' = AllWorkers /\ Thread' = Thread
         /\ Nb' = Nb /\ pc'[Main] = l /\ pc'[i] = "woken" /\ ~wdone'[i]
         /\ pc[i] \in {"wait", "woken"} /\ i' = i + 1
         /\ \A w \in AllWorkers \ {i} : pc'[w] = pc[w] /\ wdone'[w] = wdone[w]
<1>1. /\ Threads' = Threads /\ AllWorkers' = AllWorkers /\ Thread' = Thread /\ NoOne' = NoOne
      /\ Nb' = Nb
  BY PoolFixed
<1>2. i \in Thread /\ i # Main /\ Main \in Thread /\ AllWorkers \subseteq Thread \ {Main}
  BY Shape
<1>3. pc[i] \notin Holding
  BY MutexFree DEF Signal
<1>4. pc[i] \in {"wait", "woken"}
  BY <1>3 DEF Asleep, Holding
<1>5. pc'[Main] = l /\ pc'[i] = "woken" /\ \A w \in AllWorkers \ {i} : pc'[w] = pc[w]
  BY <1>2, <1>4 DEF Signal, Types
<1>6. /\ wdone' \in [AllWorkers -> BOOLEAN] /\ ~wdone'[i]
      /\ \A w \in AllWorkers \ {i} : wdone'[w] = wdone[w]
  BY DEF Signal, Types
<1>7. pc' \in [Thread -> CallerPcs \cup WorkerPcs]
  BY <1>2 DEF Signal, Types, WorkerPcs
<1>8. \A w \in AllWorkers : pc'[w] \in WorkerPcs
  BY <1>5 DEF Types, WorkerPcs
<1>9. \A w \in AllWorkers : pc'[w] \in Holding <=> pc[w] \in Holding
  BY <1>3, <1>5 DEF Holding
<1>10. mutex' = [w \in AllWorkers |-> IF pc'[w] \in Holding THEN w ELSE NoOne]
  BY <1>9 DEF Types
<1>11. i' \in Nat \ {0} /\ i' = i + 1
  BY DEF Signal, Types
<1>12. Types'
  BY <1>1, <1>5, <1>6, <1>7, <1>8, <1>10, <1>11 DEF Types, shared
<1> QED
  BY <1>1, <1>4, <1>5, <1>6, <1>11, <1>12

LEMMA WakeInv ==
  ASSUME IInv, Wake
  PROVE  IInv'
<1>1. Types /\ Phases /\ Batch
  BY DEF IInv
<1>2. pc[Main] = "wake" /\ i <= ToWake /\ Signal(i, "wake")
      /\ UNCHANGED <<pool, shared, mutex, created, alone, jobs, first, cur, ended, batches>>
  BY DEF Wake
<1>3. pc[Main] \in BatchPcs
  BY <1>2 DEF BatchPcs
<1>4. ToWake \in 0..Nb /\ AllWorkers = 1..Nb /\ Nb \in Nat
  BY <1>1, <1>3, PartySize, Shape
<1>5. i \in Nat \ {0}
  BY <1>1 DEF Types
<1>6. i \in AllWorkers
  BY <1>2, <1>4, <1>5
<1>7. Whole /\ SetUp /\ \A w \in AllWorkers : Asleep(w) \/ (w < i /\ Active(w))
  BY <1>1, <1>3 DEF Phases, Working
<1>8. Asleep(i)
  BY <1>5, <1>6, <1>7
<1>9. "wake" \in CallerPcs
  BY DEF CallerPcs
<1>10. /\ Types' /\ Threads' = Threads /\ AllWorkers' = AllWorkers /\ Thread' = Thread
       /\ pc'[Main] = "wake" /\ pc'[i] = "woken" /\ ~wdone'[i]
       /\ pc[i] \in {"wait", "woken"} /\ i' = i + 1
       /\ \A w \in AllWorkers \ {i} : pc'[w] = pc[w] /\ wdone'[w] = wdone[w]
  BY <1>1, <1>2, <1>6, <1>8, <1>9, SignalTypes
<1>11. Phases'
  <2>1. \A w \in AllWorkers \ {i} : (Asleep(w)' <=> Asleep(w)) /\ (Active(w)' <=> Active(w))
    BY <1>10, Kept
  <2>2. \A w \in AllWorkers : Asleep(w)' \/ (w < i' /\ Active(w)')
    <3> SUFFICES ASSUME NEW w \in AllWorkers PROVE Asleep(w)' \/ (w < i' /\ Active(w)')
      OBVIOUS
    <3>1. CASE w = i
      <4>1. Active(w)'
        BY <3>1, <1>10 DEF Active
      <4> QED
        BY <3>1, <4>1, <1>5, <1>10
    <3>2. CASE w # i
      <4>1. w \in Nat
        BY <1>4
      <4> QED
        BY <3>2, <4>1, <1>5, <1>7, <1>10, <2>1
    <3> QED
      BY <3>1, <3>2
  <2>3. i' <= ToWake' + 1 /\ ToWake' = ToWake
    BY <1>2, <1>4, <1>5, <1>10 DEF ToWake, shared
  <2>4. Working'
    BY <1>2, <1>7, <1>10, <2>2, <2>3 DEF Working, Whole, shared
  <2>5. SetUp'
    BY <1>2, <1>7 DEF SetUp, Min2, shared
  <2> QED
    BY <1>10, <2>4, <2>5 DEF Phases, Creating, Starting, Resting, Ending, BatchPcs
<1>12. Over' = Over
  <2>1. \A t \in AllWorkers : t \in Over' <=> t \in Over
    <3> SUFFICES ASSUME NEW t \in AllWorkers PROVE t \in Over' <=> t \in Over
      OBVIOUS
    <3>1. t \in Nat /\ t # Main /\ t \in Thread
      BY <1>1, Shape
    <3>2. CASE t = i
      BY <1>5, <1>10, <3>1, <3>2 DEF Over
    <3>3. CASE t # i
      <4>1. t < i + 1 <=> t < i
        BY <3>1, <3>3, <1>5
      <4> QED
        BY <1>10, <3>1, <3>3, <4>1 DEF Over
    <3> QED
      BY <3>2, <3>3
  <2>2. Main \notin Over' /\ Main \notin Over
    BY <1>2, <1>10 DEF Over
  <2> QED
    BY <1>10, <2>1, <2>2 DEF Over, Thread
<1>13. Counters /\ Locals /\ Shares /\ LastOne
  BY <1>1, <1>3 DEF Batch
<1>14. \A t \in Thread : pc'[t] = pc[t] \/ (t = i /\ pc[t] \in {"wait", "woken"}
                                              /\ pc'[t] = "woken")
  BY <1>2, <1>10 DEF Thread
<1>15. Counters' /\ Locals' /\ Shares'
  <2>1. \A t \in Thread : pc[t] \in {"job", "next"} \/ pc'[t] \in {"job", "next"} =>
                            pc'[t] = pc[t]
    BY <1>14
  <2>2. \A t \in Thread : pc'[t] \in {"claim", "job", "next"} =>
                            jobs'[t] = [n |-> nb_jobs, active |-> nb_active]
    BY <1>2, <1>13, <1>14 DEF Locals
  <2>3. UNCHANGED <<pool, nb_active, nb_jobs, first_job, current_job, first, cur, ended>>
    BY <1>2 DEF shared
  <2> QED
    BY <1>1, <1>12, <1>13, <2>1, <2>2, <2>3, Frame
<1>16. LastOne'
  <2>1. \A w \in AllWorkers : pc'[w] = "last" <=> pc[w] = "last"
    BY <1>14 DEF Thread
  <2>2. UNCHANGED <<pool, nb_active, nb_jobs, current_job, done>>
    BY <1>2 DEF shared
  <2> QED
    BY <1>13, <2>1, <2>2, LastFrame
<1> QED
  BY <1>10, <1>11, <1>15, <1>16 DEF IInv, Batch

LEMMA WakeDoneInv ==
  ASSUME IInv, WakeDone
  PROVE  IInv'
<1>1. Types /\ Phases /\ Batch
  BY DEF IInv
<1>2. /\ pc[Main] = "wake" /\ i > ToWake
      /\ pc' = [pc EXCEPT ![Main] = IF alone THEN "read" ELSE "waitdone"]
      /\ UNCHANGED <<pool, shared, wdone, mutex, created, i, alone, jobs, first, cur, ended>>
  BY DEF WakeDone, Goto
<1>3. pc[Main] \in BatchPcs
  BY <1>2 DEF BatchPcs
<1>4. PICK l \in {"read", "waitdone"} : l = IF alone THEN "read" ELSE "waitdone"
  OBVIOUS
<1>5. l \in CallerPcs /\ pc' = [pc EXCEPT ![Main] = l]
  BY <1>2, <1>4 DEF CallerPcs
<1>6. /\ pc' \in [Thread' -> CallerPcs \cup WorkerPcs]
      /\ pc'[Main] = l /\ \A w \in AllWorkers' : pc'[w] \in WorkerPcs
      /\ mutex' = [w \in AllWorkers' |-> IF pc'[w] \in Holding THEN w ELSE NoOne']
      /\ Threads' = Threads /\ AllWorkers' = AllWorkers /\ Thread' = Thread
      /\ \A w \in AllWorkers : /\ pc'[w] = pc[w]
                               /\ Asleep(w)' <=> Asleep(w)
                               /\ Active(w)' <=> Active(w)
  BY <1>1, <1>2, <1>5, CallerTypes
<1>7. Types'
  BY <1>1, <1>2, <1>5, <1>6 DEF Types, shared
<1>8. i = ToWake + 1
  <2>1. ToWake \in Nat
    BY <1>1, <1>3, PartySize, Shape
  <2>2. i \in Nat /\ i <= ToWake + 1
    BY <1>1, <1>3 DEF Types, Phases, Working
  <2> QED
    BY <1>2, <2>1, <2>2
<1>9. Phases'
  <2>1. ToWake' = ToWake
    BY <1>2 DEF ToWake, shared
  <2>2. Working'
    <3>1. Whole /\ \A w \in AllWorkers : Asleep(w) \/ (w < i /\ Active(w))
      BY <1>1, <1>3 DEF Phases, Working
    <3>2. l = "read" => alone
      BY <1>4
    <3>3. i <= ToWake + 1
      BY <1>1, <1>3 DEF Phases, Working
    <3> QED
      BY <1>2, <1>4, <1>6, <1>8, <2>1, <3>1, <3>2, <3>3 DEF Working, Whole, shared
  <2>3. SetUp'
    BY <1>1, <1>2, <1>3 DEF Phases, SetUp, Min2, shared
  <2> QED
    BY <1>4, <1>6, <2>2, <2>3 DEF Phases, Creating, Starting, Resting, Ending, BatchPcs
<1>10. Counters /\ Locals /\ Shares /\ LastOne
  BY <1>1, <1>3 DEF Batch
<1>11. Over' = Over
  BY <1>2, <1>4, <1>6 DEF Over, Thread
<1>12. Counters' /\ Locals' /\ Shares'
  <2>1. \A t \in Thread : pc[t] \in {"job", "next"} \/ pc'[t] \in {"job", "next"} =>
                            pc'[t] = pc[t]
    BY <1>2, <1>4, <1>6 DEF Thread
  <2>2. \A t \in Thread : pc'[t] \in {"claim", "job", "next"} =>
                            jobs'[t] = [n |-> nb_jobs, active |-> nb_active]
    BY <1>2, <1>4, <1>6, <1>10 DEF Locals, Thread
  <2>3. UNCHANGED <<pool, nb_active, nb_jobs, first_job, current_job, first, cur, ended>>
    BY <1>2 DEF shared
  <2> QED
    BY <1>1, <1>10, <1>11, <2>1, <2>2, <2>3, Frame
<1>13. LastOne'
  <2>1. UNCHANGED <<pool, nb_active, nb_jobs, current_job, done>>
    BY <1>2 DEF shared
  <2> QED
    BY <1>6, <1>10, <2>1, LastFrame
<1> QED
  BY <1>7, <1>9, <1>12, <1>13 DEF IInv, Batch

(* The end of a batch for a caller that waits: done means that every thread *)
(* has found no more jobs. *)
LEMMA WaitDoneInv ==
  ASSUME IInv, WaitDone
  PROVE  IInv' /\ Begun = 0..(nb_jobs - 1) /\ Doing = {}
<1> USE DEF WaitDone, Goto, DoneTaken
<1>1. Types /\ Phases /\ Batch
  BY DEF IInv
<1>2. pc[Main] \in BatchPcs
  BY DEF BatchPcs
<1>3. Counters /\ Shares /\ LastOne
  BY <1>1, <1>2 DEF Batch
<1>4. current_job = nb_jobs + nb_active /\ \A w \in AllWorkers : pc[w] # "last"
  BY <1>3 DEF LastOne
<1>5. nb_jobs \in Nat /\ nb_active \in Nat \ {0}
  BY <1>1, <1>2, PartySize, Shape
<1>6. Cardinality(Over) = nb_active
  BY <1>3, <1>4, <1>5 DEF Counters
<1>7. Over = Party
  BY <1>1, <1>2, <1>6, InParty
<1>8. \A w \in AllWorkers : Asleep(w)
  BY <1>1, <1>2, <1>4, <1>7, AllAsleep
<1>9. "ready" \in CallerPcs
  BY DEF CallerPcs
<1>10. /\ pc' \in [Thread' -> CallerPcs \cup WorkerPcs]
       /\ pc'[Main] = "ready" /\ \A w \in AllWorkers' : pc'[w] \in WorkerPcs
       /\ mutex' = [w \in AllWorkers' |-> IF pc'[w] \in Holding THEN w ELSE NoOne']
       /\ Threads' = Threads /\ AllWorkers' = AllWorkers /\ Thread' = Thread
       /\ \A w \in AllWorkers : Asleep(w)' <=> Asleep(w)
  BY <1>1, <1>9, CallerTypes
<1>11. Types'
  BY <1>1, <1>9, <1>10 DEF Types
<1>12. Resting'
  BY <1>1, <1>2, <1>8, <1>10 DEF Phases, Working, Whole, Resting
<1>13. Phases'
  BY <1>10, <1>12 DEF Phases, Creating, Starting, Working, Ending, BatchPcs
<1>14. Doing = {}
  BY <1>8 DEF Doing, Thread, Asleep
<1>15. Begun = 0..(nb_jobs - 1)
  <2>1. Claimed = Party /\ Cardinality(Party) = nb_active
    BY <1>1, <1>2, <1>7, InParty, PartySize
  <2>2. first_job = nb_active
    BY <1>3, <2>1 DEF Counters
  <2> QED
    BY <1>4, <1>5, <2>2 DEF Begun
<1> QED
  BY <1>10, <1>11, <1>13, <1>14, <1>15, NoBatch DEF IInv, BatchPcs

-----------------------------------------------------------------------------
(* avpriv_slicethread_free *)

LEMMA FreePoolInv ==
  ASSUME IInv, FreePool
  PROVE  IInv'
<1> USE DEF FreePool, Goto
<1>1. Types /\ Phases /\ Batch
  BY DEF IInv
<1>2. "stop" \in CallerPcs
  BY DEF CallerPcs
<1>3. /\ pc' \in [Thread' -> CallerPcs \cup WorkerPcs]
      /\ pc'[Main] = "stop" /\ \A w \in AllWorkers' : pc'[w] \in WorkerPcs
      /\ mutex' = [w \in AllWorkers' |-> IF pc'[w] \in Holding THEN w ELSE NoOne']
      /\ Threads' = Threads /\ AllWorkers' = AllWorkers /\ Thread' = Thread /\ Nb' = Nb
      /\ \A w \in AllWorkers : (Asleep(w)' <=> Asleep(w)) /\ (Unborn(w)' <=> Unborn(w))
  BY <1>1, <1>2, CallerTypes
<1>4. Types'
  BY <1>1, <1>2, <1>3 DEF Types
<1>5. i \in Nat \ {0}
  BY <1>1 DEF Types
<1>6. Nb \in Nat /\ AllWorkers = 1..Nb
  BY <1>1, Shape
<1>7. /\ ~done /\ Workers \in 0..Nb /\ created = 1..Workers
      /\ \A w \in AllWorkers : IF w > Workers THEN Unborn(w) ELSE Asleep(w)
  <2>1. CASE pc[Main] = "ready"
    <3>1. Whole /\ ~done /\ \A w \in AllWorkers : Asleep(w)
      BY <1>1, <2>1 DEF Phases, Resting
    <3>2. Workers = Nb
      BY <3>1 DEF Whole, Workers, Nb
    <3> QED
      BY <1>6, <3>1, <3>2 DEF Whole
  <2>2. CASE pc[Main] = "free"
    <3>1. /\ ~done /\ i <= Nb + 1 /\ created = 1..(i - 1) /\ Workers = i - 1
          /\ \A w \in AllWorkers : IF w < i THEN Asleep(w) ELSE Unborn(w)
      BY <1>1, <2>2 DEF Phases, Creating
    <3>2. Workers \in 0..Nb
      BY <1>5, <1>6, <3>1
    <3>3. \A w \in AllWorkers : IF w > Workers THEN Unborn(w) ELSE Asleep(w)
      BY <1>5, <1>6, <3>1
    <3> QED
      BY <3>1, <3>2, <3>3
  <2> QED
    BY <2>1, <2>2
<1>8. Ending'
  <2>1. Workers' = Workers
    BY DEF Workers
  <2>2. i' <= Workers' + 1
    BY <1>6, <1>7, <2>1
  <2>3. \A w \in AllWorkers : w >= i'
    BY <1>6
  <2>4. \A w \in AllWorkers : IF w > Workers THEN Unborn(w)' ELSE Asleep(w)'
    BY <1>3, <1>7
  <2> QED
    BY <1>3, <1>7, <2>1, <2>2, <2>3, <2>4 DEF Ending
<1>9. Phases'
  BY <1>3, <1>8 DEF Phases, Creating, Starting, Resting, Working, BatchPcs
<1> QED
  BY <1>3, <1>4, <1>9, NoBatch DEF IInv, BatchPcs

LEMMA StopInv ==
  ASSUME IInv, Stop
  PROVE  IInv'
<1>1. Types /\ Phases /\ Batch
  BY DEF IInv
<1>2. pc[Main] = "stop" /\ i <= Workers /\ Signal(i, "stop")
      /\ UNCHANGED <<pool, shared, mutex, created, alone, jobs, first, cur, ended, batches>>
  BY DEF Stop
<1>3. /\ finished /\ ~done /\ Workers \in 0..Nb /\ created = 1..Workers
      /\ \A w \in AllWorkers :
           IF w > Workers THEN Unborn(w)
           ELSE IF w >= i THEN Asleep(w) ELSE Dying(w)
  BY <1>1, <1>2 DEF Phases, Ending
<1>4. i \in Nat \ {0}
  BY <1>1 DEF Types
<1>5. Nb \in Nat /\ AllWorkers = 1..Nb
  BY <1>1, Shape
<1>6. i \in AllWorkers
  BY <1>2, <1>3, <1>4, <1>5
<1>7. Asleep(i)
  BY <1>2, <1>3, <1>4, <1>5, <1>6
<1>8. "stop" \in CallerPcs
  BY DEF CallerPcs
<1>9. /\ Types' /\ AllWorkers' = AllWorkers /\ Nb' = Nb
      /\ pc'[Main] = "stop" /\ pc'[i] = "woken" /\ ~wdone'[i] /\ i' = i + 1
      /\ \A w \in AllWorkers \ {i} : pc'[w] = pc[w] /\ wdone'[w] = wdone[w]
  BY <1>1, <1>2, <1>6, <1>7, <1>8, SignalTypes
<1>10. Ending'
  <2>1. Workers' = Workers
    BY <1>2 DEF Workers, shared
  <2>2. i' <= Workers' + 1
    BY <1>2, <1>3, <1>4, <1>5, <1>9, <2>1
  <2>3. \A w \in AllWorkers :
          IF w > Workers THEN Unborn(w)'
          ELSE IF w >= i' THEN Asleep(w)' ELSE Dying(w)'
    <3> SUFFICES ASSUME NEW w \in AllWorkers
                 PROVE  IF w > Workers THEN Unborn(w)'
                        ELSE IF w >= i' THEN Asleep(w)' ELSE Dying(w)'
      OBVIOUS
    <3>1. CASE w = i
      <4>1. Dying(w)'
        BY <3>1, <1>9 DEF Dying
      <4>2. ~(w > Workers) /\ ~(w >= i')
        BY <3>1, <1>2, <1>3, <1>4, <1>5, <1>9
      <4> QED
        BY <4>1, <4>2
    <3>2. CASE w # i
      <4>1. /\ Asleep(w)' <=> Asleep(w)
            /\ Unborn(w)' <=> Unborn(w)
            /\ Dying(w)' <=> Dying(w)
        BY <3>2, <1>9, Kept
      <4>2. w >= i' <=> w >= i
        BY <3>2, <1>4, <1>5, <1>9
      <4> QED
        BY <4>1, <4>2, <1>3
    <3> QED
      BY <3>1, <3>2
  <2>4. finished' /\ ~done' /\ created' = created
    BY <1>2, <1>3 DEF shared
  <2> QED
    BY <1>3, <1>9, <2>1, <2>2, <2>3, <2>4 DEF Ending
<1>11. Phases'
  BY <1>9, <1>10 DEF Phases, Creating, Starting, Resting, Working, BatchPcs
<1> QED
  BY <1>9, <1>11, NoBatch DEF IInv, BatchPcs

LEMMA StopDoneInv ==
  ASSUME IInv, StopDone
  PROVE  IInv'
<1> USE DEF StopDone, Goto, shared
<1>1. Types /\ Phases /\ Batch
  BY DEF IInv
<1>2. /\ finished /\ ~done /\ Workers \in 0..Nb /\ created = 1..Workers
      /\ \A w \in AllWorkers :
           IF w > Workers THEN Unborn(w)
           ELSE IF w >= i THEN Asleep(w) ELSE Dying(w)
  BY <1>1 DEF Phases, Ending
<1>3. "join" \in CallerPcs
  BY DEF CallerPcs
<1>4. /\ pc' \in [Thread' -> CallerPcs \cup WorkerPcs]
      /\ pc'[Main] = "join" /\ \A w \in AllWorkers' : pc'[w] \in WorkerPcs
      /\ mutex' = [w \in AllWorkers' |-> IF pc'[w] \in Holding THEN w ELSE NoOne']
      /\ Threads' = Threads /\ AllWorkers' = AllWorkers /\ Thread' = Thread /\ Nb' = Nb
      /\ \A w \in AllWorkers : (Dying(w)' <=> Dying(w)) /\ (Unborn(w)' <=> Unborn(w))
  BY <1>1, <1>3, CallerTypes
<1>5. Types'
  BY <1>1, <1>3, <1>4 DEF Types
<1>6. i \in Nat \ {0}
  BY <1>1 DEF Types
<1>7. Nb \in Nat /\ AllWorkers = 1..Nb
  BY <1>1, Shape
<1>8. Ending'
  <2>1. Workers' = Workers
    BY DEF Workers
  <2>2. \A w \in AllWorkers : IF w > Workers THEN Unborn(w)' ELSE Dying(w)'
    BY <1>2, <1>4, <1>6, <1>7
  <2>3. \A w \in created' : ~(w < i')
    BY <1>2, <1>7
  <2> QED
    BY <1>2, <1>4, <2>1, <2>2, <2>3 DEF Ending
<1>9. Phases'
  BY <1>4, <1>8 DEF Phases, Creating, Starting, Resting, Working, BatchPcs
<1> QED
  BY <1>4, <1>5, <1>9, NoBatch DEF IInv, BatchPcs

LEMMA JoinInv ==
  ASSUME IInv, Join
  PROVE  IInv'
<1> USE DEF Join, shared
<1>1. Types /\ Phases /\ Batch
  BY DEF IInv
<1>2. i \in Nat \ {0}
  BY <1>1 DEF Types
<1>3. Threads' = Threads /\ AllWorkers' = AllWorkers /\ Thread' = Thread /\ Nb' = Nb
      /\ NoOne' = NoOne /\ Workers' = Workers
  BY PoolFixed DEF Workers
<1>4. Types'
  BY <1>1, <1>2, <1>3 DEF Types
<1>5. Workers \in 0..Nb /\ created = 1..Workers /\ \A w \in created : w < i => pc[w] = "exit"
  BY <1>1 DEF Phases, Ending
<1>6. \A w \in created : w < i + 1 => pc[w] = "exit"
  <2>1. Nb \in Nat
    BY <1>1, Shape
  <2>2. \A w \in created : w < i + 1 => w < i \/ w = i
    BY <1>2, <1>5, <2>1
  <2> QED
    BY <1>5, <2>2
<1>7. \A w \in AllWorkers : /\ Dying(w)' <=> Dying(w)
                            /\ Unborn(w)' <=> Unborn(w)
  BY Kept
<1>8. Ending'
  BY <1>1, <1>3, <1>6, <1>7 DEF Phases, Ending
<1>9. Phases'
  BY <1>8 DEF Phases, Creating, Starting, Resting, Working, BatchPcs
<1> QED
  BY <1>4, <1>9, NoBatch DEF IInv, BatchPcs

LEMMA JoinDoneInv ==
  ASSUME IInv, JoinDone
  PROVE  IInv'
<1> USE DEF JoinDone, Goto, shared
<1>1. Types /\ Phases /\ Batch
  BY DEF IInv
<1>2. "freed" \in CallerPcs
  BY DEF CallerPcs
<1>3. /\ pc' \in [Thread' -> CallerPcs \cup WorkerPcs]
      /\ pc'[Main] = "freed" /\ \A w \in AllWorkers' : pc'[w] \in WorkerPcs
      /\ mutex' = [w \in AllWorkers' |-> IF pc'[w] \in Holding THEN w ELSE NoOne']
      /\ Threads' = Threads /\ AllWorkers' = AllWorkers /\ Thread' = Thread /\ Nb' = Nb
      /\ \A w \in AllWorkers : /\ pc'[w] = pc[w]
                               /\ Dying(w)' <=> Dying(w)
                               /\ Unborn(w)' <=> Unborn(w)
  BY <1>1, <1>2, CallerTypes
<1>4. Types'
  BY <1>1, <1>2, <1>3 DEF Types
<1>5. i \in Nat \ {0}
  BY <1>1 DEF Types
<1>6. Nb \in Nat /\ AllWorkers = 1..Nb
  BY <1>1, Shape
<1>7. Workers \in 0..Nb /\ created = 1..Workers /\ \A w \in created : w < i => pc[w] = "exit"
  BY <1>1 DEF Phases, Ending
<1>8. \A w \in created : pc[w] = "exit" /\ w \in AllWorkers
  BY <1>5, <1>6, <1>7
<1>9. Ending'
  <2>1. Workers' = Workers
    BY DEF Workers
  <2> QED
    BY <1>1, <1>3, <1>8, <2>1 DEF Phases, Ending
<1>10. Phases'
  BY <1>3, <1>9 DEF Phases, Creating, Starting, Resting, Working, BatchPcs
<1> QED
  BY <1>3, <1>4, <1>10, NoBatch DEF IInv, BatchPcs

-----------------------------------------------------------------------------
(* The invariant of the pool *)

LEMMA InitInv ==
  ASSUME Init
  PROVE  IInv
<1>1. pool \in [threads : Nat \ {0}, main_func : BOOLEAN]
  BY PoolsAssumption, BoundsAssumption DEF Init
<1>2. /\ Threads \in Nat \ {0} /\ Nb \in Nat /\ AllWorkers = 1..Nb /\ Main = 0
      /\ Thread = 0..Nb
  BY <1>1 DEF Threads, Nb, AllWorkers, Thread, Main
<1>3. Main \in Thread /\ Main \notin AllWorkers /\ AllWorkers \subseteq Thread
  BY <1>2
<1>4. pc[Main] = "create" /\ \A w \in AllWorkers : pc[w] = "none"
  BY <1>3 DEF Init
<1>5. Types
  <2>1. pc \in [Thread -> CallerPcs \cup WorkerPcs] /\ pc[Main] \in CallerPcs
        /\ \A w \in AllWorkers : pc[w] \in WorkerPcs
    BY <1>4 DEF Init, CallerPcs, WorkerPcs
  <2>2. mutex = [w \in AllWorkers |-> IF pc[w] \in Holding THEN w ELSE NoOne]
    BY <1>4 DEF Init, Holding
  <2>3. /\ nb_threads \in 0..Threads /\ nb_active \in 0..Threads /\ nb_jobs \in 0..MaxJobs
        /\ first_job \in 0..Threads /\ current_job \in 0..(MaxJobs + Threads)
    BY <1>2, BoundsAssumption DEF Init
  <2>4. /\ done \in BOOLEAN /\ finished \in BOOLEAN /\ alone \in BOOLEAN
        /\ wdone \in [AllWorkers -> BOOLEAN]
    BY DEF Init
  <2>5. i \in Nat \ {0} /\ ended \subseteq 0..(MaxJobs - 1)
    BY DEF Init
  <2>6. /\ jobs \in [Thread -> [n : Nat, active : Nat]]
        /\ first \in [Thread -> Nat] /\ cur \in [Thread -> Nat]
    BY DEF Init
  <2> QED
    BY <1>1, <2>1, <2>2, <2>3, <2>4, <2>5, <2>6 DEF Types
<1>6. Creating
  <2>1. \A w \in AllWorkers : ~(w < i) /\ Unborn(w)
    BY <1>2, <1>4 DEF Init, Unborn
  <2>2. created = 1..(i - 1) /\ i <= Nb + 1
    BY <1>2 DEF Init
  <2> QED
    BY <1>4, <2>1, <2>2 DEF Init, Creating
<1>7. Phases
  BY <1>4, <1>6 DEF Phases, Starting, Resting, Working, Ending, BatchPcs
<1>8. Batch
  BY <1>4 DEF Batch, BatchPcs
<1> QED
  BY <1>5, <1>7, <1>8 DEF IInv

LEMMA StutterInv ==
  ASSUME IInv, UNCHANGED vars
  PROVE  IInv'
<1> USE DEF vars, shared
<1>1. Threads' = Threads /\ AllWorkers' = AllWorkers /\ Thread' = Thread /\ Nb' = Nb
      /\ NoOne' = NoOne
  BY PoolFixed
<1>2. Types'
  BY <1>1 DEF IInv, Types
<1>3. Phases'
  <2>1. Workers' = Workers /\ ToWake' = ToWake
    BY DEF Workers, ToWake
  <2>2. \A w : /\ Asleep(w)' <=> Asleep(w)
               /\ Active(w)' <=> Active(w)
               /\ Unborn(w)' <=> Unborn(w)
               /\ Dying(w)' <=> Dying(w)
    BY Kept
  <2>3. Creating'
    BY <1>1, <2>1, <2>2 DEF IInv, Phases, Creating
  <2>4. Starting'
    BY <1>1, <2>2 DEF IInv, Phases, Starting, Asleep
  <2>5. Resting' /\ Working'
    BY <1>1, <2>1, <2>2 DEF IInv, Phases, Resting, Working, Whole
  <2>6. Ending'
    BY <1>1, <2>1, <2>2 DEF IInv, Phases, Ending
  <2>7. SetUp' <=> SetUp
    BY DEF SetUp, Min2
  <2> QED
    BY <2>3, <2>4, <2>5, <2>6, <2>7 DEF IInv, Phases
<1>4. Batch'
  <2> SUFFICES ASSUME pc[Main] \in BatchPcs
               PROVE  Counters' /\ Locals' /\ Shares' /\ LastOne'
    BY DEF Batch
  <2>1. Types /\ Counters /\ Locals /\ Shares /\ LastOne
    BY DEF IInv, Batch
  <2>2. Over' = Over
    BY <1>1 DEF Over
  <2>3. \A t \in Thread : pc'[t] \in {"claim", "job", "next"} =>
                            jobs'[t] = [n |-> nb_jobs, active |-> nb_active]
    BY <2>1 DEF Locals
  <2>4. Counters' /\ Locals' /\ Shares'
    BY <2>1, <2>2, <2>3, Frame
  <2>5. LastOne'
    BY <2>1, LastFrame
  <2> QED
    BY <2>4, <2>5
<1> QED
  BY <1>2, <1>3, <1>4 DEF IInv

LEMMA NextInv ==
  ASSUME IInv, [Next]_vars
  PROVE  IInv'
<1>1. Types /\ Main \in Thread /\ AllWorkers \subseteq Thread
  BY Shape DEF IInv
<1>2. ASSUME NEW t \in Thread, RunJobs(t) PROVE IInv'
  BY <1>2, ReadInv, ClaimInv, JobInv, NextJobInv DEF RunJobs
<1>3. CASE CallerStep
  BY <1>1, <1>2, <1>3, CreateInv, CreateFailsInv, StartedInv, CreateDoneInv, ExecuteInv,
     CounterInv, WakeInv, WakeDoneInv, WaitDoneInv, FreePoolInv, StopInv, StopDoneInv, JoinInv,
     JoinDoneInv DEF CallerStep
<1>4. ASSUME NEW w \in AllWorkers, WorkerStep(w) \/ Spurious(w) PROVE IInv'
  BY <1>1, <1>2, <1>4, StartInv, WokenInv, LastInv, IdleInv, SpuriousInv DEF WorkerStep
<1>5. CASE Freed \/ UNCHANGED vars
  BY <1>5, StutterInv DEF Freed
<1> QED
  BY <1>3, <1>4, <1>5 DEF Next

(* The pool keeps its invariant: the two counters of a batch are the       *)
(* numbers of threads that have begun and ended, and the workers are where *)
(* the caller believes them to be.                                         *)
THEOREM PoolInvariant == Spec => []IInv
<1>1. Init => IInv
  BY InitInv
<1>2. IInv /\ [Next]_vars => IInv'
  BY NextInv
<1> QED
  BY <1>1, <1>2, PTL DEF Spec

LEMMA InvSeparate ==
  ASSUME IInv
  PROVE  Separate
<1>1. Types /\ Phases /\ Batch
  BY DEF IInv
<1>2. TypeOK
  <2>1. pc \in [Thread -> Pcs]
    BY <1>1 DEF Types, CallerPcs, WorkerPcs, Pcs
  <2>2. \A w \in AllWorkers :
          mutex[w] = w <=> pc[w] \in {"read", "claim", "job", "next", "last", "idle"}
    BY <1>1, Shape DEF Types, Holding
  <2> QED
    BY <1>1, <2>1, <2>2 DEF Types, TypeOK
<1>3. \A t \in Thread : pc[t] \in {"read", "claim", "job", "next", "last"} => pc[Main] \in BatchPcs
  BY <1>1, Inside
<1>4. Quiescent
  <2> SUFFICES ASSUME pc[Main] \in {"ready", "counter", "stop", "join", "freed"}
               PROVE  ~done /\ \A w \in AllWorkers : ~Running(w) /\ pc[w] # "last"
    BY DEF Quiescent
  <2>1. ~done
    BY <1>1 DEF Phases, Resting, Ending
  <2>2. \A t \in Thread : pc[t] \notin {"read", "claim", "job", "next", "last"}
    BY <1>3 DEF BatchPcs
  <2> QED
    BY <2>1, <2>2 DEF Running, Thread
<1>5. OwnThreadNr
  <2> SUFFICES ASSUME NEW t \in Thread, pc[t] = "job"
               PROVE  /\ first[t] < jobs[t].active
                      /\ \A u \in Thread \ {t} : pc[u] = "job" => first[u] # first[t]
    BY DEF OwnThreadNr
  <2>1. pc[Main] \in BatchPcs
    BY <1>3
  <2>2. Counters /\ Locals
    BY <1>1, <2>1 DEF Batch
  <2>3. /\ jobs[t].active = nb_active /\ first[t] < first_job
        /\ \A u \in Thread \ {t} : pc[u] = "job" => first[u] # first[t]
    BY <2>2 DEF Locals
  <2>4. first_job \in 0..nb_active
    BY <1>1, <2>1, <2>2, InParty DEF Counters
  <2>5. first[t] \in Nat /\ nb_active \in Nat
    BY <1>1 DEF Types
  <2> QED
    BY <2>3, <2>4, <2>5
<1>6. FreedAlone
  BY <1>1 DEF Phases, Ending, FreedAlone
<1> QED
  BY <1>2, <1>4, <1>5, <1>6 DEF Separate

(* No thread of run_jobs meets the counters of another batch, the threadnr *)
(* of another thread or the memory of a freed pool (slicethread.c).        *)
THEOREM PoolSeparate == Spec => []Separate
<1>1. IInv => Separate
  BY InvSeparate
<1> QED
  BY <1>1, PoolInvariant, PTL

-----------------------------------------------------------------------------
(***************************************************************************)
(* The pool implements ParallelFor.  Todo and Phase are what the abstract  *)
(* todo and phase stand for; doing is Doing and over is ended.             *)
(***************************************************************************)
Phase == IF pc[Main] = "freed" THEN "freed" ELSE IF InBatch THEN "busy" ELSE "idle"

Todo == (0..(nb_jobs - 1)) \ (ended \cup Doing)

AbstractStep == [Abstract!Next]_<<Phase, Todo, Doing, ended>>

(* The step of the caller, if any, stays on its side of execute and free,  *)
(* and no thread begins or ends a job. *)
LEMMA StepStutters ==
  ASSUME Phase' = Phase, UNCHANGED <<nb_jobs, ended>>, Doing' = Doing
  PROVE  AbstractStep
<1>1. Todo' = Todo
  BY DEF Todo
<1> QED
  BY <1>1 DEF AbstractStep

LEMMA DoingKept ==
  ASSUME pool' = pool, cur' = cur, \A t \in Thread : pc'[t] = "job" <=> pc[t] = "job"
  PROVE  Doing' = Doing
BY PoolFixed DEF Doing

(* A job starts. *)
LEMMA StepStarts ==
  ASSUME Phase = "busy", Phase' = "busy", UNCHANGED <<nb_jobs, ended>>,
         Begun = ended \cup Doing,
         NEW j \in (0..(nb_jobs - 1)) \ Begun, Doing' = Doing \cup {j}
  PROVE  AbstractStep
<1>1. j \in Todo /\ Todo' = Todo \ {j}
  BY DEF Todo
<1>2. Abstract!Work
  BY <1>1 DEF Abstract!Work, Phase, Todo
<1> QED
  BY <1>2 DEF AbstractStep, Abstract!Next

(* A job ends. *)
LEMMA StepEnds ==
  ASSUME Phase = "busy", Phase' = "busy", nb_jobs' = nb_jobs,
         NEW j \in Doing, Doing' = Doing \ {j}, ended' = ended \cup {j}
  PROVE  AbstractStep
<1>1. Todo' = Todo
  BY DEF Todo
<1>2. Abstract!Work
  BY <1>1 DEF Abstract!Work, Phase, Todo
<1> QED
  BY <1>2 DEF AbstractStep, Abstract!Next

(* execute returns. *)
LEMMA StepReturns ==
  ASSUME Phase = "busy", Phase' = "idle", UNCHANGED <<nb_jobs, ended>>,
         Begun = 0..(nb_jobs - 1), Begun = ended \cup Doing, Doing = {}, Doing' = {}
  PROVE  AbstractStep
<1>1. Todo = {} /\ Todo' = {}
  BY DEF Todo
<1>2. Abstract!End
  BY <1>1 DEF Abstract!End, Phase, Todo
<1> QED
  BY <1>2 DEF AbstractStep, Abstract!Next

(* Outside a batch no job runs. *)
LEMMA NoneDoing == IInv /\ pc[Main] \notin BatchPcs => Doing = {}
<1> SUFFICES ASSUME IInv, pc[Main] \notin BatchPcs PROVE Doing = {}
  OBVIOUS
<1>1. \A t \in Thread : pc[t] # "job"
  BY Inside DEF IInv
<1> QED
  BY <1>1 DEF Doing

(* The steps of the caller while it creates and frees the pool. *)
LEMMA LifeSteps ==
  ASSUME IInv, IInv',
         \/ Create \/ CreateFails \/ Started \/ CreateDone \/ FreePool \/ Stop \/ StopDone
         \/ Join
  PROVE  AbstractStep
<1>1. Types /\ Main \in Thread
  BY Shape DEF IInv
<1>2. /\ pc[Main] \in {"create", "started", "free", "ready", "stop", "join"}
      /\ UNCHANGED <<nb_jobs, ended>>
  BY DEF Create, CreateFails, Started, CreateDone, FreePool, Stop, StopDone, Join, shared
<1>3. pc'[Main] \in {"create", "started", "free", "ready", "stop", "join"}
  <2>1. CASE Create
    <3>1. i \in AllWorkers /\ i # Main
      BY <1>1, <2>1, Shape DEF Create
    <3> QED
      BY <1>1, <2>1, <3>1 DEF Create, Types
  <2>2. CASE CreateFails \/ Started \/ CreateDone \/ FreePool \/ StopDone \/ Join
    BY <1>1, <2>2 DEF CreateFails, Started, CreateDone, FreePool, StopDone, Join, Goto, Types
  <2>3. CASE Stop
    BY <1>1, <2>3 DEF Stop, Signal, Types
  <2> QED
    BY <2>1, <2>2, <2>3
<1>4. Phase = "idle" /\ Phase' = "idle"
  BY <1>2, <1>3 DEF Phase, InBatch
<1>5. pc[Main] \notin BatchPcs /\ pc'[Main] \notin BatchPcs
  BY <1>2, <1>3 DEF BatchPcs
<1>6. Doing = {}
  BY <1>5, NoneDoing
<1>7. Doing' = {}
  <2>1. (IInv /\ pc[Main] \notin BatchPcs => Doing = {})'
    BY NoneDoing, PTL
  <2>2. (pc[Main] \notin BatchPcs)'
    BY <1>5 DEF BatchPcs
  <2> QED
    BY <2>1, <2>2
<1> QED
  BY <1>2, <1>4, <1>6, <1>7, StepStutters

LEMMA ExecuteStep ==
  ASSUME IInv, IInv', Execute
  PROVE  AbstractStep
<1>1. Types /\ Main \in Thread
  BY Shape DEF IInv
<1>2. PICK n \in 1..MaxJobs :
        /\ pc[Main] = "ready" /\ nb_jobs' = n /\ ended' = {}
        /\ pc' = [pc EXCEPT ![Main] = "counter"]
  BY DEF Execute, Goto
<1>3. pc'[Main] = "counter"
  BY <1>1, <1>2 DEF Types
<1>4. Phase = "idle" /\ Phase' = "busy"
  BY <1>2, <1>3 DEF Phase, InBatch
<1>5. Doing' = {}
  <2>1. (IInv /\ pc[Main] \notin BatchPcs => Doing = {})'
    BY NoneDoing, PTL
  <2>2. (pc[Main] \notin BatchPcs)'
    BY <1>3 DEF BatchPcs
  <2> QED
    BY <2>1, <2>2
<1>6. Todo' = 0..(n - 1)
  BY <1>2, <1>5 DEF Todo
<1>7. Abstract!Begin
  BY <1>2, <1>4, <1>5, <1>6 DEF Abstract!Begin, Phase, Todo
<1> QED
  BY <1>7 DEF AbstractStep, Abstract!Next

LEMMA WakeSteps ==
  ASSUME IInv, Counter \/ Wake \/ WakeDone
  PROVE  AbstractStep
<1>1. Types /\ Main \in Thread
  BY Shape DEF IInv
<1>2. pc[Main] \in {"counter", "wake"} /\ UNCHANGED <<pool, nb_jobs, ended, cur>>
  BY DEF Counter, Wake, WakeDone, shared
<1>3. pc'[Main] \in {"wake", "read", "waitdone"} /\ \A t \in Thread : pc'[t] = "job" <=> pc[t] = "job"
  <2>1. CASE Counter \/ WakeDone
    BY <1>1, <1>2, <2>1 DEF Counter, WakeDone, Goto, Types
  <2>2. CASE Wake
    BY <1>1, <1>2, <2>2 DEF Wake, Signal, Types
  <2> QED
    BY <2>1, <2>2
<1>4. Phase = "busy" /\ Phase' = "busy"
  BY <1>2, <1>3 DEF Phase, InBatch
<1>5. Doing' = Doing
  BY <1>2, <1>3, DoingKept
<1> QED
  BY <1>2, <1>4, <1>5, StepStutters

LEMMA WorkerSteps ==
  ASSUME IInv, NEW w \in AllWorkers, Start(w) \/ Spurious(w) \/ Woken(w) \/ Last(w) \/ Idle(w)
  PROVE  AbstractStep
<1>1. Types /\ w \in Thread /\ w # Main
  BY Shape DEF IInv
<1>2. UNCHANGED <<pool, nb_jobs, ended, cur>>
  BY DEF Start, Spurious, Woken, Last, Idle, shared
<1>3. pc'[Main] = pc[Main] /\ \A t \in Thread : pc'[t] = "job" <=> pc[t] = "job"
  BY <1>1 DEF Start, Spurious, Woken, Last, Idle, Goto, WokenTo, Types, Thread
<1>4. Phase' = Phase
  BY <1>3 DEF Phase, InBatch
<1>5. Doing' = Doing
  BY <1>2, <1>3, DoingKept
<1> QED
  BY <1>2, <1>4, <1>5, StepStutters

(* A thread of run_jobs runs inside execute. *)
LEMMA InsideBusy ==
  ASSUME IInv, NEW t \in Thread, pc[t] \in {"read", "claim", "job", "next"}
  PROVE  Types /\ pc[Main] \in BatchPcs /\ Phase = "busy" /\ Begun = ended \cup Doing
<1>1. pc[Main] \in BatchPcs
  BY Inside DEF IInv
<1> QED
  BY <1>1 DEF IInv, Batch, Shares, Phase, InBatch, BatchPcs

LEMMA RunJobsSteps ==
  ASSUME IInv, NEW t \in Thread, RunJobs(t)
  PROVE  AbstractStep
<1>1. pc[t] \in {"read", "claim", "job", "next"} /\ UNCHANGED <<pool, nb_jobs>>
  BY DEF RunJobs, Read, Claim, Job, NextJob, shared
<1>2. Types /\ pc[Main] \in BatchPcs /\ Phase = "busy" /\ Begun = ended \cup Doing
  BY <1>1, InsideBusy
<1>3. ASSUME NEW l \in {"claim", "job", "next", "waitdone", "last", "idle"},
             t = Main => l \notin {"last", "idle"}, pc' = [pc EXCEPT ![t] = l]
      PROVE  Phase' = "busy"
  <2>1. t = Main => pc'[Main] = l
    BY <1>2, <1>3 DEF Types
  <2>2. t # Main => pc'[Main] = pc[Main]
    BY <1>2, <1>3, Shape DEF Types
  <2>3. pc'[Main] \in BatchPcs
    BY <1>2, <1>3, <2>1, <2>2 DEF BatchPcs
  <2> QED
    BY <2>3 DEF Phase, InBatch, BatchPcs
<1>4. CASE Read(t)
  <2>1. pc' = [pc EXCEPT ![t] = "claim"] /\ UNCHANGED <<nb_jobs, ended, cur>> /\ pc[t] = "read"
    BY <1>4 DEF Read, Goto, shared
  <2>2. \A u \in Thread : pc'[u] = "job" <=> pc[u] = "job"
    BY <1>2, <2>1 DEF Types
  <2>3. Doing' = Doing
    BY <1>1, <2>1, <2>2, DoingKept
  <2> QED
    BY <1>2, <1>3, <2>1, <2>3, StepStutters
<1>5. CASE Claim(t)
  <2>1. pc' = [pc EXCEPT ![t] = "job"] /\ UNCHANGED <<nb_jobs, ended>>
    BY <1>5 DEF Claim, Goto
  <2>2. first_job \in (0..(nb_jobs - 1)) \ Begun /\ Doing' = Doing \cup {first_job}
    BY <1>5, ClaimInv
  <2> QED
    BY <1>2, <1>3, <2>1, <2>2, StepStarts
<1>6. CASE Job(t)
  <2>1. pc' = [pc EXCEPT ![t] = "next"] /\ nb_jobs' = nb_jobs /\ pc[t] = "job"
        /\ ended' = ended \cup {cur[t]}
    BY <1>6 DEF Job, Goto, shared
  <2>2. cur[t] \in Doing /\ Doing' = Doing \ {cur[t]}
    BY <1>6, <2>1, JobInv DEF Doing
  <2> QED
    BY <1>2, <1>3, <2>1, <2>2, StepEnds
<1>7. CASE NextJob(t)
  <2>1. UNCHANGED <<nb_jobs, ended>> /\ pc[t] = "next"
    BY <1>7 DEF NextJob
  <2>2. Locals
    BY <1>2 DEF IInv, Batch
  <2>3. jobs[t].n = nb_jobs
    BY <2>1, <2>2 DEF Locals
  <2>4. nb_jobs \in Nat
    BY <1>2, PartySize DEF IInv
  <2>5. current_job \in Nat
    BY <1>2, Shape, BoundsAssumption DEF Types
  <2>6. CASE current_job < nb_jobs
    <3>1. pc' = [pc EXCEPT ![t] = "job"]
      BY <1>7, <2>3, <2>6 DEF NextJob, Goto
    <3>2. current_job \in (0..(nb_jobs - 1)) \ Begun /\ Doing' = Doing \cup {current_job}
      BY <1>7, <2>3, <2>6, NextJobTakes
    <3> QED
      BY <1>2, <1>3, <2>1, <3>1, <3>2, StepStarts
  <2>7. CASE current_job >= nb_jobs /\ t = Main /\ current_job = nb_jobs + nb_active - 1
    <3>1. IInv' /\ pc'[Main] = "ready" /\ Begun = 0..(nb_jobs - 1) /\ Doing = {}
      BY <1>7, <2>7, NextJobReady
    <3>2. Phase' = "idle"
      BY <3>1 DEF Phase, InBatch
    <3>3. Doing' = {}
      BY <1>7, <2>7, <3>1, OvershootTypes
    <3> QED
      BY <1>2, <2>1, <3>1, <3>2, <3>3, StepReturns
  <2>8. CASE current_job >= nb_jobs /\ ~(t = Main /\ current_job = nb_jobs + nb_active - 1)
    <3>1. pc' = [pc EXCEPT ![t] = AfterJobs(t, current_job = nb_jobs + nb_active - 1)]
          /\ Doing' = Doing
      BY <1>7, <2>8, OvershootTypes
    <3>2. /\ AfterJobs(t, current_job = nb_jobs + nb_active - 1) \in {"waitdone", "last", "idle"}
          /\ t = Main => AfterJobs(t, current_job = nb_jobs + nb_active - 1) = "waitdone"
      BY <2>8 DEF AfterJobs
    <3>3. Phase' = "busy"
      BY <1>3, <3>1, <3>2
    <3> QED
      BY <1>2, <2>1, <3>1, <3>3, StepStutters
  <2> QED
    BY <2>4, <2>5, <2>6, <2>7, <2>8
<1> QED
  BY <1>4, <1>5, <1>6, <1>7 DEF RunJobs

LEMMA EndSteps ==
  ASSUME IInv, IInv', WaitDone \/ JoinDone
  PROVE  AbstractStep
<1>1. Types /\ Main \in Thread
  BY Shape DEF IInv
<1>2. CASE WaitDone
  <2>1. pc[Main] = "waitdone" /\ pc'[Main] = "ready" /\ UNCHANGED <<pool, nb_jobs, ended, cur>>
    BY <1>1, <1>2 DEF WaitDone, Goto, Types
  <2>2. Begun = 0..(nb_jobs - 1) /\ Doing = {}
    BY <1>2, WaitDoneInv
  <2>3. Begun = ended \cup Doing
    BY <2>1 DEF IInv, Batch, Shares, BatchPcs
  <2>4. Doing' = {}
    <3>1. (IInv /\ pc[Main] \notin BatchPcs => Doing = {})'
      BY NoneDoing, PTL
    <3>2. (pc[Main] \notin BatchPcs)'
      BY <2>1 DEF BatchPcs
    <3> QED
      BY <3>1, <3>2
  <2>5. Phase = "busy" /\ Phase' = "idle"
    BY <2>1 DEF Phase, InBatch
  <2> QED
    BY <2>1, <2>2, <2>3, <2>4, <2>5, StepReturns
<1>3. CASE JoinDone
  <2>1. /\ pc[Main] = "join" /\ pc'[Main] = "freed" /\ UNCHANGED <<pool, nb_jobs, ended, cur>>
        /\ \A t \in Thread : pc'[t] = "job" <=> pc[t] = "job"
    BY <1>1, <1>3 DEF JoinDone, Goto, Types, shared
  <2>2. Phase = "idle" /\ Phase' = "freed"
    BY <2>1 DEF Phase, InBatch
  <2>3. Doing' = Doing
    BY <2>1, DoingKept
  <2>4. Todo' = Todo
    BY <2>1, <2>3 DEF Todo
  <2>5. Abstract!Free
    BY <2>1, <2>2, <2>3, <2>4 DEF Abstract!Free, Phase, Todo
  <2> QED
    BY <2>5 DEF AbstractStep, Abstract!Next
<1> QED
  BY <1>2, <1>3

LEMMA NextStep ==
  ASSUME IInv, IInv', [Next]_vars
  PROVE  AbstractStep
<1>1. Main \in Thread /\ AllWorkers \subseteq Thread
  BY Shape DEF IInv
<1>2. CASE CallerStep
  BY <1>1, <1>2, LifeSteps, ExecuteStep, WakeSteps, EndSteps, RunJobsSteps DEF CallerStep
<1>3. ASSUME NEW w \in AllWorkers, WorkerStep(w) \/ Spurious(w) PROVE AbstractStep
  BY <1>1, <1>3, WorkerSteps, RunJobsSteps DEF WorkerStep
<1>4. CASE Freed \/ UNCHANGED vars
  <2>1. UNCHANGED <<pool, pc, nb_jobs, ended, cur>>
    BY <1>4 DEF Freed, vars, shared
  <2>2. Phase' = Phase /\ Doing' = Doing
    BY <2>1, DoingKept DEF Phase, InBatch
  <2> QED
    BY <2>1, <2>2, StepStutters
<1> QED
  BY <1>2, <1>3, <1>4 DEF Next

LEMMA InitStep ==
  ASSUME Init
  PROVE  Abstract!Init
<1>1. IInv
  BY InitInv
<1>2. pc[Main] = "create" /\ nb_jobs = 0 /\ ended = {}
  BY <1>1, Shape DEF Init, IInv
<1>3. Doing = {}
  BY <1>1, <1>2, NoneDoing DEF BatchPcs
<1> QED
  BY <1>2, <1>3 DEF Abstract!Init, InBatch

(* The pool is a parallel for: every job of a batch runs exactly once,     *)
(* execute returns when all have ended and nothing runs after free, for    *)
(* any number of threads and jobs (slicethread.c).                         *)
THEOREM PoolRefines == Spec => ImplementsParallelFor
<1>1. Init => Abstract!Init
  BY InitStep
<1>2. IInv /\ IInv' /\ [Next]_vars => AbstractStep
  BY NextStep
<1>3. AbstractStep =>
        [Abstract!Next]_<<IF pc[Main] = "freed" THEN "freed" ELSE IF InBatch THEN "busy" ELSE "idle",
                          (0..(nb_jobs - 1)) \ (ended \cup Doing), Doing, ended>>
  BY DEF AbstractStep, Phase, Todo
<1> QED
  BY <1>1, <1>2, <1>3, PoolInvariant, PTL DEF Spec, ImplementsParallelFor, Abstract!Spec

=============================================================================
