----------------------------- MODULE BufferPool -----------------------------
(***************************************************************************)
(* Reference-counted buffers and the pool they return to                   *)
(* (libavutil/buffer.c): every packet and frame that the threads of ffmpeg *)
(* hand to each other is one.  A buffer has a count of its references, the *)
(* pool a count of its buffers in use plus one until it is uninited;       *)
(* whoever brings the pool's count to zero frees it, which may happen in   *)
(* any thread, long after the pool was uninited.                           *)
(*                                                                         *)
(* Any thread gets buffers, several at once (buffer.h:281: "may be called  *)
(* simultaneously from multiple threads"; the frame threads of a decoder   *)
(* share their pool, libavcodec/pthread_frame.c:800).  A step is one       *)
(* atomic operation on a count or one section under the pool's mutex.      *)
(***************************************************************************)
EXTENDS Naturals, Sequences, FiniteSets, SequencesExt

CONSTANTS
  Threads,   \* the threads that get buffers and hold references
  Entries,   \* the entries (BufferPoolEntry) malloc can give
  MaxRefs    \* bound: references a thread holds to one buffer

ASSUME FiniteAssumption == IsFiniteSet(Threads) /\ IsFiniteSet(Entries)
ASSUME MaxRefsAssumption == MaxRefs \in Nat \ {0}

VARIABLES
  list,       \* pool->pool, the entries waiting in the pool
  refcount,   \* pool->refcount
  buf,        \* refcount of the AVBuffer around each entry, 0 when there is none
  refs,       \* the references each thread holds
  pc, ent,    \* what each thread is in the middle of, and with which entry
  uninited,   \* av_buffer_pool_uninit was called
  freed       \* how many times buffer_pool_free has ended

vars == <<list, refcount, buf, refs, pc, ent, uninited, freed>>

(* Entries that malloc has not given out, or that were freed.              *)
Fresh == {e \in Entries : e \notin ToSet(list) /\ buf[e] = 0 /\ \A t \in Threads :
                            pc[t] = "push" => ent[t] # e}

Init ==
  /\ list = <<>> /\ refcount = 1
  /\ buf = [e \in Entries |-> 0]
  /\ refs = [t \in Threads |-> [e \in Entries |-> 0]]
  /\ pc = [t \in Threads |-> "run"]
  /\ \E e \in Entries : ent = [t \in Threads |-> e]
  /\ uninited = FALSE /\ freed = 0

Goto(t, l) == pc' = [pc EXCEPT ![t] = l]

-----------------------------------------------------------------------------
(* av_buffer_pool_get                                                      *)

(* Under the mutex: an entry of the pool, or a new one.                    *)
Get(t, e) ==
  /\ pc[t] = "run" /\ ~uninited
  /\ IF list # <<>> THEN e = Head(list) /\ list' = Tail(list)
                    ELSE e \in Fresh /\ UNCHANGED list
  /\ buf' = [buf EXCEPT ![e] = 1]
  /\ refs' = [refs EXCEPT ![t][e] = 1]
  /\ Goto(t, "count") /\ ent' = [ent EXCEPT ![t] = e]
  /\ UNCHANGED <<refcount, uninited, freed>>

(* The pool's count is raised after the mutex is released.                 *)
Count(t) ==
  /\ pc[t] = "count"
  /\ refcount' = refcount + 1
  /\ Goto(t, "run")
  /\ UNCHANGED <<list, buf, refs, ent, uninited, freed>>

-----------------------------------------------------------------------------
(* References                                                              *)

av_buffer_ref(t, e) ==
  /\ pc[t] = "run" /\ refs[t][e] \in 1..(MaxRefs - 1)
  /\ refs' = [refs EXCEPT ![t][e] = @ + 1]
  /\ buf' = [buf EXCEPT ![e] = @ + 1]
  /\ UNCHANGED <<list, refcount, pc, ent, uninited, freed>>

(* A frame or packet moves to another thread with its reference.           *)
Move(t, u, e) ==
  /\ pc[t] = "run" /\ refs[t][e] > 0 /\ refs[u][e] < MaxRefs /\ t # u
  /\ refs' = [refs EXCEPT ![t][e] = @ - 1, ![u][e] = @ + 1]
  /\ UNCHANGED <<list, refcount, buf, pc, ent, uninited, freed>>

(* atomic_fetch_add returned 1: this was the last reference.               *)
WasLast(n) == n = 1

av_buffer_unref(t, e) ==
  /\ pc[t] = "run" /\ refs[t][e] > 0
  /\ refs' = [refs EXCEPT ![t][e] = @ - 1]
  /\ buf' = [buf EXCEPT ![e] = @ - 1]
  /\ IF WasLast(buf[e]) THEN Goto(t, "push") /\ ent' = [ent EXCEPT ![t] = e]
                        ELSE UNCHANGED <<pc, ent>>
  /\ UNCHANGED <<list, refcount, uninited, freed>>

-----------------------------------------------------------------------------
(* pool_release_buffer, in the thread that dropped the last reference      *)

Push(t) ==
  /\ pc[t] = "push"
  /\ list' = <<ent[t]>> \o list
  /\ Goto(t, "release")
  /\ UNCHANGED <<refcount, buf, refs, ent, uninited, freed>>

(* The pool's count is lowered after the mutex is released; at zero, the   *)
(* pool is freed by this thread.                                           *)
Drop(t) ==
  /\ refcount' = refcount - 1
  /\ Goto(t, IF WasLast(refcount) THEN "free" ELSE "run")

ReleaseNoDrop(t) ==                                       \* mutant
  /\ pc[t] = "release"
  /\ Goto(t, "run")
  /\ UNCHANGED <<list, refcount, buf, refs, ent, uninited, freed>>

Release(t) ==
  /\ pc[t] = "release"
  /\ Drop(t)
  /\ UNCHANGED <<list, buf, refs, ent, uninited, freed>>

(* A thread is between taking a buffer and counting it.                    *)
Getting == \E t \in Threads : pc[t] = "count"

UninitAnyTime(t) ==                                       \* mutant
  /\ pc[t] = "run" /\ ~uninited
  /\ uninited' = TRUE
  /\ Drop(t)
  /\ UNCHANGED <<list, buf, refs, ent, freed>>

(* Called once, by any thread, and never while another one gets: the frame *)
(* threads get under the buffer_mutex (libavcodec/pthread_frame.c:910) in  *)
(* which update_frame_pool uninits the old pool (libavcodec/decode.c:1552),*)
(* and avcodec_close ends them before it uninits (libavcodec/utils.c:1108, *)
(* 1129).  Nothing in buffer.c itself keeps the two apart.                 *)
av_buffer_pool_uninit(t) ==
  /\ pc[t] = "run" /\ ~uninited /\ ~Getting
  /\ uninited' = TRUE
  /\ Drop(t)
  /\ UNCHANGED <<list, buf, refs, ent, freed>>

(* buffer_pool_free: the entries one by one, without the mutex.            *)
FreeEntry(t) ==
  /\ pc[t] = "free" /\ list # <<>>
  /\ list' = Tail(list)
  /\ UNCHANGED <<refcount, buf, refs, pc, ent, uninited, freed>>

FreePool(t) ==
  /\ pc[t] = "free" /\ list = <<>>
  /\ freed' = freed + 1
  /\ Goto(t, "run")
  /\ UNCHANGED <<list, refcount, buf, refs, ent, uninited>>

(* Nothing is left to do once every holder has let go.                     *)
Done ==
  /\ uninited /\ \A t \in Threads : pc[t] = "run"
  /\ \A t \in Threads, e \in Entries : refs[t][e] = 0
  /\ UNCHANGED vars

-----------------------------------------------------------------------------
Own(t) == Count(t) \/ Push(t) \/ Release(t) \/ FreeEntry(t) \/ FreePool(t)

Next ==
  \/ \E t \in Threads, e \in Entries :
       \/ Get(t, e) \/ av_buffer_ref(t, e) \/ av_buffer_unref(t, e)
       \/ \E u \in Threads : Move(t, u, e)
  \/ \E t \in Threads : av_buffer_pool_uninit(t) \/ Own(t)
  \/ Done

(* A function that was entered runs to its end.                            *)
Spec == Init /\ [][Next]_vars /\ \A t \in Threads : WF_vars(Own(t))

-----------------------------------------------------------------------------
(* Properties.                                                             *)

Pcs == {"run", "count", "push", "release", "free"}

(* TypeOK: and the pool is freed at most once.                             *)
TypeOK ==
  /\ list \in Seq(Entries)
  /\ refcount \in 0..(Cardinality(Entries) + Cardinality(Threads) + 1)
  /\ refs \in [Threads -> [Entries -> 0..MaxRefs]]
  /\ pc \in [Threads -> Pcs] /\ ent \in [Threads -> Entries]
  /\ uninited \in BOOLEAN /\ freed \in 0..1

Live(e) == buf[e] > 0 \/ \E t \in Threads : pc[t] = "push" /\ ent[t] = e

(* NoUseAfterFree: when a thread starts to free the pool no buffer of it   *)
(* is in use and no other thread is inside one of its functions.           *)
NoUseAfterFree ==
  /\ \A t, u \in Threads : pc[t] = "free" /\ u # t => pc[u] = "run"
  /\ freed > 0 => \A t \in Threads : pc[t] = "run"
  /\ (freed > 0 \/ \E t \in Threads : pc[t] = "free")
       => uninited /\ \A e \in Entries : ~Live(e)

(* SoleOwner: an entry waits in the pool at most once, and never while a   *)
(* thread has a reference to it: no two users write the same memory.       *)
SoleOwner ==
  /\ IsInjective(list)
  /\ \A e \in Entries :
       (buf[e] > 0 <=> \E t \in Threads : refs[t][e] > 0)
       /\ (e \in ToSet(list) => ~Live(e))

(* MemorySafe: no memory of the pool is used by two or after its release,  *)
(* although several threads get at once and av_buffer_pool_get counts a    *)
(* buffer after it has taken it, while others give theirs back.            *)
MemorySafe == TypeOK /\ NoUseAfterFree /\ SoleOwner

NoRefs == \A t \in Threads, e \in Entries : refs[t][e] = 0

(* NoLeak: once the pool is uninited and the last reference is gone,       *)
(* whichever came last, the pool is freed.                                 *)
NoLeak == (uninited /\ NoRefs) ~> freed > 0
=============================================================================
