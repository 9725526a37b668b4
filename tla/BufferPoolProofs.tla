-------------------------- MODULE BufferPoolProofs --------------------------
(***************************************************************************)
(* Proof that the pool of libavutil/buffer.c is memory safe, for any       *)
(* number of threads, entries and references.                              *)
(***************************************************************************)
EXTENDS BufferPool, FiniteSetTheorems, SequenceTheorems, TLAPS

-----------------------------------------------------------------------------
(***************************************************************************)
(* The inductive invariant.  A count is the cardinality of a set, so that  *)
(* an atomic operation on it adds or removes one element.                  *)
(***************************************************************************)

(* The references to a buffer: the first, the second... that each thread   *)
(* holds.  The count of the AVBuffer is their number.                      *)
HeldIn(r, e) == {h \in Threads \X (1..MaxRefs) : h[2] <= r[h[1]][e]}
Held(e) == HeldIn(refs, e)

Counted == \A e \in Entries : buf[e] = Cardinality(Held(e))

(* The pool's count: one until uninit, the buffers in use that their       *)
(* getters have counted, and the threads that have given one back and not  *)
(* yet counted it out.                                                     *)
Uncounted(e) == \E t \in Threads : pc[t] = "count" /\ ent[t] = e
LiveSet == {e \in Entries : Live(e) /\ ~Uncounted(e)}
Releasing == {t \in Threads : pc[t] = "release"}
One(b) == IF b THEN 1 ELSE 0

PoolCounted ==
  refcount = One(~uninited) + Cardinality(LiveSet) + Cardinality(Releasing)

Types ==
  /\ list \in Seq(Entries)
  /\ refcount \in Nat
  /\ buf \in [Entries -> Nat]
  /\ refs \in [Threads -> [Entries -> 0..MaxRefs]]
  /\ pc \in [Threads -> Pcs] /\ ent \in [Threads -> Entries]
  /\ uninited \in BOOLEAN /\ freed \in Nat

(* A buffer on its way back to the pool has no reference and one carrier.  *)
Pushing ==
  \A t \in Threads : pc[t] = "push" =>
    /\ buf[ent[t]] = 0
    /\ \A u \in Threads \ {t} : pc[u] = "push" => ent[u] # ent[t]

(* Between taking a buffer and counting it, its getter alone holds it.     *)
Counting ==
  \A t \in Threads : pc[t] = "count" =>
    /\ ~uninited /\ refs[t][ent[t]] > 0
    /\ \A u \in Threads \ {t} : pc[u] = "count" => ent[u] # ent[t]

Listed == IsInjective(list) /\ \A e \in ToSet(list) : ~Live(e)

(* Only one thread brings the count to zero. *)
Freeing ==
  /\ \A t \in Threads : pc[t] = "free" =>
       refcount = 0 /\ freed = 0 /\ \A u \in Threads \ {t} : pc[u] # "free"
  /\ freed > 0 => freed = 1 /\ refcount = 0 /\ \A t \in Threads : pc[t] # "free"

IInv ==
  /\ Types /\ Counted /\ PoolCounted /\ Pushing /\ Counting /\ Listed /\ Freeing

-----------------------------------------------------------------------------
(* Facts about the counts *)

RefsType == [Threads -> [Entries -> 0..MaxRefs]]

LEMMA HeldFinite ==
  ASSUME NEW r, NEW e \in Entries
  PROVE  /\ IsFiniteSet(HeldIn(r, e)) /\ Cardinality(HeldIn(r, e)) \in Nat
         /\ Cardinality(HeldIn(r, e)) = 0 <=> HeldIn(r, e) = {}
<1>1. IsFiniteSet(1..MaxRefs)
  BY FS_Interval, MaxRefsAssumption
<1>2. IsFiniteSet(Threads \X (1..MaxRefs))
  BY <1>1, FS_Product, FiniteAssumption
<1>3. HeldIn(r, e) \in SUBSET (Threads \X (1..MaxRefs))
  BY DEF HeldIn
<1>4. IsFiniteSet(HeldIn(r, e))
  BY <1>2, <1>3, FS_Subset
<1> QED
  BY <1>4, FS_CardinalityType, FS_EmptySet

LEMMA SetsFinite ==
  /\ IsFiniteSet(LiveSet) /\ Cardinality(LiveSet) \in 0..Cardinality(Entries)
  /\ IsFiniteSet(Releasing) /\ Cardinality(Releasing) \in 0..Cardinality(Threads)
<1>1. LiveSet \in SUBSET Entries /\ Releasing \in SUBSET Threads
  BY DEF LiveSet, Releasing
<1>2. /\ IsFiniteSet(LiveSet) /\ Cardinality(LiveSet) <= Cardinality(Entries)
      /\ IsFiniteSet(Releasing) /\ Cardinality(Releasing) <= Cardinality(Threads)
  BY <1>1, FS_Subset, FiniteAssumption
<1>3. /\ Cardinality(LiveSet) \in Nat /\ Cardinality(Releasing) \in Nat
      /\ Cardinality(Entries) \in Nat /\ Cardinality(Threads) \in Nat
  BY <1>2, FS_CardinalityType, FiniteAssumption
<1> QED
  BY <1>2, <1>3

(* A buffer is in use exactly when someone has a reference to it. *)
LEMMA UsedHeld ==
  ASSUME Types, Counted, NEW e \in Entries
  PROVE  buf[e] > 0 <=> \E t \in Threads : refs[t][e] > 0
<1>1. buf[e] > 0 <=> Held(e) # {}
  BY HeldFinite DEF Counted, Types, Held
<1>2. ASSUME NEW t \in Threads, refs[t][e] > 0 PROVE Held(e) # {}
  <2>1. <<t, 1>> \in Held(e)
    BY <1>2, MaxRefsAssumption DEF Held, HeldIn, Types
  <2> QED
    BY <2>1
<1>3. ASSUME Held(e) # {} PROVE \E t \in Threads : refs[t][e] > 0
  <2>1. PICK h \in Held(e) : TRUE
    BY <1>3
  <2>2. h[1] \in Threads /\ h[2] \in 1..MaxRefs /\ h[2] <= refs[h[1]][e]
    BY <2>1 DEF Held, HeldIn
  <2> QED
    BY <2>2 DEF Types
<1> QED
  BY <1>1, <1>2, <1>3

(* When the pool's count is zero nobody uses the pool or a buffer of it.   *)
LEMMA CountZero ==
  ASSUME IInv, refcount = 0
  PROVE  /\ uninited
         /\ \A e \in Entries : ~Live(e) /\ \A t \in Threads : refs[t][e] = 0
         /\ \A t \in Threads : pc[t] \in {"run", "free"}
<1> USE DEF IInv
<1>1. Cardinality(LiveSet) \in Nat /\ Cardinality(Releasing) \in Nat
  BY SetsFinite
<1>3. uninited /\ Cardinality(LiveSet) = 0 /\ Cardinality(Releasing) = 0
  BY <1>1 DEF PoolCounted, One, Types
<1>2. \A t \in Threads : pc[t] # "count"
  BY <1>3 DEF Counting
<1>4. LiveSet = {} /\ Releasing = {}
  BY <1>3, SetsFinite, FS_EmptySet
<1>5. \A e \in Entries : ~Live(e)
  BY <1>2, <1>4 DEF LiveSet, Uncounted
<1>6. \A e \in Entries, t \in Threads : refs[t][e] = 0
  <2> TAKE e \in Entries, t \in Threads
  <2>1. ~(buf[e] > 0)
    BY <1>5 DEF Live
  <2>2. ~(refs[t][e] > 0)
    BY <2>1, UsedHeld
  <2> QED
    BY <2>2 DEF Types
<1>7. ASSUME NEW t \in Threads PROVE pc[t] \in {"run", "free"}
  <2>1. pc[t] # "release"
    BY <1>4 DEF Releasing
  <2>2. pc[t] # "push"
    BY <1>5 DEF Live, Types
  <2>3. pc[t] # "count"
    BY <1>2
  <2> QED
    BY <2>1, <2>2, <2>3 DEF Types, Pcs
<1> QED
  BY <1>3, <1>5, <1>6, <1>7

-----------------------------------------------------------------------------
(* The sets behind the counts, one step later *)

(* The references to a buffer after one more, and after one less. *)
LEMMA HeldMore ==
  ASSUME NEW q \in RefsType, NEW t \in Threads, NEW e \in Entries, q[t][e] < MaxRefs,
         NEW r, r = [q EXCEPT ![t][e] = @ + 1]
  PROVE  r \in RefsType /\ Cardinality(HeldIn(r, e)) = Cardinality(HeldIn(q, e)) + 1
<1> DEFINE x == <<t, q[t][e] + 1>>
<1>1. r \in RefsType
  BY MaxRefsAssumption DEF RefsType
<1>2. x \in Threads \X (1..MaxRefs) /\ x \notin HeldIn(q, e)
  BY MaxRefsAssumption DEF RefsType, HeldIn
<1>3. ASSUME NEW h \in Threads \X (1..MaxRefs)
      PROVE  h[2] <= r[h[1]][e] <=> h[2] <= q[h[1]][e] \/ h = x
  <2>1. h[1] \in Threads /\ h[2] \in 1..MaxRefs /\ h = <<h[1], h[2]>>
    OBVIOUS
  <2>2. CASE h[1] = t
    <3>1. r[h[1]][e] = q[t][e] + 1 /\ q[t][e] \in Nat
      BY <2>2 DEF RefsType
    <3> QED
      BY <2>1, <2>2, <3>1, MaxRefsAssumption
  <2>3. CASE h[1] # t
    <3>1. r[h[1]][e] = q[h[1]][e]
      BY <2>1, <2>3 DEF RefsType
    <3> QED
      BY <2>1, <2>3, <3>1
  <2> QED
    BY <2>2, <2>3
<1>4. HeldIn(r, e) = HeldIn(q, e) \cup {x}
  BY <1>2, <1>3 DEF HeldIn
<1> HIDE DEF x
<1> QED
  BY <1>1, <1>2, <1>4, HeldFinite, FS_AddElement

LEMMA HeldLess ==
  ASSUME NEW q \in RefsType, NEW t \in Threads, NEW e \in Entries, q[t][e] > 0,
         NEW r, r = [q EXCEPT ![t][e] = @ - 1]
  PROVE  r \in RefsType /\ Cardinality(HeldIn(r, e)) = Cardinality(HeldIn(q, e)) - 1
<1> DEFINE x == <<t, q[t][e]>>
<1>1. r \in RefsType
  BY MaxRefsAssumption DEF RefsType
<1>2. x \in HeldIn(q, e)
  BY MaxRefsAssumption DEF RefsType, HeldIn
<1>3. ASSUME NEW h \in Threads \X (1..MaxRefs)
      PROVE  h[2] <= r[h[1]][e] <=> h[2] <= q[h[1]][e] /\ h # x
  <2>1. h[1] \in Threads /\ h[2] \in 1..MaxRefs /\ h = <<h[1], h[2]>>
    OBVIOUS
  <2>2. CASE h[1] = t
    <3>1. r[h[1]][e] = q[t][e] - 1 /\ q[t][e] \in Nat
      BY <2>2 DEF RefsType
    <3> QED
      BY <2>1, <2>2, <3>1, MaxRefsAssumption
  <2>3. CASE h[1] # t
    <3>1. r[h[1]][e] = q[h[1]][e]
      BY <2>1, <2>3 DEF RefsType
    <3> QED
      BY <2>1, <2>3, <3>1
  <2> QED
    BY <2>2, <2>3
<1>4. HeldIn(r, e) = HeldIn(q, e) \ {x}
  BY <1>2, <1>3 DEF HeldIn
<1> HIDE DEF x
<1> QED
  BY <1>1, <1>2, <1>4, HeldFinite, FS_RemoveElement, ZenonT(40)

(* Nothing counted changes when the references to a buffer do not. *)
LEMMA HeldSame ==
  ASSUME NEW e \in Entries, \A t \in Threads : refs'[t][e] = refs[t][e]
  PROVE  Held(e)' = Held(e)
<1>1. ASSUME NEW h \in Threads \X (1..MaxRefs) PROVE refs'[h[1]][e] = refs[h[1]][e]
  OBVIOUS
<1> QED
  BY <1>1 DEF Held, HeldIn

-----------------------------------------------------------------------------
(* One lemma per action *)

LEMMA GetStep ==
  ASSUME IInv, NEW t \in Threads, NEW e \in Entries, Get(t, e)
  PROVE  IInv'
<1> USE DEF IInv
<1>1. ~Live(e)
  <2>1. CASE list # <<>>
    <3>1. e = list[1] /\ 1 \in DOMAIN list
      BY <2>1 DEF Get, Types
    <3>2. e \in ToSet(list)
      BY <3>1 DEF ToSet
    <3> QED
      BY <3>2 DEF Listed
  <2>2. CASE list = <<>>
    BY <2>2 DEF Get, Fresh, Live, Types
  <2> QED
    BY <2>1, <2>2
<1>2. buf[e] = 0 /\ \A u \in Threads : refs[u][e] = 0 /\ ~(pc[u] = "push" /\ ent[u] = e)
  <2>1. ~(buf[e] > 0) /\ \A u \in Threads : ~(pc[u] = "push" /\ ent[u] = e)
    BY <1>1 DEF Live
  <2>2. \A u \in Threads : ~(refs[u][e] > 0)
    BY <2>1, UsedHeld
  <2> QED
    BY <2>1, <2>2 DEF Types
<1>3. Types'
  <2>1. list' \in Seq(Entries)
    <3>1. list # <<>> => Tail(list) \in Seq(Entries)
      BY DEF Types
    <3> QED
      BY <3>1 DEF Types, Get
  <2>2. refs' \in [Threads -> [Entries -> 0..MaxRefs]]
    BY MaxRefsAssumption DEF Types, Get
  <2> QED
    BY <2>1, <2>2 DEF Types, Get, Goto, Pcs
<1>4. Counted'
  <2> SUFFICES ASSUME NEW f \in Entries PROVE buf'[f] = Cardinality(Held(f)')
    BY DEF Counted
  <2>1. CASE f = e
    <3>1. refs' = [refs EXCEPT ![t][e] = @ + 1]
      <4>1. refs[t][e] + 1 = 1
        BY <1>2
      <4> QED
        BY <4>1 DEF Get
    <3>2. Cardinality(Held(e)') = Cardinality(Held(e)) + 1
      <4>1. refs \in RefsType /\ refs[t][e] < MaxRefs
        BY <1>2, MaxRefsAssumption DEF Types, RefsType
      <4> QED
        BY <3>1, <4>1, HeldMore DEF Held
    <3>3. Cardinality(Held(e)) = 0
      BY <1>2 DEF Counted
    <3> QED
      BY <2>1, <3>2, <3>3 DEF Get, Types
  <2>2. CASE f # e
    <3>1. Held(f)' = Held(f)
      BY <2>2, HeldSame DEF Get, Types
    <3> QED
      BY <2>2, <3>1 DEF Get, Types, Counted
  <2> QED
    BY <2>1, <2>2
<1>5. LiveSet' = LiveSet
  <2>1. ASSUME NEW f \in Entries, f # e
        PROVE  (Live(f)' <=> Live(f)) /\ (Uncounted(f)' <=> Uncounted(f))
    BY <2>1 DEF Live, Uncounted, Get, Goto, Types
  <2>2. Uncounted(e)'
    BY DEF Uncounted, Get, Goto, Types
  <2> QED
    BY <1>1, <2>1, <2>2 DEF LiveSet
<1>6. Releasing' = Releasing
  BY DEF Releasing, Get, Goto, Types
<1>7. PoolCounted'
  BY <1>5, <1>6 DEF PoolCounted, Get
<1>8. Pushing'
  BY <1>2 DEF Pushing, Get, Goto, Types
<1>9. Counting'
  <2>1. \A u \in Threads : pc[u] = "count" => ent[u] # e
    BY <1>2 DEF Counting
  <2> QED
    BY <2>1 DEF Counting, Get, Goto, Types
<1>10. Listed'
  <2>1. IsInjective(list') /\ e \notin ToSet(list') /\ ToSet(list') \subseteq ToSet(list)
    <3>1. CASE list # <<>>
      <4>1. /\ e = list[1] /\ list' = Tail(list) /\ Len(list) \in Nat /\ Len(list) > 0
            /\ DOMAIN list = 1..Len(list)
        BY <3>1 DEF Get, Types
      <4>2. /\ DOMAIN list' = 1..(Len(list) - 1)
            /\ \A n \in DOMAIN list' : n + 1 \in DOMAIN list /\ list'[n] = list[n + 1]
        BY <4>1, <3>1 DEF Types
      <4>3. IsInjective(list')
        BY <4>1, <4>2 DEF IsInjective, Listed
      <4>4. ToSet(list') \subseteq ToSet(list)
        BY <4>2 DEF ToSet
      <4>5. e \notin ToSet(list')
        BY <4>1, <4>2 DEF ToSet, IsInjective, Listed
      <4> QED
        BY <4>3, <4>4, <4>5
    <3>2. CASE list = <<>>
      BY <3>2 DEF Get, Types, ToSet, IsInjective
    <3> QED
      BY <3>1, <3>2
  <2>2. ASSUME NEW f \in ToSet(list') PROVE ~Live(f)'
    <3>1. f # e /\ f \in ToSet(list) /\ f \in Entries
      <4>1. list \in Seq(Entries) /\ f \in ToSet(list) /\ f # e
        BY <2>1, <2>2 DEF Types
      <4>2. \A n \in DOMAIN list : list[n] \in Entries
        BY <4>1
      <4> QED
        BY <4>1, <4>2 DEF ToSet
    <3> QED
      BY <3>1 DEF Listed, Live, Get, Goto, Types
  <2> QED
    BY <2>1, <2>2 DEF Listed
<1>11. Freeing'
  <2>1. refcount # 0
    BY CountZero DEF Get
  <2> QED
    BY <2>1 DEF Freeing, Get, Goto, Types
<1> QED
  BY <1>3, <1>4, <1>7, <1>8, <1>9, <1>10, <1>11

LEMMA CountStep ==
  ASSUME IInv, NEW t \in Threads, Count(t)
  PROVE  IInv'
<1> USE DEF IInv, Count, Goto
<1>1. Types'
  BY DEF Types, Pcs
<1>2. Counted'
  BY HeldSame DEF Counted
<1>3. LiveSet' = LiveSet \cup {ent[t]} /\ ent[t] \notin LiveSet
  <2>1. \A f \in Entries : Live(f)' <=> Live(f)
    BY DEF Live, Types
  <2>2. \A f \in Entries : Uncounted(f)' <=> Uncounted(f) /\ f # ent[t]
    BY DEF Uncounted, Counting, Types
  <2>3. ent[t] \in Entries /\ Uncounted(ent[t]) /\ Live(ent[t])
    BY UsedHeld DEF Uncounted, Counting, Types, Live
  <2> QED
    BY <2>1, <2>2, <2>3 DEF LiveSet
<1>31. Releasing' = Releasing
  BY DEF Releasing, Types
<1>4. PoolCounted'
  <2>1. Cardinality(LiveSet') = Cardinality(LiveSet) + 1
    BY <1>3, SetsFinite, FS_AddElement
  <2> QED
    BY <1>31, <2>1, SetsFinite DEF PoolCounted, One, Types
<1>5. Pushing' /\ Counting'
  BY DEF Pushing, Counting, Types
<1>6. Listed'
  BY DEF Listed, Live, Types
<1>7. Freeing'
  <2>1. refcount # 0
    BY CountZero
  <2> QED
    BY <2>1 DEF Freeing, Types
<1> QED
  BY <1>1, <1>2, <1>4, <1>5, <1>6, <1>7

LEMMA RefStep ==
  ASSUME IInv, NEW t \in Threads, NEW e \in Entries, av_buffer_ref(t, e)
  PROVE  IInv'
<1> USE DEF IInv, av_buffer_ref
<1>1. buf[e] > 0 /\ refs[t][e] < MaxRefs /\ refs[t][e] \in Nat
  BY UsedHeld, MaxRefsAssumption DEF Types
<1>2. Types'
  BY <1>1, MaxRefsAssumption DEF Types
<1>3. Counted'
  <2> SUFFICES ASSUME NEW f \in Entries PROVE buf'[f] = Cardinality(Held(f)')
    BY DEF Counted
  <2>1. CASE f = e
    <3>1. Cardinality(Held(e)') = Cardinality(Held(e)) + 1
      <4>1. refs \in RefsType /\ refs' = [refs EXCEPT ![t][e] = @ + 1]
        BY DEF Types, RefsType
      <4> HIDE DEF IInv, av_buffer_ref
      <4> QED
        BY <1>1, <4>1, HeldMore DEF Held
    <3> QED
      BY <2>1, <3>1 DEF Counted, Types
  <2>2. CASE f # e
    <3>1. Held(f)' = Held(f)
      BY <2>2, HeldSame DEF Types
    <3> QED
      BY <2>2, <3>1 DEF Types, Counted
  <2> QED
    BY <2>1, <2>2
<1>4. \A f \in Entries : Live(f)' <=> Live(f)
  BY <1>1 DEF Live, Types
<1>5. LiveSet' = LiveSet /\ Releasing' = Releasing
  BY <1>4 DEF LiveSet, Uncounted, Releasing
<1>6. PoolCounted'
  BY <1>5 DEF PoolCounted
<1>7. Pushing'
  BY <1>1 DEF Pushing, Types
<1>8. Counting'
  BY <1>1 DEF Counting, Types
<1>9. Listed'
  BY <1>4 DEF Listed, Types, ToSet
<1>10. Freeing'
  BY DEF Freeing
<1> QED
  BY <1>2, <1>3, <1>6, <1>7, <1>8, <1>9, <1>10

(* A reference that changes hands is one less and one more. *)
LEMMA MoveStep ==
  ASSUME IInv, NEW t \in Threads, NEW u \in Threads, NEW e \in Entries, Move(t, u, e)
  PROVE  IInv'
<1> USE DEF IInv, Move
<1> DEFINE q == [refs EXCEPT ![t][e] = @ - 1]
<1>1. refs \in RefsType /\ refs[t][e] > 0
  BY DEF Types, RefsType
<1>2. q \in RefsType /\ Cardinality(HeldIn(q, e)) = Cardinality(Held(e)) - 1
  BY <1>1, HeldLess DEF Held
<1>3. refs' = [q EXCEPT ![u][e] = @ + 1] /\ q[u][e] < MaxRefs
  BY DEF Types
<1> HIDE DEF q
<1>4. refs' \in RefsType /\ Cardinality(HeldIn(refs', e)) = Cardinality(HeldIn(q, e)) + 1
  <2> HIDE DEF IInv, Move
  <2> QED
    BY <1>2, <1>3, HeldMore
<1>5. Types'
  BY <1>4 DEF Types, RefsType
<1>6. Counted'
  <2> SUFFICES ASSUME NEW f \in Entries PROVE buf'[f] = Cardinality(Held(f)')
    BY DEF Counted
  <2>1. CASE f = e
    <3>1. Cardinality(Held(e)) \in Nat
      BY HeldFinite DEF Held
    <3> QED
      BY <1>2, <1>4, <2>1, <3>1 DEF Counted, Held
  <2>2. CASE f # e
    <3>1. Held(f)' = Held(f)
      BY <2>2, HeldSame DEF Types
    <3> QED
      BY <2>2, <3>1 DEF Counted
  <2> QED
    BY <2>1, <2>2
<1>7. \A f \in Entries : Live(f)' <=> Live(f)
  BY DEF Live
<1>8. LiveSet' = LiveSet /\ Releasing' = Releasing
  BY <1>7 DEF LiveSet, Uncounted, Releasing
<1>9. PoolCounted'
  BY <1>8 DEF PoolCounted
<1>10. Pushing'
  BY DEF Pushing
<1>11. Counting'
  <2>1. ASSUME NEW v \in Threads, pc[v] = "count" PROVE refs'[v][ent[v]] > 0
    <3>1. v # t /\ refs[v][ent[v]] > 0 /\ ent[v] \in Entries
      BY <2>1 DEF Counting, Types
    <3>2. refs[v] \in [Entries -> 0..MaxRefs]
      BY DEF Types
    <3>3. refs'[v] = IF v = u THEN [refs[v] EXCEPT ![e] = @ + 1] ELSE refs[v]
      BY <3>1 DEF Types
    <3> HIDE DEF Move
    <3> QED
      BY <3>1, <3>2, <3>3, MaxRefsAssumption
  <2> QED
    BY <2>1 DEF Counting
<1>12. Listed'
  <2>1. \A f \in ToSet(list) : f \in Entries
    BY DEF Types, ToSet
  <2> QED
    BY <1>7, <2>1 DEF Listed
<1>13. Freeing'
  BY DEF Freeing
<1> QED
  BY <1>5, <1>6, <1>9, <1>10, <1>11, <1>12, <1>13

(* The last reference to go leaves the buffer in the hands of its thread.  *)
LEMMA UnrefStep ==
  ASSUME IInv, NEW t \in Threads, NEW e \in Entries, av_buffer_unref(t, e)
  PROVE  IInv'
<1> USE DEF IInv, av_buffer_unref, WasLast, Goto
<1>1. refs \in RefsType /\ refs[t][e] > 0
  BY DEF Types, RefsType
<1>2. refs' \in RefsType /\ Cardinality(HeldIn(refs', e)) = Cardinality(Held(e)) - 1
  BY <1>1, HeldLess DEF Held
<1>3. buf[e] > 0 /\ buf[e] \in Nat
  BY UsedHeld DEF Types
<1>4. Types'
  <2>1. buf' \in [Entries -> Nat]
    BY <1>3 DEF Types
  <2>2. pc' \in [Threads -> Pcs] /\ ent' \in [Threads -> Entries]
    BY DEF Types, Pcs
  <2> QED
    BY <1>2, <2>1, <2>2 DEF Types, RefsType
<1>5. Counted'
  <2> SUFFICES ASSUME NEW f \in Entries PROVE buf'[f] = Cardinality(Held(f)')
    BY DEF Counted
  <2>1. CASE f = e
    BY <1>2, <2>1 DEF Counted, Held, Types
  <2>2. CASE f # e
    <3>1. Held(f)' = Held(f)
      BY <2>2, HeldSame DEF Types
    <3> QED
      BY <2>2, <3>1 DEF Counted, Types
  <2> QED
    BY <2>1, <2>2
<1>6. ASSUME NEW f \in Entries PROVE Live(f)' <=> Live(f)
  <2>1. CASE buf[e] = 1
    <3>1. /\ pc' = [pc EXCEPT ![t] = "push"] /\ ent' = [ent EXCEPT ![t] = e]
          /\ pc[t] = "run" /\ buf' = [buf EXCEPT ![e] = 0]
      BY <2>1
    <3>2. CASE f = e
      BY <1>3, <3>1, <3>2 DEF Live, Types
    <3>3. CASE f # e
      BY <3>1, <3>3 DEF Live, Types
    <3> QED
      BY <3>2, <3>3
  <2>2. CASE buf[e] # 1
    BY <1>3, <2>2 DEF Live, Types
  <2> QED
    BY <2>1, <2>2
<1>7. LiveSet' = LiveSet /\ Releasing' = Releasing
  <2>1. \A f \in Entries : Uncounted(f)' <=> Uncounted(f)
    BY DEF Uncounted, Types
  <2> QED
    BY <1>6, <2>1 DEF LiveSet, Releasing, Types
<1>8. PoolCounted'
  BY <1>7 DEF PoolCounted
<1>9. Pushing'
  <2>1. \A u \in Threads : pc[u] = "push" => ent[u] # e
    BY <1>3 DEF Pushing
  <2>2. \A f \in Entries : buf[f] = 0 => f # e /\ buf'[f] = 0
    BY <1>3 DEF Types
  <2>3. CASE buf[e] = 1
    <3>1. /\ pc' = [pc EXCEPT ![t] = "push"] /\ ent' = [ent EXCEPT ![t] = e]
          /\ pc[t] = "run" /\ buf'[e] = 0
      BY <2>3, SMTT(30) DEF Types
    <3> QED
      BY <2>1, <2>2, <3>1 DEF Pushing, Types
  <2>4. CASE buf[e] # 1
    BY <2>2, <2>4 DEF Pushing, Types
  <2> QED
    BY <2>3, <2>4
<1>10. Counting'
  <2>1. \A u \in Threads : pc'[u] = "count" =>
          pc[u] = "count" /\ u # t /\ ent'[u] = ent[u] /\ refs'[u] = refs[u]
    BY DEF Types
  <2> QED
    BY <2>1, SMTT(60) DEF Counting, Types
<1>11. Listed'
  <2>1. \A f \in ToSet(list) : f \in Entries
    BY DEF Types, ToSet
  <2> QED
    BY <1>6, <2>1 DEF Listed
<1>12. Freeing'
  BY DEF Freeing, Types
<1> QED
  BY <1>4, <1>5, <1>8, <1>9, <1>10, <1>11, <1>12

(* The entry returns to the pool; its thread is still counted. *)
LEMMA PushStep ==
  ASSUME IInv, NEW t \in Threads, Push(t)
  PROVE  IInv'
<1> USE DEF IInv, Push, Goto
<1> DEFINE e == ent[t]
<1>1. e \in Entries /\ buf[e] = 0 /\ Live(e)
  BY DEF Types, Pushing, Live
<1>2. \A u \in Threads \ {t} : pc[u] = "push" => ent[u] # e
  BY DEF Pushing
<1>3. Types'
  <2>1. list' \in Seq(Entries)
    BY <1>1 DEF Types
  <2> QED
    BY <2>1 DEF Types, Pcs
<1>4. Counted'
  BY HeldSame DEF Counted
<1>5. \A f \in Entries : Live(f)' <=> Live(f) /\ f # e
  BY <1>1, <1>2 DEF Live, Types
<1>6. LiveSet' = LiveSet \ {e} /\ e \in LiveSet
  <2>1. \A f \in Entries : Uncounted(f)' <=> Uncounted(f)
    BY DEF Uncounted, Types
  <2>2. ~Uncounted(e)
    <3>1. \A u \in Threads : ~(refs[u][e] > 0)
      <4>1. ~(buf[e] > 0)
        BY <1>1
      <4> HIDE DEF e
      <4> QED
        BY <1>1, <4>1, UsedHeld
    <3> QED
      BY <3>1 DEF Uncounted, Counting
  <2> QED
    BY <1>1, <1>5, <2>1, <2>2 DEF LiveSet
<1>7. Releasing' = Releasing \cup {t} /\ t \notin Releasing
  BY DEF Releasing, Types
<1>8. PoolCounted'
  <2>1. Cardinality(LiveSet') = Cardinality(LiveSet) - 1
    BY <1>6, SetsFinite, FS_RemoveElement
  <2>2. Cardinality(Releasing') = Cardinality(Releasing) + 1
    BY <1>7, SetsFinite, FS_AddElement
  <2>3. Cardinality(LiveSet) \in Nat /\ Cardinality(Releasing) \in Nat
    BY SetsFinite
  <2>4. refcount' = refcount /\ uninited' = uninited /\ One(~uninited) \in Nat
    BY DEF One
  <2> QED
    BY <2>1, <2>2, <2>3, <2>4 DEF PoolCounted
<1>9. Pushing'
  BY DEF Pushing, Types
<1>10. Counting'
  BY DEF Counting, Types
<1>11. Listed'
  <2>1. list \in Seq(Entries) /\ Len(list) \in Nat /\ DOMAIN list = 1..Len(list)
    BY DEF Types
  <2>2. /\ DOMAIN list' = 1..(Len(list) + 1) /\ list'[1] = e
        /\ \A n \in 2..(Len(list) + 1) : list'[n] = list[n - 1]
    BY <1>1, <2>1
  <2>3. e \notin ToSet(list)
    BY <1>1 DEF Listed
  <2>4. IsInjective(list')
    <3> SUFFICES ASSUME NEW a \in 1..(Len(list) + 1), NEW b \in 1..(Len(list) + 1),
                        list'[a] = list'[b]
                 PROVE  a = b
      BY <2>2 DEF IsInjective
    <3>1. \A n \in 2..(Len(list) + 1) : n - 1 \in DOMAIN list /\ list'[n] # e
      <4> TAKE n \in 2..(Len(list) + 1)
      <4>1. n - 1 \in DOMAIN list
        BY <2>1
      <4>2. list'[n] \in ToSet(list)
        BY <2>2, <4>1 DEF ToSet
      <4> QED
        BY <2>3, <4>1, <4>2
    <3>2. CASE a = 1 \/ b = 1
      BY <2>1, <2>2, <3>1, <3>2
    <3>3. CASE a # 1 /\ b # 1
      <4>1. a \in 2..(Len(list) + 1) /\ b \in 2..(Len(list) + 1)
        BY <2>1, <3>3
      <4>2. list[a - 1] = list[b - 1]
        BY <2>2, <4>1
      <4>3. a - 1 = b - 1
        BY <3>1, <4>1, <4>2 DEF Listed, IsInjective
      <4> QED
        BY <2>1, <4>1, <4>3
    <3> QED
      BY <3>2, <3>3
  <2>5. ASSUME NEW f \in ToSet(list') PROVE f \in Entries /\ ~Live(f)'
    <3>1. PICK n \in 1..(Len(list) + 1) : f = list'[n]
      BY <2>2, <2>5 DEF ToSet
    <3>2. f = e \/ f \in ToSet(list)
      BY <2>1, <2>2, <3>1 DEF ToSet
    <3>3. \A g \in ToSet(list) : g \in Entries
      BY <2>1 DEF ToSet
    <3> QED
      BY <1>1, <1>5, <3>2, <3>3 DEF Listed
  <2> QED
    BY <2>4, <2>5 DEF Listed
<1>12. Freeing'
  BY DEF Freeing, Types
<1> QED
  BY <1>3, <1>4, <1>8, <1>9, <1>10, <1>11, <1>12

(* Whoever brings the count to zero is the only one to have done so.       *)
LEMMA DropFreeing ==
  ASSUME IInv, NEW t \in Threads, Drop(t), refcount > 0, freed' = freed
  PROVE  Freeing'
<1> USE DEF IInv, Drop, WasLast, Goto
<1>1. freed = 0 /\ \A u \in Threads : pc[u] # "free"
  BY DEF Freeing, Types
<1>2. CASE refcount = 1
  BY <1>1, <1>2 DEF Freeing, Types
<1>3. CASE refcount # 1
  BY <1>1, <1>3 DEF Freeing, Types
<1> QED
  BY <1>2, <1>3

LEMMA ReleaseStep ==
  ASSUME IInv, NEW t \in Threads, Release(t)
  PROVE  IInv'
<1> USE DEF IInv, Release, Goto
<1> DEFINE l == IF WasLast(refcount) THEN "free" ELSE "run"
<1>1. pc' = [pc EXCEPT ![t] = l] /\ l \in {"free", "run"} /\ refcount' = refcount - 1
  BY DEF Drop
<1> HIDE DEF l
<1>2. refcount > 0
  <2>1. refcount # 0
    BY CountZero
  <2> QED
    BY <2>1 DEF Types
<1>3. Types'
  BY <1>1, <1>2 DEF Types, Pcs
<1>4. Counted'
  BY HeldSame DEF Counted
<1>5. \A f \in Entries : Live(f)' <=> Live(f)
  BY <1>1 DEF Live, Types
<1>6. LiveSet' = LiveSet
  <2>1. \A f \in Entries : Uncounted(f)' <=> Uncounted(f)
    BY <1>1 DEF Uncounted, Types
  <2> QED
    BY <1>5, <2>1 DEF LiveSet
<1>7. Releasing' = Releasing \ {t} /\ t \in Releasing
  BY <1>1 DEF Releasing, Types
<1>8. PoolCounted'
  <2>1. Cardinality(Releasing') = Cardinality(Releasing) - 1
    BY <1>7, SetsFinite, FS_RemoveElement
  <2>2. Cardinality(LiveSet) \in Nat /\ Cardinality(Releasing) \in Nat /\ refcount \in Nat
    BY SetsFinite DEF Types
  <2>3. One(~uninited) \in Nat /\ uninited' = uninited
    BY DEF One
  <2>4. PoolCounted
    OBVIOUS
  <2> HIDE DEF IInv, Release
  <2> QED
    BY <1>1, <1>6, <2>1, <2>2, <2>3, <2>4 DEF PoolCounted
<1>9. Pushing' /\ Counting'
  BY <1>1 DEF Pushing, Counting, Types
<1>10. Listed'
  <2>1. \A f \in ToSet(list) : f \in Entries
    BY DEF Types, ToSet
  <2> QED
    BY <1>5, <2>1 DEF Listed
<1>11. Freeing'
  BY <1>2, DropFreeing
<1> QED
  BY <1>3, <1>4, <1>8, <1>9, <1>10, <1>11

LEMMA UninitStep ==
  ASSUME IInv, NEW t \in Threads, av_buffer_pool_uninit(t)
  PROVE  IInv'
<1> USE DEF IInv, av_buffer_pool_uninit, Goto
<1> DEFINE l == IF WasLast(refcount) THEN "free" ELSE "run"
<1>1. pc' = [pc EXCEPT ![t] = l] /\ l \in {"free", "run"} /\ refcount' = refcount - 1
  BY DEF Drop
<1> HIDE DEF l
<1>2. refcount > 0
  BY CountZero DEF Types
<1>3. Types'
  BY <1>1, <1>2 DEF Types, Pcs
<1>4. Counted'
  BY HeldSame DEF Counted
<1>5. \A f \in Entries : Live(f)' <=> Live(f)
  BY <1>1 DEF Live, Types
<1>6. LiveSet' = LiveSet /\ Releasing' = Releasing
  <2>1. \A f \in Entries : Uncounted(f)' <=> Uncounted(f)
    BY <1>1 DEF Uncounted, Types
  <2> QED
    BY <1>1, <1>5, <2>1 DEF LiveSet, Releasing, Types
<1>7. PoolCounted'
  BY <1>1, <1>6, SetsFinite DEF PoolCounted, Types, One
<1>8. Pushing' /\ Counting'
  BY <1>1 DEF Pushing, Counting, Getting, Types
<1>9. Listed'
  <2>1. \A f \in ToSet(list) : f \in Entries
    BY DEF Types, ToSet
  <2> QED
    BY <1>5, <2>1 DEF Listed
<1>10. Freeing'
  BY <1>2, DropFreeing
<1> QED
  BY <1>3, <1>4, <1>7, <1>8, <1>9, <1>10

LEMMA FreeEntryStep ==
  ASSUME IInv, NEW t \in Threads, FreeEntry(t)
  PROVE  IInv'
<1> USE DEF IInv, FreeEntry
<1>1. /\ list \in Seq(Entries) /\ Len(list) \in Nat /\ Len(list) > 0
      /\ DOMAIN list = 1..Len(list) /\ list' \in Seq(Entries)
      /\ DOMAIN list' = 1..(Len(list) - 1)
      /\ \A n \in DOMAIN list' : n + 1 \in DOMAIN list /\ list'[n] = list[n + 1]
  BY DEF Types
<1>2. Types'
  BY <1>1 DEF Types
<1>3. Counted'
  BY HeldSame DEF Counted
<1>4. LiveSet' = LiveSet /\ Releasing' = Releasing
  BY DEF LiveSet, Live, Uncounted, Releasing
<1>5. PoolCounted'
  BY <1>4 DEF PoolCounted
<1>6. Pushing' /\ Counting' /\ Freeing'
  BY DEF Pushing, Counting, Freeing
<1>7. Listed'
  <2>1. IsInjective(list')
    BY <1>1 DEF IsInjective, Listed
  <2>2. ToSet(list') \subseteq ToSet(list)
    BY <1>1 DEF ToSet
  <2> QED
    BY <2>1, <2>2 DEF Listed, Live
<1> QED
  BY <1>2, <1>3, <1>5, <1>6, <1>7

LEMMA FreePoolStep ==
  ASSUME IInv, NEW t \in Threads, FreePool(t)
  PROVE  IInv'
<1> USE DEF IInv, FreePool, Goto
<1>1. Types'
  BY DEF Types, Pcs
<1>2. Counted'
  BY HeldSame DEF Counted
<1>3. \A f \in Entries : Live(f)' <=> Live(f)
  BY DEF Live, Types
<1>4. LiveSet' = LiveSet /\ Releasing' = Releasing
  <2>1. \A f \in Entries : Uncounted(f)' <=> Uncounted(f)
    BY DEF Uncounted, Types
  <2> QED
    BY <1>3, <2>1 DEF LiveSet, Releasing, Types
<1>5. PoolCounted'
  BY <1>4 DEF PoolCounted
<1>6. Pushing' /\ Counting'
  BY DEF Pushing, Counting, Types
<1>7. Listed'
  BY DEF Listed, ToSet, IsInjective
<1>8. Freeing'
  BY DEF Freeing, Types
<1> QED
  BY <1>1, <1>2, <1>5, <1>6, <1>7, <1>8

-----------------------------------------------------------------------------
(* The theorems *)

LEMMA InitInv == ASSUME Init PROVE IInv
<1> USE DEF Init
<1>1. Types
  <2>1. ent \in [Threads -> Entries] /\ pc \in [Threads -> Pcs] /\ list \in Seq(Entries)
    BY DEF Pcs
  <2>2. refs \in [Threads -> [Entries -> 0..MaxRefs]]
    BY MaxRefsAssumption
  <2> QED
    BY <2>1, <2>2 DEF Types
<1>2. Counted
  <2> SUFFICES ASSUME NEW e \in Entries PROVE 0 = Cardinality(Held(e))
    BY DEF Counted
  <2>1. Held(e) = {}
    <3> SUFFICES ASSUME NEW h \in Held(e) PROVE FALSE
      OBVIOUS
    <3>1. h[1] \in Threads /\ h[2] \in 1..MaxRefs /\ h[2] <= refs[h[1]][e]
      BY DEF Held, HeldIn
    <3> QED
      BY <3>1
  <2> QED
    BY <2>1, FS_EmptySet
<1>3. PoolCounted
  <2>1. LiveSet = {} /\ Releasing = {}
    BY DEF LiveSet, Live, Releasing
  <2> QED
    BY <2>1, FS_EmptySet DEF PoolCounted, One
<1>4. Pushing /\ Counting /\ Listed /\ Freeing
  BY DEF Pushing, Counting, Listed, Freeing, IsInjective, ToSet
<1> QED
  BY <1>1, <1>2, <1>3, <1>4 DEF IInv

LEMMA QuietInv == ASSUME IInv, UNCHANGED vars PROVE IInv'
<1>1. Counted' /\ PoolCounted'
  BY DEF IInv, Counted, Held, PoolCounted, LiveSet, Live, Uncounted, Releasing, vars
<1>2. Types' /\ Pushing' /\ Counting' /\ Listed' /\ Freeing'
  BY DEF IInv, Types, Pushing, Counting, Listed, Live, Freeing, vars
<1> QED
  BY <1>1, <1>2 DEF IInv

LEMMA StepInv == ASSUME IInv, [Next]_vars PROVE IInv'
<1>1. ASSUME NEW t \in Threads, NEW e \in Entries, Get(t, e) PROVE IInv'
  BY <1>1, GetStep
<1>3. ASSUME NEW t \in Threads, NEW e \in Entries, av_buffer_ref(t, e) PROVE IInv'
  BY <1>3, RefStep
<1>4. ASSUME NEW t \in Threads, NEW e \in Entries, av_buffer_unref(t, e) PROVE IInv'
  BY <1>4, UnrefStep
<1>5. ASSUME NEW t \in Threads, NEW u \in Threads, NEW e \in Entries, Move(t, u, e)
      PROVE  IInv'
  BY <1>5, MoveStep
<1>6. ASSUME NEW t \in Threads, av_buffer_pool_uninit(t) PROVE IInv'
  BY <1>6, UninitStep
<1>7. ASSUME NEW t \in Threads, Own(t) PROVE IInv'
  BY <1>7, CountStep, PushStep, ReleaseStep, FreeEntryStep, FreePoolStep DEF Own
<1>8. CASE Done \/ UNCHANGED vars
  BY <1>8, QuietInv DEF Done
<1> QED
  BY <1>1, <1>3, <1>4, <1>5, <1>6, <1>7, <1>8 DEF Next

(* The invariant implies what the run checks. *)
LEMMA InvMemorySafe == ASSUME IInv PROVE MemorySafe
<1> USE DEF IInv
<1>1. refcount \in 0..(Cardinality(Entries) + Cardinality(Threads) + 1)
  <2>1. Cardinality(Entries) \in Nat /\ Cardinality(Threads) \in Nat
    BY FS_CardinalityType, FiniteAssumption
  <2> QED
    BY <2>1, SetsFinite DEF PoolCounted, One, Types
<1>2. TypeOK
  BY <1>1 DEF Types, TypeOK, Freeing
<1>3. NoUseAfterFree
  <2>1. (freed > 0 \/ \E t \in Threads : pc[t] = "free") => refcount = 0
    BY DEF Freeing
  <2> QED
    BY <2>1, CountZero DEF NoUseAfterFree, Freeing
<1>4. SoleOwner
  BY UsedHeld DEF SoleOwner, Listed
<1> QED
  BY <1>2, <1>3, <1>4 DEF MemorySafe

(***************************************************************************)
(* Memory safety of the pool, for any number of threads that get, pass on  *)
(* and release in any order, several at once: av_buffer_pool_get counts a  *)
(* buffer into the pool after it has taken it, and pool_release_buffer     *)
(* counts it out after it has put it back; nevertheless only one thread    *)
(* frees the pool, at a time when no buffer is in use and nobody is inside *)
(* its functions, and no buffer is ever given to two users.  The pool is   *)
(* uninited by any thread, when none is in av_buffer_pool_get.             *)
(***************************************************************************)
THEOREM PoolMemorySafe == Spec => []MemorySafe
<1>1. Init => IInv
  BY InitInv
<1>2. IInv /\ [Next]_vars => IInv'
  BY StepInv
<1>3. IInv => MemorySafe
  BY InvMemorySafe
<1> QED
  BY <1>1, <1>2, <1>3, PTL DEF Spec

=============================================================================
