-------------------------- MODULE ArgumentosProofs --------------------------
(***************************************************************************)
(* Proofs about Argumentos and Reproduccion, for every command line and    *)
(* program that Considerada takes, with any number of bitrates, subtitles  *)
(* and audio tracks.                                                       *)
(*                                                                         *)
(* The arguments of inicializarFfmpegEncoding are a walk through the       *)
(* outputs: a key <<1, i, j>> is the video (j = 0) or the DVB subtitle j   *)
(* at the bitrate i, <<2, i, 0>> the audio i, <<3, i, 0>> the teletext i;  *)
(* <<0, 0, 0>> is the input and <<4, 0, 0>> the end.  Todo(c, k) is what   *)
(* the list of arguments is from the key k on.  The invariant IInv says at *)
(* which key split_commandline is, which options of its group are taken,   *)
(* which pad of which filter graph is whose, and, while the outputs open,  *)
(* that the streams are the expected ones of the keys passed.  RInv says   *)
(* the same of the player: what it knows is what was announced, and it has *)
(* what was answered and all that the answers led to.                      *)
(***************************************************************************)
EXTENDS Reproduccion, FiniteSetTheorems, SequenceTheorems, WellFoundedInduction, TLAPS

-----------------------------------------------------------------------------
(* Numbers. *)

(* A set of numbers that is not empty has a least one.                     *)
LEMMA LeastNumber ==
  ASSUME NEW T \in SUBSET Nat, T # {} PROVE \E x \in T : \A y \in T : x <= y
<1> DEFINE Less == {p \in Nat \X Nat : p[1] < p[2]}
<1>1. IsWellFoundedOn(Less, Nat)
  BY NatLessThanWellFounded DEF OpToRel
<1>2. PICK x \in T : \A y \in T : ~(<<y, x>> \in Less)
  <2> HIDE DEF Less
  <2> QED
    BY <1>1, WFMin
<1>3. \A y \in T : ~(y < x)
  BY <1>2
<1> QED
  BY <1>3

(* What holds of 0 and of every successor holds of every number.           *)
LEMMA Induction ==
  ASSUME NEW S, 0 \in S, \A n \in Nat : n \in S => n + 1 \in S
  PROVE  \A n \in Nat : n \in S
<1> DEFINE T == {n \in Nat : n \notin S}
<1>1. SUFFICES ASSUME T # {} PROVE FALSE
  OBVIOUS
<1>2. PICK x \in T : \A y \in T : x <= y
  BY <1>1, LeastNumber
<1>3. x \in Nat \ {0} /\ x - 1 \in Nat
  BY <1>2
<1>4. x - 1 \in S
  BY <1>2, <1>3
<1>5. (x - 1) + 1 = x
  BY <1>3
<1>6. x \in S
  BY <1>3, <1>4, <1>5
<1> QED
  BY <1>2, <1>6

(* The last of several options of a group: Max of its indices is one of them. *)
LEMMA MaxIn ==
  ASSUME NEW n \in Nat, NEW S \in SUBSET (1..n), S # {}
  PROVE  Max(S) \in S
<1> DEFINE T == {n - x : x \in S}
<1>1. T \in SUBSET Nat /\ T # {}
  <2>1. \A x \in S : n - x \in Nat
    OBVIOUS
  <2> QED
    BY <2>1
<1>2. PICK d \in T : \A y \in T : d <= y
  BY <1>1, LeastNumber
<1>3. PICK x \in S : d = n - x
  BY <1>2
<1>4. \A y \in S : x >= y
  <2> TAKE y \in S
  <2>1. n - x <= n - y
    BY <1>2, <1>3
  <2> QED
    BY <2>1, x \in 1..n, y \in 1..n
<1>5. \E z \in S : \A y \in S : z >= y
  BY <1>4
<1> QED
  BY <1>5, Zenon DEF Max

-----------------------------------------------------------------------------
(* Sequences of sequences.                                                 *)

Agrupa(x, y, z) == (x \o y) \o z = x \o (y \o z)

(* Concatenation is associative.                                           *)
LEMMA Asoc == \A S : \A x, y, z \in Seq(S) : Agrupa(x, y, z)
<1> TAKE S
<1> TAKE x, y, z \in Seq(S)
<1> QED
  BY ConcatAssociative DEF Agrupa

(* The empty sequence adds nothing.                                        *)
LEMMA Vacia == \A S : \A x \in Seq(S) : <<>> \o x = x /\ x \o <<>> = x
<1> TAKE S
<1> TAKE x \in Seq(S)
<1> QED
  BY ConcatEmptySeq

(* The recursive function that FlattenSeq defines.                         *)
IsFlat(f, s, n) == f = [i \in 1..n |-> IF i = 1 THEN s[i] ELSE f[i - 1] \o s[i]]

(* The function that FlattenSeq is defined by exists.                      *)
LEMMA FlatExists ==
  ASSUME NEW S, NEW s \in Seq(Seq(S))
  PROVE  \A n \in Nat : n <= Len(s) => \E f \in [1..n -> Seq(S)] : IsFlat(f, s, n)
<1> DEFINE P == {n \in Nat : n <= Len(s) => \E f \in [1..n -> Seq(S)] : IsFlat(f, s, n)}
<1>1. 0 \in P
  <2> DEFINE f == [i \in 1..0 |-> <<>>]
  <2>1. f \in [1..0 -> Seq(S)]
    OBVIOUS
  <2>2. f = [i \in 1..0 |-> IF i = 1 THEN s[i] ELSE f[i - 1] \o s[i]]
    <3> DEFINE h == [i \in 1..0 |-> IF i = 1 THEN s[i] ELSE f[i - 1] \o s[i]]
    <3>1. h \in [1..0 -> Seq(S)] /\ \A i \in 1..0 : f[i] = h[i]
      OBVIOUS
    <3> HIDE DEF f, h
    <3>2. f = h
      BY <2>1, <3>1
    <3> QED
      BY <3>2 DEF h
  <2>3. IsFlat(f, s, 0)
    BY <2>2, Zenon DEF IsFlat
  <2> QED
    BY <2>1, <2>3
<1>2. ASSUME NEW n \in Nat, n \in P PROVE n + 1 \in P
  <2>1. SUFFICES ASSUME n + 1 <= Len(s)
                 PROVE  \E f \in [1..(n + 1) -> Seq(S)] : IsFlat(f, s, n + 1)
    OBVIOUS
  <2>2. PICK f \in [1..n -> Seq(S)] : IsFlat(f, s, n)
    BY <1>2, <2>1
  <2> DEFINE v == IF n = 0 THEN s[n + 1] ELSE f[n] \o s[n + 1]
             h == [i \in 1..(n + 1) |-> IF i = n + 1 THEN v ELSE f[i]]
             k == [i \in 1..(n + 1) |-> IF i = 1 THEN s[i] ELSE h[i - 1] \o s[i]]
  <2>3. v \in Seq(S)
    <3>1. s[n + 1] \in Seq(S)
      BY <2>1
    <3>2. CASE n = 0
      BY <3>1, <3>2
    <3>3. CASE n # 0
      <4>1. f[n] \in Seq(S)
        BY <3>3
      <4> QED
        BY <3>1, <3>3, <4>1
    <3> QED
      BY <3>2, <3>3
  <2>4. h \in [1..(n + 1) -> Seq(S)]
    BY <2>3
  <2>5. ASSUME NEW i \in 1..(n + 1) PROVE h[i] = k[i]
    <3>1. CASE i = n + 1
      <4>1. h[i] = v
        BY <3>1
      <4>2. CASE n = 0
        BY <3>1, <4>1, <4>2
      <4>3. CASE n # 0
        <5>1. h[i - 1] = f[n] /\ i # 1
          BY <3>1, <4>3
        <5>2. k[i] = h[i - 1] \o s[i]
          BY <5>1, Zenon
        <5>3. v = f[n] \o s[n + 1]
          BY <4>3
        <5> QED
          BY <3>1, <4>1, <5>1, <5>2, <5>3, Zenon
      <4> QED
        BY <4>2, <4>3
    <3>2. CASE i # n + 1
      <4>1. i \in 1..n /\ h[i] = f[i]
        BY <3>2
      <4>2. f[i] = IF i = 1 THEN s[i] ELSE f[i - 1] \o s[i]
        BY <2>2, <4>1, Zenon DEF IsFlat
      <4>3. CASE i = 1
        BY <4>1, <4>2, <4>3
      <4>4. CASE i # 1
        <5>1. h[i - 1] = f[i - 1]
          BY <4>1, <4>4
        <5>2. k[i] = h[i - 1] \o s[i]
          BY <4>4, Zenon
        <5> QED
          BY <4>1, <4>2, <4>4, <5>1, <5>2, Zenon
      <4> QED
        BY <4>3, <4>4
    <3> QED
      BY <3>1, <3>2
  <2>6. h = k
    <3>1. k = [i \in 1..(n + 1) |-> h[i]]
      BY <2>5, ZenonT(60)
    <3>2. h = [i \in 1..(n + 1) |-> h[i]]
      <4> HIDE DEF h
      <4> QED
        BY <2>4, Zenon
    <3> QED
      BY <3>1, <3>2, Zenon
  <2>7. IsFlat(h, s, n + 1)
    BY <2>6, Zenon DEF IsFlat
  <2> QED
    BY <2>4, <2>7
<1> HIDE DEF P
<1>3. \A n \in Nat : n \in P
  BY <1>1, <1>2, Induction
<1> QED
  BY <1>3 DEF P

(* T[i] is what the sequences of s from the i-th on say, one after another. *)
Colas(T, s, n, S) ==
  /\ T \in [1..(n + 1) -> Seq(S)]
  /\ T[n + 1] = <<>>
  /\ \A i \in 1..n : T[i] = s[i] \o T[i + 1]

(* A flattened list is its first part and the flattened rest.              *)
LEMMA ColasExist ==
  ASSUME NEW S, NEW s \in Seq(Seq(S)), NEW m \in Nat, m <= Len(s), m # 0,
         NEW f \in [1..m -> Seq(S)], IsFlat(f, s, m)
  PROVE  \E T : Colas(T, s, m, S) /\ T[1] = f[m]
<1> DEFINE P == {n \in Nat : n \in 1..m => \E T : Colas(T, s, n, S) /\ T[1] = f[n]}
<1>0. ASSUME NEW i \in 1..m PROVE f[i] = IF i = 1 THEN s[i] ELSE f[i - 1] \o s[i]
  BY Zenon DEF IsFlat
<1>1. 0 \in P
  OBVIOUS
<1>2. ASSUME NEW n \in Nat, n \in P PROVE n + 1 \in P
  <2>1. SUFFICES ASSUME n + 1 \in 1..m
                 PROVE  \E T : Colas(T, s, n + 1, S) /\ T[1] = f[n + 1]
    OBVIOUS
  <2>2. s[n + 1] \in Seq(S)
    BY <2>1
  <2>3. CASE n = 0
    <3> DEFINE T == [i \in 1..((n + 1) + 1) |-> IF i = 1 THEN s[1] ELSE <<>>]
    <3>1. T \in [1..((n + 1) + 1) -> Seq(S)] /\ T[(n + 1) + 1] = <<>> /\ T[1] = s[1] /\ T[2] = <<>>
      BY <2>2, <2>3
    <3>2. s[1] = s[1] \o <<>>
      BY <2>2, <2>3, ConcatEmptySeq
    <3>3. \A i \in 1..(n + 1) : i = 1
      BY <2>3
    <3>4. Colas(T, s, n + 1, S)
      <4>1. n + 1 = 1 /\ 1 + 1 = 2
        BY <2>3
      <4>2. \A i \in 1..1 : T[i] = s[i] \o T[i + 1]
        <5>1. s[1] = T[1] /\ s[1] = s[1] \o T[1 + 1]
          BY <3>1, <3>2, <4>1
        <5>2. \A i \in 1..1 : i = 1
          OBVIOUS
        <5> HIDE DEF T
        <5> QED
          BY <5>1, <5>2, Zenon
      <4> HIDE DEF T
      <4> QED
        BY <3>1, <4>1, <4>2, Zenon DEF Colas
    <3>5. f[n + 1] = s[1]
      <4>1. n + 1 = 1 /\ 1 \in 1..m
        BY <2>1, <2>3
      <4>2. f[1] = IF 1 = 1 THEN s[1] ELSE f[1 - 1] \o s[1]
        BY <1>0, <4>1, Zenon
      <4>3. f[1] = s[1]
        BY <4>2, Zenon
      <4> QED
        BY <4>1, <4>3
    <3> QED
      BY <3>1, <3>4, <3>5
  <2>4. CASE n # 0
    <3>1. PICK T : Colas(T, s, n, S) /\ T[1] = f[n]
      BY <1>2, <2>1, <2>4
    <3> DEFINE U == [i \in 1..((n + 1) + 1) |-> IF i = (n + 1) + 1 THEN <<>> ELSE T[i] \o s[n + 1]]
    <3>2. \A i \in 1..(n + 1) : T[i] \in Seq(S)
      BY <3>1 DEF Colas
    <3>3. ASSUME NEW i \in 1..(n + 1) PROVE U[i] = T[i] \o s[n + 1] /\ U[i] \in Seq(S)
      <4>1. i \in 1..((n + 1) + 1) /\ i # (n + 1) + 1
        OBVIOUS
      <4>2. U[i] = T[i] \o s[n + 1]
        BY <4>1, Zenon
      <4>3. T[i] \o s[n + 1] \in Seq(S)
        <5> DEFINE a == T[i]  b == s[n + 1]
        <5>1. a \in Seq(S) /\ b \in Seq(S)
          BY <2>2, <3>2
        <5> HIDE DEF a, b
        <5>2. a \o b \in Seq(S)
          BY <5>1
        <5> QED
          BY <5>2 DEF a, b
      <4> QED
        BY <4>2, <4>3, Zenon
    <3>4. U[(n + 1) + 1] = <<>> /\ DOMAIN U = 1..((n + 1) + 1)
      OBVIOUS
    <3>5. U \in [1..((n + 1) + 1) -> Seq(S)]
      <4>1. ASSUME NEW i \in 1..((n + 1) + 1) PROVE U[i] \in Seq(S)
        <5>1. <<>> \in Seq(S)
          OBVIOUS
        <5>2. i = (n + 1) + 1 \/ i \in 1..(n + 1)
          OBVIOUS
        <5> HIDE DEF U
        <5> QED
          BY <3>3, <3>4, <5>1, <5>2, Zenon
      <4> QED
        BY <4>1, Zenon
    <3>6. ASSUME NEW i \in 1..(n + 1) PROVE U[i] = s[i] \o U[i + 1]
      <4>1. CASE i = n + 1
        <5>1. T[i] = <<>>
          BY <3>1, <4>1 DEF Colas
        <5>2. U[i] = s[n + 1]
          <6>1. U[i] = <<>> \o s[n + 1]
            BY <3>3, <5>1, Zenon
          <6> QED
            BY <2>2, <6>1, ConcatEmptySeq
        <5>3. s[n + 1] = s[n + 1] \o <<>>
          BY <2>2, ConcatEmptySeq
        <5> HIDE DEF U
        <5> QED
          BY <3>4, <4>1, <5>2, <5>3
      <4>2. CASE i # n + 1
        <5>1. i \in 1..n /\ i + 1 \in 1..(n + 1)
          BY <4>2
        <5>2. T[i] = s[i] \o T[i + 1]
          BY <3>1, <5>1 DEF Colas
        <5>3. s[i] \in Seq(S)
          BY <2>1, <5>1
        <5> DEFINE a == s[i]  b == T[i + 1]  e == s[n + 1]
        <5>4. Agrupa(a, b, e)
          <6>1. a \in Seq(S) /\ b \in Seq(S) /\ e \in Seq(S)
            BY <2>2, <3>2, <5>1, <5>3
          <6> HIDE DEF a, b, e
          <6> QED
            BY <6>1, Asoc, Zenon
        <5>5. U[i] = T[i] \o e /\ U[i + 1] = b \o e
          BY <3>3, <5>1, Zenon
        <5> HIDE DEF U
        <5> QED
          BY <5>2, <5>4, <5>5, Zenon DEF Agrupa
      <4> QED
        BY <4>1, <4>2
    <3>7. U[1] = f[n + 1]
      <4>1. U[1] = T[1] \o s[n + 1]
        <5>1. 1 \in 1..(n + 1)
          OBVIOUS
        <5> QED
          BY <3>3, <5>1, Zenon
      <4>2. f[n + 1] = f[n] \o s[n + 1]
        <5>1. n + 1 # 1 /\ (n + 1) - 1 = n
          BY <2>4
        <5>2. f[n + 1] = IF n + 1 = 1 THEN s[n + 1] ELSE f[(n + 1) - 1] \o s[n + 1]
          BY <1>0, <2>1, Zenon
        <5> QED
          BY <5>1, <5>2, Zenon
      <4> QED
        BY <3>1, <4>1, <4>2, Zenon
    <3>8. Colas(U, s, n + 1, S)
      <4> HIDE DEF U
      <4> QED
        BY <3>4, <3>5, <3>6 DEF Colas
    <3> QED
      BY <3>7, <3>8
  <2> QED
    BY <2>3, <2>4
<1> HIDE DEF P
<1>3. m \in P
  BY <1>1, <1>2, Induction
<1> QED
  BY <1>3 DEF P

(* FlattenSeq has suffixes, one for each part.                             *)
LEMMA FlattenColas ==
  ASSUME NEW S, NEW s \in Seq(Seq(S))
  PROVE  \E T : Colas(T, s, Len(s), S) /\ T[1] = FlattenSeq(s)
<1>1. CASE Len(s) = 0
  <2>1. s = <<>> /\ FlattenSeq(s) = <<>>
    BY <1>1 DEF FlattenSeq
  <2> DEFINE T == [i \in 1..1 |-> <<>>]
  <2>2. T \in [1..1 -> Seq(S)] /\ T[1] = <<>> /\ 0 + 1 = 1 /\ 1..0 = {}
    OBVIOUS
  <2>3. Colas(T, s, 0, S) /\ T[1] = <<>>
    <3> HIDE DEF T
    <3> QED
      BY <2>2, Zenon DEF Colas
  <2> QED
    BY <1>1, <2>1, <2>3
<1>2. CASE Len(s) # 0
  <2> DEFINE n == Len(s)
             F == CHOOSE f : f = [i \in 1..Len(s) |-> IF i = 1 THEN s[i] ELSE f[i - 1] \o s[i]]
  <2>1. n \in Nat
    OBVIOUS
  <2>2. PICK f \in [1..n -> Seq(S)] : IsFlat(f, s, n)
    BY <2>1, FlatExists, SMTT(60)
  <2>3. F = [i \in 1..n |-> IF i = 1 THEN s[i] ELSE F[i - 1] \o s[i]]
    <3>1. \E g : g = [i \in 1..Len(s) |-> IF i = 1 THEN s[i] ELSE g[i - 1] \o s[i]]
      BY <2>2, Zenon DEF IsFlat
    <3> QED
      BY <3>1, Zenon
  <2>4. FlattenSeq(s) = F[n]
    BY <1>2, Zenon DEF FlattenSeq
  <2> HIDE DEF F, n
  <2>5. IsFlat(F, s, n)
    BY <2>3, Zenon DEF IsFlat
  <2>6. F \in [1..n -> Seq(S)]
    <3> DEFINE P == {k \in Nat : k \in 1..n => F[k] = f[k]}
    <3>1. 0 \in P
      OBVIOUS
    <3>2. ASSUME NEW k \in Nat, k \in P PROVE k + 1 \in P
      <4>1. SUFFICES ASSUME k + 1 \in 1..n PROVE F[k + 1] = f[k + 1]
        OBVIOUS
      <4>2. F[k + 1] = (IF k + 1 = 1 THEN s[k + 1] ELSE F[(k + 1) - 1] \o s[k + 1])
        BY <2>5, <4>1, Zenon DEF IsFlat
      <4>3. f[k + 1] = (IF k + 1 = 1 THEN s[k + 1] ELSE f[(k + 1) - 1] \o s[k + 1])
        BY <2>2, <4>1, Zenon DEF IsFlat
      <4>4. CASE k = 0
        BY <4>2, <4>3, <4>4
      <4>5. CASE k # 0
        <5>1. k \in 1..n /\ (k + 1) - 1 = k /\ k + 1 # 1
          BY <2>1, <4>1, <4>5
        <5>2. F[k] = f[k]
          BY <3>2, <5>1
        <5> QED
          BY <4>2, <4>3, <5>1, <5>2, Zenon
      <4> QED
        BY <4>4, <4>5
    <3> HIDE DEF P
    <3>3. \A k \in Nat : k \in P
      BY <3>1, <3>2, Induction
    <3>4. \A k \in 1..n : F[k] = f[k]
      BY <2>1, <3>3 DEF P
    <3>5. DOMAIN F = 1..n /\ F = [k \in 1..n |-> F[k]]
      BY <2>5, Zenon DEF IsFlat
    <3> QED
      BY <3>4, <3>5, Zenon
  <2>7. PICK T : Colas(T, s, n, S) /\ T[1] = F[n]
    <3>1. n <= Len(s) /\ n # 0
      BY <1>2, <2>1 DEF n
    <3> QED
      BY <2>1, <2>5, <2>6, <3>1, ColasExist
  <2> QED
    BY <2>4, <2>7 DEF n
<1> QED
  BY <1>1, <1>2

-----------------------------------------------------------------------------
(* Bitrates.                                                               *)

(* v[i] is the number that the first i digits of b spell.                  *)
EsValor(v, b, n) ==
  /\ v \in [0..n -> Nat]
  /\ v[0] = 0
  /\ \A i \in 1..n : v[i] = 10 * v[i - 1] + b[i]

(* The function that Valor is defined by exists.                           *)
LEMMA ValorExiste ==
  ASSUME NEW b \in Seq(0..9)
  PROVE  \A n \in Nat : n <= Len(b) => \E v : EsValor(v, b, n)
<1> DEFINE P == {n \in Nat : n <= Len(b) => \E v : EsValor(v, b, n)}
<1>1. 0 \in P
  <2>1. EsValor([i \in 0..0 |-> 0], b, 0)
    BY DEF EsValor
  <2> QED
    BY <2>1
<1>2. ASSUME NEW n \in Nat, n \in P PROVE n + 1 \in P
  <2>1. SUFFICES ASSUME n + 1 <= Len(b) PROVE \E v : EsValor(v, b, n + 1)
    OBVIOUS
  <2>2. PICK v : EsValor(v, b, n)
    BY <1>2, <2>1
  <2> DEFINE w == [i \in 0..(n + 1) |-> IF i = n + 1 THEN 10 * v[n] + b[n + 1] ELSE v[i]]
  <2>3. v[n] \in Nat /\ b[n + 1] \in Nat
    <3>1. v[n] \in Nat
      BY <2>2 DEF EsValor
    <3>2. b[n + 1] \in 0..9
      BY <2>1
    <3> QED
      BY <3>1, <3>2
  <2>4. w \in [0..(n + 1) -> Nat] /\ w[0] = 0
    BY <2>2, <2>3 DEF EsValor
  <2>5. ASSUME NEW i \in 1..(n + 1) PROVE w[i] = 10 * w[i - 1] + b[i]
    <3>1. CASE i = n + 1
      <4>1. w[i] = 10 * v[n] + b[n + 1] /\ i - 1 = n /\ w[n] = v[n]
        BY <3>1
      <4> HIDE DEF w
      <4> QED
        BY <3>1, <4>1
    <3>2. CASE i # n + 1
      <4>1. w[i] = v[i] /\ w[i - 1] = v[i - 1] /\ i \in 1..n
        BY <3>2
      <4>2. v[i] = 10 * v[i - 1] + b[i]
        BY <2>2, <4>1 DEF EsValor
      <4> HIDE DEF w
      <4> QED
        BY <4>1, <4>2
    <3> QED
      BY <3>1, <3>2
  <2>6. EsValor(w, b, n + 1)
    <3> HIDE DEF w
    <3> QED
      BY <2>4, <2>5 DEF EsValor
  <2> QED
    BY <2>6
<1> HIDE DEF P
<1>3. \A n \in Nat : n \in P
  BY <1>1, <1>2, Induction
<1> QED
  BY <1>3 DEF P

(* Valor is the last value of that function.                               *)
LEMMA ValorDe ==
  ASSUME NEW b \in Seq(0..9)
  PROVE  \E v : EsValor(v, b, Len(b)) /\ Valor(b) = v[Len(b)]
<1> DEFINE n == Len(b)
           F == CHOOSE v : v = [i \in 0..Len(b) |-> IF i = 0 THEN 0 ELSE 10 * v[i - 1] + b[i]]
<1>0. n \in Nat
  OBVIOUS
<1>1. PICK v : EsValor(v, b, n)
  BY <1>0, ValorExiste
<1>2. v = [i \in 0..n |-> IF i = 0 THEN 0 ELSE 10 * v[i - 1] + b[i]]
  BY <1>1 DEF EsValor
<1>3. F = [i \in 0..n |-> IF i = 0 THEN 0 ELSE 10 * F[i - 1] + b[i]]
  BY <1>2, Zenon
<1>4. Valor(b) = F[n]
  BY Zenon DEF Valor
<1> HIDE DEF F, n
<1>5. F[0] = 0
  BY <1>0, <1>3
<1>6. ASSUME NEW i \in 1..n PROVE F[i] = 10 * F[i - 1] + b[i]
  <2>1. i \in 0..n /\ i # 0
    BY <1>0
  <2> QED
    BY <1>3, <2>1, Zenon
<1>7. \A k \in Nat : k <= n => F[k] = v[k]
  <2> DEFINE P == {k \in Nat : k <= n => F[k] = v[k]}
  <2>1. 0 \in P
    BY <1>1, <1>5 DEF EsValor
  <2>2. ASSUME NEW k \in Nat, k \in P PROVE k + 1 \in P
    <3>1. SUFFICES ASSUME k + 1 <= n PROVE F[k + 1] = v[k + 1]
      OBVIOUS
    <3>2. F[k] = v[k] /\ k + 1 \in 1..n /\ (k + 1) - 1 = k
      BY <1>0, <2>2, <3>1
    <3>3. F[k + 1] = 10 * F[(k + 1) - 1] + b[k + 1] /\ v[k + 1] = 10 * v[(k + 1) - 1] + b[k + 1]
      BY <1>1, <1>6, <3>2, Zenon DEF EsValor
    <3> QED
      BY <3>2, <3>3, Zenon
  <2> HIDE DEF P
  <2>3. \A k \in Nat : k \in P
    BY <2>1, <2>2, Induction
  <2> QED
    BY <2>3 DEF P
<1>8. F[n] = v[n]
  BY <1>0, <1>7
<1> QED
  BY <1>1, <1>4, <1>8 DEF n

Cubre(x, v) == v >= 1500 => 107 * x >= v
NoCubre(x, v) == x >= 10 => 107 * x < v /\ v > 9999

DeCuatro(v, x, p, q) == v = 10 * (10 * x + p) + q
DeCinco(v, x, p, q, r) == v = 10 * (10 * (10 * x + p) + q) + r

(* Four digits: 107 times the first two is enough from 1500 on.            *)
LEMMA Cuatro ==
  ASSUME NEW x \in Nat, NEW p \in 0..9, NEW q \in 0..9, NEW v, DeCuatro(v, x, p, q)
  PROVE  Cubre(x, v)
  BY DEF Cubre, DeCuatro

(* Five digits: 107 times the first two is never enough.                   *)
LEMMA Cinco ==
  ASSUME NEW x \in Nat, NEW p \in 0..9, NEW q \in 0..9, NEW r \in 0..9,
         NEW v, DeCinco(v, x, p, q, r)
  PROVE  NoCubre(x, v)
<1>1. v \in Nat /\ v >= 1000 * x
  BY DEF DeCinco
<1>2. x >= 10 => 1000 * x >= 10000 /\ 107 * x < 1000 * x
  OBVIOUS
<1>3. x >= 10 => v >= 10000 /\ 107 * x < v
  BY <1>1, <1>2
<1> QED
  BY <1>1, <1>3 DEF NoCubre

(* Digits are numbers.                                                     *)
LEMMA Cifras ==
  ASSUME NEW b \in Seq(0..9)
  PROVE  b \in Seq(Nat) /\ (Len(b) # 0 => b # <<>>)
<1>1. Len(b) \in Nat /\ b \in [1..Len(b) -> 0..9]
  BY LenProperties
<1>2. b \in [1..Len(b) -> Nat]
  BY <1>1
<1>3. b \in Seq(Nat)
  <2> DEFINE n == Len(b)
  <2>1. n \in Nat /\ b \in [1..n -> Nat]
    BY <1>1, <1>2
  <2> HIDE DEF n
  <2> QED
    BY <2>1
<1> QED
  BY <1>3

(* What the maximum is, and how far it covers the rate.                    *)
LEMMA Maximo ==
  ASSUME NEW b \in Bitrate, Len(b) # 1
  PROVE  /\ calcularBitrateMaximo(b) \in Nat
         /\ b[1] # 0 =>
              /\ Len(b) <= 3 \/ (Valor(b) >= 1500 /\ Valor(b) <= 9999) =>
                   calcularBitrateMaximo(b) >= Valor(b)
              /\ Len(b) = 5 => calcularBitrateMaximo(b) < Valor(b)
<1> DEFINE n == Len(b)
           d == SubSeq(b, 1, 2)
<1>1. b \in Seq(0..9) /\ n \in 2..5
  BY DEF Bitrate
<1>2. d \in Seq(0..9) /\ Len(d) = 2 /\ d[1] = b[1] /\ d[2] = b[2]
  BY <1>1
<1>3. \A i \in 1..n : b[i] \in 0..9
  BY <1>1
<1>4. PICK v : EsValor(v, b, n) /\ Valor(b) = v[n]
  BY <1>1, ValorDe
<1>5. PICK w : EsValor(w, d, 2) /\ Valor(d) = w[2]
  <2> HIDE DEF d
  <2>1. \E w : EsValor(w, d, Len(d)) /\ Valor(d) = w[Len(d)]
    BY <1>2, ValorDe
  <2> QED
    BY <1>2, <2>1
<1> HIDE DEF n, d
<1>6. Valor(d) = 10 * b[1] + b[2]
  <2>1. w[0] = 0 /\ w[1] = 10 * w[0] + d[1] /\ w[2] = 10 * w[1] + d[2]
    <3>1. 1 \in 1..2 /\ 2 \in 1..2 /\ 1 - 1 = 0 /\ 2 - 1 = 1
      OBVIOUS
    <3>2. w[1] = 10 * w[1 - 1] + d[1] /\ w[2] = 10 * w[2 - 1] + d[2] /\ w[0] = 0
      BY <1>5, <3>1, Zenon DEF EsValor
    <3> QED
      BY <3>1, <3>2
  <2>2. b[1] \in 0..9 /\ b[2] \in 0..9
    BY <1>1, <1>3
  <2> QED
    BY <1>2, <1>5, <2>1, <2>2
<1>7. calcularBitrateMaximo(b) = 107 * (10 * b[1] + b[2])
  BY <1>6 DEF calcularBitrateMaximo, d
<1>8. /\ v[2] = 10 * b[1] + b[2]
      /\ n >= 3 => v[3] = 10 * v[2] + b[3] /\ b[3] \in 0..9
      /\ n >= 4 => v[4] = 10 * v[3] + b[4] /\ b[4] \in 0..9
      /\ n >= 5 => v[5] = 10 * v[4] + b[5] /\ b[5] \in 0..9
  <2>1. \A i \in 1..n : v[i] = 10 * v[i - 1] + b[i]
    BY <1>4 DEF EsValor
  <2>2. v[0] = 0
    BY <1>4 DEF EsValor
  <2>3. v[1] = b[1] /\ v[2] = 10 * v[1] + b[2]
    BY <1>1, <1>3, <2>1, <2>2
  <2> QED
    BY <1>1, <1>3, <2>1, <2>3
<1>9. b[1] \in 0..9 /\ b[2] \in 0..9
  BY <1>1, <1>3
<1> DEFINE X == 10 * b[1] + b[2]
<1>10. X \in Nat /\ (b[1] # 0 => X >= 10) /\ X <= 99
  BY <1>9
<1>11. v[2] = X /\ calcularBitrateMaximo(b) = 107 * X
  BY <1>7, <1>8
<1> HIDE DEF X
<1>12. CASE n = 2
  BY <1>4, <1>10, <1>11, <1>12 DEF n
<1>13. CASE n = 3
  BY <1>4, <1>8, <1>10, <1>11, <1>13 DEF n
<1>14. CASE n = 4
  <2>1. Len(b) = 4 /\ b[3] \in 0..9 /\ b[4] \in 0..9
    BY <1>8, <1>14 DEF n
  <2>2. DeCuatro(Valor(b), X, b[3], b[4])
    BY <1>4, <1>8, <1>11, <1>14 DEF DeCuatro
  <2>3. Cubre(X, Valor(b))
    BY <1>10, <2>1, <2>2, Cuatro, Zenon
  <2> QED
    BY <1>10, <1>11, <2>1, <2>3 DEF Cubre
<1>15. CASE n = 5
  <2>1. Len(b) = 5 /\ b[3] \in 0..9 /\ b[4] \in 0..9 /\ b[5] \in 0..9
    BY <1>8, <1>15 DEF n
  <2>2. DeCinco(Valor(b), X, b[3], b[4], b[5])
    BY <1>4, <1>8, <1>11, <1>15 DEF DeCinco
  <2>3. NoCubre(X, Valor(b))
    BY <1>10, <2>1, <2>2, Cinco, Zenon
  <2>4. Valor(b) \in Nat
    BY <1>1, <1>4 DEF EsValor
  <2> QED
    BY <1>10, <1>11, <2>1, <2>3, <2>4 DEF NoCubre
<1> QED
  BY <1>1, <1>12, <1>13, <1>14, <1>15

-----------------------------------------------------------------------------
(* The arguments of an encoding.                                           *)

Propios == {"map", "map[]", "an", "sn", "vn", "c:v", "c:a", "c:s", "b:v", "maxrate", "s", "vf",
            "pix_fmt", "af", "hwaccel", "profile:v"}
Textos == {"1", "video", "aac", "copy", "aresample", "webvtt", "cuvid", "hwdownload", "yuv420p",
           "yadif", "resolucion", "libx264", "h264_nvenc", "hevc_nvenc", "unknown", "h264",
           "hevc", "mpeg2", "baseline"}
Grafo == Seq([label : Nat, lang : STRING])
Valores == STRING \cup Textos \cup Nat \cup Seq(Nat)

(* The options of a file, a filter graph, an output file.                  *)
Local == [t : {"opt"}, o : Propios, v : Valores]
Compleja == [t : {"opt"}, o : {"filter_complex"}, v : Grafo]
Salida == [t : {"out"}, dir : {"video", "audio", "subtitulos"}, lang : STRING \cup {SinIdioma},
           b : Seq(Nat), fmp4 : BOOLEAN]
Arg == Local \cup Compleja \cup Salida \cup {Input}

(* A configuration with which inicializarFfmpegEncoding does not panic.    *)
Buena(c) == Considerada(c) /\ ~Revienta(c)

(* The bitrates that the loop of the encoding goes through, one that is    *)
(* none when -cv gives none; the DVB and the teletext subtitles.           *)
NB(c) == IF Bitrates(c) = <<>> THEN 1 ELSE Len(Bitrates(c))
Tasa(c, i) == IF Bitrates(c) = <<>> THEN <<>> ELSE Bitrates(c)[i]
ND(c) == IF Teletext(c) THEN 0 ELSE Len(c.subs)
NT(c) == IF Teletext(c) THEN Len(c.subs) ELSE 0

EsTasa(b) == b \in Seq(Nat) /\ (b # <<>> => b \in Bitrate /\ calcularBitrateMaximo(b) \in Nat)

(* The fields of a command line.                                           *)
LEMMA EnLinea ==
  ASSUME NEW c, Considerada(c)
  PROVE  /\ c.cv \in Seq([n : {"h264", "h265", "hevc"}, nvenc : BOOLEAN, bitrates : Seq(Bitrate)])
         /\ c.idx \in Nat
         /\ c.hwaccel \in BOOLEAN /\ c.deint \in BOOLEAN /\ c.resize \in BOOLEAN
         /\ c.teletext \in BOOLEAN /\ c.acodec \in BOOLEAN
         /\ c.video \in {"h264", "hevc", "mpeg2video"}
         /\ c.subs \in Seq(STRING) /\ c.audio \in Seq(STRING)
         /\ Custom(c) => c.idx \in 1..Len(c.cv)
         /\ c.hwaccel => Custom(c) /\ Nvenc(c)
<1>1. c \in Lineas
  BY DEF Considerada
<1>2. Custom(c) => c.idx \in 1..Len(c.cv)
  BY DEF Considerada, Custom
<1>3. c.hwaccel => Custom(c) /\ Nvenc(c)
  BY DEF Considerada
<1> QED
  BY <1>1, <1>2, <1>3 DEF Lineas

(* The -cv flag of the encoding.                                           *)
LEMMA EnCv ==
  ASSUME NEW c, Considerada(c), Custom(c)
  PROVE  c.cv[c.idx].n \in {"h264", "h265", "hevc"} /\ c.cv[c.idx].bitrates \in Seq(Bitrate)
<1> DEFINE R == [n : {"h264", "h265", "hevc"}, nvenc : BOOLEAN, bitrates : Seq(Bitrate)]
           x == c.cv[c.idx]
<1>1. c.cv \in Seq(R) /\ c.idx \in 1..Len(c.cv)
  BY EnLinea
<1>2. x \in R
  <2> HIDE DEF R
  <2> QED
    BY <1>1, ElementOfSeq
<1> HIDE DEF x
<1>3. x.n \in {"h264", "h265", "hevc"} /\ x.bitrates \in Seq(Bitrate)
  BY <1>2
<1> QED
  BY <1>3 DEF x

(* The codec of an encoding is h264, hevc or, copied, mpeg2.               *)
LEMMA Nombres ==
  ASSUME NEW c, Considerada(c)
  PROVE  /\ Nombre(c) \in {"h264", "hevc", "mpeg2"}
         /\ Custom(c) => Nombre(c) \in {"h264", "hevc"}
         /\ ~Custom(c) => (Nombre(c) = "mpeg2" <=> c.video = "mpeg2video")
<1>1. CASE Custom(c)
  <2>2. c.cv[c.idx].n \in {"h264", "h265", "hevc"}
    BY <1>1, EnCv
  <2>3. Nombre(c) = NombreCv(c.cv[c.idx])
    BY <1>1 DEF Nombre
  <2> QED
    BY <1>1, <2>2, <2>3 DEF NombreCv
<1>2. CASE ~Custom(c)
  <2>1. c.video \in {"h264", "hevc", "mpeg2video"}
    BY EnLinea
  <2>2. Nombre(c) = VideoFormat(c)
    BY <1>2 DEF Nombre
  <2> QED
    BY <1>2, <2>1, <2>2 DEF VideoFormat
<1> QED
  BY <1>1, <1>2

(* The bitrates of the loop: digits, all different.                        *)
LEMMA Tasas ==
  ASSUME NEW c, Buena(c)
  PROVE  /\ Bitrates(c) \in Seq(Bitrate)
         /\ NB(c) \in Nat \ {0}
         /\ \A i \in 1..NB(c) : EsTasa(Tasa(c, i))
         /\ \A i \in 1..NB(c) : Tasa(c, i) = <<>> => NB(c) = 1 /\ Bitrates(c) = <<>>
         /\ \A i, j \in 1..NB(c) : Tasa(c, i) = Tasa(c, j) => i = j
<1>0. Considerada(c) /\ ~Revienta(c)
  BY DEF Buena
<1>1. Bitrates(c) \in Seq(Bitrate)
  <2>1. CASE Custom(c)
    <3>2. c.cv[c.idx].bitrates \in Seq(Bitrate)
      BY <1>0, <2>1, EnCv
    <3> QED
      BY <2>1, <3>2 DEF Bitrates
  <2>2. CASE ~Custom(c)
    BY <2>2 DEF Bitrates
  <2> QED
    BY <2>1, <2>2
<1>2. NB(c) \in Nat \ {0}
  BY <1>1 DEF NB
<1>3. CASE Bitrates(c) = <<>>
  <2>1. NB(c) = 1 /\ \A i \in 1..NB(c) : Tasa(c, i) = <<>>
    BY <1>3 DEF NB, Tasa
  <2>2. EsTasa(<<>>)
    BY DEF EsTasa
  <2> QED
    BY <1>1, <1>2, <1>3, <2>1, <2>2
<1>4. CASE Bitrates(c) # <<>>
  <2>1. NB(c) = Len(Bitrates(c)) /\ \A i \in 1..NB(c) : Tasa(c, i) = Bitrates(c)[i]
    BY <1>4 DEF NB, Tasa
  <2>2. ASSUME NEW i \in 1..NB(c) PROVE EsTasa(Tasa(c, i)) /\ Tasa(c, i) # <<>>
    <3> DEFINE b == Bitrates(c)[i]
    <3>1. b \in Bitrate /\ Tasa(c, i) = b
      BY <1>1, <2>1
    <3>2. Len(b) # 1
      BY <1>0, <2>1 DEF Revienta, Panico
    <3>3. b \in Seq(0..9) /\ Len(b) \in 1..5
      BY <3>1 DEF Bitrate
    <3> HIDE DEF b
    <3>4. calcularBitrateMaximo(b) \in Nat
      BY <3>1, <3>2, Maximo
    <3>5. b \in Seq(Nat) /\ b # <<>>
      <4>1. Len(b) # 0
        <5>1. Len(b) \in 1..5
          BY <3>3, Zenon
        <5>2. \A n \in 1..5 : n # 0
          OBVIOUS
        <5> QED
          BY <5>1, <5>2, Zenon
      <4> QED
        BY <3>3, <4>1, Cifras, Zenon
    <3> QED
      BY <3>1, <3>4, <3>5 DEF EsTasa
  <2>3. \A i, j \in 1..NB(c) : Tasa(c, i) = Tasa(c, j) => i = j
    <3>0. IsInjective(Bitrates(c))
      BY <1>0 DEF Considerada
    <3>1. IsInjective(Bitrates(c)) /\ DOMAIN Bitrates(c) = 1..NB(c)
      BY <1>1, <2>1, <3>0, LenProperties
    <3> QED
      BY <2>1, <3>1 DEF IsInjective
  <2> QED
    BY <1>1, <1>2, <2>2, <2>3
<1> QED
  BY <1>3, <1>4

(* A sequence over a set is one over any larger set.                       *)
LEMMA SeqMono == \A S, T : S \subseteq T => \A x \in Seq(S) : x \in Seq(T)
<1> TAKE S, T
<1> SUFFICES ASSUME S \subseteq T, NEW x \in Seq(S) PROVE x \in Seq(T)
  OBVIOUS
<1> DEFINE n == Len(x)
<1>1. n \in Nat /\ x \in [1..n -> S]
  BY LenProperties
<1>2. x \in [1..n -> T]
  BY <1>1
<1> HIDE DEF n
<1> QED
  BY <1>1, <1>2

(* An option for one file.                                                 *)
LEMMA OptLocal == \A o \in Propios, v \in Valores : Opt(o, v) \in Local
  BY DEF Opt, Local

(* The kinds of argument and of value.                                     *)
LEMMA TiposArg ==
  /\ Local \subseteq Arg /\ Compleja \subseteq Arg /\ Salida \subseteq Arg /\ Input \in Arg
  /\ STRING \subseteq Valores /\ Textos \subseteq Valores
  /\ Nat \subseteq Valores /\ Seq(Nat) \subseteq Valores
  BY Zenon DEF Arg, Valores

(* The options that inicializarFfmpegEncoding writes before each file.     *)
VideoCab(b) ==
  <<Opt("map", "video")>> \o BitrateCommand(b) \o When(b # <<>>, <<Opt("an", "1"), Opt("sn", "1")>>)

CodecDvb(c) == IF c.hwaccel /\ Nvenc(c) THEN ConNvenc(Nombre(c)) ELSE Nombre(c)

DvbCab(c, b, j) ==
  (IF c.hwaccel THEN BitrateCommand(b) ELSE <<>>)
  \o <<Opt("map[]", Etiqueta(c, j)), Opt("an", "1"), Opt("sn", "1"), Opt("c:v", CodecDvb(c))>>
  \o When(c.hwaccel, <<Opt("profile:v", "baseline")>>)

AudioCab(c, i) ==
  <<Opt("c:a", IF c.acodec THEN "aac" ELSE "copy"), Opt("map", c.audio[i])>>
  \o When(c.acodec, <<Opt("af", "aresample")>>)
  \o <<Opt("map", "video"), Opt("vn", "1")>>

SubsCab(c, i) ==
  <<Opt("map", c.audio[1]), Opt("map", c.subs[i]), Opt("map", "video"),
    Opt("vn", "1"), Opt("c:s", "webvtt")>>

EntradaCab(c) == When(c.hwaccel, <<Opt("hwaccel", "cuvid"), Opt("c:v", "cuvid")>>)

(* Short lists of options.                                                 *)
LEMMA Tuplas ==
  \A x1, x2, x3, x4, x5 \in Local :
     /\ <<x1>> \in Seq(Local) /\ <<x1, x2>> \in Seq(Local)
     /\ <<x1, x2, x3, x4>> \in Seq(Local) /\ <<x1, x2, x3, x4, x5>> \in Seq(Local)
  OBVIOUS

(* A list of options that may be left out.                                 *)
LEMMA Cond ==
  \A S : \A x \in Seq(S) : \A p \in BOOLEAN : When(p, x) \in Seq(S)
  BY DEF When

(* -b:v and -maxrate are options for one file.                             *)
LEMMA BitrateTipo ==
  ASSUME NEW b, EsTasa(b) PROVE BitrateCommand(b) \in Seq(Local)
<1>1. CASE b = <<>>
  BY <1>1 DEF BitrateCommand, When
<1>2. CASE b # <<>>
  <2>1. b \in Valores /\ calcularBitrateMaximo(b) \in Valores
    BY <1>2, TiposArg DEF EsTasa
  <2>2. Opt("b:v", b) \in Local /\ Opt("maxrate", calcularBitrateMaximo(b)) \in Local
    <3>1. "b:v" \in Propios /\ "maxrate" \in Propios
      BY DEF Propios
    <3> QED
      BY <2>1, <3>1, OptLocal, Zenon
  <2>3. <<Opt("b:v", b), Opt("maxrate", calcularBitrateMaximo(b))>> \in Seq(Local)
    BY <2>2, Tuplas, Zenon
  <2> QED
    BY <1>2, <2>3, Zenon DEF BitrateCommand, When
<1> QED
  BY <1>1, <1>2

(* Concatenation stays in the sequences.                                   *)
LEMMA Junta == \A S : \A x, y \in Seq(S) : x \o y \in Seq(S)
<1> TAKE S
<1> TAKE x, y \in Seq(S)
<1> QED
  BY ConcatProperties

(* What precedes the file of a video output are options for one file.      *)
LEMMA VideoCabTipo ==
  ASSUME NEW b, EsTasa(b) PROVE VideoCab(b) \in Seq(Local)
<1>1. Opt("map", "video") \in Local /\ Opt("an", "1") \in Local /\ Opt("sn", "1") \in Local
  <2>1. /\ "map" \in Propios /\ "an" \in Propios /\ "sn" \in Propios
        /\ "video" \in Textos /\ "1" \in Textos
    BY DEF Propios, Textos
  <2> QED
    BY <2>1, OptLocal, TiposArg, Zenon
<1>2. <<Opt("map", "video")>> \in Seq(Local) /\ <<Opt("an", "1"), Opt("sn", "1")>> \in Seq(Local)
  BY <1>1, Tuplas, Zenon
<1>3. When(b # <<>>, <<Opt("an", "1"), Opt("sn", "1")>>) \in Seq(Local)
  BY <1>2, Cond
<1> QED
  BY <1>2, <1>3, BitrateTipo, Junta, Zenon DEF VideoCab

(* The names of codecs that are written are values of options.             *)
LEMMA Codecs ==
  ASSUME NEW c, Considerada(c)
  PROVE  Nombre(c) \in Textos /\ ConNvenc(Nombre(c)) \in Textos /\ CodecDvb(c) \in Textos
<1>1. Nombre(c) \in {"h264", "hevc", "mpeg2"}
  BY Nombres
<1>2. Nombre(c) \in Textos /\ ConNvenc(Nombre(c)) \in Textos
  BY <1>1 DEF ConNvenc, Textos
<1> QED
  BY <1>2 DEF CodecDvb

(* The options before the first -map are options for one file.             *)
LEMMA VideoOptionsTipo ==
  ASSUME NEW c, Considerada(c) PROVE VideoOptions(c) \in Seq(Local)
<1> DEFINE e == IF ~Custom(c) THEN "copy"
                ELSE IF Nvenc(c) THEN ConNvenc(Nombre(c)) ELSE "libx264"
<1>1. e \in Textos
  BY Codecs DEF Textos
<1>2. /\ "c:v" \in Propios /\ "s" \in Propios /\ "vf" \in Propios /\ "pix_fmt" \in Propios
      /\ "resolucion" \in Textos /\ "hwdownload" \in Textos /\ "yuv420p" \in Textos
      /\ "yadif" \in Textos /\ "profile:v" \in Propios /\ "baseline" \in Textos
  BY DEF Propios, Textos
<1> HIDE DEF e
<1>3. /\ Opt("c:v", e) \in Local /\ Opt("s", "resolucion") \in Local
      /\ Opt("vf", "hwdownload") \in Local /\ Opt("pix_fmt", "yuv420p") \in Local
      /\ Opt("vf", "yadif") \in Local /\ Opt("profile:v", "baseline") \in Local
  BY <1>1, <1>2, OptLocal, TiposArg, Zenon
<1>4. /\ <<Opt("c:v", e)>> \in Seq(Local) /\ <<Opt("s", "resolucion")>> \in Seq(Local)
      /\ <<Opt("vf", "hwdownload")>> \in Seq(Local) /\ <<Opt("pix_fmt", "yuv420p")>> \in Seq(Local)
      /\ <<Opt("vf", "yadif")>> \in Seq(Local) /\ <<Opt("profile:v", "baseline")>> \in Seq(Local)
  BY <1>3, Tuplas, ZenonT(60)
<1>5. /\ When(c.resize /\ ~c.hwaccel, <<Opt("s", "resolucion")>>) \in Seq(Local)
      /\ When(Nombre(c) = "copy", <<Opt("vf", "hwdownload")>>) \in Seq(Local)
      /\ When(c.deint /\ ~c.hwaccel, <<Opt("vf", "yadif")>>) \in Seq(Local)
      /\ When(Custom(c), <<Opt("profile:v", "baseline")>>) \in Seq(Local)
  <2>1. When(Custom(c), <<Opt("profile:v", "baseline")>>) \in Seq(Local)
    BY <1>4 DEF When
  <2> QED
    BY <1>4, <2>1, Cond
<1>6. (IF c.hwaccel THEN When(Nombre(c) = "copy", <<Opt("vf", "hwdownload")>>)
       ELSE <<Opt("pix_fmt", "yuv420p")>>) \in Seq(Local)
  BY <1>4, <1>5, Zenon
<1> QED
  BY <1>4, <1>5, <1>6, Junta, Zenon DEF VideoOptions, e

(* So are those of an output of DVB subtitles.                             *)
LEMMA DvbCabTipo ==
  ASSUME NEW c, Considerada(c), NEW b, EsTasa(b), NEW j \in Nat
  PROVE  DvbCab(c, b, j) \in Seq(Local)
<1>1. Etiqueta(c, j) \in Nat /\ CodecDvb(c) \in Textos
  BY Codecs DEF Etiqueta
<1>2. /\ "map[]" \in Propios /\ "an" \in Propios /\ "sn" \in Propios /\ "c:v" \in Propios
      /\ "1" \in Textos /\ "profile:v" \in Propios /\ "baseline" \in Textos
  BY DEF Propios, Textos
<1>3. /\ Opt("map[]", Etiqueta(c, j)) \in Local /\ Opt("an", "1") \in Local
      /\ Opt("sn", "1") \in Local /\ Opt("c:v", CodecDvb(c)) \in Local
      /\ Opt("profile:v", "baseline") \in Local
  BY <1>1, <1>2, OptLocal, TiposArg, Zenon
<1>4. <<Opt("map[]", Etiqueta(c, j)), Opt("an", "1"), Opt("sn", "1"), Opt("c:v", CodecDvb(c))>>
        \in Seq(Local)
  BY <1>3, Tuplas, Zenon
<1>5. (IF c.hwaccel THEN BitrateCommand(b) ELSE <<>>) \in Seq(Local)
  <2>1. BitrateCommand(b) \in Seq(Local)
    BY BitrateTipo
  <2> QED
    BY <2>1
<1>6. When(c.hwaccel, <<Opt("profile:v", "baseline")>>) \in Seq(Local)
  <2>1. <<Opt("profile:v", "baseline")>> \in Seq(Local)
    BY <1>3, Tuplas, Zenon
  <2> QED
    BY <2>1 DEF When
<1> QED
  BY <1>4, <1>5, <1>6, Junta, Zenon DEF DvbCab

(* So are those of an audio output.                                        *)
LEMMA AudioCabTipo ==
  ASSUME NEW c, Considerada(c), NEW i \in 1..Len(c.audio)
  PROVE  AudioCab(c, i) \in Seq(Local)
<1> DEFINE e == IF c.acodec THEN "aac" ELSE "copy"
           m == c.audio[i]
<1>1. e \in Textos /\ m \in STRING
  <2>1. c.audio \in Seq(STRING)
    BY EnLinea
  <2>2. m \in STRING
    BY <2>1, ElementOfSeq
  <2> QED
    BY <2>2 DEF Textos
<1>2. /\ "c:a" \in Propios /\ "map" \in Propios /\ "af" \in Propios /\ "vn" \in Propios
      /\ "aresample" \in Textos /\ "video" \in Textos /\ "1" \in Textos
  BY DEF Propios, Textos
<1> HIDE DEF e, m
<1>3. /\ Opt("c:a", e) \in Local /\ Opt("map", m) \in Local /\ Opt("af", "aresample") \in Local
      /\ Opt("map", "video") \in Local /\ Opt("vn", "1") \in Local
  BY <1>1, <1>2, OptLocal, TiposArg, Zenon
<1>4. /\ <<Opt("c:a", e), Opt("map", m)>> \in Seq(Local) /\ <<Opt("af", "aresample")>> \in Seq(Local)
      /\ <<Opt("map", "video"), Opt("vn", "1")>> \in Seq(Local)
  BY <1>3, Tuplas, Zenon
<1>5. When(c.acodec, <<Opt("af", "aresample")>>) \in Seq(Local)
  BY <1>4 DEF When
<1> QED
  BY <1>4, <1>5, Junta, Zenon DEF AudioCab, e, m

(* So are those of a teletext output, which has an audio.                  *)
LEMMA SubsCabTipo ==
  ASSUME NEW c, Buena(c), Teletext(c), NEW i \in 1..Len(c.subs)
  PROVE  SubsCab(c, i) \in Seq(Local)
<1> DEFINE a == c.audio[1]
           m == c.subs[i]
<1>1. a \in STRING /\ m \in STRING
  <2>1. Considerada(c) /\ c.audio # <<>>
    BY DEF Buena, Revienta
  <2>2. c.audio \in Seq(STRING) /\ c.subs \in Seq(STRING)
    BY <2>1, EnLinea
  <2>3. 1 \in 1..Len(c.audio)
    BY <2>1, <2>2
  <2> QED
    BY <2>2, <2>3, ElementOfSeq
<1>2. /\ "map" \in Propios /\ "vn" \in Propios /\ "c:s" \in Propios
      /\ "webvtt" \in Textos /\ "video" \in Textos /\ "1" \in Textos
  BY DEF Propios, Textos
<1> HIDE DEF a, m
<1>3. /\ Opt("map", a) \in Local /\ Opt("map", m) \in Local /\ Opt("map", "video") \in Local
      /\ Opt("vn", "1") \in Local /\ Opt("c:s", "webvtt") \in Local
  BY <1>1, <1>2, OptLocal, TiposArg, Zenon
<1> QED
  BY <1>3, Tuplas, Zenon DEF SubsCab, a, m

(* So are those of the input.                                              *)
LEMMA EntradaTipo ==
  ASSUME NEW c PROVE EntradaCab(c) \in Seq(Local)
<1>1. /\ "hwaccel" \in Propios /\ "c:v" \in Propios /\ "cuvid" \in Textos
  BY DEF Propios, Textos
<1>2. Opt("hwaccel", "cuvid") \in Local /\ Opt("c:v", "cuvid") \in Local
  BY <1>1, OptLocal, TiposArg, Zenon
<1>3. <<Opt("hwaccel", "cuvid"), Opt("c:v", "cuvid")>> \in Seq(Local)
  BY <1>2, Tuplas, Zenon
<1> QED
  BY <1>3 DEF EntradaCab, When

-----------------------------------------------------------------------------
(* The list as a walk over keys <<a, i, j>>, one per file: a = 0 the input, *)
(* 1 the video at the i-th bitrate (j = 0) and its j-th DVB subtitles, 2    *)
(* the i-th audio, 3 the i-th teletext; 4 is the end of the list.          *)

Salidas(c) ==
  ({1} \X (1..NB(c)) \X (0..ND(c))) \cup ({2} \X (1..Len(c.audio)) \X {0}) \cup ({3} \X (1..NT(c)) \X {0})

Primera == <<0, 0, 0>>
Ultima == <<4, 0, 0>>
Claves(c) == Salidas(c) \cup {Primera, Ultima}

Menor(k, l) ==
  \/ k[1] < l[1]
  \/ k[1] = l[1] /\ (k[2] < l[2] \/ (k[2] = l[2] /\ k[3] < l[3]))

(* l is the key that follows k.                                            *)
Sigue(c, k, l) ==
  /\ l \in Claves(c) /\ Menor(k, l)
  /\ \A m \in Claves(c) : Menor(m, l) <=> m = k \/ Menor(m, k)

EsDvb(k) == k[1] = 1 /\ k[3] > 0

(* The filter graph written before a file, and the pads it has.            *)
TieneGrafo(c, k) == EsDvb(k) /\ (c.hwaccel => k[3] = 1)
GrafoDe(c, k) ==
  IF c.hwaccel THEN [i \in 1..Len(c.subs) |-> [label |-> i, lang |-> c.subs[i]]]
  ELSE <<[label |-> 0, lang |-> c.subs[k[3]]]>>
GrafoSi(c, k) == When(TieneGrafo(c, k), <<Opt("filter_complex", GrafoDe(c, k))>>)

(* The options of its group.                                               *)
Propias(c, k) ==
  IF k[1] = 0 THEN EntradaCab(c)
  ELSE IF k[1] = 1 /\ k[3] = 0
  THEN IF k[2] = 1 THEN VideoOptions(c) \o VideoCab(Tasa(c, 1)) ELSE VideoCab(Tasa(c, k[2]))
  ELSE IF k[1] = 1 THEN DvbCab(c, Tasa(c, k[2]), k[3])
  ELSE IF k[1] = 2 THEN AudioCab(c, k[2])
  ELSE IF k[1] = 3 THEN SubsCab(c, k[2])
  ELSE <<>>

Archivo(c, k) ==
  IF k[1] = 1 /\ k[3] = 0 THEN File("video", SinIdioma, Tasa(c, k[2]), Nombre(c) = "hevc")
  ELSE IF k[1] = 1 THEN File("subtitulos", c.subs[k[3]], Tasa(c, k[2]), Nombre(c) = "hevc")
  ELSE IF k[1] = 2 THEN File("audio", c.audio[k[2]], <<>>, Nombre(c) = "hevc")
  ELSE File("subtitulos", c.subs[k[2]], <<>>, Nombre(c) = "hevc")

Cierre(c, k) ==
  IF k[1] = 0 THEN <<Input>> ELSE IF k[1] = 4 THEN <<>> ELSE <<Archivo(c, k)>>

(* What follows in the list, from the suffixes of the four loops.          *)
ColaDe(s) == CHOOSE T : Colas(T, s, Len(s), Arg) /\ T[1] = FlattenSeq(s)

VSeq(c) == [i \in 1..NB(c) |-> VideoOutput(c, Tasa(c, i))]
DSeq(c, b) == [j \in 1..ND(c) |-> DVBSub(c, b, j)]
ASeq(c) == [i \in 1..Len(c.audio) |-> AudioOutput(c, i)]
SSeq(c) == [i \in 1..NT(c) |-> SubsOutput(c, i)]

RestoS(c, i) == ColaDe(SSeq(c))[i + 1]
RestoA(c, i) == ColaDe(ASeq(c))[i + 1] \o RestoS(c, 0)
RestoV(c, i) == ColaDe(VSeq(c))[i + 1] \o RestoA(c, 0)
RestoD(c, i, j) == ColaDe(DSeq(c, Tasa(c, i)))[j + 1] \o RestoV(c, i)

Dvbs(c, b) == When(~Teletext(c), generarArgumentosDVBSubs(c, b))

Resto(c, k) ==
  IF k[1] = 0 THEN VideoOptions(c) \o RestoV(c, 0)
  ELSE IF k[1] = 1 /\ k[3] = 0 THEN Dvbs(c, Tasa(c, k[2])) \o RestoV(c, k[2])
  ELSE IF k[1] = 1 THEN RestoD(c, k[2], k[3])
  ELSE IF k[1] = 2 THEN RestoA(c, k[2])
  ELSE IF k[1] = 3 THEN RestoS(c, k[2])
  ELSE <<>>

Todo(c, k) == GrafoSi(c, k) \o (Propias(c, k) \o (Cierre(c, k) \o Resto(c, k)))

(* What a key is.                                                          *)
LEMMA FormaClave ==
  ASSUME NEW c, Buena(c), NEW k \in Claves(c)
  PROVE  /\ k \in (0..4) \X Nat \X Nat /\ k = <<k[1], k[2], k[3]>>
         /\ k[1] = 0 => k = Primera
         /\ k[1] = 4 => k = Ultima
         /\ k[1] = 1 => k[2] \in 1..NB(c) /\ k[3] \in 0..ND(c)
         /\ k[1] = 2 => k[2] \in 1..Len(c.audio) /\ k[3] = 0
         /\ k[1] = 3 => k[2] \in 1..NT(c) /\ k[3] = 0
         /\ NB(c) \in Nat \ {0} /\ ND(c) \in Nat /\ NT(c) \in Nat /\ Len(c.audio) \in Nat
         /\ Len(c.subs) \in Nat
<1>1. NB(c) \in Nat \ {0}
  BY Tasas
<1>2. c.audio \in Seq(STRING) /\ c.subs \in Seq(STRING)
  BY EnLinea DEF Buena
<1>3. ND(c) \in Nat /\ NT(c) \in Nat /\ Len(c.audio) \in Nat /\ Len(c.subs) \in Nat
  BY <1>2 DEF ND, NT
<1>4. CASE k \in {1} \X (1..NB(c)) \X (0..ND(c))
  BY <1>1, <1>3, <1>4
<1>5. CASE k \in {2} \X (1..Len(c.audio)) \X {0}
  BY <1>1, <1>3, <1>5
<1>6. CASE k \in {3} \X (1..NT(c)) \X {0}
  BY <1>1, <1>3, <1>6
<1>7. CASE k = Primera \/ k = Ultima
  BY <1>1, <1>3, <1>7 DEF Primera, Ultima
<1> QED
  BY <1>4, <1>5, <1>6, <1>7 DEF Claves, Salidas

(* Every output has its key.                                               *)
LEMMA EsClave ==
  ASSUME NEW c, Buena(c)
  PROVE  /\ Primera \in Claves(c) /\ Ultima \in Claves(c)
         /\ \A i \in 1..NB(c), j \in 0..ND(c) : <<1, i, j>> \in Claves(c)
         /\ \A i \in 1..Len(c.audio) : <<2, i, 0>> \in Claves(c)
         /\ \A i \in 1..NT(c) : <<3, i, 0>> \in Claves(c)
  BY DEF Claves, Salidas

(* The names of the tracks.                                                *)
LEMMA Pistas ==
  ASSUME NEW c, Considerada(c)
  PROVE  /\ \A i \in 1..Len(c.audio) : c.audio[i] \in STRING /\ c.audio[i] # "video"
         /\ \A i \in 1..Len(c.subs) : c.subs[i] \in STRING /\ c.subs[i] # "video"
         /\ \A i, j \in 1..Len(c.audio) : c.audio[i] = c.audio[j] => i = j
         /\ \A i, j \in 1..Len(c.subs) : c.subs[i] = c.subs[j] => i = j
         /\ \A i \in 1..Len(c.audio), j \in 1..Len(c.subs) : c.audio[i] # c.subs[j]
         /\ ToSet(c.audio) = {c.audio[i] : i \in 1..Len(c.audio)}
         /\ ToSet(c.subs) = {c.subs[i] : i \in 1..Len(c.subs)}
         /\ \A i \in 1..Len(c.audio) : c.audio[i] \in ToSet(c.audio)
         /\ \A i \in 1..Len(c.subs) : c.subs[i] \in ToSet(c.subs) /\ c.subs[i] \notin ToSet(c.audio)
<1>1. c.audio \in Seq(STRING) /\ c.subs \in Seq(STRING)
  BY EnLinea
<1>2. DOMAIN c.audio = 1..Len(c.audio) /\ DOMAIN c.subs = 1..Len(c.subs)
  BY <1>1, LenProperties
<1>3. /\ IsInjective(c.subs) /\ IsInjective(c.audio)
      /\ ToSet(c.subs) \cap ToSet(c.audio) = {}
      /\ "video" \notin ToSet(c.subs) \cup ToSet(c.audio)
  BY DEF Considerada
<1>4. /\ \A i \in 1..Len(c.audio) : c.audio[i] \in ToSet(c.audio)
      /\ \A i \in 1..Len(c.subs) : c.subs[i] \in ToSet(c.subs)
  BY <1>2 DEF ToSet
<1>5. /\ \A i \in 1..Len(c.audio) : c.audio[i] \in STRING
      /\ \A i \in 1..Len(c.subs) : c.subs[i] \in STRING
  BY <1>1, ElementOfSeq
<1>6. /\ \A i, j \in 1..Len(c.audio) : c.audio[i] = c.audio[j] => i = j
      /\ \A i, j \in 1..Len(c.subs) : c.subs[i] = c.subs[j] => i = j
  BY <1>2, <1>3, Zenon DEF IsInjective
<1>7. /\ ToSet(c.audio) = {c.audio[i] : i \in 1..Len(c.audio)}
      /\ ToSet(c.subs) = {c.subs[i] : i \in 1..Len(c.subs)}
  BY <1>2, Zenon DEF ToSet
<1> QED
  BY <1>3, <1>4, <1>5, <1>6, <1>7, Zenon

(* The file of a key is an output file.                                    *)
LEMMA ArchivoTipo ==
  ASSUME NEW c, Buena(c), NEW k \in Salidas(c)
  PROVE  Archivo(c, k) \in Salida
<1>0. Considerada(c) /\ k \in Claves(c)
  BY DEF Buena, Claves
<1>1. /\ k[1] \in {1, 2, 3}
      /\ k[1] = 1 => k[2] \in 1..NB(c) /\ k[3] \in 0..ND(c)
      /\ k[1] = 2 => k[2] \in 1..Len(c.audio)
      /\ k[1] = 3 => k[2] \in 1..NT(c)
  <2>1. k[1] \in {1, 2, 3}
    BY DEF Salidas
  <2> QED
    BY <1>0, <2>1, FormaClave
<1>2. \A i \in 1..NB(c) : Tasa(c, i) \in Seq(Nat)
  BY Tasas DEF EsTasa
<1>3. \A d \in {"video", "audio", "subtitulos"}, l \in STRING \cup {SinIdioma}, b \in Seq(Nat), f \in BOOLEAN :
        File(d, l, b, f) \in Salida
  BY DEF File, Salida
<1>4. /\ \A i \in 1..Len(c.audio) : c.audio[i] \in STRING
      /\ \A i \in 1..Len(c.subs) : c.subs[i] \in STRING
  BY <1>0, Pistas
<1>5. ND(c) <= Len(c.subs) /\ NT(c) <= Len(c.subs) /\ Len(c.subs) \in Nat /\ ND(c) \in Nat /\ NT(c) \in Nat
  <2>1. c.subs \in Seq(STRING)
    BY <1>0, EnLinea
  <2> QED
    BY <2>1 DEF ND, NT
<1>6. CASE k[1] = 1 /\ k[3] = 0
  BY <1>1, <1>2, <1>3, <1>6 DEF Archivo
<1>7. CASE k[1] = 1 /\ k[3] # 0
  <2>1. k[3] \in 1..Len(c.subs)
    BY <1>1, <1>5, <1>7
  <2> QED
    BY <1>1, <1>2, <1>3, <1>4, <1>7, <2>1 DEF Archivo
<1>10. <<>> \in Seq(Nat) /\ (Nombre(c) = "hevc") \in BOOLEAN
  OBVIOUS
<1>8. CASE k[1] = 2
  <2>1. Archivo(c, k) = File("audio", c.audio[k[2]], <<>>, Nombre(c) = "hevc")
    BY <1>8 DEF Archivo
  <2> QED
    BY <1>1, <1>3, <1>4, <1>8, <1>10, <2>1, Zenon
<1>9. CASE k[1] = 3
  <2>1. k[2] \in 1..Len(c.subs)
    BY <1>1, <1>5, <1>9
  <2>2. Archivo(c, k) = File("subtitulos", c.subs[k[2]], <<>>, Nombre(c) = "hevc")
    BY <1>9 DEF Archivo
  <2> QED
    BY <1>3, <1>4, <1>10, <2>1, <2>2, Zenon
<1> QED
  BY <1>1, <1>6, <1>7, <1>8, <1>9

(* The filter graph of a key has types; there is no teletext then.         *)
LEMMA GrafoTipo ==
  ASSUME NEW c, Buena(c), NEW k \in Claves(c), EsDvb(k)
  PROVE  /\ GrafoDe(c, k) \in Grafo /\ Opt("filter_complex", GrafoDe(c, k)) \in Compleja
         /\ k[3] \in 1..Len(c.subs) /\ ND(c) = Len(c.subs) /\ ~Teletext(c)
<1>0. Considerada(c)
  BY DEF Buena
<1>1. k[1] = 1 /\ k[2] \in 1..NB(c) /\ k[3] \in 1..ND(c) /\ ND(c) \in Nat /\ Len(c.subs) \in Nat
  BY FormaClave DEF EsDvb
<1>2. ND(c) = Len(c.subs) /\ ~Teletext(c)
  BY <1>1 DEF ND
<1>3. \A i \in 1..Len(c.subs) : c.subs[i] \in STRING
  BY <1>0, Pistas
<1>4. GrafoDe(c, k) \in Grafo
  <2>1. CASE c.hwaccel
    <3>1. [i \in 1..Len(c.subs) |-> [label |-> i, lang |-> c.subs[i]]] \in
            [1..Len(c.subs) -> [label : Nat, lang : STRING]]
      BY <1>3
    <3> QED
      BY <1>1, <2>1, <3>1 DEF GrafoDe, Grafo
  <2>2. CASE ~c.hwaccel
    BY <1>1, <1>2, <1>3, <2>2 DEF GrafoDe, Grafo
  <2> QED
    BY <2>1, <2>2
<1> QED
  BY <1>1, <1>2, <1>4 DEF Opt, Compleja

(* The options of a key's group are options for one file.                  *)
LEMMA PropiasTipo ==
  ASSUME NEW c, Buena(c), NEW k \in Claves(c)
  PROVE  Propias(c, k) \in Seq(Local) /\ Propias(c, k) \in Seq(Arg)
<1>0. Considerada(c)
  BY DEF Buena
<1>1. /\ k[1] \in 0..4
      /\ k[1] = 1 => k[2] \in 1..NB(c) /\ k[3] \in 0..ND(c) /\ k[3] \in Nat
      /\ k[1] = 2 => k[2] \in 1..Len(c.audio)
      /\ k[1] = 3 => k[2] \in 1..NT(c)
      /\ NB(c) \in Nat \ {0}
  BY FormaClave
<1>2. \A i \in 1..NB(c) : EsTasa(Tasa(c, i))
  BY Tasas
<1>3. Propias(c, k) \in Seq(Local)
  <2>1. CASE k[1] = 0
    BY <2>1, EntradaTipo DEF Propias
  <2>2. CASE k[1] = 1 /\ k[3] = 0
    <3>1. VideoCab(Tasa(c, k[2])) \in Seq(Local) /\ VideoCab(Tasa(c, 1)) \in Seq(Local)
      <4>1. EsTasa(Tasa(c, k[2])) /\ EsTasa(Tasa(c, 1))
        BY <1>1, <1>2, <2>2
      <4> QED
        BY <4>1, VideoCabTipo
    <3>2. VideoOptions(c) \in Seq(Local)
      BY <1>0, VideoOptionsTipo
    <3>3. VideoOptions(c) \o VideoCab(Tasa(c, 1)) \in Seq(Local)
      BY <3>1, <3>2, Junta, Zenon
    <3> QED
      BY <2>2, <3>1, <3>3 DEF Propias
  <2>3. CASE k[1] = 1 /\ k[3] # 0
    <3>1. DvbCab(c, Tasa(c, k[2]), k[3]) \in Seq(Local)
      <4>1. EsTasa(Tasa(c, k[2])) /\ k[3] \in Nat
        BY <1>1, <1>2, <2>3
      <4> QED
        BY <1>0, <4>1, DvbCabTipo
    <3> QED
      BY <2>3, <3>1 DEF Propias
  <2>4. CASE k[1] = 2
    <3>1. AudioCab(c, k[2]) \in Seq(Local)
      BY <1>0, <1>1, <2>4, AudioCabTipo
    <3> QED
      BY <2>4, <3>1 DEF Propias
  <2>5. CASE k[1] = 3
    <3>1. Teletext(c) /\ k[2] \in 1..Len(c.subs)
      BY <1>1, <2>5 DEF NT
    <3>2. SubsCab(c, k[2]) \in Seq(Local)
      BY <3>1, SubsCabTipo
    <3> QED
      BY <2>5, <3>2 DEF Propias
  <2>6. CASE k[1] = 4
    BY <2>6 DEF Propias
  <2> QED
    BY <1>1, <2>1, <2>2, <2>3, <2>4, <2>5, <2>6
<1> QED
  BY <1>3, SeqMono, TiposArg, Zenon

(* What ends the group of a key: its file, or the input.                   *)
LEMMA CierreTipo ==
  ASSUME NEW c, Buena(c), NEW k \in Claves(c)
  PROVE  /\ Cierre(c, k) \in Seq(Arg) /\ GrafoSi(c, k) \in Seq(Arg)
         /\ k \in Salidas(c) => Cierre(c, k) = <<Archivo(c, k)>> /\ Archivo(c, k) \in Salida
         /\ k = Primera => Cierre(c, k) = <<Input>>
         /\ k = Ultima => Cierre(c, k) = <<>> /\ GrafoSi(c, k) = <<>> /\ Propias(c, k) = <<>>
<1>1. \A x \in Arg : <<x>> \in Seq(Arg)
  OBVIOUS
<1>2. GrafoSi(c, k) \in Seq(Arg)
  <2>1. CASE TieneGrafo(c, k)
    <3>1. Opt("filter_complex", GrafoDe(c, k)) \in Arg
      BY <2>1, GrafoTipo, TiposArg DEF TieneGrafo
    <3>2. GrafoSi(c, k) = <<Opt("filter_complex", GrafoDe(c, k))>>
      BY <2>1 DEF GrafoSi, When
    <3> QED
      BY <1>1, <3>1, <3>2, Zenon
  <2>2. CASE ~TieneGrafo(c, k)
    BY <2>2 DEF GrafoSi, When
  <2> QED
    BY <2>1, <2>2
<1>3. ASSUME k \in Salidas(c) PROVE Cierre(c, k) = <<Archivo(c, k)>> /\ Archivo(c, k) \in Salida
  <2>1. k[1] \in {1, 2, 3}
    BY <1>3 DEF Salidas
  <2> QED
    BY <1>3, <2>1, ArchivoTipo DEF Cierre
<1>4. k = Primera => Cierre(c, k) = <<Input>>
  BY DEF Cierre, Primera
<1>5. k = Ultima => Cierre(c, k) = <<>> /\ GrafoSi(c, k) = <<>> /\ Propias(c, k) = <<>>
  BY DEF Cierre, Ultima, GrafoSi, When, TieneGrafo, EsDvb, Propias
<1>6. Cierre(c, k) \in Seq(Arg)
  <2>1. CASE k \in Salidas(c)
    BY <1>1, <1>3, <2>1, TiposArg, Zenon
  <2>2. CASE k = Primera
    BY <1>1, <1>4, <2>2, TiposArg, Zenon
  <2>3. CASE k = Ultima
    BY <1>5, <2>3
  <2> QED
    BY <2>1, <2>2, <2>3 DEF Claves
<1> QED
  BY <1>2, <1>3, <1>4, <1>5, <1>6

(* A file with all that is written for it.                                 *)
Bloque(c, k) == GrafoSi(c, k) \o (Propias(c, k) \o Cierre(c, k))

(* The arguments of a key are arguments.                                   *)
LEMMA BloqueTipo ==
  ASSUME NEW c, Buena(c), NEW k \in Claves(c)
  PROVE  Bloque(c, k) \in Seq(Arg) /\ Propias(c, k) \o Cierre(c, k) \in Seq(Arg)
<1>1. Propias(c, k) \in Seq(Arg) /\ Cierre(c, k) \in Seq(Arg) /\ GrafoSi(c, k) \in Seq(Arg)
  BY PropiasTipo, CierreTipo
<1> QED
  BY <1>1, Junta, Zenon DEF Bloque

(* A key's graph, options and file, in one block or one by one.            *)
LEMMA TodoBloque ==
  ASSUME NEW c, Buena(c), NEW k \in Claves(c), NEW r \in Seq(Arg)
  PROVE  Bloque(c, k) \o r = GrafoSi(c, k) \o (Propias(c, k) \o (Cierre(c, k) \o r))
<1> DEFINE g == GrafoSi(c, k)
           p == Propias(c, k)
           e == Cierre(c, k)
<1>1. g \in Seq(Arg) /\ p \in Seq(Arg) /\ e \in Seq(Arg)
  BY PropiasTipo, CierreTipo
<1>2. p \o e \in Seq(Arg)
  BY <1>1, Junta, Zenon
<1>3. Agrupa(g, p \o e, r) /\ Agrupa(p, e, r)
  <2> HIDE DEF g, p, e
  <2> QED
    BY <1>1, <1>2, Asoc, Zenon
<1> QED
  BY <1>3, Zenon DEF Bloque, Agrupa

(* VideoOutput is the block of the video and then its DVB subtitles.       *)
LEMMA VideoBloque ==
  ASSUME NEW c, Buena(c), NEW i \in 1..NB(c)
  PROVE  /\ VideoOutput(c, Tasa(c, i)) =
              (VideoCab(Tasa(c, i)) \o Cierre(c, <<1, i, 0>>)) \o Dvbs(c, Tasa(c, i))
         /\ i # 1 => Bloque(c, <<1, i, 0>>) = VideoCab(Tasa(c, i)) \o Cierre(c, <<1, i, 0>>)
         /\ i = 1 => Bloque(c, <<1, i, 0>>) =
                       VideoOptions(c) \o (VideoCab(Tasa(c, i)) \o Cierre(c, <<1, i, 0>>))
<1> DEFINE k == <<1, i, 0>>
<1>1. k[1] = 1 /\ k[2] = i /\ k[3] = 0
  OBVIOUS
<1>0. k \in Claves(c) /\ k \in Salidas(c)
  <2>1. ND(c) \in Nat
    BY EsClave, FormaClave
  <2> QED
    BY <2>1 DEF Claves, Salidas
<1> HIDE DEF k
<1>2. Cierre(c, k) = generarArgumentosHLS(c, "video", SinIdioma, Tasa(c, i))
  <2>1. Archivo(c, k) = File("video", SinIdioma, Tasa(c, i), Nombre(c) = "hevc")
    BY <1>1 DEF Archivo
  <2>2. Cierre(c, k) = <<Archivo(c, k)>>
    BY <1>0, CierreTipo
  <2> QED
    BY <2>1, <2>2, Zenon DEF generarArgumentosHLS
<1>3. VideoOutput(c, Tasa(c, i)) = (VideoCab(Tasa(c, i)) \o Cierre(c, k)) \o Dvbs(c, Tasa(c, i))
  BY <1>2, Zenon DEF VideoOutput, VideoCab, Dvbs
<1>4. GrafoSi(c, k) = <<>>
  BY <1>1 DEF GrafoSi, TieneGrafo, EsDvb, When
<1>5. Bloque(c, k) = Propias(c, k) \o Cierre(c, k)
  BY <1>0, <1>4, BloqueTipo, Vacia, Zenon DEF Bloque
<1>6. ASSUME i # 1 PROVE Bloque(c, k) = VideoCab(Tasa(c, i)) \o Cierre(c, k)
  BY <1>1, <1>5, <1>6 DEF Propias
<1>7. ASSUME i = 1 PROVE Bloque(c, k) = VideoOptions(c) \o (VideoCab(Tasa(c, i)) \o Cierre(c, k))
  <2>1. Propias(c, k) = VideoOptions(c) \o VideoCab(Tasa(c, i))
    BY <1>1, <1>7 DEF Propias
  <2>2. VideoOptions(c) \in Seq(Arg) /\ VideoCab(Tasa(c, i)) \in Seq(Arg) /\ Cierre(c, k) \in Seq(Arg)
    <3>1. VideoOptions(c) \in Seq(Local)
      BY VideoOptionsTipo DEF Buena
    <3>2. VideoCab(Tasa(c, i)) \in Seq(Local)
      BY Tasas, VideoCabTipo
    <3> QED
      BY <1>0, <3>1, <3>2, CierreTipo, SeqMono, TiposArg, Zenon
  <2>3. Agrupa(VideoOptions(c), VideoCab(Tasa(c, i)), Cierre(c, k))
    BY <2>2, Asoc, Zenon
  <2> QED
    BY <1>5, <2>1, <2>3, Zenon DEF Agrupa
<1> QED
  BY <1>3, <1>6, <1>7, Zenon DEF k

(* AudioOutput is the block of its key.                                    *)
LEMMA AudioBloque ==
  ASSUME NEW c, Buena(c), NEW i \in 1..Len(c.audio)
  PROVE  AudioOutput(c, i) = Bloque(c, <<2, i, 0>>)
<1> DEFINE k == <<2, i, 0>>
<1>1. k[1] = 2 /\ k[2] = i /\ k[3] = 0
  OBVIOUS
<1>0. k \in Claves(c) /\ k \in Salidas(c)
  BY DEF Claves, Salidas
<1> HIDE DEF k
<1>2. Cierre(c, k) = generarArgumentosHLS(c, "audio", c.audio[i], <<>>)
  <2>1. Archivo(c, k) = File("audio", c.audio[i], <<>>, Nombre(c) = "hevc")
    BY <1>1 DEF Archivo
  <2>2. Cierre(c, k) = <<Archivo(c, k)>>
    BY <1>0, CierreTipo
  <2> QED
    BY <2>1, <2>2, Zenon DEF generarArgumentosHLS
<1>3. AudioOutput(c, i) = AudioCab(c, i) \o Cierre(c, k)
  BY <1>2, Zenon DEF AudioOutput, AudioCab
<1>4. GrafoSi(c, k) = <<>> /\ Propias(c, k) = AudioCab(c, i)
  BY <1>1 DEF GrafoSi, TieneGrafo, EsDvb, When, Propias
<1>5. Bloque(c, k) = Propias(c, k) \o Cierre(c, k)
  BY <1>0, <1>4, BloqueTipo, Vacia, Zenon DEF Bloque
<1> QED
  BY <1>3, <1>4, <1>5, Zenon DEF k

(* SubsOutput is the block of its key.                                     *)
LEMMA SubsBloque ==
  ASSUME NEW c, Buena(c), NEW i \in 1..NT(c)
  PROVE  SubsOutput(c, i) = Bloque(c, <<3, i, 0>>)
<1> DEFINE k == <<3, i, 0>>
<1>1. k[1] = 3 /\ k[2] = i /\ k[3] = 0
  OBVIOUS
<1>0. k \in Claves(c) /\ k \in Salidas(c)
  BY DEF Claves, Salidas
<1> HIDE DEF k
<1>2. Cierre(c, k) = generarArgumentosHLS(c, "subtitulos", c.subs[i], <<>>)
  <2>1. Archivo(c, k) = File("subtitulos", c.subs[i], <<>>, Nombre(c) = "hevc")
    BY <1>1 DEF Archivo
  <2>2. Cierre(c, k) = <<Archivo(c, k)>>
    BY <1>0, CierreTipo
  <2> QED
    BY <2>1, <2>2, Zenon DEF generarArgumentosHLS
<1>3. SubsOutput(c, i) = SubsCab(c, i) \o Cierre(c, k)
  BY <1>2, Zenon DEF SubsOutput, SubsCab
<1>4. GrafoSi(c, k) = <<>> /\ Propias(c, k) = SubsCab(c, i)
  BY <1>1 DEF GrafoSi, TieneGrafo, EsDvb, When, Propias
<1>5. Bloque(c, k) = Propias(c, k) \o Cierre(c, k)
  BY <1>0, <1>4, BloqueTipo, Vacia, Zenon DEF Bloque
<1> QED
  BY <1>3, <1>4, <1>5, Zenon DEF k

(* With -hwaccel the graph is written once, before the first of a bitrate. *)
LEMMA DvbBloque ==
  ASSUME NEW c, Buena(c), NEW i \in 1..NB(c), NEW j \in 1..ND(c)
  PROVE  /\ DVBSub(c, Tasa(c, i), j) \in Seq(Arg)
         /\ ~(c.hwaccel /\ j = 1) => DVBSub(c, Tasa(c, i), j) = Bloque(c, <<1, i, j>>)
         /\ c.hwaccel /\ j = 1 =>
              GrafoSi(c, <<1, i, j>>) \o DVBSub(c, Tasa(c, i), j) = Bloque(c, <<1, i, j>>)
<1> DEFINE k == <<1, i, j>>
           b == Tasa(c, i)
           cola == <<Opt("map[]", Etiqueta(c, j)), Opt("an", "1"), Opt("sn", "1"),
                     Opt("c:v", CodecDvb(c))>>
<1>1. k[1] = 1 /\ k[2] = i /\ k[3] = j
  OBVIOUS
<1>0. k \in Claves(c) /\ k \in Salidas(c) /\ ND(c) \in Nat
  <2>1. ND(c) \in Nat
    BY EsClave, FormaClave
  <2> QED
    BY <2>1 DEF Claves, Salidas
<1> HIDE DEF k
<1>2. Cierre(c, k) = generarArgumentosHLS(c, "subtitulos", c.subs[j], b)
  <2>1. Archivo(c, k) = File("subtitulos", c.subs[j], b, Nombre(c) = "hevc")
    BY <1>0, <1>1 DEF Archivo
  <2>2. Cierre(c, k) = <<Archivo(c, k)>>
    BY <1>0, CierreTipo
  <2> QED
    BY <2>1, <2>2, Zenon DEF generarArgumentosHLS
<1>3. /\ GrafoSi(c, k) \in Seq(Arg) /\ Propias(c, k) \in Seq(Arg) /\ Cierre(c, k) \in Seq(Arg)
      /\ Propias(c, k) \o Cierre(c, k) \in Seq(Arg) /\ Bloque(c, k) \in Seq(Arg)
  BY <1>0, CierreTipo, PropiasTipo, BloqueTipo
<1>4. Propias(c, k) = DvbCab(c, b, j)
  BY <1>0, <1>1 DEF Propias
<1>5. CASE c.hwaccel
  <2>1. DVBSub(c, b, j) = Propias(c, k) \o Cierre(c, k)
    BY <1>2, <1>4, <1>5, Zenon DEF DVBSub, DvbCab, CodecDvb
  <2>2. ASSUME j # 1 PROVE DVBSub(c, b, j) = Bloque(c, k)
    <3>1. GrafoSi(c, k) = <<>>
      BY <1>1, <1>5, <2>2 DEF GrafoSi, TieneGrafo, When
    <3> QED
      BY <1>3, <2>1, <3>1, Vacia, Zenon DEF Bloque
  <2>3. GrafoSi(c, k) \o DVBSub(c, b, j) = Bloque(c, k)
    BY <2>1, Zenon DEF Bloque
  <2>4. DVBSub(c, b, j) \in Seq(Arg)
    BY <1>3, <2>1, Zenon
  <2> QED
    BY <1>5, <2>2, <2>3, <2>4, Zenon DEF k
<1>6. CASE ~c.hwaccel
  <2> DEFINE fc == <<Opt("filter_complex", <<[label |-> 0, lang |-> c.subs[j]]>>)>>
  <2>1. GrafoSi(c, k) = fc
    <3>1. TieneGrafo(c, k)
      BY <1>0, <1>1, <1>6 DEF TieneGrafo, EsDvb
    <3>2. GrafoDe(c, k) = <<[label |-> 0, lang |-> c.subs[j]]>>
      BY <1>1, <1>6 DEF GrafoDe
    <3> QED
      BY <3>1, <3>2, Zenon DEF GrafoSi, When
  <2>2. Propias(c, k) = cola
    <3>1. DvbCab(c, b, j) = (<<>> \o cola) \o <<>>
      BY <1>6, Zenon DEF DvbCab, When
    <3>2. cola \in Seq(Local)
      <4>1. Opt("map[]", Etiqueta(c, j)) \in Local /\ Opt("an", "1") \in Local
            /\ Opt("sn", "1") \in Local /\ Opt("c:v", CodecDvb(c)) \in Local
        <5>1. Etiqueta(c, j) \in Nat /\ CodecDvb(c) \in Textos
          BY <1>0, Codecs DEF Etiqueta, Buena
        <5>2. /\ "map[]" \in Propios /\ "an" \in Propios /\ "sn" \in Propios /\ "c:v" \in Propios
              /\ "1" \in Textos
          BY DEF Propios, Textos
        <5> QED
          BY <5>1, <5>2, OptLocal, TiposArg, Zenon
      <4> QED
        BY <4>1, Tuplas, Zenon
    <3> HIDE DEF cola
    <3> QED
      BY <1>4, <3>1, <3>2, Vacia, Zenon
  <2>3. DVBSub(c, b, j) = ((fc \o cola) \o <<>>) \o Cierre(c, k)
    BY <1>2, <1>6, Zenon DEF DVBSub, CodecDvb, When
  <2> HIDE DEF fc, cola
  <2>3a. (fc \o cola) \o <<>> = fc \o cola
    <3>1. fc \o cola \in Seq(Arg)
      BY <1>3, <2>1, <2>2, Junta, Zenon
    <3> QED
      BY <3>1, Vacia, Zenon
  <2>4. Agrupa(GrafoSi(c, k), Propias(c, k), Cierre(c, k))
    BY <1>3, Asoc, Zenon
  <2>5. DVBSub(c, b, j) = Bloque(c, k)
    BY <2>1, <2>2, <2>3, <2>3a, <2>4, Zenon DEF Agrupa, Bloque
  <2> QED
    BY <1>3, <1>6, <2>5, Zenon DEF k
<1> QED
  BY <1>5, <1>6

(* The suffixes of the four loops.                                         *)
LEMMA ColaDeEs ==
  ASSUME NEW s \in Seq(Seq(Arg))
  PROVE  Colas(ColaDe(s), s, Len(s), Arg) /\ ColaDe(s)[1] = FlattenSeq(s)
<1>1. \E T : Colas(T, s, Len(s), Arg) /\ T[1] = FlattenSeq(s)
  BY FlattenColas
<1> QED
  BY <1>1, Zenon DEF ColaDe

(* The same for a loop that writes f[i], i from 1 to n.                    *)
LEMMA Bucle ==
  ASSUME NEW n \in Nat, NEW s \in [1..n -> Seq(Arg)]
  PROVE  /\ Colas(ColaDe(s), s, n, Arg) /\ ColaDe(s)[1] = FlattenSeq(s)
         /\ \A i \in 0..n : ColaDe(s)[i + 1] \in Seq(Arg)
         /\ ColaDe(s)[n + 1] = <<>>
         /\ \A i \in 1..n : ColaDe(s)[(i - 1) + 1] = s[i] \o ColaDe(s)[i + 1]
<1>1. s \in Seq(Seq(Arg)) /\ Len(s) = n
  OBVIOUS
<1>2. Colas(ColaDe(s), s, n, Arg) /\ ColaDe(s)[1] = FlattenSeq(s)
  BY <1>1, ColaDeEs
<1> DEFINE T == ColaDe(s)
<1> HIDE DEF T
<1>3. T \in [1..(n + 1) -> Seq(Arg)] /\ T[n + 1] = <<>> /\ \A i \in 1..n : T[i] = s[i] \o T[i + 1]
  BY <1>2 DEF Colas, T
<1>4. \A i \in 1..n : (i - 1) + 1 = i
  OBVIOUS
<1>5. \A i \in 0..n : T[i + 1] \in Seq(Arg)
  BY <1>3
<1>6. \A i \in 1..n : T[(i - 1) + 1] = s[i] \o T[i + 1]
  BY <1>3, <1>4, Zenon
<1> QED
  BY <1>2, <1>3, <1>5, <1>6, Zenon DEF T

Es(T, x, y) == T = x \o y

(* Something may be added at the end of both sides.                        *)
LEMMA Resta ==
  \A T, x, y, z : x \in Seq(Arg) /\ y \in Seq(Arg) /\ z \in Seq(Arg) /\ Es(T, x, y) =>
     Es(T \o z, x, y \o z) /\ y \o z \in Seq(Arg)
<1> TAKE T, x, y, z
<1> HAVE x \in Seq(Arg) /\ y \in Seq(Arg) /\ z \in Seq(Arg) /\ Es(T, x, y)
<1>1. Agrupa(x, y, z)
  BY Asoc, Zenon
<1> QED
  BY <1>1, Junta, Zenon DEF Agrupa, Es

(* The loop over the teletext subtitles, suffix by suffix.                 *)
LEMMA RestoSEs ==
  ASSUME NEW c, Buena(c)
  PROVE  /\ \A i \in 0..NT(c) : RestoS(c, i) \in Seq(Arg)
         /\ RestoS(c, NT(c)) = <<>>
         /\ \A i \in 1..NT(c) : RestoS(c, i - 1) = Bloque(c, <<3, i, 0>>) \o RestoS(c, i)
         /\ RestoS(c, 0) = SubsCommands(c)
<1>1. NT(c) \in Nat
  BY EsClave, FormaClave
<1>2. ASSUME NEW i \in 1..NT(c) PROVE SSeq(c)[i] = Bloque(c, <<3, i, 0>>) /\ SSeq(c)[i] \in Seq(Arg)
  <2>1. SSeq(c)[i] = SubsOutput(c, i)
    BY DEF SSeq
  <2>2. Bloque(c, <<3, i, 0>>) \in Seq(Arg)
    BY EsClave, BloqueTipo
  <2> QED
    BY <2>1, <2>2, SubsBloque, Zenon
<1>3. SSeq(c) \in [1..NT(c) -> Seq(Arg)]
  <2>1. SSeq(c) = [i \in 1..NT(c) |-> SSeq(c)[i]]
    BY Zenon DEF SSeq
  <2> QED
    BY <1>2, <2>1, Zenon
<1> DEFINE T == ColaDe(SSeq(c))
<1>4. /\ T[1] = FlattenSeq(SSeq(c))
      /\ \A i \in 0..NT(c) : T[i + 1] \in Seq(Arg)
      /\ T[NT(c) + 1] = <<>>
      /\ \A i \in 1..NT(c) : T[(i - 1) + 1] = SSeq(c)[i] \o T[i + 1]
  BY <1>1, <1>3, Bucle, Zenon
<1>5. \A i : RestoS(c, i) = T[i + 1]
  BY Zenon DEF RestoS
<1> HIDE DEF T
<1>6. FlattenSeq(SSeq(c)) = SubsCommands(c)
  <2>1. CASE Teletext(c)
    <3>1. NT(c) = Len(c.subs)
      BY <2>1 DEF NT
    <3> QED
      BY <2>1, <3>1, Zenon DEF SubsCommands, SSeq, When
  <2>2. CASE ~Teletext(c)
    <3>1. NT(c) = 0 /\ SubsCommands(c) = <<>>
      BY <2>2 DEF NT, SubsCommands, When
    <3>2. T[0 + 1] = <<>> /\ 0 + 1 = 1
      BY <1>4, <3>1
    <3> QED
      BY <1>4, <3>1, <3>2
  <2> QED
    BY <2>1, <2>2
<1>7. RestoS(c, 0) = SubsCommands(c)
  <2>1. 0 + 1 = 1
    OBVIOUS
  <2> QED
    BY <1>4, <1>5, <1>6, <2>1, Zenon
<1> QED
  BY <1>2, <1>4, <1>5, <1>7, Zenon

(* The loop over the audio, suffix by suffix.                              *)
LEMMA RestoAEs ==
  ASSUME NEW c, Buena(c)
  PROVE  /\ \A i \in 0..Len(c.audio) : RestoA(c, i) \in Seq(Arg)
         /\ RestoA(c, Len(c.audio)) = RestoS(c, 0)
         /\ \A i \in 1..Len(c.audio) : RestoA(c, i - 1) = Bloque(c, <<2, i, 0>>) \o RestoA(c, i)
         /\ RestoA(c, 0) = AudioCommands(c) \o SubsCommands(c)
         /\ AudioCommands(c) \in Seq(Arg) /\ SubsCommands(c) \in Seq(Arg)
<1> DEFINE n == Len(c.audio)
<1>1. n \in Nat /\ NT(c) \in Nat
  BY EsClave, FormaClave
<1>2. ASSUME NEW i \in 1..n PROVE ASeq(c)[i] = Bloque(c, <<2, i, 0>>) /\ ASeq(c)[i] \in Seq(Arg)
  <2>1. ASeq(c)[i] = AudioOutput(c, i)
    BY DEF ASeq
  <2>2. Bloque(c, <<2, i, 0>>) \in Seq(Arg)
    BY EsClave, BloqueTipo
  <2> QED
    BY <2>1, <2>2, AudioBloque, Zenon
<1>3. ASeq(c) \in [1..n -> Seq(Arg)]
  <2>1. ASeq(c) = [i \in 1..n |-> ASeq(c)[i]]
    BY Zenon DEF ASeq
  <2> QED
    BY <1>2, <2>1, Zenon
<1> DEFINE T == ColaDe(ASeq(c))
           R == RestoS(c, 0)
<1>4. /\ T[1] = FlattenSeq(ASeq(c))
      /\ \A i \in 0..n : T[i + 1] \in Seq(Arg)
      /\ T[n + 1] = <<>>
      /\ \A i \in 1..n : T[(i - 1) + 1] = ASeq(c)[i] \o T[i + 1]
  <2> HIDE DEF n
  <2> QED
    BY <1>1, <1>3, Bucle, Zenon
<1>5. \A i : RestoA(c, i) = T[i + 1] \o R
  BY Zenon DEF RestoA
<1>6. R \in Seq(Arg) /\ R = SubsCommands(c)
  BY <1>1, RestoSEs
<1>7. T[1] = AudioCommands(c)
  BY <1>4, Zenon DEF AudioCommands, ASeq
<1>8. 0 + 1 = 1 /\ 0 \in 0..n /\ (\A i \in 1..n : i \in 0..n)
  BY <1>1
<1> HIDE DEF T, R, n
<1>9. \A i \in 0..n : RestoA(c, i) \in Seq(Arg)
  BY <1>4, <1>5, <1>6, Junta, Zenon
<1>10. RestoA(c, n) = R
  BY <1>4, <1>5, <1>6, Vacia, Zenon
<1>11. ASSUME NEW i \in 1..n PROVE RestoA(c, i - 1) = Bloque(c, <<2, i, 0>>) \o RestoA(c, i)
  <2>1. T[i + 1] \in Seq(Arg) /\ T[(i - 1) + 1] = Bloque(c, <<2, i, 0>>) \o T[i + 1]
        /\ Bloque(c, <<2, i, 0>>) \in Seq(Arg)
    BY <1>2, <1>4, <1>8, Zenon
  <2>2. Es(T[(i - 1) + 1], Bloque(c, <<2, i, 0>>), T[i + 1])
    BY <2>1, Zenon DEF Es
  <2>3. Es(T[(i - 1) + 1] \o R, Bloque(c, <<2, i, 0>>), T[i + 1] \o R)
    BY <1>6, <2>1, <2>2, Resta, Zenon
  <2> QED
    BY <1>5, <2>3, Zenon DEF Es
<1>12. RestoA(c, 0) = AudioCommands(c) \o SubsCommands(c)
  BY <1>5, <1>6, <1>7, <1>8, Zenon
<1>13. AudioCommands(c) \in Seq(Arg)
  BY <1>4, <1>7, <1>8, Zenon
<1> QED
  BY <1>6, <1>9, <1>10, <1>11, <1>12, <1>13, Zenon DEF n, R

(* The parts of a video output are arguments.                              *)
LEMMA VideoSeqTipo ==
  ASSUME NEW c, Buena(c), NEW i \in 1..NB(c)
  PROVE  /\ VideoCab(Tasa(c, i)) \o Cierre(c, <<1, i, 0>>) \in Seq(Arg)
         /\ VideoOptions(c) \in Seq(Arg)
<1>1. VideoOptions(c) \in Seq(Local)
  BY VideoOptionsTipo DEF Buena
<1>2. VideoCab(Tasa(c, i)) \in Seq(Local)
  BY Tasas, VideoCabTipo
<1>3. Cierre(c, <<1, i, 0>>) \in Seq(Arg)
  <2>1. <<1, i, 0>> \in Claves(c)
    <3>1. 0 \in 0..ND(c)
      BY EsClave, FormaClave
    <3> QED
      BY <3>1, EsClave
  <2> QED
    BY <2>1, CierreTipo
<1> QED
  BY <1>1, <1>2, <1>3, SeqMono, TiposArg, Junta, Zenon

(* The DVB subtitles of a bitrate: with -hwaccel one graph and then the    *)
(* outputs, without it a graph before each.                                *)
LEMMA DvbEs ==
  ASSUME NEW c, Buena(c), NEW i \in 1..NB(c)
  PROVE  LET T == ColaDe(DSeq(c, Tasa(c, i)))
             b == Tasa(c, i)
         IN  /\ \A j \in 0..ND(c) : T[j + 1] \in Seq(Arg)
             /\ T[ND(c) + 1] = <<>>
             /\ \A j \in 1..ND(c) : T[(j - 1) + 1] = DVBSub(c, b, j) \o T[j + 1]
             /\ ND(c) = 0 => Dvbs(c, b) = <<>>
             /\ ND(c) # 0 /\ c.hwaccel => Dvbs(c, b) = GrafoSi(c, <<1, i, 1>>) \o T[1]
             /\ ND(c) # 0 /\ ~c.hwaccel => Dvbs(c, b) = T[1]
<1> DEFINE b == Tasa(c, i)
           s == DSeq(c, b)
           T == ColaDe(s)
           n == ND(c)
           fc == <<Opt("filter_complex", [k \in 1..Len(c.subs) |->
                                  [label |-> k, lang |-> c.subs[k]]])>>
<1>1. n \in Nat /\ c.subs \in Seq(STRING)
  BY EsClave, FormaClave, EnLinea DEF Buena
<1>2. s \in [1..n -> Seq(Arg)]
  <2>1. s = [j \in 1..n |-> DVBSub(c, b, j)]
    BY Zenon DEF DSeq
  <2>2. \A j \in 1..n : DVBSub(c, b, j) \in Seq(Arg)
    BY DvbBloque
  <2> HIDE DEF s, n, b
  <2> QED
    BY <2>1, <2>2, Zenon
<1>3. \A j \in 1..n : s[j] = DVBSub(c, b, j)
  BY DEF DSeq
<1>4. /\ T[1] = FlattenSeq(s)
      /\ \A j \in 0..n : T[j + 1] \in Seq(Arg)
      /\ T[n + 1] = <<>>
      /\ \A j \in 1..n : T[(j - 1) + 1] = s[j] \o T[j + 1]
  <2> HIDE DEF n, s
  <2> QED
    BY <1>1, <1>2, Bucle, Zenon
<1>5. ASSUME n = 0 PROVE Dvbs(c, b) = <<>>
  <2>1. CASE Teletext(c)
    BY <2>1 DEF Dvbs, When
  <2>2. CASE ~Teletext(c)
    <3>1. Len(c.subs) = 0
      BY <1>5, <2>2 DEF ND
    <3>2. c.subs = <<>>
      BY <1>1, <3>1
    <3>3. 1..Len(c.subs) = 1..n
      BY <1>5, <3>1
    <3>4. s = [j \in 1..Len(c.subs) |-> DVBSub(c, b, j)]
      BY <3>3, Zenon DEF DSeq
    <3>5. FlattenSeq([j \in 1..Len(c.subs) |-> DVBSub(c, b, j)]) = <<>>
      <4>1. T[1] = <<>>
        BY <1>4, <1>5
      <4> QED
        BY <1>4, <3>4, <4>1, Zenon
    <3>6. generarArgumentosDVBSubs(c, b) = <<>> \o <<>>
      BY <3>2, <3>5, Zenon DEF generarArgumentosDVBSubs, When
    <3>7. <<>> \o <<>> = <<>>
      OBVIOUS
    <3> QED
      BY <2>2, <3>6, <3>7, Zenon DEF Dvbs, When
  <2> QED
    BY <2>1, <2>2
<1>6. ASSUME n # 0 PROVE /\ c.hwaccel => Dvbs(c, b) = GrafoSi(c, <<1, i, 1>>) \o T[1]
                         /\ ~c.hwaccel => Dvbs(c, b) = T[1]
  <2>1. ~Teletext(c) /\ n = Len(c.subs)
    BY <1>6 DEF ND
  <2>2. c.subs # <<>>
    BY <1>6, <2>1
  <2>3. FlattenSeq([j \in 1..Len(c.subs) |-> DVBSub(c, b, j)]) = T[1]
    BY <1>4, <2>1, Zenon DEF DSeq
  <2>4. Dvbs(c, b) = generarArgumentosDVBSubs(c, b)
    BY <2>1, Zenon DEF Dvbs, When
  <2>5. ASSUME c.hwaccel PROVE Dvbs(c, b) = GrafoSi(c, <<1, i, 1>>) \o T[1]
    <3>1. generarArgumentosDVBSubs(c, b) = fc \o T[1]
      BY <2>2, <2>3, <2>5, Zenon DEF generarArgumentosDVBSubs, When
    <3>2. GrafoSi(c, <<1, i, 1>>) = fc
      <4>1. TieneGrafo(c, <<1, i, 1>>)
        BY DEF TieneGrafo, EsDvb
      <4> QED
        BY <2>5, <4>1, Zenon DEF GrafoSi, GrafoDe, When
    <3> QED
      BY <2>4, <3>1, <3>2, Zenon
  <2>6. ASSUME ~c.hwaccel PROVE Dvbs(c, b) = T[1]
    <3>1. generarArgumentosDVBSubs(c, b) = <<>> \o T[1]
      BY <2>2, <2>3, <2>6, Zenon DEF generarArgumentosDVBSubs, When
    <3>2. T[1] \in Seq(Arg)
      <4>1. 0 \in 0..n /\ 0 + 1 = 1
        BY <1>1
      <4> QED
        BY <1>4, <4>1, Zenon
    <3> QED
      BY <2>4, <3>1, <3>2, Vacia, Zenon
  <2> QED
    BY <2>5, <2>6
<1> HIDE DEF b, s, T, n, fc
<1>7. /\ \A j \in 0..n : T[j + 1] \in Seq(Arg)
      /\ T[n + 1] = <<>>
      /\ \A j \in 1..n : T[(j - 1) + 1] = DVBSub(c, b, j) \o T[j + 1]
  BY <1>3, <1>4, Zenon
<1> QED
  BY <1>5, <1>6, <1>7, Zenon DEF b, T, s, n

(* So are the DVB subtitles of a bitrate.                                  *)
LEMMA DvbsTipo ==
  ASSUME NEW c, Buena(c), NEW i \in 1..NB(c)
  PROVE  Dvbs(c, Tasa(c, i)) \in Seq(Arg)
<1> DEFINE T == ColaDe(DSeq(c, Tasa(c, i)))
           D == Dvbs(c, Tasa(c, i))
<1>1. /\ \A j \in 0..ND(c) : T[j + 1] \in Seq(Arg)
      /\ ND(c) = 0 => D = <<>>
      /\ ND(c) # 0 /\ c.hwaccel => D = GrafoSi(c, <<1, i, 1>>) \o T[1]
      /\ ND(c) # 0 /\ ~c.hwaccel => D = T[1]
  BY DvbEs, Zenon
<1>2. ND(c) \in Nat
  BY EsClave, FormaClave
<1>3. T[1] \in Seq(Arg)
  <2>1. 0 \in 0..ND(c) /\ 0 + 1 = 1
    BY <1>2
  <2> HIDE DEF T
  <2> QED
    BY <1>1, <2>1, Zenon
<1>4. ND(c) # 0 => GrafoSi(c, <<1, i, 1>>) \in Seq(Arg)
  <2>1. SUFFICES ASSUME ND(c) # 0 PROVE GrafoSi(c, <<1, i, 1>>) \in Seq(Arg)
    OBVIOUS
  <2>2. <<1, i, 1>> \in Claves(c)
    BY <1>2, <2>1, EsClave
  <2> QED
    BY <2>2, CierreTipo
<1> HIDE DEF T, D
<1>5. CASE ND(c) = 0
  BY <1>1, <1>5 DEF D
<1>6. CASE ND(c) # 0
  BY <1>1, <1>3, <1>4, <1>6, Junta, Zenon DEF D
<1> QED
  BY <1>5, <1>6

(* The loop over the bitrates, suffix by suffix.                           *)
LEMMA RestoVEs ==
  ASSUME NEW c, Buena(c)
  PROVE  /\ \A i \in 0..NB(c) : RestoV(c, i) \in Seq(Arg)
         /\ RestoV(c, NB(c)) = RestoA(c, 0)
         /\ \A i \in 1..NB(c) :
              RestoV(c, i - 1) = (VideoCab(Tasa(c, i)) \o Cierre(c, <<1, i, 0>>))
                                 \o (Dvbs(c, Tasa(c, i)) \o RestoV(c, i))
         /\ VideoCommands(c) = VideoOptions(c) \o ColaDe(VSeq(c))[1]
         /\ RestoV(c, 0) = ColaDe(VSeq(c))[1] \o RestoA(c, 0)
         /\ ColaDe(VSeq(c))[1] \in Seq(Arg)
<1> DEFINE n == NB(c)
           T == ColaDe(VSeq(c))
           R == RestoA(c, 0)
<1>1. n \in Nat \ {0} /\ Len(c.audio) \in Nat
  BY EsClave, FormaClave
<1>2. ASSUME NEW i \in 1..n
      PROVE  /\ VSeq(c)[i] = (VideoCab(Tasa(c, i)) \o Cierre(c, <<1, i, 0>>)) \o Dvbs(c, Tasa(c, i))
             /\ VSeq(c)[i] \in Seq(Arg)
  <2>1. VSeq(c)[i] = VideoOutput(c, Tasa(c, i))
    BY DEF VSeq
  <2>2. VideoOutput(c, Tasa(c, i)) =
          (VideoCab(Tasa(c, i)) \o Cierre(c, <<1, i, 0>>)) \o Dvbs(c, Tasa(c, i))
    BY VideoBloque
  <2>3. /\ VideoCab(Tasa(c, i)) \o Cierre(c, <<1, i, 0>>) \in Seq(Arg)
        /\ Dvbs(c, Tasa(c, i)) \in Seq(Arg)
    BY VideoSeqTipo, DvbsTipo
  <2>4. (VideoCab(Tasa(c, i)) \o Cierre(c, <<1, i, 0>>)) \o Dvbs(c, Tasa(c, i)) \in Seq(Arg)
    BY <2>3, Junta, Zenon
  <2> QED
    BY <2>1, <2>2, <2>4, Zenon
<1>3. VSeq(c) \in [1..n -> Seq(Arg)]
  <2>1. VSeq(c) = [i \in 1..n |-> VSeq(c)[i]]
    BY Zenon DEF VSeq
  <2> QED
    BY <1>2, <2>1, Zenon
<1>4. /\ T[1] = FlattenSeq(VSeq(c))
      /\ \A i \in 0..n : T[i + 1] \in Seq(Arg)
      /\ T[n + 1] = <<>>
      /\ \A i \in 1..n : T[(i - 1) + 1] = VSeq(c)[i] \o T[i + 1]
  <2>1. n \in Nat
    BY <1>1
  <2> HIDE DEF n
  <2> QED
    BY <2>1, <1>3, Bucle, Zenon
<1>5. \A i : RestoV(c, i) = T[i + 1] \o R
  BY Zenon DEF RestoV
<1>6. R \in Seq(Arg)
  <2>1. 0 \in 0..Len(c.audio)
    BY <1>1
  <2> QED
    BY <2>1, RestoAEs
<1>7. 0 + 1 = 1 /\ 0 \in 0..n /\ (\A i \in 1..n : i \in 0..n)
  BY <1>1
<1>8. VideoCommands(c) = VideoOptions(c) \o T[1]
  <2>1. CASE Bitrates(c) = <<>>
    <3>1. n = 1 /\ Tasa(c, 1) = <<>>
      BY <2>1 DEF NB, Tasa
    <3>2. T[1] = VSeq(c)[1] \o <<>>
      <4>1. 1 \in 1..n /\ (1 - 1) + 1 = 1 /\ 1 + 1 = n + 1
        BY <3>1
      <4> HIDE DEF T, n
      <4>2. T[(1 - 1) + 1] = VSeq(c)[1] \o T[1 + 1]
        BY <1>4, <4>1, Zenon
      <4> QED
        BY <1>4, <4>1, <4>2, Zenon
    <3>3. VSeq(c)[1] = VideoOutput(c, <<>>) /\ VSeq(c)[1] \in Seq(Arg)
      <4>1. VSeq(c)[1] = VideoOutput(c, Tasa(c, 1))
        BY <3>1 DEF VSeq
      <4>2. VSeq(c)[1] \in Seq(Arg)
        BY <1>2, <3>1
      <4> QED
        BY <3>1, <4>1, <4>2, Zenon
    <3>4. T[1] = VideoOutput(c, <<>>)
      BY <3>2, <3>3, Vacia, Zenon
    <3> HIDE DEF T
    <3> QED
      BY <2>1, <3>4, Zenon DEF VideoCommands
  <2>2. CASE Bitrates(c) # <<>>
    <3>1. VSeq(c) = [i \in 1..Len(Bitrates(c)) |-> VideoOutput(c, Bitrates(c)[i])]
      BY <2>2, Zenon DEF VSeq, NB, Tasa
    <3> HIDE DEF T
    <3> QED
      BY <1>4, <2>2, <3>1, Zenon DEF VideoCommands
  <2> QED
    BY <2>1, <2>2
<1> HIDE DEF T, R, n
<1>9. \A i \in 0..n : RestoV(c, i) \in Seq(Arg)
  BY <1>4, <1>5, <1>6, Junta, Zenon
<1>10. RestoV(c, n) = R
  BY <1>4, <1>5, <1>6, Vacia, Zenon
<1>11. ASSUME NEW i \in 1..n
       PROVE  RestoV(c, i - 1) = (VideoCab(Tasa(c, i)) \o Cierre(c, <<1, i, 0>>))
                                 \o (Dvbs(c, Tasa(c, i)) \o RestoV(c, i))
  <2> DEFINE x == VideoCab(Tasa(c, i)) \o Cierre(c, <<1, i, 0>>)
             y == Dvbs(c, Tasa(c, i))
  <2>1. x \in Seq(Arg) /\ y \in Seq(Arg)
    BY VideoSeqTipo, DvbsTipo DEF n
  <2>2. /\ T[i + 1] \in Seq(Arg) /\ T[(i - 1) + 1] = (x \o y) \o T[i + 1]
        /\ x \o y \in Seq(Arg)
    BY <1>2, <1>4, <1>7, Zenon
  <2> HIDE DEF x, y
  <2>3. Agrupa(x \o y, T[i + 1], R) /\ Agrupa(x, y, T[i + 1] \o R)
    <3>1. T[i + 1] \o R \in Seq(Arg)
      BY <1>6, <2>2, Junta, Zenon
    <3> QED
      BY <1>6, <2>1, <2>2, <3>1, Asoc, Zenon
  <2>4. T[(i - 1) + 1] \o R = x \o (y \o (T[i + 1] \o R))
    BY <2>2, <2>3, Zenon DEF Agrupa
  <2> QED
    BY <1>5, <2>4, Zenon DEF x, y
<1>12. RestoV(c, 0) = T[1] \o R /\ T[1] \in Seq(Arg)
  BY <1>4, <1>5, <1>7, Zenon
<1> QED
  BY <1>8, <1>9, <1>10, <1>11, <1>12, Zenon DEF n, R, T

(* What follows a key are arguments.                                       *)
LEMMA RestoTipo ==
  ASSUME NEW c, Buena(c), NEW k \in Claves(c)
  PROVE  Resto(c, k) \in Seq(Arg)
<1>1. /\ k[1] \in 0..4
      /\ k[1] = 1 => k[2] \in 1..NB(c) /\ k[3] \in 0..ND(c)
      /\ k[1] = 2 => k[2] \in 1..Len(c.audio)
      /\ k[1] = 3 => k[2] \in 1..NT(c)
      /\ NB(c) \in Nat \ {0} /\ ND(c) \in Nat /\ NT(c) \in Nat /\ Len(c.audio) \in Nat
  BY FormaClave
<1>2. \A i \in 0..NB(c) : RestoV(c, i) \in Seq(Arg)
  BY RestoVEs
<1>3. CASE k[1] = 0
  <2>1. VideoOptions(c) \in Seq(Arg)
    <3>1. 1 \in 1..NB(c)
      BY <1>1
    <3> QED
      BY <3>1, VideoSeqTipo
  <2>2. RestoV(c, 0) \in Seq(Arg)
    BY <1>1, <1>2
  <2>3. VideoOptions(c) \o RestoV(c, 0) \in Seq(Arg)
    BY <2>1, <2>2, Junta, Zenon
  <2> QED
    BY <1>3, <2>3 DEF Resto
<1>4. CASE k[1] = 1
  <2>1. RestoV(c, k[2]) \in Seq(Arg)
    BY <1>1, <1>2, <1>4
  <2>2. CASE k[3] = 0
    <3>1. Dvbs(c, Tasa(c, k[2])) \in Seq(Arg)
      BY <1>1, <1>4, DvbsTipo
    <3>2. Dvbs(c, Tasa(c, k[2])) \o RestoV(c, k[2]) \in Seq(Arg)
      BY <2>1, <3>1, Junta, Zenon
    <3> QED
      BY <1>4, <2>2, <3>2 DEF Resto
  <2>3. CASE k[3] # 0
    <3>1. ColaDe(DSeq(c, Tasa(c, k[2])))[k[3] + 1] \in Seq(Arg)
      BY <1>1, <1>4, DvbEs
    <3>2. RestoD(c, k[2], k[3]) \in Seq(Arg)
      BY <2>1, <3>1, Junta, Zenon DEF RestoD
    <3> QED
      BY <1>4, <2>3, <3>2 DEF Resto
  <2> QED
    BY <2>2, <2>3
<1>5. CASE k[1] = 2
  BY <1>1, <1>5, RestoAEs DEF Resto
<1>6. CASE k[1] = 3
  BY <1>1, <1>6, RestoSEs DEF Resto
<1>7. CASE k[1] = 4
  BY <1>7 DEF Resto
<1> QED
  BY <1>1, <1>3, <1>4, <1>5, <1>6, <1>7

(* What follows the video: the first audio, the first teletext or the end. *)
TrasVideo(c) == IF Len(c.audio) > 0 THEN <<2, 1, 0>> ELSE IF NT(c) > 0 THEN <<3, 1, 0>> ELSE Ultima
TrasAudio(c) == IF NT(c) > 0 THEN <<3, 1, 0>> ELSE Ultima

(* What follows the video, the audio and the teletext.                     *)
LEMMA SigueFin ==
  ASSUME NEW c, Buena(c)
  PROVE  /\ RestoS(c, NT(c)) = Bloque(c, Ultima) \o Resto(c, Ultima)
         /\ RestoS(c, 0) = Bloque(c, TrasAudio(c)) \o Resto(c, TrasAudio(c))
         /\ RestoA(c, 0) = Bloque(c, TrasVideo(c)) \o Resto(c, TrasVideo(c))
<1>0. NT(c) \in Nat /\ Len(c.audio) \in Nat
  BY EsClave, FormaClave
<1>1. RestoS(c, NT(c)) = Bloque(c, Ultima) \o Resto(c, Ultima)
  <2>1. Cierre(c, Ultima) = <<>> /\ GrafoSi(c, Ultima) = <<>> /\ Propias(c, Ultima) = <<>>
    BY EsClave, CierreTipo
  <2>2. Resto(c, Ultima) = <<>>
    BY DEF Resto, Ultima
  <2>3. <<>> \o <<>> = <<>>
    OBVIOUS
  <2>4. Bloque(c, Ultima) \o Resto(c, Ultima) = <<>>
    BY <2>1, <2>2, <2>3, Zenon DEF Bloque
  <2> QED
    BY <2>4, RestoSEs, Zenon
<1>2. RestoS(c, 0) = Bloque(c, TrasAudio(c)) \o Resto(c, TrasAudio(c))
  <2>1. CASE NT(c) > 0
    <3>1. 1 \in 1..NT(c) /\ 1 - 1 = 0
      BY <1>0, <2>1
    <3>2. RestoS(c, 1 - 1) = Bloque(c, <<3, 1, 0>>) \o RestoS(c, 1)
      BY <3>1, RestoSEs, Zenon
    <3>3. Resto(c, <<3, 1, 0>>) = RestoS(c, 1)
      BY DEF Resto
    <3>4. TrasAudio(c) = <<3, 1, 0>>
      BY <2>1 DEF TrasAudio
    <3> QED
      BY <3>1, <3>2, <3>3, <3>4, Zenon
  <2>2. CASE ~(NT(c) > 0)
    <3>1. NT(c) = 0 /\ TrasAudio(c) = Ultima
      BY <1>0, <2>2 DEF TrasAudio
    <3> QED
      BY <1>1, <3>1, Zenon
  <2> QED
    BY <2>1, <2>2
<1>3. RestoA(c, 0) = Bloque(c, TrasVideo(c)) \o Resto(c, TrasVideo(c))
  <2>1. CASE Len(c.audio) > 0
    <3>1. 1 \in 1..Len(c.audio) /\ 1 - 1 = 0
      BY <1>0, <2>1
    <3>2. RestoA(c, 1 - 1) = Bloque(c, <<2, 1, 0>>) \o RestoA(c, 1)
      BY <3>1, RestoAEs, Zenon
    <3>3. Resto(c, <<2, 1, 0>>) = RestoA(c, 1)
      BY DEF Resto
    <3>4. TrasVideo(c) = <<2, 1, 0>>
      BY <2>1 DEF TrasVideo
    <3> QED
      BY <3>1, <3>2, <3>3, <3>4, Zenon
  <2>2. CASE ~(Len(c.audio) > 0)
    <3>1. Len(c.audio) = 0
      BY <1>0, <2>2
    <3>2. TrasVideo(c) = TrasAudio(c)
      BY <2>2 DEF TrasVideo, TrasAudio
    <3>3. RestoA(c, 0) = RestoS(c, 0)
      BY <3>1, RestoAEs
    <3> QED
      BY <1>2, <3>2, <3>3, Zenon
  <2> QED
    BY <2>1, <2>2
<1> QED
  BY <1>1, <1>2, <1>3

(* What follows the video or a DVB subtitle of a bitrate.                  *)
LEMMA SigueDvb ==
  ASSUME NEW c, Buena(c), NEW i \in 1..NB(c), NEW j \in 0..ND(c)
  PROVE  /\ j = ND(c) => Resto(c, <<1, i, j>>) = RestoV(c, i)
         /\ j < ND(c) => Resto(c, <<1, i, j>>) =
                           Bloque(c, <<1, i, j + 1>>) \o Resto(c, <<1, i, j + 1>>)
<1> DEFINE T == ColaDe(DSeq(c, Tasa(c, i)))
           b == Tasa(c, i)
           R == RestoV(c, i)
           B == Bloque(c, <<1, i, j + 1>>)
           U == T[(j + 1) + 1]
<1>0. ND(c) \in Nat /\ NB(c) \in Nat \ {0}
  BY EsClave, FormaClave
<1>1. R \in Seq(Arg)
  BY <1>0, RestoVEs
<1>2. /\ \A m \in 0..ND(c) : T[m + 1] \in Seq(Arg)
      /\ T[ND(c) + 1] = <<>>
      /\ \A m \in 1..ND(c) : T[(m - 1) + 1] = DVBSub(c, b, m) \o T[m + 1]
      /\ ND(c) = 0 => Dvbs(c, b) = <<>>
      /\ ND(c) # 0 /\ c.hwaccel => Dvbs(c, b) = GrafoSi(c, <<1, i, 1>>) \o T[1]
      /\ ND(c) # 0 /\ ~c.hwaccel => Dvbs(c, b) = T[1]
  BY DvbEs, Zenon
<1>3. /\ j = 0 => Resto(c, <<1, i, j>>) = Dvbs(c, b) \o R
      /\ j # 0 => Resto(c, <<1, i, j>>) = T[j + 1] \o R
  <2>1. /\ j = 0 => Resto(c, <<1, i, j>>) = Dvbs(c, Tasa(c, i)) \o RestoV(c, i)
        /\ j # 0 => Resto(c, <<1, i, j>>) = RestoD(c, i, j)
    <3> HIDE DEF T, b, R, B, U
    <3> QED
      BY DEF Resto
  <2> QED
    BY <2>1, Zenon DEF RestoD
<1>4. ASSUME j = ND(c) PROVE Resto(c, <<1, i, j>>) = R
  <2>1. Resto(c, <<1, i, j>>) = <<>> \o R
    <3> HIDE DEF T
    <3> QED
      BY <1>2, <1>3, <1>4, Zenon
  <2> QED
    BY <1>1, <2>1, Vacia, Zenon
<1>5. ASSUME j < ND(c) PROVE Resto(c, <<1, i, j>>) = B \o Resto(c, <<1, i, j + 1>>)
  <2>1. j + 1 \in 1..ND(c) /\ ((j + 1) - 1) + 1 = j + 1 /\ j + 1 # 0
    BY <1>0, <1>5
  <2> DEFINE D == DVBSub(c, b, j + 1)
  <2>2. T[j + 1] = D \o U /\ U \in Seq(Arg)
    <3>1. T[((j + 1) - 1) + 1] = DVBSub(c, b, j + 1) \o T[(j + 1) + 1]
      BY <1>2, <2>1, Zenon
    <3>2. j + 1 \in 0..ND(c)
      BY <2>1
    <3> QED
      BY <1>2, <2>1, <3>1, <3>2, Zenon
  <2>3. Resto(c, <<1, i, j + 1>>) = U \o R
    <3>1. \A m : m # 0 => Resto(c, <<1, i, m>>) = RestoD(c, i, m)
      BY DEF Resto
    <3> QED
      BY <2>1, <3>1, Zenon DEF RestoD
  <2>4. D \in Seq(Arg) /\ B \in Seq(Arg)
    <3>1. <<1, i, j + 1>> \in Claves(c)
      BY <2>1, EsClave
    <3> QED
      BY <2>1, <3>1, DvbBloque, BloqueTipo
  <2>5. /\ ~(c.hwaccel /\ j = 0) => D = B
        /\ c.hwaccel /\ j = 0 => GrafoSi(c, <<1, i, 1>>) \o D = B
    <3>1. j = 0 => j + 1 = 1
      OBVIOUS
    <3>2. j + 1 = 1 => j = 0
      OBVIOUS
    <3>3. /\ ~(c.hwaccel /\ j + 1 = 1) => D = B
          /\ c.hwaccel /\ j + 1 = 1 => GrafoSi(c, <<1, i, j + 1>>) \o D = B
      BY <2>1, DvbBloque
    <3> HIDE DEF D, B
    <3> QED
      BY <3>1, <3>2, <3>3, Zenon
  <2> HIDE DEF D, B, U, T, R, b
  <2>6. CASE j = 0 /\ c.hwaccel
    <3> DEFINE G == GrafoSi(c, <<1, i, 1>>)
    <3>1. j + 1 = 1 /\ ND(c) # 0
      BY <1>0, <1>5, <2>6
    <3>2. Dvbs(c, b) = G \o T[j + 1]
      BY <1>2, <2>6, <3>1, Zenon
    <3>3. G \in Seq(Arg)
      <4>1. <<1, i, 1>> \in Claves(c)
        BY <2>1, <3>1, EsClave
      <4> QED
        BY <4>1, CierreTipo
    <3> HIDE DEF G
    <3>4. Agrupa(G, D, U)
      BY <2>2, <2>4, <3>3, Asoc, Zenon
    <3>5. Es(Dvbs(c, b), B, U)
      BY <2>2, <2>5, <2>6, <3>2, <3>4, Zenon DEF Agrupa, Es, G
    <3>6. Es(Dvbs(c, b) \o R, B, U \o R)
      BY <1>1, <2>2, <2>4, <3>5, Resta, Zenon DEF R
    <3> QED
      BY <1>3, <2>3, <2>6, <3>6, Zenon DEF Es, R, b
  <2>7. CASE ~(j = 0 /\ c.hwaccel)
    <3>1. Es(T[j + 1], B, U)
      BY <2>2, <2>5, <2>7, Zenon DEF Es
    <3>2. Es(T[j + 1] \o R, B, U \o R)
      BY <1>1, <2>2, <2>4, <3>1, Resta, Zenon DEF R
    <3>3. Resto(c, <<1, i, j>>) = T[j + 1] \o R
      <4>1. CASE j = 0
        <5>1. j + 1 = 1 /\ ND(c) # 0
          BY <1>0, <1>5, <4>1
        <5>2. Dvbs(c, b) = T[j + 1]
          BY <1>2, <2>7, <4>1, <5>1, Zenon
        <5> QED
          BY <1>3, <4>1, <5>2, Zenon DEF R, b
      <4>2. CASE j # 0
        BY <1>3, <4>2, Zenon DEF R, T, b
      <4> QED
        BY <4>1, <4>2
    <3> QED
      BY <2>3, <3>2, <3>3, Zenon DEF Es
  <2> QED
    BY <2>6, <2>7
<1> QED
  BY <1>4, <1>5

(* From a key on: its block and what follows.                              *)
LEMMA TodoEs ==
  ASSUME NEW c, Buena(c), NEW k \in Claves(c)
  PROVE  Todo(c, k) = Bloque(c, k) \o Resto(c, k) /\ Todo(c, k) \in Seq(Arg)
<1>1. Resto(c, k) \in Seq(Arg) /\ Bloque(c, k) \in Seq(Arg)
  BY RestoTipo, BloqueTipo
<1>2. Todo(c, k) = Bloque(c, k) \o Resto(c, k)
  BY <1>1, TodoBloque, Zenon DEF Todo
<1> QED
  BY <1>1, <1>2, Junta, Zenon

(* The list is the walk from the first key.                                *)
LEMMA Empieza ==
  ASSUME NEW c, Buena(c)
  PROVE  CommandArgs(c) = Todo(c, Primera) /\ Primera \in Claves(c)
<1>0. Primera \in Claves(c) /\ 1 \in 1..NB(c)
  BY EsClave, FormaClave
<1> DEFINE P == EntradaCab(c) \o <<Input>>
           V == VideoOptions(c)
           T == ColaDe(VSeq(c))[1]
           A == AudioCommands(c)
           S == SubsCommands(c)
<1>1. P \in Seq(Arg) /\ V \in Seq(Arg) /\ T \in Seq(Arg) /\ A \in Seq(Arg) /\ S \in Seq(Arg)
  <2>1. EntradaCab(c) \in Seq(Local) /\ <<Input>> \in Seq(Arg)
    <3>1. Cierre(c, Primera) = <<Input>> /\ Cierre(c, Primera) \in Seq(Arg)
      BY <1>0, CierreTipo
    <3> QED
      BY <3>1, EntradaTipo
  <2>2. P \in Seq(Arg)
    BY <2>1, SeqMono, TiposArg, Junta, Zenon
  <2>3. T \in Seq(Arg) /\ A \in Seq(Arg) /\ S \in Seq(Arg)
    BY RestoVEs, RestoAEs
  <2> QED
    BY <1>0, <2>2, <2>3, VideoSeqTipo
<1>2. CommandArgs(c) = ((P \o (V \o T)) \o A) \o S
  <2>1. PreInput(c) = P
    BY Zenon DEF PreInput, EntradaCab
  <2>2. VideoCommands(c) = V \o T
    BY RestoVEs
  <2> HIDE DEF P, V, T, A, S
  <2> QED
    BY <2>1, <2>2, Zenon DEF CommandArgs, A, S
<1>3. Resto(c, Primera) = V \o (T \o (A \o S))
  <2>1. Resto(c, Primera) = VideoOptions(c) \o RestoV(c, 0)
    BY DEF Resto, Primera
  <2>2. RestoV(c, 0) = T \o (A \o S)
    BY RestoVEs, RestoAEs, Zenon
  <2> QED
    BY <2>1, <2>2, Zenon
<1>4. Bloque(c, Primera) = P
  <2>1. GrafoSi(c, Primera) = <<>> /\ Propias(c, Primera) = EntradaCab(c)
    BY DEF GrafoSi, When, TieneGrafo, EsDvb, Propias, Primera
  <2>2. Cierre(c, Primera) = <<Input>>
    BY <1>0, CierreTipo
  <2> QED
    BY <1>1, <2>1, <2>2, Vacia, Zenon DEF Bloque
<1> HIDE DEF P, V, T, A, S
<1>5. ((P \o (V \o T)) \o A) \o S = P \o (V \o (T \o (A \o S)))
  <2>1. V \o T \in Seq(Arg) /\ A \o S \in Seq(Arg)
    BY <1>1, Junta, Zenon
  <2>2. P \o (V \o T) \in Seq(Arg)
    BY <1>1, <2>1, Junta, Zenon
  <2>3. Agrupa(P \o (V \o T), A, S) /\ Agrupa(P, V \o T, A \o S) /\ Agrupa(V, T, A \o S)
    BY <1>1, <2>1, <2>2, Asoc, Zenon
  <2> QED
    BY <2>3, Zenon DEF Agrupa
<1> QED
  BY <1>0, <1>2, <1>3, <1>4, <1>5, TodoEs, Zenon

(* The next key is next to k.                                              *)
LEMMA OrdenDe ==
  ASSUME NEW c, Buena(c), NEW k \in Claves(c), NEW l \in Claves(c),
         \/ k[1] = 0 /\ l = <<1, 1, 0>>
         \/ k[1] = 1 /\ k[3] < ND(c) /\ l = <<1, k[2], k[3] + 1>>
         \/ k[1] = 1 /\ k[3] = ND(c) /\ k[2] < NB(c) /\ l = <<1, k[2] + 1, 0>>
         \/ k[1] = 1 /\ k[3] = ND(c) /\ k[2] = NB(c) /\ l = TrasVideo(c)
         \/ k[1] = 2 /\ k[2] < Len(c.audio) /\ l = <<2, k[2] + 1, 0>>
         \/ k[1] = 2 /\ k[2] = Len(c.audio) /\ l = TrasAudio(c)
         \/ k[1] = 3 /\ k[2] < NT(c) /\ l = <<3, k[2] + 1, 0>>
         \/ k[1] = 3 /\ k[2] = NT(c) /\ l = Ultima
  PROVE  Sigue(c, k, l)
<1>1. ASSUME NEW m \in Claves(c)
      PROVE  /\ m \in (0..4) \X Nat \X Nat
             /\ m[1] = 0 => m[2] = 0 /\ m[3] = 0
             /\ m[1] = 4 => m[2] = 0 /\ m[3] = 0
             /\ m[1] = 1 => m[2] \in 1..NB(c) /\ m[3] \in 0..ND(c)
             /\ m[1] = 2 => m[2] \in 1..Len(c.audio) /\ m[3] = 0
             /\ m[1] = 3 => m[2] \in 1..NT(c) /\ m[3] = 0
  BY FormaClave DEF Primera, Ultima
<1>2. NB(c) \in Nat \ {0} /\ ND(c) \in Nat /\ NT(c) \in Nat /\ Len(c.audio) \in Nat
  BY FormaClave
<1>3. Menor(k, l)
  BY <1>1, <1>2 DEF Menor, TrasVideo, TrasAudio, Ultima
<1>4. ASSUME NEW m \in Claves(c) PROVE Menor(m, l) <=> m = k \/ Menor(m, k)
  <2>1. m = k <=> m[1] = k[1] /\ m[2] = k[2] /\ m[3] = k[3]
    BY <1>1
  <2> DEFINE m1 == m[1]  m2 == m[2]  m3 == m[3]  k1 == k[1]  k2 == k[2]  k3 == k[3]
  <2>2. Menor(m, k) <=> m1 < k1 \/ (m1 = k1 /\ (m2 < k2 \/ (m2 = k2 /\ m3 < k3)))
    BY DEF Menor
  <2>3. Menor(m, l) <=> m1 < l[1] \/ (m1 = l[1] /\ (m2 < l[2] \/ (m2 = l[2] /\ m3 < l[3])))
    BY DEF Menor
  <2>4. /\ m1 \in 0..4 /\ m2 \in Nat /\ m3 \in Nat /\ k1 \in 0..4 /\ k2 \in Nat /\ k3 \in Nat
        /\ m1 = 0 => m2 = 0 /\ m3 = 0
        /\ k1 = 0 => k2 = 0 /\ k3 = 0
        /\ m1 = 1 => m2 \in 1..NB(c) /\ m3 \in 0..ND(c)
        /\ k1 = 1 => k2 \in 1..NB(c) /\ k3 \in 0..ND(c)
        /\ m1 = 2 => m2 \in 1..Len(c.audio) /\ m3 = 0
        /\ k1 = 2 => k2 \in 1..Len(c.audio) /\ k3 = 0
        /\ m1 = 3 => m2 \in 1..NT(c) /\ m3 = 0
        /\ k1 = 3 => k2 \in 1..NT(c) /\ k3 = 0
    BY <1>1
  <2> DEFINE A == Len(c.audio)
  <2> HIDE DEF m1, m2, m3, k1, k2, k3, A
  <2>5. CASE k[1] = 0 /\ l = <<1, 1, 0>>
    <3>1. l[1] = 1 /\ l[2] = 1 /\ l[3] = 0 /\ k1 = 0
      BY <2>5 DEF m1, m2, m3, k1, k2, k3, A, TrasVideo, TrasAudio, Ultima
    <3> QED
      BY <1>2, <2>1, <2>2, <2>3, <2>4, <3>1, SMTT(60) DEF m1, m2, m3, k1, k2, k3, A
  <2>6. CASE k[1] = 1 /\ k[3] < ND(c) /\ l = <<1, k[2], k[3] + 1>>
    <3>1. l[1] = 1 /\ l[2] = k2 /\ l[3] = k3 + 1 /\ k1 = 1 /\ k3 < ND(c)
      BY <2>6 DEF m1, m2, m3, k1, k2, k3, A, TrasVideo, TrasAudio, Ultima
    <3> QED
      BY <1>2, <2>1, <2>2, <2>3, <2>4, <3>1, SMTT(60) DEF m1, m2, m3, k1, k2, k3, A
  <2>7. CASE k[1] = 1 /\ k[3] = ND(c) /\ k[2] < NB(c) /\ l = <<1, k[2] + 1, 0>>
    <3>1. l[1] = 1 /\ l[2] = k2 + 1 /\ l[3] = 0 /\ k1 = 1 /\ k3 = ND(c) /\ k2 < NB(c)
      BY <2>7 DEF m1, m2, m3, k1, k2, k3, A, TrasVideo, TrasAudio, Ultima
    <3> QED
      BY <1>2, <2>1, <2>2, <2>3, <2>4, <3>1, SMTT(60) DEF m1, m2, m3, k1, k2, k3, A
  <2>8. CASE k[1] = 1 /\ k[3] = ND(c) /\ k[2] = NB(c) /\ l = TrasVideo(c)
    <3>1. /\ k1 = 1 /\ k3 = ND(c) /\ k2 = NB(c)
          /\ \/ l[1] = 2 /\ l[2] = 1 /\ l[3] = 0
             \/ l[1] = 3 /\ l[2] = 1 /\ l[3] = 0 /\ ~(A > 0)
             \/ l[1] = 4 /\ l[2] = 0 /\ l[3] = 0 /\ ~(A > 0) /\ ~(NT(c) > 0)
      BY <2>8 DEF m1, m2, m3, k1, k2, k3, A, TrasVideo, TrasAudio, Ultima
    <3> QED
      BY <1>2, <2>1, <2>2, <2>3, <2>4, <3>1, SMTT(60) DEF m1, m2, m3, k1, k2, k3, A
  <2>9. CASE k[1] = 2 /\ k[2] < Len(c.audio) /\ l = <<2, k[2] + 1, 0>>
    <3>1. l[1] = 2 /\ l[2] = k2 + 1 /\ l[3] = 0 /\ k1 = 2 /\ k2 < A
      BY <2>9 DEF m1, m2, m3, k1, k2, k3, A, TrasVideo, TrasAudio, Ultima
    <3> QED
      BY <1>2, <2>1, <2>2, <2>3, <2>4, <3>1, SMTT(60) DEF m1, m2, m3, k1, k2, k3, A
  <2>10. CASE k[1] = 2 /\ k[2] = Len(c.audio) /\ l = TrasAudio(c)
    <3>1. /\ k1 = 2 /\ k2 = A
          /\ \/ l[1] = 3 /\ l[2] = 1 /\ l[3] = 0
             \/ l[1] = 4 /\ l[2] = 0 /\ l[3] = 0 /\ ~(NT(c) > 0)
      BY <2>10 DEF m1, m2, m3, k1, k2, k3, A, TrasVideo, TrasAudio, Ultima
    <3> QED
      BY <1>2, <2>1, <2>2, <2>3, <2>4, <3>1, SMTT(60) DEF m1, m2, m3, k1, k2, k3, A
  <2>11. CASE k[1] = 3 /\ k[2] < NT(c) /\ l = <<3, k[2] + 1, 0>>
    <3>1. l[1] = 3 /\ l[2] = k2 + 1 /\ l[3] = 0 /\ k1 = 3 /\ k2 < NT(c)
      BY <2>11 DEF m1, m2, m3, k1, k2, k3, A, TrasVideo, TrasAudio, Ultima
    <3> QED
      BY <1>2, <2>1, <2>2, <2>3, <2>4, <3>1, SMTT(60) DEF m1, m2, m3, k1, k2, k3, A
  <2>12. CASE k[1] = 3 /\ k[2] = NT(c) /\ l = Ultima
    <3>1. l[1] = 4 /\ l[2] = 0 /\ l[3] = 0 /\ k1 = 3 /\ k2 = NT(c)
      BY <2>12 DEF m1, m2, m3, k1, k2, k3, A, TrasVideo, TrasAudio, Ultima
    <3> QED
      BY <1>2, <2>1, <2>2, <2>3, <2>4, <3>1, SMTT(60) DEF m1, m2, m3, k1, k2, k3, A
  <2> QED
    BY <2>5, <2>6, <2>7, <2>8, <2>9, <2>10, <2>11, <2>12
<1> QED
  BY <1>3, <1>4 DEF Sigue

(* What is left of the list after a file is all of the next one.           *)
LEMMA Sucesor ==
  ASSUME NEW c, Buena(c), NEW k \in Claves(c), k # Ultima
  PROVE  \E l \in Claves(c) : Sigue(c, k, l) /\ Resto(c, k) = Todo(c, l)
<1>1. /\ k[1] \in 0..3 /\ k = <<k[1], k[2], k[3]>>
      /\ k[1] = 1 => k[2] \in 1..NB(c) /\ k[3] \in 0..ND(c)
      /\ k[1] = 2 => k[2] \in 1..Len(c.audio) /\ k[3] = 0
      /\ k[1] = 3 => k[2] \in 1..NT(c) /\ k[3] = 0
      /\ k[1] = 0 => k = Primera
      /\ NB(c) \in Nat \ {0} /\ ND(c) \in Nat /\ NT(c) \in Nat /\ Len(c.audio) \in Nat
  BY FormaClave
<1>2. SUFFICES \E l \in Claves(c) : Sigue(c, k, l) /\ Resto(c, k) = Bloque(c, l) \o Resto(c, l)
  BY TodoEs, Zenon
<1>3. CASE k[1] = 0
  <2> DEFINE l == <<1, 1, 0>>
  <2>1. 1 \in 1..NB(c) /\ 0 \in 0..ND(c) /\ 1 - 1 = 0 /\ 1 \in 0..NB(c)
    BY <1>1
  <2>2. l \in Claves(c)
    BY <2>1, EsClave
  <2>3. Sigue(c, k, l)
    BY <1>3, <2>2, OrdenDe
  <2> DEFINE V == VideoOptions(c)
             W == VideoCab(Tasa(c, 1)) \o Cierre(c, l)
             X == Dvbs(c, Tasa(c, 1)) \o RestoV(c, 1)
  <2>4. Resto(c, k) = V \o RestoV(c, 0)
    BY <1>3 DEF Resto
  <2>5. RestoV(c, 0) = W \o X
    <3>1. RestoV(c, 1 - 1) = W \o X
      BY <2>1, RestoVEs
    <3> QED
      BY <2>1, <3>1
  <2>6. V \in Seq(Arg) /\ W \in Seq(Arg) /\ X \in Seq(Arg)
    <3>1. Dvbs(c, Tasa(c, 1)) \in Seq(Arg) /\ RestoV(c, 1) \in Seq(Arg)
      BY <2>1, DvbsTipo, RestoVEs
    <3>2. X \in Seq(Arg)
      BY <3>1, Junta, Zenon
    <3> QED
      BY <2>1, <3>2, VideoSeqTipo
  <2>7. Bloque(c, l) = V \o W
    BY <2>1, VideoBloque
  <2>8. Resto(c, l) = X
    BY DEF Resto
  <2> HIDE DEF V, W, X, l
  <2>9. Agrupa(V, W, X)
    BY <2>6, Asoc, Zenon
  <2>10. Resto(c, k) = Bloque(c, l) \o Resto(c, l)
    BY <2>4, <2>5, <2>7, <2>8, <2>9, Zenon DEF Agrupa
  <2> QED
    BY <2>2, <2>3, <2>10, Zenon
<1>4. CASE k[1] = 1 /\ k[3] < ND(c)
  <2> DEFINE l == <<1, k[2], k[3] + 1>>
  <2>1. l \in Claves(c)
    BY <1>1, <1>4, EsClave
  <2>2. Sigue(c, k, l)
    BY <1>4, <2>1, OrdenDe
  <2>3. Resto(c, <<1, k[2], k[3]>>) = Bloque(c, l) \o Resto(c, l)
    BY <1>1, <1>4, SigueDvb
  <2>4. k = <<1, k[2], k[3]>>
    BY <1>1, <1>4
  <2> QED
    BY <2>1, <2>2, <2>3, <2>4, Zenon
<1>5. CASE k[1] = 1 /\ k[3] = ND(c) /\ k[2] < NB(c)
  <2> DEFINE i == k[2] + 1
             l == <<1, i, 0>>
  <2>1. i \in 1..NB(c) /\ i - 1 = k[2] /\ i # 1 /\ i \in 0..NB(c)
    BY <1>1, <1>5
  <2>2. l \in Claves(c)
    BY <1>1, <2>1, EsClave
  <2>3. Sigue(c, k, l)
    BY <1>5, <2>2, OrdenDe
  <2>4. k = <<1, k[2], k[3]>>
    BY <1>1, <1>5
  <2>5. Resto(c, k) = RestoV(c, i - 1)
    <3>1. Resto(c, <<1, k[2], k[3]>>) = RestoV(c, k[2])
      BY <1>1, <1>5, SigueDvb
    <3> QED
      BY <2>1, <2>4, <3>1
  <2> HIDE DEF i
  <2>6. RestoV(c, i - 1) = (VideoCab(Tasa(c, i)) \o Cierre(c, l)) \o (Dvbs(c, Tasa(c, i)) \o RestoV(c, i))
    BY <2>1, RestoVEs
  <2>7. Bloque(c, l) = VideoCab(Tasa(c, i)) \o Cierre(c, l)
    BY <2>1, VideoBloque
  <2>8. Resto(c, l) = Dvbs(c, Tasa(c, i)) \o RestoV(c, i)
    BY DEF Resto
  <2>9. Resto(c, k) = Bloque(c, l) \o Resto(c, l)
    BY <2>5, <2>6, <2>7, <2>8, Zenon
  <2> QED
    BY <2>2, <2>3, <2>9, Zenon
<1>6. CASE k[1] = 1 /\ k[3] = ND(c) /\ k[2] = NB(c)
  <2>1. TrasVideo(c) \in Claves(c)
    BY <1>1, EsClave DEF TrasVideo
  <2>2. Sigue(c, k, TrasVideo(c))
    BY <1>6, <2>1, OrdenDe
  <2>3. k = <<1, k[2], k[3]>>
    BY <1>1, <1>6
  <2>4. Resto(c, <<1, k[2], k[3]>>) = RestoV(c, k[2])
    BY <1>1, <1>6, SigueDvb
  <2>5. RestoV(c, NB(c)) = RestoA(c, 0)
    BY RestoVEs
  <2>6. RestoA(c, 0) = Bloque(c, TrasVideo(c)) \o Resto(c, TrasVideo(c))
    BY SigueFin
  <2> QED
    BY <1>6, <2>1, <2>2, <2>3, <2>4, <2>5, <2>6, Zenon
<1>7. CASE k[1] = 2 /\ k[2] < Len(c.audio)
  <2> DEFINE i == k[2] + 1
             l == <<2, i, 0>>
  <2>1. i \in 1..Len(c.audio) /\ i - 1 = k[2]
    BY <1>1, <1>7
  <2>2. l \in Claves(c)
    BY <2>1, EsClave
  <2>3. Sigue(c, k, l)
    BY <1>7, <2>2, OrdenDe
  <2>4. Resto(c, k) = RestoA(c, i - 1) /\ Resto(c, l) = RestoA(c, i)
    BY <1>7, <2>1 DEF Resto
  <2>5. RestoA(c, i - 1) = Bloque(c, l) \o RestoA(c, i)
    <3> HIDE DEF i
    <3> QED
      BY <2>1, RestoAEs
  <2>6. Resto(c, k) = Bloque(c, l) \o Resto(c, l)
    BY <2>4, <2>5, Zenon
  <2> QED
    BY <2>2, <2>3, <2>6, Zenon
<1>8. CASE k[1] = 2 /\ k[2] = Len(c.audio)
  <2>1. TrasAudio(c) \in Claves(c)
    BY <1>1, EsClave DEF TrasAudio
  <2>2. Sigue(c, k, TrasAudio(c))
    BY <1>8, <2>1, OrdenDe
  <2>3. Resto(c, k) = RestoA(c, Len(c.audio))
    BY <1>8 DEF Resto
  <2>4. RestoA(c, Len(c.audio)) = RestoS(c, 0)
    BY RestoAEs
  <2>5. RestoS(c, 0) = Bloque(c, TrasAudio(c)) \o Resto(c, TrasAudio(c))
    BY SigueFin
  <2> QED
    BY <2>1, <2>2, <2>3, <2>4, <2>5, Zenon
<1>9. CASE k[1] = 3 /\ k[2] < NT(c)
  <2> DEFINE i == k[2] + 1
             l == <<3, i, 0>>
  <2>1. i \in 1..NT(c) /\ i - 1 = k[2]
    BY <1>1, <1>9
  <2>2. l \in Claves(c)
    BY <2>1, EsClave
  <2>3. Sigue(c, k, l)
    BY <1>9, <2>2, OrdenDe
  <2>4. Resto(c, k) = RestoS(c, i - 1) /\ Resto(c, l) = RestoS(c, i)
    BY <1>9, <2>1 DEF Resto
  <2>5. RestoS(c, i - 1) = Bloque(c, l) \o RestoS(c, i)
    <3> HIDE DEF i
    <3> QED
      BY <2>1, RestoSEs
  <2>6. Resto(c, k) = Bloque(c, l) \o Resto(c, l)
    BY <2>4, <2>5, Zenon
  <2> QED
    BY <2>2, <2>3, <2>6, Zenon
<1>10. CASE k[1] = 3 /\ k[2] = NT(c)
  <2>1. Ultima \in Claves(c)
    BY EsClave
  <2>2. Sigue(c, k, Ultima)
    BY <1>10, <2>1, OrdenDe
  <2>3. Resto(c, k) = RestoS(c, NT(c))
    BY <1>10 DEF Resto
  <2>4. RestoS(c, NT(c)) = Bloque(c, Ultima) \o Resto(c, Ultima)
    BY SigueFin
  <2> QED
    BY <2>1, <2>2, <2>3, <2>4, Zenon
<1>11. \/ k[1] = 0 \/ (k[1] = 1 /\ k[3] < ND(c))
       \/ (k[1] = 1 /\ k[3] = ND(c) /\ k[2] < NB(c)) \/ (k[1] = 1 /\ k[3] = ND(c) /\ k[2] = NB(c))
       \/ (k[1] = 2 /\ k[2] < Len(c.audio)) \/ (k[1] = 2 /\ k[2] = Len(c.audio))
       \/ (k[1] = 3 /\ k[2] < NT(c)) \/ (k[1] = 3 /\ k[2] = NT(c))
  <2>1. k[1] \in {0, 1, 2, 3}
    BY <1>1
  <2>2. CASE k[1] = 1
    BY <1>1, <2>2
  <2>3. CASE k[1] = 2
    BY <1>1, <2>3
  <2>4. CASE k[1] = 3
    BY <1>1, <2>4
  <2> QED
    BY <2>1, <2>2, <2>3, <2>4
<1> QED
  BY <1>3, <1>4, <1>5, <1>6, <1>7, <1>8, <1>9, <1>10, <1>11, Zenon

-----------------------------------------------------------------------------
(* What open_output_file finds in the group of a file.                     *)

Ops(g) == {g[i] : i \in 1..Len(g)}

(* The options of two lists.                                               *)
LEMMA OpsJunta == \A x, y \in Seq(Local) : Ops(x \o y) = Ops(x) \cup Ops(y)
<1> TAKE x, y \in Seq(Local)
<1> DEFINE z == x \o y
<1>1. /\ z \in Seq(Local) /\ Len(z) = Len(x) + Len(y)
      /\ \A i \in 1..Len(z) : z[i] = IF i <= Len(x) THEN x[i] ELSE y[i - Len(x)]
  BY ConcatProperties
<1>2. Len(x) \in Nat /\ Len(y) \in Nat
  OBVIOUS
<1> HIDE DEF z
<1>3. ASSUME NEW i \in 1..Len(z) PROVE z[i] \in Ops(x) \cup Ops(y)
  <2>1. CASE i <= Len(x)
    BY <1>1, <1>2, <2>1 DEF Ops
  <2>2. CASE ~(i <= Len(x))
    <3>1. i - Len(x) \in 1..Len(y) /\ z[i] = y[i - Len(x)]
      BY <1>1, <1>2, <2>2
    <3> QED
      BY <3>1 DEF Ops
  <2> QED
    BY <2>1, <2>2
<1>4. ASSUME NEW i \in 1..Len(x) PROVE x[i] \in Ops(z)
  <2>1. i \in 1..Len(z) /\ z[i] = x[i]
    BY <1>1, <1>2
  <2> QED
    BY <2>1 DEF Ops
<1>5. ASSUME NEW i \in 1..Len(y) PROVE y[i] \in Ops(z)
  <2> DEFINE n == i + Len(x)
  <2>1. n \in 1..Len(z) /\ ~(n <= Len(x)) /\ n - Len(x) = i
    BY <1>1, <1>2
  <2> HIDE DEF n
  <2>2. z[n] = y[i]
    BY <1>1, <2>1
  <2> QED
    BY <2>1, <2>2 DEF Ops
<1>6. Ops(z) = Ops(x) \cup Ops(y)
  BY <1>3, <1>4, <1>5 DEF Ops
<1> QED
  BY <1>6 DEF z

(* The options of a short list.                                            *)
LEMMA OpsTuplas ==
  /\ Ops(<<>>) = {}
  /\ \A a : Ops(<<a>>) = {a}
  /\ \A a, b : Ops(<<a, b>>) = {a, b}
  /\ \A a, b, d, e : Ops(<<a, b, d, e>>) = {a, b, d, e}
  /\ \A a, b, d, e, f : Ops(<<a, b, d, e, f>>) = {a, b, d, e, f}
<1>1. Ops(<<>>) = {}
  BY DEF Ops
<1>2. ASSUME NEW a PROVE Ops(<<a>>) = {a}
  BY DEF Ops
<1>3. ASSUME NEW a, NEW b PROVE Ops(<<a, b>>) = {a, b}
  <2>1. 1..2 = {1, 2}
    OBVIOUS
  <2> QED
    BY <2>1 DEF Ops
<1>4. ASSUME NEW a, NEW b, NEW d, NEW e PROVE Ops(<<a, b, d, e>>) = {a, b, d, e}
  <2>1. 1..4 = {1, 2, 3, 4}
    OBVIOUS
  <2> QED
    BY <2>1 DEF Ops
<1>5. ASSUME NEW a, NEW b, NEW d, NEW e, NEW f PROVE Ops(<<a, b, d, e, f>>) = {a, b, d, e, f}
  <2>1. 1..5 = {1, 2, 3, 4, 5}
    OBVIOUS
  <2> QED
    BY <2>1 DEF Ops
<1> QED
  BY <1>1, <1>2, <1>3, <1>4, <1>5

(* The same, for four.                                                     *)
LEMMA OpsCuatro == \A a, b, d, e : Ops(<<a, b, d, e>>) = {a, b, d, e}
  BY OpsTuplas

(* The same, for five.                                                     *)
LEMMA OpsCinco == \A a, b, d, e, f : Ops(<<a, b, d, e, f>>) = {a, b, d, e, f}
  BY OpsTuplas

(* The options of a list that may be left out.                             *)
LEMMA OpsWhen == \A p, x : Ops(When(p, x)) = IF p THEN Ops(x) ELSE {}
  BY OpsTuplas DEF When

(* Options are told apart by their names.                                  *)
LEMMA OptEs == \A o, v : Opt(o, v).o = o /\ Opt(o, v).v = v
  BY DEF Opt

(* Has, Maps and LabelMaps depend on the set of the options.               *)
LEMMA HasOps ==
  ASSUME NEW g \in Seq(Local)
  PROVE  /\ \A o : Has(g, o) <=> \E x \in Ops(g) : x.o = o
         /\ Maps(g) = {x.v : x \in {y \in Ops(g) : y.o = "map"}}
         /\ LabelMaps(g) = {x.v : x \in {y \in Ops(g) : y.o = "map[]"}}
<1>1. \A o : Has(g, o) <=> \E x \in Ops(g) : x.o = o
  BY DEF Has, Ops
<1>2. Maps(g) = {x.v : x \in {y \in Ops(g) : y.o = "map"}}
  BY DEF Maps, Ops
<1>3. LabelMaps(g) = {x.v : x \in {y \in Ops(g) : y.o = "map[]"}}
  BY DEF LabelMaps, Ops
<1> QED
  BY <1>1, <1>2, <1>3

(* Where all the options of a name have one value, the last has it.        *)
LEMMA ValueOps ==
  ASSUME NEW g \in Seq(Local), NEW o, NEW v, Has(g, o),
         \A x \in Ops(g) : x.o = o => x.v = v
  PROVE  Value(g, o) = v
<1> DEFINE S == {i \in 1..Len(g) : g[i].o = o}
<1>1. S # {} /\ S \in SUBSET (1..Len(g)) /\ Len(g) \in Nat
  BY DEF Has
<1> HIDE DEF S
<1>2. Max(S) \in S
  BY <1>1, MaxIn
<1>3. g[Max(S)] \in Ops(g) /\ g[Max(S)].o = o
  BY <1>2 DEF Ops, S
<1>4. Value(g, o) = g[Max(S)].v
  BY Zenon DEF Value, S
<1> QED
  BY <1>3, <1>4

Si(p, S) == IF p THEN S ELSE {}

(* The encoder written before the first output.                            *)
CodecVideo(c) == IF ~Custom(c) THEN "copy"
                 ELSE IF Nvenc(c) THEN ConNvenc(Nombre(c)) ELSE "libx264"

(* The options before the first -map.                                      *)
LEMMA OpsVideoOptions ==
  ASSUME NEW c, Considerada(c)
  PROVE  Ops(VideoOptions(c)) =
           {Opt("c:v", CodecVideo(c))}
           \cup Si(Custom(c), {Opt("profile:v", "baseline")})
           \cup Si(c.resize /\ ~c.hwaccel, {Opt("s", "resolucion")})
           \cup Si(~c.hwaccel, {Opt("pix_fmt", "yuv420p")})
           \cup Si(c.deint /\ ~c.hwaccel, {Opt("vf", "yadif")})
<1> DEFINE x == <<Opt("c:v", CodecVideo(c))>>
           p == When(Custom(c), <<Opt("profile:v", "baseline")>>)
           y == When(c.resize /\ ~c.hwaccel, <<Opt("s", "resolucion")>>)
           z == IF c.hwaccel THEN When(Nombre(c) = "copy", <<Opt("vf", "hwdownload")>>)
                ELSE <<Opt("pix_fmt", "yuv420p")>>
           w == When(c.deint /\ ~c.hwaccel, <<Opt("vf", "yadif")>>)
<1>1. CodecVideo(c) \in Textos
  BY Codecs DEF CodecVideo, Textos
<1>2. /\ "c:v" \in Propios /\ "s" \in Propios /\ "vf" \in Propios /\ "pix_fmt" \in Propios
      /\ "resolucion" \in Textos /\ "hwdownload" \in Textos /\ "yuv420p" \in Textos
      /\ "yadif" \in Textos /\ "profile:v" \in Propios /\ "baseline" \in Textos
  BY DEF Propios, Textos
<1>3. /\ Opt("c:v", CodecVideo(c)) \in Local /\ Opt("s", "resolucion") \in Local
      /\ Opt("vf", "hwdownload") \in Local /\ Opt("pix_fmt", "yuv420p") \in Local
      /\ Opt("vf", "yadif") \in Local /\ Opt("profile:v", "baseline") \in Local
  BY <1>1, <1>2, OptLocal, TiposArg, Zenon
<1>4. /\ x \in Seq(Local) /\ <<Opt("s", "resolucion")>> \in Seq(Local)
      /\ <<Opt("vf", "hwdownload")>> \in Seq(Local) /\ <<Opt("pix_fmt", "yuv420p")>> \in Seq(Local)
      /\ <<Opt("vf", "yadif")>> \in Seq(Local) /\ <<Opt("profile:v", "baseline")>> \in Seq(Local)
  BY <1>3, Tuplas, ZenonT(60)
<1>5. y \in Seq(Local) /\ w \in Seq(Local) /\ When(Nombre(c) = "copy", <<Opt("vf", "hwdownload")>>) \in Seq(Local)
  BY <1>4, Cond
<1>5a. p \in Seq(Local) /\ Ops(p) = Si(Custom(c), {Opt("profile:v", "baseline")})
  <2>1. p \in Seq(Local)
    BY <1>4 DEF When
  <2> QED
    BY <2>1, OpsTuplas, OpsWhen, Zenon DEF Si
<1>6. z \in Seq(Local)
  BY <1>4, <1>5, Zenon
<1>7. Ops(x) = {Opt("c:v", CodecVideo(c))}
  BY OpsTuplas, Zenon
<1>8. Ops(y) = Si(c.resize /\ ~c.hwaccel, {Opt("s", "resolucion")})
  BY OpsTuplas, OpsWhen, Zenon DEF Si
<1>9. Ops(z) = Si(~c.hwaccel, {Opt("pix_fmt", "yuv420p")})
  <2>1. Nombre(c) # "copy"
    BY Nombres
  <2>2. CASE c.hwaccel
    <3>1. Ops(z) = {}
      BY <2>1, <2>2, OpsTuplas, Zenon DEF When
    <3> QED
      BY <2>2, <3>1, Zenon DEF Si
  <2>3. CASE ~c.hwaccel
    BY <2>3, OpsTuplas, Zenon DEF Si
  <2> QED
    BY <2>2, <2>3
<1>10. Ops(w) = Si(c.deint /\ ~c.hwaccel, {Opt("vf", "yadif")})
  BY OpsTuplas, OpsWhen, Zenon DEF Si
<1>11. VideoOptions(c) = (((x \o p) \o y) \o z) \o w
  BY Zenon DEF VideoOptions, CodecVideo
<1> HIDE DEF x, p, y, z, w
<1>12. x \o p \in Seq(Local) /\ (x \o p) \o y \in Seq(Local) /\ ((x \o p) \o y) \o z \in Seq(Local)
  BY <1>4, <1>5, <1>5a, <1>6, Junta, Zenon
<1>13. Ops(VideoOptions(c)) = (((Ops(x) \cup Ops(p)) \cup Ops(y)) \cup Ops(z)) \cup Ops(w)
  <2>0. Ops(x \o p) = Ops(x) \cup Ops(p)
    BY <1>4, <1>5a, OpsJunta, Zenon
  <2>1. Ops((x \o p) \o y) = Ops(x \o p) \cup Ops(y)
    BY <1>5, <1>12, OpsJunta, Zenon
  <2>2. Ops(((x \o p) \o y) \o z) = Ops((x \o p) \o y) \cup Ops(z)
    BY <1>6, <1>12, OpsJunta, Zenon
  <2>3. Ops((((x \o p) \o y) \o z) \o w) = Ops(((x \o p) \o y) \o z) \cup Ops(w)
    BY <1>5, <1>12, OpsJunta, Zenon
  <2> QED
    BY <1>11, <2>0, <2>1, <2>2, <2>3, Zenon
<1> QED
  BY <1>5a, <1>7, <1>8, <1>9, <1>10, <1>13, Zenon

(* The options of a bitrate.                                               *)
LEMMA OpsBitrate ==
  ASSUME NEW b
  PROVE  Ops(BitrateCommand(b)) = Si(b # <<>>, {Opt("b:v", b), Opt("maxrate", calcularBitrateMaximo(b))})
  BY OpsTuplas, OpsWhen, Zenon DEF BitrateCommand, Si

(* The options of a video output.                                          *)
LEMMA OpsVideoCab ==
  ASSUME NEW b, EsTasa(b)
  PROVE  Ops(VideoCab(b)) =
           {Opt("map", "video")}
           \cup Si(b # <<>>, {Opt("b:v", b), Opt("maxrate", calcularBitrateMaximo(b))})
           \cup Si(b # <<>>, {Opt("an", "1"), Opt("sn", "1")})
<1> DEFINE x == <<Opt("map", "video")>>
           y == BitrateCommand(b)
           z == When(b # <<>>, <<Opt("an", "1"), Opt("sn", "1")>>)
<1>1. Opt("map", "video") \in Local /\ Opt("an", "1") \in Local /\ Opt("sn", "1") \in Local
  <2>1. /\ "map" \in Propios /\ "an" \in Propios /\ "sn" \in Propios
        /\ "video" \in Textos /\ "1" \in Textos
    BY DEF Propios, Textos
  <2> QED
    BY <2>1, OptLocal, TiposArg, Zenon
<1>2. x \in Seq(Local) /\ <<Opt("an", "1"), Opt("sn", "1")>> \in Seq(Local)
  BY <1>1, Tuplas, Zenon
<1>3. z \in Seq(Local) /\ y \in Seq(Local)
  BY <1>2, Cond, BitrateTipo
<1>4. Ops(x) = {Opt("map", "video")} /\ Ops(z) = Si(b # <<>>, {Opt("an", "1"), Opt("sn", "1")})
  BY OpsTuplas, OpsWhen, Zenon DEF Si
<1>5. VideoCab(b) = (x \o y) \o z
  BY Zenon DEF VideoCab
<1>6. Ops(y) = Si(b # <<>>, {Opt("b:v", b), Opt("maxrate", calcularBitrateMaximo(b))})
  BY OpsBitrate
<1> HIDE DEF x, y, z
<1>7. Ops(VideoCab(b)) = (Ops(x) \cup Ops(y)) \cup Ops(z)
  <2>1. x \o y \in Seq(Local)
    BY <1>2, <1>3, Junta, Zenon
  <2> QED
    BY <1>2, <1>3, <1>5, <2>1, OpsJunta, Zenon
<1> QED
  BY <1>4, <1>6, <1>7, Zenon

(* The options of an output of DVB subtitles.                              *)
LEMMA OpsDvbCab ==
  ASSUME NEW c, Considerada(c), NEW b, EsTasa(b), NEW j \in Nat
  PROVE  Ops(DvbCab(c, b, j)) =
           Si(c.hwaccel /\ b # <<>>, {Opt("b:v", b), Opt("maxrate", calcularBitrateMaximo(b))})
           \cup {Opt("map[]", Etiqueta(c, j)), Opt("an", "1"), Opt("sn", "1"), Opt("c:v", CodecDvb(c))}
           \cup Si(c.hwaccel, {Opt("profile:v", "baseline")})
<1> DEFINE x == IF c.hwaccel THEN BitrateCommand(b) ELSE <<>>
           y == <<Opt("map[]", Etiqueta(c, j)), Opt("an", "1"), Opt("sn", "1"), Opt("c:v", CodecDvb(c))>>
           z == When(c.hwaccel, <<Opt("profile:v", "baseline")>>)
<1>1. Etiqueta(c, j) \in Nat /\ CodecDvb(c) \in Textos
  BY Codecs DEF Etiqueta
<1>2. /\ "map[]" \in Propios /\ "an" \in Propios /\ "sn" \in Propios /\ "c:v" \in Propios
      /\ "1" \in Textos /\ "profile:v" \in Propios /\ "baseline" \in Textos
  BY DEF Propios, Textos
<1>3. /\ Opt("map[]", Etiqueta(c, j)) \in Local /\ Opt("an", "1") \in Local
      /\ Opt("sn", "1") \in Local /\ Opt("c:v", CodecDvb(c)) \in Local
      /\ Opt("profile:v", "baseline") \in Local
  BY <1>1, <1>2, OptLocal, TiposArg, Zenon
<1>4. y \in Seq(Local)
  BY <1>3, Tuplas, Zenon
<1>5. x \in Seq(Local)
  <2>1. BitrateCommand(b) \in Seq(Local)
    BY BitrateTipo
  <2> QED
    BY <2>1
<1>6. Ops(y) = {Opt("map[]", Etiqueta(c, j)), Opt("an", "1"), Opt("sn", "1"), Opt("c:v", CodecDvb(c))}
  BY OpsCuatro, ZenonT(60)
<1>7. Ops(x) = Si(c.hwaccel /\ b # <<>>, {Opt("b:v", b), Opt("maxrate", calcularBitrateMaximo(b))})
  <2>1. CASE c.hwaccel
    BY <2>1, OpsBitrate, Zenon DEF Si
  <2>2. CASE ~c.hwaccel
    BY <2>2, OpsTuplas, Zenon DEF Si
  <2> QED
    BY <2>1, <2>2
<1>8. z \in Seq(Local) /\ Ops(z) = Si(c.hwaccel, {Opt("profile:v", "baseline")})
  <2>1. <<Opt("profile:v", "baseline")>> \in Seq(Local)
    BY <1>3, Tuplas, Zenon
  <2>2. z \in Seq(Local)
    BY <2>1 DEF When
  <2> QED
    BY <2>2, OpsTuplas, OpsWhen, Zenon DEF Si
<1>9. DvbCab(c, b, j) = (x \o y) \o z
  BY Zenon DEF DvbCab
<1> HIDE DEF x, y, z
<1>10. Ops(DvbCab(c, b, j)) = (Ops(x) \cup Ops(y)) \cup Ops(z)
  <2>1. x \o y \in Seq(Local)
    BY <1>4, <1>5, Junta, Zenon
  <2> QED
    BY <1>4, <1>5, <1>8, <1>9, <2>1, OpsJunta, Zenon
<1> QED
  BY <1>6, <1>7, <1>8, <1>10, Zenon

(* The options of an audio output.                                         *)
LEMMA OpsAudioCab ==
  ASSUME NEW c, Considerada(c), NEW i \in 1..Len(c.audio)
  PROVE  Ops(AudioCab(c, i)) =
           {Opt("c:a", IF c.acodec THEN "aac" ELSE "copy"), Opt("map", c.audio[i])}
           \cup Si(c.acodec, {Opt("af", "aresample")}) \cup {Opt("map", "video"), Opt("vn", "1")}
<1> DEFINE e == IF c.acodec THEN "aac" ELSE "copy"
           m == c.audio[i]
           x == <<Opt("c:a", e), Opt("map", m)>>
           y == When(c.acodec, <<Opt("af", "aresample")>>)
           z == <<Opt("map", "video"), Opt("vn", "1")>>
<1>1. e \in Textos /\ m \in STRING
  <2>1. m \in STRING
    BY Pistas
  <2> QED
    BY <2>1 DEF Textos
<1>2. /\ "c:a" \in Propios /\ "map" \in Propios /\ "af" \in Propios /\ "vn" \in Propios
      /\ "aresample" \in Textos /\ "video" \in Textos /\ "1" \in Textos
  BY DEF Propios, Textos
<1> HIDE DEF e, m
<1>3. /\ Opt("c:a", e) \in Local /\ Opt("map", m) \in Local /\ Opt("af", "aresample") \in Local
      /\ Opt("map", "video") \in Local /\ Opt("vn", "1") \in Local
  BY <1>1, <1>2, OptLocal, TiposArg, Zenon
<1>4. x \in Seq(Local) /\ <<Opt("af", "aresample")>> \in Seq(Local) /\ z \in Seq(Local)
  BY <1>3, Tuplas, Zenon
<1>5. y \in Seq(Local)
  BY <1>4 DEF When
<1>6. /\ Ops(x) = {Opt("c:a", e), Opt("map", m)} /\ Ops(y) = Si(c.acodec, {Opt("af", "aresample")})
      /\ Ops(z) = {Opt("map", "video"), Opt("vn", "1")}
  BY OpsTuplas, OpsWhen, Zenon DEF Si
<1>7. AudioCab(c, i) = (x \o y) \o z
  BY Zenon DEF AudioCab, e, m
<1> HIDE DEF x, y, z
<1>8. Ops(AudioCab(c, i)) = (Ops(x) \cup Ops(y)) \cup Ops(z)
  <2>1. x \o y \in Seq(Local)
    BY <1>4, <1>5, Junta, Zenon
  <2> QED
    BY <1>4, <1>5, <1>7, <2>1, OpsJunta, Zenon
<1> QED
  BY <1>6, <1>8, Zenon DEF e, m

(* The options of a teletext output.                                       *)
LEMMA OpsSubsCab ==
  ASSUME NEW c, NEW i
  PROVE  Ops(SubsCab(c, i)) =
           {Opt("map", c.audio[1]), Opt("map", c.subs[i]), Opt("map", "video"),
            Opt("vn", "1"), Opt("c:s", "webvtt")}
<1> DEFINE x == Opt("map", c.audio[1])
           y == Opt("map", c.subs[i])
           z == Opt("map", "video")
           u == Opt("vn", "1")
           w == Opt("c:s", "webvtt")
<1>1. SubsCab(c, i) = <<x, y, z, u, w>>
  BY Zenon DEF SubsCab
<1> HIDE DEF x, y, z, u, w
<1>2. Ops(<<x, y, z, u, w>>) = {x, y, z, u, w}
  BY OpsCinco
<1> QED
  BY <1>1, <1>2, Zenon DEF x, y, z, u, w

(* The group of a video: the options of the encoder are those of the first. *)
LEMMA GrupoVideo ==
  ASSUME NEW c, Buena(c), NEW i \in 1..NB(c)
  PROVE  LET g == Propias(c, <<1, i, 0>>)
             b == Tasa(c, i)
         IN  /\ Maps(g) = {"video"} /\ LabelMaps(g) = {} /\ ~Has(g, "vn")
             /\ Has(g, "vf") <=> i = 1 /\ c.deint /\ ~c.hwaccel
             /\ Has(g, "c:v") <=> i = 1
             /\ i = 1 => Value(g, "c:v") = CodecVideo(c)
             /\ Has(g, "b:v") <=> b # <<>>
             /\ Has(g, "maxrate") <=> b # <<>>
             /\ b # <<>> => Value(g, "b:v") = b /\ Value(g, "maxrate") = calcularBitrateMaximo(b)
             /\ Has(g, "vf") => Value(g, "vf") # "hwdownload"
             /\ Has(g, "profile:v") <=> i = 1 /\ Custom(c)
<1> DEFINE g == Propias(c, <<1, i, 0>>)
           b == Tasa(c, i)
           W == {Opt("c:v", CodecVideo(c))}
                \cup Si(Custom(c), {Opt("profile:v", "baseline")})
                \cup Si(c.resize /\ ~c.hwaccel, {Opt("s", "resolucion")})
                \cup Si(~c.hwaccel, {Opt("pix_fmt", "yuv420p")})
                \cup Si(c.deint /\ ~c.hwaccel, {Opt("vf", "yadif")})
           V == {Opt("map", "video")}
                \cup Si(b # <<>>, {Opt("b:v", b), Opt("maxrate", calcularBitrateMaximo(b))})
                \cup Si(b # <<>>, {Opt("an", "1"), Opt("sn", "1")})
<1>0. Considerada(c) /\ EsTasa(b)
  BY Tasas DEF Buena
<1>1. g \in Seq(Local)
  <2>1. <<1, i, 0>> \in Claves(c)
    <3>1. 0 \in 0..ND(c)
      BY EsClave, FormaClave
    <3> QED
      BY <3>1, EsClave
  <2> QED
    BY <2>1, PropiasTipo
<1>2. Ops(g) = V \cup Si(i = 1, W)
  <2>1. Ops(VideoCab(b)) = V
    BY <1>0, OpsVideoCab
  <2>2. CASE i = 1
    <3>1. g = VideoOptions(c) \o VideoCab(b)
      BY <2>2 DEF Propias
    <3>2. VideoOptions(c) \in Seq(Local) /\ VideoCab(b) \in Seq(Local)
      BY <1>0, VideoOptionsTipo, VideoCabTipo
    <3>3. Ops(VideoOptions(c)) = W
      BY <1>0, OpsVideoOptions
    <3> HIDE DEF W, V, g, b
    <3>4. Ops(g) = W \cup V
      BY <2>1, <3>1, <3>2, <3>3, OpsJunta, Zenon
    <3>5. Si(i = 1, W) = W
      BY <2>2, Zenon DEF Si
    <3> QED
      BY <3>4, <3>5
  <2>3. CASE i # 1
    <3>1. g = VideoCab(b)
      BY <2>3 DEF Propias
    <3>2. Si(i = 1, W) = {}
      BY <2>3, Zenon DEF Si
    <3> HIDE DEF W, V
    <3> QED
      BY <2>1, <3>1, <3>2
  <2> QED
    BY <2>2, <2>3
<1> HIDE DEF g, b
<1>3. /\ \A o : Has(g, o) <=> \E x \in Ops(g) : x.o = o
      /\ Maps(g) = {x.v : x \in {y \in Ops(g) : y.o = "map"}}
      /\ LabelMaps(g) = {x.v : x \in {y \in Ops(g) : y.o = "map[]"}}
  BY <1>1, HasOps
<1>4. Maps(g) = {"video"}
  BY <1>2, <1>3, OptEs DEF Si
<1>5. LabelMaps(g) = {}
  BY <1>2, <1>3, OptEs DEF Si
<1>6. ~Has(g, "vn")
  BY <1>2, <1>3, OptEs DEF Si
<1>7. Has(g, "vf") <=> i = 1 /\ c.deint /\ ~c.hwaccel
  BY <1>2, <1>3, OptEs DEF Si
<1>8. Has(g, "c:v") <=> i = 1
  BY <1>2, <1>3, OptEs DEF Si
<1>9. i = 1 => Value(g, "c:v") = CodecVideo(c)
  <2>1. \A x \in Ops(g) : x.o = "c:v" => x.v = CodecVideo(c)
    BY <1>2, OptEs DEF Si
  <2> QED
    BY <1>1, <1>8, <2>1, ValueOps, Zenon
<1>10. (Has(g, "b:v") <=> b # <<>>) /\ (Has(g, "maxrate") <=> b # <<>>)
  BY <1>2, <1>3, OptEs DEF Si
<1>11. b # <<>> => Value(g, "b:v") = b
  <2>1. \A x \in Ops(g) : x.o = "b:v" => x.v = b
    BY <1>2, OptEs DEF Si
  <2> QED
    BY <1>1, <1>10, <2>1, ValueOps, Zenon
<1>12. b # <<>> => Value(g, "maxrate") = calcularBitrateMaximo(b)
  <2>1. \A x \in Ops(g) : x.o = "maxrate" => x.v = calcularBitrateMaximo(b)
    BY <1>2, OptEs DEF Si
  <2> QED
    BY <1>1, <1>10, <2>1, ValueOps, Zenon
<1>13. Has(g, "vf") => Value(g, "vf") # "hwdownload"
  <2>1. \A x \in Ops(g) : x.o = "vf" => x.v = "yadif"
    BY <1>2, OptEs DEF Si
  <2>2. Has(g, "vf") => Value(g, "vf") = "yadif"
    BY <1>1, <2>1, ValueOps, Zenon
  <2> QED
    BY <2>2
<1>14. Has(g, "profile:v") <=> i = 1 /\ Custom(c)
  BY <1>2, <1>3, OptEs DEF Si
<1> QED
  BY <1>4, <1>5, <1>6, <1>7, <1>8, <1>9, <1>10, <1>11, <1>12, <1>13, <1>14, Zenon DEF g, b

(* What open_output_file reads in the group of a DVB subtitle.             *)
LEMMA GrupoDvb ==
  ASSUME NEW c, Buena(c), NEW i \in 1..NB(c), NEW j \in 1..ND(c)
  PROVE  LET g == Propias(c, <<1, i, j>>)
             b == Tasa(c, i)
         IN  /\ Maps(g) = {} /\ LabelMaps(g) = {Etiqueta(c, j)} /\ ~Has(g, "vf")
             /\ Has(g, "c:v") /\ Value(g, "c:v") = CodecDvb(c)
             /\ Has(g, "b:v") <=> c.hwaccel /\ b # <<>>
             /\ Has(g, "maxrate") <=> c.hwaccel /\ b # <<>>
             /\ c.hwaccel /\ b # <<>> =>
                  Value(g, "b:v") = b /\ Value(g, "maxrate") = calcularBitrateMaximo(b)
             /\ Has(g, "profile:v") <=> c.hwaccel
<1> DEFINE g == Propias(c, <<1, i, j>>)
           b == Tasa(c, i)
<1>0. Considerada(c) /\ EsTasa(b) /\ ND(c) \in Nat
  BY Tasas, EsClave, FormaClave DEF Buena
<1>1. g \in Seq(Local) /\ g = DvbCab(c, b, j) /\ j \in Nat
  <2>1. <<1, i, j>> \in Claves(c)
    BY <1>0, EsClave
  <2>2. g = DvbCab(c, b, j) /\ j \in Nat
    BY <1>0 DEF Propias
  <2> QED
    BY <2>1, <2>2, PropiasTipo
<1>2. Ops(g) = Si(c.hwaccel /\ b # <<>>, {Opt("b:v", b), Opt("maxrate", calcularBitrateMaximo(b))})
               \cup {Opt("map[]", Etiqueta(c, j)), Opt("an", "1"), Opt("sn", "1"), Opt("c:v", CodecDvb(c))}
               \cup Si(c.hwaccel, {Opt("profile:v", "baseline")})
  <2> HIDE DEF g, b
  <2> QED
    BY <1>0, <1>1, OpsDvbCab
<1> HIDE DEF g, b
<1>3. /\ \A o : Has(g, o) <=> \E x \in Ops(g) : x.o = o
      /\ Maps(g) = {x.v : x \in {y \in Ops(g) : y.o = "map"}}
      /\ LabelMaps(g) = {x.v : x \in {y \in Ops(g) : y.o = "map[]"}}
  BY <1>1, HasOps
<1>4. Maps(g) = {}
  BY <1>2, <1>3, OptEs DEF Si
<1>5. LabelMaps(g) = {Etiqueta(c, j)}
  BY <1>2, <1>3, OptEs DEF Si
<1>6. ~Has(g, "vf") /\ Has(g, "c:v")
  BY <1>2, <1>3, OptEs DEF Si
<1>7. Value(g, "c:v") = CodecDvb(c)
  <2>1. \A x \in Ops(g) : x.o = "c:v" => x.v = CodecDvb(c)
    BY <1>2, OptEs DEF Si
  <2> QED
    BY <1>1, <1>6, <2>1, ValueOps, Zenon
<1>8. (Has(g, "b:v") <=> c.hwaccel /\ b # <<>>) /\ (Has(g, "maxrate") <=> c.hwaccel /\ b # <<>>)
  BY <1>2, <1>3, OptEs DEF Si
<1>9. c.hwaccel /\ b # <<>> => Value(g, "b:v") = b
  <2>1. \A x \in Ops(g) : x.o = "b:v" => x.v = b
    BY <1>2, OptEs DEF Si
  <2> QED
    BY <1>1, <1>8, <2>1, ValueOps, ZenonT(60)
<1>10. c.hwaccel /\ b # <<>> => Value(g, "maxrate") = calcularBitrateMaximo(b)
  <2>1. \A x \in Ops(g) : x.o = "maxrate" => x.v = calcularBitrateMaximo(b)
    BY <1>2, OptEs DEF Si
  <2> QED
    BY <1>1, <1>8, <2>1, ValueOps, ZenonT(60)
<1>11. Has(g, "profile:v") <=> c.hwaccel
  BY <1>2, <1>3, OptEs DEF Si
<1> QED
  BY <1>4, <1>5, <1>6, <1>7, <1>8, <1>9, <1>10, <1>11, Zenon DEF g, b

(* What it reads in the group of an audio.                                 *)
LEMMA GrupoAudio ==
  ASSUME NEW c, Buena(c), NEW i \in 1..Len(c.audio)
  PROVE  LET g == Propias(c, <<2, i, 0>>)
         IN  /\ Maps(g) = {c.audio[i], "video"} /\ LabelMaps(g) = {}
             /\ Has(g, "vn") /\ ~Has(g, "an") /\ ~Has(g, "sn") /\ ~Has(g, "vf")
<1> DEFINE g == Propias(c, <<2, i, 0>>)
<1>0. Considerada(c)
  BY DEF Buena
<1>1. g \in Seq(Local) /\ g = AudioCab(c, i)
  <2>1. <<2, i, 0>> \in Claves(c)
    BY EsClave
  <2>2. g = AudioCab(c, i)
    BY DEF Propias
  <2> QED
    BY <2>1, <2>2, PropiasTipo
<1>2. Ops(g) = {Opt("c:a", IF c.acodec THEN "aac" ELSE "copy"), Opt("map", c.audio[i])}
               \cup Si(c.acodec, {Opt("af", "aresample")}) \cup {Opt("map", "video"), Opt("vn", "1")}
  BY <1>0, <1>1, OpsAudioCab
<1> HIDE DEF g
<1>3. /\ \A o : Has(g, o) <=> \E x \in Ops(g) : x.o = o
      /\ Maps(g) = {x.v : x \in {y \in Ops(g) : y.o = "map"}}
      /\ LabelMaps(g) = {x.v : x \in {y \in Ops(g) : y.o = "map[]"}}
  BY <1>1, HasOps
<1>4. Maps(g) = {c.audio[i], "video"}
  BY <1>2, <1>3, OptEs DEF Si
<1>5. LabelMaps(g) = {}
  BY <1>2, <1>3, OptEs DEF Si
<1>6. Has(g, "vn") /\ ~Has(g, "an") /\ ~Has(g, "sn") /\ ~Has(g, "vf")
  BY <1>2, <1>3, OptEs DEF Si
<1> QED
  BY <1>4, <1>5, <1>6, Zenon DEF g

(* What it reads in the group of a teletext subtitle.                      *)
LEMMA GrupoSubs ==
  ASSUME NEW c, Buena(c), NEW i \in 1..NT(c)
  PROVE  LET g == Propias(c, <<3, i, 0>>)
         IN  /\ Maps(g) = {c.audio[1], c.subs[i], "video"} /\ LabelMaps(g) = {}
             /\ Has(g, "vn") /\ ~Has(g, "an") /\ ~Has(g, "sn") /\ ~Has(g, "vf")
<1> DEFINE g == Propias(c, <<3, i, 0>>)
<1>1. g \in Seq(Local) /\ g = SubsCab(c, i)
  <2>1. <<3, i, 0>> \in Claves(c)
    BY EsClave
  <2>2. g = SubsCab(c, i)
    BY DEF Propias
  <2> QED
    BY <2>1, <2>2, PropiasTipo
<1>2. Ops(g) = {Opt("map", c.audio[1]), Opt("map", c.subs[i]), Opt("map", "video"),
                Opt("vn", "1"), Opt("c:s", "webvtt")}
  BY <1>1, OpsSubsCab
<1> HIDE DEF g
<1>3. /\ \A o : Has(g, o) <=> \E x \in Ops(g) : x.o = o
      /\ Maps(g) = {x.v : x \in {y \in Ops(g) : y.o = "map"}}
      /\ LabelMaps(g) = {x.v : x \in {y \in Ops(g) : y.o = "map[]"}}
  BY <1>1, HasOps
<1>4. Maps(g) = {c.audio[1], c.subs[i], "video"}
  BY <1>2, <1>3, OptEs
<1>5. LabelMaps(g) = {}
  BY <1>2, <1>3, OptEs
<1>6. Has(g, "vn") /\ ~Has(g, "an") /\ ~Has(g, "sn") /\ ~Has(g, "vf")
  BY <1>2, <1>3, OptEs
<1> QED
  BY <1>4, <1>5, <1>6, Zenon DEF g

-----------------------------------------------------------------------------
(* The encoders that find_codec_or_die comes to.                           *)

(* The least element of a set.                                             *)
LEMMA MinEs ==
  ASSUME NEW S \in SUBSET Nat, NEW x \in S, \A y \in S : x <= y
  PROVE  Min(S) = x
<1>1. \E z \in S : \A y \in S : z <= y
  OBVIOUS
<1>2. Min(S) \in S /\ \A y \in S : Min(S) <= y
  BY <1>1, Zenon DEF Min
<1>3. Min(S) <= x /\ x <= Min(S) /\ Min(S) \in Nat /\ x \in Nat
  BY <1>2
<1> QED
  BY <1>3

(* The encoders of the build.                                              *)
LEMMA Registrados ==
  /\ Len(Registry) = 5 /\ 1..Len(Registry) = {1, 2, 3, 4, 5}
  /\ Registry[1].name = "mpeg2video" /\ Registry[2].name = "libx264" /\ Registry[3].name = "libx265"
  /\ Registry[4].name = "h264_nvenc" /\ Registry[5].name = "hevc_nvenc"
  /\ Registry[1].codec = "mpeg2video" /\ Registry[2].codec = "h264" /\ Registry[3].codec = "hevc"
  /\ Registry[4].codec = "h264" /\ Registry[5].codec = "hevc"
  /\ ~Registry[2].gpu /\ ~Registry[3].gpu /\ Registry[4].gpu /\ Registry[5].gpu
<1>1. Len(Registry) = 5
  BY DEF Registry
<1>2. 1..5 = {1, 2, 3, 4, 5}
  OBVIOUS
<1>3. /\ Registry[1].name = "mpeg2video" /\ Registry[2].name = "libx264" /\ Registry[3].name = "libx265"
      /\ Registry[4].name = "h264_nvenc" /\ Registry[5].name = "hevc_nvenc"
  BY DEF Registry
<1>4. /\ Registry[1].codec = "mpeg2video" /\ Registry[2].codec = "h264" /\ Registry[3].codec = "hevc"
      /\ Registry[4].codec = "h264" /\ Registry[5].codec = "hevc"
  BY DEF Registry
<1>5. ~Registry[2].gpu /\ ~Registry[3].gpu /\ Registry[4].gpu /\ Registry[5].gpu
  BY DEF Registry
<1> QED
  BY <1>1, <1>2, <1>3, <1>4, <1>5

(* An encoder found by its name.                                           *)
LEMMA PorNombre ==
  ASSUME NEW n, NEW i \in 1..5, {j \in 1..Len(Registry) : Registry[j].name = n} = {i}
  PROVE  find_codec_or_die(n) = Registry[i]
<1>1. Min({i}) = i
  BY MinEs
<1>2. {j \in 1..Len(Registry) : Registry[j].name = n} # {}
  OBVIOUS
<1> QED
  BY <1>1, <1>2, Zenon DEF find_codec_or_die, First

(* The first of two encoders of a codec.                                   *)
LEMMA PorCodec ==
  ASSUME NEW n, NEW i \in 1..5, NEW k \in 1..5, i <= k,
         {j \in 1..Len(Registry) : Registry[j].name = n} = {},
         {j \in 1..Len(Registry) : Registry[j].codec = n} = {i, k}
  PROVE  find_codec_or_die(n) = Registry[i]
<1>1. Min({i, k}) = i
  BY MinEs
<1>2. {j \in 1..Len(Registry) : Registry[j].codec = n} # {}
  OBVIOUS
<1> QED
  BY <1>1, <1>2, Zenon DEF find_codec_or_die, First

(* The encoder behind every name that hlsXcoder writes.                    *)
LEMMA Codificadores ==
  /\ find_codec_or_die("libx264") = Registry[2]
  /\ find_codec_or_die("h264_nvenc") = Registry[4]
  /\ find_codec_or_die("hevc_nvenc") = Registry[5]
  /\ find_codec_or_die("h264") = Registry[2]
  /\ find_codec_or_die("hevc") = Registry[3]
  /\ find_codec_or_die("mpeg2") = Unknown
<1>1. {j \in 1..Len(Registry) : Registry[j].name = "libx264"} = {2}
  BY Registrados
<1>2. {j \in 1..Len(Registry) : Registry[j].name = "h264_nvenc"} = {4}
  BY Registrados
<1>3. {j \in 1..Len(Registry) : Registry[j].name = "hevc_nvenc"} = {5}
  BY Registrados
<1>4. /\ {j \in 1..Len(Registry) : Registry[j].name = "h264"} = {}
      /\ {j \in 1..Len(Registry) : Registry[j].codec = "h264"} = {2, 4}
  BY Registrados
<1>5. /\ {j \in 1..Len(Registry) : Registry[j].name = "hevc"} = {}
      /\ {j \in 1..Len(Registry) : Registry[j].codec = "hevc"} = {3, 5}
  BY Registrados
<1>6. /\ {j \in 1..Len(Registry) : Registry[j].name = "mpeg2"} = {}
      /\ {j \in 1..Len(Registry) : Registry[j].codec = "mpeg2"} = {}
  BY Registrados
<1>7. 2 \in 1..5 /\ 3 \in 1..5 /\ 4 \in 1..5 /\ 5 \in 1..5 /\ 2 <= 4 /\ 3 <= 5
  OBVIOUS
<1>8. /\ find_codec_or_die("libx264") = Registry[2]
      /\ find_codec_or_die("h264_nvenc") = Registry[4]
      /\ find_codec_or_die("hevc_nvenc") = Registry[5]
  <2>1. find_codec_or_die("libx264") = Registry[2]
    BY <1>1, <1>7, PorNombre
  <2>2. find_codec_or_die("h264_nvenc") = Registry[4]
    BY <1>2, <1>7, PorNombre
  <2>3. find_codec_or_die("hevc_nvenc") = Registry[5]
    BY <1>3, <1>7, PorNombre
  <2> QED
    BY <2>1, <2>2, <2>3
<1>9. find_codec_or_die("h264") = Registry[2] /\ find_codec_or_die("hevc") = Registry[3]
  <2>1. find_codec_or_die("h264") = Registry[2]
    BY <1>4, <1>7, PorCodec
  <2>2. find_codec_or_die("hevc") = Registry[3]
    BY <1>5, <1>7, PorCodec
  <2> QED
    BY <2>1, <2>2
<1>10. find_codec_or_die("mpeg2") = Unknown
  BY <1>6, Zenon DEF find_codec_or_die
<1> QED
  BY <1>8, <1>9, <1>10

-----------------------------------------------------------------------------
(* The streams that an output is given, and the outputs that are refused.  *)

Codificador(c, k) ==
  IF k[3] # 0 THEN find_codec_or_die(CodecDvb(c))
  ELSE IF k[2] # 1 THEN find_codec_or_die("h264")
  ELSE IF ~Custom(c) THEN Copy ELSE find_codec_or_die(CodecVideo(c))

Perfil(c, k) == IF k[3] = 0 THEN k[2] = 1 /\ Custom(c) ELSE c.hwaccel

TasaDe(c, k) == IF k[3] = 0 \/ c.hwaccel THEN Tasa(c, k[2]) ELSE <<>>

VideoDe(c, n, k) ==
  [n |-> n, file |-> Archivo(c, k), kind |-> "video",
   src |-> IF k[3] = 0 THEN "video" ELSE c.subs[k[3]], enc |-> Codificador(c, k),
   gpu |-> c.hwaccel, baseline |-> Perfil(c, k), b |-> TasaDe(c, k),
   max |-> IF TasaDe(c, k) = <<>> THEN 0 ELSE calcularBitrateMaximo(TasaDe(c, k))]

Esperadas(c, n, k) ==
  IF k[1] = 1 THEN {VideoDe(c, n, k)}
  ELSE IF k[1] = 2 THEN {OtherStream(n, Archivo(c, k), "audio", c.audio[k[2]])}
  ELSE {OtherStream(n, Archivo(c, k), "audio", c.audio[1]),
        OtherStream(n, Archivo(c, k), "subtitle", c.subs[k[2]])}

Prohibida(c, k) ==
  ~Custom(c) /\ ((k = <<1, 1, 0>> /\ c.deint) \/ (EsDvb(k) /\ c.video = "mpeg2video"))

(* With which of the outputs that open it ends at the first frame.         *)
Rota(c, k) ==
  /\ k[1] = 1
  /\ \/ /\ Custom(c) /\ Nvenc(c) /\ Nombre(c) = "hevc"
        /\ IF k[3] = 0 THEN k[2] = 1 ELSE c.hwaccel
     \/ c.hwaccel /\ k[3] = 0 /\ k[2] # 1

Abiertas(n, f, g) ==
  {IF Kind(s) = "video" THEN VideoStream(n, f, g, s, FALSE)
   ELSE OtherStream(n, f, Kind(s), s) : s \in Mapped(g)}
  \cup {VideoStream(n, f, g, SourceOf(FirstPad(l)), TRUE) : l \in LabelMaps(g)}

(* The kind of a mapped stream.                                            *)
LEMMA ClasesDe ==
  ASSUME NEW s, "video" \notin ToSet(cfg.audio)
  PROVE  /\ s = "video" => Kind(s) = "video"
         /\ s \in ToSet(cfg.audio) => Kind(s) = "audio"
         /\ s # "video" /\ s \notin ToSet(cfg.audio) => Kind(s) = "subtitle"
<1> DEFINE A == ToSet(cfg.audio)
<1>0. Kind(s) = CASE s = "video" -> "video" [] s \in A -> "audio" [] OTHER -> "subtitle"
  BY Zenon DEF Kind
<1>1. "video" \notin A
  OBVIOUS
<1> HIDE DEF A
<1>2. ASSUME s = "video" PROVE Kind(s) = "video"
  BY <1>0, <1>1, <1>2
<1>3. ASSUME s \in A PROVE Kind(s) = "audio"
  BY <1>0, <1>1, <1>3
<1>4. ASSUME s # "video", s \notin A PROVE Kind(s) = "subtitle"
  BY <1>0, <1>1, <1>4
<1> QED
  BY <1>2, <1>3, <1>4 DEF A

(* The kinds of the tracks of a program.                                   *)
LEMMA Clases ==
  ASSUME Considerada(cfg)
  PROVE  /\ Kind("video") = "video"
         /\ \A i \in 1..Len(cfg.audio) : Kind(cfg.audio[i]) = "audio"
         /\ \A i \in 1..Len(cfg.subs) : Kind(cfg.subs[i]) = "subtitle"
<1>0. "video" \notin ToSet(cfg.audio)
  BY DEF Considerada
<1>1. Kind("video") = "video"
  BY <1>0, ClasesDe
<1>2. ASSUME NEW i \in 1..Len(cfg.audio) PROVE Kind(cfg.audio[i]) = "audio"
  <2>1. cfg.audio[i] \in ToSet(cfg.audio)
    BY Pistas
  <2> QED
    BY <1>0, <2>1, ClasesDe
<1>3. ASSUME NEW i \in 1..Len(cfg.subs) PROVE Kind(cfg.subs[i]) = "subtitle"
  <2>1. cfg.subs[i] # "video" /\ cfg.subs[i] \notin ToSet(cfg.audio)
    BY Pistas
  <2> QED
    BY <1>0, <2>1, ClasesDe
<1> QED
  BY <1>1, <1>2, <1>3

(* Without hwdownload the frames are on the GPU just with -hwaccel.        *)
LEMMA EnLaGpu ==
  ASSUME Considerada(cfg), decoder = EntradaCab(cfg), NEW g, NEW q \in BOOLEAN,
         Has(g, "vf") => Value(g, "vf") # "hwdownload"
  PROVE  OnGpu(g, q) = cfg.hwaccel
<1>1. cfg.hwaccel \in BOOLEAN
  BY EnLinea
<1>2. Has(decoder, "hwaccel") <=> cfg.hwaccel
  <2>1. decoder \in Seq(Local)
    BY EntradaTipo
  <2>2. Ops(decoder) = Si(cfg.hwaccel, {Opt("hwaccel", "cuvid"), Opt("c:v", "cuvid")})
    BY OpsTuplas, OpsWhen, Zenon DEF EntradaCab, Si
  <2>3. \A o : Has(decoder, o) <=> \E x \in Ops(decoder) : x.o = o
    BY <2>1, HasOps
  <2> QED
    BY <2>2, <2>3, OptEs DEF Si
<1>3. OnGpu(g, q) <=> cfg.hwaccel
  BY <1>2 DEF OnGpu
<1>4. OnGpu(g, q) \in BOOLEAN
  BY Zenon DEF OnGpu
<1> QED
  BY <1>1, <1>3, <1>4, Zenon

(* The stream of a video output is the expected one.                       *)
LEMMA VideoNuevo ==
  ASSUME Buena(cfg), decoder = EntradaCab(cfg), NEW n, NEW i \in 1..NB(cfg)
  PROVE  VideoStream(n, Archivo(cfg, <<1, i, 0>>), Propias(cfg, <<1, i, 0>>), "video", FALSE)
           = VideoDe(cfg, n, <<1, i, 0>>)
<1> DEFINE k == <<1, i, 0>>
           g == Propias(cfg, k)
           b == Tasa(cfg, i)
<1>0. k[1] = 1 /\ k[2] = i /\ k[3] = 0 /\ Considerada(cfg)
  BY DEF Buena
<1>1. /\ Has(g, "c:v") <=> i = 1
      /\ i = 1 => Value(g, "c:v") = CodecVideo(cfg)
      /\ Has(g, "b:v") <=> b # <<>>
      /\ Has(g, "maxrate") <=> b # <<>>
      /\ b # <<>> => Value(g, "b:v") = b /\ Value(g, "maxrate") = calcularBitrateMaximo(b)
      /\ Has(g, "vf") => Value(g, "vf") # "hwdownload"
      /\ Has(g, "profile:v") <=> i = 1 /\ Custom(cfg)
  BY GrupoVideo, Zenon
<1> HIDE DEF k, g, b
<1>2. OnGpu(g, FALSE) = cfg.hwaccel
  BY <1>0, <1>1, EnLaGpu
<1>3. choose_encoder(g) = Codificador(cfg, k)
  <2>1. CodecVideo(cfg) = "copy" <=> ~Custom(cfg)
    <3>1. Custom(cfg) => Nombre(cfg) \in {"h264", "hevc"}
      BY <1>0, Nombres
    <3> QED
      BY <3>1 DEF CodecVideo, ConNvenc
  <2> QED
    BY <1>0, <1>1, <2>1 DEF choose_encoder, Codificador
<1>4. TasaDe(cfg, k) = b
  BY <1>0 DEF TasaDe, b
<1>5. (IF Has(g, "b:v") THEN Value(g, "b:v") ELSE <<>>) = b
  BY <1>1
<1>6. (IF Has(g, "maxrate") THEN Value(g, "maxrate") ELSE 0) = IF b = <<>> THEN 0 ELSE calcularBitrateMaximo(b)
  BY <1>1, Zenon
<1>7. (IF k[3] = 0 THEN "video" ELSE cfg.subs[k[3]]) = "video"
  BY <1>0
<1>8. Has(g, "profile:v") = Perfil(cfg, k)
  <2>1. Perfil(cfg, k) = (i = 1 /\ Custom(cfg))
    BY <1>0, Zenon DEF Perfil
  <2>2. Has(g, "profile:v") \in BOOLEAN /\ (i = 1 /\ Custom(cfg)) \in BOOLEAN
    BY Zenon DEF Has
  <2>3. Has(g, "profile:v") <=> i = 1 /\ Custom(cfg)
    BY <1>1
  <2>4. CASE i = 1 /\ Custom(cfg)
    BY <2>1, <2>2, <2>3, <2>4
  <2>5. CASE ~(i = 1 /\ Custom(cfg))
    BY <2>1, <2>2, <2>3, <2>5
  <2> QED
    BY <2>4, <2>5
<1> QED
  BY <1>2, <1>3, <1>4, <1>5, <1>6, <1>7, <1>8, Zenon DEF VideoStream, VideoDe, g, k

(* The stream of a DVB subtitle is the expected one, with its graph.       *)
LEMMA DvbNuevo ==
  ASSUME Buena(cfg), decoder = EntradaCab(cfg), NEW n, NEW i \in 1..NB(cfg), NEW j \in 1..ND(cfg)
  PROVE  VideoStream(n, Archivo(cfg, <<1, i, j>>), Propias(cfg, <<1, i, j>>), cfg.subs[j], TRUE)
           = VideoDe(cfg, n, <<1, i, j>>)
<1> DEFINE k == <<1, i, j>>
           g == Propias(cfg, k)
           b == Tasa(cfg, i)
<1>0. k[1] = 1 /\ k[2] = i /\ k[3] = j /\ k[3] # 0 /\ Considerada(cfg)
  <2>1. ND(cfg) \in Nat
    BY EsClave, FormaClave
  <2> QED
    BY <2>1 DEF Buena
<1>1. /\ ~Has(g, "vf")
      /\ Has(g, "c:v") /\ Value(g, "c:v") = CodecDvb(cfg)
      /\ Has(g, "b:v") <=> cfg.hwaccel /\ b # <<>>
      /\ Has(g, "maxrate") <=> cfg.hwaccel /\ b # <<>>
      /\ cfg.hwaccel /\ b # <<>> =>
           Value(g, "b:v") = b /\ Value(g, "maxrate") = calcularBitrateMaximo(b)
      /\ Has(g, "profile:v") <=> cfg.hwaccel
  BY GrupoDvb, Zenon
<1> HIDE DEF k, g, b
<1>2. OnGpu(g, TRUE) = cfg.hwaccel
  BY <1>0, <1>1, EnLaGpu
<1>3. choose_encoder(g) = Codificador(cfg, k)
  <2>1. CodecDvb(cfg) # "copy"
    <3>1. Nombre(cfg) \in {"h264", "hevc", "mpeg2"}
      BY <1>0, Nombres
    <3> QED
      BY <3>1 DEF CodecDvb, ConNvenc
  <2> QED
    BY <1>0, <1>1, <2>1 DEF choose_encoder, Codificador
<1> DEFINE t == TasaDe(cfg, k)
<1>4. t = IF cfg.hwaccel THEN b ELSE <<>>
  BY <1>0 DEF TasaDe, b
<1> HIDE DEF t
<1>5. (IF Has(g, "b:v") THEN Value(g, "b:v") ELSE <<>>) = t
  BY <1>1, <1>4
<1>6. (IF Has(g, "maxrate") THEN Value(g, "maxrate") ELSE 0) = IF t = <<>> THEN 0 ELSE calcularBitrateMaximo(t)
  <2>1. CASE cfg.hwaccel
    BY <1>1, <1>4, <2>1, Zenon
  <2>2. CASE ~cfg.hwaccel
    BY <1>1, <1>4, <2>2, Zenon
  <2> QED
    BY <2>1, <2>2
<1>7. (IF k[3] = 0 THEN "video" ELSE cfg.subs[k[3]]) = cfg.subs[j]
  BY <1>0
<1>8. Has(g, "profile:v") = Perfil(cfg, k)
  <2>1. Perfil(cfg, k) = cfg.hwaccel
    BY <1>0 DEF Perfil
  <2>2. Has(g, "profile:v") \in BOOLEAN
    BY Zenon DEF Has
  <2>3. cfg.hwaccel \in BOOLEAN
    BY <1>0, EnLinea
  <2> QED
    BY <1>1, <2>1, <2>2, <2>3, Zenon
<1> QED
  BY <1>2, <1>3, <1>5, <1>6, <1>7, <1>8, Zenon DEF VideoStream, VideoDe, g, k, t

(* A video output maps the video and no label.                             *)
LEMMA MapeadoVideo ==
  ASSUME Buena(cfg), NEW i \in 1..NB(cfg)
  PROVE  Mapped(Propias(cfg, <<1, i, 0>>)) = {"video"} /\ LabelMaps(Propias(cfg, <<1, i, 0>>)) = {}
<1> DEFINE g == Propias(cfg, <<1, i, 0>>)
<1>1. Maps(g) = {"video"} /\ LabelMaps(g) = {} /\ ~Has(g, "vn")
  BY GrupoVideo, Zenon
<1>2. Kind("video") = "video"
  BY Clases DEF Buena
<1> HIDE DEF g
<1>3. Mapped(g) = {"video"}
  BY <1>1, <1>2 DEF Mapped, Skipped
<1> QED
  BY <1>1, <1>3 DEF g

(* An audio output maps its audio: -vn leaves the video out.               *)
LEMMA MapeadoAudio ==
  ASSUME Buena(cfg), NEW i \in 1..Len(cfg.audio)
  PROVE  /\ Mapped(Propias(cfg, <<2, i, 0>>)) = {cfg.audio[i]}
         /\ LabelMaps(Propias(cfg, <<2, i, 0>>)) = {} /\ ~Has(Propias(cfg, <<2, i, 0>>), "vf")
<1> DEFINE g == Propias(cfg, <<2, i, 0>>)
           a == cfg.audio[i]
<1>1. /\ Maps(g) = {a, "video"} /\ LabelMaps(g) = {}
      /\ Has(g, "vn") /\ ~Has(g, "an") /\ ~Has(g, "sn") /\ ~Has(g, "vf")
  BY GrupoAudio, Zenon
<1>2. Kind("video") = "video" /\ Kind(a) = "audio"
  BY Clases DEF Buena
<1> HIDE DEF g, a
<1>3. Mapped(g) = {a}
  BY <1>1, <1>2 DEF Mapped, Skipped
<1> QED
  BY <1>1, <1>3 DEF g, a

(* A teletext output maps the first audio and its subtitle.                *)
LEMMA MapeadoSubs ==
  ASSUME Buena(cfg), NEW i \in 1..NT(cfg)
  PROVE  /\ Mapped(Propias(cfg, <<3, i, 0>>)) = {cfg.audio[1], cfg.subs[i]}
         /\ LabelMaps(Propias(cfg, <<3, i, 0>>)) = {} /\ ~Has(Propias(cfg, <<3, i, 0>>), "vf")
         /\ Kind(cfg.audio[1]) = "audio" /\ Kind(cfg.subs[i]) = "subtitle"
<1> DEFINE g == Propias(cfg, <<3, i, 0>>)
           a == cfg.audio[1]
           s == cfg.subs[i]
<1>1. /\ Maps(g) = {a, s, "video"} /\ LabelMaps(g) = {}
      /\ Has(g, "vn") /\ ~Has(g, "an") /\ ~Has(g, "sn") /\ ~Has(g, "vf")
  BY GrupoSubs, Zenon
<1>2. Kind("video") = "video" /\ Kind(a) = "audio" /\ Kind(s) = "subtitle"
  <2>1. Considerada(cfg) /\ Teletext(cfg)
    BY DEF Buena, NT
  <2>2. cfg.audio \in Seq(STRING) /\ cfg.audio # <<>>
    BY <2>1, EnLinea DEF Buena, Revienta
  <2>3. 1 \in 1..Len(cfg.audio) /\ i \in 1..Len(cfg.subs)
    BY <2>1, <2>2 DEF NT
  <2> QED
    BY <2>1, <2>3, Clases
<1> HIDE DEF g, a, s
<1>3. Mapped(g) = {a, s}
  BY <1>1, <1>2 DEF Mapped, Skipped
<1> QED
  BY <1>1, <1>2, <1>3 DEF g, a, s

(* A video output opens with the expected stream.                          *)
LEMMA AbreVideo ==
  ASSUME Buena(cfg), decoder = EntradaCab(cfg), NEW n, NEW k \in Salidas(cfg), k[1] = 1, k[3] = 0
  PROVE  Abiertas(n, Archivo(cfg, k), Propias(cfg, k)) = Esperadas(cfg, n, k)
<1>1. k = <<1, k[2], 0>> /\ k[2] \in 1..NB(cfg)
  BY DEF Salidas
<1> DEFINE i == k[2]
           g == Propias(cfg, k)
           f == Archivo(cfg, k)
<1>2. Mapped(g) = {"video"} /\ LabelMaps(g) = {}
  BY <1>1, MapeadoVideo, Zenon
<1>3. VideoStream(n, f, g, "video", FALSE) = VideoDe(cfg, n, k)
  BY <1>1, VideoNuevo, Zenon
<1>4. Kind("video") = "video"
  BY Clases DEF Buena
<1> HIDE DEF g, f
<1>5. Abiertas(n, f, g) = {VideoStream(n, f, g, "video", FALSE)}
  BY <1>2, <1>4 DEF Abiertas
<1>6. Esperadas(cfg, n, k) = {VideoDe(cfg, n, k)}
  BY DEF Esperadas
<1> QED
  BY <1>3, <1>5, <1>6, Zenon DEF f, g

(* An audio output opens with the expected stream.                         *)
LEMMA AbreAudio ==
  ASSUME Buena(cfg), NEW n, NEW k \in Salidas(cfg), k[1] = 2
  PROVE  Abiertas(n, Archivo(cfg, k), Propias(cfg, k)) = Esperadas(cfg, n, k)
<1>1. k = <<2, k[2], 0>> /\ k[2] \in 1..Len(cfg.audio)
  BY DEF Salidas
<1> DEFINE g == Propias(cfg, k)
           f == Archivo(cfg, k)
           a == cfg.audio[k[2]]
<1>2. Mapped(g) = {a} /\ LabelMaps(g) = {}
  BY <1>1, MapeadoAudio, Zenon
<1>3. Kind(a) = "audio"
  BY <1>1, Clases DEF Buena
<1>4. Esperadas(cfg, n, k) = {OtherStream(n, f, "audio", a)}
  BY DEF Esperadas
<1> HIDE DEF g, f, a
<1>5. Abiertas(n, f, g) = {OtherStream(n, f, "audio", a)}
  BY <1>2, <1>3 DEF Abiertas
<1> QED
  BY <1>4, <1>5, Zenon DEF f, g

(* A teletext output opens with the expected streams.                      *)
LEMMA AbreSubs ==
  ASSUME Buena(cfg), NEW n, NEW k \in Salidas(cfg), k[1] = 3
  PROVE  Abiertas(n, Archivo(cfg, k), Propias(cfg, k)) = Esperadas(cfg, n, k)
<1>1. k = <<3, k[2], 0>> /\ k[2] \in 1..NT(cfg)
  BY DEF Salidas
<1> DEFINE g == Propias(cfg, k)
           f == Archivo(cfg, k)
           a == cfg.audio[1]
           s == cfg.subs[k[2]]
<1>2. Mapped(g) = {a, s} /\ LabelMaps(g) = {} /\ Kind(a) = "audio" /\ Kind(s) = "subtitle"
  BY <1>1, MapeadoSubs, Zenon
<1>4. Esperadas(cfg, n, k) = {OtherStream(n, f, "audio", a), OtherStream(n, f, "subtitle", s)}
  BY DEF Esperadas
<1> HIDE DEF g, f, a, s
<1>5. Abiertas(n, f, g) = {OtherStream(n, f, "audio", a), OtherStream(n, f, "subtitle", s)}
  BY <1>2 DEF Abiertas
<1> QED
  BY <1>4, <1>5, Zenon DEF f, g

(* The subtitles burnt are those of the pad that is found.                 *)
LEMMA AbreDvb ==
  ASSUME Buena(cfg), decoder = EntradaCab(cfg), NEW n, NEW k \in Salidas(cfg), EsDvb(k),
         SourceOf(FirstPad(Etiqueta(cfg, k[3]))) = cfg.subs[k[3]]
  PROVE  /\ Abiertas(n, Archivo(cfg, k), Propias(cfg, k)) = Esperadas(cfg, n, k)
         /\ LabelMaps(Propias(cfg, k)) = {Etiqueta(cfg, k[3])}
         /\ Mapped(Propias(cfg, k)) = {}
<1>1. k = <<1, k[2], k[3]>> /\ k[1] = 1 /\ k[2] \in 1..NB(cfg) /\ k[3] \in 1..ND(cfg)
  <2>1. k[1] = 1 /\ k[3] > 0
    BY DEF EsDvb
  <2> QED
    BY <2>1, FormaClave DEF Claves
<1> DEFINE g == Propias(cfg, k)
           f == Archivo(cfg, k)
           l == Etiqueta(cfg, k[3])
           s == cfg.subs[k[3]]
<1>2. Maps(g) = {} /\ LabelMaps(g) = {l}
  <2> DEFINE i == k[2]  j == k[3]
  <2>1. k = <<1, i, j>> /\ i \in 1..NB(cfg) /\ j \in 1..ND(cfg)
    BY <1>1
  <2> HIDE DEF i, j
  <2>2. Maps(Propias(cfg, <<1, i, j>>)) = {} /\ LabelMaps(Propias(cfg, <<1, i, j>>)) = {Etiqueta(cfg, j)}
    BY <2>1, GrupoDvb, Zenon
  <2> QED
    BY <2>1, <2>2, Zenon DEF j
<1>3. VideoStream(n, f, g, s, TRUE) = VideoDe(cfg, n, k)
  <2> DEFINE i == k[2]  j == k[3]
  <2>1. k = <<1, i, j>> /\ i \in 1..NB(cfg) /\ j \in 1..ND(cfg)
    BY <1>1
  <2> HIDE DEF i, j
  <2>2. VideoStream(n, Archivo(cfg, <<1, i, j>>), Propias(cfg, <<1, i, j>>), cfg.subs[j], TRUE)
           = VideoDe(cfg, n, <<1, i, j>>)
    BY <2>1, DvbNuevo, Zenon
  <2> QED
    BY <2>1, <2>2, Zenon DEF j
<1>4. Esperadas(cfg, n, k) = {VideoDe(cfg, n, k)}
  BY <1>1 DEF Esperadas
<1>5. SourceOf(FirstPad(l)) = s
  OBVIOUS
<1> HIDE DEF g, f, l, s
<1>6. Mapped(g) = {}
  BY <1>2 DEF Mapped
<1>7. Abiertas(n, f, g) = {VideoStream(n, f, g, s, TRUE)}
  BY <1>2, <1>5, <1>6 DEF Abiertas
<1> QED
  BY <1>2, <1>3, <1>4, <1>6, <1>7, Zenon DEF f, g, l

(* The encoder of a video output.                                          *)
LEMMA Distintos ==
  /\ Unknown # Copy
  /\ \A i \in 2..5 : Registry[i] # Unknown /\ Registry[i] # Copy
<1>1. Unknown.name = "unknown" /\ Copy.name = "copy"
  BY DEF Unknown, Copy
<1>2. ASSUME NEW i \in 2..5 PROVE Registry[i].name \in {"libx264", "libx265", "h264_nvenc", "hevc_nvenc"}
  <2>1. i \in {2, 3, 4, 5}
    OBVIOUS
  <2> QED
    BY <2>1, Registrados
<1>3. \A i \in 2..5 : Registry[i].name # "unknown" /\ Registry[i].name # "copy"
  BY <1>2
<1>4. Unknown.name # Copy.name
  BY <1>1
<1>5. ASSUME NEW i \in 2..5 PROVE Registry[i] # Unknown /\ Registry[i] # Copy
  BY <1>1, <1>3, Zenon
<1> QED
  BY <1>4, <1>5, Zenon

(* The encoder of a video output: copied, unknown or as asked for.         *)
LEMMA CodificadorEs ==
  ASSUME NEW c, Buena(c), NEW k \in Salidas(c), k[1] = 1
  PROVE  /\ ~Custom(c) /\ k = <<1, 1, 0>> => Codificador(c, k) = Copy
         /\ ~Custom(c) /\ EsDvb(k) /\ c.video = "mpeg2video" => Codificador(c, k) = Unknown
         /\ \/ ~Custom(c) /\ k = <<1, 1, 0>>
            \/ ~Custom(c) /\ EsDvb(k) /\ c.video = "mpeg2video"
            \/ Codificador(c, k) # Copy /\ Codificador(c, k) # Unknown
         /\ Custom(c) =>
              Codificador(c, k).codec =
                IF k[3] = 0 /\ (k[2] # 1 \/ ~Nvenc(c)) THEN "h264" ELSE Nombre(c)
         /\ k[3] = 0 /\ k[2] # 1 => ~Codificador(c, k).gpu
         /\ c.hwaccel /\ (k[3] # 0 \/ k[2] = 1) => Codificador(c, k).gpu
<1>1. /\ k = <<1, k[2], k[3]>> /\ k[2] \in Nat /\ k[3] \in Nat /\ Considerada(c) /\ k[2] \in 1..NB(c)
  BY FormaClave DEF Claves, Buena
<1>2. /\ Nombre(c) \in {"h264", "hevc", "mpeg2"}
      /\ Custom(c) => Nombre(c) \in {"h264", "hevc"}
      /\ ~Custom(c) => (Nombre(c) = "mpeg2" <=> c.video = "mpeg2video")
  BY <1>1, Nombres
<1>3. c.hwaccel => Custom(c) /\ Nvenc(c)
  BY <1>1, EnLinea
<1>4. 2 \in 2..5 /\ 3 \in 2..5 /\ 4 \in 2..5 /\ 5 \in 2..5
  OBVIOUS
<1> DEFINE e == Codificador(c, k)
<1>5. CASE k[3] # 0
  <2>1. e = find_codec_or_die(CodecDvb(c)) /\ EsDvb(k) /\ k # <<1, 1, 0>>
    BY <1>1, <1>5 DEF Codificador, EsDvb
  <2>2. CASE c.hwaccel
    <3>1. \/ Nombre(c) = "h264" /\ CodecDvb(c) = "h264_nvenc"
          \/ Nombre(c) = "hevc" /\ CodecDvb(c) = "hevc_nvenc"
      BY <1>2, <1>3, <2>2 DEF CodecDvb, ConNvenc
    <3>2. \/ Nombre(c) = "h264" /\ e = Registry[4]
          \/ Nombre(c) = "hevc" /\ e = Registry[5]
      BY <2>1, <3>1, Codificadores, Zenon
    <3>3. e # Copy /\ e # Unknown
      BY <1>4, <3>2, Distintos, Zenon
    <3>4. e.codec = Nombre(c) /\ e.gpu
      <4> HIDE DEF e
      <4> QED
        BY <3>2, Registrados
    <3> QED
      BY <1>3, <1>5, <2>1, <2>2, <3>3, <3>4
  <2>3. CASE ~c.hwaccel
    <3>1. CodecDvb(c) = Nombre(c)
      BY <2>3 DEF CodecDvb
    <3>2. \/ Nombre(c) = "h264" /\ e = Registry[2]
          \/ Nombre(c) = "hevc" /\ e = Registry[3]
          \/ Nombre(c) = "mpeg2" /\ e = Unknown
      BY <1>2, <2>1, <3>1, Codificadores, Zenon
    <3>3. CASE Nombre(c) = "mpeg2"
      <4>1. ~Custom(c) /\ c.video = "mpeg2video" /\ e = Unknown
        BY <1>2, <3>2, <3>3
      <4> QED
        BY <1>5, <2>1, <2>3, <4>1, Zenon
    <3>4. CASE Nombre(c) # "mpeg2"
      <4>1. e # Copy /\ e # Unknown
        BY <1>4, <3>2, <3>4, Distintos, Zenon
      <4>2. e.codec = Nombre(c)
        <5> HIDE DEF e
        <5> QED
          BY <3>2, <3>4, Registrados
      <4>3. ~Custom(c) => c.video # "mpeg2video"
        BY <1>2, <3>4
      <4> QED
        BY <1>5, <2>1, <2>3, <4>1, <4>2, <4>3, Zenon
    <3> QED
      BY <3>3, <3>4
  <2> QED
    BY <2>2, <2>3
<1>6. CASE k[3] = 0 /\ k[2] # 1
  <2>1. e = find_codec_or_die("h264")
    BY <1>6 DEF Codificador
  <2>2. e = Registry[2]
    BY <2>1, Codificadores, Zenon
  <2>3. e # Copy /\ e # Unknown
    BY <1>4, <2>2, Distintos, Zenon
  <2>4. k # <<1, 1, 0>> /\ ~EsDvb(k)
    BY <1>6 DEF EsDvb
  <2>5. e.codec = "h264" /\ ~e.gpu
    <3> HIDE DEF e
    <3> QED
      BY <2>2, Registrados
  <2> QED
    BY <1>6, <2>3, <2>4, <2>5, Zenon
<1>7. CASE k[3] = 0 /\ k[2] = 1
  <2>1. k = <<1, 1, 0>> /\ ~EsDvb(k)
    BY <1>1, <1>7 DEF EsDvb
  <2>2. CASE ~Custom(c)
    <3>1. e = Copy
      BY <1>7, <2>2 DEF Codificador
    <3> QED
      BY <1>3, <1>7, <2>1, <2>2, <3>1, Zenon
  <2>3. CASE Custom(c)
    <3>1. e = find_codec_or_die(CodecVideo(c))
      BY <1>7, <2>3 DEF Codificador
    <3>2. \/ Nvenc(c) /\ Nombre(c) = "h264" /\ CodecVideo(c) = "h264_nvenc"
          \/ Nvenc(c) /\ Nombre(c) = "hevc" /\ CodecVideo(c) = "hevc_nvenc"
          \/ ~Nvenc(c) /\ CodecVideo(c) = "libx264"
      BY <1>2, <2>3 DEF CodecVideo, ConNvenc
    <3>3. \/ Nvenc(c) /\ Nombre(c) = "h264" /\ e = Registry[4]
          \/ Nvenc(c) /\ Nombre(c) = "hevc" /\ e = Registry[5]
          \/ ~Nvenc(c) /\ e = Registry[2]
      BY <3>1, <3>2, Codificadores, Zenon
    <3>4. e # Copy /\ e # Unknown
      BY <1>4, <3>3, Distintos, Zenon
    <3>5. e.codec = IF ~Nvenc(c) THEN "h264" ELSE Nombre(c)
      <4> HIDE DEF e
      <4> QED
        BY <3>3, Registrados
    <3>6. c.hwaccel => e.gpu
      <4> HIDE DEF e
      <4> QED
        BY <1>3, <3>3, Registrados
    <3> QED
      BY <1>7, <2>1, <2>3, <3>4, <3>5, <3>6, Zenon
  <2> QED
    BY <2>2, <2>3
<1> QED
  BY <1>5, <1>6, <1>7

(* Which of the expected streams cannot be initialised.                    *)
LEMMA InitErrorEs ==
  ASSUME NEW c, Buena(c), NEW k \in Salidas(c), NEW n
  PROVE  (\E s \in Esperadas(c, n, k) : InitError(s)) <=> Rota(c, k)
<1>1. CASE k[1] # 1
  <2>1. \A s \in Esperadas(c, n, k) : s.gpu = FALSE /\ s.baseline = FALSE
    BY <1>1 DEF Esperadas, OtherStream
  <2> QED
    BY <1>1, <2>1 DEF InitError, Rota
<1>2. CASE k[1] = 1
  <2> DEFINE v == VideoDe(c, n, k)
             e == Codificador(c, k)
  <2>1. Esperadas(c, n, k) = {v}
    BY <1>2 DEF Esperadas
  <2>2. v.gpu = c.hwaccel /\ v.baseline = Perfil(c, k) /\ v.enc = e
    BY DEF VideoDe
  <2>3. c.hwaccel => Custom(c) /\ Nvenc(c)
    BY EnLinea DEF Buena
  <2>4. /\ ~Custom(c) /\ k = <<1, 1, 0>> => e = Copy
        /\ \/ ~Custom(c) /\ k = <<1, 1, 0>>
           \/ ~Custom(c) /\ EsDvb(k) /\ c.video = "mpeg2video"
           \/ e # Copy /\ e # Unknown
        /\ Custom(c) => e.codec = IF k[3] = 0 /\ (k[2] # 1 \/ ~Nvenc(c)) THEN "h264" ELSE Nombre(c)
        /\ k[3] = 0 /\ k[2] # 1 => ~e.gpu
        /\ c.hwaccel /\ (k[3] # 0 \/ k[2] = 1) => e.gpu
    BY <1>2, CodificadorEs
  <2> HIDE DEF v, e
  <2>5. (\E s \in Esperadas(c, n, k) : InitError(s)) <=> InitError(v)
    BY <2>1
  <2>6. InitError(v) <=> (Perfil(c, k) /\ e.codec = "hevc") \/ (c.hwaccel /\ e # Copy /\ ~e.gpu)
    BY <2>2, Zenon DEF InitError
  <2>7. (Perfil(c, k) /\ e.codec = "hevc") <=>
          Custom(c) /\ Nvenc(c) /\ Nombre(c) = "hevc" /\ IF k[3] = 0 THEN k[2] = 1 ELSE c.hwaccel
    <3>1. CASE k[3] = 0
      BY <2>4, <3>1 DEF Perfil
    <3>2. CASE k[3] # 0
      BY <2>3, <2>4, <3>2 DEF Perfil
    <3> QED
      BY <3>1, <3>2
  <2>8. (c.hwaccel /\ e # Copy /\ ~e.gpu) <=> c.hwaccel /\ k[3] = 0 /\ k[2] # 1
    BY <2>3, <2>4, Zenon
  <2> QED
    BY <1>2, <2>5, <2>6, <2>7, <2>8, Zenon DEF Rota
<1> QED
  BY <1>1, <1>2

(* A video output is refused just when it is Prohibida.                    *)
LEMMA FatalVideo ==
  ASSUME Buena(cfg), decoder = EntradaCab(cfg), NEW k \in Salidas(cfg), k[1] = 1, k[3] = 0
  PROVE  Fatal(Propias(cfg, k)) <=> Prohibida(cfg, k)
<1>1. k = <<1, k[2], 0>> /\ k[2] \in 1..NB(cfg)
  BY DEF Salidas
<1> DEFINE g == Propias(cfg, k)
           e == Codificador(cfg, k)
<1>2. Mapped(g) = {"video"} /\ LabelMaps(g) = {}
  BY <1>1, MapeadoVideo, Zenon
<1>3. Has(g, "vf") <=> k[2] = 1 /\ cfg.deint /\ ~cfg.hwaccel
  BY <1>1, GrupoVideo, Zenon
<1>4. choose_encoder(g) = e
  <2>1. VideoStream(1, Archivo(cfg, k), g, "video", FALSE) = VideoDe(cfg, 1, k)
    BY <1>1, VideoNuevo, Zenon
  <2>2. VideoStream(1, Archivo(cfg, k), g, "video", FALSE).enc = choose_encoder(g)
    BY DEF VideoStream
  <2>3. VideoDe(cfg, 1, k).enc = e
    BY DEF VideoDe
  <2> QED
    BY <2>1, <2>2, <2>3, Zenon
<1>5. /\ ~Custom(cfg) /\ k = <<1, 1, 0>> => e = Copy
      /\ (~Custom(cfg) /\ k = <<1, 1, 0>>) \/ (e # Copy /\ e # Unknown)
  <2>1. ~EsDvb(k)
    BY DEF EsDvb
  <2> QED
    BY <2>1, CodificadorEs
<1>6. cfg.hwaccel => Custom(cfg)
  BY EnLinea DEF Buena
<1>7. k = <<1, 1, 0>> <=> k[2] = 1
  BY <1>1
<1> HIDE DEF g, e
<1>8. Fatal(g) <=> e = Unknown \/ (e = Copy /\ Has(g, "vf"))
  BY <1>2, <1>4 DEF Fatal
<1>9. Prohibida(cfg, k) <=> ~Custom(cfg) /\ k = <<1, 1, 0>> /\ cfg.deint
  BY DEF Prohibida, EsDvb
<1> QED
  BY <1>3, <1>5, <1>6, <1>7, <1>8, <1>9, Distintos, Zenon DEF g

(* Audio and teletext outputs are never refused.                           *)
LEMMA FatalOtros ==
  ASSUME Buena(cfg), NEW k \in Salidas(cfg), k[1] # 1
  PROVE  ~Fatal(Propias(cfg, k)) /\ ~Prohibida(cfg, k) /\ LabelMaps(Propias(cfg, k)) = {}
<1> DEFINE g == Propias(cfg, k)
<1>1. \/ k = <<2, k[2], 0>> /\ k[2] \in 1..Len(cfg.audio)
      \/ k = <<3, k[2], 0>> /\ k[2] \in 1..NT(cfg)
  BY DEF Salidas
<1>2. /\ LabelMaps(g) = {} /\ ~Has(g, "vf")
      /\ Mapped(g) = {cfg.audio[k[2]]} \/ Mapped(g) = {cfg.audio[1], cfg.subs[k[2]]}
  <2>1. CASE k = <<2, k[2], 0>> /\ k[2] \in 1..Len(cfg.audio)
    BY <2>1, MapeadoAudio, Zenon
  <2>2. CASE k = <<3, k[2], 0>> /\ k[2] \in 1..NT(cfg)
    BY <2>2, MapeadoSubs, Zenon
  <2> QED
    BY <1>1, <2>1, <2>2
<1>3. Mapped(g) # {}
  <2> HIDE DEF g
  <2> QED
    BY <1>2
<1>4. "video" \notin Mapped(g)
  <2>1. Has(g, "vn")
    <3>1. CASE k = <<2, k[2], 0>> /\ k[2] \in 1..Len(cfg.audio)
      BY <3>1, GrupoAudio, Zenon
    <3>2. CASE k = <<3, k[2], 0>> /\ k[2] \in 1..NT(cfg)
      BY <3>2, GrupoSubs, Zenon
    <3> QED
      BY <1>1, <3>1, <3>2
  <2>2. Kind("video") = "video"
    BY Clases DEF Buena
  <2> HIDE DEF g
  <2> QED
    BY <2>1, <2>2 DEF Mapped, Skipped
<1> HIDE DEF g
<1>5. ~Fatal(g)
  BY <1>2, <1>3, <1>4 DEF Fatal
<1>6. ~Prohibida(cfg, k)
  BY DEF Prohibida, EsDvb
<1> QED
  BY <1>2, <1>5, <1>6 DEF g

(* So is a DVB subtitle that has a free pad.                               *)
LEMMA FatalDvb ==
  ASSUME Buena(cfg), decoder = EntradaCab(cfg), NEW k \in Salidas(cfg), EsDvb(k),
         Free(Etiqueta(cfg, k[3])) # {}
  PROVE  Fatal(Propias(cfg, k)) <=> Prohibida(cfg, k)
<1> DEFINE i == k[2]
           j == k[3]
           g == Propias(cfg, k)
           e == Codificador(cfg, k)
           l == Etiqueta(cfg, k[3])
<1>1. k = <<1, i, j>> /\ k[1] = 1 /\ i \in 1..NB(cfg) /\ j \in 1..ND(cfg)
  <2>1. k[1] = 1 /\ k[3] > 0
    BY DEF EsDvb
  <2> QED
    BY <2>1, FormaClave DEF Claves
<1>2. Maps(g) = {} /\ LabelMaps(g) = {l} /\ ~Has(g, "vf")
  <2>1. k = <<1, i, j>>
    BY <1>1
  <2> HIDE DEF i, j
  <2>2. Maps(Propias(cfg, <<1, i, j>>)) = {} /\ LabelMaps(Propias(cfg, <<1, i, j>>)) = {Etiqueta(cfg, j)}
        /\ ~Has(Propias(cfg, <<1, i, j>>), "vf")
    BY <1>1, GrupoDvb, Zenon
  <2> QED
    BY <2>1, <2>2, Zenon DEF j
<1>3. choose_encoder(g) = e
  <2>1. VideoStream(1, Archivo(cfg, k), g, cfg.subs[j], TRUE) = VideoDe(cfg, 1, k)
    <3> HIDE DEF i, j
    <3>1. VideoStream(1, Archivo(cfg, <<1, i, j>>), Propias(cfg, <<1, i, j>>), cfg.subs[j], TRUE)
            = VideoDe(cfg, 1, <<1, i, j>>)
      BY <1>1, DvbNuevo, Zenon
    <3> QED
      BY <1>1, <3>1, Zenon
  <2>2. VideoStream(1, Archivo(cfg, k), g, cfg.subs[j], TRUE).enc = choose_encoder(g)
    BY DEF VideoStream
  <2>3. VideoDe(cfg, 1, k).enc = e
    BY DEF VideoDe
  <2> QED
    BY <2>1, <2>2, <2>3, Zenon
<1>4. k # <<1, 1, 0>>
  BY DEF EsDvb
<1>5. /\ ~Custom(cfg) /\ cfg.video = "mpeg2video" => e = Unknown
      /\ (~Custom(cfg) /\ cfg.video = "mpeg2video") \/ (e # Copy /\ e # Unknown)
  BY <1>1, <1>4, CodificadorEs
<1>6. Free(l) # {}
  OBVIOUS
<1> HIDE DEF g, e, l
<1>7. Mapped(g) = {}
  BY <1>2 DEF Mapped
<1>8. Fatal(g) <=> e = Unknown \/ e = Copy
  BY <1>2, <1>3, <1>6, <1>7 DEF Fatal
<1>9. Prohibida(cfg, k) <=> ~Custom(cfg) /\ cfg.video = "mpeg2video"
  BY <1>4 DEF Prohibida
<1> QED
  BY <1>5, <1>8, <1>9, Zenon DEF g

(* SetToSeq lists the elements of a finite set.                            *)
LEMMA DeConjunto ==
  ASSUME NEW S, IsFiniteSet(S)
  PROVE  /\ SetToSeq(S) \in Seq(S)
         /\ {SetToSeq(S)[i] : i \in 1..Len(SetToSeq(S))} = S
<1> DEFINE n == Cardinality(S)
           f == SetToSeq(S)
<1>1. n \in Nat /\ ExistsBijection(1..n, S)
  BY FS_CardinalityType
<1>2. \E h \in [1..n -> S] : IsInjective(h)
  BY <1>1 DEF ExistsBijection, Bijection, Injection
<1>3. f \in [1..n -> S] /\ IsInjective(f)
  BY <1>2, Zenon DEF SetToSeq
<1> HIDE DEF f
<1>4. f \in Injection(1..n, S)
  BY <1>3, Zenon DEF Injection
<1>5. IsFiniteSet(1..n) /\ Cardinality(1..n) = n
  <2>1. 0 \in Int /\ n \in Int
    BY <1>1
  <2> HIDE DEF n
  <2> QED
    BY <1>1, FS_Interval
<1>6. f \in Surjection(1..n, S)
  BY <1>4, <1>5, FS_Injection
<1>7. \A x \in S : \E i \in 1..n : f[i] = x
  BY <1>6 DEF Surjection
<1>8. f \in Seq(S) /\ Len(f) = n
  <2> HIDE DEF n
  <2> QED
    BY <1>1, <1>3
<1>9. {f[i] : i \in 1..n} = S
  <2> HIDE DEF n
  <2> QED
    BY <1>3, <1>7
<1> QED
  BY <1>8, <1>9, Zenon DEF f

-----------------------------------------------------------------------------
(* The inductive invariant: while the list is split, the walk is at a key  *)
(* k, with the options before the file partly moved to the current group,  *)
(* the groups of the outputs before k done, and the pads of the graphs     *)
(* before k owned by the outputs they were written for.                    *)

Grupo(c, n, k) == [n |-> n, file |-> Archivo(c, k), opts |-> Propias(c, k)]

Orden(c, ok) ==
  /\ ok \in Seq(Salidas(c))
  /\ \A m, n \in 1..Len(ok) : m < n => Menor(ok[m], ok[n])

Hasta(c, ok, k) ==
  /\ \A m \in 1..Len(ok) : Menor(ok[m], k)
  /\ \A l \in Salidas(c) : Menor(l, k) => \E m \in 1..Len(ok) : ok[m] = l

Dvb(c) == {l \in Salidas(c) : EsDvb(l)}

(* The output that the graph of l is written before.                       *)
Portador(c, l) == IF c.hwaccel THEN <<1, l[2], 1>> ELSE l

Creada(c, k, p, l) == Menor(Portador(c, l), k) \/ (Portador(c, l) = k /\ ~p)

(* po[q] owns the pad q.  Pads of one label are in the order of owners.    *)
Etiquetas(c, po) ==
  \A q \in Pads : /\ graphs[q[1]][q[2]].label = Etiqueta(c, po[q][3])
                  /\ graphs[q[1]][q[2]].lang = c.subs[po[q][3]]

EnOrden(c, po) ==
  \A q, r \in Pads : q # r /\ Before(q, r) /\ Etiqueta(c, po[q][3]) = Etiqueta(c, po[r][3]) =>
    Menor(po[q], po[r])

Duenos(c, po) ==
  /\ graphs \in Seq(Grafo)
  /\ po \in [Pads -> Dvb(c)]
  /\ Etiquetas(c, po)
  /\ EnOrden(c, po)

Creadas(c, k, p, po) == \A l \in Dvb(c) : Creada(c, k, p, l) <=> \E q \in Pads : po[q] = l

(* The graph still to come, if p, the options still to come, and the rest. *)
Cola(c, k, p, post) ==
  When(p, <<Opt("filter_complex", GrafoDe(c, k))>>) \o (post \o (Cierre(c, k) \o Resto(c, k)))

Partida(c, k, p, pre, post) ==
  /\ k \in Claves(c) /\ p \in BOOLEAN /\ (p => TieneGrafo(c, k))
  /\ pre \in Seq(Local) /\ post \in Seq(Local) /\ pre \o post = Propias(c, k)
  /\ cur = pre
  /\ argv = Cola(c, k, p, post)
  /\ decoder = IF k = Primera THEN <<>> ELSE EntradaCab(c)

Hechas(c, ok) == outs = [m \in 1..Len(ok) |-> Grupo(c, m, ok[m])]

CortadoCon(k, p, pre, post, ok, po) ==
  /\ Partida(cfg, k, p, pre, post)
  /\ Orden(cfg, ok) /\ Hasta(cfg, ok, k) /\ Hechas(cfg, ok)
  /\ Duenos(cfg, po) /\ Creadas(cfg, k, p, po)

Cortado == \E k, p, pre, post, ok, po : CortadoCon(k, p, pre, post, ok, po)

Emitidas(c, ok, o) == UNION {Esperadas(c, n, ok[n]) : n \in 1..o}

(* While the outputs are opened, the first o of them have what they are    *)
(* expected to and no other pad is taken than theirs.                      *)
AbiertoCon(ok, po, o) ==
  /\ Orden(cfg, ok) /\ \A l \in Salidas(cfg) : \E m \in 1..Len(ok) : ok[m] = l
  /\ Duenos(cfg, po) /\ \A l \in Dvb(cfg) : \E q \in Pads : po[q] = l
  /\ o \in 0..Len(ok)
  /\ outs = [m \in 1..(Len(ok) - o) |-> Grupo(cfg, m + o, ok[m + o])]
  /\ decoder = EntradaCab(cfg)
  /\ used = {q \in Pads : \E n \in 1..o : ok[n] = po[q]}
  /\ \E X : streams \in Seq(X)
  /\ AllStreams = Emitidas(cfg, ok, o)
  /\ \A n \in 1..o : ~Prohibida(cfg, ok[n])
  /\ stage = "fatal" => \/ o < Len(ok) /\ Prohibida(cfg, ok[o + 1])
                       \/ \E n \in 1..o : Rota(cfg, ok[n])
  /\ stage \in {"init", "ok"} => o = Len(ok)
  /\ stage = "ok" => \A n \in 1..o : ~Rota(cfg, ok[n])

Abierto == \E ok, po, o : AbiertoCon(ok, po, o)

Antes ==
  /\ argv = <<>> /\ cur = <<>> /\ outs = <<>> /\ decoder = <<>> /\ graphs = <<>>
  /\ used = {} /\ streams = <<>>

IInv ==
  /\ cfg \in Configs
  /\ \/ stage \in {"go", "panic"} /\ Antes
     \/ stage = "split" /\ Buena(cfg) /\ used = {} /\ streams = <<>> /\ Cortado
     \/ stage \in {"open", "init", "ok", "fatal"} /\ Buena(cfg) /\ argv = <<>> /\ cur = <<>> /\ Abierto

(* The invariant holds at the start.                                       *)
LEMMA InitInv == Init => IInv
  BY DEF Init, IInv, Antes

(* The order of the keys.                                                  *)
LEMMA MenorEs ==
  ASSUME NEW c, Buena(c), NEW k \in Claves(c), NEW l \in Claves(c), NEW m \in Claves(c)
  PROVE  /\ ~Menor(k, k)
         /\ Menor(k, l) /\ Menor(l, m) => Menor(k, m)
         /\ Menor(k, l) => ~Menor(l, k) /\ k # l
         /\ k = l \/ Menor(k, l) \/ Menor(l, k)
         /\ k # Primera => Menor(Primera, k)
         /\ k # Ultima => Menor(k, Ultima)
         /\ ~Menor(k, Primera) /\ ~Menor(Ultima, k)
<1>1. /\ k \in (0..4) \X Nat \X Nat /\ l \in (0..4) \X Nat \X Nat /\ m \in (0..4) \X Nat \X Nat
      /\ k[1] = 0 => k = Primera
      /\ k[1] = 4 => k = Ultima
  BY FormaClave
<1>2. ~Menor(k, k) /\ (Menor(k, l) /\ Menor(l, m) => Menor(k, m)) /\ (Menor(k, l) => ~Menor(l, k))
  BY <1>1 DEF Menor
<1>3. k = l \/ Menor(k, l) \/ Menor(l, k)
  BY <1>1 DEF Menor
<1>4. /\ k # Primera => Menor(Primera, k)
      /\ k # Ultima => Menor(k, Ultima)
      /\ ~Menor(k, Primera) /\ ~Menor(Ultima, k)
  BY <1>1 DEF Menor, Primera, Ultima
<1> QED
  BY <1>2, <1>3, <1>4

(* The first argument and the rest.                                        *)
LEMMA Cabeza ==
  ASSUME NEW x \in Arg, NEW y \in Seq(Arg)
  PROVE  Head(<<x>> \o y) = x /\ Tail(<<x>> \o y) = y /\ <<x>> \o y # <<>>
  OBVIOUS

(* The same when the first arguments are options.                          *)
LEMMA CabezaDe ==
  ASSUME NEW post \in Seq(Local), post # <<>>, NEW y \in Seq(Arg), NEW pre \in Seq(Local)
  PROVE  /\ Head(post) \in Local /\ Tail(post) \in Seq(Local)
         /\ Head(post \o y) = Head(post) /\ Tail(post \o y) = Tail(post) \o y
         /\ post \o y # <<>>
         /\ Append(pre, Head(post)) \o Tail(post) = pre \o post
         /\ Append(pre, Head(post)) \in Seq(Local)
<1> DEFINE h == Head(post)
           t == Tail(post)
           s == <<h>>
<1>1. h \in Local /\ t \in Seq(Local) /\ post = s \o t
  OBVIOUS
<1> HIDE DEF h, t
<1>2. h \in Arg /\ t \in Seq(Arg) /\ s \in Seq(Local)
  <2>1. h \in Arg /\ t \in Seq(Arg)
    BY <1>1, TiposArg, SeqMono, Zenon
  <2> QED
    BY <1>1, <2>1
<1>3. Append(pre, h) = pre \o s /\ Append(pre, h) \in Seq(Local)
  BY <1>1
<1>4. s \in Seq(Arg)
  BY <1>2
<1>5. t \o y \in Seq(Arg)
  BY <1>2, Junta, Zenon
<1>6. Head(s \o (t \o y)) = h /\ Tail(s \o (t \o y)) = t \o y /\ s \o (t \o y) # <<>>
  <2> DEFINE z == t \o y
  <2>1. z \in Seq(Arg)
    BY <1>5
  <2> HIDE DEF z
  <2>2. Head(s \o z) = h /\ Tail(s \o z) = z /\ s \o z # <<>>
    BY <1>2, <2>1, Cabeza
  <2> QED
    BY <2>2 DEF z
<1> HIDE DEF s
<1>7. Agrupa(s, t, y) /\ Agrupa(pre, s, t)
  BY <1>1, <1>2, <1>4, Asoc, Zenon
<1>8. post \o y = s \o (t \o y)
  BY <1>1, <1>7, Zenon DEF Agrupa
<1>9. Append(pre, h) \o t = pre \o post
  BY <1>1, <1>3, <1>7, Zenon DEF Agrupa
<1> QED
  BY <1>1, <1>3, <1>6, <1>8, <1>9, Zenon DEF h, t

(* The key whose graph has the pad of a DVB subtitle.                      *)
LEMMA PortadorEs ==
  ASSUME NEW c, Buena(c), NEW l \in Dvb(c)
  PROVE  /\ Portador(c, l) \in Dvb(c) /\ Portador(c, l) \in Salidas(c) /\ Portador(c, l) \in Claves(c)
         /\ TieneGrafo(c, Portador(c, l)) /\ l \in Claves(c) /\ l \in Salidas(c)
         /\ Portador(c, l) # Primera /\ Portador(c, l) # Ultima
         /\ Portador(c, l)[2] = l[2]
         /\ Portador(c, l)[3] = (IF c.hwaccel THEN 1 ELSE l[3])
<1>1. l \in Claves(c) /\ l \in Salidas(c) /\ l[1] = 1 /\ l[3] > 0
  BY DEF Dvb, Claves, EsDvb
<1>2. /\ l[2] \in 1..NB(c) /\ l[3] \in 1..ND(c) /\ ND(c) \in Nat
  BY <1>1, FormaClave
<1>3. <<1, l[2], 1>> \in Salidas(c)
  BY <1>2 DEF Salidas
<1>4. Portador(c, l) \in Dvb(c)
  BY <1>1, <1>3 DEF Portador, Dvb, EsDvb
<1>5. TieneGrafo(c, Portador(c, l)) /\ Portador(c, l) # Primera /\ Portador(c, l) # Ultima
  BY <1>1 DEF Portador, TieneGrafo, EsDvb, Primera, Ultima
<1>6. Portador(c, l)[2] = l[2] /\ Portador(c, l)[3] = (IF c.hwaccel THEN 1 ELSE l[3])
  BY DEF Portador
<1> QED
  BY <1>1, <1>4, <1>5, <1>6 DEF Dvb, Claves

(* Without graphs there are no pads.                                       *)
LEMMA SinPads ==
  ASSUME graphs = <<>>
  PROVE  \E po : Pads = {} /\ \A c : Duenos(c, po)
<1> DEFINE po == [q \in {} |-> 0]
<1>1. Pads = {}
  BY DEF Pads
<1>2. graphs \in Seq(Grafo)
  <2>1. <<>> \in Seq(Grafo)
    OBVIOUS
  <2> QED
    BY <2>1
<1>3. \A c : po \in [Pads -> Dvb(c)]
  BY <1>1
<1>4. \A c : Etiquetas(c, po) /\ EnOrden(c, po)
  BY <1>1 DEF Etiquetas, EnOrden
<1> HIDE DEF po
<1> QED
  BY <1>1, <1>2, <1>3, <1>4, Zenon DEF Duenos

(* The owners of the pads depend on the graphs alone.                      *)
LEMMA DuenosIgual ==
  ASSUME graphs' = graphs
  PROVE  /\ Pads' = Pads
         /\ \A c, po : Duenos(c, po)' <=> Duenos(c, po)
         /\ \A c, k, p, po : Creadas(c, k, p, po)' <=> Creadas(c, k, p, po)
<1>1. Pads' = Pads
  BY Zenon DEF Pads
<1>2. ASSUME NEW c, NEW po
      PROVE  /\ Duenos(c, po)' <=> Duenos(c, po)
             /\ \A k, p : Creadas(c, k, p, po)' <=> Creadas(c, k, p, po)
  <2>1. Etiquetas(c, po)' <=> Etiquetas(c, po)
    BY <1>1, Zenon DEF Etiquetas
  <2>2. EnOrden(c, po)' <=> EnOrden(c, po)
    BY <1>1, Zenon DEF EnOrden
  <2>3. \A k, p : Creadas(c, k, p, po)' <=> Creadas(c, k, p, po)
    BY <1>1, Zenon DEF Creadas
  <2> QED
    BY <1>1, <2>1, <2>2, <2>3, Zenon DEF Duenos
<1> QED
  BY <1>1, <1>2, Zenon

(* Before the first output nothing is done.                                *)
LEMMA Nada ==
  ASSUME NEW c, Buena(c)
  PROVE  /\ Orden(c, <<>>) /\ Hasta(c, <<>>, Primera)
         /\ outs = <<>> => Hechas(c, <<>>)
         /\ \A l \in Dvb(c) : ~Creada(c, Primera, FALSE, l)
<1>1. Orden(c, <<>>)
  BY DEF Orden
<1>2. \A l \in Salidas(c) : ~Menor(l, Primera)
  <2> TAKE l \in Salidas(c)
  <2>1. l \in Claves(c) /\ Primera \in Claves(c)
    BY Zenon DEF Claves
  <2> QED
    BY <2>1, MenorEs, Zenon
<1>3. Hasta(c, <<>>, Primera)
  BY <1>2 DEF Hasta
<1>4. outs = <<>> => Hechas(c, <<>>)
  BY DEF Hechas
<1>5. \A l \in Dvb(c) : ~Creada(c, Primera, FALSE, l)
  <2> TAKE l \in Dvb(c)
  <2>1. Portador(c, l) \in Salidas(c) /\ Portador(c, l) # Primera
    BY PortadorEs, Zenon
  <2> QED
    BY <1>2, <2>1, Zenon DEF Creada
<1> QED
  BY <1>1, <1>3, <1>4, <1>5, Zenon

(* Generar starts the walk at the input.                                   *)
LEMMA GenerarInv == IInv /\ Generar => IInv'
<1> SUFFICES ASSUME IInv, Generar
             PROVE  IInv'
  OBVIOUS
<1> USE DEF Generar
<1>1. /\ stage = "go" /\ Antes /\ cfg \in Configs /\ cfg' = cfg
      /\ UNCHANGED <<cur, outs, decoder, graphs, used, streams>>
  BY DEF IInv
<1>2. CASE Revienta(cfg)
  <2>1. stage' = "panic" /\ argv' = argv
    BY <1>2
  <2> QED
    BY <1>1, <2>1 DEF IInv, Antes
<1>3. CASE ~Revienta(cfg)
  <2>1. Buena(cfg)
    BY <1>1, <1>3, ConfigsAssumption, Zenon DEF Buena
  <2>2. stage' = "split" /\ argv' = Todo(cfg, Primera)
    BY <1>3, <2>1, Empieza, Zenon
  <2>3. PICK po : Pads = {} /\ \A c : Duenos(c, po)
    BY <1>1, SinPads, Zenon DEF Antes
  <2>4. Duenos(cfg, po)' /\ Creadas(cfg, Primera, FALSE, po)'
    <3>1. Duenos(cfg, po) /\ Creadas(cfg, Primera, FALSE, po)
      BY <2>1, <2>3, Nada, Zenon DEF Creadas
    <3> QED
      BY <1>1, <3>1, DuenosIgual, Zenon
  <2>5. Orden(cfg, <<>>) /\ Hasta(cfg, <<>>, Primera) /\ Hechas(cfg, <<>>)
    BY <1>1, <2>1, Nada, Zenon DEF Antes
  <2>6. Orden(cfg, <<>>)' /\ Hasta(cfg, <<>>, Primera)' /\ Hechas(cfg, <<>>)'
    BY <1>1, <2>5 DEF Hechas
  <2>7. Partida(cfg, Primera, FALSE, <<>>, Propias(cfg, Primera))'
    <3> DEFINE P == Propias(cfg, Primera)
    <3>1. Primera \in Claves(cfg) /\ P \in Seq(Local) /\ <<>> \in Seq(Local)
      BY <2>1, EsClave, PropiasTipo
    <3>2. <<>> \o P = P
      BY <3>1, Vacia, Zenon
    <3>3. ~TieneGrafo(cfg, Primera)
      BY DEF TieneGrafo, EsDvb, Primera
    <3>4. argv' = Cola(cfg, Primera, FALSE, P)
      BY <2>2, <3>3, Zenon DEF Todo, Cola, GrafoSi, When
    <3>5. cur' = <<>> /\ decoder' = <<>>
      BY <1>1 DEF Antes
    <3> HIDE DEF P
    <3>6. Partida(cfg, Primera, FALSE, <<>>, P)'
      <4>1. P' = P
        BY <1>1 DEF P
      <4> QED
        BY <1>1, <3>1, <3>2, <3>4, <3>5, <4>1, Zenon DEF P, Partida
    <3> QED
      BY <3>6 DEF P
  <2>8. CortadoCon(Primera, FALSE, <<>>, Propias(cfg, Primera), <<>>, po)'
    BY <2>4, <2>6, <2>7, Zenon DEF CortadoCon
  <2>9. Cortado'
    BY <2>8, Zenon DEF Cortado
  <2>10. used' = {} /\ streams' = <<>> /\ Buena(cfg)'
    BY <1>1, <2>1 DEF Antes
  <2> QED
    BY <1>1, <2>2, <2>9, <2>10, Zenon DEF IInv
<1> QED
  BY <1>2, <1>3

(* What the next argument is.                                              *)
LEMMA ColaGrafo ==
  ASSUME NEW c, Buena(c), NEW k \in Claves(c), TieneGrafo(c, k), NEW post \in Seq(Local)
  PROVE  /\ Head(Cola(c, k, TRUE, post)) = Opt("filter_complex", GrafoDe(c, k))
         /\ Tail(Cola(c, k, TRUE, post)) = Cola(c, k, FALSE, post)
         /\ Cola(c, k, TRUE, post) # <<>>
<1> DEFINE x == Opt("filter_complex", GrafoDe(c, k))
           y == post \o (Cierre(c, k) \o Resto(c, k))
<1>1. x \in Arg
  <2>1. EsDvb(k)
    BY DEF TieneGrafo
  <2> QED
    BY <2>1, GrafoTipo, TiposArg, Zenon
<1>2. y \in Seq(Arg)
  <2>1. Cierre(c, k) \in Seq(Arg) /\ Resto(c, k) \in Seq(Arg) /\ post \in Seq(Arg)
    BY CierreTipo, RestoTipo, TiposArg, SeqMono, Zenon
  <2>2. Cierre(c, k) \o Resto(c, k) \in Seq(Arg)
    BY <2>1, Junta, Zenon
  <2> QED
    BY <2>1, <2>2, Junta, Zenon
<1>3. Cola(c, k, TRUE, post) = <<x>> \o y /\ Cola(c, k, FALSE, post) = <<>> \o y
  BY DEF Cola, When
<1> HIDE DEF x, y
<1>4. <<>> \o y = y
  BY <1>2, Vacia, Zenon
<1>5. Head(<<x>> \o y) = x /\ Tail(<<x>> \o y) = y /\ <<x>> \o y # <<>>
  BY <1>1, <1>2, Cabeza
<1>6. /\ Head(Cola(c, k, TRUE, post)) = x
      /\ Tail(Cola(c, k, TRUE, post)) = Cola(c, k, FALSE, post)
      /\ Cola(c, k, TRUE, post) # <<>>
  BY <1>3, <1>4, <1>5, Zenon
<1> QED
  BY <1>6 DEF x

(* The next argument, when an option of the group is left.                 *)
LEMMA ColaOpcion ==
  ASSUME NEW c, Buena(c), NEW k \in Claves(c), NEW post \in Seq(Local), post # <<>>
  PROVE  /\ Head(Cola(c, k, FALSE, post)) = Head(post) /\ Head(post) \in Local
         /\ Tail(Cola(c, k, FALSE, post)) = Cola(c, k, FALSE, Tail(post))
         /\ Cola(c, k, FALSE, post) # <<>>
<1> DEFINE y == Cierre(c, k) \o Resto(c, k)
<1>1. y \in Seq(Arg)
  <2>1. Cierre(c, k) \in Seq(Arg) /\ Resto(c, k) \in Seq(Arg)
    BY CierreTipo, RestoTipo, Zenon
  <2> QED
    BY <2>1, Junta, Zenon
<1>2. \A z : Cola(c, k, FALSE, z) = <<>> \o (z \o y)
  BY DEF Cola, When
<1> HIDE DEF y
<1>3. /\ Head(post) \in Local /\ Tail(post) \in Seq(Local)
      /\ Head(post \o y) = Head(post) /\ Tail(post \o y) = Tail(post) \o y
      /\ post \o y # <<>>
  <2>1. <<>> \in Seq(Local)
    OBVIOUS
  <2> QED
    BY <1>1, <2>1, CabezaDe
<1>4. \A z \in Seq(Local) : <<>> \o (z \o y) = z \o y
  <2> TAKE z \in Seq(Local)
  <2>1. z \in Seq(Arg)
    BY TiposArg, SeqMono, Zenon
  <2>2. z \o y \in Seq(Arg)
    BY <1>1, <2>1, Junta, Zenon
  <2> QED
    BY <2>2, Vacia, Zenon
<1>5. Cola(c, k, FALSE, post) = post \o y /\ Cola(c, k, FALSE, Tail(post)) = Tail(post) \o y
  <2>1. Cola(c, k, FALSE, post) = post \o y
    BY <1>2, <1>4, Zenon
  <2> DEFINE t == Tail(post)
  <2>2. t \in Seq(Local)
    BY <1>3
  <2> HIDE DEF t
  <2>3. Cola(c, k, FALSE, t) = t \o y
    BY <1>2, <1>4, <2>2, Zenon
  <2> QED
    BY <2>1, <2>3 DEF t
<1> QED
  BY <1>3, <1>5, Zenon

(* The next argument, when none is left.                                   *)
LEMMA ColaFichero ==
  ASSUME NEW c, Buena(c), NEW k \in Claves(c)
  PROVE  /\ k = Primera => /\ Head(Cola(c, k, FALSE, <<>>)) = Input
                           /\ Tail(Cola(c, k, FALSE, <<>>)) = Resto(c, k)
                           /\ Cola(c, k, FALSE, <<>>) # <<>>
         /\ k \in Salidas(c) => /\ Head(Cola(c, k, FALSE, <<>>)) = Archivo(c, k)
                                /\ Tail(Cola(c, k, FALSE, <<>>)) = Resto(c, k)
                                /\ Cola(c, k, FALSE, <<>>) # <<>>
         /\ k = Ultima => Cola(c, k, FALSE, <<>>) = <<>>
<1> DEFINE r == Resto(c, k)
           y == Cierre(c, k) \o r
<1>1. r \in Seq(Arg) /\ Cierre(c, k) \in Seq(Arg)
  BY CierreTipo, RestoTipo, Zenon
<1>2. y \in Seq(Arg)
  BY <1>1, Junta, Zenon
<1>3. Cola(c, k, FALSE, <<>>) = y
  <2>1. Cola(c, k, FALSE, <<>>) = <<>> \o (<<>> \o y)
    BY DEF Cola, When
  <2> HIDE DEF y
  <2>2. <<>> \o y = y
    BY <1>2, Vacia, Zenon
  <2> QED
    BY <2>1, <2>2, Zenon
<1> HIDE DEF r
<1>4. \A x \in Arg : Head(<<x>> \o r) = x /\ Tail(<<x>> \o r) = r /\ <<x>> \o r # <<>>
  BY <1>1, Cabeza
<1>5. ASSUME k = Primera
      PROVE  Head(y) = Input /\ Tail(y) = r /\ y # <<>>
  <2>1. Cierre(c, k) = <<Input>> /\ Input \in Arg
    BY <1>5, CierreTipo, TiposArg, Zenon
  <2> QED
    BY <1>4, <2>1, Zenon
<1>6. ASSUME k \in Salidas(c)
      PROVE  Head(y) = Archivo(c, k) /\ Tail(y) = r /\ y # <<>>
  <2>1. Cierre(c, k) = <<Archivo(c, k)>> /\ Archivo(c, k) \in Arg
    BY <1>6, CierreTipo, TiposArg, Zenon
  <2> QED
    BY <1>4, <2>1, Zenon
<1>7. ASSUME k = Ultima
      PROVE  y = <<>>
  <2>1. Cierre(c, k) = <<>>
    BY <1>7, CierreTipo, Zenon
  <2>2. r = <<>>
    BY <1>7 DEF r, Resto, Ultima
  <2> QED
    BY <2>1, <2>2
<1> HIDE DEF y
<1> QED
  BY <1>3, <1>5, <1>6, <1>7, Zenon DEF r

EnGrafo(c, k, p, post) ==
  /\ p = TRUE /\ TieneGrafo(c, k) /\ argv # <<>> /\ Tail(argv) = Cola(c, k, FALSE, post)
  /\ Head(argv).t = "opt" /\ Head(argv).o = "filter_complex" /\ Head(argv).v = GrafoDe(c, k)

EnOpcion(c, k, p, post) ==
  /\ p = FALSE /\ post # <<>> /\ argv # <<>> /\ Tail(argv) = Cola(c, k, FALSE, Tail(post))
  /\ Head(argv) = Head(post) /\ Head(argv).t = "opt" /\ Head(argv).o # "filter_complex"

EnEntrada(c, k, p, pre, post) ==
  /\ p = FALSE /\ post = <<>> /\ pre = Propias(c, k) /\ argv # <<>> /\ Tail(argv) = Resto(c, k)
  /\ k = Primera /\ Head(argv).t = "in"

EnSalida(c, k, p, pre, post) ==
  /\ p = FALSE /\ post = <<>> /\ pre = Propias(c, k) /\ argv # <<>> /\ Tail(argv) = Resto(c, k)
  /\ k \in Salidas(c) /\ Head(argv) = Archivo(c, k) /\ Head(argv).t = "out"

EnFin(c, k, p, pre, post) ==
  p = FALSE /\ post = <<>> /\ pre = <<>> /\ k = Ultima /\ argv = <<>>

(* The walk is before a graph, an option, the input, a file or the end.    *)
LEMMA Situacion ==
  ASSUME NEW c, Buena(c), NEW k, NEW p, NEW pre, NEW post, Partida(c, k, p, pre, post)
  PROVE  \/ EnGrafo(c, k, p, post) \/ EnOpcion(c, k, p, post) \/ EnEntrada(c, k, p, pre, post)
         \/ EnSalida(c, k, p, pre, post) \/ EnFin(c, k, p, pre, post)
<1>1. /\ k \in Claves(c) /\ p \in BOOLEAN /\ (p => TieneGrafo(c, k))
      /\ pre \in Seq(Local) /\ post \in Seq(Local) /\ pre \o post = Propias(c, k)
      /\ argv = Cola(c, k, p, post)
  BY DEF Partida
<1>2. ASSUME p = TRUE
      PROVE  EnGrafo(c, k, p, post)
  <2>1. TieneGrafo(c, k) /\ argv = Cola(c, k, TRUE, post)
    BY <1>1, <1>2
  <2>2. /\ Head(argv) = Opt("filter_complex", GrafoDe(c, k)) /\ argv # <<>>
        /\ Tail(argv) = Cola(c, k, FALSE, post)
    BY <1>1, <2>1, ColaGrafo, Zenon
  <2>3. Head(argv).t = "opt" /\ Head(argv).o = "filter_complex" /\ Head(argv).v = GrafoDe(c, k)
    BY <2>2 DEF Opt
  <2> QED
    BY <1>2, <2>1, <2>2, <2>3, Zenon DEF EnGrafo
<1>3. ASSUME p = FALSE, post # <<>>
      PROVE  EnOpcion(c, k, p, post)
  <2>1. /\ Head(argv) = Head(post) /\ Head(post) \in Local /\ argv # <<>>
        /\ Tail(argv) = Cola(c, k, FALSE, Tail(post))
    BY <1>1, <1>3, ColaOpcion
  <2>2. Head(argv).t = "opt" /\ Head(argv).o # "filter_complex"
    BY <2>1 DEF Local, Propios
  <2> QED
    BY <1>3, <2>1, <2>2, Zenon DEF EnOpcion
<1>4. ASSUME p = FALSE, post = <<>>
      PROVE  EnEntrada(c, k, p, pre, post) \/ EnSalida(c, k, p, pre, post) \/ EnFin(c, k, p, pre, post)
  <2>1. pre = Propias(c, k)
    BY <1>1, <1>4
  <2>2. argv = Cola(c, k, FALSE, <<>>)
    BY <1>1, <1>4
  <2>3. CASE k = Primera
    <3>1. Head(argv) = Input /\ argv # <<>> /\ Tail(argv) = Resto(c, k)
      BY <1>1, <2>2, <2>3, ColaFichero, Zenon
    <3>2. Head(argv).t = "in"
      BY <3>1 DEF Input
    <3> QED
      BY <1>4, <2>1, <2>3, <3>1, <3>2, Zenon DEF EnEntrada
  <2>4. CASE k \in Salidas(c)
    <3>1. Head(argv) = Archivo(c, k) /\ argv # <<>> /\ Tail(argv) = Resto(c, k)
      BY <1>1, <2>2, <2>4, ColaFichero, Zenon
    <3>2. Head(argv).t = "out"
      <4>1. Archivo(c, k) \in Salida
        BY <2>4, ArchivoTipo, Zenon
      <4> QED
        BY <3>1, <4>1 DEF Salida
    <3> QED
      BY <1>4, <2>1, <2>4, <3>1, <3>2, Zenon DEF EnSalida
  <2>5. CASE k = Ultima
    <3>1. argv = <<>>
      BY <1>1, <2>2, <2>5, ColaFichero, Zenon
    <3>2. pre = <<>>
      BY <1>1, <2>1, <2>5, CierreTipo, Zenon
    <3> QED
      BY <1>4, <2>5, <3>1, <3>2, Zenon DEF EnFin
  <2> QED
    BY <1>1, <2>3, <2>4, <2>5, Zenon DEF Claves
<1> QED
  BY <1>1, <1>2, <1>3, <1>4, Zenon

(* AddOpt with an option of the group.                                     *)
LEMMA OpcionInv ==
  ASSUME IInv, AddOpt, NEW k, NEW p, NEW pre, NEW post, NEW ok, NEW po, Buena(cfg),
         CortadoCon(k, p, pre, post, ok, po), EnOpcion(cfg, k, p, post)
  PROVE  Cortado'
<1> DEFINE pre2 == Append(pre, Head(post))
           post2 == Tail(post)
<1>1. /\ p = FALSE /\ post # <<>> /\ Tail(argv) = Cola(cfg, k, FALSE, post2)
      /\ Head(argv) = Head(post) /\ ~Global(Head(argv).o)
  BY DEF EnOpcion, Global
<1>2. /\ argv' = Tail(argv) /\ cur' = Append(cur, Head(argv)) /\ graphs' = graphs
      /\ cfg' = cfg /\ outs' = outs /\ decoder' = decoder
  BY <1>1 DEF AddOpt
<1>3. Partida(cfg, k, p, pre, post) /\ Orden(cfg, ok) /\ Hasta(cfg, ok, k) /\ Hechas(cfg, ok)
  BY DEF CortadoCon
<1>4. post \in Seq(Local) /\ pre \in Seq(Local)
  BY <1>3 DEF Partida
<1>5. post2 \in Seq(Local) /\ pre2 \in Seq(Local) /\ pre2 \o post2 = pre \o post
  <2>1. <<>> \in Seq(Arg)
    OBVIOUS
  <2> QED
    BY <1>1, <1>4, <2>1, CabezaDe
<1>6. cur' = pre2
  BY <1>1, <1>2, <1>3 DEF Partida
<1> HIDE DEF pre2, post2
<1>7. Partida(cfg, k, FALSE, pre2, post2)'
  BY <1>1, <1>2, <1>3, <1>5, <1>6, Zenon DEF Partida
<1>8. Orden(cfg, ok)' /\ Hasta(cfg, ok, k)' /\ Hechas(cfg, ok)'
  BY <1>2, <1>3 DEF Hechas
<1>9. Duenos(cfg, po)' /\ Creadas(cfg, k, FALSE, po)'
  BY <1>1, <1>2, DuenosIgual, Zenon DEF CortadoCon
<1>10. CortadoCon(k, FALSE, pre2, post2, ok, po)'
  BY <1>7, <1>8, <1>9, Zenon DEF CortadoCon
<1> QED
  BY <1>10, Zenon DEF Cortado

(* The walk goes on to the next key.                                       *)
LEMMA Avanza ==
  ASSUME NEW c, Buena(c), NEW k \in Claves(c), NEW l, Sigue(c, k, l), Resto(c, k) = Todo(c, l)
  PROVE  /\ l \in Claves(c) /\ l # Primera
         /\ Resto(c, k) = Cola(c, l, TieneGrafo(c, l), Propias(c, l))
         /\ \A po : Creadas(c, k, FALSE, po) <=> Creadas(c, l, TieneGrafo(c, l), po)
<1>1. l \in Claves(c) /\ Menor(k, l) /\ \A m \in Claves(c) : Menor(m, l) <=> m = k \/ Menor(m, k)
  BY DEF Sigue
<1>2. l # Primera
  BY <1>1, MenorEs, Zenon
<1>3. Resto(c, k) = Cola(c, l, TieneGrafo(c, l), Propias(c, l))
  BY Zenon DEF Todo, Cola, GrafoSi
<1>4. \A d \in Dvb(c) : Creada(c, k, FALSE, d) <=> Creada(c, l, TieneGrafo(c, l), d)
  <2> TAKE d \in Dvb(c)
  <2>1. Portador(c, d) \in Claves(c) /\ TieneGrafo(c, Portador(c, d))
    BY PortadorEs, Zenon
  <2>2. Menor(Portador(c, d), l) <=> Portador(c, d) = k \/ Menor(Portador(c, d), k)
    BY <1>1, <2>1, Zenon
  <2> QED
    BY <2>1, <2>2, Zenon DEF Creada
<1>5. \A po : Creadas(c, k, FALSE, po) <=> Creadas(c, l, TieneGrafo(c, l), po)
  BY <1>4, Zenon DEF Creadas
<1> QED
  BY <1>1, <1>2, <1>3, <1>5, Zenon

(* FinishInput.                                                            *)
LEMMA EntradaInv ==
  ASSUME FinishInput, NEW k, NEW p, NEW pre, NEW post, NEW ok, NEW po, Buena(cfg),
         CortadoCon(k, p, pre, post, ok, po), EnEntrada(cfg, k, p, pre, post)
  PROVE  Cortado'
<1>1. /\ p = FALSE /\ pre = Propias(cfg, k) /\ Tail(argv) = Resto(cfg, k) /\ k = Primera
  BY DEF EnEntrada
<1>2. /\ argv' = Tail(argv) /\ cur' = <<>> /\ decoder' = cur /\ graphs' = graphs
      /\ cfg' = cfg /\ outs' = outs
  BY <1>1 DEF FinishInput, NextGroup
<1>3. Partida(cfg, k, p, pre, post) /\ Orden(cfg, ok) /\ Hasta(cfg, ok, k) /\ Hechas(cfg, ok)
  BY DEF CortadoCon
<1>4. k \in Claves(cfg) /\ cur = Propias(cfg, k)
  BY <1>1, <1>3 DEF Partida
<1>5. decoder' = EntradaCab(cfg)
  BY <1>1, <1>2, <1>4 DEF Propias, Primera
<1>6. PICK l \in Claves(cfg) : Sigue(cfg, k, l) /\ Resto(cfg, k) = Todo(cfg, l)
  <2>1. k # Ultima
    BY <1>1 DEF Primera, Ultima
  <2> QED
    BY <1>4, <2>1, Sucesor, Zenon
<1> DEFINE g == TieneGrafo(cfg, l)
<1>7. Partida(cfg, l, g, <<>>, Propias(cfg, l))'
  <2>1. l # Primera /\ Resto(cfg, k) = Cola(cfg, l, g, Propias(cfg, l))
    BY <1>4, <1>6, Avanza, Zenon
  <2>2. Propias(cfg, l) \in Seq(Local) /\ <<>> \in Seq(Local)
    BY <1>6, PropiasTipo
  <2>3. <<>> \o Propias(cfg, l) = Propias(cfg, l)
    BY <2>2, Vacia, Zenon
  <2>4. g \in BOOLEAN
    BY DEF TieneGrafo
  <2> QED
    BY <1>1, <1>2, <1>5, <1>6, <2>1, <2>2, <2>3, <2>4, Zenon DEF Partida
<1>8. Hasta(cfg, ok, l)
  <2>1. \A m \in 1..Len(ok) : ok[m] \in Claves(cfg)
    BY <1>3 DEF Orden, Claves
  <2>2. k \notin Salidas(cfg)
    BY <1>1 DEF Primera, Salidas
  <2>3. \A m \in Salidas(cfg) : Menor(m, l) => Menor(m, k)
    BY <1>6, <2>2, Zenon DEF Sigue, Claves
  <2>4. \A m \in 1..Len(ok) : Menor(ok[m], l)
    BY <1>3, <1>6, <2>1, Zenon DEF Sigue, Hasta
  <2> QED
    BY <1>3, <2>3, <2>4, Zenon DEF Hasta
<1>9. Orden(cfg, ok)' /\ Hasta(cfg, ok, l)' /\ Hechas(cfg, ok)'
  BY <1>2, <1>3, <1>8 DEF Hechas
<1>10. Duenos(cfg, po)' /\ Creadas(cfg, l, g, po)'
  <2>1. Duenos(cfg, po) /\ Creadas(cfg, k, FALSE, po)
    BY <1>1 DEF CortadoCon
  <2>2. Creadas(cfg, l, g, po)
    BY <1>4, <1>6, <2>1, Avanza, Zenon
  <2> QED
    BY <1>2, <2>1, <2>2, DuenosIgual, Zenon
<1>11. CortadoCon(l, g, <<>>, Propias(cfg, l), ok, po)'
  BY <1>7, <1>9, <1>10, Zenon DEF CortadoCon
<1> QED
  BY <1>11, Zenon DEF Cortado

Grupos(x, c, ok) == x = [m \in 1..Len(ok) |-> Grupo(c, m, ok[m])]

(* FinishOutput adds the group of the key.                                 *)
LEMMA GrupoNuevo ==
  ASSUME NEW c, NEW k, NEW ok, Hechas(c, ok), NEW S, ok \in Seq(S), k \in S
  PROVE  Grupos(Append(outs, Grupo(c, Len(outs) + 1, k)), c, Append(ok, k))
<1> DEFINE n == Len(ok)
           ok2 == Append(ok, k)
           G(m, x) == Grupo(c, m, x)
<1>1. /\ n \in Nat /\ ok2 \in Seq(S) /\ Len(ok2) = n + 1
      /\ \A m \in 1..n : ok2[m] = ok[m]
      /\ ok2[n + 1] = k
  OBVIOUS
<1>2. outs = [m \in 1..n |-> G(m, ok[m])]
  BY DEF Hechas
<1> HIDE DEF n, ok2, G
<1>3. outs \in Seq({G(m, ok[m]) : m \in 1..n}) /\ Len(outs) = n
  BY <1>1, <1>2
<1>4. \A x : Append(outs, x) = [m \in 1..(n + 1) |-> IF m = n + 1 THEN x ELSE outs[m]]
  <2> TAKE x
  <2> DEFINE T == {G(m, ok[m]) : m \in 1..n} \cup {x}
             a == Append(outs, x)
  <2>1. outs \in Seq(T) /\ x \in T
    BY <1>1, <1>2
  <2> HIDE DEF T
  <2>2. /\ a \in Seq(T) /\ Len(a) = n + 1 /\ a[n + 1] = x /\ \A m \in 1..n : a[m] = outs[m]
    <3>1. a \in Seq(T)
      BY <2>1
    <3>2. Len(a) = Len(outs) + 1 /\ a[Len(outs) + 1] = x
      BY <2>1
    <3>3. \A m \in 1..Len(outs) : a[m] = outs[m]
      BY <2>1
    <3> HIDE DEF a
    <3> QED
      BY <1>3, <3>1, <3>2, <3>3
  <2> HIDE DEF a
  <2>3. a = [m \in 1..Len(a) |-> a[m]]
    BY <2>2
  <2>4. a = [m \in 1..(n + 1) |-> IF m = n + 1 THEN x ELSE outs[m]]
    BY <1>1, <2>2, <2>3
  <2> QED
    BY <2>4 DEF a
<1>5. [m \in 1..(n + 1) |-> IF m = n + 1 THEN G(n + 1, k) ELSE outs[m]]
        = [m \in 1..(n + 1) |-> G(m, ok2[m])]
  BY <1>1, <1>2
<1>6. Append(outs, G(Len(outs) + 1, k)) = [m \in 1..Len(ok2) |-> G(m, ok2[m])]
  BY <1>1, <1>3, <1>4, <1>5
<1> QED
  BY <1>6 DEF n, ok2, G, Grupos

(* The keys of the groups stay in order.                                   *)
LEMMA OrdenNuevo ==
  ASSUME NEW c, Buena(c), NEW k \in Salidas(c), NEW l, Sigue(c, k, l), NEW ok, Orden(c, ok), Hasta(c, ok, k)
  PROVE  Orden(c, Append(ok, k)) /\ Hasta(c, Append(ok, k), l)
<1> DEFINE n == Len(ok)
           ok2 == Append(ok, k)
<1>1. ok \in Seq(Salidas(c)) /\ \A m, j \in 1..n : m < j => Menor(ok[m], ok[j])
  BY DEF Orden
<1>2. /\ n \in Nat /\ ok2 \in Seq(Salidas(c)) /\ Len(ok2) = n + 1
      /\ \A m \in 1..n : ok2[m] = ok[m]
      /\ ok2[n + 1] = k
  BY <1>1
<1> HIDE DEF n, ok2
<1>3. \A m \in 1..n : Menor(ok[m], k)
  BY DEF Hasta, n
<1>4. \A m, j \in 1..(n + 1) : m < j => Menor(ok2[m], ok2[j])
  <2> SUFFICES ASSUME NEW m \in 1..(n + 1), NEW j \in 1..(n + 1), m < j
               PROVE  Menor(ok2[m], ok2[j])
    OBVIOUS
  <2>1. m \in 1..n /\ (j \in 1..n \/ j = n + 1)
    BY <1>2
  <2>2. CASE j = n + 1
    <3>1. Menor(ok[m], k) /\ ok2[m] = ok[m] /\ ok2[j] = k
      BY <1>2, <1>3, <2>1, <2>2
    <3> QED
      BY <3>1, Zenon
  <2>3. CASE j \in 1..n
    <3>1. Menor(ok[m], ok[j]) /\ ok2[m] = ok[m] /\ ok2[j] = ok[j]
      BY <1>1, <1>2, <2>1, <2>3, Zenon
    <3> QED
      BY <3>1, Zenon
  <2> QED
    BY <2>1, <2>2, <2>3
<1>5. Orden(c, ok2)
  BY <1>2, <1>4, Zenon DEF Orden
<1>6. Menor(k, l) /\ l \in Claves(c) /\ \A m \in Salidas(c) : Menor(m, l) <=> m = k \/ Menor(m, k)
  BY Zenon DEF Sigue, Claves
<1>7. \A m \in 1..(n + 1) : ok2[m] \in Salidas(c) /\ (ok2[m] = k \/ Menor(ok2[m], k))
  BY <1>1, <1>2, <1>3
<1>8. \A m \in 1..Len(ok2) : Menor(ok2[m], l)
  BY <1>2, <1>6, <1>7, Zenon
<1>9. \A d \in Salidas(c) : Menor(d, l) => \E m \in 1..Len(ok2) : ok2[m] = d
  <2> SUFFICES ASSUME NEW d \in Salidas(c), Menor(d, l)
               PROVE  \E m \in 1..(n + 1) : ok2[m] = d
    BY <1>2
  <2>1. d = k \/ Menor(d, k)
    BY <1>6, Zenon
  <2>2. CASE d = k
    BY <1>2, <2>2
  <2>3. CASE Menor(d, k)
    <3>1. PICK m \in 1..n : ok[m] = d
      BY <2>3, Zenon DEF Hasta, n
    <3>2. m \in 1..(n + 1) /\ ok2[m] = d
      BY <1>2, <3>1
    <3> QED
      BY <3>2, Zenon
  <2> QED
    BY <2>1, <2>2, <2>3
<1>10. Hasta(c, ok2, l)
  BY <1>8, <1>9, Zenon DEF Hasta
<1> QED
  BY <1>5, <1>10 DEF ok2

(* FinishOutput.                                                           *)
LEMMA SalidaInv ==
  ASSUME FinishOutput, NEW k, NEW p, NEW pre, NEW post, NEW ok, NEW po, Buena(cfg),
         CortadoCon(k, p, pre, post, ok, po), EnSalida(cfg, k, p, pre, post)
  PROVE  Cortado'
<1>1. /\ p = FALSE /\ pre = Propias(cfg, k) /\ Tail(argv) = Resto(cfg, k) /\ k \in Salidas(cfg)
      /\ Head(argv) = Archivo(cfg, k)
  BY DEF EnSalida
<1>2. /\ argv' = Tail(argv) /\ cur' = <<>> /\ decoder' = decoder /\ graphs' = graphs
      /\ cfg' = cfg /\ outs' = Append(outs, [n |-> Len(outs) + 1, file |-> Head(argv), opts |-> cur])
  BY <1>1 DEF FinishOutput, NextGroup
<1>3. Partida(cfg, k, p, pre, post) /\ Orden(cfg, ok) /\ Hasta(cfg, ok, k) /\ Hechas(cfg, ok)
  BY DEF CortadoCon
<1>4. k \in Claves(cfg) /\ cur = Propias(cfg, k) /\ k # Primera /\ k # Ultima
  BY <1>1, <1>3 DEF Partida, Primera, Ultima, Salidas
<1>5. decoder' = EntradaCab(cfg)
  BY <1>2, <1>3, <1>4 DEF Partida
<1>6. PICK l \in Claves(cfg) : Sigue(cfg, k, l) /\ Resto(cfg, k) = Todo(cfg, l)
  BY <1>4, Sucesor, Zenon
<1> DEFINE g == TieneGrafo(cfg, l)
           ok2 == Append(ok, k)
<1>7. Partida(cfg, l, g, <<>>, Propias(cfg, l))'
  <2>1. l # Primera /\ Resto(cfg, k) = Cola(cfg, l, g, Propias(cfg, l))
    BY <1>4, <1>6, Avanza, Zenon
  <2>2. Propias(cfg, l) \in Seq(Local) /\ <<>> \in Seq(Local)
    BY <1>6, PropiasTipo
  <2>3. <<>> \o Propias(cfg, l) = Propias(cfg, l)
    BY <2>2, Vacia, Zenon
  <2>4. g \in BOOLEAN
    BY DEF TieneGrafo
  <2> QED
    BY <1>1, <1>2, <1>5, <1>6, <2>1, <2>2, <2>3, <2>4, Zenon DEF Partida
<1>8. Orden(cfg, ok2) /\ Hasta(cfg, ok2, l)
  BY <1>1, <1>3, <1>6, OrdenNuevo, Zenon
<1>9. Grupos(outs', cfg, ok2)
  <2>1. outs' = Append(outs, Grupo(cfg, Len(outs) + 1, k))
    BY <1>1, <1>2, <1>4, Zenon DEF Grupo
  <2>2. ok \in Seq(Salidas(cfg))
    BY <1>3 DEF Orden
  <2> QED
    BY <1>1, <1>3, <2>1, <2>2, GrupoNuevo, Zenon
<1> HIDE DEF ok2
<1>10. Orden(cfg, ok2)' /\ Hasta(cfg, ok2, l)' /\ Hechas(cfg, ok2)'
  BY <1>2, <1>8, <1>9, Zenon DEF Hechas, Grupos
<1>11. Duenos(cfg, po)' /\ Creadas(cfg, l, g, po)'
  <2>1. Duenos(cfg, po) /\ Creadas(cfg, k, FALSE, po)
    BY <1>1 DEF CortadoCon
  <2>2. Creadas(cfg, l, g, po)
    BY <1>4, <1>6, <2>1, Avanza, Zenon
  <2> QED
    BY <1>2, <2>1, <2>2, DuenosIgual, Zenon
<1>12. CortadoCon(l, g, <<>>, Propias(cfg, l), ok2, po)'
  BY <1>7, <1>10, <1>11, Zenon DEF CortadoCon
<1> QED
  BY <1>12, Zenon DEF Cortado

(* The owner of the pad i of the graph written before the output k.        *)
Nuevo(c, k, i) == IF c.hwaccel THEN <<1, k[2], i>> ELSE k

(* The DVB subtitles that the pads of a new graph are for.                 *)
LEMMA NuevoEs ==
  ASSUME NEW c, Buena(c), NEW k \in Claves(c), TieneGrafo(c, k)
  PROVE  /\ GrafoDe(c, k) \in Grafo
         /\ \A i \in 1..Len(GrafoDe(c, k)) :
              /\ Nuevo(c, k, i) \in Dvb(c) /\ Portador(c, Nuevo(c, k, i)) = k
              /\ GrafoDe(c, k)[i].label = Etiqueta(c, Nuevo(c, k, i)[3])
              /\ GrafoDe(c, k)[i].lang = c.subs[Nuevo(c, k, i)[3]]
              /\ \A j \in 1..Len(GrafoDe(c, k)) :
                   Etiqueta(c, Nuevo(c, k, i)[3]) = Etiqueta(c, Nuevo(c, k, j)[3]) => i = j
              /\ \A d \in Dvb(c) : Menor(Portador(c, d), k) => Menor(d, Nuevo(c, k, i))
         /\ \A d \in Dvb(c) : Portador(c, d) = k => \E i \in 1..Len(GrafoDe(c, k)) : Nuevo(c, k, i) = d
<1>1. /\ EsDvb(k) /\ k[1] = 1 /\ k[3] > 0
  BY DEF TieneGrafo, EsDvb
<1>2. /\ GrafoDe(c, k) \in Grafo /\ k[3] \in 1..Len(c.subs) /\ ND(c) = Len(c.subs)
  BY <1>1, GrafoTipo, Zenon
<1>3. /\ k[2] \in 1..NB(c) /\ k[3] \in 1..ND(c) /\ Len(c.subs) \in Nat /\ NB(c) \in Nat
      /\ k = <<1, k[2], k[3]>>
  BY <1>1, FormaClave
<1>4. \A d \in Dvb(c) : /\ d = <<1, d[2], d[3]>> /\ d[2] \in 1..NB(c) /\ d[3] \in 1..ND(c)
                        /\ d[1] = 1
  <2> TAKE d \in Dvb(c)
  <2>1. d \in Claves(c) /\ EsDvb(d)
    BY DEF Dvb, Claves
  <2> QED
    BY <2>1, FormaClave DEF EsDvb
<1> DEFINE G == GrafoDe(c, k)
<1>5. CASE c.hwaccel
  <2>1. k[3] = 1
    BY <1>5 DEF TieneGrafo
  <2>2. /\ G = [i \in 1..Len(c.subs) |-> [label |-> i, lang |-> c.subs[i]]] /\ Len(G) = ND(c)
    <3>1. G = [i \in 1..Len(c.subs) |-> [label |-> i, lang |-> c.subs[i]]]
      BY <1>5 DEF GrafoDe
    <3> QED
      BY <1>2, <1>3, <3>1
  <2> HIDE DEF G
  <2>3. ASSUME NEW i \in 1..Len(G)
        PROVE  /\ Nuevo(c, k, i) \in Dvb(c) /\ Portador(c, Nuevo(c, k, i)) = k
               /\ G[i].label = Etiqueta(c, Nuevo(c, k, i)[3])
               /\ G[i].lang = c.subs[Nuevo(c, k, i)[3]]
               /\ \A j \in 1..Len(G) :
                    Etiqueta(c, Nuevo(c, k, i)[3]) = Etiqueta(c, Nuevo(c, k, j)[3]) => i = j
               /\ \A d \in Dvb(c) : Menor(Portador(c, d), k) => Menor(d, Nuevo(c, k, i))
    <3>1. i \in 1..ND(c) /\ Nuevo(c, k, i) = <<1, k[2], i>>
      BY <1>5, <2>2 DEF Nuevo
    <3>2. <<1, k[2], i>> \in Dvb(c)
      BY <1>3, <3>1 DEF Dvb, Salidas, EsDvb
    <3>3. Portador(c, Nuevo(c, k, i)) = k
      BY <1>3, <1>5, <2>1, <3>1 DEF Portador
    <3>4. G[i].label = i /\ G[i].lang = c.subs[i]
      BY <1>2, <2>2, <3>1
    <3>5. \A j \in 1..Len(G) : Etiqueta(c, Nuevo(c, k, j)[3]) = j
      BY <1>5 DEF Etiqueta, Nuevo
    <3>6. ASSUME NEW d \in Dvb(c), Menor(Portador(c, d), k)
          PROVE  Menor(d, Nuevo(c, k, i))
      <4>1. Portador(c, d) = <<1, d[2], 1>>
        BY <1>5 DEF Portador
      <4>2. d[2] < k[2] /\ d[1] = 1 /\ d[2] \in Nat
        <5>1. d[1] = 1 /\ d[2] \in Nat
          BY <1>3, <1>4
        <5> QED
          BY <1>1, <1>3, <2>1, <3>6, <4>1, <5>1 DEF Menor
      <4> QED
        BY <3>1, <4>2 DEF Menor
    <3> QED
      BY <3>1, <3>2, <3>3, <3>4, <3>5, <3>6
  <2>4. ASSUME NEW d \in Dvb(c), Portador(c, d) = k
        PROVE  \E i \in 1..Len(G) : Nuevo(c, k, i) = d
    <3>1. d = <<1, d[2], d[3]>> /\ d[3] \in 1..Len(G)
      BY <1>4, <2>2
    <3>2. d[2] = k[2]
      BY <1>5, <2>4 DEF Portador
    <3>3. Nuevo(c, k, d[3]) = <<1, k[2], d[3]>>
      BY <1>5 DEF Nuevo
    <3>4. Nuevo(c, k, d[3]) = d
      BY <3>1, <3>2, <3>3, Zenon
    <3> QED
      BY <3>1, <3>4, Zenon
  <2> QED
    BY <1>2, <2>3, <2>4, Zenon DEF G
<1>6. CASE ~c.hwaccel
  <2>1. G = <<[label |-> 0, lang |-> c.subs[k[3]]]>>
    BY <1>6 DEF GrafoDe
  <2>2. /\ Len(G) = 1 /\ G[1].label = 0 /\ G[1].lang = c.subs[k[3]]
    BY <2>1
  <2> HIDE DEF G
  <2>3. \A d : Portador(c, d) = d
    BY <1>6, Zenon DEF Portador
  <2>4. \A i : Nuevo(c, k, i) = k
    BY <1>6, Zenon DEF Nuevo
  <2>5. \A i \in 1..Len(G) : i = 1
    BY <2>2
  <2>6. k \in Dvb(c)
    BY <1>1, <1>3 DEF Dvb, Salidas
  <2>7. \A i : Etiqueta(c, i) = 0
    BY <1>6, Zenon DEF Etiqueta
  <2>8. 1 \in 1..Len(G)
    BY <2>2
  <2>9. ASSUME NEW i \in 1..Len(G)
        PROVE  /\ Nuevo(c, k, i) \in Dvb(c) /\ Portador(c, Nuevo(c, k, i)) = k
               /\ G[i].label = Etiqueta(c, Nuevo(c, k, i)[3])
               /\ G[i].lang = c.subs[Nuevo(c, k, i)[3]]
               /\ \A j \in 1..Len(G) :
                    Etiqueta(c, Nuevo(c, k, i)[3]) = Etiqueta(c, Nuevo(c, k, j)[3]) => i = j
               /\ \A d \in Dvb(c) : Menor(Portador(c, d), k) => Menor(d, Nuevo(c, k, i))
    <3>1. i = 1
      BY <2>5
    <3> QED
      BY <2>2, <2>3, <2>4, <2>5, <2>6, <2>7, <3>1, Zenon
  <2> QED
    BY <1>2, <2>3, <2>4, <2>8, <2>9, Zenon DEF G
<1> QED
  BY <1>5, <1>6, Zenon

(* The pads before and after a graph is added.                             *)
PadsDe(g) == UNION {{n} \X (1..Len(g[n])) : n \in 1..Len(g)}

(* The pads of a list of graphs.                                           *)
LEMMA PadsSon ==
  ASSUME NEW g \in Seq(Grafo)
  PROVE  \A q : q \in PadsDe(g) <=> /\ q = <<q[1], q[2]>> /\ q[1] \in 1..Len(g)
                                    /\ q[2] \in 1..Len(g[q[1]])
<1> TAKE q
<1>1. q \in PadsDe(g) <=> \E n \in 1..Len(g) : q \in {n} \X (1..Len(g[n]))
  BY DEF PadsDe
<1>2. \A n : q \in {n} \X (1..Len(g[n])) <=> q = <<q[1], q[2]>> /\ q[1] = n /\ q[2] \in 1..Len(g[n])
  OBVIOUS
<1> QED
  BY <1>1, <1>2, Zenon

(* A new graph keeps the pads there were and adds its own.                 *)
LEMMA PadsMas ==
  ASSUME NEW g \in Seq(Grafo), NEW x \in Grafo
  PROVE  LET n == Len(g) + 1
             h == Append(g, x)
         IN  /\ h \in Seq(Grafo) /\ n \in Nat /\ h[n] = x
             /\ \A q \in PadsDe(g) : /\ q \in PadsDe(h) /\ h[q[1]] = g[q[1]] /\ q[1] < n
                                     /\ q[1] \in Nat /\ q[2] \in Nat
             /\ \A i \in 1..Len(x) : <<n, i>> \in PadsDe(h)
             /\ \A q \in PadsDe(h) : \/ q \in PadsDe(g)
                                     \/ q = <<n, q[2]>> /\ q[1] = n /\ q[2] \in 1..Len(x)
<1> DEFINE n == Len(g) + 1
           h == Append(g, x)
<1>1. /\ h \in Seq(Grafo) /\ n \in Nat /\ Len(h) = n /\ h[n] = x /\ n - 1 = Len(g)
      /\ \A i \in 1..Len(g) : h[i] = g[i]
  OBVIOUS
<1>2. Len(g) \in Nat /\ \A i \in 1..Len(g) : Len(g[i]) \in Nat
  BY DEF Grafo
<1> HIDE DEF h
<1>3. ASSUME NEW q \in PadsDe(g)
      PROVE  q \in PadsDe(h) /\ h[q[1]] = g[q[1]] /\ q[1] < n /\ q[1] \in Nat /\ q[2] \in Nat
  <2>1. q = <<q[1], q[2]>> /\ q[1] \in 1..Len(g) /\ q[2] \in 1..Len(g[q[1]])
    BY <1>3, PadsSon, Zenon
  <2>2. q[1] \in 1..Len(h) /\ h[q[1]] = g[q[1]] /\ q[1] < n /\ q[1] \in Nat
    BY <1>1, <1>2, <2>1
  <2>3. q[2] \in Nat
    BY <1>2, <2>1
  <2>4. q \in PadsDe(h)
    BY <1>1, <2>1, <2>2, PadsSon, Zenon
  <2> QED
    BY <2>2, <2>3, <2>4
<1>4. ASSUME NEW i \in 1..Len(x)
      PROVE  <<n, i>> \in PadsDe(h)
  <2> DEFINE q == <<n, i>>
  <2>1. q = <<q[1], q[2]>> /\ q[1] \in 1..Len(h) /\ q[2] \in 1..Len(h[q[1]])
    BY <1>1
  <2> HIDE DEF q
  <2>2. q \in PadsDe(h)
    BY <1>1, <2>1, PadsSon, Zenon
  <2> QED
    BY <2>2 DEF q
<1>5. ASSUME NEW q \in PadsDe(h)
      PROVE  q \in PadsDe(g) \/ (q = <<n, q[2]>> /\ q[1] = n /\ q[2] \in 1..Len(x))
  <2>1. q = <<q[1], q[2]>> /\ q[1] \in 1..Len(h) /\ q[2] \in 1..Len(h[q[1]])
    BY <1>1, <1>5, PadsSon, Zenon
  <2>2. CASE q[1] = n
    BY <1>1, <2>1, <2>2
  <2>3. CASE q[1] # n
    <3>1. q[1] \in 1..Len(g) /\ h[q[1]] = g[q[1]]
      BY <1>1, <1>2, <2>1, <2>3
    <3>2. q[2] \in 1..Len(g[q[1]])
      BY <2>1, <3>1
    <3> QED
      BY <2>1, <3>1, <3>2, PadsSon, Zenon
  <2> QED
    BY <2>2, <2>3
<1> QED
  BY <1>1, <1>3, <1>4, <1>5, Zenon DEF h

DuenosDe(g, c, po) ==
  /\ g \in Seq(Grafo)
  /\ po \in [PadsDe(g) -> Dvb(c)]
  /\ \A q \in PadsDe(g) : /\ g[q[1]][q[2]].label = Etiqueta(c, po[q][3])
                          /\ g[q[1]][q[2]].lang = c.subs[po[q][3]]
  /\ \A q, r \in PadsDe(g) :
       q # r /\ Before(q, r) /\ Etiqueta(c, po[q][3]) = Etiqueta(c, po[r][3]) => Menor(po[q], po[r])

CreadasDe(g, c, k, p, po) ==
  \A l \in Dvb(c) : Creada(c, k, p, l) <=> \E q \in PadsDe(g) : po[q] = l

(* With a new graph, every pad still has its owner.                        *)
LEMMA DuenosMas ==
  ASSUME NEW c, Buena(c), NEW k \in Claves(c), TieneGrafo(c, k), NEW g, NEW po, DuenosDe(g, c, po),
         CreadasDe(g, c, k, TRUE, po)
  PROVE  \E po2 : /\ DuenosDe(Append(g, GrafoDe(c, k)), c, po2)
                  /\ CreadasDe(Append(g, GrafoDe(c, k)), c, k, FALSE, po2)
<1> DEFINE x == GrafoDe(c, k)
           n == Len(g) + 1
           h == Append(g, x)
           po2 == [q \in PadsDe(h) |-> IF q[1] = n THEN Nuevo(c, k, q[2]) ELSE po[q]]
<1>1. g \in Seq(Grafo) /\ x \in Grafo
  BY NuevoEs, Zenon DEF DuenosDe
<1>2. \A i \in 1..Len(x) :
        /\ Nuevo(c, k, i) \in Dvb(c) /\ Portador(c, Nuevo(c, k, i)) = k
        /\ x[i].label = Etiqueta(c, Nuevo(c, k, i)[3])
        /\ x[i].lang = c.subs[Nuevo(c, k, i)[3]]
        /\ \A j \in 1..Len(x) :
             Etiqueta(c, Nuevo(c, k, i)[3]) = Etiqueta(c, Nuevo(c, k, j)[3]) => i = j
        /\ \A d \in Dvb(c) : Menor(Portador(c, d), k) => Menor(d, Nuevo(c, k, i))
  BY NuevoEs, Zenon
<1>3. \A d \in Dvb(c) : Portador(c, d) = k => \E i \in 1..Len(x) : Nuevo(c, k, i) = d
  BY NuevoEs, Zenon
<1>4. /\ h \in Seq(Grafo) /\ n \in Nat /\ h[n] = x
      /\ \A q \in PadsDe(g) : /\ q \in PadsDe(h) /\ h[q[1]] = g[q[1]] /\ q[1] < n
                              /\ q[1] \in Nat /\ q[2] \in Nat
      /\ \A i \in 1..Len(x) : <<n, i>> \in PadsDe(h)
      /\ \A q \in PadsDe(h) : \/ q \in PadsDe(g)
                              \/ q = <<n, q[2]>> /\ q[1] = n /\ q[2] \in 1..Len(x)
  BY <1>1, PadsMas
<1>5. /\ po \in [PadsDe(g) -> Dvb(c)]
      /\ \A q \in PadsDe(g) : /\ g[q[1]][q[2]].label = Etiqueta(c, po[q][3])
                              /\ g[q[1]][q[2]].lang = c.subs[po[q][3]]
      /\ \A q, r \in PadsDe(g) :
           q # r /\ Before(q, r) /\ Etiqueta(c, po[q][3]) = Etiqueta(c, po[r][3]) => Menor(po[q], po[r])
  BY Zenon DEF DuenosDe
<1> HIDE DEF x, n, h
<1>6. /\ \A q \in PadsDe(g) : po2[q] = po[q] /\ po[q] \in Dvb(c)
      /\ \A q \in PadsDe(h) : q[1] = n => po2[q] = Nuevo(c, k, q[2])
      /\ \A i \in 1..Len(x) : po2[<<n, i>>] = Nuevo(c, k, i)
      /\ DOMAIN po2 = PadsDe(h) /\ po2 = [q \in PadsDe(h) |-> po2[q]]
  <2>1. \A q \in PadsDe(g) : q \in PadsDe(h) /\ q[1] # n
    BY <1>4
  <2>2. \A i \in 1..Len(x) : <<n, i>> \in PadsDe(h) /\ <<n, i>>[1] = n /\ <<n, i>>[2] = i
    BY <1>4
  <2> QED
    BY <1>5, <2>1, <2>2
<1> HIDE DEF po2
<1>7. \A q \in PadsDe(h) : \/ q \in PadsDe(g) /\ po2[q] = po[q]
                           \/ /\ q = <<n, q[2]>> /\ q[1] = n /\ q[2] \in 1..Len(x)
                              /\ po2[q] = Nuevo(c, k, q[2])
  BY <1>4, <1>6, Zenon
<1>8. po2 \in [PadsDe(h) -> Dvb(c)]
  <2>1. ASSUME NEW q \in PadsDe(h)
        PROVE  po2[q] \in Dvb(c)
    <3>1. CASE q \in PadsDe(g) /\ po2[q] = po[q]
      BY <1>6, <3>1, Zenon
    <3>2. CASE q[2] \in 1..Len(x) /\ po2[q] = Nuevo(c, k, q[2])
      <4>1. Nuevo(c, k, q[2]) \in Dvb(c)
        BY <1>2, <3>2, Zenon
      <4> QED
        BY <3>2, <4>1
    <3> QED
      BY <1>7, <3>1, <3>2, Zenon
  <2> QED
    BY <1>6, <2>1
<1>9. \A q \in PadsDe(h) : /\ h[q[1]][q[2]].label = Etiqueta(c, po2[q][3])
                           /\ h[q[1]][q[2]].lang = c.subs[po2[q][3]]
  <2> TAKE q \in PadsDe(h)
  <2>1. CASE q \in PadsDe(g)
    BY <1>4, <1>5, <1>6, <2>1, Zenon
  <2>2. CASE q[1] = n /\ q[2] \in 1..Len(x) /\ po2[q] = Nuevo(c, k, q[2])
    <3>1. h[q[1]] = x
      BY <1>4, <2>2
    <3>2. x[q[2]].label = Etiqueta(c, Nuevo(c, k, q[2])[3]) /\ x[q[2]].lang = c.subs[Nuevo(c, k, q[2])[3]]
      BY <1>2, <2>2
    <3> QED
      BY <2>2, <3>1, <3>2
  <2> QED
    BY <1>7, <2>1, <2>2, Zenon
<1>10. \A q \in PadsDe(g) : Menor(Portador(c, po[q]), k)
  <2> TAKE q \in PadsDe(g)
  <2>1. Creada(c, k, TRUE, po[q])
    BY <1>6, Zenon DEF CreadasDe
  <2> QED
    BY <2>1 DEF Creada
<1>11. ASSUME NEW q \in PadsDe(h), NEW r \in PadsDe(h), q # r, Before(q, r),
              Etiqueta(c, po2[q][3]) = Etiqueta(c, po2[r][3])
       PROVE  Menor(po2[q], po2[r])
  <2>1. CASE q \in PadsDe(g) /\ r \in PadsDe(g)
    <3>1. po2[q] = po[q] /\ po2[r] = po[r]
      BY <1>6, <2>1, Zenon
    <3> QED
      BY <1>5, <1>11, <2>1, <3>1, Zenon
  <2>2. CASE /\ q \in PadsDe(g)
             /\ r[2] \in 1..Len(x) /\ po2[r] = Nuevo(c, k, r[2])
    <3>1. Menor(Portador(c, po[q]), k) /\ po2[q] = po[q] /\ po[q] \in Dvb(c)
      BY <1>6, <1>10, <2>2, Zenon
    <3>2. Menor(po[q], Nuevo(c, k, r[2]))
      BY <1>2, <2>2, <3>1, Zenon
    <3> QED
      BY <2>2, <3>1, <3>2
  <2>3. CASE q[1] = n /\ r \in PadsDe(g)
    <3>1. r[1] < n /\ r[1] \in Nat /\ n \in Nat
      BY <1>4, <2>3
    <3>2. ~Before(q, r)
      BY <2>3, <3>1 DEF Before
    <3> QED
      BY <1>11, <3>2
  <2>4. CASE /\ q = <<n, q[2]>> /\ q[2] \in 1..Len(x) /\ po2[q] = Nuevo(c, k, q[2])
             /\ r = <<n, r[2]>> /\ r[2] \in 1..Len(x) /\ po2[r] = Nuevo(c, k, r[2])
    <3>1. q[2] = r[2]
      BY <1>2, <1>11, <2>4, Zenon
    <3>2. q = r
      BY <2>4, <3>1
    <3> QED
      BY <1>11, <3>2
  <2> QED
    BY <1>7, <2>1, <2>2, <2>3, <2>4, Zenon
<1>12. DuenosDe(h, c, po2)
  BY <1>4, <1>8, <1>9, <1>11, Zenon DEF DuenosDe
<1>13. CreadasDe(h, c, k, FALSE, po2)
  <2> SUFFICES ASSUME NEW d \in Dvb(c)
               PROVE  Creada(c, k, FALSE, d) <=> \E q \in PadsDe(h) : po2[q] = d
    BY Zenon DEF CreadasDe
  <2>1. Creada(c, k, FALSE, d) <=> Menor(Portador(c, d), k) \/ Portador(c, d) = k
    BY DEF Creada
  <2>2. Menor(Portador(c, d), k) <=> \E q \in PadsDe(g) : po[q] = d
    <3>1. Creada(c, k, TRUE, d) <=> Menor(Portador(c, d), k)
      BY DEF Creada
    <3> QED
      BY <3>1, Zenon DEF CreadasDe
  <2>3. Portador(c, d) = k <=> \E i \in 1..Len(x) : Nuevo(c, k, i) = d
    BY <1>2, <1>3, Zenon
  <2>4. ASSUME NEW q \in PadsDe(h), po2[q] = d
        PROVE  (\E r \in PadsDe(g) : po[r] = d) \/ \E i \in 1..Len(x) : Nuevo(c, k, i) = d
    BY <1>7, <2>4, Zenon
  <2>5. ASSUME NEW q \in PadsDe(g), po[q] = d
        PROVE  \E r \in PadsDe(h) : po2[r] = d
    BY <1>4, <1>6, <2>5, Zenon
  <2>6. ASSUME NEW i \in 1..Len(x), Nuevo(c, k, i) = d
        PROVE  \E r \in PadsDe(h) : po2[r] = d
    <3>1. <<n, i>> \in PadsDe(h) /\ po2[<<n, i>>] = d
      BY <1>4, <1>6, <2>6
    <3> QED
      BY <3>1, Zenon
  <2> QED
    BY <2>1, <2>2, <2>3, <2>4, <2>5, <2>6, Zenon
<1> QED
  BY <1>12, <1>13, Zenon DEF h, x

(* AddOpt with a filter graph.                                             *)
LEMMA GrafoInv ==
  ASSUME AddOpt, NEW k, NEW p, NEW pre, NEW post, NEW ok, NEW po, Buena(cfg),
         CortadoCon(k, p, pre, post, ok, po), EnGrafo(cfg, k, p, post)
  PROVE  Cortado'
<1>1. /\ p = TRUE /\ TieneGrafo(cfg, k) /\ Tail(argv) = Cola(cfg, k, FALSE, post)
      /\ Global(Head(argv).o) /\ Head(argv).v = GrafoDe(cfg, k)
  BY DEF EnGrafo, Global
<1>2. /\ argv' = Tail(argv) /\ cur' = cur /\ graphs' = Append(graphs, GrafoDe(cfg, k))
      /\ cfg' = cfg /\ outs' = outs /\ decoder' = decoder
  BY <1>1 DEF AddOpt
<1>3. Partida(cfg, k, p, pre, post) /\ Orden(cfg, ok) /\ Hasta(cfg, ok, k) /\ Hechas(cfg, ok)
  BY DEF CortadoCon
<1>4. k \in Claves(cfg)
  BY <1>3 DEF Partida
<1>5. DuenosDe(graphs, cfg, po) /\ CreadasDe(graphs, cfg, k, TRUE, po)
  <2>1. Duenos(cfg, po) /\ Creadas(cfg, k, TRUE, po)
    BY <1>1 DEF CortadoCon
  <2> QED
    BY <2>1, Zenon DEF Duenos, DuenosDe, Etiquetas, EnOrden, Creadas, CreadasDe, Pads, PadsDe
<1>6. PICK po2 : DuenosDe(graphs', cfg, po2) /\ CreadasDe(graphs', cfg, k, FALSE, po2)
  BY <1>1, <1>2, <1>4, <1>5, DuenosMas, Zenon
<1>7. Duenos(cfg, po2)' /\ Creadas(cfg, k, FALSE, po2)'
  BY <1>2, <1>6, Zenon DEF Duenos, DuenosDe, Etiquetas, EnOrden, Creadas, CreadasDe, Pads, PadsDe
<1>8. Partida(cfg, k, FALSE, pre, post)'
  BY <1>1, <1>2, <1>3, Zenon DEF Partida
<1>9. Orden(cfg, ok)' /\ Hasta(cfg, ok, k)' /\ Hechas(cfg, ok)'
  BY <1>2, <1>3 DEF Hechas
<1>10. CortadoCon(k, FALSE, pre, post, ok, po2)'
  BY <1>7, <1>8, <1>9, Zenon DEF CortadoCon
<1> QED
  BY <1>10, Zenon DEF Cortado

(* SplitDone: the groups are those of all the keys.                        *)
LEMMA FinInv ==
  ASSUME SplitDone, NEW k, NEW p, NEW pre, NEW post, NEW ok, NEW po, Buena(cfg),
         CortadoCon(k, p, pre, post, ok, po), EnFin(cfg, k, p, pre, post), used = {}, streams = <<>>
  PROVE  Abierto' /\ cur' = <<>> /\ argv' = <<>>
<1>1. p = FALSE /\ pre = <<>> /\ k = Ultima
  BY DEF EnFin
<1>2. /\ argv' = <<>> /\ cur' = cur /\ graphs' = graphs /\ cfg' = cfg /\ outs' = outs /\ decoder' = decoder
      /\ used' = {} /\ streams' = <<>> /\ stage' = "open"
  BY DEF SplitDone
<1>3. /\ Partida(cfg, k, p, pre, post) /\ Orden(cfg, ok) /\ Hasta(cfg, ok, k) /\ Hechas(cfg, ok)
      /\ Duenos(cfg, po) /\ Creadas(cfg, k, p, po)
  BY DEF CortadoCon
<1>4. cur = <<>> /\ decoder = EntradaCab(cfg)
  BY <1>1, <1>3 DEF Partida, Ultima, Primera
<1>5. \A l \in Salidas(cfg) : \E m \in 1..Len(ok) : ok[m] = l
  <2> TAKE l \in Salidas(cfg)
  <2>1. l \in Claves(cfg) /\ l # Ultima
    BY DEF Claves, Salidas, Ultima
  <2>2. Menor(l, Ultima)
    BY <2>1, MenorEs, Zenon
  <2> QED
    BY <1>1, <1>3, <2>2, Zenon DEF Hasta
<1>6. \A l \in Dvb(cfg) : \E q \in Pads : po[q] = l
  <2> TAKE l \in Dvb(cfg)
  <2>1. Portador(cfg, l) \in Claves(cfg) /\ Portador(cfg, l) # Ultima
    BY PortadorEs, Zenon
  <2>2. Menor(Portador(cfg, l), Ultima)
    BY <2>1, MenorEs, Zenon
  <2>3. Creada(cfg, k, p, l)
    BY <1>1, <2>2 DEF Creada
  <2> QED
    BY <1>3, <2>3, Zenon DEF Creadas
<1>7. Pads' = Pads /\ Duenos(cfg, po)'
  BY <1>2, <1>3, DuenosIgual, Zenon
<1>8. Len(ok) \in Nat /\ 0 \in 0..Len(ok)
  BY <1>3 DEF Orden
<1>9. outs' = [m \in 1..(Len(ok) - 0) |-> Grupo(cfg, m + 0, ok[m + 0])]
  <2>1. outs = [m \in 1..Len(ok) |-> Grupo(cfg, m, ok[m])]
    BY <1>3 DEF Hechas
  <2>2. Len(ok) - 0 = Len(ok) /\ \A m \in 1..Len(ok) : m + 0 = m
    BY <1>8
  <2> QED
    BY <1>2, <2>1, <2>2
<1>10. used' = {q \in Pads : \E n \in 1..0 : ok[n] = po[q]}
  BY <1>2
<1>11. (\E X : streams' \in Seq(X)) /\ AllStreams' = {}
  <2>1. streams' \in Seq({}) /\ Len(streams') = 0
    BY <1>2
  <2> QED
    BY <2>1 DEF AllStreams
<1>12. Emitidas(cfg, ok, 0) = {}
  BY DEF Emitidas
<1>13. AbiertoCon(ok, po, 0)'
  <2>1. Orden(cfg, ok)'
    BY <1>2, <1>3
  <2>2. \A l \in Salidas(cfg') : \E m \in 1..Len(ok) : ok[m] = l
    BY <1>2, <1>5
  <2>3. \A l \in Dvb(cfg') : \E q \in Pads' : po[q] = l
    BY <1>2, <1>6, <1>7, Zenon
  <2>4. \A n \in 1..0 : ~Prohibida(cfg', ok[n])
    OBVIOUS
  <2>5. outs' = [m \in 1..(Len(ok) - 0) |-> Grupo(cfg', m + 0, ok[m + 0])]
    BY <1>2, <1>9, Zenon
  <2>6. used' = {q \in Pads' : \E n \in 1..0 : ok[n] = po[q]}
    BY <1>7, <1>10, Zenon
  <2>7. AllStreams' = Emitidas(cfg', ok, 0)
    BY <1>2, <1>11, <1>12
  <2>8. decoder' = EntradaCab(cfg') /\ stage' # "fatal" /\ stage' # "ok" /\ stage' \notin {"init", "ok"}
    BY <1>2, <1>4
  <2> QED
    BY <1>7, <1>8, <1>11, <2>1, <2>2, <2>3, <2>4, <2>5, <2>6, <2>7, <2>8, Zenon DEF AbiertoCon
<1> QED
  BY <1>2, <1>4, <1>13, Zenon DEF Abierto

(* The steps of split_commandline.                                         *)
LEMMA CorteInv == IInv /\ stage = "split" /\ Next => IInv'
<1> SUFFICES ASSUME IInv, stage = "split", Next
             PROVE  IInv'
  OBVIOUS
<1>1. cfg \in Configs /\ Buena(cfg) /\ used = {} /\ streams = <<>> /\ Cortado
  BY DEF IInv
<1>2. PICK k, p, pre, post, ok, po : CortadoCon(k, p, pre, post, ok, po)
  BY <1>1, Zenon DEF Cortado
<1>3. \/ EnGrafo(cfg, k, p, post) \/ EnOpcion(cfg, k, p, post) \/ EnEntrada(cfg, k, p, pre, post)
      \/ EnSalida(cfg, k, p, pre, post) \/ EnFin(cfg, k, p, pre, post)
  BY <1>1, <1>2, Situacion, Zenon DEF CortadoCon
<1>4. AddOpt \/ FinishInput \/ FinishOutput \/ SplitDone
  BY DEF Next, Generar, OpenOutput, CheckFilterOutputs, InitStreams, Done
<1>5. CASE EnGrafo(cfg, k, p, post) \/ EnOpcion(cfg, k, p, post)
  <2>1. AddOpt
    BY <1>4, <1>5 DEF EnGrafo, EnOpcion, FinishInput, FinishOutput, SplitDone
  <2>2. Cortado'
    BY <1>1, <1>2, <1>5, <2>1, GrafoInv, OpcionInv, Zenon
  <2>3. cfg' = cfg /\ stage' = stage /\ used' = used /\ streams' = streams
    BY <2>1 DEF AddOpt
  <2> QED
    BY <1>1, <2>2, <2>3 DEF IInv
<1>6. CASE EnEntrada(cfg, k, p, pre, post)
  <2>1. FinishInput
    BY <1>4, <1>6 DEF EnEntrada, AddOpt, FinishOutput, SplitDone
  <2>2. Cortado'
    BY <1>1, <1>2, <1>6, <2>1, EntradaInv, Zenon
  <2>3. cfg' = cfg /\ stage' = stage /\ used' = used /\ streams' = streams
    BY <2>1 DEF FinishInput
  <2> QED
    BY <1>1, <2>2, <2>3 DEF IInv
<1>7. CASE EnSalida(cfg, k, p, pre, post)
  <2>1. FinishOutput
    BY <1>4, <1>7 DEF EnSalida, AddOpt, FinishInput, SplitDone
  <2>2. Cortado'
    BY <1>1, <1>2, <1>7, <2>1, SalidaInv, Zenon
  <2>3. cfg' = cfg /\ stage' = stage /\ used' = used /\ streams' = streams
    BY <2>1 DEF FinishOutput
  <2> QED
    BY <1>1, <2>2, <2>3 DEF IInv
<1>8. CASE EnFin(cfg, k, p, pre, post)
  <2>1. SplitDone
    BY <1>4, <1>8 DEF EnFin, AddOpt, FinishInput, FinishOutput
  <2>2. Abierto' /\ cur' = <<>> /\ argv' = <<>>
    BY <1>1, <1>2, <1>8, <2>1, FinInv, Zenon
  <2>3. cfg' = cfg /\ stage' = "open"
    BY <2>1 DEF SplitDone
  <2> QED
    BY <1>1, <2>2, <2>3 DEF IInv
<1> QED
  BY <1>3, <1>5, <1>6, <1>7, <1>8

-----------------------------------------------------------------------------
(* The outputs are opened.                                                 *)

(* The search order of the pads is total.                                  *)
LEMMA AntesEs ==
  ASSUME graphs \in Seq(Grafo), NEW q \in Pads, NEW r \in Pads
  PROVE  /\ Before(q, r) \/ Before(r, q)
         /\ Before(q, r) /\ Before(r, q) => q = r
<1>1. Pads = PadsDe(graphs)
  BY DEF Pads, PadsDe
<1>2. Len(graphs) \in Nat /\ \A i \in 1..Len(graphs) : Len(graphs[i]) \in Nat
  BY DEF Grafo
<1>3. ASSUME NEW z \in Pads
      PROVE  z = <<z[1], z[2]>> /\ z[1] \in Nat /\ z[2] \in Nat
  <2>1. z = <<z[1], z[2]>> /\ z[1] \in 1..Len(graphs) /\ z[2] \in 1..Len(graphs[z[1]])
    BY <1>1, <1>3, PadsSon, Zenon
  <2> QED
    BY <1>2, <2>1
<1>4. q = <<q[1], q[2]>> /\ q[1] \in Nat /\ q[2] \in Nat /\ r = <<r[1], r[2]>> /\ r[1] \in Nat /\ r[2] \in Nat
  BY <1>3, Zenon
<1>5. Before(q, r) \/ Before(r, q)
  BY <1>4 DEF Before
<1>6. Before(q, r) /\ Before(r, q) => q[1] = r[1] /\ q[2] = r[2]
  BY <1>4 DEF Before
<1> QED
  BY <1>4, <1>5, <1>6, Zenon

(* The pad that open_output_file finds for an output is the output's own.  *)
LEMMA PadDe ==
  ASSUME Buena(cfg), NEW ok, NEW po, NEW o \in Nat, Orden(cfg, ok), Duenos(cfg, po), o + 1 \in 1..Len(ok),
         \A l \in Salidas(cfg) : \E m \in 1..Len(ok) : ok[m] = l,
         used = {q \in Pads : \E n \in 1..o : ok[n] = po[q]},
         EsDvb(ok[o + 1]), NEW q0 \in Pads, po[q0] = ok[o + 1]
  PROVE  LET L == Etiqueta(cfg, ok[o + 1][3])
         IN  /\ Free(L) # {} /\ FirstPad(L) = q0 /\ SourceOf(FirstPad(L)) = cfg.subs[ok[o + 1][3]]
             /\ \A q \in Pads : po[q] = ok[o + 1] => q = q0
<1> DEFINE k == ok[o + 1]
           L == Etiqueta(cfg, k[3])
           F == Free(L)
<1>1. /\ graphs \in Seq(Grafo) /\ po \in [Pads -> Dvb(cfg)]
      /\ \A q \in Pads : /\ graphs[q[1]][q[2]].label = Etiqueta(cfg, po[q][3])
                         /\ graphs[q[1]][q[2]].lang = cfg.subs[po[q][3]]
      /\ \A q, r \in Pads : q # r /\ Before(q, r) /\ Etiqueta(cfg, po[q][3]) = Etiqueta(cfg, po[r][3]) =>
           Menor(po[q], po[r])
  BY Zenon DEF Duenos, Etiquetas, EnOrden
<1>2. /\ ok \in Seq(Salidas(cfg)) /\ \A m, n \in 1..Len(ok) : m < n => Menor(ok[m], ok[n])
  BY DEF Orden
<1>3. k \in Salidas(cfg) /\ k \in Claves(cfg) /\ Len(ok) \in Nat
  BY <1>2 DEF Claves
<1>4. \A q : q \in F <=> q \in Pads /\ q \notin used /\ Etiqueta(cfg, po[q][3]) = L
  <2>1. \A q : q \in F <=> q \in Pads /\ q \notin used /\ graphs[q[1]][q[2]].label = L
    BY Zenon DEF Free, Pads
  <2> HIDE DEF F, L
  <2> QED
    BY <1>1, <2>1, Zenon
<1> HIDE DEF F
<1>5. \A n \in 1..o : Menor(ok[n], k) /\ ok[n] \in Claves(cfg) /\ n \in 1..Len(ok)
  <2> TAKE n \in 1..o
  <2>1. n \in 1..Len(ok) /\ n < o + 1
    BY <1>3
  <2>2. Menor(ok[n], k)
    BY <1>2, <2>1
  <2> QED
    BY <1>2, <2>1, <2>2 DEF Claves
<1>6. \A n \in 1..o : ok[n] # k
  BY <1>3, <1>5, MenorEs, Zenon
<1>7. q0 \in F
  <2>1. po[q0] = k
    OBVIOUS
  <2> HIDE DEF k
  <2>2. q0 \notin used
    BY <1>6, <2>1, Zenon
  <2> QED
    BY <1>4, <2>1, <2>2, Zenon
<1>8. \A q \in F : po[q] = k \/ Menor(k, po[q])
  <2> TAKE q \in F
  <2>1. q \in Pads /\ q \notin used
    BY <1>4, Zenon
  <2>2. po[q] \in Salidas(cfg)
    BY <1>1, <2>1 DEF Dvb
  <2>3. PICK m \in 1..Len(ok) : ok[m] = po[q]
    BY <2>2, Zenon
  <2>4. m \notin 1..o
    BY <2>1, <2>3, Zenon
  <2>5. m = o + 1 \/ o + 1 < m
    BY <1>3, <2>3, <2>4
  <2> QED
    BY <1>2, <2>3, <2>5
<1>9. \A q \in F : po[q] \in Claves(cfg) /\ q \in Pads
  BY <1>1, <1>4 DEF Dvb, Claves
<1>10. po[q0] = k
  OBVIOUS
<1>11. ASSUME NEW q \in F
       PROVE  Before(q0, q)
  <2>1. q \in Pads /\ Etiqueta(cfg, po[q][3]) = L
    BY <1>4, Zenon
  <2>2. CASE q = q0
    BY <2>1, <2>2, <1>1, AntesEs, Zenon
  <2>3. CASE q # q0
    <3>1. ~Before(q, q0)
      <4> SUFFICES ASSUME Before(q, q0)
                   PROVE  FALSE
        OBVIOUS
      <4>1. Etiqueta(cfg, po[q0][3]) = L
        BY <1>10
      <4> HIDE DEF L, k
      <4>2. Menor(po[q], po[q0])
        BY <1>1, <2>1, <2>3, <4>1, Zenon
      <4>3. Menor(po[q], k)
        BY <1>10, <4>2, Zenon
      <4> QED
        BY <1>3, <1>8, <1>9, <4>3, MenorEs, Zenon
    <3> QED
      BY <1>1, <2>1, <3>1, AntesEs, Zenon
  <2> QED
    BY <2>2, <2>3
<1> HIDE DEF L, k
<1>12. FirstPad(L) = q0
  <2> DEFINE f == FirstPad(L)
  <2>1. f = CHOOSE p \in F : \A q \in F : Before(p, q)
    BY Zenon DEF FirstPad, F
  <2> HIDE DEF f
  <2>2. f \in F /\ \A q \in F : Before(f, q)
    BY <1>7, <1>11, <2>1, Zenon
  <2>3. Before(f, q0) /\ Before(q0, f) /\ f \in Pads
    BY <1>7, <1>9, <1>11, <2>2, Zenon
  <2>4. f = q0
    BY <1>1, <2>3, AntesEs, Zenon
  <2> QED
    BY <2>4 DEF f
<1>13. SourceOf(FirstPad(L)) = cfg.subs[k[3]]
  <2>1. SourceOf(q0) = cfg.subs[po[q0][3]]
    BY <1>1, Zenon DEF SourceOf
  <2> QED
    BY <1>10, <1>12, <2>1
<1>14. ASSUME NEW q \in Pads, po[q] = k
       PROVE  q = q0
  <2> SUFFICES ASSUME q # q0
               PROVE  FALSE
    OBVIOUS
  <2>1. Before(q, q0) \/ Before(q0, q)
    BY <1>1, AntesEs, Zenon
  <2>2. Menor(k, k)
    BY <1>1, <1>10, <1>14, <2>1, Zenon
  <2> QED
    BY <1>3, <2>2, MenorEs, Zenon
<1>15. Free(L) # {}
  BY <1>7 DEF F
<1> QED
  BY <1>12, <1>13, <1>14, <1>15, Zenon DEF L, k

Partes(x, n) == n > 0 => Head(x) = x[1] /\ Tail(x) = [m \in 1..(n - 1) |-> x[m + 1]]

(* A function on 1..n is a sequence.                                       *)
LEMMA Funcion ==
  ASSUME NEW n \in Nat, NEW T, NEW x \in [1..n -> T]
  PROVE  /\ x \in Seq(T) /\ Len(x) = n
         /\ x = <<>> <=> n = 0
         /\ Partes(x, n)
<1>1. x \in Seq(T) /\ Len(x) = n
  OBVIOUS
<1>2. x = <<>> <=> n = 0
  BY <1>1, EmptySeq
<1>3. ASSUME n > 0
      PROVE  Head(x) = x[1] /\ Tail(x) = [m \in 1..(n - 1) |-> x[m + 1]]
  <2>1. x # <<>>
    BY <1>2, <1>3
  <2>2. Head(x) = x[1]
    BY <1>1, <2>1
  <2>3. Tail(x) \in Seq(T) /\ Len(Tail(x)) = n - 1 /\ \A m \in 1..(n - 1) : Tail(x)[m] = x[m + 1]
    BY <1>1, <2>1, HeadTailProperties
  <2>4. Tail(x) = [m \in 1..Len(Tail(x)) |-> Tail(x)[m]]
    <3> DEFINE y == Tail(x)
    <3>1. y \in Seq(T)
      BY <2>3
    <3> HIDE DEF y
    <3>2. y = [m \in 1..Len(y) |-> y[m]]
      BY <3>1
    <3> QED
      BY <3>2 DEF y
  <2> QED
    BY <2>2, <2>3, <2>4
<1> QED
  BY <1>1, <1>2, <1>3 DEF Partes

Quedan(x, c, ok, o) == x = [m \in 1..(Len(ok) - o) |-> Grupo(c, m + o, ok[m + o])]

(* The next group to open is that of the next key.                         *)
LEMMA Siguiente ==
  ASSUME NEW c, NEW ok, NEW S, ok \in Seq(S), NEW o \in 0..Len(ok), NEW x, Quedan(x, c, ok, o)
  PROVE  /\ x = <<>> => o = Len(ok)
         /\ x # <<>> => /\ o + 1 \in 1..Len(ok) /\ o \in Nat /\ o + 1 \in 0..Len(ok)
                        /\ Head(x) = Grupo(c, o + 1, ok[o + 1])
                        /\ Quedan(Tail(x), c, ok, o + 1)
<1> DEFINE G(m) == Grupo(c, m, ok[m])
           n == Len(ok) - o
<1>1. Len(ok) \in Nat /\ n \in Nat /\ o \in Nat
  OBVIOUS
<1>2. x = [m \in 1..n |-> G(m + o)]
  BY DEF Quedan
<1> HIDE DEF G, n
<1> DEFINE T == {G(m + o) : m \in 1..n}
<1>3. x \in [1..n -> T]
  BY <1>2
<1> HIDE DEF T
<1>4. /\ x = <<>> <=> n = 0
      /\ n > 0 => Head(x) = x[1] /\ Tail(x) = [m \in 1..(n - 1) |-> x[m + 1]]
  <2>1. x = <<>> <=> n = 0
    BY <1>1, <1>3, Funcion
  <2>2. Partes(x, n)
    BY <1>1, <1>3, Funcion, Zenon
  <2> QED
    BY <2>1, <2>2 DEF Partes
<1>5. x = <<>> <=> o = Len(ok)
  BY <1>1, <1>4 DEF n
<1>6. ASSUME x # <<>>
      PROVE  /\ o + 1 \in 1..Len(ok) /\ o + 1 \in 0..Len(ok)
             /\ Head(x) = G(o + 1)
             /\ Tail(x) = [m \in 1..(n - 1) |-> G(m + (o + 1))]
  <2>1. n > 0
    BY <1>1, <1>4, <1>6
  <2>2. o + 1 \in 1..Len(ok) /\ o + 1 \in 0..Len(ok)
    BY <1>1, <2>1 DEF n
  <2>3. Head(x) = x[1] /\ x[1] = G(1 + o) /\ 1 + o = o + 1
    BY <1>1, <1>2, <1>4, <2>1
  <2>4. Tail(x) = [m \in 1..(n - 1) |-> x[m + 1]]
    BY <1>4, <2>1
  <2>5. \A m \in 1..(n - 1) : x[m + 1] = G(m + (o + 1))
    <3> TAKE m \in 1..(n - 1)
    <3>1. m + 1 \in 1..n /\ (m + 1) + o = m + (o + 1)
      BY <1>1, <2>1
    <3> QED
      BY <1>2, <3>1
  <2> QED
    BY <2>2, <2>3, <2>4, <2>5
<1>7. n - 1 = Len(ok) - (o + 1)
  BY <1>1 DEF n
<1> QED
  BY <1>1, <1>5, <1>6, <1>7 DEF G, Quedan

(* open_output_file finds the pad of the subtitle of the output.           *)
LEMMA Apertura ==
  ASSUME Buena(cfg), NEW ok, NEW po, NEW o \in Nat, AbiertoCon(ok, po, o), o + 1 \in 1..Len(ok)
  PROVE  LET k == ok[o + 1]
             g == Propias(cfg, k)
         IN  /\ Fatal(g) <=> Prohibida(cfg, k)
             /\ Abiertas(o + 1, Archivo(cfg, k), g) = Esperadas(cfg, o + 1, k)
             /\ used \cup {FirstPad(l) : l \in LabelMaps(g)}
                  = {q \in Pads : \E n \in 1..(o + 1) : ok[n] = po[q]}
             /\ k \in Salidas(cfg)
<1> DEFINE k == ok[o + 1]
           g == Propias(cfg, k)
           N == o + 1
           f == Archivo(cfg, k)
           Libres == {FirstPad(l) : l \in LabelMaps(g)}
<1>1. /\ Orden(cfg, ok) /\ Duenos(cfg, po) /\ decoder = EntradaCab(cfg)
      /\ \A l \in Salidas(cfg) : \E m \in 1..Len(ok) : ok[m] = l
      /\ \A l \in Dvb(cfg) : \E q \in Pads : po[q] = l
      /\ used = {q \in Pads : \E n \in 1..o : ok[n] = po[q]}
  BY DEF AbiertoCon
<1>2. k \in Salidas(cfg) /\ k \in Claves(cfg) /\ N \in Nat
  BY <1>1 DEF Orden, Claves
<1>3. k[1] \in {1, 2, 3} /\ k[3] \in Nat
  BY <1>2 DEF Salidas
<1>4. \A m : m \in 1..N <=> m \in 1..o \/ m = N
  OBVIOUS
<1>5. po \in [Pads -> Dvb(cfg)]
  BY <1>1 DEF Duenos
<1>6. {q \in Pads : \E n \in 1..N : ok[n] = po[q]} = used \cup {q \in Pads : po[q] = k}
  <2> HIDE DEF N
  <2>1. ok[N] = k
    BY DEF N
  <2> HIDE DEF k
  <2>2. \A q : (\E n \in 1..N : ok[n] = po[q]) <=> (\E n \in 1..o : ok[n] = po[q]) \/ po[q] = k
    BY <1>4, <2>1, Zenon
  <2> QED
    BY <1>1, <2>2
<1> HIDE DEF N
<1>7. CASE ~EsDvb(k)
  <2>1. \A q \in Pads : po[q] # k
    BY <1>5, <1>7 DEF Dvb
  <2>2. {q \in Pads : po[q] = k} = {}
    BY <2>1, Zenon
  <2>3. (Fatal(g) <=> Prohibida(cfg, k)) /\ Abiertas(N, f, g) = Esperadas(cfg, N, k) /\ LabelMaps(g) = {}
    <3>1. CASE k[1] = 1
      <4>1. k[3] = 0
        BY <1>3, <1>7, <3>1 DEF EsDvb
      <4>2. LabelMaps(g) = {}
        <5>1. k[2] \in 1..NB(cfg) /\ k = <<1, k[2], 0>>
          BY <1>2, <3>1, <4>1, FormaClave
        <5> DEFINE i == k[2]
        <5>2. i \in 1..NB(cfg) /\ k = <<1, i, 0>>
          BY <5>1
        <5> HIDE DEF i, k
        <5>3. LabelMaps(Propias(cfg, <<1, i, 0>>)) = {}
          BY <5>2, MapeadoVideo, Zenon
        <5> QED
          BY <5>2, <5>3, Zenon
      <4>3. (Fatal(g) <=> Prohibida(cfg, k)) /\ Abiertas(N, f, g) = Esperadas(cfg, N, k)
        <5> HIDE DEF k
        <5> QED
          BY <1>1, <1>2, <3>1, <4>1, AbreVideo, FatalVideo, Zenon
      <4> QED
        BY <4>2, <4>3
    <3>2. CASE k[1] = 2
      <4>1. k[1] # 1
        BY <3>2
      <4> HIDE DEF k
      <4> QED
        BY <1>1, <1>2, <3>2, <4>1, AbreAudio, FatalOtros, Zenon
    <3>3. CASE k[1] = 3
      <4>1. k[1] # 1
        BY <3>3
      <4> HIDE DEF k
      <4> QED
        BY <1>1, <1>2, <3>3, <4>1, AbreSubs, FatalOtros, Zenon
    <3> QED
      BY <1>3, <3>1, <3>2, <3>3, Zenon
  <2>4. Libres = {}
    BY <2>3
  <2> HIDE DEF k, f, g, Libres
  <2>5. used \cup Libres = {q \in Pads : \E n \in 1..N : ok[n] = po[q]}
    BY <1>6, <2>2, <2>4
  <2> QED
    BY <1>2, <2>3, <2>5, Zenon DEF k, f, g, N, Libres
<1>8. CASE EsDvb(k)
  <2>1. k \in Dvb(cfg)
    BY <1>2, <1>8 DEF Dvb
  <2>2. PICK q0 \in Pads : po[q0] = k
    BY <1>1, <2>1, Zenon
  <2> DEFINE L == Etiqueta(cfg, k[3])
  <2>3. /\ Free(L) # {} /\ FirstPad(L) = q0 /\ SourceOf(FirstPad(L)) = cfg.subs[k[3]]
        /\ \A q \in Pads : po[q] = k => q = q0
    BY <1>1, <1>8, <2>2, PadDe
  <2>4. {q \in Pads : po[q] = k} = {q0}
    BY <2>2, <2>3
  <2> HIDE DEF k
  <2>5. /\ Abiertas(N, f, g) = Esperadas(cfg, N, k) /\ LabelMaps(g) = {L}
    BY <1>1, <1>2, <1>8, <2>3, AbreDvb, Zenon
  <2>6. Fatal(g) <=> Prohibida(cfg, k)
    BY <1>1, <1>2, <1>8, <2>3, FatalDvb, Zenon
  <2> HIDE DEF f, g, L
  <2>7. Libres = {q0}
    BY <2>3, <2>5
  <2> HIDE DEF Libres
  <2>8. used \cup Libres = {q \in Pads : \E n \in 1..N : ok[n] = po[q]}
    BY <1>6, <2>4, <2>7, Zenon
  <2> QED
    BY <1>2, <2>5, <2>6, <2>8, Zenon DEF k, f, g, N, Libres
<1> QED
  BY <1>7, <1>8, Zenon

(* The elements of a concatenation.                                        *)
LEMMA Rango ==
  ASSUME NEW X, NEW s \in Seq(X), NEW Y, NEW t \in Seq(Y)
  PROVE  /\ s \o t \in Seq(X \cup Y)
         /\ Ops(s \o t) = Ops(s) \cup Ops(t)
<1> DEFINE Z == X \cup Y
           z == s \o t
           m == Len(s)
           n == Len(t)
<1>1. s \in Seq(Z) /\ t \in Seq(Z) /\ m \in Nat /\ n \in Nat
  <2>1. X \subseteq Z /\ Y \subseteq Z
    OBVIOUS
  <2> QED
    BY <2>1, SeqMono
<1> HIDE DEF Z
<1>2. /\ z \in Seq(Z) /\ Len(z) = m + n
      /\ \A i \in 1..(m + n) : z[i] = IF i <= m THEN s[i] ELSE t[i - m]
  BY <1>1, ConcatProperties
<1> HIDE DEF z, m, n
<1>3. ASSUME NEW i \in 1..(m + n)
      PROVE  (\E j \in 1..m : z[i] = s[j]) \/ \E j \in 1..n : z[i] = t[j]
  <2>1. CASE i <= m
    <3>1. i \in 1..m /\ z[i] = s[i]
      BY <1>1, <1>2, <2>1
    <3> QED
      BY <3>1, Zenon
  <2>2. CASE ~(i <= m)
    <3>1. i - m \in 1..n /\ z[i] = t[i - m]
      BY <1>1, <1>2, <2>2
    <3> QED
      BY <3>1, Zenon
  <2> QED
    BY <2>1, <2>2
<1>4. ASSUME NEW j \in 1..m
      PROVE  \E i \in 1..(m + n) : z[i] = s[j]
  <2>1. j \in 1..(m + n) /\ z[j] = s[j]
    BY <1>1, <1>2
  <2> QED
    BY <2>1, Zenon
<1>5. ASSUME NEW j \in 1..n
      PROVE  \E i \in 1..(m + n) : z[i] = t[j]
  <2>1. j + m \in 1..(m + n) /\ ~(j + m <= m) /\ (j + m) - m = j
    BY <1>1
  <2>2. z[j + m] = t[j]
    BY <1>2, <2>1
  <2> QED
    BY <2>1, <2>2, Zenon
<1>6. {z[i] : i \in 1..(m + n)} = {s[i] : i \in 1..m} \cup {t[i] : i \in 1..n}
  BY <1>3, <1>4, <1>5, SMTT(60)
<1> QED
  BY <1>2, <1>6 DEF z, m, n, Z, Ops

(* The streams of an output are finitely many.                             *)
LEMMA EsperadasFinita == \A c, n, k : IsFiniteSet(Esperadas(c, n, k))
<1> TAKE c, n, k
<1>1. \A a : IsFiniteSet({a})
  BY FS_Singleton, Zenon
<1>2. \A a, b : IsFiniteSet({a, b})
  <2> TAKE a, b
  <2>1. {a, b} = {a} \cup {b}
    OBVIOUS
  <2>2. IsFiniteSet({a} \cup {b})
    BY <1>1, FS_AddElement
  <2> QED
    BY <2>1, <2>2
<1> QED
  BY <1>1, <1>2, Zenon DEF Esperadas

(* One more output adds its streams.                                       *)
LEMMA EmitidasMas ==
  ASSUME NEW c, NEW ok, NEW o \in Nat
  PROVE  Emitidas(c, ok, o + 1) = Emitidas(c, ok, o) \cup Esperadas(c, o + 1, ok[o + 1])
<1> DEFINE n == o + 1
           F(m) == Esperadas(c, m, ok[m])
<1>1. \A m : m \in 1..n <=> m \in 1..o \/ m = n
  OBVIOUS
<1>2. \A i, x : x \in Emitidas(c, ok, i) <=> \E m \in 1..i : x \in F(m)
  BY Zenon DEF Emitidas
<1> HIDE DEF n, F
<1>3. \A x : x \in Emitidas(c, ok, n) <=> x \in Emitidas(c, ok, o) \/ x \in F(n)
  BY <1>1, <1>2, Zenon
<1>4. Emitidas(c, ok, n) = Emitidas(c, ok, o) \cup F(n)
  BY <1>3
<1> QED
  BY <1>4 DEF n, F

(* OpenOutput.                                                             *)
LEMMA AbreInv ==
  ASSUME IInv, stage = "open", OpenOutput
  PROVE  IInv'
<1>1. cfg \in Configs /\ Buena(cfg) /\ argv = <<>> /\ cur = <<>> /\ Abierto
  BY DEF IInv
<1>2. PICK ok, po, o : AbiertoCon(ok, po, o)
  BY <1>1, Zenon DEF Abierto
<1>3. /\ Orden(cfg, ok) /\ o \in 0..Len(ok) /\ Quedan(outs, cfg, ok, o)
      /\ \A l \in Salidas(cfg) : \E m \in 1..Len(ok) : ok[m] = l
      /\ Duenos(cfg, po) /\ \A l \in Dvb(cfg) : \E q \in Pads : po[q] = l
      /\ decoder = EntradaCab(cfg)
      /\ \E X : streams \in Seq(X)
      /\ AllStreams = Emitidas(cfg, ok, o)
      /\ \A n \in 1..o : ~Prohibida(cfg, ok[n])
      /\ used = {q \in Pads : \E n \in 1..o : ok[n] = po[q]}
  BY <1>2, Zenon DEF AbiertoCon, Quedan
<1>4. outs # <<>> /\ ok \in Seq(Salidas(cfg))
  BY <1>3 DEF OpenOutput, Orden
<1> DEFINE N == o + 1
           k == ok[N]
           g == Propias(cfg, k)
           f == Archivo(cfg, k)
<1>5. /\ N \in 1..Len(ok) /\ N \in 0..Len(ok) /\ o \in Nat
      /\ Head(outs) = Grupo(cfg, N, k) /\ Quedan(Tail(outs), cfg, ok, N)
  <2>1. \A x : Quedan(x, cfg, ok, o) /\ x # <<>> =>
          /\ o + 1 \in 1..Len(ok) /\ o \in Nat /\ o + 1 \in 0..Len(ok)
          /\ Head(x) = Grupo(cfg, o + 1, ok[o + 1]) /\ Quedan(Tail(x), cfg, ok, o + 1)
    BY <1>3, <1>4, Siguiente, Zenon
  <2> QED
    BY <1>3, <1>4, <2>1, Zenon
<1>6. /\ Fatal(g) <=> Prohibida(cfg, k)
      /\ Abiertas(N, f, g) = Esperadas(cfg, N, k)
      /\ used \cup {FirstPad(l) : l \in LabelMaps(g)} = {q \in Pads : \E n \in 1..N : ok[n] = po[q]}
  BY <1>1, <1>2, <1>5, Apertura
<1>7. Head(outs).n = N /\ Head(outs).file = f /\ Head(outs).opts = g
  BY <1>5 DEF Grupo
<1>8. /\ cfg' = cfg /\ argv' = argv /\ cur' = cur /\ decoder' = decoder /\ graphs' = graphs
      /\ IF Fatal(g)
         THEN stage' = "fatal" /\ outs' = outs /\ used' = used /\ streams' = streams
         ELSE /\ outs' = Tail(outs) /\ streams' = streams \o SetToSeq(Abiertas(N, f, g))
              /\ used' = used \cup {FirstPad(l) : l \in LabelMaps(g)}
              /\ stage' = stage
  <2>1. Opened(N, f, g) = SetToSeq(Abiertas(N, f, g))
    BY Zenon DEF Opened, Abiertas
  <2> HIDE DEF N, g, f
  <2> QED
    BY <1>7, <2>1 DEF OpenOutput
<1>9. o < Len(ok) /\ Len(ok) \in Nat
  BY <1>4, <1>5
<1>10. Pads' = Pads /\ Duenos(cfg, po)'
  BY <1>3, <1>8, DuenosIgual, Zenon
<1>11. /\ Orden(cfg, ok)' /\ \A l \in Salidas(cfg') : \E m \in 1..Len(ok) : ok[m] = l
       /\ \A l \in Dvb(cfg') : \E q \in Pads' : po[q] = l
       /\ decoder' = EntradaCab(cfg')
  BY <1>3, <1>8, <1>10, Zenon
<1>12. CASE Fatal(g)
  <2>1. stage' = "fatal" /\ outs' = outs /\ used' = used /\ streams' = streams
    BY <1>8, <1>12
  <2>2. Prohibida(cfg, ok[o + 1])
    BY <1>6, <1>12
  <2>3. AllStreams' = AllStreams /\ \E X : streams' \in Seq(X)
    BY <1>3, <2>1 DEF AllStreams
  <2>4. AbiertoCon(ok, po, o)'
    <3>1. stage' # "ok" /\ stage' \notin {"init", "ok"}
      BY <2>1
    <3>2. Quedan(outs', cfg', ok, o)
      BY <1>3, <1>8, <2>1
    <3>3. used' = {q \in Pads' : \E n \in 1..o : ok[n] = po[q]}
      BY <1>3, <1>10, <2>1, Zenon
    <3>4. AllStreams' = Emitidas(cfg', ok, o)
      BY <1>3, <1>8, <2>3, Zenon
    <3>5. (\A n \in 1..o : ~Prohibida(cfg', ok[n])) /\ Prohibida(cfg', ok[o + 1])
      BY <1>3, <1>8, <2>2
    <3> HIDE DEF N, k, g, f
    <3> QED
      BY <1>3, <1>9, <1>10, <1>11, <2>3, <3>1, <3>2, <3>3, <3>4, <3>5, Zenon DEF AbiertoCon, Quedan
  <2>5. Abierto'
    BY <2>4, Zenon DEF Abierto
  <2> QED
    BY <1>1, <1>8, <2>1, <2>5 DEF IInv
<1>13. CASE ~Fatal(g)
  <2>1. /\ stage' = "open" /\ outs' = Tail(outs) /\ streams' = streams \o SetToSeq(Esperadas(cfg, N, k))
        /\ used' = {q \in Pads : \E n \in 1..N : ok[n] = po[q]}
    BY <1>6, <1>8, <1>13
  <2>2. ~Prohibida(cfg, k)
    BY <1>6, <1>13
  <2>3. \A m : m \in 1..N <=> m \in 1..o \/ m = N
    BY <1>5
  <2> DEFINE E == Esperadas(cfg, N, k)
             t == SetToSeq(E)
  <2>4. t \in Seq(E) /\ {t[i] : i \in 1..Len(t)} = E
    BY EsperadasFinita, DeConjunto
  <2>5. PICK X : streams \in Seq(X)
    BY <1>3
  <2> HIDE DEF E, t
  <2>6. streams' \in Seq(X \cup E) /\ AllStreams' = AllStreams \cup E
    <3>1. streams' = streams \o t
      BY <2>1 DEF t, E
    <3>2. streams \o t \in Seq(X \cup E) /\ Ops(streams \o t) = Ops(streams) \cup Ops(t)
      BY <2>4, <2>5, Rango, ZenonT(60)
    <3>3. AllStreams' = Ops(streams') /\ AllStreams = Ops(streams) /\ Ops(t) = E
      BY <2>4, Zenon DEF AllStreams, Ops
    <3> QED
      BY <3>1, <3>2, <3>3, Zenon
  <2>7. AllStreams' = Emitidas(cfg, ok, N)
    <3>1. E = Esperadas(cfg, N, ok[N])
      BY DEF E
    <3>2. Emitidas(cfg, ok, N) = Emitidas(cfg, ok, o) \cup Esperadas(cfg, N, ok[N])
      BY <1>5, EmitidasMas, Zenon
    <3> QED
      BY <1>3, <2>6, <3>1, <3>2, Zenon
  <2>8. AbiertoCon(ok, po, N)'
    <3>1. stage' # "ok" /\ stage' # "fatal" /\ stage' \notin {"init", "ok"}
      BY <2>1
    <3>2. Quedan(outs', cfg', ok, N)
      BY <1>5, <1>8, <2>1
    <3>3. \A n \in 1..N : ~Prohibida(cfg', ok[n])
      BY <1>3, <1>8, <2>2, <2>3
    <3> HIDE DEF N, k, g, f
    <3>4. used' = {q \in Pads' : \E n \in 1..N : ok[n] = po[q]}
      BY <1>10, <2>1, Zenon
    <3>5. AllStreams' = Emitidas(cfg', ok, N)
      BY <1>8, <2>7, Zenon
    <3> QED
      BY <1>5, <1>10, <1>11, <2>6, <3>1, <3>2, <3>3, <3>4, <3>5, Zenon DEF AbiertoCon, Quedan
  <2>9. Abierto'
    BY <2>8, Zenon DEF Abierto
  <2> QED
    BY <1>1, <1>8, <2>1, <2>9 DEF IInv
<1> QED
  BY <1>12, <1>13

(* CheckFilterOutputs: every pad has been taken.                           *)
LEMMA ListoInv ==
  ASSUME IInv, stage = "open", CheckFilterOutputs
  PROVE  IInv'
<1>1. cfg \in Configs /\ Buena(cfg) /\ argv = <<>> /\ cur = <<>> /\ Abierto
  BY DEF IInv
<1>2. PICK ok, po, o : AbiertoCon(ok, po, o)
  BY <1>1, Zenon DEF Abierto
<1>3. /\ Orden(cfg, ok) /\ o \in 0..Len(ok) /\ Quedan(outs, cfg, ok, o) /\ Duenos(cfg, po)
      /\ \A l \in Salidas(cfg) : \E m \in 1..Len(ok) : ok[m] = l
      /\ used = {q \in Pads : \E n \in 1..o : ok[n] = po[q]}
  BY <1>2, Zenon DEF AbiertoCon, Quedan
<1>4. outs = <<>> /\ ok \in Seq(Salidas(cfg))
  BY <1>3 DEF CheckFilterOutputs, Orden
<1>5. o = Len(ok)
  <2>1. \A x : Quedan(x, cfg, ok, o) /\ x = <<>> => o = Len(ok)
    BY <1>3, <1>4, Siguiente, Zenon
  <2> QED
    BY <1>3, <1>4, <2>1
<1>6. Pads \subseteq used
  <2> SUFFICES ASSUME NEW q \in Pads
               PROVE  \E n \in 1..o : ok[n] = po[q]
    BY <1>3
  <2>1. po[q] \in Salidas(cfg)
    BY <1>3 DEF Duenos, Dvb
  <2> QED
    BY <1>3, <1>5, <2>1, Zenon
<1>7. stage' = "init" /\ UNCHANGED <<cfg, argv, cur, outs, decoder, graphs, used, streams>>
  BY <1>6 DEF CheckFilterOutputs
<1>8. AbiertoCon(ok, po, o)'
  <2>1. Pads' = Pads /\ (Duenos(cfg, po)' <=> Duenos(cfg, po))
    BY <1>7, DuenosIgual, Zenon
  <2>2. AllStreams' = AllStreams /\ stage' # "fatal" /\ stage' # "ok"
    BY <1>7 DEF AllStreams
  <2>3. Orden(cfg, ok)' <=> Orden(cfg, ok)
    BY <1>7
  <2>4. cfg' = cfg /\ outs' = outs /\ decoder' = decoder /\ used' = used /\ streams' = streams
    BY <1>7
  <2> QED
    BY <1>2, <1>5, <2>1, <2>2, <2>3, <2>4, Zenon DEF AbiertoCon
<1>9. Abierto'
  BY <1>8, Zenon DEF Abierto
<1> QED
  BY <1>1, <1>7, <1>9 DEF IInv

(* InitStreams: it ends the program when some output is Rota.              *)
LEMMA InicioInv ==
  ASSUME IInv, stage = "init", InitStreams
  PROVE  IInv'
<1>1. cfg \in Configs /\ Buena(cfg) /\ argv = <<>> /\ cur = <<>> /\ Abierto
  BY DEF IInv
<1>2. PICK ok, po, o : AbiertoCon(ok, po, o)
  BY <1>1, Zenon DEF Abierto
<1>3. Orden(cfg, ok) /\ o = Len(ok) /\ AllStreams = Emitidas(cfg, ok, o) /\ Duenos(cfg, po)
  BY <1>2 DEF AbiertoCon
<1>4. \A n \in 1..o : ok[n] \in Salidas(cfg)
  BY <1>3 DEF Orden
<1>5. (\E i \in 1..Len(streams) : InitError(streams[i])) <=> \E n \in 1..o : Rota(cfg, ok[n])
  <2>1. (\E i \in 1..Len(streams) : InitError(streams[i])) <=> \E s \in AllStreams : InitError(s)
    BY Zenon DEF AllStreams
  <2>2. (\E s \in AllStreams : InitError(s)) <=>
          \E n \in 1..o : \E s \in Esperadas(cfg, n, ok[n]) : InitError(s)
    BY <1>3, Zenon DEF Emitidas
  <2>3. \A n \in 1..o : (\E s \in Esperadas(cfg, n, ok[n]) : InitError(s)) <=> Rota(cfg, ok[n])
    BY <1>1, <1>4, InitErrorEs, Zenon
  <2> QED
    BY <2>1, <2>2, <2>3, Zenon
<1>6. /\ UNCHANGED <<cfg, argv, cur, outs, decoder, graphs, used, streams>>
      /\ stage' = IF \E i \in 1..Len(streams) : InitError(streams[i]) THEN "fatal" ELSE "ok"
  BY DEF InitStreams
<1>7. /\ stage' \in {"ok", "fatal"}
      /\ stage' = "fatal" => \E n \in 1..o : Rota(cfg, ok[n])
      /\ stage' = "ok" => \A n \in 1..o : ~Rota(cfg, ok[n])
  BY <1>5, <1>6
<1>8. AbiertoCon(ok, po, o)'
  <2>1. Pads' = Pads /\ (Duenos(cfg, po)' <=> Duenos(cfg, po))
    BY <1>3, <1>6, DuenosIgual, Zenon
  <2>2. AllStreams' = AllStreams
    BY <1>6 DEF AllStreams
  <2>3. Orden(cfg, ok)' <=> Orden(cfg, ok)
    BY <1>6
  <2>4. cfg' = cfg /\ outs' = outs /\ decoder' = decoder /\ used' = used /\ streams' = streams
    BY <1>6
  <2> QED
    BY <1>2, <1>3, <1>7, <2>1, <2>2, <2>3, <2>4, Zenon DEF AbiertoCon
<1>9. Abierto'
  BY <1>8, Zenon DEF Abierto
<1> QED
  BY <1>1, <1>6, <1>7, <1>9 DEF IInv

(* A step that changes nothing.                                            *)
LEMMA QuietoInv == IInv /\ UNCHANGED vars => IInv'
<1> SUFFICES ASSUME IInv, UNCHANGED vars
             PROVE  IInv'
  OBVIOUS
<1>1. /\ cfg' = cfg /\ stage' = stage /\ argv' = argv /\ cur' = cur /\ outs' = outs /\ decoder' = decoder
      /\ graphs' = graphs /\ used' = used /\ streams' = streams
  BY DEF vars
<1>2. Pads' = Pads /\ AllStreams' = AllStreams
  BY <1>1, Zenon DEF Pads, AllStreams
<1>3. /\ \A po : Duenos(cfg, po)' <=> Duenos(cfg, po)
      /\ \A k, p, po : Creadas(cfg, k, p, po)' <=> Creadas(cfg, k, p, po)
  BY <1>1, DuenosIgual, Zenon
<1>4. ASSUME Cortado
      PROVE  Cortado'
  <2> PICK k, p, pre, post, ok, po : CortadoCon(k, p, pre, post, ok, po)
    BY <1>4, Zenon DEF Cortado
  <2>1. Partida(cfg, k, p, pre, post)' <=> Partida(cfg, k, p, pre, post)
    BY <1>1, Zenon DEF Partida
  <2>2. Hechas(cfg, ok)' <=> Hechas(cfg, ok)
    BY <1>1, Zenon DEF Hechas
  <2>3. (Orden(cfg, ok)' <=> Orden(cfg, ok)) /\ (Hasta(cfg, ok, k)' <=> Hasta(cfg, ok, k))
    BY <1>1
  <2>4. CortadoCon(k, p, pre, post, ok, po)'
    BY <1>3, <2>1, <2>2, <2>3, Zenon DEF CortadoCon
  <2> QED
    BY <2>4, Zenon DEF Cortado
<1>5. ASSUME Abierto
      PROVE  Abierto'
  <2> PICK ok, po, o : AbiertoCon(ok, po, o)
    BY <1>5, Zenon DEF Abierto
  <2>1. Orden(cfg, ok)' <=> Orden(cfg, ok)
    BY <1>1
  <2>2. AbiertoCon(ok, po, o)'
    BY <1>1, <1>2, <1>3, <2>1, Zenon DEF AbiertoCon
  <2> QED
    BY <2>2, Zenon DEF Abierto
<1>6. Antes => Antes'
  BY <1>1 DEF Antes
<1> QED
  BY <1>1, <1>4, <1>5, <1>6 DEF IInv

(* Every step preserves the invariant.                                     *)
LEMMA NextInv == IInv /\ [Next]_vars => IInv'
<1> SUFFICES ASSUME IInv, [Next]_vars
             PROVE  IInv'
  OBVIOUS
<1>1. CASE UNCHANGED vars
  BY <1>1, QuietoInv, Zenon
<1>2. CASE Next
  <2>1. stage \in {"go", "panic", "split", "open", "init", "ok", "fatal"}
    BY DEF IInv
  <2>2. CASE stage = "go"
    <3>1. Generar
      BY <1>2, <2>2 DEF Next, AddOpt, FinishInput, FinishOutput, SplitDone, OpenOutput, CheckFilterOutputs, InitStreams, Done
    <3> QED
      BY <3>1, GenerarInv, Zenon
  <2>3. CASE stage = "split"
    BY <1>2, <2>3, CorteInv, Zenon
  <2>4. CASE stage = "open"
    <3>1. OpenOutput \/ CheckFilterOutputs
      BY <1>2, <2>4 DEF Next, Generar, AddOpt, FinishInput, FinishOutput, SplitDone, InitStreams, Done
    <3> QED
      BY <2>4, <3>1, AbreInv, ListoInv, Zenon
  <2>5. CASE stage \in {"panic", "ok", "fatal"}
    <3>1. UNCHANGED vars
      BY <1>2, <2>5 DEF Next, Generar, AddOpt, FinishInput, FinishOutput, SplitDone, OpenOutput, CheckFilterOutputs, InitStreams, Done
    <3> QED
      BY <3>1, QuietoInv, Zenon
  <2>6. CASE stage = "init"
    <3>1. InitStreams
      BY <1>2, <2>6 DEF Next, Generar, AddOpt, FinishInput, FinishOutput, SplitDone, OpenOutput, CheckFilterOutputs, Done
    <3> QED
      BY <2>6, <3>1, InicioInv, Zenon
  <2> QED
    BY <2>1, <2>2, <2>3, <2>4, <2>5, <2>6
<1> QED
  BY <1>1, <1>2

-----------------------------------------------------------------------------
(* What the invariant says of the streams.                                 *)

(* A command line is Rechazada when one of its outputs is Prohibida, or    *)
(* Rota.                                                                   *)
LEMMA RechazadaEs ==
  ASSUME NEW c, Buena(c)
  PROVE  Rechazada(c) <=> \E k \in Salidas(c) : Prohibida(c, k) \/ Rota(c, k)
<1>1. /\ NB(c) \in Nat \ {0} /\ ND(c) \in Nat /\ Len(c.subs) \in Nat
  <2>1. Primera \in Claves(c)
    BY DEF Claves
  <2> QED
    BY <2>1, FormaClave
<1>2. c.subs \in Seq(STRING)
  BY DEF Buena, Considerada, Lineas
<1>3. c.subs = <<>> <=> Len(c.subs) = 0
  BY <1>2
<1>4. ND(c) # 0 <=> c.subs # <<>> /\ ~c.teletext
  BY <1>1, <1>3 DEF ND, Teletext
<1>4a. NB(c) > 1 <=> Len(Bitrates(c)) > 1
  <2>1. CASE Bitrates(c) = <<>>
    BY <2>1 DEF NB
  <2>2. CASE Bitrates(c) # <<>>
    BY <2>2 DEF NB
  <2> QED
    BY <2>1, <2>2
<1>4b. <<1, 1, 0>> \in Salidas(c)
  BY <1>1 DEF Salidas
<1>5. ASSUME Rechazada(c)
      PROVE  \E k \in Salidas(c) : Prohibida(c, k) \/ Rota(c, k)
  <2>1. CASE ~Custom(c) /\ c.deint
    <3>1. Prohibida(c, <<1, 1, 0>>)
      BY <2>1 DEF Prohibida
    <3> QED
      BY <1>4b, <3>1, Zenon
  <2>2. CASE ~Custom(c) /\ c.video = "mpeg2video" /\ c.subs # <<>> /\ ~c.teletext
    <3>1. <<1, 1, 1>> \in Salidas(c)
      BY <1>1, <1>4, <2>2 DEF Salidas
    <3>2. EsDvb(<<1, 1, 1>>)
      BY DEF EsDvb
    <3>3. Prohibida(c, <<1, 1, 1>>)
      BY <2>2, <3>2 DEF Prohibida
    <3> QED
      BY <3>1, <3>3, Zenon
  <2>3. CASE Custom(c) /\ Nvenc(c) /\ Nombre(c) = "hevc"
    <3>1. Rota(c, <<1, 1, 0>>)
      BY <2>3 DEF Rota
    <3> QED
      BY <1>4b, <3>1, Zenon
  <2>4. CASE c.hwaccel /\ Len(Bitrates(c)) > 1
    <3>1. <<1, 2, 0>> \in Salidas(c)
      BY <1>1, <1>4a, <2>4 DEF Salidas
    <3>2. Rota(c, <<1, 2, 0>>)
      BY <2>4 DEF Rota
    <3> QED
      BY <3>1, <3>2, Zenon
  <2> QED
    BY <1>5, <2>1, <2>2, <2>3, <2>4 DEF Rechazada
<1>6. ASSUME NEW k \in Salidas(c), Prohibida(c, k)
      PROVE  Rechazada(c)
  <2>1. ~Custom(c) /\ (c.deint \/ (EsDvb(k) /\ c.video = "mpeg2video"))
    BY <1>6 DEF Prohibida
  <2>2. EsDvb(k) => ND(c) # 0
    <3>1. k \in Claves(c)
      BY DEF Claves
    <3> QED
      BY <3>1, FormaClave DEF EsDvb
  <2> QED
    BY <1>4, <2>1, <2>2 DEF Rechazada
<1>7. ASSUME NEW k \in Salidas(c), Rota(c, k)
      PROVE  Rechazada(c)
  <2>1. CASE Custom(c) /\ Nvenc(c) /\ Nombre(c) = "hevc"
    BY <2>1 DEF Rechazada
  <2>2. CASE c.hwaccel /\ k[1] = 1 /\ k[2] # 1
    <3>1. k \in Claves(c)
      BY DEF Claves
    <3>2. k[2] \in 1..NB(c)
      BY <2>2, <3>1, FormaClave
    <3>3. NB(c) > 1
      BY <1>1, <2>2, <3>2
    <3> QED
      BY <1>4a, <2>2, <3>3 DEF Rechazada
  <2> QED
    BY <1>7, <2>1, <2>2 DEF Rota
<1> QED
  BY <1>5, <1>6, <1>7, Zenon

(* No global option is in the group of an output.                          *)
LEMMA SinGlobales ==
  ASSUME NEW c, Buena(c), NEW k \in Salidas(c), NEW n, NEW j \in 1..Len(Grupo(c, n, k).opts)
  PROVE  ~Global(Grupo(c, n, k).opts[j].o)
<1> DEFINE g == Propias(c, k)
<1>1. g \in Seq(Local)
  BY PropiasTipo DEF Claves
<1>2. Grupo(c, n, k).opts = g
  BY DEF Grupo
<1> HIDE DEF g
<1>3. j \in 1..Len(g)
  BY <1>2
<1>4. g[j] \in Local
  BY <1>1, <1>3
<1>5. g[j].o # "filter_complex"
  BY <1>4 DEF Local, Propios
<1> QED
  BY <1>2, <1>5 DEF Global

(* The invariant implies TypeOK.                                           *)
LEMMA InvTypeOK == IInv => TypeOK
<1> SUFFICES ASSUME IInv
             PROVE  TypeOK
  OBVIOUS
<1>1. stage \in Stages
  BY DEF IInv, Stages
<1>2. CASE stage \in {"go", "panic"}
  <2>1. Antes
    BY <1>2 DEF IInv
  <2> QED
    BY <1>1, <1>2, <2>1 DEF TypeOK, Antes
<1>3. CASE stage = "split"
  <2>1. Buena(cfg) /\ used = {} /\ Cortado
    BY <1>3 DEF IInv
  <2>2. PICK k, p, pre, post, ok, po : CortadoCon(k, p, pre, post, ok, po)
    BY <2>1, Zenon DEF Cortado
  <2>3. Orden(cfg, ok) /\ Hechas(cfg, ok)
    BY <2>2 DEF CortadoCon
  <2>4. ok \in Seq(Salidas(cfg)) /\ outs = [m \in 1..Len(ok) |-> Grupo(cfg, m, ok[m])]
    BY <2>3 DEF Orden, Hechas
  <2>5. Len(outs) = Len(ok) /\ \A i \in 1..Len(outs) : outs[i] = Grupo(cfg, i, ok[i]) /\ ok[i] \in Salidas(cfg)
    <3>1. Len(outs) = Len(ok)
      BY <2>4
    <3> QED
      BY <2>4, <3>1
  <2>6. \A i \in 1..Len(outs) : \A j \in 1..Len(outs[i].opts) : ~Global(outs[i].opts[j].o)
    BY <2>1, <2>5, SinGlobales, Zenon
  <2> QED
    BY <1>1, <1>3, <2>1, <2>6 DEF TypeOK
<1>4. CASE stage \in {"open", "init", "ok", "fatal"}
  <2>1. Buena(cfg) /\ argv = <<>> /\ cur = <<>> /\ Abierto
    BY <1>4 DEF IInv
  <2>2. PICK ok, po, o : AbiertoCon(ok, po, o)
    BY <2>1, Zenon DEF Abierto
  <2>3. /\ Orden(cfg, ok) /\ o \in 0..Len(ok) /\ used \subseteq Pads
        /\ outs = [m \in 1..(Len(ok) - o) |-> Grupo(cfg, m + o, ok[m + o])]
    BY <2>2 DEF AbiertoCon
  <2>4. ok \in Seq(Salidas(cfg)) /\ Len(ok) - o \in Nat /\ o \in Nat
    BY <2>3 DEF Orden
  <2>5. Len(outs) = Len(ok) - o
    BY <2>3, <2>4
  <2>6. \A i \in 1..Len(outs) : outs[i] = Grupo(cfg, i + o, ok[i + o]) /\ ok[i + o] \in Salidas(cfg)
    <3> TAKE i \in 1..Len(outs)
    <3>1. i \in 1..(Len(ok) - o) /\ i + o \in 1..Len(ok)
      BY <2>4, <2>5
    <3> QED
      BY <2>3, <2>4, <3>1
  <2>7. \A i \in 1..Len(outs) : \A j \in 1..Len(outs[i].opts) : ~Global(outs[i].opts[j].o)
    BY <2>1, <2>6, SinGlobales, Zenon
  <2> QED
    BY <1>1, <1>4, <2>1, <2>3, <2>7 DEF TypeOK
<1> QED
  BY <1>1, <1>2, <1>3, <1>4 DEF Stages

(* The invariant implies Arranca.                                          *)
LEMMA InvArranca == IInv => Arranca
<1> SUFFICES ASSUME IInv
             PROVE  Arranca
  OBVIOUS
<1>1. TypeOK
  BY InvTypeOK, Zenon
<1>2. ASSUME stage \in {"ok", "fatal"}
      PROVE  (stage = "fatal" => Rechazada(cfg)) /\ (stage = "ok" => ~Rechazada(cfg))
  <2>1. Buena(cfg) /\ Abierto
    BY <1>2 DEF IInv
  <2>2. PICK ok, po, o : AbiertoCon(ok, po, o)
    BY <2>1, Zenon DEF Abierto
  <2>3. /\ Orden(cfg, ok) /\ o \in 0..Len(ok) /\ \A l \in Salidas(cfg) : \E m \in 1..Len(ok) : ok[m] = l
        /\ \A n \in 1..o : ~Prohibida(cfg, ok[n])
        /\ stage = "fatal" => \/ o < Len(ok) /\ Prohibida(cfg, ok[o + 1])
                             \/ \E n \in 1..o : Rota(cfg, ok[n])
        /\ stage = "ok" => o = Len(ok) /\ \A n \in 1..o : ~Rota(cfg, ok[n])
    BY <2>2 DEF AbiertoCon
  <2>4. ok \in Seq(Salidas(cfg)) /\ Len(ok) \in Nat
    BY <2>3 DEF Orden
  <2>5. ASSUME stage = "fatal"
        PROVE  Rechazada(cfg)
    <3>1. CASE o < Len(ok) /\ Prohibida(cfg, ok[o + 1])
      <4>1. ok[o + 1] \in Salidas(cfg)
        BY <2>3, <2>4, <3>1
      <4> QED
        BY <2>1, <3>1, <4>1, RechazadaEs, Zenon
    <3>2. ASSUME NEW n \in 1..o, Rota(cfg, ok[n])
          PROVE  Rechazada(cfg)
      <4>1. ok[n] \in Salidas(cfg)
        BY <2>3, <2>4
      <4> QED
        BY <2>1, <3>2, <4>1, RechazadaEs, Zenon
    <3> QED
      BY <2>3, <2>5, <3>1, <3>2, Zenon
  <2>6. ASSUME stage = "ok"
        PROVE  ~Rechazada(cfg)
    <3>1. \A k \in Salidas(cfg) : ~Prohibida(cfg, k) /\ ~Rota(cfg, k)
      BY <2>3, <2>6, Zenon
    <3> QED
      BY <2>1, <3>1, RechazadaEs, Zenon
  <2> QED
    BY <2>5, <2>6
<1> QED
  BY <1>1, <1>2 DEF Arranca

(* The streams are the expected ones of the outputs opened, whose keys     *)
(* differ.                                                                 *)
Vistas(ok, o) ==
  /\ o \in Nat /\ (\A n \in 1..o : ok[n] \in Salidas(cfg))
  /\ \A m, n \in 1..o : m # n => ok[m] # ok[n]
  /\ \A s : s \in AllStreams <=> \E n \in 1..o : s \in Esperadas(cfg, n, ok[n])
  /\ o # 0 => Buena(cfg)

(* The invariant gives the keys of the outputs opened.                     *)
LEMMA StreamsSon == IInv => \E ok, o : Vistas(ok, o)
<1> SUFFICES ASSUME IInv
             PROVE  \E ok, o : Vistas(ok, o)
  OBVIOUS
<1>1. CASE streams = <<>>
  <2>1. AllStreams = {}
    BY <1>1 DEF AllStreams
  <2>2. Vistas(<<>>, 0)
    BY <2>1 DEF Vistas
  <2> QED
    BY <2>2, Zenon
<1>2. CASE streams # <<>>
  <2>1. Buena(cfg) /\ Abierto
    BY <1>2 DEF IInv, Antes
  <2>2. PICK ok, po, o : AbiertoCon(ok, po, o)
    BY <2>1, Zenon DEF Abierto
  <2>3. Orden(cfg, ok) /\ o \in 0..Len(ok) /\ AllStreams = Emitidas(cfg, ok, o)
    BY <2>2 DEF AbiertoCon
  <2>4. /\ ok \in Seq(Salidas(cfg)) /\ Len(ok) \in Nat /\ o \in Nat
        /\ \A m, n \in 1..Len(ok) : m < n => Menor(ok[m], ok[n])
    BY <2>3 DEF Orden
  <2>5. \A n \in 1..o : n \in 1..Len(ok) /\ ok[n] \in Salidas(cfg)
    BY <2>3, <2>4
  <2>6. ASSUME NEW m \in 1..o, NEW n \in 1..o, m # n
        PROVE  ok[m] # ok[n]
    <3>1. Menor(ok[m], ok[n]) \/ Menor(ok[n], ok[m])
      <4>1. m < n \/ n < m
        BY <2>6
      <4> QED
        BY <2>4, <2>5, <4>1, Zenon
    <3>2. ok[m] \in Claves(cfg) /\ ok[n] \in Claves(cfg)
      BY <2>5, Zenon DEF Claves
    <3> QED
      BY <2>1, <3>1, <3>2, MenorEs, Zenon
  <2>7. \A s : s \in AllStreams <=> \E n \in 1..o : s \in Esperadas(cfg, n, ok[n])
    BY <2>3, Zenon DEF Emitidas
  <2>8. Vistas(ok, o)
    BY <2>1, <2>4, <2>5, <2>6, <2>7, Zenon DEF Vistas
  <2> QED
    BY <2>8, Zenon
<1> QED
  BY <1>1, <1>2

Fuentes(c, k) ==
  IF k[1] = 1 THEN {IF k[3] = 0 THEN "video" ELSE c.subs[k[3]]}
  ELSE IF k[1] = 2 THEN {c.audio[k[2]]} ELSE {c.audio[1], c.subs[k[2]]}

(* The number, file and sources of the expected streams.                   *)
LEMMA EsperadaEs ==
  ASSUME NEW c, NEW n, NEW k
  PROVE  /\ \A t \in Esperadas(c, n, k) :
              /\ t.n = n /\ t.file = Archivo(c, k)
              /\ t.kind = "video" => k[1] = 1 /\ t = VideoDe(c, n, k)
         /\ {t.src : t \in Esperadas(c, n, k)} = Fuentes(c, k)
         /\ Esperadas(c, n, k) # {}
<1> DEFINE V == VideoDe(c, n, k)
           A == OtherStream(n, Archivo(c, k), "audio", c.audio[k[2]])
           B == OtherStream(n, Archivo(c, k), "audio", c.audio[1])
           D == OtherStream(n, Archivo(c, k), "subtitle", c.subs[k[2]])
<1>1. /\ V.n = n /\ V.file = Archivo(c, k) /\ V.src = (IF k[3] = 0 THEN "video" ELSE c.subs[k[3]])
  BY DEF VideoDe
<1>2. \A kd, s : LET x == OtherStream(n, Archivo(c, k), kd, s)
                 IN  x.n = n /\ x.file = Archivo(c, k) /\ x.kind = kd /\ x.src = s
  BY DEF OtherStream
<1>3. /\ A.n = n /\ A.file = Archivo(c, k) /\ A.kind # "video" /\ A.src = c.audio[k[2]]
      /\ B.n = n /\ B.file = Archivo(c, k) /\ B.kind # "video" /\ B.src = c.audio[1]
      /\ D.n = n /\ D.file = Archivo(c, k) /\ D.kind # "video" /\ D.src = c.subs[k[2]]
  BY <1>2
<1>4. Esperadas(c, n, k) = IF k[1] = 1 THEN {V} ELSE IF k[1] = 2 THEN {A} ELSE {B, D}
  BY Zenon DEF Esperadas
<1> HIDE DEF V, A, B, D
<1>5. CASE k[1] = 1
  <2>1. Esperadas(c, n, k) = {V}
    BY <1>4, <1>5
  <2>2. {t.src : t \in {V}} = Fuentes(c, k)
    BY <1>1, <1>5 DEF Fuentes
  <2> QED
    BY <1>1, <1>5, <2>1, <2>2 DEF V
<1>6. CASE k[1] = 2
  <2>1. Esperadas(c, n, k) = {A}
    BY <1>4, <1>6
  <2>2. {t.src : t \in {A}} = Fuentes(c, k)
    BY <1>3, <1>6 DEF Fuentes
  <2> QED
    BY <1>3, <2>1, <2>2
<1>7. CASE k[1] # 1 /\ k[1] # 2
  <2>1. Esperadas(c, n, k) = {B, D}
    BY <1>4, <1>7
  <2>2. {t.src : t \in {B, D}} = Fuentes(c, k)
    <3>1. Fuentes(c, k) = {B.src, D.src}
      BY <1>3, <1>7 DEF Fuentes
    <3> QED
      BY <3>1
  <2> QED
    BY <1>3, <2>1, <2>2
<1> QED
  BY <1>5, <1>6, <1>7

(* The same, for any key.                                                  *)
LEMMA EsperadaDe ==
  \A c, n, k, t : t \in Esperadas(c, n, k) =>
    /\ t.n = n /\ t.file = Archivo(c, k)
    /\ t.kind = "video" => k[1] = 1 /\ t = VideoDe(c, n, k)
<1> TAKE c, n, k, t
<1> HAVE t \in Esperadas(c, n, k)
<1> QED
  BY EsperadaEs

(* The directory, language and bitrate of the file of a key.               *)
LEMMA ArchivoEs ==
  ASSUME NEW c, NEW k
  PROVE  /\ k[1] = 1 /\ k[3] = 0 => /\ Archivo(c, k).dir = "video" /\ Archivo(c, k).lang = SinIdioma
                                    /\ Archivo(c, k).b = Tasa(c, k[2])
         /\ k[1] = 1 /\ k[3] # 0 => /\ Archivo(c, k).dir = "subtitulos" /\ Archivo(c, k).lang = c.subs[k[3]]
                                    /\ Archivo(c, k).b = Tasa(c, k[2])
         /\ k[1] = 2 => /\ Archivo(c, k).dir = "audio" /\ Archivo(c, k).lang = c.audio[k[2]]
                        /\ Archivo(c, k).b = <<>>
         /\ k[1] = 3 => /\ Archivo(c, k).dir = "subtitulos" /\ Archivo(c, k).lang = c.subs[k[2]]
                        /\ Archivo(c, k).b = <<>>
         /\ Archivo(c, k).fmp4 = (Nombre(c) = "hevc")
  BY DEF Archivo, File

(* What an output is named after is what it is made of.                    *)
LEMMA EsperaFuentes ==
  ASSUME Buena(cfg), NEW k \in Salidas(cfg)
  PROVE  Expected(Archivo(cfg, k)) = Fuentes(cfg, k)
<1>1. k \in Claves(cfg)
  BY DEF Claves
<1>2. k[1] \in {1, 2, 3} /\ k[3] \in Nat
  BY DEF Salidas
<1> DEFINE f == Archivo(cfg, k)
<1>3. /\ f.dir = "video" => Expected(f) = {"video"}
      /\ f.dir = "audio" => Expected(f) = {f.lang}
      /\ f.dir = "subtitulos" /\ Teletext(cfg) => Expected(f) = {cfg.audio[1], f.lang}
      /\ f.dir = "subtitulos" /\ ~Teletext(cfg) => Expected(f) = {f.lang}
  <2> HIDE DEF f
  <2> QED
    BY DEF Expected
<1>4. CASE k[1] = 1 /\ k[3] = 0
  BY <1>3, <1>4, ArchivoEs DEF Fuentes
<1>5. CASE k[1] = 1 /\ k[3] # 0
  <2>1. EsDvb(k)
    BY <1>2, <1>5 DEF EsDvb
  <2>2. ~Teletext(cfg)
    BY <1>1, <2>1, GrafoTipo, Zenon
  <2> QED
    BY <1>3, <1>5, <2>2, ArchivoEs DEF Fuentes
<1>6. CASE k[1] = 2
  BY <1>3, <1>6, ArchivoEs DEF Fuentes
<1>7. CASE k[1] = 3
  <2>1. Teletext(cfg)
    BY <1>1, <1>7, FormaClave DEF NT
  <2> QED
    BY <1>3, <1>7, <2>1, ArchivoEs DEF Fuentes
<1> QED
  BY <1>2, <1>4, <1>5, <1>6, <1>7

(* The invariant implies Contenido.                                        *)
LEMMA InvContenido == IInv => Contenido
<1> SUFFICES ASSUME IInv, NEW s \in AllStreams
             PROVE  Sources(s.n) = Expected(s.file)
  BY DEF Contenido, Outputs
<1>1. PICK ok, o : Vistas(ok, o)
  BY StreamsSon, Zenon
<1>2. PICK n \in 1..o : s \in Esperadas(cfg, n, ok[n])
  BY <1>1, Zenon DEF Vistas
<1>3. s.n = n /\ s.file = Archivo(cfg, ok[n])
  BY <1>2, EsperadaDe
<1>4. o \in Nat /\ o # 0 /\ ok[n] \in Salidas(cfg)
  BY <1>1, <1>2 DEF Vistas
<1>5. Buena(cfg)
  BY <1>1, <1>4, Zenon DEF Vistas
<1>6. \A t : t \in AllStreams /\ t.n = n <=> t \in Esperadas(cfg, n, ok[n])
  <2>1. ASSUME NEW t, t \in AllStreams, t.n = n
        PROVE  t \in Esperadas(cfg, n, ok[n])
    <3>1. PICK m \in 1..o : t \in Esperadas(cfg, m, ok[m])
      BY <1>1, <2>1, Zenon DEF Vistas
    <3>2. t.n = m
      BY <3>1, EsperadaDe
    <3> QED
      BY <2>1, <3>1, <3>2, Zenon
  <2>2. ASSUME NEW t, t \in Esperadas(cfg, n, ok[n])
        PROVE  t \in AllStreams /\ t.n = n
    <3>1. t \in AllStreams
      BY <1>1, <2>2, Zenon DEF Vistas
    <3>2. t.n = n
      BY <2>2, EsperadaDe
    <3> QED
      BY <3>1, <3>2
  <2> QED
    BY <2>1, <2>2, Zenon
<1>7. {t \in AllStreams : t.n = n} = Esperadas(cfg, n, ok[n])
  BY <1>6
<1>8. Sources(n) = {t.src : t \in Esperadas(cfg, n, ok[n])}
  BY <1>7, Zenon DEF Sources
<1>9. Sources(n) = Fuentes(cfg, ok[n])
  BY <1>8, EsperadaEs, ZenonT(60)
<1> QED
  BY <1>3, <1>4, <1>5, <1>9, EsperaFuentes, Zenon

(* A video stream is the expected one of some key.                         *)
LEMMA VideoEs ==
  ASSUME IInv, NEW s \in VideoStreams
  PROVE  \E n : \E k \in Salidas(cfg) : Buena(cfg) /\ k[1] = 1 /\ s = VideoDe(cfg, n, k)
<1>1. s \in AllStreams /\ s.kind = "video"
  BY DEF VideoStreams
<1>2. PICK ok, o : Vistas(ok, o)
  BY StreamsSon, Zenon
<1>3. PICK n \in 1..o : s \in Esperadas(cfg, n, ok[n])
  BY <1>1, <1>2, Zenon DEF Vistas
<1>4. o # 0 /\ ok[n] \in Salidas(cfg)
  BY <1>2, <1>3 DEF Vistas
<1>5. Buena(cfg)
  BY <1>2, <1>4, Zenon DEF Vistas
<1>6. ok[n][1] = 1 /\ s = VideoDe(cfg, n, ok[n])
  BY <1>1, <1>3, EsperadaDe
<1> QED
  BY <1>4, <1>5, <1>6, Zenon

(* The fields of the expected video stream.                                *)
LEMMA VideoTiene ==
  ASSUME NEW c, Buena(c), NEW n, NEW k \in Salidas(c), k[1] = 1
  PROVE  LET s == VideoDe(c, n, k)
         IN  /\ s.enc = Codificador(c, k) /\ s.gpu = c.hwaccel /\ s.b = TasaDe(c, k)
             /\ s.max = IF TasaDe(c, k) = <<>> THEN 0 ELSE calcularBitrateMaximo(TasaDe(c, k))
             /\ s.file.b = Tasa(c, k[2]) /\ k[2] \in 1..NB(c) /\ k[3] \in Nat
             /\ s.file.dir = IF k[3] = 0 THEN "video" ELSE "subtitulos"
<1>1. k[2] \in 1..NB(c) /\ k[3] \in Nat
  BY FormaClave DEF Claves
<1> DEFINE s == VideoDe(c, n, k)
<1>2. /\ s.enc = Codificador(c, k) /\ s.gpu = c.hwaccel /\ s.b = TasaDe(c, k)
      /\ s.max = IF TasaDe(c, k) = <<>> THEN 0 ELSE calcularBitrateMaximo(TasaDe(c, k))
      /\ s.file = Archivo(c, k)
  BY DEF VideoDe
<1> HIDE DEF s
<1>3. s.file.b = Tasa(c, k[2]) /\ s.file.dir = IF k[3] = 0 THEN "video" ELSE "subtitulos"
  BY <1>2, ArchivoEs
<1> QED
  BY <1>1, <1>2, <1>3, Zenon DEF s

(* Only the first output has the first bitrate.                            *)
LEMMA PrimeraTasa ==
  ASSUME NEW c, Buena(c), NEW i \in 1..NB(c), i # 1
  PROVE  Tasa(c, i) # <<>> /\ Tasa(c, i) # Bitrates(c)[1]
<1>1. /\ NB(c) \in Nat \ {0}
      /\ \A j \in 1..NB(c) : Tasa(c, j) = <<>> => NB(c) = 1 /\ Bitrates(c) = <<>>
      /\ \A j, l \in 1..NB(c) : Tasa(c, j) = Tasa(c, l) => j = l
  BY Tasas, Zenon
<1>2. NB(c) # 1 /\ 1 \in 1..NB(c)
  BY <1>1
<1>3. Tasa(c, i) # <<>>
  BY <1>1, <1>2, Zenon
<1>4. Tasa(c, 1) = Bitrates(c)[1]
  BY <1>3 DEF Tasa
<1> QED
  BY <1>1, <1>2, <1>3, <1>4

(* The invariant implies SalidaPedida.                                     *)
LEMMA InvSalidaPedida == IInv => SalidaPedida
<1> SUFFICES ASSUME IInv
             PROVE  SalidaPedida
  OBVIOUS
<1>1. ASSUME NEW s \in VideoStreams
      PROVE  /\ Custom(cfg) =>
                  s.enc.codec = IF SinOpciones(s) \/ SiempreH264(s) THEN "h264" ELSE Nombre(cfg)
             /\ s.gpu => SinOpciones(s) \/ s.enc.gpu
             /\ s.b = IF s.file.dir = "subtitulos" /\ ~cfg.hwaccel THEN <<>> ELSE s.file.b
  <2>1. PICK n : \E k \in Salidas(cfg) : Buena(cfg) /\ k[1] = 1 /\ s = VideoDe(cfg, n, k)
    BY <1>1, VideoEs, Zenon
  <2>2. PICK k \in Salidas(cfg) : Buena(cfg) /\ k[1] = 1 /\ s = VideoDe(cfg, n, k)
    BY <2>1, Zenon
  <2>3. /\ s.enc = Codificador(cfg, k) /\ s.gpu = cfg.hwaccel /\ s.b = TasaDe(cfg, k)
        /\ s.file.b = Tasa(cfg, k[2]) /\ k[2] \in 1..NB(cfg) /\ k[3] \in Nat
        /\ s.file.dir = IF k[3] = 0 THEN "video" ELSE "subtitulos"
    BY <2>2, VideoTiene
  <2>4. /\ Custom(cfg) =>
             Codificador(cfg, k).codec =
               IF k[3] = 0 /\ (k[2] # 1 \/ ~Nvenc(cfg)) THEN "h264" ELSE Nombre(cfg)
        /\ cfg.hwaccel /\ (k[3] # 0 \/ k[2] = 1) => Codificador(cfg, k).gpu
    BY <2>2, CodificadorEs
  <2>5. SinOpciones(s) <=> k[3] = 0 /\ k[2] # 1
    <3>1. k[2] # 1 => Tasa(cfg, k[2]) # <<>> /\ Tasa(cfg, k[2]) # Bitrates(cfg)[1]
      BY <2>2, <2>3, PrimeraTasa, Zenon
    <3>2. k[2] = 1 => Tasa(cfg, k[2]) = <<>> \/ Tasa(cfg, k[2]) = Bitrates(cfg)[1]
      BY DEF Tasa
    <3> QED
      BY <2>3, <3>1, <3>2 DEF SinOpciones
  <2>6. s.b = IF s.file.dir = "subtitulos" /\ ~cfg.hwaccel THEN <<>> ELSE s.file.b
    BY <2>3 DEF TasaDe
  <2>7. SiempreH264(s) <=> k[3] = 0 /\ ~Nvenc(cfg)
    BY <2>3 DEF SiempreH264
  <2> QED
    BY <2>3, <2>4, <2>5, <2>6, <2>7
<1>2. CodecPedido
  BY <1>1, Zenon DEF CodecPedido
<1>3. FramesGpu
  BY <1>1, Zenon DEF FramesGpu
<1>4. BitratePropio
  BY <1>1, Zenon DEF BitratePropio
<1> QED
  BY <1>2, <1>3, <1>4, Zenon DEF SalidaPedida

(* A command line that did not panic has no bitrate of one digit.          *)
LEMMA SinPanico ==
  ASSUME NEW c, Buena(c), NEW i \in 1..NB(c), Tasa(c, i) # <<>>
  PROVE  Tasa(c, i) \in Bitrate /\ Len(Tasa(c, i)) # 1
<1>1. Bitrates(c) # <<>>
  BY DEF Tasa
<1>2. Tasa(c, i) = Bitrates(c)[i] /\ i \in 1..Len(Bitrates(c))
  BY <1>1 DEF Tasa, NB
<1>3. Tasa(c, i) \in Bitrate
  BY Tasas, Zenon DEF EsTasa
<1> QED
  BY <1>2, <1>3 DEF Buena, Revienta, Panico

(* The invariant implies MaximoSuficiente.                                 *)
LEMMA InvMaximoSuficiente == IInv => MaximoSuficiente
<1> SUFFICES ASSUME IInv, NEW s \in VideoStreams, s.b # <<>>, s.b[1] # 0
             PROVE  /\ Len(s.b) <= 3 \/ (Valor(s.b) >= 1500 /\ Valor(s.b) <= 9999) => s.max >= Valor(s.b)
                    /\ Len(s.b) = 5 => s.max < Valor(s.b)
  BY DEF MaximoSuficiente
<1>1. PICK n : \E k \in Salidas(cfg) : Buena(cfg) /\ k[1] = 1 /\ s = VideoDe(cfg, n, k)
  BY VideoEs, Zenon
<1>2. PICK k \in Salidas(cfg) : Buena(cfg) /\ k[1] = 1 /\ s = VideoDe(cfg, n, k)
  BY <1>1, Zenon
<1>3. /\ s.b = TasaDe(cfg, k) /\ k[2] \in 1..NB(cfg)
      /\ s.max = IF TasaDe(cfg, k) = <<>> THEN 0 ELSE calcularBitrateMaximo(TasaDe(cfg, k))
  BY <1>2, VideoTiene
<1>4. s.b = Tasa(cfg, k[2]) /\ s.max = calcularBitrateMaximo(s.b)
  BY <1>3 DEF TasaDe
<1>5. s.b \in Bitrate /\ Len(s.b) # 1
  BY <1>2, <1>3, <1>4, SinPanico
<1> DEFINE b == s.b
<1>6. b \in Bitrate /\ Len(b) # 1 /\ b[1] # 0 /\ s.max = calcularBitrateMaximo(b)
  BY <1>4, <1>5
<1> HIDE DEF b
<1>7. /\ Len(b) <= 3 \/ (Valor(b) >= 1500 /\ Valor(b) <= 9999) => calcularBitrateMaximo(b) >= Valor(b)
      /\ Len(b) = 5 => calcularBitrateMaximo(b) < Valor(b)
  BY <1>6, Maximo
<1> DEFINE x == s.max
<1>8. x = calcularBitrateMaximo(b)
  BY <1>6
<1> HIDE DEF x
<1>9. /\ Len(b) <= 3 \/ (Valor(b) >= 1500 /\ Valor(b) <= 9999) => x >= Valor(b)
      /\ Len(b) = 5 => x < Valor(b)
  BY <1>7, <1>8
<1> QED
  BY <1>9 DEF b, x

(* Two outputs in one directory are two bitrates of one video.             *)
LEMMA ArchivoClave ==
  ASSUME NEW c, Buena(c), NEW k \in Salidas(c), NEW l \in Salidas(c), k # l,
         Archivo(c, k).dir = Archivo(c, l).dir, Archivo(c, k).lang = Archivo(c, l).lang
  PROVE  Archivo(c, k).b # Archivo(c, l).b /\ Len(Bitrates(c)) > 1
<1>1. /\ k[1] \in {1, 2, 3} /\ k = <<k[1], k[2], k[3]>> /\ k[3] \in Nat
      /\ k[1] = 1 => k[2] \in 1..NB(c) /\ k[3] \in 0..ND(c)
      /\ k[1] = 2 => k[2] \in 1..Len(c.audio) /\ k[3] = 0
      /\ k[1] = 3 => k[2] \in 1..NT(c) /\ k[3] = 0
  BY FormaClave DEF Claves, Salidas
<1>2. /\ l[1] \in {1, 2, 3} /\ l = <<l[1], l[2], l[3]>> /\ l[3] \in Nat
      /\ l[1] = 1 => l[2] \in 1..NB(c) /\ l[3] \in 0..ND(c)
      /\ l[1] = 2 => l[2] \in 1..Len(c.audio) /\ l[3] = 0
      /\ l[1] = 3 => l[2] \in 1..NT(c) /\ l[3] = 0
  BY FormaClave DEF Claves, Salidas
<1>3. /\ \A i, j \in 1..Len(c.audio) : c.audio[i] = c.audio[j] => i = j
      /\ \A i, j \in 1..Len(c.subs) : c.subs[i] = c.subs[j] => i = j
  BY Pistas, Zenon DEF Buena
<1>4. /\ ND(c) = (IF Teletext(c) THEN 0 ELSE Len(c.subs)) /\ NT(c) = (IF Teletext(c) THEN Len(c.subs) ELSE 0)
      /\ Len(c.subs) \in Nat /\ NB(c) \in Nat \ {0}
  <2>1. k \in Claves(c)
    BY DEF Claves
  <2> QED
    BY <2>1, FormaClave DEF ND, NT
<1>5. CASE k[1] = 1 /\ l[1] = 1 /\ k[3] = l[3]
  <2>1. k[2] # l[2]
    BY <1>1, <1>2, <1>5
  <2>2. Tasa(c, k[2]) # Tasa(c, l[2])
    BY <1>1, <1>2, <1>5, <2>1, Tasas, Zenon
  <2>3. NB(c) # 1
    BY <1>1, <1>2, <1>5, <2>1
  <2>4. Len(Bitrates(c)) > 1
    <3>1. NB(c) = Len(Bitrates(c))
      BY <2>3 DEF NB
    <3> QED
      BY <1>4, <2>3, <3>1
  <2>5. Archivo(c, k).b = Tasa(c, k[2]) /\ Archivo(c, l).b = Tasa(c, l[2])
    BY <1>5, ArchivoEs
  <2> QED
    BY <2>2, <2>4, <2>5
<1>6. CASE k[1] = 1 /\ l[1] = 1 /\ k[3] # l[3]
  <2>1. k[3] # 0 /\ l[3] # 0
    BY <1>6, ArchivoEs
  <2>2. c.subs[k[3]] = c.subs[l[3]]
    BY <1>6, <2>1, ArchivoEs
  <2>3. k[3] \in 1..Len(c.subs) /\ l[3] \in 1..Len(c.subs)
    BY <1>1, <1>2, <1>4, <1>6, <2>1
  <2> QED
    BY <1>3, <1>6, <2>2, <2>3, Zenon
<1>7. CASE k[1] = 2 /\ l[1] = 2
  <2>1. c.audio[k[2]] = c.audio[l[2]]
    BY <1>7, ArchivoEs
  <2>2. k[2] = l[2]
    BY <1>1, <1>2, <1>3, <1>7, <2>1, Zenon
  <2> QED
    BY <1>1, <1>2, <1>7, <2>2
<1>8. CASE k[1] = 3 /\ l[1] = 3
  <2>1. c.subs[k[2]] = c.subs[l[2]]
    BY <1>8, ArchivoEs
  <2>2. k[2] \in 1..Len(c.subs) /\ l[2] \in 1..Len(c.subs)
    BY <1>1, <1>2, <1>4, <1>8
  <2>3. k[2] = l[2]
    BY <1>3, <2>1, <2>2, Zenon
  <2> QED
    BY <1>1, <1>2, <1>8, <2>3
<1>9. CASE (k[1] = 1 /\ l[1] = 3) \/ (k[1] = 3 /\ l[1] = 1)
  <2>1. Teletext(c)
    BY <1>1, <1>2, <1>4, <1>9
  <2>2. (k[1] = 1 => k[3] = 0) /\ (l[1] = 1 => l[3] = 0)
    BY <1>1, <1>2, <1>4, <2>1
  <2> QED
    BY <1>9, <2>2, ArchivoEs
<1>10. CASE (k[1] = 2 /\ l[1] # 2) \/ (k[1] # 2 /\ l[1] = 2)
  BY <1>1, <1>2, <1>10, ArchivoEs
<1>11. \/ (k[1] = 1 /\ l[1] = 1) \/ (k[1] = 2 /\ l[1] = 2) \/ (k[1] = 3 /\ l[1] = 3)
       \/ (k[1] = 1 /\ l[1] = 3) \/ (k[1] = 3 /\ l[1] = 1)
       \/ (k[1] = 2 /\ l[1] # 2) \/ (k[1] # 2 /\ l[1] = 2)
  BY <1>1, <1>2
<1> QED
  BY <1>5, <1>6, <1>7, <1>8, <1>9, <1>10, <1>11, Zenon

(* The invariant implies ArchivosPropios.                                  *)
LEMMA InvArchivosPropios == IInv => ArchivosPropios
<1> SUFFICES ASSUME IInv, NEW s \in AllStreams, NEW t \in AllStreams, s.n # t.n,
                    NEW w \in Written(s.file) \cap Written(t.file)
             PROVE  w[3] = "init" /\ Len(Bitrates(cfg)) > 1
  BY DEF ArchivosPropios, Outputs
<1>1. PICK ok, o : Vistas(ok, o)
  BY StreamsSon, Zenon
<1>2. PICK m \in 1..o : s \in Esperadas(cfg, m, ok[m])
  BY <1>1, Zenon DEF Vistas
<1>3. PICK n \in 1..o : t \in Esperadas(cfg, n, ok[n])
  BY <1>1, Zenon DEF Vistas
<1>4. s.n = m /\ s.file = Archivo(cfg, ok[m]) /\ t.n = n /\ t.file = Archivo(cfg, ok[n])
  BY <1>2, <1>3, EsperadaDe
<1>5. o # 0 /\ ok[m] \in Salidas(cfg) /\ ok[n] \in Salidas(cfg) /\ ok[m] # ok[n]
  BY <1>1, <1>4 DEF Vistas
<1>6. Buena(cfg)
  BY <1>1, <1>5, Zenon DEF Vistas
<1> DEFINE f == s.file
           g == t.file
<1>7. \A x, y : w \in Written(x) /\ w \in Written(y) =>
        /\ x.dir = y.dir /\ x.lang = y.lang
        /\ w[3] # "init" => x.b = y.b
  BY DEF Written
<1>8. f.dir = g.dir /\ f.lang = g.lang /\ (w[3] # "init" => f.b = g.b)
  BY <1>7, Zenon
<1>9. f.b # g.b /\ Len(Bitrates(cfg)) > 1
  BY <1>4, <1>5, <1>6, <1>8, ArchivoClave, Zenon
<1> QED
  BY <1>8, <1>9, Zenon

-----------------------------------------------------------------------------
(* The player.  Once ffmpeg has opened its outputs, what the master        *)
(* playlist announces, what is on disk and what an answer leads to depend  *)
(* on cfg alone.                                                           *)

DirDe(k) == IF k[1] = 2 THEN "audio" ELSE IF k[1] = 1 /\ k[3] = 0 THEN "video" ELSE "subtitulo"
UrlDe(c, k, q, b, v) == Url(DirDe(k), Archivo(c, k).lang, q, b, v)

(* The URLs of an output: a webvtt half only with teletext.                *)
De(c, k, u) ==
  \/ \E q \in {"lista", "segmento"} :
       \/ u = UrlDe(c, k, q, Archivo(c, k).b, FALSE)
       \/ k[1] = 3 /\ u = UrlDe(c, k, q, Archivo(c, k).b, TRUE)
  \/ Nombre(c) = "hevc" /\ u = UrlDe(c, k, "init", <<>>, FALSE)

Escrita(c, u) == u = Pagina \/ u = Maestra \/ \E k \in Salidas(c) : De(c, k, u)
Contestada(c, u) == Ruta(u) /\ Escrita(c, u)

Anunciada(c, u) ==
  \/ \E i \in 1..Len(c.audio) : u = Url("audio", c.audio[i], "lista", <<>>, FALSE)
  \/ \E j \in 1..Len(c.subs) : u = Url("subtitulo", c.subs[j], "lista", <<>>, Teletext(c))
  \/ \E i \in 1..NB(c) : u = Url("video", SinIdioma, "lista", Tasa(c, i), FALSE)
  \/ ~Teletext(c) /\ \E i \in 1..NB(c), j \in 1..Len(c.subs) :
                       u = Url("subtitulo", c.subs[j], "lista", Tasa(c, i), FALSE)

Enlaza(c, u, w) ==
  \/ u.que = "index.html" /\ w = Maestra
  \/ u.que = "hls.m3u8" /\ Anunciada(c, w)
  \/ /\ u.que = "lista"
     /\ \/ w = [u EXCEPT !.que = "segmento"]
        \/ Nombre(c) = "hevc" /\ ~u.vtt /\ w = Url(u.dir, u.lang, "init", <<>>, FALSE)

(* The fields of a URL.                                                    *)
LEMMA UrlEs ==
  ASSUME NEW d, NEW l, NEW q, NEW b, NEW v
  PROVE  /\ Url(d, l, q, b, v).dir = d /\ Url(d, l, q, b, v).lang = l
         /\ Url(d, l, q, b, v).que = q /\ Url(d, l, q, b, v).b = b /\ Url(d, l, q, b, v).vtt = v
         /\ [Url(d, l, q, b, v) EXCEPT !.que = "segmento"] = Url(d, l, "segmento", b, v)
  BY DEF Url

(* When all outputs are open, every key has its streams.                   *)
LEMMA TodasVistas ==
  ASSUME IInv, stage = "ok"
  PROVE  /\ Buena(cfg)
         /\ \E ok, o : Vistas(ok, o) /\ \A l \in Salidas(cfg) : \E m \in 1..o : ok[m] = l
<1>1. Buena(cfg) /\ Abierto
  BY DEF IInv
<1>2. PICK ok, po, o : AbiertoCon(ok, po, o)
  BY <1>1, Zenon DEF Abierto
<1>3. /\ Orden(cfg, ok) /\ o = Len(ok) /\ AllStreams = Emitidas(cfg, ok, o)
      /\ \A l \in Salidas(cfg) : \E m \in 1..Len(ok) : ok[m] = l
  BY <1>2 DEF AbiertoCon
<1>4. /\ ok \in Seq(Salidas(cfg)) /\ Len(ok) \in Nat
      /\ \A m, n \in 1..Len(ok) : m < n => Menor(ok[m], ok[n])
  BY <1>3 DEF Orden
<1>5. \A n \in 1..o : ok[n] \in Salidas(cfg)
  BY <1>3, <1>4
<1>6. ASSUME NEW m \in 1..o, NEW n \in 1..o, m # n
      PROVE  ok[m] # ok[n]
  <2>1. Menor(ok[m], ok[n]) \/ Menor(ok[n], ok[m])
    <3>1. m < n \/ n < m
      BY <1>3, <1>4, <1>6
    <3> QED
      BY <1>3, <1>4, <3>1, Zenon
  <2>2. ok[m] \in Claves(cfg) /\ ok[n] \in Claves(cfg)
    BY <1>5, Zenon DEF Claves
  <2> QED
    BY <1>1, <2>1, <2>2, MenorEs, Zenon
<1>7. \A s : s \in AllStreams <=> \E n \in 1..o : s \in Esperadas(cfg, n, ok[n])
  BY <1>3, Zenon DEF Emitidas
<1>8. Vistas(ok, o)
  BY <1>1, <1>3, <1>4, <1>5, <1>6, <1>7, Zenon DEF Vistas
<1> QED
  BY <1>1, <1>3, <1>8, Zenon

(* The set of files of an output.                                          *)
LEMMA MitadesDe ==
  ASSUME NEW ok, NEW o, Vistas(ok, o), NEW m \in 1..o, NEW f
  PROVE  Mitades(<<m, f>>) = IF ok[m][1] = 3 THEN BOOLEAN ELSE {FALSE}
<1>1. ASSUME NEW s \in AllStreams, s.n = m, s.kind = "subtitle"
      PROVE  ok[m][1] = 3
  <2>1. PICK n \in 1..o : s \in Esperadas(cfg, n, ok[n])
    BY Zenon DEF Vistas
  <2>2. n = m
    BY <1>1, <2>1, EsperadaDe
  <2>3. s \in Esperadas(cfg, m, ok[m])
    BY <2>1, <2>2
  <2>4. ok[m] \in Salidas(cfg)
    BY DEF Vistas
  <2>5. ok[m][1] \in {1, 2, 3}
    BY <2>4 DEF Salidas
  <2> QED
    BY <1>1, <2>3, <2>5 DEF Esperadas, VideoDe, OtherStream
<1>2. ASSUME ok[m][1] = 3
      PROVE  \E s \in AllStreams : s.n = m /\ s.kind = "subtitle"
  <2> DEFINE t == OtherStream(m, Archivo(cfg, ok[m]), "subtitle", cfg.subs[ok[m][2]])
  <2>1. t \in Esperadas(cfg, m, ok[m])
    BY <1>2 DEF Esperadas
  <2>2. t \in AllStreams
    <3> HIDE DEF t
    <3> QED
      BY <2>1, Zenon DEF Vistas
  <2>3. t.n = m /\ t.kind = "subtitle"
    BY DEF OtherStream
  <2> QED
    BY <2>2, <2>3
<1>3. <<m, f>>[1] = m
  OBVIOUS
<1>4. (\E s \in AllStreams : s.n = <<m, f>>[1] /\ s.kind = "subtitle") <=> ok[m][1] = 3
  BY <1>1, <1>2, <1>3
<1> QED
  BY <1>4, Zenon DEF Mitades

(* The directory that an output is served under.                           *)
LEMMA UrlDirDe ==
  ASSUME NEW c, Buena(c), NEW k \in Salidas(c)
  PROVE  UrlDir(Archivo(c, k).dir) = DirDe(k)
<1>1. k[1] \in {1, 2, 3} /\ k[3] \in Nat
  BY FormaClave DEF Claves, Salidas
<1>2. Archivo(c, k).dir = IF k[1] = 2 THEN "audio"
                          ELSE IF k[1] = 1 /\ k[3] = 0 THEN "video" ELSE "subtitulos"
  BY <1>1, ArchivoEs
<1> QED
  BY <1>2 DEF UrlDir, DirDe

Escrito(u, p, d, f) ==
  \/ \E q \in {"lista", "segmento"} : \E v \in Mitades(p) : u = Url(d, f.lang, q, f.b, v)
  \/ f.fmp4 /\ u = Url(d, f.lang, "init", <<>>, FALSE)

(* The URLs of the files of an output, one by one.                         *)
LEMMA EscritosEs ==
  ASSUME NEW p, NEW u, NEW f, NEW d, p[2] = f, UrlDir(f.dir) = d
  PROVE  u \in Escritos(p) <=> Escrito(u, p, d, f)
<1> DEFINE L(q, v) == Url(d, f.lang, q, f.b, v)
           I == Url(d, f.lang, "init", <<>>, FALSE)
<1>1. Escritos(p) = {L(q, v) : q \in {"lista", "segmento"}, v \in Mitades(p)}
                    \cup (IF f.fmp4 THEN {I} ELSE {})
  BY DEF Escritos
<1> HIDE DEF L, I
<1>2. u \in Escritos(p) <=> (\E q \in {"lista", "segmento"} : \E v \in Mitades(p) : u = L(q, v))
                            \/ (f.fmp4 /\ u = I)
  BY <1>1
<1> QED
  BY <1>2, Zenon DEF L, I, Escrito

(* The files of an opened output are those of its key.                     *)
LEMMA EscritosDe ==
  ASSUME NEW ok, NEW o, Vistas(ok, o), NEW m \in 1..o, NEW u
  PROVE  u \in Escritos(<<m, Archivo(cfg, ok[m])>>) <=> De(cfg, ok[m], u)
<1> DEFINE k == ok[m]
           f == Archivo(cfg, k)
           p == <<m, f>>
<1>1. o \in Nat /\ o # 0 /\ k \in Salidas(cfg)
  BY DEF Vistas
<1>2. Buena(cfg)
  BY <1>1, Zenon DEF Vistas
<1>3. UrlDir(f.dir) = DirDe(k)
  BY <1>1, <1>2, UrlDirDe
<1>4. p[2] = f
  OBVIOUS
<1>5. f.fmp4 = (Nombre(cfg) = "hevc")
  BY ArchivoEs
<1>6. Mitades(p) = IF k[1] = 3 THEN BOOLEAN ELSE {FALSE}
  BY MitadesDe, Zenon
<1> HIDE DEF p, f, k
<1>7. u \in Escritos(p) <=> Escrito(u, p, DirDe(k), f)
  BY <1>3, <1>4, EscritosEs, Zenon
<1>8. De(cfg, k, u) <=>
        \/ \E q \in {"lista", "segmento"} :
             \/ u = Url(DirDe(k), f.lang, q, f.b, FALSE)
             \/ k[1] = 3 /\ u = Url(DirDe(k), f.lang, q, f.b, TRUE)
        \/ Nombre(cfg) = "hevc" /\ u = Url(DirDe(k), f.lang, "init", <<>>, FALSE)
  BY Zenon DEF De, UrlDe, f
<1>9. \A q : (\E v \in Mitades(p) : u = Url(DirDe(k), f.lang, q, f.b, v))
              <=> (\/ u = Url(DirDe(k), f.lang, q, f.b, FALSE)
                   \/ k[1] = 3 /\ u = Url(DirDe(k), f.lang, q, f.b, TRUE))
  <2>1. CASE k[1] = 3
    BY <1>6, <2>1, Zenon
  <2>2. CASE k[1] # 3
    BY <1>6, <2>2, Zenon
  <2> QED
    BY <2>1, <2>2, Zenon
<1>10. u \in Escritos(p) <=> De(cfg, k, u)
  BY <1>5, <1>7, <1>8, <1>9, Zenon DEF Escrito
<1> QED
  BY <1>10 DEF p, f, k

(* The files on disk are those of all the keys.                            *)
LEMMA EnDiscoEs ==
  ASSUME IInv, stage = "ok"
  PROVE  Buena(cfg) /\ \A u : u \in EnDisco <=> Escrita(cfg, u)
<1>1. Buena(cfg)
  BY TodasVistas, Zenon
<1>2. PICK ok, o : Vistas(ok, o) /\ \A l \in Salidas(cfg) : \E m \in 1..o : ok[m] = l
  BY TodasVistas, Zenon
<1>3. \A m \in 1..o : ok[m] \in Salidas(cfg)
  BY <1>2 DEF Vistas
<1>4. ASSUME NEW p \in Outputs
      PROVE  \E m \in 1..o : p = <<m, Archivo(cfg, ok[m])>>
  <2>1. PICK s \in AllStreams : p = <<s.n, s.file>>
    BY Zenon DEF Outputs
  <2>2. PICK m \in 1..o : s \in Esperadas(cfg, m, ok[m])
    BY <1>2, Zenon DEF Vistas
  <2>3. s.n = m /\ s.file = Archivo(cfg, ok[m])
    BY <2>2, EsperadaDe
  <2> QED
    BY <2>1, <2>3
<1>5. ASSUME NEW m \in 1..o
      PROVE  <<m, Archivo(cfg, ok[m])>> \in Outputs
  <2>1. PICK s : s \in Esperadas(cfg, m, ok[m])
    BY EsperadaEs
  <2>2. s \in AllStreams
    BY <1>2, <2>1, Zenon DEF Vistas
  <2>3. s.n = m /\ s.file = Archivo(cfg, ok[m])
    BY <2>1, EsperadaDe
  <2> QED
    BY <2>2, <2>3 DEF Outputs
<1>6. ASSUME NEW u
      PROVE  u \in EnDisco <=> Escrita(cfg, u)
  <2>1. u \in EnDisco <=> u = Pagina \/ u = Maestra \/ \E p \in Outputs : u \in Escritos(p)
    BY Zenon DEF EnDisco
  <2>2. ASSUME NEW p \in Outputs, u \in Escritos(p)
        PROVE  \E k \in Salidas(cfg) : De(cfg, k, u)
    <3>1. PICK m \in 1..o : p = <<m, Archivo(cfg, ok[m])>>
      BY <1>4, Zenon
    <3>2. De(cfg, ok[m], u)
      BY <1>2, <2>2, <3>1, EscritosDe, Zenon
    <3> QED
      BY <1>3, <3>2, Zenon
  <2>3. ASSUME NEW k \in Salidas(cfg), De(cfg, k, u)
        PROVE  \E p \in Outputs : u \in Escritos(p)
    <3>1. PICK m \in 1..o : ok[m] = k
      BY <1>2, Zenon
    <3>2. u \in Escritos(<<m, Archivo(cfg, ok[m])>>)
      BY <1>2, <2>3, <3>1, EscritosDe, Zenon
    <3> QED
      BY <1>5, <3>2, Zenon
  <2> QED
    BY <2>1, <2>2, <2>3, Zenon DEF Escrita
<1> QED
  BY <1>1, <1>6, Zenon

(* generarArchivoM3U8, line by line.                                       *)
LEMMA AnunciadaEs ==
  ASSUME Buena(cfg), NEW u
  PROVE  u \in generarArchivoM3U8 <=> Anunciada(cfg, u)
<1>1. /\ ToSet(cfg.audio) = {cfg.audio[i] : i \in 1..Len(cfg.audio)}
      /\ ToSet(cfg.subs) = {cfg.subs[i] : i \in 1..Len(cfg.subs)}
  BY Pistas, ZenonT(60) DEF Buena
<1>2. u \in ListasAudio <=> \E i \in 1..Len(cfg.audio) : u = Url("audio", cfg.audio[i], "lista", <<>>, FALSE)
  BY <1>1, Zenon DEF ListasAudio
<1>3. u \in ListasSubs <=> \E j \in 1..Len(cfg.subs) : u = Url("subtitulo", cfg.subs[j], "lista", <<>>, Teletext(cfg))
  BY <1>1, Zenon DEF ListasSubs
<1>4. \A b : u \in ListasDe(b) <=>
        \/ u = Url("video", SinIdioma, "lista", b, FALSE)
        \/ ~Teletext(cfg) /\ \E j \in 1..Len(cfg.subs) : u = Url("subtitulo", cfg.subs[j], "lista", b, FALSE)
  BY <1>1, Zenon DEF ListasDe
<1>5. u \in ListasVideo <=> \E i \in 1..NB(cfg) : u \in ListasDe(Tasa(cfg, i))
  <2>1. CASE Bitrates(cfg) = <<>>
    <3>1. NB(cfg) = 1 /\ \A i : Tasa(cfg, i) = <<>>
      BY <2>1 DEF NB, Tasa
    <3>2. 1 \in 1..NB(cfg)
      BY <3>1
    <3> QED
      BY <2>1, <3>1, <3>2, Zenon DEF ListasVideo
  <2>2. CASE Bitrates(cfg) # <<>>
    <3>1. NB(cfg) = Len(Bitrates(cfg)) /\ \A i : Tasa(cfg, i) = Bitrates(cfg)[i]
      BY <2>2 DEF NB, Tasa
    <3>2. ToSet(Bitrates(cfg)) = {Bitrates(cfg)[i] : i \in 1..Len(Bitrates(cfg))}
      <4>1. DOMAIN Bitrates(cfg) = 1..Len(Bitrates(cfg))
        BY Tasas, LenProperties
      <4> QED
        BY <4>1, Zenon DEF ToSet
    <3> QED
      BY <2>2, <3>1, <3>2, Zenon DEF ListasVideo
  <2> QED
    BY <2>1, <2>2
<1>6. u \in ListasVideo <=>
        \/ \E i \in 1..NB(cfg) : u = Url("video", SinIdioma, "lista", Tasa(cfg, i), FALSE)
        \/ ~Teletext(cfg) /\ \E i \in 1..NB(cfg), j \in 1..Len(cfg.subs) :
                               u = Url("subtitulo", cfg.subs[j], "lista", Tasa(cfg, i), FALSE)
  <2>1. ASSUME NEW i \in 1..NB(cfg), u \in ListasDe(Tasa(cfg, i))
        PROVE  \/ u = Url("video", SinIdioma, "lista", Tasa(cfg, i), FALSE)
               \/ ~Teletext(cfg) /\ \E j \in 1..Len(cfg.subs) :
                                      u = Url("subtitulo", cfg.subs[j], "lista", Tasa(cfg, i), FALSE)
    BY <1>4, <2>1, Zenon
  <2>2. ASSUME NEW i \in 1..NB(cfg), u = Url("video", SinIdioma, "lista", Tasa(cfg, i), FALSE)
        PROVE  u \in ListasDe(Tasa(cfg, i))
    BY <1>4, <2>2, Zenon
  <2>3. ASSUME ~Teletext(cfg), NEW i \in 1..NB(cfg), NEW j \in 1..Len(cfg.subs),
               u = Url("subtitulo", cfg.subs[j], "lista", Tasa(cfg, i), FALSE)
        PROVE  u \in ListasDe(Tasa(cfg, i))
    BY <1>4, <2>3, Zenon
  <2> QED
    BY <1>5, <2>1, <2>2, <2>3, Zenon
<1> QED
  BY <1>2, <1>3, <1>6, Zenon DEF generarArchivoM3U8, Anunciada

(* The links of an answer, one by one.                                     *)
LEMMA EnlazaEs ==
  ASSUME Buena(cfg), NEW u, NEW w
  PROVE  w \in Enlaces(u) <=> Enlaza(cfg, u, w)
<1>1. CASE u.que = "index.html"
  BY <1>1 DEF Enlaces, Enlaza
<1>2. CASE u.que = "hls.m3u8"
  <2>1. Enlaces(u) = generarArchivoM3U8
    BY <1>2 DEF Enlaces
  <2>2. Enlaza(cfg, u, w) <=> Anunciada(cfg, w)
    BY <1>2 DEF Enlaza
  <2> QED
    BY <2>1, <2>2, AnunciadaEs, Zenon
<1>3. CASE u.que = "lista"
  BY <1>3 DEF Enlaces, Enlaza, Fmp4
<1>4. CASE u.que \notin {"index.html", "hls.m3u8", "lista"}
  BY <1>4 DEF Enlaces, Enlaza
<1> QED
  BY <1>1, <1>2, <1>3, <1>4

(* The playlist the player follows to the output of a key, and whether the *)
(* routes take the name of its track.                                      *)
ConVtt(k) == IF k[1] = 3 THEN TRUE ELSE FALSE
ParteDe(c, k, q) == UrlDe(c, k, q, Archivo(c, k).b, ConVtt(k))
InitDe(c, k) == UrlDe(c, k, "init", <<>>, FALSE)
Corto(c, k) ==
  \/ DirDe(k) = "video"
  \/ DirDe(k) = "subtitulo" /\ Archivo(c, k).lang \notin Largas
  \/ DirDe(k) = "audio" /\ Archivo(c, k).lang \notin Largas \cup Comas

(* The numbers in the key of an output.                                    *)
LEMMA SalidaEs ==
  ASSUME NEW c, Buena(c), NEW k \in Salidas(c)
  PROVE  /\ k[1] \in {1, 2, 3} /\ k[3] \in Nat
         /\ k[1] = 1 => k[2] \in 1..NB(c) /\ k[3] \in 0..ND(c)
         /\ k[1] = 1 /\ k[3] # 0 => k[3] \in 1..Len(c.subs) /\ ~Teletext(c)
         /\ k[1] = 2 => k[2] \in 1..Len(c.audio)
         /\ k[1] = 3 => k[2] \in 1..Len(c.subs) /\ Teletext(c)
<1>1. /\ k[1] \in {1, 2, 3} /\ k[3] \in Nat
      /\ k[1] = 1 => k[2] \in 1..NB(c) /\ k[3] \in 0..ND(c)
      /\ k[1] = 2 => k[2] \in 1..Len(c.audio)
      /\ k[1] = 3 => k[2] \in 1..NT(c)
      /\ ND(c) \in Nat /\ NT(c) \in Nat
  BY FormaClave DEF Claves, Salidas
<1>2. /\ ND(c) # 0 => ~Teletext(c) /\ ND(c) = Len(c.subs)
      /\ NT(c) # 0 => Teletext(c) /\ NT(c) = Len(c.subs)
  BY DEF ND, NT
<1> QED
  BY <1>1, <1>2

(* ffmpeg writes the playlist, segments and init.mp4 of every key.         *)
LEMMA ParteEscrita ==
  ASSUME NEW c, NEW k \in Salidas(c)
  PROVE  /\ \A q \in {"lista", "segmento"} : Escrita(c, ParteDe(c, k, q))
         /\ Nombre(c) = "hevc" => Escrita(c, InitDe(c, k))
<1>1. \A q \in {"lista", "segmento"} : De(c, k, ParteDe(c, k, q))
  <2>1. CASE k[1] = 3
    BY <2>1, Zenon DEF De, ParteDe, ConVtt
  <2>2. CASE k[1] # 3
    BY <2>2, Zenon DEF De, ParteDe, ConVtt
  <2> QED
    BY <2>1, <2>2, Zenon
<1>2. Nombre(c) = "hevc" => De(c, k, InitDe(c, k))
  BY Zenon DEF De, InitDe
<1> QED
  BY <1>1, <1>2, Zenon DEF Escrita

(* The fields of a URL of an output.                                       *)
LEMMA ParteCampos ==
  ASSUME NEW c, NEW k, NEW q, NEW b, NEW v
  PROVE  /\ UrlDe(c, k, q, b, v).dir = DirDe(k) /\ UrlDe(c, k, q, b, v).lang = Archivo(c, k).lang
         /\ UrlDe(c, k, q, b, v).que = q /\ UrlDe(c, k, q, b, v).b = b /\ UrlDe(c, k, q, b, v).vtt = v
         /\ [UrlDe(c, k, q, b, v) EXCEPT !.que = "segmento"] = UrlDe(c, k, "segmento", b, v)
  BY DEF UrlDe, Url

(* The routes take playlists and segments of tracks with a short name.     *)
LEMMA RutaDe ==
  ASSUME NEW c, Buena(c), NEW k \in Salidas(c), Corto(c, k)
  PROVE  /\ \A q \in {"lista", "segmento"} : Ruta(ParteDe(c, k, q))
         /\ DirDe(k) # "subtitulo" => Ruta(InitDe(c, k))
<1>1. Prefijo(Archivo(c, k).b)
  <2>1. CASE k[1] = 1
    <3>1. k[2] \in 1..NB(c) /\ Archivo(c, k).b = Tasa(c, k[2])
      BY <2>1, SalidaEs, ArchivoEs
    <3>2. CASE Tasa(c, k[2]) = <<>>
      BY <3>1, <3>2 DEF Prefijo
    <3>3. CASE Tasa(c, k[2]) # <<>>
      BY <3>1, <3>3, SinPanico DEF Prefijo, Bitrate
    <3> QED
      BY <3>2, <3>3
  <2>2. CASE k[1] # 1
    <3>1. Archivo(c, k).b = <<>>
      BY <2>2, SalidaEs, ArchivoEs
    <3> QED
      BY <3>1 DEF Prefijo
  <2> QED
    BY <2>1, <2>2
<1>2. \A q : /\ ParteDe(c, k, q).dir = DirDe(k) /\ ParteDe(c, k, q).lang = Archivo(c, k).lang
             /\ ParteDe(c, k, q).que = q /\ ParteDe(c, k, q).b = Archivo(c, k).b
  BY ParteCampos DEF ParteDe
<1>3. InitDe(c, k).dir = DirDe(k) /\ InitDe(c, k).lang = Archivo(c, k).lang
  BY DEF InitDe, UrlDe, Url
<1>4. ASSUME NEW q \in {"lista", "segmento"}
      PROVE  Ruta(ParteDe(c, k, q))
  <2> DEFINE u == ParteDe(c, k, q)
  <2>1. u.dir = DirDe(k) /\ u.lang = Archivo(c, k).lang /\ u.que = q /\ u.b = Archivo(c, k).b
    BY <1>2, Zenon
  <2> HIDE DEF u
  <2>2. Ruta(u)
    BY <1>1, <2>1 DEF Corto, Ruta, SubName, AudioName
  <2> QED
    BY <2>2 DEF u
<1>5. DirDe(k) # "subtitulo" => Ruta(InitDe(c, k))
  BY <1>3, Zenon DEF Corto, Ruta, AudioName
<1> QED
  BY <1>4, <1>5, Zenon

(* The playlist of every output is announced.                              *)
LEMMA ListaAnunciada ==
  ASSUME NEW c, Buena(c), NEW k \in Salidas(c)
  PROVE  Anunciada(c, ParteDe(c, k, "lista"))
<1>1. CASE k[1] = 1 /\ k[3] = 0
  <2>1. /\ DirDe(k) = "video" /\ Archivo(c, k).lang = SinIdioma /\ Archivo(c, k).b = Tasa(c, k[2])
        /\ ConVtt(k) = FALSE /\ k[2] \in 1..NB(c)
    BY <1>1, SalidaEs, ArchivoEs DEF DirDe, ConVtt
  <2> QED
    BY <2>1, Zenon DEF Anunciada, ParteDe, UrlDe
<1>2. CASE k[1] = 1 /\ k[3] # 0
  <2>1. /\ DirDe(k) = "subtitulo" /\ Archivo(c, k).lang = c.subs[k[3]] /\ Archivo(c, k).b = Tasa(c, k[2])
        /\ ConVtt(k) = FALSE /\ k[2] \in 1..NB(c) /\ k[3] \in 1..Len(c.subs) /\ ~Teletext(c)
    BY <1>2, SalidaEs, ArchivoEs DEF DirDe, ConVtt
  <2> QED
    BY <2>1, Zenon DEF Anunciada, ParteDe, UrlDe
<1>3. CASE k[1] = 2
  <2>1. /\ DirDe(k) = "audio" /\ Archivo(c, k).lang = c.audio[k[2]] /\ Archivo(c, k).b = <<>>
        /\ ConVtt(k) = FALSE /\ k[2] \in 1..Len(c.audio)
    BY <1>3, SalidaEs, ArchivoEs DEF DirDe, ConVtt
  <2> QED
    BY <2>1, Zenon DEF Anunciada, ParteDe, UrlDe
<1>4. CASE k[1] = 3
  <2>1. /\ DirDe(k) = "subtitulo" /\ Archivo(c, k).lang = c.subs[k[2]] /\ Archivo(c, k).b = <<>>
        /\ ConVtt(k) = TRUE /\ k[2] \in 1..Len(c.subs)
    BY <1>4, SalidaEs, ArchivoEs DEF DirDe, ConVtt
  <2>2. Teletext(c) = TRUE
    <3>1. Teletext(c)
      BY <1>4, SalidaEs, Zenon
    <3>2. Teletext(c) \in BOOLEAN
      BY Zenon DEF Teletext
    <3> QED
      BY <3>1, <3>2, Zenon
  <2> QED
    BY <2>1, <2>2, Zenon DEF Anunciada, ParteDe, UrlDe
<1> QED
  BY <1>1, <1>2, <1>3, <1>4, SalidaEs, Zenon

(* What is announced: the playlist of an output, or that of the DVB        *)
(* subtitles without the bitrate they are encoded at.                      *)
SinTasa(c, u) ==
  /\ ~Teletext(c) /\ Bitrates(c) # <<>>
  /\ \E j \in 1..Len(c.subs) : u = Url("subtitulo", c.subs[j], "lista", <<>>, FALSE)

(* The keys of the tracks of a program.                                    *)
LEMMA ClavesDe ==
  ASSUME NEW c, Buena(c)
  PROVE  /\ \A i \in 1..NB(c) : <<1, i, 0>> \in Salidas(c)
         /\ ~Teletext(c) => \A i \in 1..NB(c), j \in 1..Len(c.subs) : <<1, i, j>> \in Salidas(c)
         /\ \A i \in 1..Len(c.audio) : <<2, i, 0>> \in Salidas(c)
         /\ Teletext(c) => \A j \in 1..Len(c.subs) : <<3, j, 0>> \in Salidas(c)
<1>1. NB(c) \in Nat /\ Len(c.subs) \in Nat /\ Len(c.audio) \in Nat /\ ND(c) \in Nat
  BY FormaClave, EsClave
<1>2. (~Teletext(c) => ND(c) = Len(c.subs)) /\ (Teletext(c) => NT(c) = Len(c.subs))
  BY DEF ND, NT
<1> QED
  BY <1>1, <1>2 DEF Salidas

(* An announced playlist is that of an output, or without bitrate.         *)
LEMMA AnunciadaDe ==
  ASSUME NEW c, Buena(c), NEW u, Anunciada(c, u)
  PROVE  SinTasa(c, u) \/ \E k \in Salidas(c) : u = ParteDe(c, k, "lista")
<1>1. ASSUME NEW i \in 1..Len(c.audio), u = Url("audio", c.audio[i], "lista", <<>>, FALSE)
      PROVE  \E k \in Salidas(c) : u = ParteDe(c, k, "lista")
  <2> DEFINE k == <<2, i, 0>>
  <2>1. k \in Salidas(c)
    BY ClavesDe, Zenon
  <2>2. k[1] = 2 /\ k[2] = i
    OBVIOUS
  <2> HIDE DEF k
  <2>3. /\ DirDe(k) = "audio" /\ Archivo(c, k).lang = c.audio[i] /\ Archivo(c, k).b = <<>>
        /\ ConVtt(k) = FALSE
    BY <2>2, ArchivoEs DEF DirDe, ConVtt
  <2> QED
    BY <1>1, <2>1, <2>3, Zenon DEF ParteDe, UrlDe
<1>2. ASSUME NEW i \in 1..NB(c), u = Url("video", SinIdioma, "lista", Tasa(c, i), FALSE)
      PROVE  \E k \in Salidas(c) : u = ParteDe(c, k, "lista")
  <2> DEFINE k == <<1, i, 0>>
  <2>1. k \in Salidas(c)
    BY ClavesDe, Zenon
  <2>2. k[1] = 1 /\ k[2] = i /\ k[3] = 0
    OBVIOUS
  <2> HIDE DEF k
  <2>3. /\ DirDe(k) = "video" /\ Archivo(c, k).lang = SinIdioma /\ Archivo(c, k).b = Tasa(c, i)
        /\ ConVtt(k) = FALSE
    BY <2>2, ArchivoEs DEF DirDe, ConVtt
  <2> QED
    BY <1>2, <2>1, <2>3, Zenon DEF ParteDe, UrlDe
<1>3. ASSUME ~Teletext(c), NEW i \in 1..NB(c), NEW j \in 1..Len(c.subs),
             u = Url("subtitulo", c.subs[j], "lista", Tasa(c, i), FALSE)
      PROVE  \E k \in Salidas(c) : u = ParteDe(c, k, "lista")
  <2> DEFINE k == <<1, i, j>>
  <2>1. k \in Salidas(c)
    BY <1>3, ClavesDe, Zenon
  <2>2. k[1] = 1 /\ k[2] = i /\ k[3] = j /\ j # 0
    OBVIOUS
  <2> HIDE DEF k
  <2>3. /\ DirDe(k) = "subtitulo" /\ Archivo(c, k).lang = c.subs[j] /\ Archivo(c, k).b = Tasa(c, i)
        /\ ConVtt(k) = FALSE
    BY <2>2, ArchivoEs DEF DirDe, ConVtt
  <2> QED
    BY <1>3, <2>1, <2>3, Zenon DEF ParteDe, UrlDe
<1>4. ASSUME NEW j \in 1..Len(c.subs), u = Url("subtitulo", c.subs[j], "lista", <<>>, Teletext(c))
      PROVE  SinTasa(c, u) \/ \E k \in Salidas(c) : u = ParteDe(c, k, "lista")
  <2>0. Teletext(c) \in BOOLEAN
    BY Zenon DEF Teletext
  <2>1. CASE Teletext(c)
    <3> DEFINE k == <<3, j, 0>>
    <3>1. k \in Salidas(c)
      BY <2>1, ClavesDe, Zenon
    <3>2. k[1] = 3 /\ k[2] = j
      OBVIOUS
    <3> HIDE DEF k
    <3>3. /\ DirDe(k) = "subtitulo" /\ Archivo(c, k).lang = c.subs[j] /\ Archivo(c, k).b = <<>>
          /\ ConVtt(k) = TRUE
      BY <3>2, ArchivoEs DEF DirDe, ConVtt
    <3>4. Teletext(c) = TRUE
      BY <2>0, <2>1, Zenon
    <3> QED
      BY <1>4, <3>1, <3>3, <3>4, Zenon DEF ParteDe, UrlDe
  <2>2. CASE ~Teletext(c)
    <3>1. Teletext(c) = FALSE
      BY <2>0, <2>2, Zenon
    <3>2. u = Url("subtitulo", c.subs[j], "lista", <<>>, FALSE)
      BY <1>4, <3>1, Zenon
    <3>3. CASE Bitrates(c) # <<>>
      BY <2>2, <3>2, <3>3, Zenon DEF SinTasa
    <3>4. CASE Bitrates(c) = <<>>
      <4>1. 1 \in 1..NB(c) /\ Tasa(c, 1) = <<>>
        BY <3>4 DEF NB, Tasa
      <4> QED
        BY <1>3, <2>2, <3>2, <4>1, Zenon
    <3> QED
      BY <3>3, <3>4
  <2> QED
    BY <2>1, <2>2
<1> QED
  BY <1>1, <1>2, <1>3, <1>4, Zenon DEF Anunciada

(* A playlist announced without the bitrate is never written.              *)
LEMMA SinTasaFalta ==
  ASSUME NEW c, Buena(c), NEW u, SinTasa(c, u)
  PROVE  ~Escrita(c, u)
<1>1. PICK j \in 1..Len(c.subs) : u = Url("subtitulo", c.subs[j], "lista", <<>>, FALSE)
  BY Zenon DEF SinTasa
<1>2. u.dir = "subtitulo" /\ u.que = "lista" /\ u.b = <<>> /\ ~Teletext(c) /\ Bitrates(c) # <<>>
  BY <1>1 DEF SinTasa, Url
<1>3. u # Pagina /\ u # Maestra
  BY <1>2 DEF Pagina, Maestra, Url
<1>4. ASSUME NEW k \in Salidas(c), De(c, k, u)
      PROVE  FALSE
  <2>1. PICK q, b, v : /\ u = UrlDe(c, k, q, b, v)
                       /\ q # "init" => b = Archivo(c, k).b
    BY <1>4, Zenon DEF De
  <2>2. DirDe(k) = "subtitulo" /\ Archivo(c, k).b = <<>>
    BY <1>2, <2>1, ParteCampos
  <2>3. k[1] = 1 /\ k[2] \in 1..NB(c)
    BY <1>2, <2>2, SalidaEs DEF DirDe
  <2>4. Tasa(c, k[2]) = <<>>
    BY <2>2, <2>3, ArchivoEs
  <2> QED
    BY <1>2, <2>3, <2>4, Tasas, Zenon
<1> QED
  BY <1>3, <1>4, Zenon DEF Escrita

(* A track whose name the routes do not take is one of the exceptions.     *)
LEMMA LargaFalta ==
  ASSUME NEW k, ~Corto(cfg, k), NEW u, u.dir = DirDe(k), u.lang = Archivo(cfg, k).lang
  PROVE  Inalcanzable(u)
  BY DEF Corto, DirDe, Inalcanzable

(* The fields of a playlist or segment.                                    *)
LEMMA ParteEs ==
  ASSUME NEW c, NEW k, NEW q
  PROVE  /\ ParteDe(c, k, q).dir = DirDe(k) /\ ParteDe(c, k, q).lang = Archivo(c, k).lang
         /\ ParteDe(c, k, q).que = q /\ ParteDe(c, k, q).vtt = ConVtt(k)
  BY ParteCampos DEF ParteDe

(* The fields of an init.mp4.                                              *)
LEMMA InitEs ==
  ASSUME NEW c, NEW k
  PROVE  /\ InitDe(c, k).dir = DirDe(k) /\ InitDe(c, k).lang = Archivo(c, k).lang
         /\ InitDe(c, k).que = "init" /\ InitDe(c, k).vtt = FALSE
  BY DEF InitDe, UrlDe, Url

(* The links of the playlist of an output.                                 *)
LEMMA EnlazaParte ==
  ASSUME NEW c, NEW k, NEW w
  PROVE  Enlaza(c, ParteDe(c, k, "lista"), w) <=>
           w = ParteDe(c, k, "segmento") \/ (Nombre(c) = "hevc" /\ k[1] # 3 /\ w = InitDe(c, k))
<1> DEFINE v == ParteDe(c, k, "lista")
<1>0. /\ v.dir = DirDe(k) /\ v.lang = Archivo(c, k).lang /\ v.que = "lista" /\ v.vtt = ConVtt(k)
  BY ParteEs
<1>1. /\ v.dir = DirDe(k) /\ v.lang = Archivo(c, k).lang /\ v.que = "lista" /\ v.vtt = ConVtt(k)
      /\ [v EXCEPT !.que = "segmento"] = ParteDe(c, k, "segmento")
      /\ Url(DirDe(k), Archivo(c, k).lang, "init", <<>>, FALSE) = InitDe(c, k)
  <2>1. [v EXCEPT !.que = "segmento"] = ParteDe(c, k, "segmento")
    BY ParteCampos DEF ParteDe
  <2>2. Url(DirDe(k), Archivo(c, k).lang, "init", <<>>, FALSE) = InitDe(c, k)
    BY DEF InitDe, UrlDe
  <2> HIDE DEF v
  <2> QED
    BY <1>0, <2>1, <2>2, Zenon
<1>2. ~v.vtt <=> k[1] # 3
  BY <1>1, Zenon DEF ConVtt
<1> HIDE DEF v
<1>3. "lista" # "index.html" /\ "lista" # "hls.m3u8"
  OBVIOUS
<1>4. Enlaza(c, v, w) <=> \/ w = [v EXCEPT !.que = "segmento"]
                          \/ Nombre(c) = "hevc" /\ ~v.vtt /\ w = Url(v.dir, v.lang, "init", <<>>, FALSE)
  BY <1>1, <1>3, Zenon DEF Enlaza
<1>5. Url(v.dir, v.lang, "init", <<>>, FALSE) = InitDe(c, k)
  BY <1>1, Zenon
<1>6. Enlaza(c, v, w) <=> w = ParteDe(c, k, "segmento") \/ (Nombre(c) = "hevc" /\ k[1] # 3 /\ w = InitDe(c, k))
  BY <1>1, <1>2, <1>4, <1>5, Zenon
<1> QED
  BY <1>6 DEF v

Conocida(c, u) ==
  \/ u = Pagina \/ u = Maestra \/ Anunciada(c, u)
  \/ \E v : Anunciada(c, v) /\ Contestada(c, v) /\ Enlaza(c, v, u)

(* Playlists and segments are answered, or one of the exceptions.          *)
LEMMA ParteContestada ==
  ASSUME Buena(cfg), NEW k \in Salidas(cfg), NEW q \in {"lista", "segmento"}
  PROVE  Contestada(cfg, ParteDe(cfg, k, q)) \/ Inalcanzable(ParteDe(cfg, k, q))
<1>1. CASE Corto(cfg, k)
  BY <1>1, RutaDe, ParteEscrita, Zenon DEF Contestada
<1>2. CASE ~Corto(cfg, k)
  BY <1>2, ParteEs, LargaFalta
<1> QED
  BY <1>1, <1>2

(* So is init.mp4.                                                         *)
LEMMA InitContestada ==
  ASSUME Buena(cfg), NEW k \in Salidas(cfg), k[1] # 3, Nombre(cfg) = "hevc"
  PROVE  Contestada(cfg, InitDe(cfg, k)) \/ Inalcanzable(InitDe(cfg, k))
<1>1. CASE Corto(cfg, k) /\ DirDe(k) # "subtitulo"
  BY <1>1, RutaDe, ParteEscrita, Zenon DEF Contestada
<1>2. CASE ~Corto(cfg, k)
  BY <1>2, InitEs, LargaFalta
<1>3. CASE DirDe(k) = "subtitulo"
  <2>1. ~Teletext(cfg)
    BY <1>3, SalidaEs DEF DirDe
  <2> QED
    BY <1>3, <2>1, InitEs DEF Inalcanzable
<1> QED
  BY <1>1, <1>2, <1>3

(* Whatever the player may come to know of is answered, or one of the      *)
(* exceptions.                                                             *)
LEMMA ConocidaSirve ==
  ASSUME Buena(cfg), NEW u, Conocida(cfg, u)
  PROVE  Contestada(cfg, u) \/ Inalcanzable(u)
<1>1. CASE u = Pagina \/ u = Maestra
  <2>1. u.dir = "video"
    BY <1>1 DEF Pagina, Maestra, Url
  <2> QED
    BY <1>1, <2>1, Zenon DEF Contestada, Escrita, Ruta
<1>2. CASE Anunciada(cfg, u)
  <2>1. CASE SinTasa(cfg, u)
    <3>1. u.dir = "subtitulo" /\ u.que = "lista" /\ u.b = <<>> /\ ~Teletext(cfg) /\ Bitrates(cfg) # <<>>
      BY <2>1 DEF SinTasa, Url
    <3> QED
      BY <3>1, Zenon DEF Inalcanzable
  <2>2. CASE \E k \in Salidas(cfg) : u = ParteDe(cfg, k, "lista")
    BY <2>2, ParteContestada, Zenon
  <2> QED
    BY <1>2, <2>1, <2>2, AnunciadaDe, Zenon
<1>3. ASSUME NEW v, Anunciada(cfg, v), Contestada(cfg, v), Enlaza(cfg, v, u)
      PROVE  Contestada(cfg, u) \/ Inalcanzable(u)
  <2>1. PICK k \in Salidas(cfg) : v = ParteDe(cfg, k, "lista")
    BY <1>3, AnunciadaDe, SinTasaFalta, Zenon DEF Contestada
  <2>2. u = ParteDe(cfg, k, "segmento") \/ (Nombre(cfg) = "hevc" /\ k[1] # 3 /\ u = InitDe(cfg, k))
    BY <1>3, <2>1, EnlazaParte, Zenon
  <2>3. CASE u = ParteDe(cfg, k, "segmento")
    BY <2>3, ParteContestada, Zenon
  <2>4. CASE Nombre(cfg) = "hevc" /\ k[1] # 3 /\ u = InitDe(cfg, k)
    BY <2>4, InitContestada, Zenon
  <2> QED
    BY <2>2, <2>3, <2>4, Zenon
<1> QED
  BY <1>1, <1>2, <1>3, Zenon DEF Conocida

(* The invariant of the player: it has asked for nothing before ffmpeg has *)
(* opened its outputs; from then on it knows only of what is announced,    *)
(* has what it was served and what that led to, and every answer was the   *)
(* one that the route and the file give.                                   *)
Sabidas == pend \cup servidos \cup perdidos

Cerrado ==
  /\ Pagina \in Sabidas
  /\ \A u \in Sabidas : Conocida(cfg, u)
  /\ \A u \in servidos : \A w : Enlaza(cfg, u, w) => w \in Sabidas
  /\ \A u \in servidos : Contestada(cfg, u)
  /\ \A u \in perdidos : ~Contestada(cfg, u)

RInv ==
  /\ stage # "ok" => pend = {Pagina} /\ servidos = {} /\ perdidos = {}
  /\ Cerrado

(* The invariant of the player holds at the start.                         *)
LEMMA InitRInv == InitR => RInv
<1> SUFFICES ASSUME InitR
             PROVE  RInv
  OBVIOUS
<1>1. pend = {Pagina} /\ servidos = {} /\ perdidos = {}
  BY DEF InitR
<1>2. Sabidas = {Pagina}
  BY <1>1 DEF Sabidas
<1> QED
  BY <1>1, <1>2, Zenon DEF RInv, Cerrado, Conocida

(* The start of ffmpeg preserves it.                                       *)
LEMMA ArranqueRInv ==
  ASSUME RInv, Arranque
  PROVE  RInv'
<1>1. UNCHANGED jugador /\ cfg' = cfg /\ (stage = "ok" => stage' = "ok")
  BY DEF Arranque, Next, Generar, AddOpt, FinishInput, FinishOutput, SplitDone, OpenOutput,
         CheckFilterOutputs, InitStreams, Done, vars
<1>2. pend' = pend /\ servidos' = servidos /\ perdidos' = perdidos /\ Sabidas' = Sabidas
  BY <1>1 DEF jugador, Sabidas
<1>3. Cerrado'
  BY <1>1, <1>2, Zenon DEF RInv, Cerrado
<1> QED
  BY <1>1, <1>2, <1>3 DEF RInv

(* What a link of something known leads to is known.                       *)
LEMMA EnlaceConocido ==
  ASSUME NEW c, Buena(c), NEW u, Conocida(c, u), Contestada(c, u), NEW w, Enlaza(c, u, w)
  PROVE  Conocida(c, w)
<1>1. CASE u = Pagina
  <2>1. u.que = "index.html"
    BY <1>1 DEF Pagina, Url
  <2> QED
    BY <2>1 DEF Enlaza, Conocida
<1>2. CASE u = Maestra
  <2>1. u.que = "hls.m3u8"
    BY <1>2 DEF Maestra, Url
  <2> QED
    BY <2>1 DEF Enlaza, Conocida
<1>3. CASE Anunciada(c, u)
  BY <1>3, Zenon DEF Conocida
<1>4. ASSUME NEW v, Anunciada(c, v), Contestada(c, v), Enlaza(c, v, u)
      PROVE  FALSE
  <2>1. PICK k \in Salidas(c) : v = ParteDe(c, k, "lista")
    BY <1>4, AnunciadaDe, SinTasaFalta, Zenon DEF Contestada
  <2>2. u = ParteDe(c, k, "segmento") \/ u = InitDe(c, k)
    BY <1>4, <2>1, EnlazaParte, Zenon
  <2>3. u.que = "segmento" \/ u.que = "init"
    <3>1. CASE u = ParteDe(c, k, "segmento")
      BY <3>1, ParteEs
    <3>2. CASE u = InitDe(c, k)
      BY <3>2, InitEs
    <3> QED
      BY <2>2, <3>1, <3>2
  <2> QED
    BY <2>3 DEF Enlaza
<1> QED
  BY <1>1, <1>2, <1>3, <1>4, Zenon DEF Conocida

(* So do the requests of the player.                                       *)
LEMMA PedirRInv ==
  ASSUME IInv, RInv, Pedir
  PROVE  RInv'
<1>1. stage = "ok" /\ stage' = "ok" /\ cfg' = cfg
  BY DEF Pedir, vars
<1>2. Buena(cfg) /\ \A u : u \in EnDisco <=> Escrita(cfg, u)
  BY <1>1, EnDiscoEs, Zenon
<1>3. \A u : Respondida(u) <=> Contestada(cfg, u)
  BY <1>2, Zenon DEF Respondida, Contestada
<1>4. \A u, w : w \in Enlaces(u) <=> Enlaza(cfg, u, w)
  BY <1>2, EnlazaEs, Zenon
<1>5. /\ \A u : u \in servidos' <=> u \in servidos \/ (u \in pend /\ Contestada(cfg, u))
      /\ \A u : u \in perdidos' <=> u \in perdidos \/ (u \in pend /\ ~Contestada(cfg, u))
  BY <1>3, Zenon DEF Pedir
<1>6. \A w : w \in pend' <=> /\ \E u \in pend : Contestada(cfg, u) /\ Enlaza(cfg, u, w)
                             /\ w \notin servidos' /\ w \notin perdidos'
  <2> DEFINE U == UNION {Enlaces(u) : u \in {v \in pend : Respondida(v)}}
  <2>1. pend' = U \ (servidos' \cup perdidos')
    BY DEF Pedir
  <2>2. \A w : w \in U <=> \E u \in pend : Respondida(u) /\ w \in Enlaces(u)
    OBVIOUS
  <2> HIDE DEF U
  <2>3. \A w : w \in pend' <=> w \in U /\ w \notin servidos' /\ w \notin perdidos'
    BY <2>1
  <2>4. \A w : (\E u \in pend : Respondida(u) /\ w \in Enlaces(u))
                <=> (\E u \in pend : Contestada(cfg, u) /\ Enlaza(cfg, u, w))
    BY <1>3, <1>4, Zenon
  <2> QED
    BY <2>2, <2>3, <2>4, Zenon
<1>7. \A u : u \in Sabidas <=> u \in pend \/ u \in servidos \/ u \in perdidos
  BY Zenon DEF Sabidas
<1>8. \A u : u \in Sabidas' <=> u \in pend' \/ u \in servidos' \/ u \in perdidos'
  BY Zenon DEF Sabidas
<1>9. \A u : u \in Sabidas => u \in Sabidas' /\ (u \in servidos' \/ u \in perdidos')
  BY <1>5, <1>7, <1>8, Zenon
<1>10. Pagina \in Sabidas'
  BY <1>9, Zenon DEF RInv, Cerrado
<1>11. ASSUME NEW u \in Sabidas'
       PROVE  Conocida(cfg, u)
  <2>1. CASE u \in Sabidas
    BY <2>1, Zenon DEF RInv, Cerrado
  <2>2. CASE u \notin Sabidas
    <3>1. u \in pend'
      BY <1>5, <1>7, <1>8, <2>2, Zenon
    <3>2. PICK v \in pend : Contestada(cfg, v) /\ Enlaza(cfg, v, u)
      BY <1>6, <3>1, Zenon
    <3>3. Conocida(cfg, v)
      BY <1>7, Zenon DEF RInv, Cerrado
    <3> QED
      BY <1>2, <3>2, <3>3, EnlaceConocido, Zenon
  <2> QED
    BY <2>1, <2>2
<1>12. ASSUME NEW u \in servidos', NEW w, Enlaza(cfg, u, w)
       PROVE  w \in Sabidas'
  <2>1. CASE u \in servidos
    BY <1>9, <1>12, <2>1, Zenon DEF RInv, Cerrado
  <2>2. CASE u \in pend /\ Contestada(cfg, u)
    BY <1>6, <1>8, <1>12, <2>2, Zenon
  <2> QED
    BY <1>5, <2>1, <2>2, Zenon
<1>13. ASSUME NEW u \in servidos'
       PROVE  Contestada(cfg, u)
  BY <1>5, Zenon DEF RInv, Cerrado
<1>14. ASSUME NEW u \in perdidos'
       PROVE  ~Contestada(cfg, u)
  BY <1>5, Zenon DEF RInv, Cerrado
<1>15. Cerrado'
  BY <1>1, <1>10, <1>11, <1>12, <1>13, <1>14, Zenon DEF Cerrado
<1> QED
  BY <1>1, <1>15 DEF RInv

(* The invariants imply NadaFalta.                                         *)
LEMMA InvNadaFalta == IInv /\ RInv => NadaFalta
<1> SUFFICES ASSUME IInv, RInv, NEW u \in perdidos
             PROVE  Inalcanzable(u)
  BY DEF NadaFalta
<1>1. stage = "ok"
  BY DEF RInv
<1>2. Buena(cfg)
  BY <1>1, EnDiscoEs, Zenon
<1>3. Conocida(cfg, u) /\ ~Contestada(cfg, u)
  BY Zenon DEF RInv, Cerrado, Sabidas
<1> QED
  BY <1>2, <1>3, ConocidaSirve, Zenon

(* The invariants imply TodoAnunciado.                                     *)
LEMMA InvTodoAnunciado == IInv /\ RInv => TodoAnunciado
<1> SUFFICES ASSUME IInv, RInv, stage = "ok", pend = {}, NEW u \in EnDisco
             PROVE  u \in servidos \/ Portadora(u) \/ Inalcanzable(u)
  BY DEF TodoAnunciado
<1>1. Buena(cfg) /\ Escrita(cfg, u)
  BY EnDiscoEs, Zenon
<1>2. \A v \in Sabidas : v \in servidos \/ Inalcanzable(v)
  <2>1. NadaFalta
    BY InvNadaFalta, Zenon
  <2> QED
    BY <2>1, Zenon DEF NadaFalta, Sabidas
<1>3. \A v \in Sabidas : Contestada(cfg, v) => v \in servidos
  BY Zenon DEF RInv, Cerrado, Sabidas
<1>4. \A v \in servidos : \A w : Enlaza(cfg, v, w) => w \in Sabidas
  BY Zenon DEF RInv, Cerrado
<1>5. Pagina.dir = "video" /\ Maestra.dir = "video" /\ Pagina.que = "index.html" /\ Maestra.que = "hls.m3u8"
  BY DEF Pagina, Maestra, Url
<1>6. Contestada(cfg, Pagina) /\ Contestada(cfg, Maestra)
  BY <1>5, Zenon DEF Contestada, Escrita, Ruta
<1>7. Pagina \in servidos
  BY <1>3, <1>6, Zenon DEF RInv, Cerrado
<1>8. Maestra \in servidos
  BY <1>3, <1>4, <1>5, <1>6, <1>7, Zenon DEF Enlaza
<1>9. \A v : Anunciada(cfg, v) => v \in Sabidas
  BY <1>4, <1>5, <1>8, Zenon DEF Enlaza
<1>10. ASSUME NEW k \in Salidas(cfg), De(cfg, k, u)
       PROVE  u \in servidos \/ Portadora(u) \/ Inalcanzable(u)
  <2>1. u.dir = DirDe(k) /\ u.lang = Archivo(cfg, k).lang
    BY <1>10 DEF De, UrlDe, Url
  <2>2. CASE ~Corto(cfg, k)
    BY <2>1, <2>2, LargaFalta
  <2>3. CASE k[1] = 3 /\ u.vtt = FALSE
    <3>1. Teletext(cfg)
      BY <1>1, <2>3, SalidaEs, Zenon
    <3>2. DirDe(k) = "subtitulo"
      BY <2>3 DEF DirDe
    <3> QED
      BY <2>1, <2>3, <3>1, <3>2, Zenon DEF Portadora
  <2>4. CASE Corto(cfg, k) /\ ~(k[1] = 3 /\ u.vtt = FALSE)
    <3> DEFINE v == ParteDe(cfg, k, "lista")
    <3>1. v \in Sabidas /\ Contestada(cfg, v)
      BY <1>1, <1>9, <2>4, ListaAnunciada, RutaDe, ParteEscrita, Zenon DEF Contestada
    <3>2. v \in servidos
      BY <1>3, <3>1, Zenon
    <3>3. ParteDe(cfg, k, "segmento") \in Sabidas
      BY <1>4, <3>2, EnlazaParte, Zenon
    <3>4. Nombre(cfg) = "hevc" /\ k[1] # 3 => InitDe(cfg, k) \in Sabidas
      BY <1>4, <3>2, EnlazaParte, Zenon
    <3>5. \/ \E q \in {"lista", "segmento"} : u = ParteDe(cfg, k, q)
          \/ Nombre(cfg) = "hevc" /\ k[1] # 3 /\ u = InitDe(cfg, k)
      <4>1. \A q, b : UrlDe(cfg, k, q, b, FALSE).vtt = FALSE
        BY DEF UrlDe, Url
      <4>2. CASE k[1] = 3
        BY <1>10, <2>4, <4>1, <4>2, Zenon DEF De, ParteDe, ConVtt
      <4>3. CASE k[1] # 3
        BY <1>10, <4>3, Zenon DEF De, ParteDe, ConVtt, InitDe
      <4> QED
        BY <4>2, <4>3
    <3> QED
      BY <1>2, <3>2, <3>3, <3>4, <3>5, Zenon
  <2> QED
    BY <2>2, <2>3, <2>4, Zenon
<1> QED
  BY <1>1, <1>7, <1>8, <1>10, Zenon DEF Escrita

-----------------------------------------------------------------------------
(* The theorems.                                                           *)

(* Invariante: while the arguments of inicializarFfmpegEncoding are split  *)
(* and the outputs opened, the walk through them is where IInv says.       *)
THEOREM Invariante == SpecR => []IInv
<1>1. InitR => IInv
  BY InitInv DEF InitR
<1>2. IInv /\ [NextR]_<<vars, jugador>> => IInv'
  <2> SUFFICES ASSUME IInv, [NextR]_<<vars, jugador>>
               PROVE  IInv'
    OBVIOUS
  <2>1. [Next]_vars
    BY DEF NextR, Arranque, Pedir
  <2> QED
    BY <2>1, NextInv
<1> QED
  BY <1>1, <1>2, PTL DEF SpecR

(* FfmpegArranca: ffmpeg accepts every list of arguments that              *)
(* inicializarFfmpegEncoding writes, except the two kinds of Rechazada:    *)
(* no argument is left between two groups and no output ends the program.  *)
THEOREM FfmpegArranca == SpecR => []Arranca
<1>1. IInv => Arranca
  BY InvArranca
<1> QED
  BY <1>1, Invariante, PTL

(* ContenidoDeSalidas: each output holds the tracks it is named after and  *)
(* no other, although the pads of the filter graphs are found by labels    *)
(* that all the graphs share.                                              *)
THEOREM ContenidoDeSalidas == SpecR => []Contenido
<1>1. IInv => Contenido
  BY InvContenido
<1> QED
  BY <1>1, Invariante, PTL

(* SalidasPedidas: the options of a group reach the output they were       *)
(* written for: codec, bitrate and frames on the GPU are those that the    *)
(* -cv flag and -hwaccel ask for.                                          *)
THEOREM SalidasPedidas == SpecR => []SalidaPedida
<1>1. IInv => SalidaPedida
  BY InvSalidaPedida
<1> QED
  BY <1>1, Invariante, PTL

(* MaximosSuficientes: what calcularBitrateMaximo makes of the digits of a *)
(* bitrate is at least the bitrate in the ranges of MaximoSuficiente, and  *)
(* never is for five digits.                                               *)
THEOREM MaximosSuficientes == SpecR => []MaximoSuficiente
<1>1. IInv => MaximoSuficiente
  BY InvMaximoSuficiente
<1> QED
  BY <1>1, Invariante, PTL

(* ArchivosSeparados: two outputs of one ffmpeg never write the same file, *)
(* init.mp4 of several bitrates apart.                                     *)
THEOREM ArchivosSeparados == SpecR => []ArchivosPropios
<1>1. IInv => ArchivosPropios
  BY InvArchivosPropios
<1> QED
  BY <1>1, Invariante, PTL

(* TodoReproducible: a player that starts at the page and follows every    *)
(* link gets no 404 but for the exceptions of Inalcanzable, and ends up    *)
(* with all that ffmpeg writes.                                            *)
THEOREM TodoReproducible == SpecR => []Reproducible
<1>1. InitR => IInv /\ RInv
  BY InitInv, InitRInv DEF InitR
<1>2. IInv /\ RInv /\ [NextR]_<<vars, jugador>> => RInv'
  <2> SUFFICES ASSUME IInv, RInv, [NextR]_<<vars, jugador>>
               PROVE  RInv'
    OBVIOUS
  <2>1. CASE Arranque
    BY <2>1, ArranqueRInv
  <2>2. CASE Pedir
    BY <2>2, PedirRInv
  <2>3. CASE UNCHANGED <<vars, jugador>>
    <3>1. cfg' = cfg /\ stage' = stage /\ pend' = pend /\ servidos' = servidos /\ perdidos' = perdidos
      BY <2>3 DEF vars, jugador
    <3> QED
      BY <3>1, Zenon DEF RInv, Cerrado, Sabidas
  <2> QED
    BY <2>1, <2>2, <2>3 DEF NextR
<1>3. IInv /\ RInv => Reproducible
  BY InvNadaFalta, InvTodoAnunciado DEF Reproducible
<1> QED
  BY <1>1, <1>2, <1>3, Invariante, PTL DEF SpecR
=============================================================================
