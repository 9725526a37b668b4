------------------------------ MODULE UdpProofs ------------------------------
(***************************************************************************)
(* Proofs about Udp, for a buffer of any size, counters of any width, any  *)
(* lengths of the datagrams and of the caller's buffer, any options, and   *)
(* any number of datagrams and of signals.                                 *)
(***************************************************************************)
EXTENDS Udp, FiniteSetTheorems, SequenceTheorems, WellFoundedInduction, TLAPS

-----------------------------------------------------------------------------
(* The ring buffer. *)

Bytes == [kind : {"len", "data", "junk"}, id : Nat, n : Nat]

Fifos == [buffer : [0..(circular_buffer_size - 1) -> Bytes],
          rptr : 0..(circular_buffer_size - 1), wptr : 0..(circular_buffer_size - 1),
          rndx : 0..(2^Width - 1), wndx : 0..(2^Width - 1)]

(* The counters are apart by what the buffer holds, and so are the         *)
(* pointers, around its end.                                               *)
FifoOK(f) ==
  /\ f \in Fifos
  /\ av_fifo_size(f) \in 0..circular_buffer_size
  /\ f.wptr = Around(f, f.rptr + av_fifo_size(f))

(* What the buffer holds. *)
Held(f) == av_fifo_generic_peek(f, av_fifo_size(f))

LEMMA Wrap ==
  ASSUME NEW k \in Nat \ {0}, NEW a \in Int, -k <= a, a < k + k
  PROVE  a % k = IF a < 0 THEN a + k ELSE IF a < k THEN a ELSE a - k
<1>1. CASE a < 0
  <2>1. a % k = a + k
    BY <1>1
  <2> QED
    BY <1>1, <2>1
<1>2. CASE 0 <= a /\ a < k
  <2>1. a % k = a
    BY <1>2
  <2> QED
    BY <1>2, <2>1
<1>3. CASE k <= a
  <2>1. a % k = a - k
    BY <1>3
  <2> QED
    BY <1>3, <2>1
<1> QED
  BY <1>1, <1>2, <1>3

(* Counters that overflow: their difference, and where one goes. *)
LEMMA Minus ==
  ASSUME NEW k \in Nat \ {0}, NEW x \in 0..(k - 1), NEW y \in 0..(k - 1)
  PROVE  (x - y) % k = IF x >= y THEN x - y ELSE x - y + k
<1> DEFINE d == x - y
<1>1. d \in Int /\ -k <= d /\ d < k + k /\ d < k
  OBVIOUS
<1> HIDE DEF d
<1>2. d % k = IF d < 0 THEN d + k ELSE d
  BY <1>1, Wrap
<1> QED
  BY <1>1, <1>2 DEF d

LEMMA Plus ==
  ASSUME NEW k \in Nat \ {0}, NEW x \in 0..(k - 1), NEW n \in 0..(k - 1)
  PROVE  (x + n) % k = IF x + n < k THEN x + n ELSE x + n - k
<1> DEFINE d == x + n
<1>1. d \in Int /\ -k <= d /\ d < k + k /\ ~(d < 0)
  OBVIOUS
<1> HIDE DEF d
<1>2. d % k = IF d < k THEN d ELSE d - k
  BY <1>1, Wrap
<1> QED
  BY <1>1, <1>2 DEF d

(* A position around the end of c bytes. *)
Turn(c, p) == IF p >= c THEN p - c ELSE p

(* Reading on from where a drain of n bytes stops. *)
LEMMA TurnDrain ==
  ASSUME NEW c \in Nat \ {0}, NEW r \in 0..(c - 1), NEW s \in 0..c, NEW n \in 0..s
  PROVE  /\ Turn(c, r + n) \in 0..(c - 1)
         /\ Turn(c, r + s) = Turn(c, Turn(c, r + n) + (s - n))
         /\ \A i \in 1..(s - n) :
              Turn(c, Turn(c, r + n) + i - 1) = Turn(c, r + (i + n) - 1)
BY DEF Turn

LEMMA Numbers ==
  /\ circular_buffer_size \in Nat \ {0} /\ 2^Width \in Nat \ {0}
  /\ circular_buffer_size <= 2^Width - 1
BY InputsAssumption, WidthAssumption

LEMMA FifoSize ==
  ASSUME NEW f, FifoOK(f)
  PROVE  /\ DOMAIN f.buffer = 0..(circular_buffer_size - 1)
         /\ Size(f) = circular_buffer_size
         /\ av_fifo_space(f) = circular_buffer_size - av_fifo_size(f)
<1>1. DOMAIN f.buffer = 0..(circular_buffer_size - 1)
  BY DEF FifoOK, Fifos
<1>2. Cardinality(0..(circular_buffer_size - 1)) = circular_buffer_size
  BY Numbers, FS_Interval
<1> QED
  BY <1>1, <1>2 DEF Size, av_fifo_space

(* av_fifo_drain takes the first bytes out. *)
LEMMA Drained ==
  ASSUME NEW f, FifoOK(f), NEW num \in 0..av_fifo_size(f)
  PROVE  LET g == av_fifo_drain(f, num) IN
         /\ FifoOK(g) /\ av_fifo_size(g) = av_fifo_size(f) - num
         /\ Held(g) = [i \in 1..(av_fifo_size(f) - num) |-> Held(f)[i + num]]
<1> DEFINE n == num
           g == av_fifo_drain(f, n)
           c == circular_buffer_size
           k == 2^Width
           s == av_fifo_size(f)
           r == f.rptr
           rn == f.rndx
           wn == f.wndx
           p == Turn(c, r + n)
           q == (rn + n) % k
<1>0. c \in Nat \ {0} /\ k \in Nat \ {0} /\ c <= k - 1
  BY Numbers
<1>1. /\ r \in 0..(c - 1) /\ f.wptr \in 0..(c - 1) /\ rn \in 0..(k - 1)
      /\ wn \in 0..(k - 1) /\ s \in 0..c /\ f.wptr = Around(f, r + s)
      /\ f.buffer \in [0..(c - 1) -> Bytes]
  BY DEF FifoOK, Fifos
<1>2. Size(f) = c /\ \A x : Around(f, x) = Turn(c, x)
  BY FifoSize DEF Around, Turn
<1>3. g = [f EXCEPT !.rptr = p, !.rndx = q]
  BY <1>2 DEF av_fifo_drain
<1> HIDE DEF p, q
<1>4. /\ g.buffer = f.buffer /\ g.rptr = p /\ g.wptr = f.wptr
      /\ g.rndx = q /\ g.wndx = wn
  BY <1>3 DEF FifoOK, Fifos
<1>5. \A x : Around(g, x) = Turn(c, x)
  BY <1>2, <1>4 DEF Around, Turn, Size
<1>6. s = (wn - rn) % k /\ av_fifo_size(g) = (wn - q) % k
  BY <1>4 DEF av_fifo_size
<1> HIDE DEF g, c, k, s, r, rn, wn, n
<1>7. n \in 0..(k - 1) /\ n \in 0..s /\ s - n \in 0..c
  BY <1>0, <1>1 DEF s, n
<1>8. av_fifo_size(g) = s - n /\ q \in 0..(k - 1)
  <2>1. k \in Nat \ {0} /\ rn \in 0..(k - 1) /\ wn \in 0..(k - 1) /\ n \in 0..(k - 1)
    BY <1>0, <1>1, <1>7
  <2>2. q = IF rn + n < k THEN rn + n ELSE rn + n - k
    BY <2>1, Plus DEF q
  <2>3. q \in 0..(k - 1)
    BY <2>1, <2>2
  <2>4. s = IF wn >= rn THEN wn - rn ELSE wn - rn + k
    BY <1>6, <2>1, Minus
  <2>5. (wn - q) % k = IF wn >= q THEN wn - q ELSE wn - q + k
    BY <2>1, <2>3, Minus
  <2>6. (IF wn >= q THEN wn - q ELSE wn - q + k) = s - n
    BY <1>7, <2>1, <2>2, <2>4
  <2> QED
    BY <1>6, <2>3, <2>5, <2>6, Zenon
<1>9. /\ p \in 0..(c - 1) /\ f.wptr = Turn(c, p + (s - n))
      /\ \A i \in 1..(s - n) : Turn(c, p + i - 1) = Turn(c, r + (i + n) - 1)
  <2>1. f.wptr = Turn(c, r + s)
    BY <1>1, <1>2
  <2>2. c \in Nat \ {0} /\ r \in 0..(c - 1) /\ s \in 0..c /\ n \in 0..s
    BY <1>0, <1>1, <1>7
  <2>3. /\ Turn(c, r + n) \in 0..(c - 1)
        /\ Turn(c, r + s) = Turn(c, Turn(c, r + n) + (s - n))
        /\ \A i \in 1..(s - n) :
             Turn(c, Turn(c, r + n) + i - 1) = Turn(c, r + (i + n) - 1)
    BY <2>2, TurnDrain, Zenon
  <2> QED
    BY <2>1, <2>3, Zenon DEF p
<1>10. FifoOK(g)
  <2>1. g \in Fifos
    BY <1>3, <1>8, <1>9 DEF FifoOK, Fifos, c, k
  <2>2. g.wptr = Around(g, g.rptr + (s - n))
    BY <1>4, <1>5, <1>9
  <2> QED
    BY <1>7, <1>8, <2>1, <2>2 DEF FifoOK, c
<1>11. Held(g) = [i \in 1..(s - n) |-> Held(f)[i + n]]
  <2>1. Held(g) = [i \in 1..(s - n) |-> g.buffer[Around(g, g.rptr + i - 1)]]
    BY <1>8 DEF Held, av_fifo_generic_peek
  <2>2. Held(f) = [i \in 1..s |-> f.buffer[Around(f, r + i - 1)]]
    BY DEF Held, av_fifo_generic_peek, s, r
  <2>3. ASSUME NEW i \in 1..(s - n)
        PROVE  g.buffer[Around(g, g.rptr + i - 1)] = Held(f)[i + n]
    <3>1. i + n \in 1..s
      BY <1>1, <1>7
    <3>2. Held(f)[i + n] = f.buffer[Turn(c, r + (i + n) - 1)]
      BY <1>2, <2>2, <3>1
    <3>3. g.buffer[Around(g, g.rptr + i - 1)] = f.buffer[Turn(c, p + i - 1)]
      BY <1>4, <1>5
    <3> QED
      BY <1>9, <3>2, <3>3
  <2> QED
    BY <2>1, <2>3
<1> QED
  BY <1>8, <1>10, <1>11 DEF g, s, n

(* av_fifo_generic_write puts the bytes behind those that are there, also  *)
(* when they do not fit before the end of the memory.                      *)
LEMMA Written ==
  ASSUME NEW f, FifoOK(f), NEW src \in Seq(Bytes), Len(src) \in 0..av_fifo_space(f)
  PROVE  LET g == av_fifo_generic_write(f, src) IN
         /\ FifoOK(g) /\ av_fifo_size(g) = av_fifo_size(f) + Len(src)
         /\ Held(g) = [i \in 1..(av_fifo_size(f) + Len(src)) |->
                         IF i <= av_fifo_size(f) THEN Held(f)[i]
                         ELSE src[i - av_fifo_size(f)]]
<1> DEFINE g == av_fifo_generic_write(f, src)
           c == circular_buffer_size
           k == 2^Width
           s == av_fifo_size(f)
           n == Len(src)
           r == f.rptr
           w == f.wptr
           rn == f.rndx
           wn == f.wndx
           len1 == IF Size(f) - w < n THEN Size(f) - w ELSE n
           len2 == n - len1
           p == Around(f, w + len1) + len2
           q == (wn + n) % k
           buf == [a \in DOMAIN f.buffer |->
                     CASE a \in w..(w + len1 - 1) -> src[a - w + 1]
                       [] a < len2                -> src[len1 + a + 1]
                       [] OTHER                   -> f.buffer[a]]
<1>0. c \in Nat \ {0} /\ k \in Nat \ {0} /\ c <= k - 1
  BY Numbers
<1>1. /\ r \in 0..(c - 1) /\ w \in 0..(c - 1) /\ rn \in 0..(k - 1)
      /\ wn \in 0..(k - 1) /\ s \in 0..c /\ w = Around(f, r + s)
      /\ f.buffer \in [0..(c - 1) -> Bytes]
  BY DEF FifoOK, Fifos
<1>2. /\ Size(f) = c /\ n \in 0..(c - s) /\ DOMAIN f.buffer = 0..(c - 1)
      /\ \A x : Around(f, x) = Turn(c, x)
  BY FifoSize DEF Around, Turn
<1>3. g = [f EXCEPT !.buffer = buf, !.wptr = p, !.wndx = q]
  BY DEF av_fifo_generic_write
<1> HIDE DEF buf, p, q
<1>4. /\ g.buffer = buf /\ g.rptr = r /\ g.wptr = p /\ g.rndx = rn /\ g.wndx = q
  BY <1>3 DEF FifoOK, Fifos
<1>5. \A x : Around(g, x) = Turn(c, x)
  <2>1. DOMAIN g.buffer = DOMAIN f.buffer
    BY <1>4 DEF buf
  <2> QED
    BY <1>2, <2>1 DEF Around, Turn, Size
<1>6. s = (wn - rn) % k /\ av_fifo_size(g) = (q - rn) % k
  BY <1>4 DEF av_fifo_size
<1>7. src \in [1..n -> Bytes]
  OBVIOUS
<1>8. /\ len1 = (IF c - w < n THEN c - w ELSE n) /\ len2 = n - len1
      /\ p = Turn(c, w + len1) + len2
  BY <1>2 DEF p
<1> HIDE DEF g, c, k, s, r, w, n, rn, wn, len1, len2
<1>9. n \in 0..(k - 1) /\ n \in Nat /\ s + n <= c /\ s \in Nat
  BY <1>0, <1>1, <1>2
<1>10. av_fifo_size(g) = s + n /\ q \in 0..(k - 1)
  <2>1. k \in Nat \ {0} /\ rn \in 0..(k - 1) /\ wn \in 0..(k - 1) /\ n \in 0..(k - 1)
    BY <1>0, <1>1, <1>9
  <2>2. q = IF wn + n < k THEN wn + n ELSE wn + n - k
    BY <2>1, Plus DEF q
  <2>3. q \in 0..(k - 1)
    BY <2>1, <2>2
  <2>4. s = IF wn >= rn THEN wn - rn ELSE wn - rn + k
    BY <1>6, <2>1, Minus
  <2>5. (q - rn) % k = IF q >= rn THEN q - rn ELSE q - rn + k
    BY <2>1, <2>3, Minus
  <2>6. (IF q >= rn THEN q - rn ELSE q - rn + k) = s + n
    BY <1>0, <1>9, <2>1, <2>2, <2>4
  <2> QED
    BY <1>6, <2>3, <2>5, <2>6, Zenon
<1>11. w = Turn(c, r + s) /\ w \in 0..(c - 1) /\ len1 \in 0..n /\ len2 \in 0..n
       /\ len1 <= c - w
  <2>1. w = Turn(c, r + s)
    BY <1>1, <1>2
  <2> QED
    BY <1>0, <1>1, <1>8, <1>9, <2>1, SMTT(30)
<1>14. /\ c \in Int /\ 0 < c /\ r \in Int /\ 0 <= r /\ r < c /\ s \in Int /\ 0 <= s
       /\ n \in Int /\ 0 <= n /\ s + n <= c /\ len2 = n - len1
       /\ w = (IF r + s >= c THEN r + s - c ELSE r + s)
       /\ len1 = (IF c - w < n THEN c - w ELSE n)
  BY <1>0, <1>1, <1>8, <1>9, <1>11 DEF Turn
<1>15. p \in 0..(c - 1) /\ p = Turn(c, r + (s + n))
  <2>1. p = Turn(c, w + len1) + len2
    BY <1>8
  <2> QED
    BY <1>14, <2>1 DEF Turn
<1>16. ASSUME NEW i \in 1..s, NEW a, a = Turn(c, r + i - 1)
       PROVE  a \in 0..(c - 1) /\ a \notin w..(w + len1 - 1) /\ ~(a < len2)
  BY <1>14, <1>16 DEF Turn
<1>17. ASSUME NEW i \in 1..n, NEW a, a = Turn(c, r + (s + i) - 1)
       PROVE  /\ a \in 0..(c - 1)
              /\ i <= len1 => a \in w..(w + len1 - 1) /\ a - w + 1 = i
              /\ i > len1 => a \notin w..(w + len1 - 1) /\ a < len2 /\ len1 + a + 1 = i
  BY <1>14, <1>17 DEF Turn
<1>12. ASSUME NEW a \in 0..(c - 1)
       PROVE  /\ a \in w..(w + len1 - 1) => buf[a] = src[a - w + 1]
              /\ a \notin w..(w + len1 - 1) /\ a < len2 => buf[a] = src[len1 + a + 1]
              /\ a \notin w..(w + len1 - 1) /\ ~(a < len2) => buf[a] = f.buffer[a]
  <2>1. buf[a] = CASE a \in w..(w + len1 - 1) -> src[a - w + 1]
                   [] a < len2                -> src[len1 + a + 1]
                   [] OTHER                   -> f.buffer[a]
    BY <1>2 DEF buf
  <2>2. (a \in w..(w + len1 - 1)) => ~(a < len2)
    BY <1>14
  <2>3. CASE a \in w..(w + len1 - 1)
    BY <2>1, <2>2, <2>3
  <2>4. CASE a \notin w..(w + len1 - 1) /\ a < len2
    BY <2>1, <2>4
  <2>5. CASE a \notin w..(w + len1 - 1) /\ ~(a < len2)
    BY <2>1, <2>5
  <2> QED
    BY <2>3, <2>4, <2>5
<1>13. FifoOK(g)
  <2>1. buf \in [0..(c - 1) -> Bytes]
    <3>1. ASSUME NEW a \in 0..(c - 1) PROVE buf[a] \in Bytes
      <4>1. CASE a \in w..(w + len1 - 1)
        <5>1. a - w + 1 \in 1..n
          BY <1>11, <1>14, <4>1, SMTT(30)
        <5> QED
          BY <1>7, <1>12, <4>1, <5>1
      <4>2. CASE a \notin w..(w + len1 - 1) /\ a < len2
        <5>1. len1 + a + 1 \in 1..n
          BY <1>11, <1>14, <4>2
        <5> QED
          BY <1>7, <1>12, <4>2, <5>1
      <4>3. CASE a \notin w..(w + len1 - 1) /\ ~(a < len2)
        BY <1>1, <1>12, <4>3
      <4> QED
        BY <4>1, <4>2, <4>3
    <3> QED
      BY <1>2, <3>1 DEF buf
  <2>2. g \in Fifos
    BY <1>3, <1>10, <1>15, <2>1 DEF FifoOK, Fifos, c, k
  <2>3. g.wptr = Around(g, g.rptr + (s + n))
    BY <1>4, <1>5, <1>15
  <2>4. s + n \in 0..c
    BY <1>9
  <2> QED
    BY <1>10, <2>2, <2>3, <2>4 DEF FifoOK, c
<1>18. Held(g) = [i \in 1..(s + n) |-> IF i <= s THEN Held(f)[i] ELSE src[i - s]]
  <2>1. Held(g) = [i \in 1..(s + n) |-> g.buffer[Around(g, g.rptr + i - 1)]]
    BY <1>10 DEF Held, av_fifo_generic_peek
  <2>2. Held(f) = [i \in 1..s |-> f.buffer[Around(f, r + i - 1)]]
    BY DEF Held, av_fifo_generic_peek, s, r
  <2>3. ASSUME NEW i \in 1..(s + n)
        PROVE  g.buffer[Around(g, g.rptr + i - 1)] = IF i <= s THEN Held(f)[i] ELSE src[i - s]
    <3> DEFINE a == Turn(c, r + i - 1)
    <3>1. g.buffer[Around(g, g.rptr + i - 1)] = buf[a]
      BY <1>4, <1>5
    <3>2. CASE i <= s
      <4>1. i \in 1..s
        BY <1>9, <3>2
      <4>2. a \in 0..(c - 1) /\ a \notin w..(w + len1 - 1) /\ ~(a < len2)
        BY <1>16, <4>1
      <4>3. Held(f)[i] = f.buffer[a]
        BY <1>2, <2>2, <4>1
      <4> HIDE DEF a
      <4>4. buf[a] = f.buffer[a]
        BY <1>12, <4>2
      <4> QED
        BY <3>1, <3>2, <4>3, <4>4
    <3>3. CASE ~(i <= s)
      <4> DEFINE j == i - s
      <4>1. j \in 1..n /\ i = s + j
        BY <1>9, <3>3
      <4> HIDE DEF j
      <4>2. /\ a \in 0..(c - 1)
            /\ j <= len1 => a \in w..(w + len1 - 1) /\ a - w + 1 = j
            /\ j > len1 => a \notin w..(w + len1 - 1) /\ a < len2 /\ len1 + a + 1 = j
        BY <1>17, <4>1
      <4> HIDE DEF a
      <4>3. buf[a] = src[j]
        <5>1. CASE j <= len1
          BY <1>12, <4>2, <5>1
        <5>2. CASE j > len1
          BY <1>12, <4>2, <5>2
        <5> QED
          BY <1>11, <4>1, <5>1, <5>2
      <4> QED
        BY <3>1, <3>3, <4>3 DEF j
    <3> QED
      BY <3>2, <3>3
  <2> QED
    BY <2>1, <2>3
<1> QED
  BY <1>10, <1>13, <1>18 DEF g, s, n

-----------------------------------------------------------------------------
(* Blocks of bytes one after the other. *)

LEMMA LeastNumber ==
  ASSUME NEW T \in SUBSET Nat, T # {} PROVE \E x \in T : \A y \in T : x <= y
<1> DEFINE Less == {p \in Nat \X Nat : p[1] < p[2]}
<1>1. IsWellFoundedOn(Less, Nat)
  BY NatLessThanWellFounded DEF OpToRel
<1>2. PICK x \in T : \A y \in T : ~(<<y, x>> \in Less)
  <2> HIDE DEF Less
  <2> QED
    BY <1>1, WFMin
<1>3. \A y \in T : ~(y < x)
  BY <1>2
<1> QED
  BY <1>3

LEMMA Induction ==
  ASSUME NEW S, 0 \in S, \A n \in Nat : n \in S => n + 1 \in S
  PROVE  \A n \in Nat : n \in S
<1> DEFINE T == {n \in Nat : n \notin S}
<1>1. SUFFICES ASSUME T # {} PROVE FALSE
  OBVIOUS
<1>2. PICK x \in T : \A y \in T : x <= y
  BY <1>1, LeastNumber
<1>3. x \in Nat \ {0} /\ x - 1 \in Nat
  BY <1>2
<1>4. x - 1 \in S
  BY <1>2, <1>3
<1>5. (x - 1) + 1 = x
  BY <1>3
<1>6. x \in S
  BY <1>3, <1>4, <1>5
<1> QED
  BY <1>2, <1>6

(* Any number of blocks. *)
Rows == [Nat -> Seq(Bytes)]

(* g[m] is the first m blocks of b in a row. *)
IsChain(g, b, m) ==
  /\ g \in [0..m -> Seq(Bytes)]
  /\ g[0] = <<>>
  /\ \A i \in 1..m : g[i] = g[i - 1] \o b[i]

Cat(b, m) == CHOOSE c : \E g : IsChain(g, b, m) /\ c = g[m]

LEMMA ChainExists ==
  ASSUME NEW b \in Rows
  PROVE  \A m \in Nat : \E g : IsChain(g, b, m)
<1> DEFINE S == {m \in Nat : \E g : IsChain(g, b, m)}
<1>1. 0 \in S
  <2>1. IsChain([i \in 0..0 |-> <<>>], b, 0)
    BY DEF IsChain
  <2> QED
    BY <2>1
<1>2. ASSUME NEW m \in Nat, m \in S PROVE m + 1 \in S
  <2>1. PICK g : IsChain(g, b, m)
    BY <1>2
  <2> DEFINE h == [i \in 0..(m + 1) |-> IF i = m + 1 THEN g[m] \o b[m + 1] ELSE g[i]]
  <2>2. g[m] \in Seq(Bytes) /\ b[m + 1] \in Seq(Bytes)
    BY <2>1 DEF IsChain, Rows
  <2>3. g[m] \o b[m + 1] \in Seq(Bytes)
    BY <2>2
  <2>4. h \in [0..(m + 1) -> Seq(Bytes)]
    <3>1. \A i \in 0..(m + 1) : i # m + 1 => g[i] \in Seq(Bytes)
      BY <2>1 DEF IsChain
    <3> QED
      BY <2>3, <3>1
  <2>5. h[0] = <<>>
    BY <2>1 DEF IsChain
  <2>6. ASSUME NEW i \in 1..(m + 1) PROVE h[i] = h[i - 1] \o b[i]
    <3>1. i - 1 \in 0..m /\ h[i - 1] = g[i - 1]
      OBVIOUS
    <3>2. CASE i = m + 1
      <4>1. i - 1 = m
        BY <3>2
      <4>2. h[m + 1] = g[m] \o b[m + 1]
        <5>1. m + 1 \in 0..(m + 1)
          OBVIOUS
        <5> QED
          BY <5>1, Zenon
      <4> QED
        BY <3>1, <3>2, <4>1, <4>2, Zenon
    <3>3. CASE i # m + 1
      <4>1. i \in 1..m /\ h[i] = g[i]
        BY <3>3
      <4> QED
        BY <2>1, <3>1, <4>1 DEF IsChain
    <3> QED
      BY <3>2, <3>3
  <2>7. IsChain(h, b, m + 1)
    BY <2>4, <2>5, <2>6 DEF IsChain
  <2> QED
    BY <2>7
<1> HIDE DEF S
<1>3. \A m \in Nat : m \in S
  BY <1>1, <1>2, Induction
<1> QED
  BY <1>3 DEF S

LEMMA ChainUnique ==
  ASSUME NEW b \in Rows, NEW m \in Nat, NEW g, IsChain(g, b, m),
         NEW n \in 0..m, NEW h, IsChain(h, b, n)
  PROVE  h[n] = g[n]
<1> DEFINE S == {i \in Nat : i <= m /\ i <= n => g[i] = h[i]}
<1>1. 0 \in S
  BY DEF IsChain
<1>2. ASSUME NEW i \in Nat, i \in S PROVE i + 1 \in S
  <2>1. SUFFICES ASSUME i + 1 <= m, i + 1 <= n PROVE g[i + 1] = h[i + 1]
    OBVIOUS
  <2>2. g[i] = h[i]
    BY <1>2, <2>1
  <2>3. (i + 1) - 1 = i /\ i + 1 \in 1..m /\ i + 1 \in 1..n
    BY <2>1
  <2>4. g[i + 1] = g[i] \o b[i + 1] /\ h[i + 1] = h[i] \o b[i + 1]
    BY <2>3 DEF IsChain
  <2> QED
    BY <2>2, <2>4
<1> HIDE DEF S
<1>3. \A i \in Nat : i \in S
  BY <1>1, <1>2, Induction
<1> QED
  BY <1>3, n \in Nat /\ n <= m /\ n <= n DEF S

LEMMA CatChain ==
  ASSUME NEW b \in Rows, NEW m \in Nat, NEW g, IsChain(g, b, m)
  PROVE  \A i \in 0..m : Cat(b, i) = g[i] /\ g[i] \in Seq(Bytes)
<1> TAKE i \in 0..m
<1>0. i \in Nat
  OBVIOUS
<1>1. \E h : IsChain(h, b, i)
  BY <1>0, ChainExists, Zenon
<1>2. \E c : \E h : IsChain(h, b, i) /\ c = h[i]
  BY <1>1
<1>3. PICK h : IsChain(h, b, i) /\ Cat(b, i) = h[i]
  BY <1>2, Zenon DEF Cat
<1>4. h[i] = g[i]
  BY <1>3, ChainUnique, SMT
<1>5. g[i] \in Seq(Bytes)
  BY DEF IsChain
<1> QED
  BY <1>3, <1>4, <1>5

LEMMA CatNext ==
  ASSUME NEW b \in Rows
  PROVE  /\ Cat(b, 0) = <<>>
         /\ \A m \in Nat : Cat(b, m) \in Seq(Bytes) /\ Cat(b, m + 1) = Cat(b, m) \o b[m + 1]
<1>1. Cat(b, 0) = <<>>
  <2>1. 0 \in Nat /\ 0 \in 0..0
    OBVIOUS
  <2>2. PICK g : IsChain(g, b, 0)
    BY <2>1, ChainExists, Zenon
  <2>3. Cat(b, 0) = g[0]
    BY <2>1, <2>2, CatChain, Zenon
  <2> QED
    BY <2>2, <2>3 DEF IsChain
<1>2. ASSUME NEW m \in Nat
      PROVE  Cat(b, m) \in Seq(Bytes) /\ Cat(b, m + 1) = Cat(b, m) \o b[m + 1]
  <2>0. m + 1 \in Nat
    OBVIOUS
  <2>1. PICK g : IsChain(g, b, m + 1)
    BY <2>0, ChainExists, Zenon
  <2>2. m \in 0..(m + 1) /\ m + 1 \in 0..(m + 1) /\ m + 1 \in 1..(m + 1) /\ (m + 1) - 1 = m
    OBVIOUS
  <2>3. Cat(b, m) = g[m] /\ g[m] \in Seq(Bytes) /\ Cat(b, m + 1) = g[m + 1]
    <3>1. \A i \in 0..(m + 1) : Cat(b, i) = g[i] /\ g[i] \in Seq(Bytes)
      BY <2>0, <2>1, CatChain, Zenon
    <3> QED
      BY <2>2, <3>1, Zenon
  <2>4. g[m + 1] = g[(m + 1) - 1] \o b[m + 1]
    BY <2>1, <2>2, Zenon DEF IsChain
  <2> QED
    BY <2>2, <2>3, <2>4
<1> QED
  BY <1>1, <1>2

(* The first m blocks are what they are, whatever comes behind them. *)
LEMMA CatSame ==
  ASSUME NEW b \in Rows, NEW d \in Rows, NEW m \in Nat, \A i \in 1..m : b[i] = d[i]
  PROVE  Cat(b, m) = Cat(d, m)
<1> DEFINE S == {i \in Nat : i <= m => Cat(b, i) = Cat(d, i)}
<1>0. /\ Cat(b, 0) = <<>> /\ Cat(d, 0) = <<>>
      /\ \A i \in Nat : Cat(b, i + 1) = Cat(b, i) \o b[i + 1]
      /\ \A i \in Nat : Cat(d, i + 1) = Cat(d, i) \o d[i + 1]
  BY CatNext, Zenon
<1>1. 0 \in S
  BY <1>0
<1>2. ASSUME NEW i \in Nat, i \in S PROVE i + 1 \in S
  <2>1. SUFFICES ASSUME i + 1 <= m PROVE Cat(b, i + 1) = Cat(d, i + 1)
    OBVIOUS
  <2>2. Cat(b, i) = Cat(d, i) /\ i + 1 \in 1..m
    BY <1>2, <2>1
  <2>3. b[i + 1] = d[i + 1]
    BY <2>2
  <2> QED
    BY <1>0, <2>2, <2>3, Zenon
<1> HIDE DEF S
<1>3. \A i \in Nat : i \in S
  BY <1>1, <1>2, Induction
<1>4. m \in S /\ m <= m
  BY <1>3
<1> QED
  BY <1>4 DEF S

LEMMA Rowwise ==
  ASSUME NEW x \in Seq(Bytes), NEW y \in Seq(Bytes), NEW z \in Seq(Bytes)
  PROVE  (x \o y) \o z = x \o (y \o z)
<1> HIDE DEF Bytes
<1> QED
  BY ConcatAssociative

LEMMA EmptyRow ==
  \A x \in Seq(Bytes) : <<>> \o x = x /\ x \o <<>> = x
<1> HIDE DEF Bytes
<1> QED
  BY ConcatEmptySeq

(* The first block, and the others behind it. *)
LEMMA CatShift ==
  ASSUME NEW b \in Rows, NEW d \in Rows, NEW m \in Nat, \A i \in 1..m : d[i] = b[i + 1]
  PROVE  Cat(b, m + 1) = b[1] \o Cat(d, m)
<1> DEFINE S == {i \in Nat : i <= m => Cat(b, i + 1) = b[1] \o Cat(d, i)}
<1>0. /\ Cat(b, 0) = <<>> /\ Cat(d, 0) = <<>>
      /\ \A i \in Nat : Cat(b, i + 1) = Cat(b, i) \o b[i + 1]
      /\ \A i \in Nat : Cat(d, i) \in Seq(Bytes) /\ Cat(d, i + 1) = Cat(d, i) \o d[i + 1]
  BY CatNext, Zenon
<1>1. 0 \in S
  <2>1. b[1] \in Seq(Bytes)
    BY DEF Rows
  <2>2. 0 \in Nat /\ 0 + 1 = 1
    OBVIOUS
  <2>3. Cat(b, 0 + 1) = <<>> \o b[1]
    BY <1>0, <2>2, Zenon
  <2>4. <<>> \o b[1] = b[1] /\ b[1] \o <<>> = b[1]
    BY <2>1, EmptyRow, Zenon
  <2> QED
    BY <1>0, <2>3, <2>4
<1>2. ASSUME NEW i \in Nat, i \in S PROVE i + 1 \in S
  <2>0. i + 1 \in Nat
    OBVIOUS
  <2>1. SUFFICES ASSUME i + 1 <= m PROVE Cat(b, (i + 1) + 1) = b[1] \o Cat(d, i + 1)
    BY <2>0, Zenon
  <2>2. Cat(b, i + 1) = b[1] \o Cat(d, i) /\ i + 1 \in 1..m /\ i + 1 \in Nat
    BY <1>2, <2>1
  <2>3. d[i + 1] = b[(i + 1) + 1]
    BY <2>2
  <2>4. b[1] \in Seq(Bytes) /\ Cat(d, i) \in Seq(Bytes) /\ d[i + 1] \in Seq(Bytes)
    BY <1>0, <2>2 DEF Rows
  <2>5. (b[1] \o Cat(d, i)) \o d[i + 1] = b[1] \o (Cat(d, i) \o d[i + 1])
    BY <2>4, Rowwise, Zenon
  <2>6. Cat(b, (i + 1) + 1) = Cat(b, i + 1) \o b[(i + 1) + 1]
    BY <1>0, <2>2, Zenon
  <2>7. Cat(d, i + 1) = Cat(d, i) \o d[i + 1]
    BY <1>0, Zenon
  <2> QED
    BY <2>2, <2>3, <2>5, <2>6, <2>7, Zenon
<1> HIDE DEF S
<1>3. \A i \in Nat : i \in S
  BY <1>1, <1>2, Induction
<1>4. m \in S /\ m <= m
  BY <1>3
<1> QED
  BY <1>4 DEF S

-----------------------------------------------------------------------------
(* The frames that the history says are in the buffer. *)

LEMMA Joined ==
  ASSUME NEW x \in Seq(Bytes), NEW y \in Seq(Bytes)
  PROVE  /\ x \o y \in Seq(Bytes) /\ Len(x \o y) = Len(x) + Len(y)
         /\ \A i \in 1..Len(x) : (x \o y)[i] = x[i]
         /\ \A i \in 1..Len(y) : (x \o y)[Len(x) + i] = y[i]
<1> HIDE DEF Bytes
<1>1. x \o y \in Seq(Bytes) /\ Len(x \o y) = Len(x) + Len(y)
  BY ConcatProperties
<1>2. \A i \in 1..(Len(x) + Len(y)) : (x \o y)[i] = IF i <= Len(x) THEN x[i] ELSE y[i - Len(x)]
  BY ConcatProperties
<1>3. Len(x) \in Nat /\ Len(y) \in Nat
  OBVIOUS
<1>4. ASSUME NEW i \in 1..Len(x) PROVE (x \o y)[i] = x[i]
  BY <1>2, <1>3
<1>5. ASSUME NEW i \in 1..Len(y) PROVE (x \o y)[Len(x) + i] = y[i]
  <2>1. Len(x) + i \in 1..(Len(x) + Len(y)) /\ ~(Len(x) + i <= Len(x)) /\ (Len(x) + i) - Len(x) = i
    BY <1>3
  <2> QED
    BY <1>2, <2>1
<1> QED
  BY <1>1, <1>4, <1>5

LEMMA FrameBytes ==
  ASSUME NEW id \in Nat, NEW len \in Nat
  PROVE  /\ Frame(id, len) \in Seq(Bytes) /\ Len(Frame(id, len)) = 4 + len
         /\ \A i \in 1..4 : Frame(id, len)[i].n = len /\ Frame(id, len)[i].id = id
<1>1. Header(id, len) \in Seq(Bytes) /\ Len(Header(id, len)) = 4
  BY DEF Header, Bytes
<1>2. Payload(id, len) \in Seq(Bytes) /\ Len(Payload(id, len)) = len
  BY DEF Payload, Bytes
<1>3. /\ Frame(id, len) \in Seq(Bytes) /\ Len(Frame(id, len)) = 4 + len
      /\ \A i \in 1..4 : Frame(id, len)[i] = Header(id, len)[i]
  <2> DEFINE h == Header(id, len)
             p == Payload(id, len)
  <2>1. h \in Seq(Bytes) /\ p \in Seq(Bytes) /\ Len(h) = 4 /\ Len(p) = len
    BY <1>1, <1>2
  <2> HIDE DEF h, p
  <2>2. /\ h \o p \in Seq(Bytes) /\ Len(h \o p) = 4 + len
        /\ \A i \in 1..4 : (h \o p)[i] = h[i]
    <3>1. /\ h \o p \in Seq(Bytes) /\ Len(h \o p) = Len(h) + Len(p)
          /\ \A i \in 1..Len(h) : (h \o p)[i] = h[i]
      BY <2>1, Joined, Zenon
    <3> QED
      BY <2>1, <3>1, Zenon
  <2> QED
    BY <2>2 DEF Frame, h, p
<1> QED
  BY <1>3 DEF Header

HistoryOK(q, rc, t) == rc \in Seq(Nat) /\ q \in Seq(1..Len(rc)) /\ t \in 0..Len(q)

Row(q, rc, t) ==
  [i \in Nat |-> IF i \in 1..(Len(q) - t) THEN Frame(q[t + i], rc[q[t + i]]) ELSE <<>>]

Frames(q, rc, t) == Cat(Row(q, rc, t), Len(q) - t)

LEMMA Stored ==
  ASSUME NEW q, NEW rc, NEW t, HistoryOK(q, rc, t)
  PROVE  /\ Len(q) \in Nat /\ Len(rc) \in Nat /\ t \in Nat /\ Len(q) - t \in Nat
         /\ \A i \in 1..(Len(q) - t) : /\ q[t + i] \in 1..Len(rc) /\ q[t + i] \in Nat
                                       /\ rc[q[t + i]] \in Nat
<1>1. Len(q) \in Nat /\ Len(rc) \in Nat /\ t \in Nat /\ Len(q) - t \in Nat
  BY DEF HistoryOK
<1>2. ASSUME NEW i \in 1..(Len(q) - t)
      PROVE  q[t + i] \in 1..Len(rc) /\ q[t + i] \in Nat /\ rc[q[t + i]] \in Nat
  <2>1. t + i \in 1..Len(q)
    BY <1>1
  <2>2. q[t + i] \in 1..Len(rc)
    BY <2>1 DEF HistoryOK
  <2> QED
    BY <1>1, <2>2 DEF HistoryOK
<1> QED
  BY <1>1, <1>2

LEMMA RowOK ==
  ASSUME NEW q, NEW rc, NEW t, HistoryOK(q, rc, t)
  PROVE  /\ Row(q, rc, t) \in Rows /\ Len(q) - t \in Nat
         /\ \A i \in 1..(Len(q) - t) : Row(q, rc, t)[i] = Frame(q[t + i], rc[q[t + i]])
<1>1. ASSUME NEW i \in 1..(Len(q) - t) PROVE Frame(q[t + i], rc[q[t + i]]) \in Seq(Bytes)
  <2>1. q[t + i] \in Nat /\ rc[q[t + i]] \in Nat
    BY Stored
  <2> QED
    BY <2>1, FrameBytes, Zenon
<1>2. <<>> \in Seq(Bytes)
  OBVIOUS
<1>3. Row(q, rc, t) \in Rows
  BY <1>1, <1>2 DEF Row, Rows
<1>4. Len(q) - t \in Nat
  BY Stored
<1>5. ASSUME NEW i \in 1..(Len(q) - t)
      PROVE  Row(q, rc, t)[i] = Frame(q[t + i], rc[q[t + i]])
  <2>1. i \in Nat
    BY <1>4
  <2> QED
    BY <2>1 DEF Row
<1> QED
  BY <1>3, <1>4, <1>5

LEMMA FramesNone ==
  ASSUME NEW q, NEW rc, HistoryOK(q, rc, Len(q)) PROVE Frames(q, rc, Len(q)) = <<>>
<1>1. Row(q, rc, Len(q)) \in Rows
  BY RowOK, Zenon
<1>2. Len(q) - Len(q) = 0
  BY Stored
<1>3. Cat(Row(q, rc, Len(q)), 0) = <<>>
  BY <1>1, CatNext, Zenon
<1> QED
  BY <1>2, <1>3, Zenon DEF Frames

(* recvfrom changes nothing. *)
LEMMA FramesRecv ==
  ASSUME NEW q, NEW rc, NEW t, HistoryOK(q, rc, t), NEW len \in Nat
  PROVE  /\ HistoryOK(q, Append(rc, len), t)
         /\ Frames(q, Append(rc, len), t) = Frames(q, rc, t)
<1> DEFINE r2 == Append(rc, len)
           m == Len(q) - t
<1>1. /\ r2 \in Seq(Nat) /\ Len(r2) = Len(rc) + 1 /\ Len(rc) \in Nat
      /\ \A k \in 1..Len(rc) : r2[k] = rc[k]
  BY DEF HistoryOK
<1> HIDE DEF r2
<1>2. HistoryOK(q, r2, t)
  <2>1. \A k \in 1..Len(q) : q[k] \in 1..Len(r2)
    BY <1>1, SMTT(30) DEF HistoryOK
  <2> QED
    BY <1>1, <2>1 DEF HistoryOK
<1>3. /\ Row(q, rc, t) \in Rows /\ Row(q, r2, t) \in Rows /\ m \in Nat
      /\ \A i \in 1..m : /\ Row(q, rc, t)[i] = Frame(q[t + i], rc[q[t + i]])
                         /\ Row(q, r2, t)[i] = Frame(q[t + i], r2[q[t + i]])
  BY <1>2, RowOK
<1>4. ASSUME NEW i \in 1..m PROVE Row(q, rc, t)[i] = Row(q, r2, t)[i]
  <2>1. q[t + i] \in 1..Len(rc)
    BY Stored
  <2> QED
    BY <1>1, <1>3, <2>1
<1> HIDE DEF m
<1>5. Cat(Row(q, rc, t), m) = Cat(Row(q, r2, t), m)
  BY <1>3, <1>4, CatSame
<1> QED
  BY <1>2, <1>5 DEF Frames, r2, m

(* A datagram is stored behind the others. *)
StoredIn(q, rc, t, id) ==
  /\ HistoryOK(Append(q, id), rc, t)
  /\ Frames(Append(q, id), rc, t) = Frames(q, rc, t) \o Frame(id, rc[id])

LEMMA FramesStore ==
  ASSUME NEW q, NEW rc, NEW t, HistoryOK(q, rc, t), NEW id \in 1..Len(rc)
  PROVE  StoredIn(q, rc, t, id)
<1> DEFINE q2 == Append(q, id)
           m == Len(q) - t
<1>1. /\ q2 \in Seq(1..Len(rc)) /\ Len(q2) = Len(q) + 1 /\ Len(q) \in Nat
      /\ \A k \in 1..Len(q) : q2[k] = q[k]
      /\ q2[Len(q) + 1] = id
  BY DEF HistoryOK
<1> HIDE DEF q2
<1>2. HistoryOK(q2, rc, t)
  BY <1>1 DEF HistoryOK
<1>3. t \in Nat /\ m \in Nat /\ Len(q2) - t = m + 1 /\ t + (m + 1) = Len(q) + 1 /\ m + 1 \in 1..(m + 1)
  BY <1>1 DEF HistoryOK
<1>4. /\ Row(q, rc, t) \in Rows /\ Row(q2, rc, t) \in Rows
      /\ \A i \in 1..m : Row(q, rc, t)[i] = Frame(q[t + i], rc[q[t + i]])
      /\ \A i \in 1..(Len(q2) - t) : Row(q2, rc, t)[i] = Frame(q2[t + i], rc[q2[t + i]])
  BY <1>2, RowOK
<1>5. ASSUME NEW i \in 1..m PROVE Row(q, rc, t)[i] = Row(q2, rc, t)[i]
  <2>1. t + i \in 1..Len(q) /\ i \in 1..(Len(q2) - t)
    BY <1>1, <1>3
  <2>2. q2[t + i] = q[t + i]
    BY <1>1, <2>1
  <2> QED
    BY <1>4, <2>1, <2>2
<1>6. Row(q2, rc, t)[m + 1] = Frame(id, rc[id])
  BY <1>1, <1>3, <1>4
<1> HIDE DEF m
<1>7. Cat(Row(q, rc, t), m) = Cat(Row(q2, rc, t), m)
  BY <1>3, <1>4, <1>5, CatSame
<1>8. Cat(Row(q2, rc, t), m + 1) = Cat(Row(q2, rc, t), m) \o Row(q2, rc, t)[m + 1]
  BY <1>3, <1>4, CatNext, Zenon
<1>9. Cat(Row(q2, rc, t), m + 1) = Cat(Row(q, rc, t), m) \o Frame(id, rc[id])
  BY <1>6, <1>7, <1>8, Zenon
<1>10. Frames(q2, rc, t) = Frames(q, rc, t) \o Frame(id, rc[id])
  BY <1>3, <1>9 DEF Frames, m
<1> QED
  BY <1>2, <1>10, Zenon DEF q2, StoredIn

(* The first frame is taken out. *)
LEMMA FramesTake ==
  ASSUME NEW q, NEW rc, NEW t, HistoryOK(q, rc, t), t < Len(q)
  PROVE  /\ HistoryOK(q, rc, t + 1)
         /\ Frames(q, rc, t) = Frame(q[t + 1], rc[q[t + 1]]) \o Frames(q, rc, t + 1)
         /\ q[t + 1] \in 1..Len(rc) /\ q[t + 1] \in Nat /\ rc[q[t + 1]] \in Nat
         /\ Frames(q, rc, t + 1) \in Seq(Bytes)
<1> DEFINE m == Len(q) - (t + 1)
<1>1. HistoryOK(q, rc, t + 1)
  BY DEF HistoryOK
<1>2. /\ t \in Nat /\ Len(q) \in Nat /\ m \in Nat /\ Len(q) - t = m + 1 /\ 1 \in 1..(m + 1)
  BY DEF HistoryOK
<1>3. /\ Row(q, rc, t) \in Rows /\ Row(q, rc, t + 1) \in Rows
      /\ \A i \in 1..(Len(q) - t) : Row(q, rc, t)[i] = Frame(q[t + i], rc[q[t + i]])
      /\ \A i \in 1..m : Row(q, rc, t + 1)[i] = Frame(q[(t + 1) + i], rc[q[(t + 1) + i]])
  BY <1>1, RowOK
<1>4. ASSUME NEW i \in 1..m PROVE Row(q, rc, t + 1)[i] = Row(q, rc, t)[i + 1]
  <2>1. i + 1 \in 1..(Len(q) - t) /\ (t + 1) + i = t + (i + 1)
    BY <1>2
  <2> QED
    BY <1>3, <2>1
<1>5. Row(q, rc, t)[1] = Frame(q[t + 1], rc[q[t + 1]])
  BY <1>2, <1>3
<1>6. q[t + 1] \in 1..Len(rc) /\ q[t + 1] \in Nat /\ rc[q[t + 1]] \in Nat
  BY <1>2, Stored
<1> HIDE DEF m
<1>7. Cat(Row(q, rc, t), m + 1) = Row(q, rc, t)[1] \o Cat(Row(q, rc, t + 1), m)
  BY <1>2, <1>3, <1>4, CatShift
<1>8. Cat(Row(q, rc, t + 1), m) \in Seq(Bytes)
  BY <1>2, <1>3, CatNext, Zenon
<1> QED
  BY <1>1, <1>2, <1>5, <1>6, <1>7, <1>8 DEF Frames, m

(* Contents is what the lemmas above speak of. *)
LEMMA ContentsFrames ==
  ASSUME HistoryOK(queued, received, taken)
  PROVE  Contents = Frames(queued, received, taken)
<1> DEFINE m == Len(queued) - taken
           id(i) == queued[taken + i]
           R == Row(queued, received, taken)
           f[i \in 0..m] == IF i = 0 THEN <<>> ELSE f[i - 1] \o Frame(id(i), received[id(i)])
<1>1. Contents = f[m]
  BY DEF Contents
<1>2. /\ R \in Rows /\ m \in Nat
      /\ \A i \in 1..m : R[i] = Frame(id(i), received[id(i)])
  BY RowOK
<1>3. PICK g : IsChain(g, R, m)
  <2> HIDE DEF m, R
  <2> QED
    BY <1>2, ChainExists, Zenon
<1>4. /\ g = [i \in 0..m |-> g[i]] /\ g[0] = <<>>
      /\ \A i \in 1..m : g[i] = g[i - 1] \o R[i]
  <2> HIDE DEF m, R
  <2> QED
    BY <1>3 DEF IsChain
<1>5. g = [i \in 0..m |-> IF i = 0 THEN <<>> ELSE g[i - 1] \o Frame(id(i), received[id(i)])]
  <2>1. ASSUME NEW i \in 0..m
        PROVE  g[i] = IF i = 0 THEN <<>> ELSE g[i - 1] \o Frame(id(i), received[id(i)])
    <3> HIDE DEF m, R, id
    <3>1. CASE i = 0
      BY <1>4, <3>1
    <3>2. CASE i # 0
      <4>1. i \in 1..m
        BY <1>2, <3>2
      <4> QED
        BY <1>2, <1>4, <3>2, <4>1, Zenon
    <3> QED
      BY <3>1, <3>2
  <2> HIDE DEF m, R, id
  <2> QED
    BY <1>4, <2>1
<1>6. f = [i \in 0..m |-> IF i = 0 THEN <<>> ELSE f[i - 1] \o Frame(id(i), received[id(i)])]
  <2> HIDE DEF m, R, id
  <2> QED
    BY <1>5, Zenon DEF f
<1> HIDE DEF m, R, id, f
<1> DEFINE S == {i \in Nat : i <= m => f[i] = g[i]}
<1>7. 0 \in S
  <2>1. 0 \in 0..m
    BY <1>2
  <2>2. f[0] = <<>>
    BY <1>6, <2>1
  <2> QED
    BY <1>4, <2>2
<1>8. ASSUME NEW i \in Nat, i \in S PROVE i + 1 \in S
  <2>1. SUFFICES ASSUME i + 1 <= m PROVE f[i + 1] = g[i + 1]
    OBVIOUS
  <2>2. i + 1 \in 0..m /\ (i + 1) - 1 = i /\ i + 1 # 0 /\ f[i] = g[i]
    BY <1>2, <1>8, <2>1
  <2>3. f[i + 1] = f[(i + 1) - 1] \o Frame(id(i + 1), received[id(i + 1)])
    BY <1>6, <2>2
  <2>4. g[i + 1] = g[(i + 1) - 1] \o Frame(id(i + 1), received[id(i + 1)])
    BY <1>5, <2>2
  <2> QED
    BY <2>2, <2>3, <2>4
<1> HIDE DEF S
<1>9. \A i \in Nat : i \in S
  BY <1>7, <1>8, Induction
<1>10. f[m] = g[m]
  BY <1>2, <1>9 DEF S
<1>11. Cat(R, m) = g[m]
  <2>1. m \in 0..m
    BY <1>2
  <2> QED
    BY <1>2, <1>3, <2>1, CatChain
<1> QED
  BY <1>1, <1>10, <1>11 DEF Frames, R, m

-----------------------------------------------------------------------------
(* The inductive invariant. *)

Datagrams == [kind : {"none", "data", "EINTR", "ENETDOWN"}, id : Nat, len : Nat,
              blocked : BOOLEAN]

Types ==
  /\ TypeOK
  /\ input \in Inputs /\ tmp \in Datagrams /\ FifoOK(fifo)
  /\ delivered \in Seq(Seq(Bytes))

(* What circular_buffer_task_rx has between recvfrom and the lock. *)
Receiving ==
  /\ Len(received) <= MaxRecv
  /\ tmp.kind = "data" => /\ rx = "lock"
                          /\ tmp.id = Len(received) /\ tmp.id \in 1..Len(received)
                          /\ tmp.len = received[tmp.id]
  /\ tmp.blocked => input.block
  /\ circular_buffer_error # "none" => rx = "end"

Reading ==
  /\ main \in {"retry", "udp_read", "timedwait"} => size \in Sizes /\ ret \notin Errors
  /\ main = "closed" => rx = "end"
  /\ ~input.wait_for_signal => ~wait_for_signal

(* Datagrams are stored in the order of arrival. *)
Ordered ==
  /\ \A a, b \in 1..Len(queued) : a < b => queued[a] < queued[b]
  /\ tmp.kind = "data" => \A a \in 1..Len(queued) : queued[a] < tmp.id

(* Where nothing is dropped, every datagram is stored. *)
Gapless ==
  (~input.block /\ ~overrun_nonfatal) =>
    /\ \A a \in 1..Len(queued) : queued[a] = a
    /\ rx # "end" =>
         Len(queued) = IF tmp.kind = "data" THEN Len(received) - 1 ELSE Len(received)

(* What was given last is what was taken out last. *)
LastGiven ==
  main # "closed" =>
    IF delivered = <<>> THEN ~input.wait_for_signal => taken = 0
    ELSE ~wait_for_signal /\ taken > 0 /\ Id(Len(delivered)) = queued[taken]

Given == NoGaps /\ \A i \in 1..Len(delivered) : Id(i) \in 1..Len(received)

Whole == Held(fifo) = Frames(queued, received, taken)

Inv ==
  Types /\ Receiving /\ Reading /\ Ordered /\ Gapless /\ LastGiven /\ Given /\ Whole

-----------------------------------------------------------------------------
(* The critical sections of the two threads, on the buffer. *)

LEMMA HeldSeq ==
  ASSUME NEW f, FifoOK(f)
  PROVE  /\ Held(f) \in Seq(Bytes) /\ Len(Held(f)) = av_fifo_size(f)
         /\ av_fifo_size(f) \in Nat
         /\ \A n, i \in 1..av_fifo_size(f) : i <= n => av_fifo_generic_peek(f, n)[i] = Held(f)[i]
<1> DEFINE s == av_fifo_size(f)
           c == circular_buffer_size
<1>1. s \in 0..c /\ s \in Nat /\ c \in Nat \ {0}
  BY Numbers DEF FifoOK
<1>2. f.rptr \in 0..(c - 1) /\ f.buffer \in [0..(c - 1) -> Bytes] /\ Size(f) = c
  BY FifoSize DEF FifoOK, Fifos
<1>3. Held(f) = [i \in 1..s |-> f.buffer[Around(f, f.rptr + i - 1)]]
  BY DEF Held, av_fifo_generic_peek
<1> HIDE DEF s, c
<1>4. ASSUME NEW i \in 1..s PROVE f.buffer[Around(f, f.rptr + i - 1)] \in Bytes
  <2>1. Around(f, f.rptr + i - 1) \in 0..(c - 1)
    BY <1>1, <1>2 DEF Around
  <2> QED
    BY <1>2, <2>1
<1>5. Held(f) \in [1..s -> Bytes]
  BY <1>3, <1>4
<1>6. Held(f) \in Seq(Bytes) /\ Len(Held(f)) = s
  BY <1>1, <1>5
<1>7. ASSUME NEW n \in 1..s, NEW i \in 1..s, i <= n
      PROVE  av_fifo_generic_peek(f, n)[i] = Held(f)[i]
  <2>1. i \in 1..n
    BY <1>1, <1>7
  <2> QED
    BY <1>3, <2>1 DEF av_fifo_generic_peek
<1> QED
  BY <1>1, <1>6, <1>7 DEF s

(* The two drains of udp_read leave what comes behind the first frame. *)
Leaves(f, x, y, B) ==
  LET g == av_fifo_drain(av_fifo_drain(f, x), y) IN FifoOK(g) /\ Held(g) = B

LEMMA TakenOut ==
  ASSUME NEW f, FifoOK(f), NEW A \in Seq(Bytes), NEW B \in Seq(Bytes), Held(f) = A \o B,
         NEW x \in 0..Len(A), NEW y, x + y = Len(A), y \in Nat
  PROVE  Leaves(f, x, y, B)
<1> DEFINE g == av_fifo_drain(f, x)
           h == av_fifo_drain(g, y)
           s == av_fifo_size(f)
<1>0. /\ Len(A \o B) = Len(A) + Len(B)
      /\ \A i \in 1..Len(B) : (A \o B)[Len(A) + i] = B[i]
  BY Joined
<1>1. Len(A) \in Nat /\ Len(B) \in Nat /\ s \in Nat /\ s = Len(A) + Len(B)
  <2>1. Len(Held(f)) = s /\ s \in Nat
    BY HeldSeq, Zenon
  <2>2. Len(A) \in Nat /\ Len(B) \in Nat
    OBVIOUS
  <2> QED
    BY <1>0, <2>1, <2>2, Zenon
<1>2. x \in 0..s
  BY <1>1 DEF s
<1>3. /\ FifoOK(g) /\ av_fifo_size(g) = s - x
      /\ Held(g) = [i \in 1..(s - x) |-> Held(f)[i + x]]
  BY <1>2, Drained, Zenon
<1> HIDE DEF g, s
<1>4. y \in 0..av_fifo_size(g)
  BY <1>1, <1>2, <1>3
<1>5. /\ FifoOK(h) /\ Held(h) = [i \in 1..(av_fifo_size(g) - y) |-> Held(g)[i + y]]
  BY <1>3, <1>4, Drained, ZenonT(30)
<1>6. av_fifo_size(g) - y = Len(B)
  BY <1>1, <1>2, <1>3
<1>7. ASSUME NEW i \in 1..Len(B) PROVE Held(g)[i + y] = B[i]
  <2>1. i + y \in 1..(s - x) /\ (i + y) + x = Len(A) + i
    <3> DEFINE la == Len(A)
               lb == Len(B)
    <3>1. /\ la \in Nat /\ lb \in Nat /\ s = la + lb /\ x \in Nat /\ y \in Nat /\ x + y = la
          /\ i \in 1..lb
      BY <1>1, <1>2
    <3> HIDE DEF la, lb
    <3>2. i + y \in 1..(s - x) /\ (i + y) + x = la + i
      BY <3>1
    <3> QED
      BY <3>2 DEF la
  <2>2. Held(g)[i + y] = Held(f)[(i + y) + x]
    BY <1>3, <2>1
  <2> QED
    BY <1>0, <2>1, <2>2, Zenon
<1>8. Held(h) = B
  <2>1. Held(h) = [i \in 1..Len(B) |-> Held(g)[i + y]]
    BY <1>5, <1>6
  <2>2. B = [i \in 1..Len(B) |-> B[i]]
    OBVIOUS
  <2> HIDE DEF h
  <2> QED
    BY <1>7, <2>1, <2>2
<1> QED
  BY <1>5, <1>8 DEF g, Leaves

(* A frame is written behind what the buffer holds. *)
LEMMA PutIn ==
  ASSUME NEW f, FifoOK(f), NEW A \in Seq(Bytes), Len(A) <= av_fifo_space(f)
  PROVE  LET g == av_fifo_generic_write(f, A) IN FifoOK(g) /\ Held(g) = Held(f) \o A
<1> DEFINE g == av_fifo_generic_write(f, A)
           s == av_fifo_size(f)
           H == Held(f)
<1>1. Len(A) \in 0..av_fifo_space(f)
  <2>1. av_fifo_space(f) \in Int /\ Len(A) \in Nat
    BY FifoSize, HeldSeq, Numbers
  <2> QED
    BY <2>1
<1>2. /\ FifoOK(g) /\ Held(g) = [i \in 1..(s + Len(A)) |-> IF i <= s THEN H[i] ELSE A[i - s]]
  BY <1>1, Written, Zenon
<1>3. H \in Seq(Bytes) /\ Len(H) = s /\ s \in Nat /\ Len(A) \in Nat
  BY HeldSeq
<1> HIDE DEF g, s, H
<1>4. /\ H \o A \in Seq(Bytes) /\ Len(H \o A) = s + Len(A)
      /\ \A i \in 1..s : (H \o A)[i] = H[i]
      /\ \A i \in 1..Len(A) : (H \o A)[s + i] = A[i]
  <2>1. /\ H \o A \in Seq(Bytes) /\ Len(H \o A) = Len(H) + Len(A)
        /\ \A i \in 1..Len(H) : (H \o A)[i] = H[i]
        /\ \A i \in 1..Len(A) : (H \o A)[Len(H) + i] = A[i]
    BY <1>3, Joined, Zenon
  <2> QED
    BY <1>3, <2>1, Zenon
<1>5. ASSUME NEW i \in 1..(s + Len(A)) PROVE (H \o A)[i] = IF i <= s THEN H[i] ELSE A[i - s]
  <2>1. CASE i <= s
    <3>1. i \in 1..s
      BY <1>3, <2>1
    <3> QED
      BY <1>4, <2>1, <3>1
  <2>2. CASE ~(i <= s)
    <3>1. i - s \in 1..Len(A) /\ s + (i - s) = i
      BY <1>3, <2>2
    <3>2. (H \o A)[s + (i - s)] = A[i - s]
      BY <1>4, <3>1
    <3> QED
      BY <2>2, <3>1, <3>2
  <2> QED
    BY <2>1, <2>2
<1>6. H \o A = [i \in 1..(s + Len(A)) |-> (H \o A)[i]]
  <2> DEFINE J == H \o A
  <2>1. J \in Seq(Bytes) /\ Len(J) = s + Len(A)
    BY <1>4
  <2> HIDE DEF J
  <2>2. J = [i \in 1..(s + Len(A)) |-> J[i]]
    BY <2>1
  <2> QED
    BY <2>2 DEF J
<1>7. Held(g) = H \o A
  <2> DEFINE J == H \o A
  <2>1. /\ J = [i \in 1..(s + Len(A)) |-> J[i]]
        /\ \A i \in 1..(s + Len(A)) : J[i] = IF i <= s THEN H[i] ELSE A[i - s]
    BY <1>5, <1>6
  <2> HIDE DEF J
  <2>2. J = Held(g)
    BY <1>2, <2>1
  <2> QED
    BY <2>2 DEF J
<1> QED
  BY <1>2, <1>7 DEF g, H

-----------------------------------------------------------------------------
(* What the invariant says of the frame that is next. *)

LEMMA Input ==
  ASSUME input \in Inputs
  PROVE  /\ input.overrun_nonfatal \in BOOLEAN /\ input.wait_for_signal \in BOOLEAN
         /\ input.block \in BOOLEAN /\ input.lens \subseteq Nat
BY InputsAssumption

LEMMA TypesHistory ==
  ASSUME Types PROVE HistoryOK(queued, received, taken)
<1>1. received \in Seq(input.lens) /\ queued \in Seq(1..Len(received)) /\ taken \in 0..Len(queued)
  BY DEF Types, TypeOK
<1>2. input.lens \subseteq Nat
  BY Input DEF Types
<1>3. received \in Seq(Nat)
  BY <1>1, <1>2
<1> QED
  BY <1>1, <1>3 DEF HistoryOK

(* Without bytes in the buffer nothing waits. *)
LEMMA NothingWaits ==
  ASSUME Types, Whole, av_fifo_size(fifo) = 0 PROVE taken = Len(queued)
<1>0. HistoryOK(queued, received, taken)
  BY TypesHistory
<1>1. SUFFICES ASSUME taken # Len(queued) PROVE FALSE
  OBVIOUS
<1>2. taken < Len(queued)
  BY <1>0, <1>1 DEF HistoryOK
<1> DEFINE A == Frame(queued[taken + 1], received[queued[taken + 1]])
           B == Frames(queued, received, taken + 1)
<1>3. /\ Held(fifo) = A \o B /\ B \in Seq(Bytes)
      /\ queued[taken + 1] \in Nat /\ received[queued[taken + 1]] \in Nat
  BY <1>0, <1>2, FramesTake DEF Whole
<1>4. A \in Seq(Bytes) /\ Len(A) = 4 + received[queued[taken + 1]]
  BY <1>3, FrameBytes
<1> HIDE DEF A, B
<1>5. Len(A \o B) = Len(A) + Len(B)
  BY <1>3, <1>4, Joined
<1>6. Len(Held(fifo)) = 0
  BY HeldSeq DEF Types
<1>7. Len(B) \in Nat
  BY <1>3
<1> QED
  BY <1>3, <1>4, <1>5, <1>6, <1>7

(* What udp_read peeks at and takes out is the first of the frames. *)
LEMMA FirstFrame ==
  ASSUME Types, Whole, av_fifo_size(fifo) > 0, size \in Nat
  PROVE  LET id == queued[taken + 1]
             len == received[id]
         IN  /\ taken < Len(queued) /\ id \in 1..Len(received) /\ id \in Nat /\ len \in Nat
             /\ FrameLen = len /\ Avail = (IF len > size THEN size ELSE len)
             /\ FifoOK(AfterFrame) /\ Held(AfterFrame) = Frames(queued, received, taken + 1)
             /\ av_fifo_generic_peek(fifo, 4 + Avail) = [i \in 1..(4 + Avail) |-> Frame(id, len)[i]]
<1> DEFINE id == queued[taken + 1]
           len == received[id]
           A == Frame(id, len)
           B == Frames(queued, received, taken + 1)
           s == av_fifo_size(fifo)
<1>0. HistoryOK(queued, received, taken) /\ FifoOK(fifo)
  BY TypesHistory DEF Types
<1>1. taken < Len(queued)
  <2>1. SUFFICES ASSUME taken = Len(queued) PROVE FALSE
    BY <1>0 DEF HistoryOK
  <2>2. Frames(queued, received, Len(queued)) = <<>>
    BY <1>0, <2>1, FramesNone
  <2>3. Held(fifo) = <<>>
    BY <2>1, <2>2 DEF Whole
  <2>4. Len(Held(fifo)) = s
    BY <1>0, HeldSeq
  <2> QED
    BY <2>3, <2>4
<1>2. /\ Held(fifo) = A \o B /\ B \in Seq(Bytes)
      /\ id \in 1..Len(received) /\ id \in Nat /\ len \in Nat
  BY <1>0, <1>1, FramesTake DEF Whole
<1> HIDE DEF id, len
<1>3. /\ A \in Seq(Bytes) /\ Len(A) = 4 + len
      /\ \A i \in 1..4 : A[i].n = len /\ A[i].id = id
  BY <1>2, FrameBytes
<1> HIDE DEF A, B
<1>4. Len(A \o B) = Len(A) + Len(B) /\ \A i \in 1..Len(A) : (A \o B)[i] = A[i]
  BY <1>2, <1>3, Joined
<1>5. /\ Len(Held(fifo)) = s /\ s \in Nat
      /\ \A n, i \in 1..s : i <= n => av_fifo_generic_peek(fifo, n)[i] = Held(fifo)[i]
  BY <1>0, HeldSeq
<1>6. s = Len(A) + Len(B) /\ Len(B) \in Nat /\ s >= 4 + len
  <2>1. Len(B) \in Nat
    BY <1>2
  <2>2. s = Len(A) + Len(B)
    BY <1>2, <1>4, <1>5
  <2> QED
    BY <1>2, <1>3, <2>1, <2>2
<1> HIDE DEF s
<1>7. FrameLen = len
  <2>1. 4 \in 1..s /\ 1 \in 1..s /\ 1 <= 4 /\ 1 \in 1..Len(A) /\ 1 \in 1..4
    BY <1>2, <1>3, <1>6
  <2>2. av_fifo_generic_peek(fifo, 4)[1] = A[1]
    BY <1>2, <1>4, <1>5, <2>1
  <2> QED
    BY <1>3, <2>1, <2>2 DEF FrameLen
<1>8. Avail = (IF len > size THEN size ELSE len)
  BY <1>7 DEF Avail
<1>9. Avail \in 0..len
  BY <1>2, <1>8
<1> DEFINE x == 4 + Avail
           y == FrameLen - Avail
<1>10. x \in 0..Len(A) /\ x + y = Len(A) /\ y \in Nat /\ x \in 1..s
  BY <1>2, <1>3, <1>6, <1>7, <1>9
<1>11. FifoOK(AfterFrame) /\ Held(AfterFrame) = B
  <2> HIDE DEF x, y
  <2>1. Leaves(fifo, x, y, B)
    BY <1>0, <1>2, <1>3, <1>10, TakenOut, Zenon
  <2> QED
    BY <2>1, Zenon DEF AfterFrame, Leaves, x, y
<1>12. av_fifo_generic_peek(fifo, x) = [i \in 1..x |-> A[i]]
  <2> HIDE DEF x
  <2>1. ASSUME NEW i \in 1..x PROVE av_fifo_generic_peek(fifo, x)[i] = A[i]
    <3>1. i \in 1..s /\ i <= x /\ i \in 1..Len(A)
      BY <1>3, <1>2, <1>6, <1>10
    <3> QED
      BY <1>2, <1>4, <1>5, <1>10, <3>1
  <2> QED
    BY <2>1 DEF av_fifo_generic_peek
<1> QED
  BY <1>1, <1>2, <1>7, <1>8, <1>11, <1>12 DEF A, B, id, len

-----------------------------------------------------------------------------
(* Init, and what each step does to the parts of the invariant. *)

LEMMA InvInit == Init => Inv
<1> SUFFICES ASSUME Init PROVE Inv
  OBVIOUS
<1> DEFINE c == circular_buffer_size
           k == 2^Width
<1>0. c \in Nat \ {0} /\ k \in Nat \ {0}
  BY Numbers
<1>1. /\ fifo.rptr = 0 /\ fifo.wptr = 0 /\ fifo.rndx = 0 /\ fifo.wndx = 0
      /\ fifo.buffer = [a \in 0..(c - 1) |-> Junk] /\ fifo \in Fifos
  <2>1. Junk \in Bytes
    BY DEF Junk, Bytes
  <2>2. fifo = [buffer |-> [a \in 0..(c - 1) |-> Junk], rptr |-> 0, wptr |-> 0, rndx |-> 0, wndx |-> 0]
    BY DEF Init, av_fifo_alloc
  <2>3. 0 \in 0..(c - 1) /\ 0 \in 0..(k - 1)
    BY <1>0
  <2> QED
    BY <2>1, <2>2, <2>3 DEF Fifos
<1>2. av_fifo_size(fifo) = 0
  <2> HIDE DEF k
  <2>1. 0 - 0 = 0 /\ 0 % k = 0
    BY <1>0
  <2> QED
    BY <1>1, <2>1 DEF av_fifo_size, k
<1>3. Size(fifo) = c
  <2>1. DOMAIN fifo.buffer = 0..(c - 1)
    BY <1>1
  <2> QED
    BY <1>0, <2>1, FS_Interval DEF Size
<1>4. FifoOK(fifo)
  BY <1>0, <1>1, <1>2, <1>3 DEF FifoOK, Around
<1>5. Types
  <2>1. /\ input \in Inputs /\ rx = "start" /\ tmp = NoData /\ cancel = FALSE
        /\ circular_buffer_error = "none" /\ wait_for_signal = input.wait_for_signal
        /\ usr1 = FALSE /\ nb_signals = 0 /\ init_done = FALSE /\ main = "idle" /\ size = 1
        /\ nonblock = FALSE /\ fast_retries = FastRetries /\ ret = "none"
        /\ received = <<>> /\ queued = <<>> /\ taken = 0 /\ delivered = <<>>
    BY DEF Init
  <2>2. tmp \in Datagrams /\ tmp.kind = "none"
    BY <2>1 DEF NoData, Datagrams
  <2>3. wait_for_signal \in BOOLEAN
    BY <2>1, Input
  <2>4. /\ received \in Seq(input.lens) /\ queued \in Seq(1..Len(received)) /\ Len(queued) = 0
        /\ delivered \in Seq(Seq(Bytes))
    BY <2>1
  <2>5. av_fifo_size(fifo) \in 0..circular_buffer_size /\ taken \in 0..Len(queued)
    BY <1>0, <1>2, <2>1, <2>4
  <2>6. nb_signals \in 0..MaxSignals /\ fast_retries \in 0..FastRetries
    BY <2>1, BoundsAssumption
  <2>7. TypeOK
    BY <2>1, <2>2, <2>3, <2>4, <2>5, <2>6 DEF TypeOK
  <2> QED
    BY <1>4, <2>1, <2>2, <2>4, <2>7 DEF Types
<1>6. Whole
  <2>1. HistoryOK(queued, received, taken) /\ taken = Len(queued)
    BY <1>5, TypesHistory DEF Init
  <2>2. Frames(queued, received, taken) = <<>>
    BY <2>1, FramesNone
  <2>3. Held(fifo) = <<>>
    BY <1>2, <1>4, HeldSeq
  <2> QED
    BY <2>2, <2>3 DEF Whole
<1>7. Receiving
  BY BoundsAssumption DEF Init, Receiving, NoData
<1>8. Reading
  BY DEF Init, Reading
<1>9. Ordered /\ Gapless /\ LastGiven /\ Given
  BY DEF Init, Ordered, Gapless, LastGiven, Given, NoGaps, NoData
<1> QED
  BY <1>5, <1>6, <1>7, <1>8, <1>9 DEF Inv

(* The parts of the invariant that speak only of what a step leaves alone. *)
LEMMA KeepGiven ==
  ASSUME Given, UNCHANGED <<input, received, delivered>> PROVE Given'
BY DEF Given, NoGaps, Id, overrun_nonfatal

LEMMA KeepWhole ==
  ASSUME Whole, UNCHANGED <<fifo, queued, received, taken>> PROVE Whole'
BY DEF Whole

LEMMA KeepOrdered ==
  ASSUME Ordered, UNCHANGED queued, tmp'.kind = "data" => tmp' = tmp PROVE Ordered'
BY DEF Ordered

LEMMA KeepLastGiven ==
  ASSUME LastGiven, UNCHANGED <<input, queued, taken, delivered, wait_for_signal>>,
         main = "closed" => main' = "closed"
  PROVE  LastGiven'
BY DEF LastGiven, Id

(* The environment, and the steps of the reader outside its mutex. *)
LEMMA InvEnvironment == ASSUME Inv, Environment PROVE Inv'
<1>0. /\ UNCHANGED <<input, rx, tmp, cancel, fifo, circular_buffer_error, wait_for_signal, main,
                      size, nonblock, fast_retries, ret, received, queued, taken, delivered>>
      /\ Usr1 \/ Sigterm \/ InitDone
  BY DEF Environment, shared, request, history
<1>1. usr1' \in BOOLEAN /\ init_done' \in BOOLEAN /\ nb_signals' \in 0..MaxSignals
  <2>1. usr1 \in BOOLEAN /\ init_done \in BOOLEAN /\ nb_signals \in 0..MaxSignals
    BY DEF Inv, Types, TypeOK
  <2>2. CASE Usr1
    BY <2>1, <2>2 DEF Usr1
  <2>3. CASE Sigterm
    BY <2>1, <2>3, BoundsAssumption DEF Sigterm
  <2>4. CASE InitDone
    BY <2>1, <2>4 DEF InitDone
  <2> QED
    BY <1>0, <2>2, <2>3, <2>4
<1>2. Types'
  BY <1>0, <1>1 DEF Inv, Types, TypeOK
<1>3. Receiving' /\ Reading' /\ Gapless'
  BY <1>0 DEF Inv, Receiving, Reading, Gapless, overrun_nonfatal
<1>4. Given' /\ Whole' /\ Ordered' /\ LastGiven'
  BY <1>0, KeepGiven, KeepWhole, KeepOrdered, KeepLastGiven DEF Inv
<1> QED
  BY <1>2, <1>3, <1>4 DEF Inv

(* Steps of the reader that leave the buffer and the history alone. *)
LEMMA InvReader ==
  ASSUME Inv,
         UNCHANGED <<input, rx, tmp, fifo, circular_buffer_error, wait_for_signal,
                     signals, history>>,
         cancel' \in BOOLEAN, nonblock' \in BOOLEAN,
         main' \in {"idle", "retry", "udp_read", "timedwait", "join"}, main # "closed",
         size' \in Sizes \cup {1}, fast_retries' \in 0..FastRetries,
         ret' \in Errors \cup {"none", "data"},
         main' \in {"retry", "udp_read", "timedwait"} => size' \in Sizes /\ ret' \notin Errors
  PROVE  Inv'
<1>0. UNCHANGED <<received, queued, taken, delivered, usr1, nb_signals, init_done>>
  BY DEF history, signals
<1>1. Types'
  BY <1>0 DEF Inv, Types, TypeOK
<1>2. Receiving' /\ Reading' /\ Gapless'
  BY <1>0 DEF Inv, Receiving, Reading, Gapless, overrun_nonfatal
<1>3. Given' /\ Whole' /\ Ordered' /\ LastGiven'
  BY <1>0, KeepGiven, KeepWhole, KeepOrdered, KeepLastGiven DEF Inv
<1> QED
  BY <1>1, <1>2, <1>3 DEF Inv

LEMMA ReaderTypes ==
  ASSUME Inv
  PROVE  /\ cancel \in BOOLEAN /\ nonblock \in BOOLEAN /\ size \in Sizes \cup {1}
         /\ fast_retries \in 0..FastRetries /\ ret \in Errors \cup {"none", "data"}
         /\ main \in {"retry", "udp_read", "timedwait"} => size \in Sizes /\ ret \notin Errors
         /\ circular_buffer_error \in {"none", "EIO", "ENETDOWN"}
BY DEF Inv, Types, TypeOK, Reading

LEMMA InvRead == ASSUME Inv, Read PROVE Inv'
<1>1. /\ UNCHANGED <<input, rx, tmp, cancel, fifo, circular_buffer_error, wait_for_signal, signals,
                     ret, history>>
      /\ size' \in Sizes /\ fast_retries' \in 0..FastRetries /\ nonblock' \in BOOLEAN
      /\ main = "idle" /\ main' = "retry" /\ ret \notin Errors
  <2>1. FastRetries \in 0..FastRetries
    BY BoundsAssumption
  <2> QED
    BY <2>1 DEF Read, shared
<1> QED
  BY <1>1, ReaderTypes, InvReader

LEMMA InvRetry == ASSUME Inv, Retry PROVE Inv'
<1>1. /\ UNCHANGED <<input, rx, tmp, cancel, fifo, circular_buffer_error, wait_for_signal, signals,
                     size, fast_retries, history>>
      /\ main = "retry" /\ nonblock' \in BOOLEAN
      /\ \/ main' = "idle" /\ ret' = "EXIT"
         \/ main' = "udp_read" /\ ret' = ret
  <2>1. CASE Interrupted
    BY <2>1 DEF Retry, shared
  <2>2. CASE ~Interrupted
    BY <2>2 DEF Retry, shared
  <2> QED
    BY <2>1, <2>2
<1>2. ret' \in Errors \cup {"none", "data"}
  BY <1>1, ReaderTypes DEF Errors
<1> QED
  BY <1>1, <1>2, ReaderTypes, InvReader

LEMMA InvWake == ASSUME Inv, Wake PROVE Inv'
<1>1. /\ UNCHANGED <<input, rx, tmp, cancel, fifo, circular_buffer_error, wait_for_signal, signals,
                     size, fast_retries, ret, history>>
      /\ main = "timedwait" /\ main' = "udp_read" /\ nonblock' \in BOOLEAN
  BY DEF Wake, shared
<1> QED
  BY <1>1, ReaderTypes, InvReader

LEMMA InvClose == ASSUME Inv, Close PROVE Inv'
<1>1. /\ UNCHANGED <<input, rx, tmp, fifo, circular_buffer_error, wait_for_signal, signals,
                     size, nonblock, fast_retries, ret, history>>
      /\ main = "idle" /\ main' = "join" /\ cancel' \in BOOLEAN
  BY DEF Close, shared, request
<1> QED
  BY <1>1, ReaderTypes, InvReader

LEMMA InvHold == ASSUME Inv, UdpRead, Hold \/ FailRead \/ Empty PROVE Inv'
<1>1. /\ UNCHANGED <<input, rx, tmp, cancel, fifo, circular_buffer_error, wait_for_signal, signals>>
      /\ UNCHANGED <<received, queued, taken, delivered>> /\ main = "udp_read"
  BY DEF UdpRead, Hold, FailRead, Empty, shared
<1>2. UNCHANGED history
  BY <1>1 DEF history
<1>3. /\ size' = size /\ nonblock' = nonblock /\ fast_retries' \in 0..FastRetries
      /\ \/ main' = "retry" /\ ret' = ret
         \/ main' = "timedwait" /\ ret' = ret
         \/ main' = "idle" /\ ret' = circular_buffer_error /\ circular_buffer_error # "none"
  <2>1. fast_retries \in 0..FastRetries
    BY ReaderTypes
  <2>2. (IF fast_retries > 0 THEN fast_retries - 1 ELSE 0) \in 0..FastRetries
    BY <2>1, BoundsAssumption
  <2>3. CASE Hold
    BY <2>2, <2>3 DEF Hold, TryAgain
  <2>4. CASE FailRead
    BY <2>1, <2>4 DEF FailRead, Return
  <2>5. CASE Empty
    <3>1. CASE nonblock
      BY <2>2, <2>5, <3>1 DEF Empty, TryAgain
    <3>2. CASE ~nonblock
      BY <2>1, <2>5, <3>2 DEF Empty, request
    <3> QED
      BY <3>1, <3>2
  <2> QED
    BY <2>3, <2>4, <2>5
<1>4. ret' \in Errors \cup {"none", "data"}
  BY <1>3, ReaderTypes DEF Errors
<1>5. /\ main' \in {"idle", "retry", "udp_read", "timedwait", "join"} /\ main # "closed"
      /\ main' \in {"retry", "udp_read", "timedwait"} => size' \in Sizes /\ ret' \notin Errors
  BY <1>1, <1>3, ReaderTypes
<1>6. cancel' \in BOOLEAN /\ nonblock' \in BOOLEAN /\ size' \in Sizes \cup {1}
  BY <1>1, <1>3, ReaderTypes
<1> QED
  BY <1>1, <1>2, <1>3, <1>4, <1>5, <1>6, InvReader

(* Steps of the receiver that store nothing. *)
LEMMA InvReceiver ==
  ASSUME Inv,
         UNCHANGED <<input, cancel, fifo, wait_for_signal, signals, main, request, ret, history>>,
         rx # "end", rx' \in {"recv", "lock", "end"},
         tmp' \in Datagrams, tmp'.kind # "data", tmp'.blocked => tmp.blocked,
         circular_buffer_error' \in {"none", "EIO", "ENETDOWN"},
         circular_buffer_error' # "none" => rx' = "end",
         (~input.block /\ ~overrun_nonfatal /\ rx' # "end") => tmp.kind # "data"
  PROVE  Inv'
<1>0. /\ UNCHANGED <<received, queued, taken, delivered, usr1, nb_signals, init_done>>
      /\ UNCHANGED <<size, nonblock, fast_retries>>
  BY DEF history, signals, request
<1>1. tmp'.kind \in {"none", "data", "EINTR", "ENETDOWN"}
  BY DEF Datagrams
<1>2. Types'
  BY <1>0, <1>1 DEF Inv, Types, TypeOK
<1>3. Receiving'
  BY <1>0 DEF Inv, Receiving
<1>4. Reading'
  BY <1>0 DEF Inv, Reading
<1>5. Gapless'
  BY <1>0 DEF Inv, Gapless, overrun_nonfatal
<1>6. Given' /\ Whole' /\ Ordered' /\ LastGiven'
  BY <1>0, KeepGiven, KeepWhole, KeepOrdered, KeepLastGiven DEF Inv
<1> QED
  BY <1>2, <1>3, <1>4, <1>5, <1>6 DEF Inv

LEMMA ReceiverTypes ==
  ASSUME Inv
  PROVE  /\ tmp \in Datagrams
         /\ tmp.kind = "data" => rx = "lock"
         /\ tmp.blocked => input.block
         /\ circular_buffer_error \in {"none", "EIO", "ENETDOWN"}
         /\ rx # "end" => circular_buffer_error = "none"
BY DEF Inv, Types, TypeOK, Receiving

LEMMA Notices ==
  /\ NoData \in Datagrams /\ NoData.kind = "none" /\ ~NoData.blocked
  /\ \A e \in {"EINTR", "ENETDOWN"} :
       RecvError(e) \in Datagrams /\ RecvError(e).kind = e /\ ~RecvError(e).blocked
BY DEF NoData, RecvError, Datagrams

LEMMA InvRxStart == ASSUME Inv, RxStart PROVE Inv'
<1>1. /\ UNCHANGED <<input, tmp, cancel, fifo, wait_for_signal, signals, main, request, ret>>
      /\ UNCHANGED <<received, queued, taken, delivered>> /\ rx = "start"
      /\ \/ rx' = "recv" /\ UNCHANGED circular_buffer_error
         \/ rx' = "end" /\ circular_buffer_error' = "EIO"
  BY DEF RxStart, GiveUp
<1>2. UNCHANGED history
  BY <1>1 DEF history
<1>3. tmp'.kind # "data" /\ tmp.kind # "data" /\ tmp' \in Datagrams
  BY <1>1, ReceiverTypes
<1> QED
  BY <1>1, <1>2, <1>3, ReceiverTypes, InvReceiver

LEMMA InvRxCancelled == ASSUME Inv, RxCancelled PROVE Inv'
<1>1. /\ UNCHANGED <<input, tmp, cancel, fifo, circular_buffer_error, wait_for_signal, signals, main,
                     request, ret, history>>
      /\ rx = "recv" /\ rx' = "end"
  BY DEF RxCancelled, shared
<1>2. tmp'.kind # "data" /\ tmp.kind # "data" /\ tmp' \in Datagrams
  BY <1>1, ReceiverTypes
<1> QED
  BY <1>1, <1>2, ReceiverTypes, InvReceiver

LEMMA InvRxRecv == ASSUME Inv, RxRecv PROVE Inv'
<1>0. /\ UNCHANGED <<input, cancel, fifo, circular_buffer_error, wait_for_signal, signals, main, request,
                     ret>>
      /\ UNCHANGED <<queued, taken, delivered>> /\ rx = "recv" /\ rx' = "lock" /\ tmp.kind # "data"
  BY ReceiverTypes DEF RxRecv, shared
<1>1. ASSUME NEW e \in {"EINTR", "ENETDOWN"}, tmp' = RecvError(e), UNCHANGED received PROVE Inv'
  <2>1. UNCHANGED history
    BY <1>0, <1>1 DEF history
  <2>2. tmp' \in Datagrams /\ tmp'.kind # "data" /\ ~tmp'.blocked
    BY <1>1, Notices
  <2> QED
    BY <1>0, <2>1, <2>2, ReceiverTypes, InvReceiver
<1>2. ASSUME Len(received) < MaxRecv, NEW len \in input.lens, NEW blocked \in Filtered,
             received' = Append(received, len), tmp' = Datagram(Len(received) + 1, len, blocked)
      PROVE  Inv'
  <2>0. UNCHANGED <<size, nonblock, fast_retries, usr1, nb_signals, init_done>>
    BY <1>0 DEF request, signals
  <2>1. /\ input \in Inputs /\ input.lens \subseteq Nat /\ input.block \in BOOLEAN
        /\ received \in Seq(input.lens) /\ queued \in Seq(1..Len(received))
    BY Input DEF Inv, Types, TypeOK
  <2>2. /\ received' \in Seq(input.lens) /\ Len(received') = Len(received) + 1
        /\ Len(received) \in Nat /\ len \in Nat
        /\ \A k \in 1..Len(received) : received'[k] = received[k]
        /\ received'[Len(received) + 1] = len
    BY <1>2, <2>1
  <2>3. blocked \in BOOLEAN /\ (blocked => input.block)
    BY <2>1 DEF Filtered
  <2>4. /\ tmp' \in Datagrams /\ tmp'.kind = "data" /\ tmp'.id = Len(received) + 1
        /\ tmp'.len = len /\ tmp'.blocked = blocked
    <3>1. Len(received) + 1 \in Nat
      BY <2>2
    <3> QED
      BY <1>2, <2>2, <2>3, <3>1 DEF Datagram, Datagrams
  <2>5. HistoryOK(queued, received, taken)
    BY TypesHistory DEF Inv
  <2>6. /\ HistoryOK(queued, received', taken)
        /\ Frames(queued, received', taken) = Frames(queued, received, taken)
    BY <1>2, <2>2, <2>5, FramesRecv
  <2>7. Types'
    <3>1. queued' \in Seq(1..Len(received')) /\ taken' \in 0..Len(queued')
      BY <1>0, <2>6 DEF HistoryOK
    <3>2. received' \in Seq(input'.lens)
      BY <1>0, <2>2
    <3> QED
      BY <1>0, <2>0, <2>4, <3>1, <3>2 DEF Inv, Types, TypeOK
  <2>8. Whole'
    BY <1>0, <2>6 DEF Inv, Whole
  <2>9. Receiving'
    <3>1. Len(received') <= MaxRecv /\ tmp'.id = Len(received') /\ tmp'.id \in 1..Len(received')
      BY <1>2, <2>2, <2>4, BoundsAssumption
    <3>2. tmp'.len = received'[tmp'.id]
      BY <2>2, <2>4
    <3>3. circular_buffer_error' = "none" /\ (tmp'.blocked => input'.block)
      BY <1>0, <2>3, <2>4, ReceiverTypes
    <3> QED
      BY <1>0, <3>1, <3>2, <3>3 DEF Receiving
  <2>10. Reading'
    BY <1>0, <2>0 DEF Inv, Reading
  <2>11. Ordered'
    <3>1. \A a \in 1..Len(queued) : queued[a] < tmp'.id
      <4>1. \A a \in 1..Len(queued) : queued[a] \in 1..Len(received)
        BY <2>1
      <4> QED
        BY <2>2, <2>4, <4>1
    <3> QED
      BY <1>0, <3>1 DEF Inv, Ordered
  <2>12. Gapless'
    <3>1. ASSUME ~input.block, ~overrun_nonfatal
          PROVE  Len(queued) = Len(received') - 1
      BY <1>0, <2>2, <3>1 DEF Inv, Gapless
    <3> QED
      BY <1>0, <2>4, <3>1 DEF Inv, Gapless, overrun_nonfatal
  <2>13. LastGiven'
    BY <1>0, KeepLastGiven DEF Inv
  <2>14. Given'
    <3>1. \A i \in 1..Len(delivered) : received'[Id(i)] = received[Id(i)] /\ Id(i) \in 1..Len(received')
      BY <2>2 DEF Inv, Given
    <3>2. \A i : Id(i)' = Id(i)
      BY <1>0 DEF Id
    <3> QED
      BY <1>0, <3>1, <3>2 DEF Inv, Given, NoGaps, overrun_nonfatal
  <2> QED
    BY <2>7, <2>8, <2>9, <2>10, <2>11, <2>12, <2>13, <2>14 DEF Inv
<1> QED
  BY <1>1, <1>2 DEF RxRecv

LEMMA InvStore == ASSUME Inv, RxLock, Store PROVE Inv'
<1> DEFINE id == tmp.id
           A == Frame(id, tmp.len)
<1>0. /\ UNCHANGED <<input, cancel, circular_buffer_error, wait_for_signal, signals, main, request, ret>>
      /\ UNCHANGED <<received, taken, delivered>> /\ rx = "lock" /\ rx' = "recv" /\ tmp' = NoData
      /\ tmp.kind = "data" /\ ~tmp.blocked /\ Fits(tmp.len)
      /\ fifo' = av_fifo_generic_write(fifo, A) /\ queued' = Append(queued, id)
  BY DEF RxLock, Store
<1>1. UNCHANGED <<size, nonblock, fast_retries, usr1, nb_signals, init_done>>
  BY <1>0 DEF request, signals
<1>2. HistoryOK(queued, received, taken) /\ FifoOK(fifo) /\ tmp \in Datagrams
  BY TypesHistory DEF Inv, Types
<1>3. /\ id = Len(received) /\ id \in 1..Len(received) /\ tmp.len = received[id]
      /\ id \in Nat /\ tmp.len \in Nat
  BY <1>0, <1>2 DEF Inv, Receiving, Datagrams
<1>4. A \in Seq(Bytes) /\ Len(A) = 4 + tmp.len
  BY <1>3, FrameBytes
<1>5. FifoOK(fifo') /\ Held(fifo') = Held(fifo) \o A
  <2> HIDE DEF A
  <2>1. Len(A) <= av_fifo_space(fifo)
    <3>1. av_fifo_space(fifo) \in Int
      BY <1>2, FifoSize, HeldSeq, Numbers
    <3> QED
      BY <1>0, <1>3, <1>4, <3>1 DEF Fits
  <2> QED
    BY <1>0, <1>2, <1>4, <2>1, PutIn
<1>6. /\ HistoryOK(queued', received, taken)
      /\ Frames(queued', received, taken) = Frames(queued, received, taken) \o A
  <2>1. /\ HistoryOK(Append(queued, id), received, taken)
        /\ Frames(Append(queued, id), received, taken)
             = Frames(queued, received, taken) \o Frame(id, received[id])
    <3> HIDE DEF id
    <3>1. StoredIn(queued, received, taken, id)
      BY <1>2, <1>3, FramesStore, Zenon
    <3> QED
      BY <3>1, Zenon DEF StoredIn
  <2> QED
    BY <1>0, <1>3, <2>1
<1> HIDE DEF A
<1>7. Whole'
  BY <1>0, <1>5, <1>6 DEF Inv, Whole
<1>8. Types'
  <2>1. queued' \in Seq(1..Len(received')) /\ taken' \in 0..Len(queued')
    BY <1>0, <1>6 DEF HistoryOK
  <2>2. tmp' \in Datagrams /\ tmp'.kind = "none"
    BY <1>0, Notices
  <2>3. FifoOK(fifo)' /\ av_fifo_size(fifo') \in 0..circular_buffer_size
    BY <1>5 DEF FifoOK
  <2> QED
    BY <1>0, <1>1, <2>1, <2>2, <2>3 DEF Inv, Types, TypeOK
<1>9. Receiving'
  BY <1>0, Notices DEF Inv, Receiving
<1>10. Reading'
  BY <1>0, <1>1 DEF Inv, Reading
<1>11. /\ Len(queued') = Len(queued) + 1 /\ Len(queued) \in Nat /\ queued'[Len(queued) + 1] = id
       /\ \A a \in 1..Len(queued) : queued'[a] = queued[a]
  BY <1>0, <1>2 DEF HistoryOK
<1> HIDE DEF id
<1>12. Ordered'
  <2>1. ASSUME NEW a \in 1..Len(queued'), NEW b \in 1..Len(queued'), a < b
        PROVE  queued'[a] < queued'[b]
    <3>1. a \in 1..Len(queued)
      BY <1>11, <2>1
    <3>2. CASE b \in 1..Len(queued)
      BY <1>11, <2>1, <3>1, <3>2 DEF Inv, Ordered
    <3>3. CASE b = Len(queued) + 1
      <4>1. queued[a] < id
        BY <1>0, <3>1 DEF Inv, Ordered, id
      <4> QED
        BY <1>11, <3>1, <3>3, <4>1
    <3> QED
      BY <1>11, <3>2, <3>3
  <2>2. tmp'.kind # "data"
    BY <1>0, Notices
  <2> QED
    BY <2>1, <2>2 DEF Ordered
<1>13. Gapless'
  <2>1. ASSUME ~input.block, ~overrun_nonfatal
        PROVE  /\ Len(queued') = Len(received)
               /\ \A a \in 1..Len(queued') : queued'[a] = a
    <3>1. Len(queued) = Len(received) - 1 /\ \A a \in 1..Len(queued) : queued[a] = a
      BY <1>0, <2>1 DEF Inv, Gapless
    <3>2. Len(received) \in Nat
      BY <1>2 DEF HistoryOK
    <3>3. Len(queued') = Len(received)
      BY <1>11, <3>1, <3>2
    <3>4. ASSUME NEW a \in 1..Len(queued') PROVE queued'[a] = a
      <4>1. CASE a \in 1..Len(queued)
        BY <1>11, <3>1, <4>1
      <4>2. CASE a = Len(queued) + 1
        BY <1>3, <1>11, <3>1, <3>2, <4>2
      <4> QED
        BY <1>11, <4>1, <4>2
    <3> QED
      BY <3>3, <3>4
  <2>2. tmp'.kind # "data"
    BY <1>0, Notices
  <2> QED
    BY <1>0, <2>1, <2>2 DEF Gapless, overrun_nonfatal
<1>14. LastGiven'
  <2>1. taken > 0 => taken \in 1..Len(queued)
    BY <1>2 DEF HistoryOK
  <2> QED
    BY <1>0, <1>11, <2>1 DEF Inv, LastGiven, Id
<1>15. Given'
  BY <1>0, KeepGiven DEF Inv
<1> QED
  BY <1>7, <1>8, <1>9, <1>10, <1>12, <1>13, <1>14, <1>15 DEF Inv

LEMMA InvRxLock == ASSUME Inv, RxLock PROVE Inv'
<1>0. /\ UNCHANGED <<input, cancel, wait_for_signal, signals, main, request, ret>>
      /\ UNCHANGED <<received, taken, delivered>> /\ rx = "lock" /\ tmp' = NoData
      /\ circular_buffer_error = "none"
  BY ReceiverTypes DEF RxLock
<1>1. tmp' \in Datagrams /\ tmp'.kind # "data" /\ ~tmp'.blocked
  BY <1>0, Notices
<1>2. ASSUME UNCHANGED <<fifo, queued>>,
             \/ rx' = "end" /\ circular_buffer_error' \in {"EIO", "ENETDOWN"}
             \/ /\ rx' = "recv" /\ circular_buffer_error' = "none"
                /\ tmp.kind # "data" \/ tmp.blocked \/ overrun_nonfatal
      PROVE  Inv'
  <2>1. UNCHANGED history
    BY <1>0, <1>2 DEF history
  <2>2. (~input.block /\ ~overrun_nonfatal /\ rx' # "end") => tmp.kind # "data"
    BY <1>2, ReceiverTypes
  <2>3. /\ rx # "end" /\ rx' \in {"recv", "lock", "end"}
        /\ circular_buffer_error' \in {"none", "EIO", "ENETDOWN"}
        /\ circular_buffer_error' # "none" => rx' = "end"
    BY <1>0, <1>2
  <2> QED
    BY <1>0, <1>1, <1>2, <2>1, <2>2, <2>3, InvReceiver
<1>3. CASE SocketError
  BY <1>2, <1>3 DEF SocketError, GiveUp
<1>4. CASE Skip
  BY <1>0, <1>2, <1>4 DEF Skip
<1>5. CASE Overrun
  BY <1>0, <1>2, <1>5 DEF Overrun, GiveUp
<1>6. CASE Store
  BY <1>6, InvStore
<1> QED
  BY <1>3, <1>4, <1>5, <1>6 DEF RxLock

(* A frame leaves the buffer: the parts that both Flush and Deliver keep. *)
LEMMA FrameLeaves ==
  ASSUME Inv, main = "udp_read", av_fifo_size(fifo) > 0,
         fifo' = AfterFrame, taken' = taken + 1, UNCHANGED <<queued, received>>
  PROVE  /\ Whole' /\ FifoOK(fifo') /\ av_fifo_size(fifo') \in 0..circular_buffer_size
         /\ taken < Len(queued) /\ taken \in Nat /\ taken' \in 0..Len(queued)
<1>1. size \in Nat
  <2>1. size \in Sizes
    BY DEF Inv, Reading
  <2> QED
    BY <2>1, InputsAssumption
<1>2. /\ taken < Len(queued) /\ FifoOK(AfterFrame)
      /\ Held(AfterFrame) = Frames(queued, received, taken + 1)
  BY <1>1, FirstFrame DEF Inv
<1>3. HistoryOK(queued, received, taken)
  BY TypesHistory DEF Inv
<1>4. Whole'
  BY <1>2 DEF Whole
<1>5. FifoOK(fifo') /\ av_fifo_size(fifo') \in 0..circular_buffer_size
  BY <1>2 DEF FifoOK
<1>6. taken \in Nat /\ taken' \in 0..Len(queued)
  BY <1>2, <1>3 DEF HistoryOK
<1> QED
  BY <1>2, <1>4, <1>5, <1>6

LEMMA InvFlush == ASSUME Inv, UdpRead, Flush PROVE Inv'
<1>0. /\ UNCHANGED <<input, rx, tmp, cancel, signals, received, queued>>
      /\ UNCHANGED <<wait_for_signal, circular_buffer_error, delivered>>
      /\ main = "udp_read" /\ av_fifo_size(fifo) > 0 /\ wait_for_signal
      /\ fifo' = AfterFrame /\ taken' = taken + 1
      /\ main' = "retry" /\ UNCHANGED <<size, nonblock, ret>>
      /\ fast_retries' = IF fast_retries > 0 THEN fast_retries - 1 ELSE 0
  BY DEF UdpRead, Flush, TryAgain
<1>1. /\ Whole' /\ FifoOK(fifo') /\ av_fifo_size(fifo') \in 0..circular_buffer_size
      /\ taken' \in 0..Len(queued)
  BY <1>0, FrameLeaves
<1>2. fast_retries' \in 0..FastRetries
  BY <1>0, ReaderTypes, BoundsAssumption
<1>3. UNCHANGED <<usr1, nb_signals, init_done>>
  BY <1>0 DEF signals
<1>4. Types'
  BY <1>0, <1>1, <1>2, <1>3 DEF Inv, Types, TypeOK
<1>5. Receiving' /\ Reading'
  BY <1>0 DEF Inv, Receiving, Reading
<1>6. Gapless' /\ Ordered'
  BY <1>0 DEF Inv, Gapless, Ordered, overrun_nonfatal
<1>7. LastGiven'
  <2>1. delivered = <<>> /\ input.wait_for_signal
    <3>1. input.wait_for_signal \in BOOLEAN
      BY Input DEF Inv, Types
    <3>2. input.wait_for_signal
      BY <1>0, <3>1 DEF Inv, Reading
    <3>3. delivered = <<>>
      BY <1>0 DEF Inv, LastGiven
    <3> QED
      BY <3>2, <3>3
  <2> QED
    BY <1>0, <2>1 DEF LastGiven
<1>8. Given'
  BY <1>0, KeepGiven DEF Inv
<1> QED
  BY <1>1, <1>4, <1>5, <1>6, <1>7, <1>8 DEF Inv

LEMMA InvJoin == ASSUME Inv, Join PROVE Inv'
<1>0. /\ UNCHANGED <<input, rx, tmp, cancel, circular_buffer_error, wait_for_signal,
                     signals, request, ret, received, queued, delivered>>
      /\ main = "join" /\ rx = "end" /\ main' = "closed"
      /\ fifo' = av_fifo_drain(fifo, av_fifo_size(fifo)) /\ taken' = Len(queued)
  BY DEF Join
<1>1. UNCHANGED <<size, nonblock, fast_retries, usr1, nb_signals, init_done>>
  BY <1>0 DEF request, signals
<1>2. HistoryOK(queued, received, taken) /\ FifoOK(fifo)
  BY TypesHistory DEF Inv, Types
<1>3. FifoOK(fifo') /\ av_fifo_size(fifo') = 0 /\ Held(fifo') = <<>>
  <2> DEFINE s == av_fifo_size(fifo)
  <2>1. s \in Nat /\ s \in 0..s /\ s - s = 0
    BY <1>2, HeldSeq
  <2>2. FifoOK(fifo') /\ av_fifo_size(fifo') = s - s
    BY <1>0, <1>2, <2>1, Drained, Zenon
  <2>3. av_fifo_size(fifo') = 0
    BY <2>1, <2>2
  <2>4. Held(fifo') \in Seq(Bytes) /\ Len(Held(fifo')) = 0
    BY <2>2, <2>3, HeldSeq
  <2>5. \A x \in Seq(Bytes) : Len(x) = 0 => x = <<>>
    OBVIOUS
  <2> QED
    BY <2>2, <2>3, <2>4, <2>5
<1>4. Len(queued) \in Nat /\ HistoryOK(queued, received, Len(queued))
  BY <1>2 DEF HistoryOK
<1>5. Whole'
  BY <1>0, <1>3, <1>4, FramesNone DEF Whole
<1>6. Types'
  <2>1. taken' \in 0..Len(queued') /\ av_fifo_size(fifo') \in 0..circular_buffer_size
    BY <1>0, <1>3, <1>4, Numbers
  <2> QED
    BY <1>0, <1>1, <1>3, <2>1 DEF Inv, Types, TypeOK
<1>7. Receiving' /\ Reading'
  BY <1>0, <1>1 DEF Inv, Receiving, Reading
<1>8. Gapless' /\ Ordered' /\ LastGiven'
  BY <1>0 DEF Inv, Gapless, Ordered, LastGiven, overrun_nonfatal
<1>9. Given'
  BY <1>0, KeepGiven DEF Inv
<1> QED
  BY <1>5, <1>6, <1>7, <1>8, <1>9 DEF Inv

(* What udp_read gives: the frame, or as much of it as was asked for. *)
LEMMA Given1 ==
  ASSUME Inv, main = "udp_read", av_fifo_size(fifo) > 0
  PROVE  LET e == av_fifo_generic_peek(fifo, 4 + Avail)
             id == queued[taken + 1]
             len == received[id]
         IN  /\ e \in Seq(Bytes) /\ e[1].id = id
             /\ \/ e = Frame(id, len)
                \/ \E s \in Sizes : s < len /\ e = SubSeq(Frame(id, len), 1, 4 + s)
             /\ id \in 1..Len(received)
<1> DEFINE e == av_fifo_generic_peek(fifo, 4 + Avail)
           id == queued[taken + 1]
           len == received[id]
           A == Frame(id, len)
           n == 4 + Avail
<1>1. size \in Sizes /\ size \in Nat
  <2>1. size \in Sizes
    BY DEF Inv, Reading
  <2> QED
    BY <2>1, InputsAssumption
<1>2. /\ id \in 1..Len(received) /\ id \in Nat /\ len \in Nat
      /\ Avail = (IF len > size THEN size ELSE len)
      /\ e = [i \in 1..n |-> A[i]]
  BY <1>1, FirstFrame DEF Inv
<1> HIDE DEF e, id, len
<1>3. A \in Seq(Bytes) /\ Len(A) = 4 + len /\ A[1].id = id
  BY <1>2, FrameBytes
<1> HIDE DEF A
<1>4. Avail \in 0..len /\ n \in 4..(4 + len)
  BY <1>1, <1>2
<1> HIDE DEF n
<1>5. \A i \in 1..n : A[i] \in Bytes
  BY <1>2, <1>3, <1>4
<1>6. e \in Seq(Bytes) /\ e[1] = A[1]
  <2>1. n \in Nat /\ 1 \in 1..n
    BY <1>2, <1>4
  <2> QED
    BY <1>2, <1>5, <2>1
<1>7. CASE len > size
  <2>1. n = 4 + size /\ size < len
    BY <1>1, <1>2, <1>7 DEF n
  <2>2. SubSeq(A, 1, n) = [i \in 1..n |-> A[i]]
    <3>1. SubSeq(A, 1, n) = [i \in 1..(n - 1 + 1) |-> A[i + 1 - 1]]
      BY <1>2, <1>3, <1>4
    <3>2. n - 1 + 1 = n
      BY <1>2, <1>4
    <3>3. \A i \in 1..n : i + 1 - 1 = i
      BY <1>2, <1>4
    <3> QED
      BY <3>1, <3>2, <3>3
  <2>3. e = SubSeq(A, 1, 4 + size)
    BY <1>2, <2>1, <2>2
  <2>4. \E s \in Sizes : s < len /\ e = SubSeq(A, 1, 4 + s)
    BY <1>1, <2>1, <2>3, Zenon
  <2> QED
    BY <1>2, <1>3, <1>6, <2>4, Zenon DEF e, id, len, A
<1>8. CASE ~(len > size)
  <2>1. n = 4 + len
    BY <1>2, <1>8 DEF n
  <2>2. A = [i \in 1..(4 + len) |-> A[i]]
    BY <1>3
  <2>3. e = A
    BY <1>2, <2>1, <2>2
  <2> QED
    BY <1>2, <1>3, <1>6, <2>3, Zenon DEF e, id, len, A
<1> QED
  BY <1>7, <1>8

LEMMA InvDeliver == ASSUME Inv, UdpRead, Deliver PROVE Inv'
<1> DEFINE e == av_fifo_generic_peek(fifo, 4 + Avail)
           id == queued[taken + 1]
           len == received[id]
           n == Len(delivered)
<1>0. /\ UNCHANGED <<input, rx, tmp, cancel, signals, received, queued, circular_buffer_error>>
      /\ main = "udp_read" /\ av_fifo_size(fifo) > 0 /\ wait_for_signal' = FALSE
      /\ delivered' = Append(delivered, e) /\ fifo' = AfterFrame /\ taken' = taken + 1
      /\ UNCHANGED <<size, nonblock, fast_retries>>
      /\ \/ main' = "retry" /\ ret' = ret
         \/ main' = "idle" /\ ret' = "data"
  <2>1. CASE Avail = 0
    BY <2>1 DEF UdpRead, Deliver
  <2>2. CASE Avail # 0
    BY <2>2 DEF UdpRead, Deliver, Return
  <2> QED
    BY <2>1, <2>2
<1>1. /\ Whole' /\ FifoOK(fifo') /\ av_fifo_size(fifo') \in 0..circular_buffer_size
      /\ taken < Len(queued) /\ taken \in Nat /\ taken' \in 0..Len(queued)
  BY <1>0, FrameLeaves
<1>2. /\ e \in Seq(Bytes) /\ e[1].id = id
      /\ \/ e = Frame(id, len)
         \/ \E s \in Sizes : s < len /\ e = SubSeq(Frame(id, len), 1, 4 + s)
      /\ id \in 1..Len(received)
  BY <1>0, Given1, Zenon
<1> HIDE DEF e
<1>3. UNCHANGED <<usr1, nb_signals, init_done>>
  BY <1>0 DEF signals
<1>4. /\ delivered' \in Seq(Seq(Bytes)) /\ Len(delivered') = n + 1 /\ n \in Nat
      /\ \A i \in 1..n : delivered'[i] = delivered[i]
      /\ delivered'[n + 1] = e
  <2>1. delivered \in Seq(Seq(Bytes))
    BY DEF Inv, Types
  <2> DEFINE D == Seq(Bytes)
  <2>2. delivered \in Seq(D) /\ e \in D
    BY <1>2, <2>1
  <2> HIDE DEF D
  <2>3. /\ delivered' \in Seq(D) /\ Len(delivered') = n + 1 /\ n \in Nat
        /\ \A i \in 1..n : delivered'[i] = delivered[i]
        /\ delivered'[n + 1] = e
    BY <1>0, <2>2
  <2> QED
    BY <2>3 DEF D
<1>5. Types'
  <2>1. ret' \in Errors \cup {"none", "data"}
    BY <1>0, ReaderTypes
  <2>2. main' \in {"idle", "retry"} /\ wait_for_signal' \in BOOLEAN /\ delivered' \in Seq(Seq(Bytes))
    BY <1>0, <1>4
  <2> HIDE DEF id, len, n
  <2> QED
    BY <1>0, <1>1, <1>3, <2>1, <2>2 DEF Inv, Types, TypeOK
<1>6. Receiving'
  BY <1>0 DEF Inv, Receiving
<1>7. Reading'
  BY <1>0, ReaderTypes DEF Inv, Reading
<1>8. Gapless' /\ Ordered'
  BY <1>0 DEF Inv, Gapless, Ordered, overrun_nonfatal
<1>9. (\A i : i = n + 1 => Id(i)' = id) /\ \A i \in 1..n : Id(i)' = Id(i)
  BY <1>2, <1>4 DEF Id
<1>10. LastGiven'
  <2>1. delivered' # <<>>
    BY <1>4
  <2>2. Id(Len(delivered))' = queued'[taken']
    BY <1>0, <1>2, <1>4 DEF Id
  <2>3. taken' > 0 /\ ~wait_for_signal'
    BY <1>0, <1>1
  <2> QED
    BY <2>1, <2>2, <2>3 DEF LastGiven
<1>11. Given'
  <2>0. NoGaps /\ \A i \in 1..n : Id(i) \in 1..Len(received)
    BY DEF Inv, Given
  <2>1. \A i \in 1..Len(delivered') : Id(i)' \in 1..Len(received')
    BY <1>0, <1>2, <1>4, <1>9, <2>0, SMTT(30)
  <2>2. ASSUME NEW i \in 1..n
        PROVE  /\ \/ delivered'[i] = Frame(Id(i), received[Id(i)])
                  \/ \E s \in Sizes : /\ s < received[Id(i)]
                                      /\ delivered'[i] = SubSeq(Frame(Id(i), received[Id(i)]), 1, 4 + s)
               /\ i > 1 => Id(i) > Id(i - 1)
               /\ (~input.block /\ ~overrun_nonfatal) =>
                    IF i = 1 THEN ~input.wait_for_signal => Id(i) = 1 ELSE Id(i) = Id(i - 1) + 1
    <3>1. delivered'[i] = delivered[i]
      BY <1>4
    <3> QED
      BY <2>0, <3>1, Zenon DEF NoGaps
  <2>3. /\ n + 1 > 1 => id > Id(n)
        /\ (~input.block /\ ~overrun_nonfatal) =>
             IF n + 1 = 1 THEN ~input.wait_for_signal => id = 1 ELSE id = Id(n) + 1
    <3>1. CASE n = 0
      <4>1. delivered = <<>>
        BY <1>4, <3>1 DEF Inv, Types
      <4>2. ~input.wait_for_signal => taken = 0
        BY <1>0, <4>1 DEF Inv, LastGiven
      <4>3. (~input.block /\ ~overrun_nonfatal) => id = taken + 1
        BY <1>1 DEF Inv, Gapless
      <4> QED
        BY <3>1, <4>2, <4>3
    <3>2. CASE n > 0
      <4>1. delivered # <<>>
        BY <3>2
      <4>2. taken > 0 /\ Id(n) = queued[taken]
        BY <1>0, <4>1 DEF Inv, LastGiven
      <4>3. taken \in 1..Len(queued) /\ taken + 1 \in 1..Len(queued) /\ taken < taken + 1
        BY <1>1, <4>2
      <4>4. queued[taken] < id
        BY <4>3 DEF Inv, Ordered
      <4>5. (~input.block /\ ~overrun_nonfatal) => id = taken + 1 /\ queued[taken] = taken
        BY <4>3 DEF Inv, Gapless
      <4>6. id \in Int /\ queued[taken] \in Int
        BY <4>3 DEF Inv, Types, TypeOK
      <4> QED
        BY <1>4, <3>2, <4>2, <4>4, <4>5, <4>6
    <3> QED
      BY <1>4, <3>1, <3>2
  <2> QED
    <3> HIDE DEF id, n
    <3>1. ASSUME NEW i \in 1..Len(delivered')
          PROVE  (/\ \/ delivered[i] = Frame(Id(i), received[Id(i)])
                     \/ \E s \in Sizes : /\ s < received[Id(i)]
                                         /\ delivered[i] = SubSeq(Frame(Id(i), received[Id(i)]), 1, 4 + s)
                  /\ i > 1 => Id(i) > Id(i - 1)
                  /\ (~input.block /\ ~overrun_nonfatal) =>
                       IF i = 1 THEN ~input.wait_for_signal => Id(i) = 1
                       ELSE Id(i) = Id(i - 1) + 1)'
      <4>1. CASE i \in 1..n
        <5>1. Id(i)' = Id(i) /\ (i > 1 => Id(i - 1)' = Id(i - 1)) /\ received' = received /\ input' = input
          BY <1>0, <1>4, <1>9, <4>1
        <5>2. overrun_nonfatal' = overrun_nonfatal
          BY <1>0 DEF overrun_nonfatal
        <5> QED
          BY <2>2, <4>1, <5>1, <5>2
      <4>2. CASE i = n + 1
        <5>1. Id(i)' = id /\ (i > 1 => Id(i - 1)' = Id(n)) /\ received' = received /\ input' = input
          <6>1. i > 1 => i - 1 \in 1..n /\ i - 1 = n
            BY <1>4, <4>2
          <6> QED
            BY <1>0, <1>9, <4>2, <6>1
        <5>2. overrun_nonfatal' = overrun_nonfatal /\ delivered'[i] = e
          BY <1>0, <1>4, <4>2 DEF overrun_nonfatal
        <5> QED
          BY <1>2, <1>4, <2>3, <4>2, <5>1, <5>2
      <4> QED
        BY <1>4, <4>1, <4>2
    <3> QED
      BY <2>1, <3>1 DEF Given, NoGaps
<1> QED
  BY <1>1, <1>5, <1>6, <1>7, <1>8, <1>10, <1>11 DEF Inv

LEMMA InvStutter == ASSUME Inv, UNCHANGED vars PROVE Inv'
<1>0. /\ UNCHANGED <<input, rx, tmp, cancel, fifo, circular_buffer_error, wait_for_signal, usr1,
                     nb_signals, init_done, main, size, nonblock, fast_retries, ret>>
      /\ UNCHANGED <<received, queued, taken, delivered>>
  BY DEF vars, shared, signals, request, history
<1>1. Types'
  BY <1>0 DEF Inv, Types, TypeOK
<1>2. Receiving' /\ Reading' /\ Gapless'
  BY <1>0 DEF Inv, Receiving, Reading, Gapless, overrun_nonfatal
<1>3. Given' /\ Whole' /\ Ordered' /\ LastGiven'
  BY <1>0, KeepGiven, KeepWhole, KeepOrdered, KeepLastGiven DEF Inv
<1> QED
  BY <1>1, <1>2, <1>3 DEF Inv

LEMMA InvNext == ASSUME Inv, [Next]_vars PROVE Inv'
<1>1. CASE RxOwn
  BY <1>1, InvRxStart, InvRxCancelled, InvRxLock DEF RxOwn
<1>2. CASE RxRecv
  BY <1>2, InvRxRecv
<1>3. CASE UdpRead
  BY <1>3, InvHold, InvFlush, InvDeliver DEF UdpRead
<1>4. CASE MainOwn
  BY <1>3, <1>4, InvRead, InvRetry, InvWake, InvClose, InvJoin DEF MainOwn
<1>5. CASE Environment
  BY <1>5, InvEnvironment
<1>6. CASE UNCHANGED vars
  BY <1>6, InvStutter
<1> QED
  BY <1>1, <1>2, <1>4, <1>5, <1>6 DEF Next

-----------------------------------------------------------------------------
(* The theorems. *)

LEMMA UdpInvariant == Spec => []Inv
<1>1. Inv /\ [Next]_vars => Inv'
  BY InvNext
<1> QED
  BY <1>1, InvInit, PTL DEF Spec

(* The circular buffer of udp.c, between any two critical sections and     *)
(* also when its counters have overflowed, holds whole frames: those that  *)
(* circular_buffer_task_rx stored and udp_read has not taken out, and      *)
(* never more bytes than circular_buffer_size.                             *)
THEOREM BufferFramed == Spec => []Framing
<1>1. ASSUME Inv PROVE Framing
  <2>1. Types /\ Whole
    BY <1>1 DEF Inv
  <2>2. HistoryOK(queued, received, taken)
    BY <2>1, TypesHistory
  <2>3. Held(fifo) = Contents
    BY <2>1, <2>2, ContentsFrames DEF Whole
  <2>4. TypeOK
    BY <2>1 DEF Types
  <2> QED
    BY <2>3, <2>4 DEF Framing, Held
<1> QED
  BY <1>1, UdpInvariant, PTL

(* What udp_read gives the demuxer: the beginning of each datagram, in the *)
(* order of arrival, and, when an overrun is fatal and no source blocked,  *)
(* every datagram from the first one given on.                             *)
THEOREM InputWithoutGaps == Spec => []NoGaps
<1>1. Inv => NoGaps
  BY DEF Inv, Given
<1> QED
  BY <1>1, UdpInvariant, PTL

(* Once udp_close has freed the buffer no thread touches it. *)
THEOREM FreedIsFinal == Spec => ClosedIsFinal
<1>1. Inv /\ [Next]_vars => [main = "closed" => UNCHANGED shared]_vars
  <2> SUFFICES ASSUME Inv, Next, main = "closed" PROVE UNCHANGED shared
    BY DEF vars
  <2>1. rx = "end"
    BY DEF Inv, Reading
  <2>2. ~RxOwn /\ ~RxRecv
    BY <2>1 DEF RxOwn, RxRecv, RxStart, RxCancelled, RxLock
  <2>3. ~MainOwn
    BY DEF MainOwn, Read, Retry, UdpRead, Wake, Close, Join
  <2> QED
    BY <2>2, <2>3 DEF Next, Environment
<1> QED
  BY <1>1, UdpInvariant, PTL DEF Spec, ClosedIsFinal

-----------------------------------------------------------------------------
(* The circular buffer implements the channel. *)

Out == [i \in 1..Len(delivered) |-> Id(i)]
Err == {circular_buffer_error} \ {"none"}
Told == {ret} \cap {"EIO", "ENETDOWN"}

(* A step that the channel does not see. *)
LEMMA Unseen ==
  ASSUME UNCHANGED <<queued, taken, delivered>>, Err' = Err, Told' = Told
  PROVE  UNCHANGED Queue!vars
<1>1. Out' = Out
  BY DEF Out, Id
<1> QED
  BY <1>1 DEF Queue!vars, Out, Err, Told

LEMMA GiveUpFails ==
  ASSUME circular_buffer_error = "none", circular_buffer_error' \in {"EIO", "ENETDOWN"},
         UNCHANGED <<queued, taken, delivered, ret>>
  PROVE  Queue!Next
<1>1. Out' = Out
  BY DEF Out, Id
<1>2. Queue!Fail(circular_buffer_error')
  BY <1>1 DEF Queue!Fail, Out, Err, Told
<1> QED
  BY <1>2 DEF Queue!Next

LEMMA RxImplements ==
  ASSUME Inv, RxOwn \/ RxRecv PROVE Queue!Next \/ UNCHANGED Queue!vars
<1>0. UNCHANGED <<taken, delivered, ret>>
  BY DEF RxOwn, RxRecv, RxStart, RxCancelled, RxLock, history
<1>1. CASE RxStart
  <2>1. CASE rx' = "recv" /\ UNCHANGED <<fifo, circular_buffer_error, queued>>
    BY <1>0, <2>1, Unseen DEF Err, Told
  <2>2. CASE GiveUp("EIO")
    <3>1. circular_buffer_error = "none"
      BY <1>1, ReceiverTypes DEF RxStart
    <3> QED
      BY <1>0, <2>2, <3>1, GiveUpFails DEF GiveUp
  <2> QED
    BY <1>1, <2>1, <2>2 DEF RxStart
<1>2. CASE RxCancelled \/ RxRecv
  BY <1>0, <1>2, Unseen DEF RxCancelled, RxRecv, shared, history, Err, Told
<1>3. CASE RxLock
  <2>0. circular_buffer_error = "none"
    BY <1>3, ReceiverTypes DEF RxLock
  <2>1. CASE GiveUp("EIO") \/ GiveUp("ENETDOWN")
    BY <1>0, <2>0, <2>1, GiveUpFails DEF GiveUp
  <2>2. CASE SocketError
    BY <2>1, <2>2 DEF SocketError
  <2>3. CASE UNCHANGED <<fifo, queued, circular_buffer_error>>
    BY <1>0, <2>3, Unseen DEF Err, Told
  <2>4. CASE Skip \/ Overrun
    BY <2>1, <2>3, <2>4 DEF Skip, Overrun
  <2>5. CASE Store
    <3>1. Out' = Out
      BY <1>0 DEF Out, Id
    <3>2. tmp.id \in 1..MaxRecv
      <4>1. tmp.id \in 1..Len(received) /\ Len(received) <= MaxRecv /\ Len(received) \in Nat
        BY <2>5 DEF Store, Inv, Receiving, Types, TypeOK
      <4> QED
        BY <4>1, BoundsAssumption
    <3>3. Queue!Put(tmp.id)
      BY <1>0, <2>5, <3>1 DEF Store, Queue!Put, Out, Err, Told
    <3> QED
      BY <3>2, <3>3 DEF Queue!Next
  <2> QED
    BY <1>3, <2>2, <2>4, <2>5 DEF RxLock
<1> QED
  BY <1>1, <1>2, <1>3 DEF RxOwn

LEMMA ReadImplements ==
  ASSUME Inv, UdpRead PROVE Queue!Next \/ UNCHANGED Queue!vars
<1>0. /\ UNCHANGED <<rx, received, queued>> /\ main = "udp_read" /\ ret \notin Errors
      /\ Told = {} /\ circular_buffer_error \in {"none", "EIO", "ENETDOWN"}
  BY ReaderTypes DEF UdpRead, Told, Errors
<1>1. CASE Hold \/ Empty
  <2>1. UNCHANGED <<taken, delivered, circular_buffer_error, ret>>
    BY <1>1 DEF Hold, Empty, TryAgain, shared
  <2> QED
    BY <1>0, <2>1, Unseen DEF Err, Told
<1>2. CASE FailRead
  <2>1. /\ UNCHANGED <<taken, delivered, circular_buffer_error>> /\ ret' = circular_buffer_error
        /\ circular_buffer_error \in {"EIO", "ENETDOWN"} /\ av_fifo_size(fifo) = 0
    BY <1>0, <1>2 DEF FailRead, Return, shared
  <2>2. taken = Len(queued)
    BY <2>1, NothingWaits DEF Inv
  <2>3. Out' = Out
    BY <2>1 DEF Out, Id
  <2>4. Queue!Tell(circular_buffer_error)
    BY <1>0, <2>1, <2>2, <2>3 DEF Queue!Tell, Out, Err, Told
  <2> QED
    BY <2>1, <2>4 DEF Queue!Next
<1>3. CASE Flush
  <2>1. /\ UNCHANGED <<delivered, circular_buffer_error, ret>> /\ taken' = taken + 1
        /\ fifo' = AfterFrame /\ av_fifo_size(fifo) > 0
    BY <1>3 DEF Flush, TryAgain
  <2>2. taken < Len(queued) /\ taken \in Nat /\ Len(queued) \in Nat
    BY <1>0, <2>1, FrameLeaves, TypesHistory DEF HistoryOK, Inv
  <2>3. Out' = Out
    BY <2>1 DEF Out, Id
  <2>4. 1 \in 1..(Len(queued) - taken)
    BY <2>2
  <2>5. Queue!Discard(1)
    BY <1>0, <2>1, <2>3, <2>4 DEF Queue!Discard, Out, Err, Told
  <2> QED
    BY <2>4, <2>5 DEF Queue!Next
<1>4. CASE Deliver
  <2> DEFINE e == av_fifo_generic_peek(fifo, 4 + Avail)
  <2>1. /\ UNCHANGED circular_buffer_error /\ taken' = taken + 1
        /\ fifo' = AfterFrame /\ av_fifo_size(fifo) > 0 /\ delivered' = Append(delivered, e)
        /\ ret' = ret \/ ret' = "data"
    <3>1. CASE Avail = 0
      BY <1>4, <3>1 DEF Deliver
    <3>2. CASE Avail # 0
      BY <1>4, <3>2 DEF Deliver, Return
    <3> QED
      BY <3>1, <3>2
  <2>2. taken < Len(queued)
    BY <1>0, <2>1, FrameLeaves
  <2>3. e \in Seq(Bytes) /\ e[1].id = queued[taken + 1]
    BY <1>0, <2>1, Given1, Zenon
  <2> HIDE DEF e
  <2>4. Out' = Append(Out, queued[taken + 1])
    <3> DEFINE D == Seq(Bytes)
               n == Len(delivered)
    <3>1. delivered \in Seq(D) /\ e \in D
      BY <2>3 DEF Inv, Types
    <3> HIDE DEF D
    <3>2. /\ Len(delivered') = n + 1 /\ n \in Nat /\ delivered'[n + 1] = e
          /\ \A i \in 1..n : delivered'[i] = delivered[i]
      BY <2>1, <3>1
    <3>3. Out' = [i \in 1..(n + 1) |-> delivered'[i][1].id]
      BY <3>2 DEF Out, Id
    <3>4. Out = [i \in 1..n |-> delivered[i][1].id] /\ Len(Out) = n
      BY <3>2 DEF Out, Id
    <3> HIDE DEF n
    <3>5. Append(Out, queued[taken + 1])
            = [i \in 1..(n + 1) |-> IF i = n + 1 THEN queued[taken + 1] ELSE Out[i]]
      BY <3>2, <3>4
    <3>6. ASSUME NEW i \in 1..(n + 1)
          PROVE  delivered'[i][1].id = IF i = n + 1 THEN queued[taken + 1] ELSE Out[i]
      <4>1. CASE i = n + 1
        BY <2>3, <3>2, <4>1
      <4>2. CASE i # n + 1
        <5>1. i \in 1..n
          BY <3>2, <4>2
        <5> QED
          BY <3>2, <3>4, <4>2, <5>1
      <4> QED
        BY <4>1, <4>2
    <3> QED
      BY <3>3, <3>5, <3>6
  <2>5. Told' = {}
    BY <1>0, <2>1 DEF Told
  <2>6. Queue!Get
    BY <1>0, <2>1, <2>2, <2>4, <2>5 DEF Queue!Get, Out, Err, Told
  <2> QED
    BY <2>6 DEF Queue!Next
<1> QED
  BY <1>1, <1>2, <1>3, <1>4 DEF UdpRead

LEMMA MainImplements ==
  ASSUME Inv, MainOwn PROVE Queue!Next \/ UNCHANGED Queue!vars
<1>1. CASE Read \/ Wake \/ Close
  <2>1. UNCHANGED <<queued, taken, delivered, circular_buffer_error, ret>>
    BY <1>1 DEF Read, Wake, Close, shared, history
  <2> QED
    BY <2>1, Unseen DEF Err, Told
<1>2. CASE Retry
  <2>1. UNCHANGED <<queued, taken, delivered, circular_buffer_error>> /\ main = "retry"
    BY <1>2 DEF Retry, shared, history
  <2>2. ret' = ret \/ ret' = "EXIT"
    <3>1. CASE Interrupted
      BY <1>2, <3>1 DEF Retry
    <3>2. CASE ~Interrupted
      BY <1>2, <3>2 DEF Retry
    <3> QED
      BY <3>1, <3>2
  <2>3. Told = {} /\ Told' = {}
    BY <2>1, <2>2, ReaderTypes DEF Told, Errors
  <2> QED
    BY <2>1, <2>3, Unseen DEF Err
<1>3. CASE UdpRead
  BY <1>3, ReadImplements
<1>4. CASE Join
  <2>1. UNCHANGED <<queued, delivered, circular_buffer_error, ret>> /\ taken' = Len(queued)
    BY <1>4 DEF Join
  <2>2. taken \in 0..Len(queued) /\ Len(queued) \in Nat
    BY TypesHistory DEF HistoryOK, Inv
  <2>3. Out' = Out
    BY <2>1 DEF Out, Id
  <2>4. CASE taken = Len(queued)
    BY <2>1, <2>4, Unseen DEF Err, Told
  <2>5. CASE taken # Len(queued)
    <3> DEFINE n == Len(queued) - taken
    <3>1. n \in 1..(Len(queued) - taken) /\ taken + n = Len(queued)
      BY <2>2, <2>5
    <3> HIDE DEF n
    <3>2. Queue!Discard(n)
      BY <2>1, <2>3, <3>1 DEF Queue!Discard, Out, Err, Told
    <3> QED
      BY <3>1, <3>2 DEF Queue!Next
  <2> QED
    BY <2>4, <2>5
<1> QED
  BY <1>1, <1>2, <1>3, <1>4 DEF MainOwn

(* The circular buffer and its two threads implement the channel: nothing  *)
(* is delivered twice or out of order, what is flushed never comes out,    *)
(* and the error that ended circular_buffer_task_rx is told by udp_read    *)
(* only when everything stored before it has been taken out.               *)
THEOREM RingIsChannel == Spec => ImplementsChannel
<1>1. Init => Queue!Init
  <2> SUFFICES ASSUME Init PROVE Queue!Init
    OBVIOUS
  <2>1. /\ queued = <<>> /\ taken = 0 /\ delivered = <<>> /\ circular_buffer_error = "none"
        /\ ret = "none"
    BY DEF Init
  <2>2. Out = <<>>
    BY <2>1 DEF Out
  <2> QED
    BY <2>1, <2>2 DEF Queue!Init, Out
<1>2. Inv /\ [Next]_vars => [Queue!Next]_(Queue!vars)
  <2> SUFFICES ASSUME Inv, [Next]_vars PROVE Queue!Next \/ UNCHANGED Queue!vars
    OBVIOUS
  <2>1. CASE RxOwn \/ RxRecv
    BY <2>1, RxImplements
  <2>2. CASE MainOwn
    BY <2>2, MainImplements
  <2>3. CASE Environment \/ UNCHANGED vars
    <3>1. UNCHANGED <<queued, taken, delivered, circular_buffer_error, ret>>
      BY <2>3 DEF Environment, vars, shared, history
    <3> QED
      BY <3>1, Unseen DEF Err, Told
  <2> QED
    BY <2>1, <2>2, <2>3 DEF Next
<1> QED
  BY <1>1, <1>2, UdpInvariant, PTL DEF Spec, ImplementsChannel, Queue!Spec

=============================================================================
