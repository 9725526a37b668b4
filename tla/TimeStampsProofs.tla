-------------------------- MODULE TimeStampsProofs --------------------------
(***************************************************************************)
(* Proofs about the time stamps of the input, where the demuxer gives them *)
(* (MpegTsTime) and where ffmpeg corrects them (ProcessInput).             *)
(*                                                                         *)
(* For counters of any width, any streams and programs, any times within   *)
(* the assumptions and any number of wraps: the stamps the demuxer gives   *)
(* are those of the source, and subtitles are given near the clock of      *)
(* their program.  For any streams, clocks, losses and restarts within the *)
(* assumptions: after a restart of the source the offset comes to rest,    *)
(* and then all streams are delayed alike.                                 *)
(***************************************************************************)
EXTENDS MpegTsTime, ProcessInput, TLAPS

-----------------------------------------------------------------------------
(* Remainders *)

(* The remainder and the quotient of a division. *)
LEMMA Remainder ==
  ASSUME NEW k \in Nat \ {0}, NEW x \in Int
  PROVE  x % k \in 0..(k - 1)
OBVIOUS

(* A number is made of its quotient and its remainder. *)
LEMMA Division ==
  ASSUME NEW k \in Nat \ {0}, NEW x \in Int
  PROVE  x = k * (x \div k) + (x % k)
OBVIOUS

(* The quotient is a number. *)
LEMMA Quotient ==
  ASSUME NEW k \in Nat \ {0}, NEW x \in Int
  PROVE  x \div k \in Int
OBVIOUS

(* The remainder is the only one. *)
LEMMA RemainderIs ==
  ASSUME NEW k \in Nat \ {0}, NEW q \in Int, NEW r \in 0..(k - 1)
  PROVE  (k * q + r) % k = r
OBVIOUS

(* Whole turns do not change a remainder. *)
LEMMA Turns ==
  ASSUME NEW k \in Nat \ {0}, NEW x \in Int, NEW q \in Int
  PROVE  (x + k * q) % k = x % k
<1> DEFINE r == x % k
           d == x \div k
<1>1. r \in 0..(k - 1) /\ x = k * d + r /\ d \in Int
  BY Remainder, Division, Quotient
<1> HIDE DEF r, d
<1>2. x + k * q = k * (d + q) + r
  BY <1>1
<1>3. (k * (d + q) + r) % k = r
  BY <1>1, RemainderIs
<1> QED
  BY <1>2, <1>3 DEF r

(* Two numbers with the same remainder keep it when both are moved.        *)
Alike(a, b) == a % M = b % M

LEMMA Moved ==
  ASSUME NEW a \in Int, NEW b \in Int, NEW c \in Int, Alike(a, b)
  PROVE  Alike(a + c, b + c)
<1> DEFINE qa == a \div M
           qb == b \div M
<1>0. M \in Nat \ {0} /\ a % M = b % M
  BY BitsAssumption DEF Alike
<1>1. a = M * qa + (a % M) /\ qa \in Int /\ b = M * qb + (b % M) /\ qb \in Int
  BY <1>0, Division, Quotient
<1>2. b % M \in Int
  BY <1>0, Remainder
<1> HIDE DEF qa, qb
<1>3. a + c = (b + c) + M * (qa - qb)
  BY <1>0, <1>1, <1>2
<1>4. b + c \in Int /\ qa - qb \in Int
  BY <1>1
<1>5. ((b + c) + M * (qa - qb)) % M = (b + c) % M
  BY <1>0, <1>4, Turns
<1> QED
  BY <1>3, <1>5 DEF Alike

(* A number and its remainder are alike; the difference is whole turns.    *)
LEMMA Rest ==
  ASSUME NEW x \in Int
  PROVE  /\ x % M \in 0..(M - 1)
         /\ Alike(x % M, x)
         /\ Alike(x - (x % M), 0)
<1>0. M \in Nat \ {0}
  BY BitsAssumption
<1> DEFINE r == x % M
<1>1. r \in 0..(M - 1)
  BY <1>0, Remainder
<1>2. r % M = r
  BY <1>0, <1>1
<1>3. Alike(r, x)
  BY <1>2 DEF Alike
<1>4. Alike(x, r)
  BY <1>3 DEF Alike
<1>5. -r \in Int /\ r \in Int
  BY <1>1, <1>0
<1> HIDE DEF r
<1>6. Alike(x + (-r), r + (-r))
  BY <1>4, <1>5, Moved
<1>7. x + (-r) = x - r /\ r + (-r) = 0
  BY <1>5
<1>8. Alike(x - r, 0)
  BY <1>6, <1>7
<1> QED
  BY <1>1, <1>3, <1>8 DEF r

(* The signed difference of two counters is the way between the numbers    *)
(* when that is less than half a turn.                                     *)
LEMMA SignedIs ==
  ASSUME NEW d \in Int, NEW e \in (-Half)..(Half - 1), Alike(d, e)
  PROVE  Signed(d) = e
<1>0. M \in Nat \ {0} /\ Half \in Nat \ {0} /\ M = Half + Half
  BY BitsAssumption
<1>1. d % M = e % M
  BY DEF Alike
<1>2. CASE e >= 0
  <2>1. e \in 0..(M - 1) /\ e < Half
    BY <1>0, <1>2
  <2>2. e % M = e
    BY <1>0, <2>1
  <2>3. d % M = e /\ ~(e >= Half)
    BY <1>0, <1>1, <2>1, <2>2
  <2> QED
    BY <2>3, Zenon DEF Signed
<1>3. CASE e < 0
  <2>1. e + M \in 0..(M - 1) /\ e + M >= Half /\ e \in Int
    BY <1>0, <1>3
  <2>2. (e + M) % M = e + M
    BY <1>0, <2>1
  <2>3. (e + M) % M = e % M
    <3> DEFINE q == 1
    <3>1. q \in Int /\ M * q = M
      BY <1>0
    <3> HIDE DEF q
    <3>2. (e + M * q) % M = e % M
      BY <1>0, <2>1, <3>1, Turns
    <3> QED
      BY <3>1, <3>2
  <2>4. e % M = e + M
    BY <1>0, <2>1, <2>2, <2>3
  <2>5. (e + M) - M = e
    BY <1>0, <2>1
  <2> QED
    BY <1>0, <1>1, <2>1, <2>4, <2>5 DEF Signed
<1> QED
  BY <1>0, <1>2, <1>3

-----------------------------------------------------------------------------

(* The streams the source sends in time, and the wrap references.          *)
VA    == Video \cup Audio
Wraps == [reference : Int, behavior : {"ignore", "add", "sub"}]

(* The stamp T = t of program p, unrolled: K is the multiple of M that the *)
(* first stamp leaves out.                                                 *)
U(K, p, t) == t + Clock[p] - K

(* What wrap_timestamp takes from every stamp of a program.                *)
Taken(w) == IF w.behavior = "sub" THEN M ELSE 0

(* A program has a reference once it has been given a stamp; from then on  *)
(* whatever the source may send is after the reference.                    *)
WrapOK(K, p) ==
  \/ pts_wrap[p] = Ignore /\ shift[p] = NoPts
  \/ /\ pts_wrap[p].behavior \in {"add", "sub"}
     /\ shift[p] = Clock[p] - K - Taken(pts_wrap[p])
     /\ pts_wrap[p].reference <= U(K, p, now - Jitter)
     /\ \A s \in VA : pts_wrap[p].reference <= U(K, p, last[s] - Jitter)

(* The input was joined at low: nothing is sent that is much older, nor    *)
(* later than a minute after what the slowest stream sends next.           *)
Core(K, low) ==
  /\ K % M = 0
  /\ \A q \in Programs : U(K, q, low) \in (2 * Jitter + 1)..(2 * M)
  /\ now \in (low - Jitter)..Horizon
  /\ \A s \in VA : /\ last[s] >= low - Jitter - 1
                   /\ now - last[s] + Jitter + TenSec <= Minute
  /\ \A q \in Programs : WrapOK(K, q)

(* base_ts is the stamp of something sent about now.                       *)
Based(K) ==
  \E p \in Programs : \E B \in (now - Jitter)..(now + TenSec) : base_ts = U(K, p, B)

(* No stamp has been seen.                                                 *)
Fresh ==
  /\ base_ts = 0 /\ now \in Start
  /\ last = [s \in VA |-> now - Jitter - 1]
  /\ pts_wrap = [p \in Programs |-> Ignore]
  /\ shift = [p \in Programs |-> NoPts]

Types ==
  /\ base_ts \in Int /\ now \in Int
  /\ pts_wrap \in [Programs -> Wraps]
  /\ cur_dts \in [VA -> Int] /\ last \in [VA -> Int]
  /\ end \in [Audio -> Int] /\ good \in BOOLEAN
  /\ pcr \in [Programs -> Int] /\ shift \in [Programs -> Int]
  /\ \A p \in Programs : pcr[p] = NoPts \/ pcr[p] \in 1..Horizon
  /\ pkt \in [stream : Streams \cup {NoStream}, pts : Int, dts : Int, tpts : Int, tdts : Int]

(* The packet given last is right, and its program has its shift.          *)
Right(x, t) ==
  x # NoPts => /\ pkt.stream \in Streams
               /\ shift[pkt.stream[1]] # NoPts
               /\ x = t + shift[pkt.stream[1]]

PktOK == Right(pkt.dts, pkt.tdts) /\ Right(pkt.pts, pkt.tpts)

(* A frame of sound that has no stamps would be given right.               *)
SoundOK ==
  \A s \in Audio : cur_dts[s] # NoPts =>
    /\ shift[s[1]] # NoPts
    /\ cur_dts[s] = end[s] + shift[s[1]]

(* What holds when the input was joined well.                              *)
WellInv ==
  /\ PktOK /\ SoundOK
  /\ Fresh \/ \E K \in Int, low \in Start : Core(K, low) /\ Based(K)

Inv == Types /\ now <= Horizon /\ (good => WellInv)

-----------------------------------------------------------------------------
(* Operators *)

(* What the assumptions say of the constants. *)
LEMMA Times ==
  /\ M \in Nat \ {0} /\ Half \in Nat \ {0} /\ M = Half + Half
  /\ Minute \in Nat /\ Deadline \in Nat /\ TenSec \in Nat /\ Jitter \in Nat
  /\ Delay \in Nat /\ Gap \in Nat /\ Horizon \in Nat /\ Frame \in Nat
  /\ Clock \in [Programs -> Nat] /\ NoPts \in Int /\ NoPts < -(Horizon + M)
  /\ Deadline <= TenSec
BY BitsAssumption, TimesAssumption

(* Near its base, unroll_timestamp gives the number the counter stands for,*)
(* less the turns the first stamp left out.                                *)
LEMMA Unroll ==
  ASSUME NEW K \in Int, NEW b \in Int, NEW t \in Int, NEW x \in Int,
         b # 0, t # NoPts, Alike(K, 0), Alike(t, x),
         x - K - b \in (-Half)..(Half - 1)
  PROVE  unroll_timestamp(b, t) = x - K
<1> DEFINE e == x - K - b
           n == -b
           z == 0
<1>0. z \in Int /\ z + e = e /\ Alike(K, z) /\ e \in Int /\ n \in Int /\ t + n = t - b /\ x + n = K + e
  OBVIOUS
<1> HIDE DEF e, n, z
<1>1. Alike(t + n, x + n)
  BY <1>0, Moved
<1>2. Alike(K + e, z + e)
  BY <1>0, Moved
<1>4. Alike(t - b, e)
  BY <1>0, <1>1, <1>2 DEF Alike
<1> USE DEF e
<1>5. Signed(t - b) = x - K - b
  BY <1>4, SignedIs
<1>6. unroll_timestamp(b, t) = b + Signed(t - b)
  BY DEF unroll_timestamp
<1> QED
  BY <1>5, <1>6

(* Without a base it gives the counter.                                    *)
LEMMA UnrollFirst ==
  ASSUME NEW t \in Int, t # NoPts
  PROVE  unroll_timestamp(0, t) = t
<1>0. M \in Nat \ {0} /\ Half \in Nat \ {0}
  BY Times
<1>1. t - t = 0 /\ t + 0 = t
  OBVIOUS
<1>2. 0 \in (-Half)..(Half - 1) /\ Alike(0, 0)
  BY <1>0 DEF Alike
<1>3. Signed(0) = 0
  BY <1>2, SignedIs
<1> QED
  BY <1>1, <1>3 DEF unroll_timestamp

(* A program's first stamp fixes the reference, a minute or more before it;*)
(* later ones leave it.                                                    *)
LEMMA Referenced ==
  ASSUME NEW w \in Wraps, NEW d \in Nat,
         w = Ignore \/ (w.behavior \in {"add", "sub"} /\ w.reference <= d)
  PROVE  /\ update_wrap_reference(w, d) \in Wraps
         /\ update_wrap_reference(w, d).behavior \in {"add", "sub"}
         /\ update_wrap_reference(w, d).reference <= d
         /\ w # Ignore => update_wrap_reference(w, d) = w
         /\ w = Ignore => update_wrap_reference(w, d).reference <= d - Minute
<1>0. /\ M \in Nat \ {0} /\ Minute \in Nat /\ d # NoPts
  BY Times
<1>1. d % M \in 0..(M - 1) /\ d % M <= d
  <2>1. d % M \in 0..(M - 1)
    BY <1>0, Remainder
  <2>2. d = M * (d \div M) + (d % M) /\ d \div M \in Int
    BY <1>0, Division, Quotient
  <2> DEFINE r == d % M
             q == d \div M
  <2> HIDE DEF r, q
  <2>3. r \in 0..(M - 1) /\ d = M * q + r /\ q \in Int
    BY <2>1, <2>2 DEF r, q
  <2>4. q >= 0
    BY <1>0, <2>3
  <2>5. M * q >= 0
    BY <1>0, <2>3, <2>4
  <2> QED
    BY <1>0, <2>3, <2>5 DEF r
<1>2. CASE w # Ignore
  BY <1>2 DEF update_wrap_reference
<1>3. CASE w = Ignore
  <2> DEFINE r == d % M
             b == IF r < M - 2^(Bits - 3) \/ r < M - Minute THEN "add" ELSE "sub"
  <2>1. update_wrap_reference(w, d) = [reference |-> r - Minute, behavior |-> b]
    BY <1>0, <1>3, Zenon DEF update_wrap_reference
  <2>2. b \in {"add", "sub"}
    BY Zenon
  <2> HIDE DEF b, r
  <2>3. r \in Int /\ r <= d
    BY <1>0, <1>1 DEF r
  <2> QED
    BY <1>0, <1>3, <2>1, <2>2, <2>3 DEF Wraps
<1> QED
  BY <1>2, <1>3

(* What compute_pkt_fields makes of the stamps p and d of stream s.        *)
Fields(s, p, d) ==
  [pts |-> p, dts |-> d,
   cur |-> IF s \in Audio THEN p + Frame
           ELSE CurDts(IF s \in VA THEN cur_dts[s] ELSE NoPts, d)]

(* A stamp that is not before the reference loses what its program loses,  *)
(* and compute_pkt_fields never finds pts and dts apart.                   *)
LEMMA Wrapped ==
  ASSUME NEW w \in Wraps, NEW p \in Nat, NEW d \in Nat, NEW s, d <= p, s \in Audio => p = d,
         w.behavior \in {"add", "sub"}, w.reference <= d, p - M > NoPts
  PROVE  compute_pkt_fields(s, wrap_timestamp(w, p), wrap_timestamp(w, d))
           = Fields(s, p - Taken(w), d - Taken(w))
<1>0. /\ M \in Nat \ {0} /\ Half \in Nat \ {0} /\ p # NoPts /\ d # NoPts /\ w # Ignore
      /\ w.reference \in Int /\ NoPts \in Int
  BY Times DEF Ignore, Wraps
<1>1. wrap_timestamp(w, p) = p - Taken(w) /\ wrap_timestamp(w, d) = d - Taken(w)
  BY <1>0 DEF wrap_timestamp, Taken
<1>2. Taken(w) \in {0, M}
  BY <1>0 DEF Taken
<1> DEFINE x == p - Taken(w)
           y == d - Taken(w)
<1>3. ~(y - Half > x) /\ x # NoPts /\ (s \in Audio => x = y)
  BY <1>0, <1>2
<1> HIDE DEF x, y
<1>4. ~Apart(x, y)
  BY <1>3 DEF Apart
<1>5. \A cur : Mended(cur, x, y) = <<x, y>> /\ Interpolated(cur, x, y) = x
  BY <1>3, <1>4 DEF Mended, Interpolated
<1>6. compute_pkt_fields(s, x, y) = Fields(s, x, y)
  <2> DEFINE cur == IF s \in Video \cup Audio THEN cur_dts[s] ELSE NoPts
             t == Mended(cur, x, y)
  <2>1. t = <<x, y>> /\ t[1] = x /\ t[2] = y /\ Interpolated(cur, x, y) = x
    BY <1>5
  <2>2. compute_pkt_fields(s, x, y) =
          IF s \in Audio THEN [pts |-> x, dts |-> x, cur |-> x + Frame]
          ELSE [pts |-> x, dts |-> y, cur |-> CurDts(cur, y)]
    <3> HIDE DEF t
    <3>1. compute_pkt_fields(s, x, y) =
            LET e == Interpolated(cur, t[1], t[2])
            IN  IF s \in Audio THEN [pts |-> e, dts |-> e, cur |-> e + Frame]
                ELSE [pts |-> t[1], dts |-> t[2], cur |-> CurDts(cur, t[2])]
      BY Zenon DEF compute_pkt_fields, t
    <3> QED
      BY <2>1, <3>1, Zenon
  <2>3. CASE s \in Audio
    BY <1>3, <2>2, <2>3 DEF Fields
  <2>4. CASE s \notin Audio
    BY <2>2, <2>4 DEF Fields, VA
  <2> QED
    BY <2>3, <2>4
<1> QED
  BY <1>1, <1>6 DEF x, y

-----------------------------------------------------------------------------
(* Steps *)

(* Once its first stamp is unrolled, new_pes_packet unrolls the second, at *)
(* most Delay before it.                                                   *)
LEMMA Pes ==
  ASSUME NEW K \in Int, NEW p \in Programs, NEW tp \in Int, NEW td \in Int,
         NEW rp \in Int, NEW rd \in Int, rp # NoPts, rd # NoPts,
         Alike(K, 0), Alike(rd, td + Clock[p]),
         tp - td \in 0..Delay, U(K, p, tp) # 0,
         unroll_timestamp(base_ts, rp) = U(K, p, tp)
  PROVE  new_pes_packet([pts |-> rp, dts |-> rd]) =
           [pts |-> U(K, p, tp), dts |-> U(K, p, td), base |-> U(K, p, td)]
<1>0. Clock[p] \in Nat /\ Delay < Half /\ Delay \in Nat /\ Half \in Nat
  BY Times, ClocksAssumption
<1> DEFINE x == td + Clock[p]
           b == U(K, p, tp)
<1>1. x \in Int /\ b \in Int /\ x - K - b \in (-Half)..(Half - 1) /\ x - K = U(K, p, td)
  BY <1>0 DEF U
<1>2. b # 0 /\ Alike(rd, x)
  OBVIOUS
<1> HIDE DEF x, b
<1>3. unroll_timestamp(b, rd) = x - K
  BY <1>1, <1>2, Unroll
<1> QED
  BY <1>1, <1>3, Zenon DEF new_pes_packet, b

(* Beside a base that is the stamp of something sent about now, whatever   *)
(* program that was of, a stamp is unrolled to its own number.             *)
LEMMA Beside ==
  ASSUME NEW K \in Int, NEW low \in Start, NEW p \in Programs, NEW tp \in Int, NEW rp \in Int,
         rp # NoPts, Types, Core(K, low), Based(K), Alike(rp, tp + Clock[p]),
         tp >= now - Jitter, tp <= now + Jitter + Delay \/ tp <= now + TenSec
  PROVE  unroll_timestamp(base_ts, rp) = U(K, p, tp)
<1>1. PICK q \in Programs : \E B \in (now - Jitter)..(now + TenSec) : base_ts = U(K, q, B)
  BY DEF Based
<1>2. PICK B \in (now - Jitter)..(now + TenSec) : base_ts = U(K, q, B)
  BY <1>1
<1>3. /\ Clock[p] \in Nat /\ Clock[q] \in Nat /\ Jitter \in Nat /\ TenSec \in Nat /\ Half \in Nat
      /\ Delay \in Nat /\ now \in Int /\ low \in Int
  BY Times, TimesAssumption DEF Types
<1>4. /\ Clock[p] - Clock[q] + 2 * Jitter + Delay < Half
      /\ Clock[p] - Clock[q] + Jitter + TenSec < Half
      /\ Clock[q] - Clock[p] + Jitter + TenSec < Half
  BY ClocksAssumption
<1>5. now >= low - Jitter /\ U(K, q, low) >= 2 * Jitter + 1 /\ Alike(K, 0)
  BY <1>3, Times DEF Core, Alike
<1> DEFINE x == tp + Clock[p]
           b == U(K, q, B)
<1>6. x \in Int /\ b \in Int /\ b # 0 /\ x - K = U(K, p, tp)
  BY <1>3, <1>5 DEF U
<1>7. x - K - b \in (-Half)..(Half - 1)
  BY <1>3, <1>4 DEF U
<1>8. Alike(rp, x)
  OBVIOUS
<1> HIDE DEF x, b
<1>9. unroll_timestamp(b, rp) = x - K
  BY <1>5, <1>6, <1>7, <1>8, Unroll
<1> QED
  BY <1>2, <1>6, <1>9 DEF b

(* Before the first stamp everything is in order for the turns that it     *)
(* would leave out, when the input is joined well.                         *)
LEMMA Joined ==
  ASSUME NEW p \in Programs, NEW tp \in Int, NEW rp \in Int, NEW K \in Int, Types, Fresh,
         K = tp + Clock[p] - rp, Alike(rp, tp + Clock[p]), JoinedWell(p, rp, tp),
         rp <= M - 1 + TenSec, tp >= now - Jitter
  PROVE  Core(K, now) /\ Alike(K, 0)
<1>0. /\ Jitter \in Nat /\ TenSec \in Nat /\ Delay \in Nat /\ Minute \in Nat /\ Horizon \in Nat
      /\ \A q \in Programs : Clock[q] \in Nat
      /\ now \in Start /\ now \in 0..Horizon /\ M \in Nat \ {0} /\ M = Half + Half /\ Half \in Nat
  BY Times, TimesAssumption DEF Fresh
<1>1. Alike(K, 0)
  <2> DEFINE x == tp + Clock[p]
             n == -rp
             z == 0
  <2>1. x \in Int /\ n \in Int /\ z \in Int /\ x + n = K /\ rp + n = z /\ Alike(rp, x)
    BY <1>0
  <2> HIDE DEF x, n, z
  <2>2. Alike(rp + n, x + n)
    BY <2>1, Moved
  <2>3. Alike(z, K)
    BY <2>1, <2>2
  <2> QED
    BY <2>3 DEF Alike, z
<1>2. \A q \in Programs : U(K, q, now) \in (2 * Jitter + 1)..(2 * M)
  <2> SUFFICES ASSUME NEW q \in Programs
               PROVE  U(K, q, now) \in (2 * Jitter + 1)..(2 * M)
    OBVIOUS
  <2>1. U(K, q, now) = rp - (tp - now) + Clock[q] - Clock[p]
    BY <1>0 DEF U
  <2>2. rp - (tp - now) + Clock[q] - Clock[p] > 2 * Jitter
    BY DEF JoinedWell
  <2>3. Clock[q] - Clock[p] + Jitter + TenSec < Half
    BY ClocksAssumption
  <2> QED
    BY <1>0, <2>1, <2>2, <2>3
<1>3. K % M = 0
  BY <1>0, <1>1 DEF Alike
<1>4. \A s \in VA : last[s] = now - Jitter - 1
  BY DEF Fresh
<1>5. \A s \in VA : last[s] >= now - Jitter - 1 /\ now - last[s] + Jitter + TenSec <= Minute
  BY <1>0, <1>4, LateAssumption
<1>6. \A q \in Programs : WrapOK(K, q)
  BY DEF WrapOK, Fresh
<1>7. now \in (now - Jitter)..Horizon
  BY <1>0
<1>8. Core(K, now)
  BY <1>2, <1>3, <1>5, <1>6, <1>7 DEF Core
<1> QED
  BY <1>1, <1>8

(* A counter stands for its number.                                        *)
LEMMA Counts ==
  ASSUME NEW p \in Programs, NEW t \in Int
  PROVE  /\ Counter(p, t) \in 0..(M - 1) /\ Counter(p, t) # NoPts
         /\ Alike(Counter(p, t), t + Clock[p])
<1> DEFINE x == t + Clock[p]
<1>1. x \in Int /\ M \in Nat \ {0} /\ NoPts \in Int /\ NoPts < 0
  BY Times
<1>2. Counter(p, t) = x % M
  BY DEF Counter
<1> HIDE DEF x
<1>3. x % M \in 0..(M - 1) /\ Alike(x % M, x)
  BY <1>1, Rest
<1>4. x % M # NoPts
  BY <1>1, <1>3
<1> QED
  BY <1>2, <1>3, <1>4 DEF x

(* A reference a minute before a stamp is before what is sent l or less    *)
(* before it.                                                              *)
LEMMA Before ==
  ASSUME NEW K \in Int, NEW p \in Programs, NEW ref \in Int, NEW t \in Int, NEW n \in Int,
         NEW l \in Int, ref <= U(K, p, t) - Minute, t <= n + TenSec,
         n - l + Jitter + TenSec <= Minute
  PROVE  ref <= U(K, p, l - Jitter)
BY Times DEF U

(* The same of what is sent at the time itself.                            *)
LEMMA BeforeNow ==
  ASSUME NEW K \in Int, NEW p \in Programs, NEW ref \in Int, NEW t \in Int, NEW n \in Int,
         ref <= U(K, p, t) - Minute, t <= n + TenSec
  PROVE  ref <= U(K, p, n - Jitter)
<1>1. Jitter + TenSec <= Minute
  BY Times, LateAssumption
<1> QED
  BY <1>1, Times DEF U

(* What is sent about n lies in the interval around n.                     *)
LEMMA About ==
  ASSUME NEW n \in Int, NEW t \in Int, t >= n - Jitter, t <= n + TenSec
  PROVE  t \in (n - Jitter)..(n + TenSec)
BY Times

(* A packet whose stamps are unrolled right, and sent about now, is given  *)
(* right, and everything stays in order.                                   *)
LEMMA Give ==
  ASSUME NEW K \in Int, NEW low \in Start, NEW s \in Streams, NEW raw,
         NEW tp \in Int, NEW td \in Int, Types, Core(K, low),
         new_pes_packet(raw) =
           [pts |-> U(K, s[1], tp), dts |-> U(K, s[1], td), base |-> U(K, s[1], td)],
         av_read_frame(s, raw, tp, td), SoundOK, s \in Audio => tp = td,
         end' = [a \in Audio |-> IF a = s THEN td + Frame ELSE end[a]],
         now' \in (low - Jitter)..Horizon, last' \in [VA -> Int],
         \A r \in VA : last'[r] >= last[r] /\ now' - last'[r] + Jitter + TenSec <= Minute,
         now' >= now \/ \E r \in VA : now' > last[r],
         td >= now - Jitter, td >= now' - Jitter, td <= now' + TenSec, td <= tp
  PROVE  Core(K, low)' /\ Based(K)' /\ PktOK' /\ SoundOK'
<1> DEFINE p == s[1]
           ud == U(K, p, td)
           up == U(K, p, tp)
           w == update_wrap_reference(pts_wrap[p], ud)
           x == up - Taken(w)
           y == ud - Taken(w)
<1>0. /\ p \in Programs
      /\ M \in Nat \ {0} /\ Jitter \in Nat /\ TenSec \in Nat /\ Minute \in Nat /\ Horizon \in Nat
      /\ \A q \in Programs : Clock[q] \in Nat
      /\ NoPts \in Int /\ NoPts < -(Horizon + M) /\ low \in 0..Horizon /\ now \in Int
      /\ \A r \in VA : last[r] \in Int /\ last'[r] \in Int
      /\ \A q \in Programs : pts_wrap[q] \in Wraps /\ pts_wrap[q].reference \in Int
  BY Times, TimesAssumption, StreamsAssumption DEF Types, Wraps
<1>1. /\ now \in (low - Jitter)..Horizon
      /\ \A r \in VA : last[r] >= low - Jitter - 1
      /\ \A q \in Programs : U(K, q, low) \in (2 * Jitter + 1)..(2 * M) /\ WrapOK(K, q)
      /\ K % M = 0
  BY DEF Core
<1>2. ud \in Nat /\ up \in Nat /\ ud <= up /\ ud >= 1 /\ up - M > NoPts /\ (s \in Audio => up = ud)
  BY <1>0, <1>1 DEF U
<1>3. pts_wrap[p] = Ignore \/ (pts_wrap[p].behavior \in {"add", "sub"} /\ pts_wrap[p].reference <= ud)
  <2> SUFFICES ASSUME pts_wrap[p] # Ignore
               PROVE  pts_wrap[p].behavior \in {"add", "sub"} /\ pts_wrap[p].reference <= ud
    OBVIOUS
  <2>1. pts_wrap[p].behavior \in {"add", "sub"} /\ pts_wrap[p].reference <= U(K, p, now - Jitter)
    BY <1>0, <1>1 DEF WrapOK
  <2>2. U(K, p, now - Jitter) <= ud /\ U(K, p, now - Jitter) \in Int
    BY <1>0 DEF U
  <2> QED
    BY <1>0, <1>2, <2>1, <2>2
<1>4. /\ w \in Wraps /\ w.behavior \in {"add", "sub"} /\ w.reference <= ud
      /\ pts_wrap[p] # Ignore => w = pts_wrap[p]
      /\ pts_wrap[p] = Ignore => w.reference <= ud - Minute
  <2>1. pts_wrap[p] \in Wraps
    BY <1>0
  <2> HIDE DEF ud
  <2> QED
    BY <1>2, <1>3, <2>1, Referenced
<1> HIDE DEF w
<1>5. compute_pkt_fields(s, wrap_timestamp(w, up), wrap_timestamp(w, ud)) = Fields(s, x, y)
  <2> HIDE DEF ud, up
  <2> QED
    BY <1>2, <1>4, Wrapped
<1>6. Taken(w) \in {0, M} /\ x \in Int /\ y \in Int /\ y > NoPts /\ x > NoPts
  <2>1. Taken(w) \in {0, M}
    BY Zenon DEF Taken
  <2> HIDE DEF ud, up
  <2> QED
    BY <1>0, <1>2, <2>1
<1>7. /\ base_ts' = ud
      /\ pts_wrap' = [pts_wrap EXCEPT ![p] = w]
      /\ cur_dts' = [v \in VA |-> IF v = s THEN Fields(s, x, y).cur ELSE cur_dts[v]]
      /\ pkt' = [stream |-> s, pts |-> x, dts |-> y, tpts |-> tp, tdts |-> td]
      /\ shift' = IF shift[p] # NoPts \/ y = NoPts THEN shift ELSE [shift EXCEPT ![p] = y - td]
  <2> DEFINE c == compute_pkt_fields(s, wrap_timestamp(w, up), wrap_timestamp(w, ud))
  <2>1. c.pts = x /\ c.dts = y /\ c.cur = Fields(s, x, y).cur
    BY <1>5 DEF Fields
  <2>2. ud # NoPts
    BY <1>0, <1>2
  <2>3. /\ new_pes_packet(raw).pts = up /\ new_pes_packet(raw).dts = ud
        /\ new_pes_packet(raw).base = ud
    OBVIOUS
  <2> HIDE DEF x, y, ud, up
  <2>4. Given(s, c, tp, td) /\ base_ts' = ud /\ pts_wrap' = [pts_wrap EXCEPT ![p] = w]
    BY <2>2, <2>3, Zenon DEF av_read_frame, w
  <2> HIDE DEF c
  <2> QED
    BY <2>1, <2>4, Zenon DEF Given, VA
<1>17. low \in Int /\ Jitter \in Nat /\ TenSec \in Nat /\ Horizon \in Nat /\ Minute \in Nat
  BY <1>0
<1>18. now' \in Int
  BY <1>17
<1> HIDE DEF x, y
<1>8. /\ shift'[p] = Clock[p] - K - Taken(w) /\ shift'[p] # NoPts
      /\ shift' \in [Programs -> Int]
      /\ \A q \in Programs : q # p => shift'[q] = shift[q]
  <2>0. shift \in [Programs -> Int] /\ y # NoPts
    BY <1>0, <1>6 DEF Types
  <2>1. Clock[p] - K - Taken(w) \in Int /\ Clock[p] - K - Taken(w) # NoPts
    BY <1>0, <1>1, <1>6 DEF U
  <2>2. y - td = Clock[p] - K - Taken(w)
    BY <1>0, <1>6 DEF U, y
  <2>3. CASE pts_wrap[p] = Ignore
    <3>1. pts_wrap[p].behavior \notin {"add", "sub"}
      BY <2>3 DEF Ignore
    <3>2. shift[p] = NoPts
      BY <1>0, <1>1, <3>1 DEF WrapOK
    <3>3. shift' = [shift EXCEPT ![p] = y - td]
      BY <1>7, <2>0, <3>2
    <3> QED
      BY <1>0, <2>0, <2>1, <2>2, <3>3
  <2>4. CASE pts_wrap[p] # Ignore
    <3>1. shift[p] = Clock[p] - K - Taken(w)
      BY <1>0, <1>1, <1>4, <2>4 DEF WrapOK
    <3>2. shift' = shift
      BY <1>7, <2>1, <3>1
    <3> QED
      BY <2>0, <2>1, <3>1, <3>2
  <2> QED
    BY <2>3, <2>4
<1>9. /\ pts_wrap'[p] = w /\ pts_wrap' \in [Programs -> Wraps]
      /\ \A q \in Programs : q # p => pts_wrap'[q] = pts_wrap[q]
  BY <1>0, <1>4, <1>7 DEF Types
<1>10. ASSUME NEW q \in Programs, NEW ref \in Int, ref <= U(K, q, now - Jitter),
              \A r \in VA : ref <= U(K, q, last[r] - Jitter)
       PROVE  ref <= U(K, q, now' - Jitter) /\ \A r \in VA : ref <= U(K, q, last'[r] - Jitter)
  <2>1. ref <= U(K, q, now' - Jitter)
    BY <1>0, <1>10 DEF U
  <2>2. \A r \in VA : ref <= U(K, q, last'[r] - Jitter)
    BY <1>0, <1>10 DEF U
  <2> QED
    BY <2>1, <2>2
<1>11. ASSUME NEW q \in Programs, pts_wrap[q] # Ignore, pts_wrap'[q] = pts_wrap[q], shift'[q] = shift[q]
       PROVE  WrapOK(K, q)'
  <2> DEFINE v == pts_wrap[q]
  <2>1. /\ v.behavior \in {"add", "sub"} /\ shift[q] = Clock[q] - K - Taken(v)
        /\ v.reference \in Int /\ v.reference <= U(K, q, now - Jitter)
        /\ \A r \in VA : v.reference <= U(K, q, last[r] - Jitter)
    BY <1>0, <1>1, <1>11 DEF WrapOK
  <2>2. /\ v.reference <= U(K, q, now' - Jitter)
        /\ \A r \in VA : v.reference <= U(K, q, last'[r] - Jitter)
    BY <1>10, <2>1
  <2> QED
    BY <1>11, <2>1, <2>2 DEF WrapOK, U, Taken
<1>12. ASSUME NEW q \in Programs
       PROVE  WrapOK(K, q)'
  <2>1. CASE q # p /\ pts_wrap[q] = Ignore
    <3>1. pts_wrap[q].behavior \notin {"add", "sub"}
      BY <2>1 DEF Ignore
    <3>2. shift[q] = NoPts
      BY <1>1, <3>1 DEF WrapOK
    <3> QED
      BY <1>8, <1>9, <2>1, <3>2 DEF WrapOK, Ignore
  <2>2. CASE q # p /\ pts_wrap[q] # Ignore
    BY <1>8, <1>9, <1>11, <2>2
  <2>3. CASE q = p /\ pts_wrap[q] # Ignore
    <3>1. shift[p] = Clock[p] - K - Taken(w)
      BY <1>0, <1>1, <1>4, <2>3 DEF WrapOK
    <3> QED
      BY <1>4, <1>8, <1>9, <1>11, <2>3, <3>1
  <2>4. CASE q = p /\ pts_wrap[q] = Ignore
    <3>1. w.reference \in Int /\ w.reference <= ud - Minute
      BY <1>4, <2>4 DEF Wraps
    <3>2. w.reference <= U(K, p, now' - Jitter)
      BY <1>0, <1>18, <3>1, BeforeNow
    <3>3. ASSUME NEW r \in VA
          PROVE  w.reference <= U(K, p, last'[r] - Jitter)
      <4>2. last'[r] \in Int /\ now' - last'[r] + Jitter + TenSec <= Minute
        BY <1>0
      <4> QED
        BY <1>0, <1>18, <3>1, <4>2, Before
    <3>4. WrapOK(K, p)'
      BY <1>4, <1>8, <1>9, <3>2, <3>3 DEF WrapOK, U, Taken
    <3> QED
      BY <2>4, <3>4
  <2> QED
    BY <2>1, <2>2, <2>3, <2>4
<1>13. Core(K, low)'
  <2>1. \A r \in VA : last'[r] >= low - Jitter - 1
    BY <1>0, <1>1
  <2>2. \A q \in Programs : U(K, q, low)' \in (2 * Jitter + 1)..(2 * M)
    BY <1>1 DEF U
  <2> QED
    BY <1>1, <1>12, <2>1, <2>2 DEF Core
<1>14. Based(K)'
  <2>1. td \in (now' - Jitter)..(now' + TenSec)
    BY <1>18, About
  <2>2. \E q \in Programs : \E B \in (now' - Jitter)..(now' + TenSec) : base_ts' = U(K, q, B)
    BY <1>0, <1>7, <2>1
  <2> QED
    BY <2>2 DEF Based, U
<1>15. PktOK'
  <2>1. y = td + shift'[p] /\ x = tp + shift'[p]
    BY <1>0, <1>6, <1>8 DEF U, x, y
  <2> QED
    BY <1>7, <1>8, <2>1 DEF PktOK, Right
<1>16. SoundOK'
  <2> SUFFICES ASSUME NEW a \in Audio, cur_dts'[a] # NoPts
               PROVE  shift'[a[1]] # NoPts /\ cur_dts'[a] = end'[a] + shift'[a[1]]
    BY DEF SoundOK
  <2>0. a \in VA /\ a[1] \in Programs
    BY StreamsAssumption DEF VA, Streams
  <2>1. CASE a = s
    <3>1. cur_dts'[a] = x + Frame /\ end'[a] = td + Frame
      BY <1>7, <2>0, <2>1 DEF Fields
    <3>2. x = td + shift'[p]
      BY <1>0, <1>6, <1>8, <2>1 DEF U, x
    <3> QED
      BY <1>0, <1>8, <2>1, <3>1, <3>2, Times
  <2>2. CASE a # s
    <3>1. cur_dts'[a] = cur_dts[a] /\ end'[a] = end[a]
      BY <1>7, <2>0, <2>2
    <3>2. shift[a[1]] # NoPts /\ cur_dts[a] = end[a] + shift[a[1]]
      BY <3>1 DEF SoundOK
    <3>3. shift'[a[1]] = shift[a[1]]
      <4>1. CASE a[1] # p
        BY <1>8, <2>0, <4>1
      <4>2. CASE a[1] = p
        BY <1>7, <3>2, <4>2
      <4> QED
        BY <4>1, <4>2
    <3> QED
      BY <3>1, <3>2, <3>3
  <2> QED
    BY <2>1, <2>2
<1> QED
  BY <1>13, <1>14, <1>15, <1>16

(* Whether it is the first stamp of the input or a later one, a stamp of   *)
(* something sent about now is unrolled right.                             *)
LEMMA Ready ==
  ASSUME Types, WellInv, NEW p \in Programs, NEW tp \in Int, NEW rp \in Int, rp # NoPts,
         Alike(rp, tp + Clock[p]), Fresh => JoinedWell(p, rp, tp), rp <= M - 1 + TenSec,
         tp >= now - Jitter, tp <= now + Jitter + Delay \/ tp <= now + TenSec
  PROVE  \E K \in Int, low \in Start :
           /\ Core(K, low) /\ Alike(K, 0) /\ U(K, p, tp) # 0
           /\ unroll_timestamp(base_ts, rp) = U(K, p, tp)
<1>0. /\ now \in Int /\ Jitter \in Nat /\ M \in Nat /\ Clock[p] \in Nat
  BY Times DEF Types
<1>1. CASE Fresh
  <2> DEFINE K == tp + Clock[p] - rp
  <2>1. K \in Int /\ U(K, p, tp) = rp
    BY <1>0 DEF U
  <2>2. JoinedWell(p, rp, tp) /\ now \in Start /\ base_ts = 0
    BY <1>1 DEF Fresh
  <2> HIDE DEF K
  <2>3. Core(K, now) /\ Alike(K, 0)
    BY <1>0, <1>1, <2>1, <2>2, Joined DEF K
  <2>4. rp # 0
    <3>1. rp - (tp - now) + Clock[p] - Clock[p] > 2 * Jitter
      BY <2>2 DEF JoinedWell
    <3> QED
      BY <1>0, <3>1
  <2>5. unroll_timestamp(base_ts, rp) = rp
    BY <2>2, UnrollFirst
  <2> QED
    BY <2>1, <2>2, <2>3, <2>4, <2>5
<1>2. CASE ~Fresh
  <2>1. PICK K \in Int, low \in Start : Core(K, low) /\ Based(K)
    BY <1>2 DEF WellInv
  <2>2. unroll_timestamp(base_ts, rp) = U(K, p, tp)
    BY <1>0, <2>1, Beside
  <2>3. Alike(K, 0)
    BY <2>1, Times DEF Core, Alike
  <2>4. low \in Int /\ now >= low - Jitter /\ U(K, p, low) >= 2 * Jitter + 1
    BY <1>0, <2>1, Times, TimesAssumption DEF Core
  <2>5. U(K, p, tp) # 0
    BY <1>0, <2>4 DEF U
  <2> QED
    BY <2>1, <2>2, <2>3, <2>5
<1> QED
  BY <1>1, <1>2

(* unroll_timestamp, wrap_timestamp and compute_pkt_fields give numbers.   *)
LEMMA UnrollInt ==
  ASSUME NEW b \in Int, NEW t \in Int
  PROVE  unroll_timestamp(b, t) \in Int
<1>1. ASSUME NEW d \in Int PROVE Signed(d) \in Int
  <2>1. d % M \in 0..(M - 1) /\ M \in Nat \ {0}
    BY Times, Remainder
  <2> QED
    BY <2>1 DEF Signed
<1>2. t - t \in Int /\ t - b \in Int
  OBVIOUS
<1>3. Signed(t - t) \in Int /\ Signed(t - b) \in Int
  BY <1>1, <1>2
<1> QED
  BY <1>3 DEF unroll_timestamp

LEMMA FieldsInt ==
  ASSUME Types, NEW s, NEW x \in Int, NEW y \in Int
  PROVE  /\ compute_pkt_fields(s, x, y).pts \in Int
         /\ compute_pkt_fields(s, x, y).dts \in Int
         /\ compute_pkt_fields(s, x, y).cur \in Int
<1> DEFINE cur == IF s \in Video \cup Audio THEN cur_dts[s] ELSE NoPts
           w == Mended(cur, x, y)
           t == Interpolated(cur, w[1], w[2])
<1>1. cur \in Int /\ M \in Int /\ Frame \in Int
  BY Times DEF Types, VA
<1> HIDE DEF cur
<1>2. w[1] \in Int /\ w[2] \in Int
  BY <1>1 DEF Mended
<1> HIDE DEF w
<1>3. t \in Int /\ CurDts(cur, w[2]) \in Int
  BY <1>1, <1>2 DEF Interpolated, CurDts
<1> HIDE DEF t
<1>4. t + Frame \in Int
  BY <1>1, <1>3
<1>5. compute_pkt_fields(s, x, y) =
        IF s \in Audio THEN [pts |-> t, dts |-> t, cur |-> t + Frame]
        ELSE [pts |-> w[1], dts |-> w[2], cur |-> CurDts(cur, w[2])]
  BY Zenon DEF compute_pkt_fields, cur, w, t
<1> QED
  BY <1>2, <1>3, <1>4, <1>5

(* Whatever is sent, and however the input was joined, a packet leaves     *)
(* everything of its type.                                                 *)
LEMMA GivenTypes ==
  ASSUME Types, NEW s \in Streams, NEW x \in Int, NEW y \in Int, NEW tp \in Int, NEW td \in Int,
         Given(s, compute_pkt_fields(s, x, y), tp, td)
  PROVE  /\ cur_dts' \in [VA -> Int] /\ shift' \in [Programs -> Int]
         /\ pkt' \in [stream : Streams \cup {NoStream}, pts : Int, dts : Int, tpts : Int, tdts : Int]
         /\ pkt'.stream = s /\ pkt'.tdts = td
<1> DEFINE c == compute_pkt_fields(s, x, y)
<1>1. c.pts \in Int /\ c.dts \in Int /\ c.cur \in Int
  BY FieldsInt
<1> HIDE DEF c
<1>2. Given(s, c, tp, td)
  BY DEF c
<1>3. /\ cur_dts' = [v \in VA |-> IF v = s THEN c.cur ELSE cur_dts[v]]
      /\ pkt' = [stream |-> s, pts |-> c.pts, dts |-> c.dts, tpts |-> tp, tdts |-> td]
      /\ shift' = shift \/ shift' = [shift EXCEPT ![s[1]] = c.dts - td]
  BY <1>2, Zenon DEF Given, VA
<1>4. cur_dts \in [VA -> Int] /\ shift \in [Programs -> Int] /\ c.dts - td \in Int
  BY <1>1 DEF Types
<1>5. cur_dts' \in [VA -> Int]
  BY <1>1, <1>3, <1>4
<1>6. shift' \in [Programs -> Int]
  BY <1>3, <1>4
<1>7. pkt'.stream = s /\ pkt'.tdts = td
  BY <1>3
<1>8. pkt' \in [stream : Streams \cup {NoStream}, pts : Int, dts : Int, tpts : Int, tdts : Int]
  BY <1>1, <1>3
<1> QED
  BY <1>5, <1>6, <1>7, <1>8

LEMMA Typed ==
  ASSUME Types, NEW s \in Streams, NEW rp \in Int, NEW rd \in Int, NEW tp \in Int, NEW td \in Int,
         av_read_frame(s, [pts |-> rp, dts |-> rd], tp, td),
         now' \in Int, last' \in [VA -> Int], end' \in [Audio -> Int], pcr' = pcr
  PROVE  Types' /\ (good' => good) /\ pkt'.stream = s /\ pkt'.tdts = td
<1> DEFINE p == s[1]
           raw == [pts |-> rp, dts |-> rd]
           u == new_pes_packet(raw)
           ref == IF u.dts = NoPts THEN u.pts ELSE u.dts
           w == update_wrap_reference(pts_wrap[p], ref)
           x == wrap_timestamp(w, u.pts)
           y == wrap_timestamp(w, u.dts)
<1>0. /\ p \in Programs /\ base_ts \in Int /\ NoPts \in Int /\ M \in Nat \ {0} /\ Minute \in Int
      /\ pts_wrap[p] \in Wraps
  BY Times, StreamsAssumption DEF Types
<1>1. u.pts \in Int /\ u.dts \in Int /\ u.base \in Int
  <2> DEFINE b1 == unroll_timestamp(base_ts, rp)
             b2 == unroll_timestamp(b1, rd)
  <2>1. b1 \in Int
    BY <1>0, UnrollInt
  <2> HIDE DEF b1
  <2>2. b2 \in Int
    BY <2>1, UnrollInt
  <2> HIDE DEF b2
  <2>3. u = [pts |-> IF raw.pts = NoPts THEN NoPts ELSE b1,
             dts |-> IF raw.dts = NoPts THEN NoPts ELSE b2, base |-> b2]
    BY Zenon DEF new_pes_packet, b1, b2
  <2> QED
    BY <1>0, <2>1, <2>2, <2>3
<1>2. /\ base_ts' = u.base
      /\ pts_wrap' = [pts_wrap EXCEPT ![p] = w]
      /\ good' = (good /\ (base_ts = 0 /\ u.pts # NoPts => JoinedWell(p, u.pts, tp)))
      /\ Given(s, compute_pkt_fields(s, x, y), tp, td)
  BY Zenon DEF av_read_frame
<1> HIDE DEF u
<1>3. w \in Wraps
  <2>1. ref \in Int
    BY <1>1
  <2> HIDE DEF ref
  <2>3. ref % M \in 0..(M - 1)
    BY <1>0, <2>1, Remainder
  <2>2. ref % M \in Int
    BY <1>0, <2>3
  <2> QED
    BY <1>0, <2>1, <2>2 DEF update_wrap_reference, Wraps
<1> HIDE DEF w
<1>4. x \in Int /\ y \in Int
  BY <1>0, <1>1, <1>3 DEF wrap_timestamp
<1> HIDE DEF x, y
<1>5. /\ cur_dts' \in [VA -> Int] /\ shift' \in [Programs -> Int]
      /\ pkt' \in [stream : Streams \cup {NoStream}, pts : Int, dts : Int, tpts : Int, tdts : Int]
      /\ pkt'.stream = s /\ pkt'.tdts = td
  BY <1>2, <1>4, GivenTypes
<1>6. good' \in BOOLEAN /\ (good' => good)
  BY <1>2, Zenon
<1>7. pts_wrap' \in [Programs -> Wraps] /\ base_ts' \in Int
  BY <1>1, <1>2, <1>3 DEF Types
<1> QED
  BY <1>5, <1>6, <1>7 DEF Types

(* Such a packet keeps the invariant.                                      *)
LEMMA Sent ==
  ASSUME Inv, NEW s \in Streams, NEW tp \in Int, NEW td \in Int, NEW rp \in Int, NEW rd \in Int,
         rp # NoPts, rd # NoPts, rp <= M - 1 + TenSec,
         Alike(rp, tp + Clock[s[1]]), Alike(rd, td + Clock[s[1]]),
         tp - td \in 0..Delay, td >= now - Jitter, s \in Audio => tp = td,
         tp <= now + Jitter + Delay \/ tp <= now + TenSec,
         av_read_frame(s, [pts |-> rp, dts |-> rd], tp, td),
         end' = [a \in Audio |-> IF a = s THEN td + Frame ELSE end[a]],
         now' \in Int, now' <= Horizon, last' \in [VA -> Int],
         good => \A r \in VA : last'[r] >= last[r] /\ now' - last'[r] + Jitter + TenSec <= Minute,
         now' >= now \/ \E r \in VA : now' > last[r],
         td >= now' - Jitter, td <= now' + TenSec, pcr' = pcr
  PROVE  Inv' /\ pkt'.stream = s /\ pkt'.tdts = td /\ (good' => good)
<1> DEFINE p == s[1]
           raw == [pts |-> rp, dts |-> rd]
<1>0. /\ Types /\ now \in Int /\ Jitter \in Nat /\ p \in Programs /\ Delay \in Nat
      /\ \A r \in VA : last[r] \in Int
      /\ Frame \in Nat /\ end \in [Audio -> Int]
  BY Times, StreamsAssumption DEF Inv, Types
<1>1. td <= tp /\ tp >= now - Jitter /\ end' \in [Audio -> Int]
  BY <1>0
<1>7. Types' /\ (good' => good) /\ pkt'.stream = s /\ pkt'.tdts = td
  BY <1>0, <1>1, Typed
<1> SUFFICES ASSUME good' PROVE WellInv'
  BY <1>7 DEF Inv
<1>8. good /\ WellInv
  BY <1>7 DEF Inv
<1>9. Fresh => JoinedWell(p, rp, tp)
  <2> SUFFICES ASSUME Fresh PROVE JoinedWell(p, rp, tp)
    OBVIOUS
  <2>1. base_ts = 0 /\ unroll_timestamp(base_ts, rp) = rp
    BY UnrollFirst DEF Fresh
  <2>2. new_pes_packet(raw).pts = rp
    BY <2>1 DEF new_pes_packet
  <2> HIDE DEF raw
  <2>3. av_read_frame(s, raw, tp, td)
    BY DEF raw
  <2> DEFINE u == new_pes_packet(raw)
  <2> HIDE DEF u
  <2>4. good' = (good /\ (base_ts = 0 /\ u.pts # NoPts => JoinedWell(p, u.pts, tp)))
    BY <2>3, Zenon DEF av_read_frame, u
  <2>5. u.pts = rp
    BY <2>2 DEF u
  <2> QED
    BY <2>1, <2>4, <2>5, Zenon
<1>2. PICK K \in Int, low \in Start :
        /\ Core(K, low) /\ Alike(K, 0) /\ U(K, p, tp) # 0
        /\ unroll_timestamp(base_ts, rp) = U(K, p, tp)
  BY <1>0, <1>1, <1>8, <1>9, Ready
<1>3. new_pes_packet(raw) = [pts |-> U(K, p, tp), dts |-> U(K, p, td), base |-> U(K, p, td)]
  BY <1>0, <1>2, Pes
<1>4. now' \in (low - Jitter)..Horizon
  <2>1. low \in Int /\ Horizon \in Int /\ now >= low - Jitter /\ \A r \in VA : last[r] >= low - Jitter - 1
    BY <1>0, <1>2, Times, TimesAssumption DEF Core
  <2>2. now' >= low - Jitter
    BY <1>0, <2>1
  <2> QED
    BY <1>0, <2>1, <2>2
<1> HIDE DEF raw
<1>5. av_read_frame(s, raw, tp, td) /\ SoundOK
  BY <1>8 DEF raw, WellInv
<1>10. \A r \in VA : last'[r] >= last[r] /\ now' - last'[r] + Jitter + TenSec <= Minute
  BY <1>8
<1>6. Core(K, low)' /\ Based(K)' /\ PktOK' /\ SoundOK'
  BY <1>0, <1>1, <1>2, <1>3, <1>4, <1>5, <1>10, Give
<1> QED
  BY <1>6 DEF WellInv

-----------------------------------------------------------------------------
(* Actions *)

(* The next picture or sound.                                              *)
LEMMA PacketStep ==
  ASSUME Inv, NEW s \in Video \cup Audio, NEW t \in Near, NEW d \in 0..Delay, Packet(s, t, d)
  PROVE  Inv' /\ pkt'.stream = s
<1>0. /\ Frame \in Nat /\ Jitter \in Nat /\ Delay \in Nat /\ TenSec \in Nat /\ Gap \in Nat /\ Horizon \in Nat
      /\ Minute \in Nat /\ now \in Int /\ s \in Streams /\ s[1] \in Programs
      /\ last \in [VA -> Int] /\ s \in VA
  BY Times, StreamsAssumption DEF Inv, Types, VA, Streams
<1>1. t \in Int /\ d \in Int /\ t >= now - Jitter /\ t <= now + Jitter /\ t <= Horizon
  BY <1>0 DEF Near, Packet
<1> DEFINE rp == Counter(s[1], t + d)
           rd == Counter(s[1], t)
           tp == t + d
<1>2. /\ av_read_frame(s, [pts |-> rp, dts |-> rd], tp, t)
      /\ now' = t /\ last' = [last EXCEPT ![s] = t] /\ pcr' = pcr /\ t > last[s]
      /\ end' = [a \in Audio |-> IF a = s THEN t + Frame ELSE end[a]]
      /\ s \in Audio => d = 0
      /\ \A r \in VA : r # s => t - last[r] <= Gap
  BY DEF Packet, VA
<1>3. tp \in Int /\ tp - t \in 0..Delay /\ tp <= now + Jitter + Delay /\ (s \in Audio => tp = t)
  BY <1>0, <1>1, <1>2
<1>5. /\ rp \in 0..(M - 1) /\ rp # NoPts /\ Alike(rp, tp + Clock[s[1]])
      /\ rd \in 0..(M - 1) /\ rd # NoPts /\ Alike(rd, t + Clock[s[1]])
  <2> HIDE DEF tp
  <2>1. rp = Counter(s[1], tp)
    BY DEF tp
  <2> QED
    BY <1>0, <1>1, <1>3, <2>1, Counts
<1>6. rp \in Int /\ rd \in Int /\ rp <= M - 1 + TenSec
  BY <1>5, Times
<1>7. last' \in [VA -> Int]
  BY <1>0, <1>1, <1>2
<1>8. \A r \in VA : last'[r] >= last[r] /\ now' - last'[r] + Jitter + TenSec <= Minute
  <2> SUFFICES ASSUME NEW r \in VA
               PROVE  last'[r] >= last[r] /\ now' - last'[r] + Jitter + TenSec <= Minute
    OBVIOUS
  <2>1. Jitter + TenSec + Gap <= Minute
    BY <1>0, LateAssumption
  <2>2. CASE r = s
    <3>1. last'[r] = t
      BY <1>0, <1>2, <2>2
    <3> QED
      BY <1>0, <1>1, <1>2, <2>1, <2>2, <3>1
  <2>3. CASE r # s
    <3>1. last'[r] = last[r] /\ last[r] \in Int
      BY <1>0, <1>2, <2>3
    <3> QED
      BY <1>0, <1>1, <1>2, <2>1, <2>3, <3>1
  <2> QED
    BY <2>2, <2>3
<1>9. now' \in Int /\ now' <= Horizon /\ t >= now' - Jitter /\ t <= now' + TenSec
  BY <1>0, <1>1, <1>2
<1>10. now' >= now \/ \E r \in VA : now' > last[r]
  BY <1>0, <1>2
<1> HIDE DEF rp, rd, tp
<1> QED
  BY <1>0, <1>1, <1>2, <1>3, <1>5, <1>6, <1>7, <1>8, <1>9, <1>10, Sent

(* The latest a subtitle is given after the clock of its program.          *)
Latest(s) == IF s \in DvbSub THEN TenSec ELSE Deadline

(* fix_teletext_pts leaves the stamp near the clock.                       *)
LEMMA Fixed ==
  ASSUME NEW s \in Teletext \cup DvbSub, NEW x \in Int, NEW c \in Int
  PROVE  /\ fix_teletext_pts(s, x, c) \in Int
         /\ fix_teletext_pts(s, x, c) - c \in 0..Latest(s)
<1>0. Deadline \in Nat /\ TenSec \in Nat /\ Deadline <= TenSec
  BY Times
<1>1. CASE x = NoPts \/ x < c
  <2>1. fix_teletext_pts(s, x, c) = c
    BY <1>1 DEF fix_teletext_pts
  <2> QED
    BY <1>0, <2>1 DEF Latest
<1>2. CASE ~(x = NoPts \/ x < c)
  BY <1>0, <1>2 DEF fix_teletext_pts, Latest
<1> QED
  BY <1>1, <1>2

(* A subtitle.                                                             *)
LEMMA SubtitleStep ==
  ASSUME Inv, NEW s \in Teletext \cup DvbSub, NEW t \in SubTimes(s[1]) \cup {NoPts}, Subtitle(s, t)
  PROVE  Inv' /\ pkt'.tdts - pcr[s[1]] \in 0..Latest(s) /\ pkt'.stream = s
<1> DEFINE p == s[1]
           P == pcr[p]
           c == Counter(p, P)
           x == IF t = NoPts THEN NoPts ELSE Counter(p, t)
           dt == fix_teletext_pts(s, x, c)
           tr == P + Signed(dt - c)
<1>0. /\ Jitter \in Nat /\ Delay \in Nat /\ TenSec \in Nat /\ Deadline \in Nat /\ Half \in Nat /\ Horizon \in Nat
      /\ Minute \in Nat /\ now \in Int /\ s \in Streams /\ p \in Programs /\ NoPts \in Int /\ NoPts < 0
      /\ last \in [VA -> Int] /\ M \in Nat \ {0} /\ P \in Int /\ Clock[p] \in Nat /\ Deadline <= TenSec
      /\ now <= Horizon
  BY Times, StreamsAssumption DEF Inv, Types, Streams
<1>1. /\ P \in (now - Jitter)..now /\ av_read_frame(s, [pts |-> dt, dts |-> dt], tr, tr)
      /\ now' = now /\ last' = last /\ pcr' = pcr /\ end' = end
  BY Zenon DEF Subtitle
<1>2. c \in 0..(M - 1) /\ Alike(c, P + Clock[p])
  BY <1>0, Counts
<1>3. x \in Int
  <2>1. CASE t = NoPts
    BY <1>0, <2>1
  <2>2. CASE t # NoPts
    <3>1. t \in Int
      BY <1>0, <2>2 DEF SubTimes
    <3>2. Counter(p, t) \in 0..(M - 1)
      BY <1>0, <3>1, Counts
    <3> QED
      BY <1>0, <2>2, <3>2
  <2> QED
    BY <2>1, <2>2
<1>4. c \in Int
  BY <1>0, <1>2
<1> HIDE DEF c, x, P
<1>5. dt \in Int /\ dt - c \in 0..Latest(s)
  BY <1>3, <1>4, Fixed
<1> DEFINE e == dt - c
<1> HIDE DEF dt
<1>6. e \in Int /\ e >= 0 /\ e <= TenSec /\ TenSec < Half /\ e \in (-Half)..(Half - 1) /\ dt = c + e
  <2>1. TenSec < Half
    BY <1>0, ClocksAssumption
  <2>2. Latest(s) \in Int /\ Latest(s) <= TenSec
    BY <1>0 DEF Latest
  <2> QED
    BY <1>0, <1>4, <1>5, <2>1, <2>2
<1>7. Signed(e) = e
  BY <1>6, SignedIs DEF Alike
<1>8. tr = P + e
  BY <1>7
<1> HIDE DEF tr
<1>9. /\ tr \in Int /\ tr >= now - Jitter /\ tr <= now + TenSec /\ tr - tr \in 0..Delay
      /\ dt # NoPts /\ P >= now - Jitter /\ P <= now
      /\ dt <= M - 1 + TenSec
  BY <1>0, <1>1, <1>2, <1>6, <1>8
<1>10. Alike(dt, tr + Clock[p])
  <2> DEFINE y == P + Clock[p]
  <2>1. y \in Int /\ y + e = tr + Clock[p]
    BY <1>0, <1>6, <1>8
  <2>2. Alike(c, y)
    BY <1>2
  <2> HIDE DEF y, e
  <2>3. Alike(c + e, y + e)
    BY <1>4, <1>6, <2>1, <2>2, Moved
  <2> QED
    BY <1>6, <2>1, <2>3
<1>12. /\ now' \in Int /\ now' <= Horizon /\ last' \in [VA -> Int] /\ now' >= now
       /\ tr >= now' - Jitter /\ tr <= now' + TenSec
  BY <1>0, <1>1, <1>9
<1>13. good => \A r \in VA : last[r] >= last[r] /\ now - last[r] + Jitter + TenSec <= Minute
  <2> SUFFICES ASSUME good
               PROVE  \A r \in VA : last[r] >= last[r] /\ now - last[r] + Jitter + TenSec <= Minute
    OBVIOUS
  <2>1. CASE Fresh
    BY <1>0, <2>1, LateAssumption DEF Fresh
  <2>2. CASE ~Fresh
    BY <1>0, <2>2 DEF Inv, WellInv, Core
  <2> QED
    BY <2>1, <2>2
<1>14. good => \A r \in VA : last'[r] >= last[r] /\ now' - last'[r] + Jitter + TenSec <= Minute
  BY <1>1, <1>13
<1>18. s \notin Audio /\ end' = [a \in Audio |-> IF a = s THEN tr + Frame ELSE end[a]]
  <2>1. s \notin Audio
    BY StreamsAssumption
  <2>2. end \in [Audio -> Int]
    BY DEF Inv, Types
  <2> QED
    BY <1>1, <2>1, <2>2
<1> HIDE DEF e
<1>15. Inv' /\ pkt'.stream = s /\ pkt'.tdts = tr
  BY <1>0, <1>1, <1>5, <1>9, <1>10, <1>12, <1>14, <1>18, Sent
<1>17. tr - P = e
  BY <1>0, <1>6, <1>8 DEF e
<1> QED
  BY <1>5, <1>15, <1>17 DEF P, e

(* What WellInv says of the past it keeps saying when none of it changes.  *)
LEMMA Kept ==
  ASSUME WellInv, PktOK', SoundOK',
         UNCHANGED <<base_ts, pts_wrap, now, last, shift>>
  PROVE  WellInv'
<1>1. Fresh => Fresh'
  BY DEF Fresh
<1>2. \A K, low : Core(K, low) => Core(K, low)'
  BY DEF Core, WrapOK, U, Taken
<1>3. \A K : Based(K) => Based(K)'
  BY DEF Based, U
<1> QED
  BY <1>1, <1>2, <1>3 DEF WellInv

(* A packet without stamps changes nothing but the packet given.           *)
LEMMA UnstampedStep ==
  ASSUME Inv, NEW s \in Streams, s \notin Audio, Unstamped(s)
  PROVE  Inv' /\ pkt'.dts = NoPts
<1> DEFINE p == s[1]
           raw == [pts |-> NoPts, dts |-> NoPts]
           cur == IF s \in Video \cup Audio THEN cur_dts[s] ELSE NoPts
           w == Mended(cur, NoPts, NoPts)
<1>0. /\ p \in Programs /\ NoPts \in Int /\ Types /\ av_read_frame(s, raw, NoPts, NoPts)
      /\ now' = now /\ last' = last /\ pcr' = pcr /\ end' = end
  BY Times, StreamsAssumption DEF Inv, Unstamped
<1>1. new_pes_packet(raw) = [pts |-> NoPts, dts |-> NoPts, base |-> base_ts]
  BY DEF new_pes_packet, unroll_timestamp
<1>2. update_wrap_reference(pts_wrap[p], NoPts) = pts_wrap[p]
  BY DEF update_wrap_reference
<1>3. wrap_timestamp(pts_wrap[p], NoPts) = NoPts
  BY DEF wrap_timestamp
<1>4. compute_pkt_fields(s, NoPts, NoPts) = [pts |-> NoPts, dts |-> NoPts, cur |-> cur]
  <2>1. w[1] = NoPts /\ w[2] = NoPts /\ CurDts(cur, NoPts) = cur
    BY DEF Mended, Apart, CurDts
  <2> HIDE DEF w, cur
  <2>2. compute_pkt_fields(s, NoPts, NoPts) = [pts |-> w[1], dts |-> w[2], cur |-> CurDts(cur, w[2])]
    BY Zenon DEF compute_pkt_fields, w, cur
  <2> QED
    BY <2>1, <2>2
<1>5. /\ base_ts' = base_ts /\ pts_wrap' = [pts_wrap EXCEPT ![p] = pts_wrap[p]]
      /\ Given(s, compute_pkt_fields(s, NoPts, NoPts), NoPts, NoPts)
  <2> DEFINE u == new_pes_packet(raw)
  <2>1. u.pts = NoPts /\ u.dts = NoPts /\ u.base = base_ts
    BY <1>1
  <2> HIDE DEF raw
  <2> QED
    BY <1>0, <1>2, <1>3, <2>1, Zenon DEF av_read_frame
<1>6. Types' /\ (good' => good)
  BY <1>0, Typed DEF Types
<1>7. /\ pts_wrap' = pts_wrap /\ shift' = shift
      /\ cur_dts' = [v \in Video \cup Audio |-> IF v = s THEN cur ELSE cur_dts[v]]
      /\ pkt' = [stream |-> s, pts |-> NoPts, dts |-> NoPts, tpts |-> NoPts, tdts |-> NoPts]
  <2> DEFINE c == compute_pkt_fields(s, NoPts, NoPts)
  <2>1. c.pts = NoPts /\ c.dts = NoPts /\ c.cur = cur
    BY <1>4
  <2>2. pts_wrap' = pts_wrap
    BY <1>0, <1>5 DEF Types
  <2> HIDE DEF c, cur
  <2>3. Given(s, c, NoPts, NoPts)
    BY <1>5 DEF c
  <2> QED
    BY <2>1, <2>2, <2>3, Zenon DEF Given
<1>8. cur_dts' = cur_dts
  BY <1>0, <1>7 DEF Types, VA
<1>9. PktOK'
  BY <1>7 DEF PktOK, Right
<1>10. SoundOK => SoundOK'
  BY <1>0, <1>7, <1>8 DEF SoundOK
<1>11. good' => WellInv'
  <2> SUFFICES ASSUME good' PROVE WellInv'
    OBVIOUS
  <2>1. WellInv /\ SoundOK
    BY <1>6 DEF Inv, WellInv
  <2> QED
    BY <1>0, <1>5, <1>7, <1>9, <1>10, <2>1, Kept
<1> QED
  BY <1>0, <1>6, <1>7, <1>11 DEF Inv

(* Another frame of sound of the same PES packet.                          *)
LEMMA SoundStep ==
  ASSUME Inv, NEW s \in Audio, Sound(s)
  PROVE  Inv' /\ pkt'.stream = s
<1> DEFINE cur == cur_dts[s]
           w == Mended(cur, NoPts, NoPts)
<1>0. /\ s \in Streams /\ s \in VA /\ s[1] \in Programs /\ NoPts \in Int /\ Types /\ Frame \in Nat
      /\ cur # NoPts /\ cur \in Int /\ end[s] \in Int
      /\ Given(s, compute_pkt_fields(s, NoPts, NoPts), end[s], end[s])
      /\ end' = [end EXCEPT ![s] = @ + Frame]
      /\ UNCHANGED <<base_ts, pts_wrap, now, last, pcr, good>>
  BY Times, StreamsAssumption DEF Inv, Sound, Types, Streams, VA
<1>1. compute_pkt_fields(s, NoPts, NoPts) = [pts |-> cur, dts |-> cur, cur |-> cur + Frame]
  <2> DEFINE t == Interpolated(cur, w[1], w[2])
  <2>1. w[1] = NoPts /\ w[2] = NoPts
    BY DEF Mended, Apart
  <2> HIDE DEF w
  <2>2. t = cur
    BY <2>1 DEF Interpolated
  <2> HIDE DEF t
  <2>3. s \in Video \cup Audio
    OBVIOUS
  <2>4. compute_pkt_fields(s, NoPts, NoPts) = [pts |-> t, dts |-> t, cur |-> t + Frame]
    BY <2>3, Zenon DEF compute_pkt_fields, w, t
  <2> QED
    BY <2>2, <2>4
<1>2. /\ cur_dts' \in [VA -> Int] /\ shift' \in [Programs -> Int]
      /\ pkt' \in [stream : Streams \cup {NoStream}, pts : Int, dts : Int, tpts : Int, tdts : Int]
      /\ pkt'.stream = s
  BY <1>0, GivenTypes
<1>3. end' \in [Audio -> Int]
  BY <1>0 DEF Types
<1>4. Types'
  BY <1>0, <1>2, <1>3 DEF Types
<1>5. /\ cur_dts' = [v \in VA |-> IF v = s THEN cur + Frame ELSE cur_dts[v]]
      /\ pkt' = [stream |-> s, pts |-> cur, dts |-> cur, tpts |-> end[s], tdts |-> end[s]]
      /\ shift[s[1]] # NoPts => shift' = shift
  <2> DEFINE c == compute_pkt_fields(s, NoPts, NoPts)
  <2>1. c.pts = cur /\ c.dts = cur /\ c.cur = cur + Frame
    BY <1>1
  <2> HIDE DEF c, cur
  <2>2. Given(s, c, end[s], end[s])
    BY <1>0 DEF c
  <2> QED
    BY <2>1, <2>2, Zenon DEF Given, VA
<1>6. ASSUME good PROVE WellInv'
  <2>1. WellInv /\ SoundOK
    BY <1>6 DEF Inv, WellInv
  <2>2. shift[s[1]] # NoPts /\ cur = end[s] + shift[s[1]] /\ shift' = shift
    BY <1>0, <1>5, <2>1 DEF SoundOK
  <2>3. PktOK'
    BY <1>0, <1>5, <2>2 DEF PktOK, Right
  <2>4. SoundOK'
    <3> SUFFICES ASSUME NEW a \in Audio, cur_dts'[a] # NoPts
                 PROVE  shift[a[1]] # NoPts /\ cur_dts'[a] = end'[a] + shift[a[1]]
      BY <2>2 DEF SoundOK
    <3>0. a \in VA /\ shift[s[1]] \in Int
      BY <1>0 DEF VA, Types
    <3>1. CASE a = s
      <4>1. cur_dts'[a] = cur + Frame /\ end'[a] = end[s] + Frame
        BY <1>0, <1>5, <3>0, <3>1 DEF Types
      <4> HIDE DEF cur
      <4> QED
        BY <1>0, <2>2, <3>0, <3>1, <4>1
    <3>2. CASE a # s
      <4>1. cur_dts'[a] = cur_dts[a] /\ end'[a] = end[a]
        BY <1>0, <1>5, <3>0, <3>2 DEF Types
      <4> QED
        BY <2>1, <4>1 DEF SoundOK
    <3> QED
      BY <3>1, <3>2
  <2> QED
    BY <1>0, <2>1, <2>2, <2>3, <2>4, Kept
<1> QED
  BY <1>0, <1>2, <1>4, <1>6 DEF Inv

(* The clock of a program moves on.                                        *)
LEMMA PcrStep ==
  ASSUME Inv, NEW p \in Programs, NEW t \in (now - Jitter)..now, Pcr(p, t)
  PROVE  Inv'
<1>0. Jitter \in Nat /\ Horizon \in Nat /\ now \in Int /\ now <= Horizon
  BY Times DEF Inv, Types
<1>1. t \in 1..Horizon
  BY <1>0 DEF Pcr
<1>2. /\ pcr' = [pcr EXCEPT ![p] = t]
      /\ UNCHANGED <<base_ts, pts_wrap, cur_dts, now, last, end, pkt, shift, good>>
  BY DEF Pcr
<1>3. Types'
  BY <1>1, <1>2 DEF Inv, Types
<1>4. PktOK => PktOK'
  BY <1>2 DEF PktOK, Right
<1>5. SoundOK => SoundOK'
  BY <1>2 DEF SoundOK
<1>6. good' => WellInv'
  <2> SUFFICES ASSUME good' PROVE WellInv'
    OBVIOUS
  <2>1. WellInv /\ PktOK /\ SoundOK
    BY <1>2 DEF Inv, WellInv
  <2> QED
    BY <1>2, <1>4, <1>5, <2>1, Kept
<1> QED
  BY <1>2, <1>3, <1>6 DEF Inv

(* A step that changes nothing.                                            *)
LEMMA StutterStep ==
  ASSUME Inv, UNCHANGED vars
  PROVE  Inv'
<1>1. Types'
  BY DEF Inv, Types, vars
<1>2. ASSUME good' PROVE WellInv'
  <2>1. WellInv /\ PktOK /\ SoundOK
    BY <1>2 DEF Inv, WellInv, vars
  <2>2. PktOK' /\ SoundOK'
    BY <2>1 DEF PktOK, Right, SoundOK, vars
  <2> QED
    BY <2>1, <2>2, Kept DEF vars
<1> QED
  BY <1>1, <1>2 DEF Inv, vars

-----------------------------------------------------------------------------
(* Theorems *)

(* The input is joined in order.                                           *)
LEMMA InitInv == Init => Inv
<1> SUFFICES ASSUME Init PROVE Inv
  OBVIOUS
<1>0. NoPts \in Int /\ Jitter \in Nat /\ Start \subseteq Int /\ Horizon \in Nat /\ Start \subseteq 0..Horizon
  BY Times, TimesAssumption
<1>1. Fresh
  BY Zenon DEF Init, Fresh, VA
<1>2. Types
  <2>1. pts_wrap \in [Programs -> Wraps] /\ last \in [VA -> Int]
    BY <1>0 DEF Init, Wraps, Ignore, VA
  <2>2. cur_dts \in [VA -> Int] /\ pcr \in [Programs -> Int] /\ shift \in [Programs -> Int]
    BY <1>0 DEF Init, VA
  <2>3. /\ pkt \in [stream : Streams \cup {NoStream}, pts : Int, dts : Int, tpts : Int, tdts : Int]
        /\ base_ts \in Int /\ now \in Int
    BY <1>0 DEF Init
  <2>4. \A p \in Programs : pcr[p] = NoPts
    BY DEF Init
  <2>5. end \in [Audio -> Int] /\ good \in BOOLEAN
    BY <1>0 DEF Init
  <2> QED
    BY <2>1, <2>2, <2>3, <2>4, <2>5 DEF Types
<1>3. PktOK
  BY DEF Init, PktOK, Right
<1>4. SoundOK
  BY DEF Init, SoundOK
<1>5. now <= Horizon
  BY <1>0 DEF Init
<1> QED
  BY <1>1, <1>2, <1>3, <1>4, <1>5 DEF Inv, WellInv

(* Every step keeps the invariant, and a subtitle is near its clock.       *)
LEMMA NextInv ==
  ASSUME Inv, Next
  PROVE  /\ Inv'
         /\ \A s \in Teletext \cup DvbSub :
              pkt' # pkt /\ pkt'.stream = s /\ pkt'.dts # NoPts =>
                pkt'.tdts - pcr[s[1]] \in 0..Latest(s)
<1>1. ASSUME NEW s \in Video \cup Audio, NEW t \in Near, NEW d \in 0..Delay, Packet(s, t, d)
      PROVE  Inv' /\ pkt'.stream \notin Teletext \cup DvbSub
  <2>1. Inv' /\ pkt'.stream = s
    BY <1>1, PacketStep
  <2> QED
    BY <2>1, StreamsAssumption
<1>2. ASSUME NEW s \in Streams, s \notin Audio, Unstamped(s)
      PROVE  Inv' /\ pkt'.dts = NoPts
  BY <1>2, UnstampedStep
<1>10. CASE \E s \in Audio : Sound(s)
  <2>1. PICK s \in Audio : Sound(s)
    BY <1>10
  <2>2. Inv' /\ pkt'.stream = s
    BY <2>1, SoundStep
  <2> QED
    BY <2>2, StreamsAssumption
<1>3. ASSUME NEW s \in Teletext \cup DvbSub, NEW t \in (now - Jitter)..now, Pcr(s[1], t)
      PROVE  Inv' /\ pkt' = pkt
  <2>1. s[1] \in Programs
    BY StreamsAssumption DEF Streams
  <2> QED
    BY <1>3, <2>1, PcrStep DEF Pcr
<1>4. ASSUME NEW s \in Teletext \cup DvbSub, NEW t \in SubTimes(s[1]) \cup {NoPts}, Subtitle(s, t)
      PROVE  Inv' /\ pkt'.tdts - pcr[s[1]] \in 0..Latest(s) /\ pkt'.stream = s
  BY <1>4, SubtitleStep
<1>5. CASE \E s \in Video \cup Audio, t \in Near, d \in 0..Delay : Packet(s, t, d)
  BY <1>1, <1>5
<1>6. CASE \E s \in Video : Unstamped(s)
  BY <1>2, <1>6, StreamsAssumption DEF Streams
<1>7. CASE \E s \in Teletext \cup DvbSub, t \in (now - Jitter)..now : Pcr(s[1], t)
  BY <1>3, <1>7
<1>8. CASE \E s \in Teletext \cup DvbSub : SubtitleEarly(s)
  BY <1>2, <1>8, StreamsAssumption DEF Streams, SubtitleEarly
<1>9. CASE \E s \in Teletext \cup DvbSub : \E t \in SubTimes(s[1]) \cup {NoPts} : Subtitle(s, t)
  <2>1. PICK s \in Teletext \cup DvbSub : \E t \in SubTimes(s[1]) \cup {NoPts} : Subtitle(s, t)
    BY <1>9
  <2>2. Inv' /\ pkt'.tdts - pcr[s[1]] \in 0..Latest(s) /\ pkt'.stream = s
    BY <1>4, <2>1
  <2> QED
    BY <2>2
<1> QED
  BY <1>5, <1>6, <1>7, <1>8, <1>9, <1>10, Zenon DEF Next

(* The invariant gives Correct.                                            *)
LEMMA InvCorrect == Inv => Correct
<1> SUFFICES ASSUME Inv PROVE Correct
  OBVIOUS
<1>0. /\ Types /\ Horizon \in Nat /\ Delay \in Nat /\ TenSec \in Nat /\ M \in Nat /\ Jitter \in Nat
      /\ \A p \in Programs : Clock[p] \in Nat
  BY Times DEF Inv
<1>1. ASSUME good PROVE base_ts \in 0..(Horizon + TenSec + 2 * M)
  <2>1. CASE Fresh
    BY <1>0, <2>1 DEF Fresh
  <2>2. CASE ~Fresh
    <3>1. PICK K \in Int, low \in Start : Core(K, low) /\ Based(K)
      BY <1>1, <2>2 DEF Inv, WellInv
    <3>2. PICK p \in Programs : \E B \in (now - Jitter)..(now + TenSec) : base_ts = U(K, p, B)
      BY <3>1 DEF Based
    <3>3. PICK B \in (now - Jitter)..(now + TenSec) : base_ts = U(K, p, B)
      BY <3>2
    <3>4. /\ low \in 0..Horizon /\ now \in Int /\ now >= low - Jitter /\ now <= Horizon
          /\ U(K, p, low) >= 2 * Jitter + 1 /\ U(K, p, low) <= 2 * M
      BY <1>0, <3>1, TimesAssumption DEF Core, Inv, Types
    <3>5. B \in Int /\ B >= now - Jitter /\ B <= now + TenSec /\ Clock[p] \in Int
      BY <1>0, <3>4
    <3>6. base_ts = B + Clock[p] - K
      BY <3>3 DEF U
    <3> QED
      BY <1>0, <3>4, <3>5, <3>6 DEF U
  <2> QED
    BY <2>1, <2>2
<1>2. \A p \in Programs : /\ pts_wrap[p].reference \in Int
                          /\ pts_wrap[p].behavior \in {"ignore", "add", "sub"}
                          /\ shift[p] \in Int
                          /\ pcr[p] = NoPts \/ pcr[p] \in 0..Horizon
  BY <1>0 DEF Types, Wraps
<1>3. TypeOK
  BY <1>0, <1>2 DEF TypeOK, Types, VA
<1>4. good => PktOK
  BY DEF Inv, WellInv
<1> QED
  BY <1>1, <1>3, <1>4 DEF Correct, PktOK, Right

(* Invariant: when the input was joined well, the packet given last is     *)
(* right, the next frame of sound would be, and base_ts and the wrap       *)
(* references are those of what the source has sent.                       *)
THEOREM TimesInvariant == Spec => []Inv
<1>1. Inv /\ [Next]_vars => Inv'
  BY NextInv, StutterStep
<1> QED
  BY <1>1, InitInv, PTL DEF Spec

(* StampsRight: whatever the order of the streams and programs, and however*)
(* often the counters of unroll_timestamp, update_wrap_reference and       *)
(* wrap_timestamp wrap, every packet has the stamps of its source, up to   *)
(* one constant of its program, the frames of sound that compute_pkt_fields*)
(* interpolates too; unless the first stamp of the input was of a counter  *)
(* that had wrapped when another had not.                                  *)
THEOREM StampsRight == Spec => []Correct
BY TimesInvariant, InvCorrect, PTL

(* SubtitlesInTime: fix_teletext_pts, and the unrolling after it, give each*)
(* subtitle at the clock of its program or within its deadline after it.   *)
THEOREM SubtitlesInTime == Spec => SubsNearPcr
<1> DEFINE A == \A s \in Teletext \cup DvbSub :
                  good' /\ pkt' # pkt /\ pkt'.stream = s /\ pkt'.dts # NoPts =>
                    pkt'.dts - shift'[s[1]] - pcr[s[1]]
                      \in 0..(IF s \in DvbSub THEN TenSec ELSE Deadline)
<1>1. Inv /\ [Next]_vars => [A]_vars
  <2> SUFFICES ASSUME Inv, Next, NEW s \in Teletext \cup DvbSub,
                      good' /\ pkt' # pkt /\ pkt'.stream = s /\ pkt'.dts # NoPts
               PROVE  pkt'.dts - shift'[s[1]] - pcr[s[1]]
                        \in 0..(IF s \in DvbSub THEN TenSec ELSE Deadline)
    OBVIOUS
  <2>1. Inv' /\ pkt'.tdts - pcr[s[1]] \in 0..Latest(s)
    BY NextInv
  <2>2. Types' /\ pkt'.dts = pkt'.tdts + shift'[s[1]]
    BY <2>1 DEF Inv, WellInv, PktOK, Right
  <2>3. s[1] \in Programs
    BY StreamsAssumption DEF Streams
  <2>4. pkt'.tdts \in Int /\ shift'[s[1]] \in Int /\ pcr[s[1]] \in Int
    BY <2>2, <2>3 DEF Inv, Types
  <2>5. pkt'.dts - shift'[s[1]] = pkt'.tdts
    BY <2>2, <2>4
  <2> QED
    BY <2>1, <2>5 DEF Latest
<1> QED
  BY <1>1, TimesInvariant, PTL DEF Spec, SubsNearPcr

-----------------------------------------------------------------------------
-----------------------------------------------------------------------------
(* ProcessInput *)

(* A stream has sent a packet.                                             *)
HasSent(s) == dts[s] # AV_NOPTS_VALUE

(* The delays a picture or sound stream may have after n restarts.         *)
Delays(n) == (-EnabledStart - n * Loss)..(-EnabledStart)

(* The restarts a stream has seen.                                         *)
Seen(s) == IF clock[s] = current THEN restarts ELSE restarts - 1

InputTypes ==
  /\ ts_offset \in Int /\ last_ts \in Int /\ current \in AllClocks
  /\ next_dts \in [InputStreams -> Int] /\ dts \in [InputStreams -> Int] /\ time \in [InputStreams -> Int]
  /\ top \in [InputStreams -> Int]
  /\ wrap_correction_done \in [InputStreams -> BOOLEAN] /\ clock \in [InputStreams -> AllClocks]
  /\ restarts \in 0..Restarts /\ since \in [InputStreams -> 0..2]

(* What is known of each stream: the frames of a decoder are ahead of the  *)
(* next packet by no more than the margin of the check for steps back.     *)
StreamOK(s) ==
  /\ ~HasSent(s) => /\ next_dts[s] = AV_NOPTS_VALUE /\ time[s] = EnabledStart - Duration[s]
                 /\ ~wrap_correction_done[s]
  /\ HasSent(s) => /\ next_dts[s] = dts[s] + Advance(s) /\ next_dts[s] # AV_NOPTS_VALUE
                /\ dts[s] <= top[s] /\ top[s] <= next_dts[s] + Tenth
                /\ time[s] \in EnabledStart..LastTime
  /\ ~HasSent(s) => top[s] = AV_NOPTS_VALUE
  /\ s \in Ahead => ~wrap_correction_done[s]
  /\ s \in AV /\ HasSent(s) => Lag(s) \in Delays(Seen(s))

(* The streams that the new clock has not reached all have the old one.    *)
ClockOK ==
  /\ restarts = 0 => current = 0 /\ \A s \in InputStreams : clock[s] = 0
  /\ \A s, r \in InputStreams : clock[s] # current /\ clock[r] # current => clock[s] = clock[r]
  /\ restarts > 0 => \A s \in AV : HasSent(s)

(* The first packets of the streams are near each other.                   *)
LastOK ==
  restarts = 0 /\ last_ts # AV_NOPTS_VALUE =>
    last_ts >= 0 /\ \A s \in InputStreams : ~HasSent(s) => last_ts <= Skew

(* The offset suits the new clock, or the old one if a picture or sound    *)
(* stream still has that.                                                  *)
Suits(n, c) == ts_offset + c \in Delays(n)

OffsetOK ==
  \/ Suits(restarts, current)
  \/ \E r \in AV : clock[r] # current /\ Suits(restarts - 1, clock[r])

NoneSent ==
  /\ ts_offset = -StartTime /\ last_ts = AV_NOPTS_VALUE /\ restarts = 0
  /\ \A s \in InputStreams : ~HasSent(s) /\ since[s] = 0

(* Once settled the offset only grows, and from the second round on all    *)
(* streams have it.                                                        *)
SinceOK(s) ==
  /\ since[s] >= 1 => Settled /\ HasSent(s) /\ Lag(s) <= ts_offset + current
  /\ since[s] = 2 => Lag(s) = ts_offset + current /\ \A r \in InputStreams : since[r] >= 1

OffsetInv ==
  /\ InputTypes /\ ClockOK /\ LastOK
  /\ \A s \in InputStreams : StreamOK(s) /\ SinceOK(s)
  /\ NoneSent \/ OffsetOK

-----------------------------------------------------------------------------
(* Numbers *)

(* What the assumptions say of the constants.                              *)
LEMMA Numbers ==
  /\ Threshold \in Nat /\ Tenth \in Nat /\ StartTime \in Nat /\ Skew \in Nat /\ Loss \in Nat
  /\ Restarts \in Nat /\ LastTime \in Nat /\ EnabledStart \in Nat /\ EnabledStart >= StartTime
  /\ Duration \in [InputStreams -> Nat \ {0}] /\ AllClocks \subseteq Int /\ 0 \in AllClocks
  /\ Lost \in Nat /\ Lost <= Threshold /\ Skew <= Threshold /\ AV_NOPTS_VALUE \in Int /\ AV_NOPTS_VALUE < -Lost
  /\ AV \subseteq InputStreams /\ Subs \subseteq InputStreams /\ AV # {}
<1>1. /\ Threshold \in Nat /\ Tenth \in Nat /\ StartTime \in Nat /\ Skew \in Nat /\ Loss \in Nat
      /\ Restarts \in Nat /\ LastTime \in Nat /\ EnabledStart \in Nat /\ EnabledStart >= StartTime
      /\ Duration \in [InputStreams -> Nat \ {0}] /\ AllClocks \subseteq Int /\ 0 \in AllClocks
  BY InputTimesAssumption DEF AllClocks
<1>2. Lost \in Nat
  BY <1>1 DEF Lost
<1>3. Lost <= Threshold /\ Skew <= Threshold
  BY ThresholdAssumption
<1>4. AV_NOPTS_VALUE \in Int /\ AV_NOPTS_VALUE < -Lost
  <2>1. AV_NOPTS_VALUE \in Int /\ AV_NOPTS_VALUE < 0 - 0 - Lost
    BY <1>1, NoPtsAssumption
  <2> QED
    BY <1>2, <2>1
<1>5. AV \subseteq InputStreams /\ Subs \subseteq InputStreams /\ AV # {}
  BY InputStreamsAssumption DEF InputStreams
<1> QED
  BY <1>1, <1>2, <1>3, <1>4, <1>5

(* What n restarts lose.                                                   *)
LEMMA Loses ==
  ASSUME NEW n \in 0..Restarts
  PROVE  n * Loss \in Int /\ n * Loss >= 0 /\ n * Loss <= Lost /\ (n - 1) * Loss = n * Loss - Loss
<1>1. n \in Nat /\ Restarts \in Nat /\ Loss \in Nat /\ n <= Restarts
  BY Numbers
<1>2. n * Loss \in Int /\ n * Loss >= 0
  BY <1>1
<1>3. n * Loss <= Restarts * Loss
  <2>1. (Restarts - n) * Loss >= 0
    BY <1>1
  <2>2. (Restarts - n) * Loss = Restarts * Loss - n * Loss
    BY <1>1
  <2> QED
    BY <1>1, <1>2, <2>1, <2>2
<1>4. (n - 1) * Loss = n * Loss - Loss
  BY <1>1
<1> QED
  BY <1>2, <1>3, <1>4 DEF Lost

(* Delays are within what is lost.                                         *)
LEMMA Within ==
  ASSUME NEW n \in 0..Restarts, NEW a \in Delays(n)
  PROVE  a \in Int /\ a >= -EnabledStart - Lost /\ a <= -EnabledStart
<1>1. n * Loss \in Int /\ n * Loss <= Lost
  BY Loses
<1> DEFINE m == n * Loss
<1> HIDE DEF m
<1>2. a \in (-EnabledStart - m)..(-EnabledStart) /\ m \in Int /\ m <= Lost
  BY <1>1 DEF Delays, m
<1> QED
  BY <1>2, Numbers

(* A restart may lose more.                                                *)
LEMMA Grows ==
  ASSUME NEW n \in 1..Restarts, NEW a \in Delays(n - 1), NEW g \in 0..Loss
  PROVE  a - g \in Delays(n)
<1>1. n \in 0..Restarts
  BY Numbers
<1>2. n * Loss \in Int /\ (n - 1) * Loss = n * Loss - Loss
  BY <1>1, Loses
<1> DEFINE m == n * Loss
<1> HIDE DEF m
<1>3. a \in (-EnabledStart - (m - Loss))..(-EnabledStart) /\ m \in Int
  BY <1>2 DEF Delays, m
<1>4. a - g \in (-EnabledStart - m)..(-EnabledStart)
  BY <1>3, Numbers
<1> QED
  BY <1>4 DEF Delays, m

(* Beside a delay l an offset made for clock e is near for that clock and  *)
(* far for any other.                                                      *)
LEMMA NearOrFar ==
  ASSUME NEW off \in Int, NEW c \in AllClocks, NEW e \in AllClocks, NEW l \in Int,
         off + e >= -EnabledStart - Lost, off + e <= -EnabledStart,
         l >= -EnabledStart - Lost, l <= -EnabledStart
  PROVE  /\ c = e => ~Far(c + off - l)
         /\ c # e => Far(c + off - l)
<1>0. c \in Int /\ e \in Int
  BY Numbers
<1>1. c > e => c - e > Threshold + Lost
  BY ThresholdAssumption
<1>2. e > c => e - c > Threshold + Lost
  BY ThresholdAssumption
<1>3. Threshold \in Nat /\ Lost \in Nat /\ EnabledStart \in Nat /\ Lost <= Threshold
  BY Numbers
<1> QED
  BY <1>0, <1>1, <1>2, <1>3 DEF Far

-----------------------------------------------------------------------------
(* process_input *)

(* The wrap correction takes away the wrap a stream is ahead, and nothing  *)
(* from the others.                                                        *)
LEMMA Unwrapped ==
  ASSUME NEW s \in InputStreams, NEW c \in AllClocks, NEW t \in EnabledStart..LastTime, StreamOK(s)
  PROVE  /\ (IF WrapCorrection(s, Stamp(s, t, c)) THEN Stamp(s, t, c) - 2^WrapBits ELSE Stamp(s, t, c)) = t + c
         /\ s \in Ahead => WrapCorrection(s, Stamp(s, t, c))
<1> DEFINE w == 2^WrapBits
           h == 2^(WrapBits - 1)
           x == Stamp(s, t, c)
<1>0. c \in Int /\ t \in Int /\ StartTime \in Int
  BY Numbers
<1>1. w \in Int /\ h \in Int /\ t + c <= StartTime + h /\ StartTime + h < t + c + w
  BY WrapAssumption
<1>2. x = t + c + (IF s \in Ahead THEN w ELSE 0)
  BY DEF Stamp
<1>3. WrapCorrection(s, x) = (~wrap_correction_done[s] /\ x > StartTime + h)
  BY DEF WrapCorrection
<1> HIDE DEF w, h, x
<1>4. CASE s \in Ahead
  <2>1. ~wrap_correction_done[s]
    BY <1>4 DEF StreamOK
  <2>2. x = t + c + w
    BY <1>2, <1>4
  <2>3. WrapCorrection(s, x)
    BY <1>0, <1>1, <1>3, <2>1, <2>2
  <2>4. x - w = t + c
    BY <1>0, <1>1, <2>2
  <2> QED
    BY <2>3, <2>4 DEF x, w
<1>5. CASE s \notin Ahead
  <2>1. x = t + c
    BY <1>0, <1>2, <1>5
  <2>3. ~(x > StartTime + h)
    BY <1>0, <1>1, <2>1
  <2>2. ~WrapCorrection(s, x)
    BY <2>3, Zenon DEF WrapCorrection, h
  <2> QED
    BY <1>5, <2>1, <2>2 DEF x
<1> QED
  BY <1>4, <1>5

(* The offset that applies to a packet, after the correction of the start. *)
Applies(off) ==
  \/ off + current \in Delays(restarts)
  \/ \E r \in AV : clock[r] # current /\ off + clock[r] \in Delays(restarts - 1)

(* The clock an offset is made for.                                        *)
LEMMA MadeFor ==
  ASSUME OffsetInv, NEW off \in Int, Applies(off)
  PROVE  \E e \in AllClocks :
           /\ off + e >= -EnabledStart - Lost /\ off + e <= -EnabledStart
           /\ e = current \/ \E r \in AV : clock[r] # current /\ e = clock[r]
           /\ off + e \in Delays(IF e = current THEN restarts ELSE restarts - 1)
<1>0. InputTypes /\ ClockOK /\ restarts \in 0..Restarts
  BY DEF OffsetInv, InputTypes
<1>1. CASE off + current \in Delays(restarts)
  <2>1. current \in AllClocks
    BY <1>0 DEF InputTypes
  <2> QED
    BY <1>0, <1>1, <2>1, Within
<1>2. CASE \E r \in AV : clock[r] # current /\ off + clock[r] \in Delays(restarts - 1)
  <2>1. PICK r \in AV : clock[r] # current /\ off + clock[r] \in Delays(restarts - 1)
    BY <1>2
  <2>2. clock[r] \in AllClocks /\ r \in InputStreams
    BY <1>0, <2>1, Numbers DEF InputTypes
  <2>3. restarts # 0
    BY <1>0, <2>1, <2>2 DEF ClockOK
  <2>4. restarts - 1 \in 0..Restarts
    BY <1>0, <2>3, Numbers
  <2>5. off + clock[r] >= -EnabledStart - Lost /\ off + clock[r] <= -EnabledStart
    BY <2>1, <2>4, Within
  <2> QED
    BY <2>1, <2>2, <2>5
<1> QED
  BY <1>1, <1>2 DEF Applies

(* StartOffset changes the first offset, and no other.                     *)
LEMMA Offset ==
  ASSUME OffsetInv, NEW s \in InputStreams
  PROVE  /\ StartOffset(s) \in Int /\ Applies(StartOffset(s))
         /\ NoneSent \/ StartOffset(s) = ts_offset
<1>0. /\ EnabledStart \in Nat /\ StartTime \in Nat /\ InputTypes /\ ClockOK /\ ts_offset \in Int
      /\ EnabledStart >= StartTime /\ Lost \in Nat /\ restarts \in 0..Restarts
  BY Numbers DEF OffsetInv, InputTypes
<1>1. CASE NoneSent
  <2>1. ~HasSent(s) /\ StreamOK(s) /\ ts_offset = -StartTime /\ restarts = 0 /\ current = 0
    BY <1>0, <1>1 DEF NoneSent, OffsetInv, ClockOK
  <2>2. StartOffset(s) = -EnabledStart
    BY <2>1 DEF StartOffset, StreamOK
  <2>3. -EnabledStart + 0 \in Delays(0)
    BY <1>0, Numbers DEF Delays
  <2> QED
    BY <1>0, <1>1, <2>1, <2>2, <2>3 DEF Applies
<1>2. CASE ~NoneSent
  <2>1. OffsetOK
    BY <1>2 DEF OffsetInv
  <2>2. Applies(ts_offset)
    BY <2>1 DEF OffsetOK, Applies, Suits
  <2>3. PICK e \in AllClocks : ts_offset + e >= -EnabledStart - Lost /\ ts_offset + e <= -EnabledStart
    BY <1>0, <2>2, MadeFor
  <2>4. StartOffset(s) = ts_offset
    <3> SUFFICES ASSUME ts_offset = -StartTime
                 PROVE  EnabledStart = StartTime
      BY <1>0 DEF StartOffset
    <3>1. e \in Int
      BY Numbers
    <3>2. CASE e = 0
      BY <1>0, <2>3, <3>2
    <3>3. CASE e # 0
      <4>1. e + (EnabledStart - StartTime) \notin (-Lost)..0
        BY <3>3, StartTimeAssumption
      <4> QED
        BY <1>0, <2>3, <3>1, <4>1
    <3> QED
      BY <3>2, <3>3
  <2> QED
    BY <1>0, <2>2, <2>4
<1> QED
  BY <1>1, <1>2

(* The correction x of a packet that is y from where its stream should be: *)
(* none, or back to there; none if it is ahead and near.                   *)
MovedBy(s, off, c, t, x, y) ==
  /\ x \in {0, y} /\ y \in Int
  /\ Far(y) => x = y
  /\ ~Far(y) => x <= 0
  /\ ~Far(y) /\ y >= 0 => x = 0
  /\ (t + c + off) - x + Tenth >= top[s]

LEMMA Moves ==
  ASSUME OffsetInv, NEW s \in AV, HasSent(s), NEW off \in Int, NEW c \in Int, NEW t \in Int
  PROVE  MovedBy(s, off, c, t, Delta(s, t + c + off), c + off - (next_dts[s] - t))
<1> DEFINE d == t + c + off
           x == Delta(s, d)
           y == c + off - (next_dts[s] - t)
<1>0. /\ s \in InputStreams /\ s \notin Subs /\ StreamOK(s) /\ Duration[s] \in Nat /\ Tenth \in Nat
      /\ dts[s] \in Int /\ Threshold \in Nat /\ top[s] \in Int
  BY Numbers, InputStreamsAssumption DEF OffsetInv, InputTypes
<1>1. /\ next_dts[s] = dts[s] + Duration[s] /\ next_dts[s] # AV_NOPTS_VALUE /\ next_dts[s] \in Int
      /\ dts[s] <= top[s] /\ top[s] <= next_dts[s] + Tenth
  BY <1>0 DEF StreamOK, Advance
<1>2. d - next_dts[s] = y /\ y \in Int /\ d \in Int /\ d = next_dts[s] + y
  BY <1>1
<1>3. x = IF Far(d - next_dts[s]) \/ Backwards(s, d) THEN d - next_dts[s] ELSE 0
  BY <1>0, <1>1 DEF Delta
<1> HIDE DEF x, y, d
<1>4. Backwards(s, d) => y < 0
  BY <1>0, <1>1, <1>2 DEF Backwards
<1>5. x = IF Far(y) \/ Backwards(s, d) THEN y ELSE 0
  BY <1>2, <1>3
<1>6. x \in {0, y} /\ y \in Int /\ (Far(y) => x = y)
  BY <1>2, <1>5
<1>7. /\ ~Far(y) => x <= 0
      /\ ~Far(y) /\ y >= 0 => x = 0
  BY <1>2, <1>4, <1>5
<1>8. d - x + Tenth >= top[s]
  <2>1. CASE x = y
    <3>1. d - x = next_dts[s]
      BY <1>1, <1>2, <2>1
    <3> QED
      BY <1>0, <1>1, <3>1
  <2>2. CASE x = 0 /\ x # y
    <3>1. ~Backwards(s, d)
      BY <1>5, <2>2
    <3> QED
      BY <1>0, <1>2, <2>2, <3>1 DEF Backwards
  <2> QED
    BY <1>6, <2>1, <2>2
<1> QED
  BY <1>6, <1>7, <1>8, Zenon DEF MovedBy, x, y, d

(* A packet s sends at time t with clock c: its next, or its first with    *)
(* the new clock after a loss of g.                                        *)
Sends(s, t, c, g) ==
  /\ t = time[s] + Duration[s] + g
  /\ (c = clock[s] /\ g = 0) \/ (c = current /\ clock[s] # current)

(* The restarts that clock c has seen.                                     *)
SeenBy(c) == IF c = current THEN restarts ELSE restarts - 1

(* Such a packet, corrected by x, leaves an offset that suits its own      *)
(* clock; if the offset did already, it is not lowered, nor moved when the *)
(* stream is delayed by no more.                                           *)
Leaves(s, off, c, g, x) ==
  /\ x \in Int /\ off - x + c \in Delays(SeenBy(c))
  /\ off + c \in Delays(SeenBy(c)) => x <= 0
  /\ off + c \in Delays(SeenBy(c)) /\ g = 0 /\ Lag(s) <= off + c => x = 0

LEMMA Outcome ==
  ASSUME OffsetInv, NEW s \in AV, HasSent(s), NEW off \in Int, Applies(off),
         NEW g \in 0..Loss, NEW c \in AllClocks, NEW t \in Int, Sends(s, t, c, g)
  PROVE  Leaves(s, off, c, g, Delta(s, t + c + off))
<1> DEFINE x == Delta(s, t + c + off)
           l == Lag(s) - g
           y == c + off - (next_dts[s] - t)
<1>0. /\ s \in InputStreams /\ StreamOK(s) /\ Duration[s] \in Nat /\ c \in Int /\ g \in Int
      /\ time[s] \in Int /\ dts[s] \in Int /\ restarts \in 0..Restarts /\ ClockOK
      /\ EnabledStart \in Nat /\ Lost \in Nat /\ Restarts \in Nat /\ s \notin Subs
  BY Numbers, InputStreamsAssumption DEF OffsetInv, InputTypes
<1>1. next_dts[s] = dts[s] + Duration[s] /\ Lag(s) \in Delays(Seen(s)) /\ Lag(s) = dts[s] - time[s]
  BY <1>0 DEF StreamOK, Lag, Advance
<1>2. y = c + off - l /\ l \in Int /\ Lag(s) \in Int
  BY <1>0, <1>1 DEF Sends
<1>3. clock[s] # current => restarts \in 1..Restarts
  BY <1>0 DEF ClockOK
<1>4. SeenBy(c) \in 0..Restarts
  BY <1>0, <1>3 DEF SeenBy, Sends
<1>5. l \in Delays(SeenBy(c))
  <2>1. CASE c = clock[s] /\ g = 0
    <3>1. l = Lag(s)
      BY <1>2, <2>1
    <3> QED
      BY <1>1, <2>1, <3>1 DEF SeenBy, Seen
  <2>2. CASE c = current /\ clock[s] # current
    BY <1>1, <1>3, <2>2, Grows DEF SeenBy, Seen
  <2> QED
    BY <2>1, <2>2 DEF Sends
<1>6. l >= -EnabledStart - Lost /\ l <= -EnabledStart
  BY <1>4, <1>5, Within
<1>7. /\ x \in {0, y} /\ y \in Int /\ (Far(y) => x = y)
      /\ ~Far(y) => x <= 0
      /\ ~Far(y) /\ y >= 0 => x = 0
  <2>1. MovedBy(s, off, c, t, x, y)
    BY <1>0, Moves, Zenon
  <2> HIDE DEF x, y
  <2> QED
    BY <2>1 DEF MovedBy
<1> HIDE DEF x, y, l
<1>8. PICK e \in AllClocks :
           /\ off + e >= -EnabledStart - Lost /\ off + e <= -EnabledStart
           /\ e = current \/ \E r \in AV : clock[r] # current /\ e = clock[r]
           /\ off + e \in Delays(IF e = current THEN restarts ELSE restarts - 1)
  BY MadeFor
<1>9. /\ c = e => ~Far(y)
      /\ c # e => Far(y)
  BY <1>2, <1>6, <1>8, NearOrFar
<1>10. off - x + c \in Delays(SeenBy(c))
  <2>1. CASE x = y
    <3>1. off - x + c = l
      BY <1>0, <1>2, <2>1
    <3> QED
      BY <1>5, <3>1
  <2>2. CASE x = 0 /\ x # y
    <3>1. c = e
      BY <1>7, <1>9, <2>2
    <3>2. off - x + c = off + e
      BY <1>0, <2>2, <3>1
    <3> QED
      BY <1>8, <3>1, <3>2 DEF SeenBy
  <2> QED
    BY <1>7, <2>1, <2>2
<1>11. off + c \in Delays(SeenBy(c)) => ~Far(y)
  <2> SUFFICES ASSUME off + c \in Delays(SeenBy(c)) PROVE ~Far(y)
    OBVIOUS
  <2>1. off + c >= -EnabledStart - Lost /\ off + c <= -EnabledStart
    BY <1>4, Within
  <2>2. c = c => ~Far(c + off - l)
    BY <1>2, <1>6, <2>1, NearOrFar
  <2> QED
    BY <1>2, <2>2
<1>12. g = 0 /\ Lag(s) <= off + c => y >= 0
  BY <1>0, <1>2 DEF l
<1>13. Leaves(s, off, c, g, x)
  BY <1>0, <1>7, <1>10, <1>11, <1>12 DEF Leaves
<1> QED
  BY <1>13 DEF x

(* The first packet of a picture or sound stream needs no correction.      *)
LEMMA FirstPacket ==
  ASSUME OffsetInv, NEW s \in AV, ~HasSent(s), NEW off \in Int, Applies(off),
         NEW g \in 0..Loss, NEW c \in AllClocks, NEW t \in Int, Sends(s, t, c, g)
  PROVE  /\ Delta(s, t + c + off) = 0 /\ restarts = 0 /\ c = current
         /\ off + c \in Delays(SeenBy(c))
<1>0. /\ s \in InputStreams /\ s \notin Subs /\ StreamOK(s) /\ ClockOK /\ LastOK /\ restarts \in 0..Restarts
      /\ Duration[s] \in Nat /\ EnabledStart \in Nat /\ Threshold \in Nat /\ Skew \in Nat /\ Skew <= Threshold
      /\ last_ts \in Int /\ Loss \in Nat
  BY Numbers, InputStreamsAssumption DEF OffsetInv, InputTypes
<1>1. restarts = 0
  BY <1>0 DEF ClockOK
<1>2. current = 0 /\ \A r \in InputStreams : clock[r] = 0
  BY <1>0, <1>1 DEF ClockOK
<1>3. c = 0 /\ g = 0 /\ t = EnabledStart
  BY <1>0, <1>2 DEF Sends, StreamOK
<1>4. off + 0 \in Delays(0)
  BY <1>1, <1>2, Numbers DEF Applies
<1>5. off = -EnabledStart
  BY <1>0, <1>4 DEF Delays
<1>6. t + c + off = 0
  BY <1>0, <1>3, <1>5
<1>7. last_ts # AV_NOPTS_VALUE => last_ts >= 0 /\ last_ts <= Skew
  BY <1>0, <1>1 DEF LastOK
<1>8. last_ts # AV_NOPTS_VALUE => ~Far(0 - last_ts)
  BY <1>0, <1>7 DEF Far
<1>9. next_dts[s] = AV_NOPTS_VALUE
  BY <1>0 DEF StreamOK
<1>10. Delta(s, 0) = 0
  BY <1>0, <1>8, <1>9 DEF Delta
<1> QED
  BY <1>1, <1>2, <1>3, <1>4, <1>6, <1>10 DEF SeenBy

(* The offset after any packet: of a picture or sound stream it suits its  *)
(* clock, of a subtitle stream it is as before.                            *)
LEMMA NextOffset ==
  ASSUME OffsetInv, NEW s \in InputStreams, NEW off \in Int, Applies(off),
         NEW g \in 0..Loss, NEW c \in AllClocks, NEW t \in Int, Sends(s, t, c, g)
  PROVE  /\ Delta(s, t + c + off) \in Int
         /\ s \in AV => off - Delta(s, t + c + off) + c \in Delays(SeenBy(c))
         /\ s \in Subs => Delta(s, t + c + off) = 0
         /\ off + c \in Delays(SeenBy(c)) => Delta(s, t + c + off) <= 0
         /\ off + c \in Delays(SeenBy(c)) /\ g = 0 /\ HasSent(s) /\ Lag(s) <= off + c
              => Delta(s, t + c + off) = 0
<1> DEFINE x == Delta(s, t + c + off)
<1>0. c \in Int /\ (s \in AV \/ s \in Subs)
  BY Numbers DEF InputStreams
<1>1. CASE s \in AV /\ HasSent(s)
  <2>1. Leaves(s, off, c, g, x)
    BY <1>1, Outcome, Zenon
  <2>2. s \notin Subs
    BY <1>1, InputStreamsAssumption
  <2> HIDE DEF x
  <2>3. /\ x \in Int /\ off - x + c \in Delays(SeenBy(c))
        /\ off + c \in Delays(SeenBy(c)) => x <= 0
        /\ off + c \in Delays(SeenBy(c)) /\ g = 0 /\ Lag(s) <= off + c => x = 0
    BY <2>1 DEF Leaves
  <2> QED
    BY <2>2, <2>3 DEF x
<1>2. CASE s \in AV /\ ~HasSent(s)
  <2>1. x = 0 /\ off + c \in Delays(SeenBy(c))
    BY <1>2, FirstPacket, Zenon
  <2>2. off - 0 + c = off + c
    BY <1>0
  <2>3. s \notin Subs
    BY <1>2, InputStreamsAssumption
  <2> HIDE DEF x
  <2>4. x \in Int /\ off - x + c \in Delays(SeenBy(c)) /\ x <= 0
    BY <2>1, <2>2
  <2> QED
    BY <1>2, <2>3, <2>4 DEF x
<1>3. CASE s \in Subs
  <2>1. x = 0
    BY <1>3 DEF Delta
  <2>2. s \notin AV
    BY <1>3, InputStreamsAssumption
  <2> HIDE DEF x
  <2>3. x \in Int /\ x <= 0
    BY <2>1
  <2> QED
    BY <2>1, <2>2, <2>3 DEF x
<1> QED
  BY <1>0, <1>1, <1>2, <1>3

(* What a packet of s leaves as it is, and what of the offset: the stream  *)
(* has the delay of the offset; once settled the offset only grows, and    *)
(* not when the stream is delayed by no more than it.                      *)
After(s, c) ==
  /\ InputTypes' /\ ClockOK' /\ LastOK' /\ OffsetOK' /\ \A r \in InputStreams : StreamOK(r)'
  /\ HasSent(s)' /\ Lag(s)' = ts_offset' + c
  /\ \A r \in InputStreams \ {s} : (HasSent(r) => HasSent(r)') /\ Lag(r)' = Lag(r)
  /\ Settled /\ ~NoneSent => ts_offset' >= ts_offset
  /\ Settled /\ ~NoneSent /\ HasSent(s) /\ Lag(s) <= ts_offset + current => ts_offset' = ts_offset
  /\ \A r \in AV : HasSent(r) => dts'[r] + Tenth >= dts[r]

LEMMA Step ==
  ASSUME OffsetInv, NEW s \in InputStreams, NEW g \in 0..Loss, NEW c \in AllClocks, NEW t \in Int,
         Sends(s, t, c, g), t <= LastTime, Together(s, t), process_input(s, Stamp(s, t, c)),
         time' = [time EXCEPT ![s] = t], clock' = [clock EXCEPT ![s] = c],
         current' = current, restarts' = restarts, since' \in [InputStreams -> 0..2]
  PROVE  After(s, c)
<1> DEFINE off == StartOffset(s)
           x == Delta(s, t + c + off)
           o == off - x
           D == (t + c + off) - x
<1>0. /\ InputTypes /\ ClockOK /\ LastOK /\ StreamOK(s) /\ c \in Int /\ EnabledStart \in Nat /\ LastTime \in Nat
      /\ Duration[s] \in Nat \ {0} /\ Lost \in Nat /\ AV_NOPTS_VALUE \in Int /\ restarts \in 0..Restarts
      /\ time[s] \in Int /\ Restarts \in Nat /\ g \in Nat
  <2>1. InputTypes /\ ClockOK /\ LastOK /\ StreamOK(s)
    BY DEF OffsetInv
  <2>2. c \in Int /\ g \in Nat /\ Duration[s] \in Nat \ {0}
    BY Numbers
  <2>3. time[s] \in Int /\ restarts \in 0..Restarts
    BY <2>1 DEF InputTypes
  <2> QED
    BY <2>1, <2>2, <2>3, Numbers
<1>1. t \in EnabledStart..LastTime
  <2>1. CASE HasSent(s)
    BY <1>0, <2>1 DEF Sends, StreamOK
  <2>2. CASE ~HasSent(s)
    BY <1>0, <2>2 DEF Sends, StreamOK
  <2> QED
    BY <2>1, <2>2
<1>2. off \in Int /\ Applies(off) /\ (NoneSent \/ off = ts_offset)
  BY Offset
<1>3. /\ ts_offset' = o /\ last_ts' = D /\ dts' = [dts EXCEPT ![s] = D]
      /\ next_dts' = [next_dts EXCEPT ![s] = D + Advance(s)]
      /\ \E p \in Tops(s, D) : top' = [top EXCEPT ![s] = p]
      /\ wrap_correction_done' =
           [wrap_correction_done EXCEPT ![s] = @ \/ ~WrapCorrection(s, Stamp(s, t, c))]
  <2> DEFINE m == Stamp(s, t, c)
  <2>1. (IF WrapCorrection(s, m) THEN m - 2^WrapBits ELSE m) = t + c
    BY <1>0, <1>1, Unwrapped
  <2>2. Corrected(s, m) = [dts |-> D, offset |-> o]
    BY <2>1, Zenon DEF Corrected
  <2>3. Corrected(s, m).dts = D /\ Corrected(s, m).offset = o
    BY <2>2
  <2> HIDE DEF D, o
  <2> QED
    BY <2>3, Zenon DEF process_input
<1>4. /\ x \in Int
      /\ s \in AV => o + c \in Delays(SeenBy(c))
      /\ s \in Subs => x = 0
      /\ off + c \in Delays(SeenBy(c)) => x <= 0
      /\ off + c \in Delays(SeenBy(c)) /\ g = 0 /\ HasSent(s) /\ Lag(s) <= off + c => x = 0
  <2> HIDE DEF off
  <2> QED
    BY <1>2, NextOffset, Zenon
<1> HIDE DEF off
<1>21. s \in AV /\ HasSent(s) => D + Tenth >= top[s]
  <2> SUFFICES ASSUME s \in AV, HasSent(s) PROVE D + Tenth >= top[s]
    OBVIOUS
  <2>1. MovedBy(s, off, c, t, x, c + off - (next_dts[s] - t))
    BY <1>0, <1>2, Moves, Zenon
  <2> QED
    BY <2>1, Zenon DEF MovedBy
<1> HIDE DEF x
<1>5. o \in Int /\ D \in Int /\ D = t + c + o
  BY <1>0, <1>2, <1>4
<1> HIDE DEF o, D
<1>6. clock[s] # current => restarts \in 1..Restarts
  BY <1>0 DEF ClockOK
<1>7. SeenBy(c) \in 0..Restarts
  BY <1>0, <1>6 DEF SeenBy, Sends
<1>8. s \in Subs => o = off
  BY <1>2, <1>4 DEF o
<1>9. PICK e \in AllClocks : o + e >= -EnabledStart - Lost
  <2>1. CASE s \in AV
    BY <1>4, <1>7, <2>1, Within
  <2>2. CASE s \in Subs
    BY <1>2, <1>8, <2>2, MadeFor
  <2> QED
    BY <2>1, <2>2 DEF InputStreams
<1>23. Advance(s) \in Nat
  BY <1>0 DEF Advance
<1>10. D > AV_NOPTS_VALUE /\ D + Advance(s) \in Int /\ D + Advance(s) # AV_NOPTS_VALUE
  <2>1. AV_NOPTS_VALUE < c - e - Lost /\ e \in Int
    BY NoPtsAssumption, Numbers
  <2>2. D > AV_NOPTS_VALUE
    BY <1>0, <1>1, <1>5, <1>9, <2>1
  <2> QED
    BY <1>0, <1>5, <1>23, <2>2
<1>24. PICK p \in Int : /\ top' = [top EXCEPT ![s] = p]
                        /\ D <= p /\ p <= D + Advance(s) + Tenth
  <2>1. PICK p \in Tops(s, D) : top' = [top EXCEPT ![s] = p]
    BY <1>3
  <2>2. top[s] \in Int /\ Tenth \in Nat /\ Early \in Nat /\ Early <= Tenth
    BY <1>0, EarlyAssumption, InputTimesAssumption DEF InputTypes
  <2>3. CASE s \notin Decoded
    <3>1. p = D
      BY <2>1, <2>3 DEF Tops
    <3>2. D \in Int /\ D <= D /\ D <= D + Advance(s) + Tenth
      BY <1>5, <1>23, <2>2
    <3> QED
      BY <2>1, <3>1, <3>2
  <2>4. CASE s \in Decoded
    <3>1. s \in AV /\ Advance(s) = Duration[s]
      BY <2>4, InputStreamsAssumption DEF Advance
    <3>2. top[s] <= D + Tenth
      <4>1. CASE HasSent(s)
        BY <1>21, <1>5, <2>2, <3>1, <4>1
      <4>2. CASE ~HasSent(s)
        BY <1>0, <1>5, <1>10, <2>2, <4>2 DEF StreamOK
      <4> QED
        BY <4>1, <4>2
    <3>3. p \in D..(IF top[s] > D + Duration[s] + Early THEN top[s] ELSE D + Duration[s] + Early)
      BY <2>1, <2>4 DEF Tops
    <3>4. p \in Int /\ D <= p /\ p <= D + Duration[s] + Tenth
      BY <1>0, <1>5, <2>2, <3>2, <3>3
    <3> QED
      BY <2>1, <3>1, <3>4
  <2> QED
    BY <2>3, <2>4
<1>11. /\ dts'[s] = D /\ next_dts'[s] = D + Advance(s) /\ time'[s] = t /\ clock'[s] = c
       /\ top'[s] = p
       /\ \A r \in InputStreams \ {s} : /\ dts'[r] = dts[r] /\ next_dts'[r] = next_dts[r]
                                   /\ top'[r] = top[r]
                                   /\ time'[r] = time[r] /\ clock'[r] = clock[r]
                                   /\ wrap_correction_done'[r] = wrap_correction_done[r]
  BY <1>0, <1>3, <1>24 DEF InputTypes
<1>12. InputTypes'
  <2>1. wrap_correction_done' \in [InputStreams -> BOOLEAN]
    <3>1. wrap_correction_done \in [InputStreams -> BOOLEAN]
      BY <1>0 DEF InputTypes
    <3>2. (wrap_correction_done[s] \/ ~WrapCorrection(s, Stamp(s, t, c))) \in BOOLEAN
      OBVIOUS
    <3> QED
      BY <1>3, <3>1, <3>2
  <2>2. /\ dts' \in [InputStreams -> Int] /\ next_dts' \in [InputStreams -> Int]
        /\ time' \in [InputStreams -> Int] /\ top' \in [InputStreams -> Int]
    BY <1>0, <1>3, <1>5, <1>10, <1>24 DEF InputTypes
  <2>3. clock' \in [InputStreams -> AllClocks]
    BY <1>0 DEF InputTypes
  <2> QED
    BY <1>0, <1>3, <1>5, <2>1, <2>2, <2>3 DEF InputTypes
<1>13. HasSent(s)' /\ Lag(s)' = ts_offset' + c
  BY <1>0, <1>3, <1>5, <1>10, <1>11 DEF HasSent, Lag
<1>14. \A r \in InputStreams \ {s} : (HasSent(r)' <=> HasSent(r)) /\ Lag(r)' = Lag(r)
  BY <1>11 DEF HasSent, Lag
<1>15. ClockOK'
  <2>1. restarts = 0 => current = 0 /\ \A r \in InputStreams : clock'[r] = 0
    BY <1>0, <1>11 DEF ClockOK, Sends
  <2>2. ASSUME NEW a \in InputStreams, NEW b \in InputStreams, clock'[a] # current, clock'[b] # current
        PROVE  clock'[a] = clock'[b]
    <3>1. clock'[a] = clock[a] /\ clock'[b] = clock[b]
      BY <1>11, <2>2 DEF Sends
    <3> QED
      BY <1>0, <2>2, <3>1 DEF ClockOK
  <2>3. restarts > 0 => \A r \in AV : HasSent(r)'
    BY <1>0, <1>13, <1>14, Numbers DEF ClockOK
  <2> QED
    BY <2>1, <2>2, <2>3 DEF ClockOK
<1>16. OffsetOK'
  <2>1. CASE s \in AV /\ c = current
    <3>1. ts_offset' + current \in Delays(restarts)
      BY <1>3, <1>4, <2>1 DEF SeenBy
    <3> QED
      BY <3>1 DEF OffsetOK, Suits, Delays
  <2>2. CASE s \in AV /\ c # current
    <3>1. clock'[s] # current /\ ts_offset' + clock'[s] \in Delays(restarts - 1)
      BY <1>3, <1>4, <1>11, <2>2 DEF SeenBy
    <3> QED
      BY <2>2, <3>1 DEF OffsetOK, Suits, Delays
  <2>3. CASE s \in Subs /\ off + current \in Delays(restarts)
    <3>1. ts_offset' + current \in Delays(restarts)
      BY <1>3, <1>8, <2>3
    <3> QED
      BY <3>1 DEF OffsetOK, Suits, Delays
  <2>4. CASE s \in Subs /\ \E r \in AV : clock[r] # current /\ off + clock[r] \in Delays(restarts - 1)
    <3>1. PICK r \in AV : clock[r] # current /\ off + clock[r] \in Delays(restarts - 1)
      BY <2>4
    <3>2. r \in InputStreams \ {s}
      BY <2>4, Numbers, InputStreamsAssumption
    <3>3. clock'[r] # current /\ ts_offset' + clock'[r] \in Delays(restarts - 1)
      BY <1>3, <1>8, <1>11, <2>4, <3>1, <3>2
    <3> QED
      BY <3>3 DEF OffsetOK, Suits, Delays
  <2> QED
    BY <1>2, <2>1, <2>2, <2>3, <2>4 DEF Applies, InputStreams
<1>17. LastOK'
  <2> SUFFICES ASSUME restarts = 0
               PROVE  last_ts' >= 0 /\ \A r \in InputStreams : ~HasSent(r)' => last_ts' <= Skew
    BY DEF LastOK
  <2>1. current = 0 /\ c = 0 /\ \A r \in InputStreams : clock[r] = 0
    BY <1>0 DEF ClockOK, Sends
  <2>2. o + 0 \in Delays(0)
    <3>1. CASE s \in AV
      BY <1>4, <2>1, <3>1 DEF SeenBy
    <3>2. CASE s \in Subs
      BY <1>2, <1>8, <2>1, <3>2, Numbers DEF Applies
    <3> QED
      BY <3>1, <3>2 DEF InputStreams
  <2>3. o = -EnabledStart
    BY <1>0, <1>5, <2>2, Numbers DEF Delays
  <2>4. last_ts' = t - EnabledStart
    BY <1>0, <1>3, <1>5, <2>1, <2>3
  <2>5. ASSUME NEW r \in InputStreams, ~HasSent(r)'
        PROVE  t - EnabledStart <= Skew
    <3>1. r \in InputStreams \ {s} /\ ~HasSent(r)
      BY <1>13, <1>14, <2>5
    <3>2. time[r] = EnabledStart - Duration[r] /\ Duration[r] \in Nat
      BY <3>1, Numbers DEF OffsetInv, StreamOK
    <3>3. t - time[r] <= Skew
      BY <3>1 DEF Together
    <3> QED
      BY <1>0, <3>2, <3>3, Numbers
  <2> QED
    BY <1>0, <1>1, <2>4, <2>5
<1>18. ASSUME NEW r \in InputStreams
       PROVE  StreamOK(r)'
  <2>1. CASE r = s
    <3>1. s \in Ahead => ~wrap_correction_done'[s]
      <4> SUFFICES ASSUME s \in Ahead PROVE ~wrap_correction_done'[s]
        OBVIOUS
      <4>1. WrapCorrection(s, Stamp(s, t, c)) /\ ~wrap_correction_done[s]
        BY <1>0, <1>1, Unwrapped DEF StreamOK
      <4> QED
        BY <1>0, <1>3, <4>1 DEF InputTypes
    <3>2. s \in AV => Lag(s)' \in Delays(SeenBy(c))
      BY <1>3, <1>4, <1>13
    <3>3. Seen(s)' = SeenBy(c)
      BY <1>11 DEF Seen, SeenBy
    <3>4. s \in AV => Lag(s)' \in Delays(Seen(s))'
      BY <3>2, <3>3 DEF Delays
    <3>5. /\ next_dts'[s] = dts'[s] + Advance(s) /\ next_dts'[s] # AV_NOPTS_VALUE
          /\ time'[s] \in EnabledStart..LastTime
          /\ dts'[s] <= top'[s] /\ top'[s] <= next_dts'[s] + Tenth
      BY <1>1, <1>10, <1>11, <1>24
    <3> QED
      BY <1>13, <2>1, <3>1, <3>4, <3>5 DEF StreamOK
  <2>2. CASE r # s
    <3>1. StreamOK(r)
      BY DEF OffsetInv
    <3>2. Seen(r)' = Seen(r)
      BY <1>11, <2>2 DEF Seen
    <3> QED
      BY <1>11, <1>14, <2>2, <3>1, <3>2 DEF StreamOK, Delays
  <2> QED
    BY <2>1, <2>2
<1>19. /\ Settled /\ ~NoneSent => ts_offset' >= ts_offset
       /\ Settled /\ ~NoneSent /\ HasSent(s) /\ Lag(s) <= ts_offset + current => ts_offset' = ts_offset
  <2> SUFFICES ASSUME Settled, ~NoneSent
               PROVE  /\ ts_offset' >= ts_offset
                      /\ HasSent(s) /\ Lag(s) <= ts_offset + current => ts_offset' = ts_offset
    OBVIOUS
  <2>1. c = current /\ g = 0 /\ off = ts_offset /\ \A r \in AV : clock[r] = current
    BY <1>2, Numbers DEF Settled, Sends
  <2>2. off + c \in Delays(SeenBy(c))
    BY <1>2, <2>1 DEF Applies, SeenBy
  <2>3. x <= 0 /\ (HasSent(s) /\ Lag(s) <= ts_offset + current => x = 0)
    BY <1>4, <2>1, <2>2
  <2>4. ts_offset' = ts_offset - x /\ ts_offset \in Int
    BY <1>2, <1>3, <2>1 DEF o
  <2> QED
    BY <1>4, <2>3, <2>4
<1>20. \A r \in InputStreams : StreamOK(r)'
  BY <1>18
<1>22. \A r \in AV : HasSent(r) => dts'[r] + Tenth >= dts[r]
  <2> SUFFICES ASSUME NEW r \in AV, HasSent(r) PROVE dts'[r] + Tenth >= dts[r]
    OBVIOUS
  <2>1. CASE r = s
    <3>1. dts[s] <= top[s] /\ dts[s] \in Int /\ top[s] \in Int /\ Tenth \in Nat
      BY <1>0, <2>1, Numbers DEF StreamOK, InputTypes
    <3> QED
      BY <1>5, <1>11, <1>21, <2>1, <3>1
  <2>2. CASE r # s
    <3>1. r \in InputStreams \ {s}
      BY <2>2, Numbers
    <3>2. dts'[r] = dts[r] /\ dts[r] \in Int /\ Tenth \in Nat
      BY <1>0, <1>11, <3>1, Numbers DEF InputTypes
    <3> QED
      BY <3>2
  <2> QED
    BY <2>1, <2>2
<1> QED
  BY <1>12, <1>13, <1>14, <1>15, <1>16, <1>17, <1>19, <1>20, <1>22 DEF After

-----------------------------------------------------------------------------
(* Actions *)

(* Before all streams have the new clock no round is counted.              *)
LEMMA Unsettled ==
  ASSUME OffsetInv, ~Settled, NEW r \in InputStreams
  PROVE  since[r] = 0
<1>1. since[r] \in 0..2 /\ SinceOK(r)
  BY DEF OffsetInv, InputTypes
<1>2. ~(since[r] >= 1)
  BY <1>1 DEF SinceOK
<1> QED
  BY <1>1, <1>2

(* A packet.                                                               *)
LEMMA InputPacketStep ==
  ASSUME OffsetInv, NEW s \in InputStreams, InputPacket(s)
  PROVE  /\ OffsetInv'
         /\ (\A r \in InputStreams : since[r] = 2) => ts_offset' = ts_offset
         /\ \A r \in AV : HasSent(r) => dts'[r] + Tenth >= dts[r]
<1> DEFINE t == time[s] + Duration[s]
           c == clock[s]
<1>0. /\ InputTypes /\ c \in AllClocks /\ t \in Int /\ 0 \in 0..Loss /\ Sends(s, t, c, 0)
      /\ since \in [InputStreams -> 0..2] /\ ts_offset \in Int /\ current \in Int
  <2>1. InputTypes
    BY DEF OffsetInv
  <2>2. time[s] \in Int /\ Duration[s] \in Nat /\ Loss \in Nat
    BY <2>1, Numbers DEF InputTypes
  <2>3. t = t + 0
    BY <2>2
  <2>4. Sends(s, t, c, 0)
    BY <2>3, Zenon DEF Sends
  <2> QED
    BY <2>1, <2>2, <2>4, Numbers DEF InputTypes
<1>1. /\ t <= LastTime /\ Together(s, t) /\ process_input(s, Stamp(s, t, c))
      /\ time' = [time EXCEPT ![s] = t] /\ since' = Round(s)
      /\ clock' = clock /\ current' = current /\ restarts' = restarts
  BY DEF InputPacket
<1>2. clock' = [clock EXCEPT ![s] = c]
  BY <1>0, <1>1 DEF InputTypes
<1>3. /\ since' \in [InputStreams -> 0..2]
      /\ \A r \in InputStreams \ {s} : since'[r] = since[r]
      /\ since'[s] >= since[s]
      /\ since'[s] # since[s] =>
           Settled /\ since'[s] = since[s] + 1 /\ \A r \in InputStreams : since[s] <= since[r]
  <2>1. CASE Settled /\ since[s] < 2 /\ \A r \in InputStreams : since[s] <= since[r]
    <3>1. since' = [since EXCEPT ![s] = since[s] + 1]
      BY <1>1, <2>1 DEF Round
    <3> QED
      BY <1>0, <2>1, <3>1
  <2>2. CASE ~(Settled /\ since[s] < 2 /\ \A r \in InputStreams : since[s] <= since[r])
    <3>1. since' = since
      BY <1>1, <2>2 DEF Round
    <3> QED
      BY <1>0, <3>1
  <2> QED
    BY <2>1, <2>2
<1> HIDE DEF t, c
<1>4. After(s, c)
  BY <1>0, <1>1, <1>2, <1>3, Step
<1>5. Settled' <=> Settled
  BY <1>1 DEF Settled
<1>6. ASSUME NEW r \in InputStreams
      PROVE  SinceOK(r)'
  <2>1. CASE ~Settled
    <3>1. since'[r] = 0
      BY <1>3, <2>1, Unsettled
    <3> QED
      BY <3>1 DEF SinceOK
  <2>2. CASE Settled /\ NoneSent
    <3>1. \A q \in InputStreams : since[q] = 0
      BY <2>2 DEF NoneSent
    <3>2. since'[r] \in {0, 1} /\ (since'[r] = 1 => r = s)
      BY <1>3, <3>1
    <3>3. c = current' /\ HasSent(s)' /\ Lag(s)' = ts_offset' + c /\ ts_offset' \in Int
      BY <1>1, <1>4, <2>2 DEF Settled, c, After, InputTypes
    <3>5. Lag(s)' = ts_offset' + current'
      BY <3>3
    <3>6. ts_offset' + current' \in Int
      BY <1>0, <1>1, <3>3
    <3> DEFINE z == ts_offset' + current'
    <3>7. z <= z
      <4> HIDE DEF z
      <4>1. z \in Int
        BY <3>6 DEF z
      <4> QED
        BY <4>1
    <3>4. Lag(s)' <= (ts_offset + current)'
      BY <3>5, <3>7, Zenon
    <3> QED
      BY <1>5, <2>2, <3>2, <3>3, <3>4 DEF SinceOK
  <2>3. CASE Settled /\ ~NoneSent
    <3>1. c = current /\ ts_offset' \in Int /\ ts_offset' >= ts_offset
      BY <1>4, <2>3 DEF Settled, c, After, InputTypes
    <3>2. CASE r = s
      <4>1. HasSent(r)' /\ Lag(r)' = ts_offset' + current
        BY <1>4, <3>1, <3>2 DEF After
      <4>2. since'[r] = 2 => \A q \in InputStreams : since'[q] >= 1
        <5> SUFFICES ASSUME since'[r] = 2, NEW q \in InputStreams PROVE since'[q] >= 1
          OBVIOUS
        <5>1. CASE since[s] = 2
          <6>1. since[q] >= 1 /\ since[q] \in 0..2
            BY <1>0, <5>1 DEF OffsetInv, SinceOK
          <6>2. CASE q = s
            BY <3>2, <6>2
          <6>3. CASE q # s
            BY <1>3, <6>1, <6>3
          <6> QED
            BY <6>2, <6>3
        <5>2. CASE since[s] # 2
          <6>1. since[s] \in 0..2 /\ since[q] \in 0..2
            BY <1>0
          <6>2. since[s] = 1 /\ since[s] <= since[q]
            BY <1>3, <3>2, <5>2, <6>1
          <6>3. CASE q = s
            BY <3>2, <6>3
          <6>4. CASE q # s
            BY <1>3, <6>1, <6>2, <6>4
          <6> QED
            BY <6>3, <6>4
        <5> QED
          BY <5>1, <5>2
      <4>5. Lag(r)' = ts_offset' + current'
        BY <1>1, <4>1
      <4> DEFINE z == ts_offset' + current'
      <4>6. z \in Int
        BY <1>0, <1>1, <3>1
      <4>7. z <= z
        <5> HIDE DEF z
        <5> QED
          BY <4>6
      <4>3. Lag(r)' <= (ts_offset + current)' /\ Lag(r)' = (ts_offset + current)'
        BY <4>5, <4>7, Zenon
      <4> QED
        BY <1>5, <2>3, <4>1, <4>2, <4>3 DEF SinceOK
    <3>3. CASE r # s
      <4>1. since'[r] = since[r] /\ Lag(r)' = Lag(r) /\ (HasSent(r) => HasSent(r)') /\ SinceOK(r)
        BY <1>3, <1>4, <3>3 DEF After, OffsetInv
      <4>2. Lag(r) \in Int
        BY <1>0 DEF Lag, InputTypes
      <4>3. since[r] >= 1 => HasSent(r)' /\ Lag(r)' <= (ts_offset + current)'
        <5> SUFFICES ASSUME since[r] >= 1 PROVE HasSent(r)' /\ Lag(r)' <= (ts_offset + current)'
          OBVIOUS
        <5>1. HasSent(r) /\ Lag(r) <= ts_offset + current
          BY <4>1 DEF SinceOK
        <5> QED
          BY <1>0, <1>1, <3>1, <4>1, <4>2, <5>1
      <4>4. since[r] = 2 => Lag(r)' = (ts_offset + current)' /\ \A q \in InputStreams : since'[q] >= 1
        <5> SUFFICES ASSUME since[r] = 2
                     PROVE  Lag(r)' = (ts_offset + current)' /\ \A q \in InputStreams : since'[q] >= 1
          OBVIOUS
        <5>1. Lag(r) = ts_offset + current /\ \A q \in InputStreams : since[q] >= 1
          BY <4>1 DEF SinceOK
        <5>2. HasSent(s) /\ Lag(s) <= ts_offset + current
          BY <5>1 DEF OffsetInv, SinceOK
        <5>3. ts_offset' = ts_offset
          BY <1>4, <2>3, <5>2 DEF After
        <5>4. \A q \in InputStreams : since'[q] >= 1
          BY <1>0, <1>3, <5>1
        <5> QED
          BY <1>1, <4>1, <5>1, <5>3, <5>4
      <4> QED
        BY <1>5, <2>3, <4>1, <4>3, <4>4 DEF SinceOK
    <3> QED
      BY <3>2, <3>3
  <2> QED
    BY <2>1, <2>2, <2>3
<1>7. OffsetInv'
  BY <1>4, <1>6 DEF After, OffsetInv
<1>8. (\A r \in InputStreams : since[r] = 2) => ts_offset' = ts_offset
  <2> SUFFICES ASSUME \A r \in InputStreams : since[r] = 2 PROVE ts_offset' = ts_offset
    OBVIOUS
  <2>1. Settled /\ HasSent(s) /\ Lag(s) <= ts_offset + current /\ ~NoneSent
    BY DEF OffsetInv, SinceOK, NoneSent
  <2> QED
    BY <1>4, <2>1 DEF After
<1> QED
  BY <1>4, <1>7, <1>8 DEF After

(* The first packet of a stream with the new clock.                        *)
LEMMA ResumeStep ==
  ASSUME OffsetInv, NEW s \in InputStreams, NEW lost \in 0..Loss, Resume(s, lost)
  PROVE  /\ OffsetInv' /\ ~Settled
         /\ \A r \in AV : HasSent(r) => dts'[r] + Tenth >= dts[r]
<1> DEFINE t == time[s] + Duration[s] + lost
           c == current
<1>0. InputTypes /\ c \in AllClocks /\ t \in Int /\ since \in [InputStreams -> 0..2]
  <2>1. InputTypes
    BY DEF OffsetInv
  <2>2. time[s] \in Int /\ Duration[s] \in Nat /\ Loss \in Nat
    BY <2>1, Numbers DEF InputTypes
  <2> QED
    BY <2>1, <2>2 DEF InputTypes
<1>1. /\ t <= LastTime /\ Together(s, t) /\ process_input(s, Stamp(s, t, c)) /\ clock[s] # current
      /\ time' = [time EXCEPT ![s] = t] /\ since' = since
      /\ clock' = [clock EXCEPT ![s] = c] /\ current' = current /\ restarts' = restarts
  BY DEF Resume
<1>2. Sends(s, t, c, lost)
  BY <1>1, Zenon DEF Sends
<1> HIDE DEF t, c
<1>3. After(s, c)
  BY <1>0, <1>1, <1>2, Step
<1>4. ~Settled
  BY <1>1 DEF Settled
<1>5. ASSUME NEW r \in InputStreams
      PROVE  SinceOK(r)'
  <2>1. since'[r] = 0
    BY <1>1, <1>4, Unsettled
  <2> QED
    BY <2>1 DEF SinceOK
<1> QED
  BY <1>3, <1>4, <1>5 DEF After, OffsetInv

(* The source is restarted.                                                *)
LEMMA RestartStep ==
  ASSUME OffsetInv, NEW c \in Clocks, Restart(c)
  PROVE  OffsetInv' /\ restarts' # restarts /\ dts' = dts
<1>0. /\ InputTypes /\ ClockOK /\ restarts \in 0..Restarts /\ restarts < Restarts /\ Restarts \in Nat
      /\ Settled /\ c # current /\ \A s \in AV : since[s] > 0
      /\ restarts' = restarts + 1 /\ current' = c /\ since' = [s \in InputStreams |-> 0]
      /\ ts_offset' = ts_offset /\ last_ts' = last_ts /\ next_dts' = next_dts /\ dts' = dts /\ top' = top
      /\ wrap_correction_done' = wrap_correction_done /\ time' = time /\ clock' = clock
  BY Numbers DEF OffsetInv, InputTypes, Restart, ist
<1>1. \A s \in AV : HasSent(s)
  <2> SUFFICES ASSUME NEW s \in AV PROVE HasSent(s)
    OBVIOUS
  <2>1. s \in InputStreams /\ since[s] > 0 /\ since[s] \in 0..2 /\ SinceOK(s)
    BY <1>0, Numbers DEF OffsetInv, InputTypes
  <2>2. since[s] >= 1
    BY <2>1
  <2> QED
    BY <2>1, <2>2 DEF SinceOK
<1>2. \A s \in InputStreams : clock[s] = current
  BY <1>0 DEF Settled
<1>3. restarts' > 0 /\ restarts' \in 0..Restarts /\ restarts' - 1 = restarts /\ restarts' # restarts
  BY <1>0
<1>4. InputTypes'
  <2>1. c \in AllClocks /\ since' \in [InputStreams -> 0..2]
    BY <1>0 DEF AllClocks
  <2> QED
    BY <1>0, <1>3, <2>1 DEF InputTypes
<1>5. ClockOK'
  BY <1>0, <1>1, <1>2, <1>3 DEF ClockOK, HasSent
<1>6. LastOK'
  BY <1>3 DEF LastOK
<1>7. ASSUME NEW s \in InputStreams
      PROVE  StreamOK(s)' /\ SinceOK(s)'
  <2>1. Seen(s)' = Seen(s)
    BY <1>0, <1>2, <1>3 DEF Seen
  <2>2. StreamOK(s)
    BY DEF OffsetInv
  <2>3. StreamOK(s)'
    BY <1>0, <2>1, <2>2 DEF StreamOK, HasSent, Lag, Delays
  <2>4. since'[s] = 0
    BY <1>0
  <2>5. SinceOK(s)'
    BY <2>4 DEF SinceOK
  <2> QED
    BY <2>3, <2>5
<1>8. OffsetOK'
  <2>1. PICK r \in AV : TRUE
    BY Numbers
  <2>2. HasSent(r) /\ r \in InputStreams
    BY <1>1, Numbers
  <2>3. ~NoneSent
    BY <2>2 DEF NoneSent
  <2>4. Suits(restarts, current)
    BY <1>2, <2>3, Numbers DEF OffsetInv, OffsetOK
  <2>5. clock'[r] # current' /\ ts_offset' + clock'[r] \in Delays(restarts' - 1)
    BY <1>0, <1>2, <1>3, <2>2, <2>4 DEF Suits
  <2> QED
    BY <2>5 DEF OffsetOK, Suits, Delays
<1> QED
  BY <1>0, <1>3, <1>4, <1>5, <1>6, <1>7, <1>8 DEF OffsetInv

(* A step that changes nothing.                                            *)
LEMMA InputStutterStep ==
  ASSUME OffsetInv, UNCHANGED inputVars
  PROVE  OffsetInv'
BY DEF OffsetInv, InputTypes, ClockOK, LastOK, StreamOK, SinceOK, NoneSent, OffsetOK, Suits, Settled, HasSent, Lag,
       Seen, Delays, inputVars, ist

(* Any step.                                                               *)
LEMMA NextOffsetInv ==
  ASSUME OffsetInv, NextInput
  PROVE  /\ OffsetInv'
         /\ (\A r \in InputStreams : since[r] = 2) /\ restarts' = restarts => ts_offset' = ts_offset
         /\ \A r \in AV : HasSent(r) => dts'[r] + Tenth >= dts[r]
<1>1. ASSUME NEW s \in InputStreams, InputPacket(s)
      PROVE  /\ OffsetInv'
             /\ (\A r \in InputStreams : since[r] = 2) => ts_offset' = ts_offset
             /\ \A r \in AV : HasSent(r) => dts'[r] + Tenth >= dts[r]
  BY <1>1, InputPacketStep
<1>2. ASSUME NEW s \in InputStreams, NEW lost \in 0..Loss, Resume(s, lost)
      PROVE  /\ OffsetInv' /\ \E r \in InputStreams : since[r] # 2
             /\ \A r \in AV : HasSent(r) => dts'[r] + Tenth >= dts[r]
  <2>1. /\ OffsetInv' /\ ~Settled
        /\ \A r \in AV : HasSent(r) => dts'[r] + Tenth >= dts[r]
    BY <1>2, ResumeStep
  <2>2. since[s] = 0
    BY <2>1, Unsettled
  <2> QED
    BY <2>1, <2>2
<1>3. ASSUME NEW c \in Clocks, Restart(c)
      PROVE  /\ OffsetInv' /\ restarts' # restarts
             /\ \A r \in AV : HasSent(r) => dts'[r] + Tenth >= dts[r]
  <2>1. OffsetInv' /\ restarts' # restarts /\ dts' = dts
    BY <1>3, RestartStep
  <2>2. \A r \in AV : dts[r] \in Int /\ Tenth \in Nat
    BY Numbers DEF OffsetInv, InputTypes
  <2> QED
    BY <2>1, <2>2
<1>4. CASE \E s \in InputStreams : InputPacket(s)
  BY <1>1, <1>4
<1>5. CASE \E s \in InputStreams : \E lost \in 0..Loss : Resume(s, lost)
  BY <1>2, <1>5
<1>6. CASE \E c \in Clocks : Restart(c)
  BY <1>3, <1>6
<1> QED
  BY <1>4, <1>5, <1>6 DEF NextInput

(* The beginning.                                                          *)
LEMMA InitOffsetInv == InitInput => OffsetInv
<1> SUFFICES ASSUME InitInput PROVE OffsetInv
  OBVIOUS
<1>0. /\ StartTime \in Nat /\ EnabledStart \in Nat /\ AV_NOPTS_VALUE \in Int /\ 0 \in AllClocks
      /\ Restarts \in Nat /\ \A s \in InputStreams : Duration[s] \in Nat
  BY Numbers
<1>1. InputTypes
  BY <1>0 DEF InitInput, InputTypes
<1>2. \A s \in InputStreams : ~HasSent(s) /\ since[s] = 0
  BY DEF InitInput, HasSent
<1>3. NoneSent
  BY <1>2 DEF InitInput, NoneSent
<1>4. ClockOK /\ LastOK
  BY DEF InitInput, ClockOK, LastOK
<1>5. \A s \in InputStreams : StreamOK(s) /\ SinceOK(s)
  BY <1>2 DEF InitInput, StreamOK, SinceOK
<1> QED
  BY <1>1, <1>3, <1>4, <1>5 DEF OffsetInv

(* The invariant gives InSync.                                             *)
LEMMA InvInSync == OffsetInv => InSync
<1> SUFFICES ASSUME OffsetInv PROVE InSync
  OBVIOUS
<1>0. InputTypes /\ StartTime \in Nat /\ EnabledStart \in Nat /\ EnabledStart >= StartTime /\ Lost \in Nat
      /\ LastTime \in Nat
  BY Numbers DEF OffsetInv
<1>1. ASSUME NEW s \in AV, HasSent(s)
      PROVE  dts[s] \in (-Lost)..(LastTime - StartTime)
  <2>1. s \in InputStreams /\ StreamOK(s) /\ dts[s] \in Int /\ time[s] \in Int /\ restarts \in 0..Restarts
    BY <1>0, Numbers DEF OffsetInv, InputTypes
  <2>2. Seen(s) \in 0..Restarts
    <3>1. clock[s] # current => restarts # 0
      BY <2>1 DEF OffsetInv, ClockOK
    <3> QED
      BY <2>1, <3>1, Numbers DEF Seen
  <2>3. Lag(s) \in Delays(Seen(s)) /\ time[s] \in EnabledStart..LastTime
    BY <1>1, <2>1 DEF StreamOK
  <2>4. Lag(s) >= -EnabledStart - Lost /\ Lag(s) <= -EnabledStart
    BY <2>2, <2>3, Within
  <2> QED
    BY <1>0, <2>1, <2>3, <2>4 DEF Lag
<1>2. \A t \in {dts[s] : s \in AV} : t = AV_NOPTS_VALUE \/ t \in (-Lost)..(LastTime - StartTime)
  BY <1>1 DEF HasSent
<1>3. \A s \in InputStreams : /\ next_dts[s] = AV_NOPTS_VALUE <=> dts[s] = AV_NOPTS_VALUE
                         /\ since[s] \in 0..2 /\ wrap_correction_done[s] \in BOOLEAN
  BY <1>0 DEF OffsetInv, StreamOK, HasSent, InputTypes
<1>4. InputTypeOK
  BY <1>0, <1>2, <1>3 DEF InputTypeOK, InputTypes
<1>5. (\A s \in InputStreams : since[s] = 2) => \A s \in InputStreams : Lag(s) = ts_offset + current
  BY DEF OffsetInv, SinceOK
<1> QED
  BY <1>4, <1>5 DEF InSync

-----------------------------------------------------------------------------
(* Theorems *)

(* Invariant: the delays of pictures and sound stay within what was lost,  *)
(* and the offset suits one of the clocks in use.                          *)
THEOREM OffsetInvariant == SpecInput => []OffsetInv
<1>1. OffsetInv /\ [NextInput]_inputVars => OffsetInv'
  BY NextOffsetInv, InputStutterStep
<1> QED
  BY <1>1, InitOffsetInv, PTL DEF SpecInput

(* StreamsInSync: whenever every stream has sent two packets since the last*)
(* of them got the clock of a restarted source, the one ts_offset of       *)
(* process_input delays them all alike; and no stamp leaves the range.     *)
THEOREM StreamsInSync == SpecInput => []InSync
BY OffsetInvariant, InvInSync, PTL

(* OffsetSettles: from then on process_input does not move the offset.     *)
THEOREM OffsetSettles == SpecInput => Settles
<1> DEFINE A == (\A s \in InputStreams : since[s] = 2) /\ restarts' = restarts => ts_offset' = ts_offset
<1>1. OffsetInv /\ [NextInput]_inputVars => [A]_inputVars
  BY NextOffsetInv
<1> QED
  BY <1>1, OffsetInvariant, PTL DEF SpecInput, Settles

(* NeverSetBack: no correction of process_input sets the stamps of pictures*)
(* or sound back by more than a tenth of a second.                         *)
THEOREM NeverSetBack == SpecInput => NoSetback
<1> DEFINE A == \A s \in AV : dts[s] # AV_NOPTS_VALUE => dts'[s] + Tenth >= dts[s]
<1>1. OffsetInv /\ [NextInput]_inputVars => [A]_inputVars
  BY NextOffsetInv DEF HasSent
<1> QED
  BY <1>1, OffsetInvariant, PTL DEF SpecInput, NoSetback
=============================================================================
