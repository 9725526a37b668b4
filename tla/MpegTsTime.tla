----------------------------- MODULE MpegTsTime -----------------------------
(***************************************************************************)
(* The time stamps of an MPEG-TS input, from the header of a PES packet to *)
(* the packet that av_read_frame gives ffmpeg.  They are counters of Bits  *)
(* bits (33 in the standard, 26.5 hours at 90 kHz), and a transcoder runs  *)
(* for weeks.  The copy of ffmpeg in this repository unrolls them in       *)
(* mpegts.c ("Added for TS unroll patch"); the wrap handling of the        *)
(* original, in utils.c, still runs after it.                              *)
(*                                                                         *)
(* The source has a clock that never wraps, T.  What it sends is T modulo  *)
(* 2^Bits; what the demuxer gives must be T again, up to one constant.     *)
(***************************************************************************)
EXTENDS Integers, FiniteSets

CONSTANTS
  Bits,              \* st->pts_wrap_bits
  Minute,            \* the 60 s of update_wrap_reference, in ticks
  Deadline, TenSec,  \* 3654 + 9000 and 10 * 90000 in mpegts_push_data
  Video, Audio,      \* the streams; a stream is <<program, name>>
  Teletext, DvbSub,
  Clock,             \* how far the clock of each program is ahead
  NoPts,             \* AV_NOPTS_VALUE, a number no time stamp has
  Start,             \* the times at which the input may be joined
  Jitter,            \* bound: how far packets are out of order in the multiplex
  Delay,             \* bound: pts - dts of a picture
  Frame,             \* the duration of a frame of sound
  Gap,               \* bound: how long a stream is silent
  Horizon            \* bound: the last T

Streams  == Video \cup Audio \cup Teletext \cup DvbSub
Programs == DOMAIN Clock
NoStream == <<0, "none">>
M        == 2^Bits
Half     == 2^(Bits - 1)

ASSUME BitsAssumption ==
  /\ Bits \in Nat /\ Bits > 3
  /\ Half \in Nat \ {0} /\ M = Half + Half /\ 2^(Bits - 3) \in Nat
ASSUME StreamsAssumption ==
  /\ IsFiniteSet(Streams) /\ \A s \in Streams : s[1] \in Programs
  /\ (Teletext \cup DvbSub) \cap (Video \cup Audio) = {} /\ Video \cap Audio = {}
ASSUME TimesAssumption ==
  /\ {Minute, Deadline, TenSec, Jitter, Delay, Frame, Gap, Horizon} \subseteq Nat
  /\ Start \subseteq 0..Horizon /\ Clock \in [Programs -> Nat]
  /\ Deadline <= TenSec
  /\ NoPts \in Int /\ NoPts < -(Horizon + M)

(* The programs run less than half a wrap apart, with what is sent early   *)
(* or late: unroll_timestamp takes the shorter way round.                  *)
ASSUME ClocksAssumption == \A p, q \in Programs :
  /\ Clock[p] - Clock[q] + 2 * Jitter + Delay < Half
  /\ Clock[p] - Clock[q] + Jitter + TenSec < Half

(* What is sent late is less than the minute of update_wrap_reference late.*)
ASSUME LateAssumption == Gap + Jitter + TenSec <= Minute /\ 2 * Jitter + 1 + TenSec <= Minute

VARIABLES
  base_ts,   \* MpegTSContext.base_ts, 0 while there is none
  pts_wrap,  \* pts_wrap_reference and pts_wrap_behavior of each program
  cur_dts,   \* st->cur_dts of pictures and sound; NoPts while it is relative
  now, last, \* T of the picture or sound sent last, and of each stream's last
  end,       \* T at which the sound given last of each stream ends
  pcr,       \* T of the last PCR of each program
  pkt,       \* the packet given last, with the T of its two stamps
  shift,     \* out - T of the first packet given of each program
  good       \* beside the first stamp of the input no other is 0 or less

vars == <<base_ts, pts_wrap, cur_dts, now, last, end, pcr, pkt, shift, good>>

Ignore == [reference |-> NoPts, behavior |-> "ignore"]

Init ==
  /\ base_ts = 0
  /\ pts_wrap = [p \in Programs |-> Ignore]
  /\ cur_dts = [s \in Video \cup Audio |-> NoPts]
  /\ now \in Start
  /\ last = [s \in Video \cup Audio |-> now - Jitter - 1]
  /\ end = [s \in Audio |-> now - Jitter]
  /\ pcr = [p \in Programs |-> NoPts]
  /\ pkt = [stream |-> NoStream, pts |-> NoPts, dts |-> NoPts, tpts |-> NoPts, tdts |-> NoPts]
  /\ shift = [p \in Programs |-> NoPts]
  /\ good = TRUE

-----------------------------------------------------------------------------
(* mpegts.c                                                                *)

(* The 33-bit difference, as a signed number.                              *)
Signed(d) == IF d % M >= Half THEN (d % M) - M ELSE d % M

UnrollNone(base, t) == IF t = NoPts THEN base ELSE t      \* mutant

(* base_ts after unroll_timestamp, which is also what it returns unless t  *)
(* is AV_NOPTS_VALUE.                                                      *)
unroll_timestamp(base, t) ==
  IF t = NoPts THEN base
  ELSE LET b == IF base = 0 THEN t ELSE base IN b + Signed(t - b)

(* new_pes_packet unrolls the pts first.                                   *)
new_pes_packet(raw) ==
  LET b1 == unroll_timestamp(base_ts, raw.pts)
      b2 == unroll_timestamp(b1, raw.dts)
  IN  [pts |-> IF raw.pts = NoPts THEN NoPts ELSE b1,
       dts |-> IF raw.dts = NoPts THEN NoPts ELSE b2, base |-> b2]

FixPlain(s, dts, c) ==                                    \* mutant
  IF dts = NoPts \/ dts < c THEN c ELSE dts

(* fix_teletext_pts: the stamp of a subtitle must be near the last PCR, c. *)
(* The comparisons are of counters that wrap.                              *)
fix_teletext_pts(s, dts, c) ==
  IF dts = NoPts \/ dts < c THEN c
  ELSE IF \/ s \in Teletext /\ dts > c + Deadline
          \/ s \in DvbSub /\ dts > c + TenSec
       THEN c + Deadline ELSE dts

-----------------------------------------------------------------------------
(* utils.c                                                                 *)

(* The first stamp of a program decides: it is near the wrap, and what     *)
(* comes before the wrap is made negative, or what comes after the wrap,   *)
(* which is less than the reference, is raised.                            *)
update_wrap_reference(w, ref) ==
  IF w # Ignore \/ ref = NoPts THEN w
  ELSE LET r == ref % M
       IN  [reference |-> r - Minute,
            behavior  |-> IF r < M - 2^(Bits - 3) \/ r < M - Minute THEN "add" ELSE "sub"]

wrap_timestamp(w, t) ==
  IF w = Ignore \/ t = NoPts THEN t
  ELSE IF w.behavior = "add" /\ t < w.reference THEN t + M
  ELSE IF w.behavior = "sub" /\ t >= w.reference THEN t - M ELSE t

(* The wrap between pts and dts in compute_pkt_fields.                     *)
Apart(pts, dts) == pts # NoPts /\ dts # NoPts /\ dts - Half > pts

Mended(cur, pts, dts) ==
  IF ~Apart(pts, dts) THEN <<pts, dts>>
  ELSE IF cur = NoPts \/ dts - Half > cur THEN <<pts, dts - M>> ELSE <<pts + M, dts>>

(* A frame of sound that has no stamps follows the one before it.          *)
Interpolated(cur, pts, dts) ==
  IF pts # NoPts THEN pts ELSE IF dts # NoPts THEN dts ELSE cur

(* cur_dts follows the dts.                                                *)
CurDts(cur, dts) == IF dts # NoPts /\ (cur = NoPts \/ dts > cur) THEN dts ELSE cur

(* The pictures are H.264 or HEVC: one without stamps is given without     *)
(* them, the interpolation for MPEG-2 pictures is not taken, and a dts that*)
(* is there is not selected again.  Nothing drops a dts: the pictures of a *)
(* stream are sent in the order of their dts, and where there are B        *)
(* pictures only these have a pts equal to the dts.                        *)
compute_pkt_fields(s, pts, dts) ==
  LET cur == IF s \in Video \cup Audio THEN cur_dts[s] ELSE NoPts
      w   == Mended(cur, pts, dts)
      t   == Interpolated(cur, w[1], w[2])
  IN  IF s \in Audio THEN [pts |-> t, dts |-> t, cur |-> t + Frame]
      ELSE [pts |-> w[1], dts |-> w[2], cur |-> CurDts(cur, w[2])]

-----------------------------------------------------------------------------
(* A packet of stream s is given with the fields c; tpts and tdts are the T*)
(* of its two stamps.                                                      *)
Given(s, c, tpts, tdts) ==
  /\ cur_dts' = [v \in Video \cup Audio |-> IF v = s THEN c.cur ELSE cur_dts[v]]
  /\ pkt' = [stream |-> s, pts |-> c.pts, dts |-> c.dts, tpts |-> tpts, tdts |-> tdts]
  /\ shift' = IF shift[s[1]] # NoPts \/ c.dts = NoPts THEN shift
              ELSE [shift EXCEPT ![s[1]] = c.dts - tdts]

(* The first stamp of the input, of program p, is pts: unrolled beside it, *)
(* what the programs send from then on is more than 0.                     *)
JoinedWell(p, pts, t) ==
  \A q \in Programs : pts - (t - now) + Clock[q] - Clock[p] > 2 * Jitter

(* A PES packet of stream s with these counters goes through all of it.    *)
av_read_frame(s, raw, tpts, tdts) ==
  LET p == s[1]
      u == new_pes_packet(raw)
      w == update_wrap_reference(pts_wrap[p], IF u.dts = NoPts THEN u.pts ELSE u.dts)
  IN  /\ base_ts' = u.base
      /\ pts_wrap' = [pts_wrap EXCEPT ![p] = w]
      /\ good' = (good /\ (base_ts = 0 /\ u.pts # NoPts => JoinedWell(p, u.pts, tpts)))
      /\ Given(s, compute_pkt_fields(s, wrap_timestamp(w, u.pts), wrap_timestamp(w, u.dts)),
               tpts, tdts)

Counter(p, t) == (t + Clock[p]) % M

(* The source: the next packet of a stream, a little out of order.         *)
Packet(s, t, d) ==
  /\ t > last[s] /\ t \in 1..Horizon
  /\ \A r \in Video \cup Audio : r # s => t - last[r] <= Gap
  /\ s \in Audio => d = 0 /\ t >= end[s]
  /\ now' = t /\ last' = [last EXCEPT ![s] = t]
  /\ end' = [a \in Audio |-> IF a = s THEN t + Frame ELSE end[a]]
  /\ av_read_frame(s, [pts |-> Counter(s[1], t + d), dts |-> Counter(s[1], t)], t + d, t)
  /\ UNCHANGED pcr

(* A PES packet without stamps.                                            *)
Unstamped(s) ==
  /\ av_read_frame(s, [pts |-> NoPts, dts |-> NoPts], NoPts, NoPts)
  /\ UNCHANGED <<pcr, now, last, end>>

(* The parser finds another frame of sound in the PES packet: only the     *)
(* first has the stamps of the header.  A frame lasts a whole number of    *)
(* ticks.  (Before the first stamp of the stream cur_dts is relative, and  *)
(* such frames wait for it.)                                               *)
Sound(s) ==
  /\ cur_dts[s] # NoPts /\ end[s] - last[s] <= Gap
  /\ Given(s, compute_pkt_fields(s, NoPts, NoPts), end[s], end[s])
  /\ end' = [end EXCEPT ![s] = @ + Frame]
  /\ UNCHANGED <<base_ts, pts_wrap, now, last, pcr, good>>

Pcr(p, t) ==
  /\ t > 0
  /\ pcr[p] # NoPts => t > pcr[p]
  /\ pcr' = [pcr EXCEPT ![p] = t]
  /\ UNCHANGED <<base_ts, pts_wrap, cur_dts, now, last, end, pkt, shift, good>>

(* The stamp of a subtitle is whatever its source says: too old, too new   *)
(* or absent.  Only what the fix makes of it is given.                     *)
Subtitle(s, t) ==
  LET p   == s[1]
      c   == Counter(p, pcr[p])
      dts == fix_teletext_pts(s, IF t = NoPts THEN NoPts ELSE Counter(p, t), c)
      tr  == pcr[p] + Signed(dts - c)
  IN  /\ pcr[p] # NoPts /\ pcr[p] \in (now - Jitter)..now
      /\ av_read_frame(s, [pts |-> dts, dts |-> dts], tr, tr)
      /\ UNCHANGED <<pcr, now, last, end>>

(* Before the first PCR the stamp of a subtitle is dropped.                *)
SubtitleEarly(s) ==
  /\ pcr[s[1]] = NoPts
  /\ Unstamped(s)

(* What the source may send next.                                          *)
Near      == (now - Jitter)..(now + Jitter)
SubTimes(p) == IF pcr[p] = NoPts THEN {} ELSE (pcr[p] - Jitter)..(pcr[p] + TenSec + 1)

Next ==
  \/ \E s \in Video \cup Audio, t \in Near, d \in 0..Delay : Packet(s, t, d)
  \/ \E s \in Video : Unstamped(s)
  \/ \E s \in Audio : Sound(s)
  \/ \E s \in Teletext \cup DvbSub, t \in (now - Jitter)..now : Pcr(s[1], t)
  \/ \E s \in Teletext \cup DvbSub :
       SubtitleEarly(s) \/ \E t \in SubTimes(s[1]) \cup {NoPts} : Subtitle(s, t)

Spec == Init /\ [][Next]_vars

-----------------------------------------------------------------------------
(* Properties.                                                             *)

(* TypeOK: the counters and what is made of them are numbers.              *)
TypeOK ==
  /\ base_ts \in Int /\ good \in BOOLEAN
  /\ \A p \in Programs : /\ pts_wrap[p].reference \in Int
                         /\ pts_wrap[p].behavior \in {"ignore", "add", "sub"}
                         /\ shift[p] \in Int
                         /\ pcr[p] = NoPts \/ pcr[p] \in 0..Horizon
  /\ \A s \in Video \cup Audio : cur_dts[s] \in Int
  /\ pkt.stream \in Streams \cup {NoStream}

(* Correct: the stamps of every packet, read or interpolated, are those of *)
(* the source, up to the constant the first packet of the program fixed:   *)
(* whatever the order of the streams, and however many times the counters  *)
(* wrap; and base_ts of unroll_timestamp stays near the source.  Except    *)
(* when the input is joined with the counter of the program that comes     *)
(* first wrapped, and that of another not yet, or just being wrapped: a    *)
(* stamp of the other is unrolled to 0 or less, update_wrap_reference takes*)
(* it for a number at the end of the range, and the stamps of the program  *)
(* fall by 2^Bits when they get there.                                     *)
Correct ==
  /\ TypeOK
  /\ good => /\ base_ts \in 0..(Horizon + TenSec + 2 * M)
             /\ pkt.dts # NoPts => pkt.dts = pkt.tdts + shift[pkt.stream[1]]
             /\ pkt.pts # NoPts => pkt.pts = pkt.tpts + shift[pkt.stream[1]]

(* SubsNearPcr: a subtitle is given within its deadline after the clock of *)
(* its program, across the wraps too, whatever its source stamped it, with *)
(* the exception of Correct.                                               *)
SubsNearPcr ==
  [][\A s \in Teletext \cup DvbSub :
       good' /\ pkt' # pkt /\ pkt'.stream = s /\ pkt'.dts # NoPts =>
         pkt'.dts - shift'[s[1]] - pcr[s[1]] \in 0..(IF s \in DvbSub THEN TenSec ELSE Deadline)]_vars
=============================================================================
