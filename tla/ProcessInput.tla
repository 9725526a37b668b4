---------------------------- MODULE ProcessInput ----------------------------
(***************************************************************************)
(* What ffmpeg does to the time stamps of its input before it decodes or   *)
(* copies a packet (process_input in fftools/ffmpeg.c): one offset for the *)
(* whole input, moved whenever the stamp of a packet is far from the one   *)
(* its stream should have next.  A source that is restarted, or a counter  *)
(* that wraps unseen, is such a case; all the streams meet it, each in its *)
(* own packet, in any order.                                               *)
(*                                                                         *)
(* Of a packet only the dts is kept: every correction moves pts and dts    *)
(* alike.  Of a decoder, which stamp the frames have that it gives.        *)
(***************************************************************************)
EXTENDS Integers, FiniteSets

CONSTANTS
  AV,             \* the video and audio streams
  Decoded,        \* those of them that are decoded, the others are copied
  Subs,           \* the subtitle streams
  Threshold,      \* dts_delta_threshold (10 s)
  Tenth,          \* AV_TIME_BASE / 10
  Duration,       \* of a packet, for each stream
  Early,          \* how long before it is due a decoder may give a frame
  WrapBits,       \* st->pts_wrap_bits
  AV_NOPTS_VALUE, \* a number no time stamp has
  Ahead,          \* the streams whose counters come one wrap ahead
  StartTime,      \* is->start_time
  EnabledStart,   \* the earliest start_time of a stream that is not discarded
  Clocks,         \* the clocks the source may have after a restart
  Skew,           \* bound: how far the streams are apart in the multiplex
  Loss,           \* bound: how much of a stream is lost when the source restarts
  Restarts,       \* bound: how often it does
  LastTime        \* bound: the last time

InputStreams == AV \cup Subs
AllClocks    == Clocks \cup {0}
Lost         == Restarts * Loss     \* at most, all restarts together

ASSUME InputStreamsAssumption ==
  IsFiniteSet(InputStreams) /\ AV # {} /\ AV \cap Subs = {}
  /\ Decoded \subseteq AV /\ Ahead \subseteq InputStreams
ASSUME InputTimesAssumption ==
  /\ {Threshold, Tenth, Early, WrapBits, StartTime, Skew, Loss, Restarts, LastTime} \subseteq Nat
  /\ Duration \in [InputStreams -> Nat \ {0}]
  /\ EnabledStart \in Nat /\ EnabledStart >= StartTime
  /\ Clocks \subseteq Int

(* A decoder gives a frame when the packet that is due with it comes (pts  *)
(* <= dts), or at most a tenth of a second before.  With frames earlier    *)
(* than that any loss in their stream counts as a step back, also one that *)
(* moved the stamps forward: the offset follows the stream that lost, the  *)
(* others pull it back, and so on for ever.                                *)
ASSUME EarlyAssumption == Early <= Tenth

(* Streams that are together, or lost something, are not taken for a       *)
(* restart; a restart moves the clock by more than that.                   *)
ASSUME ThresholdAssumption ==
  /\ Lost <= Threshold /\ Skew <= Threshold
  /\ \A c, e \in AllClocks : c > e => c - e > Threshold + Lost

(* No clock undoes the correction of the start time by chance: StartOffset *)
(* would take the offset for the one of the beginning.                     *)
ASSUME StartTimeAssumption ==
  \A c \in AllClocks \ {0} : c + (EnabledStart - StartTime) \notin (-Lost)..0

(* A counter that is one wrap ahead is seen to be, and no other is.        *)
ASSUME WrapAssumption ==
  /\ 2^WrapBits \in Int /\ 2^(WrapBits - 1) \in Int
  /\ \A c \in AllClocks, t \in EnabledStart..LastTime :
       t + c <= StartTime + 2^(WrapBits - 1) /\ StartTime + 2^(WrapBits - 1) < t + c + 2^WrapBits

ASSUME NoPtsAssumption ==
  AV_NOPTS_VALUE \in Int /\ \A c, e \in AllClocks : AV_NOPTS_VALUE < c - e - Lost

VARIABLES
  ts_offset, last_ts,     \* of the InputFile
  next_dts,               \* of each InputStream
  top,                    \* the later of ist->pts and ist->dts
  dts,                    \* the stamp of its last packet
  wrap_correction_done,
  time,                   \* the time at which each stream's last packet was made
  clock,                  \* the clock that stamped it
  current,                \* the clock of the source now
  restarts,               \* how often it was restarted
  since                   \* rounds of packets since all streams have this clock

ist == <<next_dts, top, dts, wrap_correction_done>>
inputVars == <<ts_offset, last_ts, ist, time, clock, current, restarts, since>>

InitInput ==
  /\ ts_offset = -StartTime /\ last_ts = AV_NOPTS_VALUE
  /\ next_dts = [s \in InputStreams |-> AV_NOPTS_VALUE]
  /\ top = [s \in InputStreams |-> AV_NOPTS_VALUE]
  /\ dts = [s \in InputStreams |-> AV_NOPTS_VALUE]
  /\ wrap_correction_done = [s \in InputStreams |-> FALSE]
  /\ time = [s \in InputStreams |-> EnabledStart - Duration[s]]
  /\ current = 0 /\ clock = [s \in InputStreams |-> 0]
  /\ restarts = 0 /\ since = [s \in InputStreams |-> 0]

-----------------------------------------------------------------------------
(* Lines 4374 to 4407: once, and again while it finds something to correct.*)
StartOffset(s) ==
  IF ~wrap_correction_done[s] /\ next_dts[s] = AV_NOPTS_VALUE /\ ts_offset = -StartTime
  THEN -EnabledStart ELSE ts_offset

WrapCorrectionFirst(s, d) ==                              \* mutant
  ~wrap_correction_done[s] /\ next_dts[s] = AV_NOPTS_VALUE /\ d > StartTime + 2^(WrapBits - 1)

WrapCorrection(s, d) == ~wrap_correction_done[s] /\ d > StartTime + 2^(WrapBits - 1)

Far(delta) == delta < -Threshold \/ delta > Threshold

BackwardsNever(s, d) == FALSE                             \* mutant

Backwards(s, d) == d + Tenth < top[s]

(* How far the packet is from where it should be: the first packet of a    *)
(* stream is compared with the last one of any stream.                     *)
Delta(s, d) ==
  IF s \in Subs THEN 0
  ELSE IF next_dts[s] = AV_NOPTS_VALUE
       THEN IF last_ts # AV_NOPTS_VALUE /\ Far(d - last_ts) THEN d - last_ts ELSE 0
       ELSE IF Far(d - next_dts[s]) \/ Backwards(s, d) THEN d - next_dts[s] ELSE 0

CorrectedAlone(s, stamp) ==                               \* mutant
  LET off == StartOffset(s)
      d   == (IF WrapCorrection(s, stamp) THEN stamp - 2^WrapBits ELSE stamp) + off
  IN  [dts |-> d - Delta(s, d), offset |-> off]

(* The stamp after all corrections, and the offset they leave.             *)
Corrected(s, stamp) ==
  LET off == StartOffset(s)
      d   == (IF WrapCorrection(s, stamp) THEN stamp - 2^WrapBits ELSE stamp) + off
  IN  [dts |-> d - Delta(s, d), offset |-> off - Delta(s, d)]

(* What process_input_packet adds to the dts of a packet for the next one. *)
Advance(s) == IF s \in Subs THEN 0 ELSE Duration[s]

(* The pts and dts it leaves in ist, the later of them.  For a stream that *)
(* is copied both are the dts of the packet.  For one that is decoded: the *)
(* dts, or next_dts if a frame came out; the end of that frame, or of the  *)
(* last one that did (the pts of video is that of the frames, which come   *)
(* late by the reordering and the threads of the decoder, or early).       *)
Tops(s, d) ==
  IF s \in Decoded
  THEN LET end == d + Duration[s] + Early IN d..(IF top[s] > end THEN top[s] ELSE end)
  ELSE {d}

(* process_input, and of process_input_packet what it leaves in ist.       *)
process_input(s, stamp) ==
  LET c == Corrected(s, stamp)
  IN  /\ ts_offset' = c.offset
      /\ last_ts' = c.dts
      /\ dts' = [dts EXCEPT ![s] = c.dts]
      /\ next_dts' = [next_dts EXCEPT ![s] = c.dts + Advance(s)]
      /\ \E p \in Tops(s, c.dts) : top' = [top EXCEPT ![s] = p]
      /\ wrap_correction_done' = [wrap_correction_done EXCEPT ![s] = @ \/ ~WrapCorrection(s, stamp)]

-----------------------------------------------------------------------------
(* The source                                                              *)

(* The streams keep together, up to Skew.                                  *)
Together(s, t) == \A r \in InputStreams \ {s} : t - time[r] <= Skew

Settled == \A s \in InputStreams : clock[s] = current

(* Two rounds: in the second one every stream has sent in the first.       *)
Round(s) ==
  IF Settled /\ since[s] < 2 /\ \A r \in InputStreams : since[s] <= since[r]
  THEN [since EXCEPT ![s] = @ + 1] ELSE since

Stamp(s, t, c) == t + c + (IF s \in Ahead THEN 2^WrapBits ELSE 0)

InputPacket(s) ==
  LET t == time[s] + Duration[s]
  IN  /\ t <= LastTime /\ Together(s, t)
      /\ time' = [time EXCEPT ![s] = t]
      /\ process_input(s, Stamp(s, t, clock[s]))
      /\ since' = Round(s)
      /\ UNCHANGED <<clock, current, restarts>>

(* The source is restarted with another clock ...                          *)
Restart(c) ==
  /\ restarts < Restarts /\ Settled /\ c # current
  /\ \A s \in AV : since[s] > 0
  /\ restarts' = restarts + 1 /\ current' = c
  /\ since' = [s \in InputStreams |-> 0]
  /\ UNCHANGED <<ts_offset, last_ts, ist, time, clock>>

(* ... which reaches a stream in its first packet after the lost ones.     *)
Resume(s, lost) ==
  LET t == time[s] + Duration[s] + lost
  IN  /\ clock[s] # current /\ t <= LastTime /\ Together(s, t)
      /\ clock' = [clock EXCEPT ![s] = current]
      /\ time' = [time EXCEPT ![s] = t]
      /\ process_input(s, Stamp(s, t, current))
      /\ UNCHANGED <<current, restarts, since>>

NextInput ==
  \/ \E s \in InputStreams : InputPacket(s) \/ \E lost \in 0..Loss : Resume(s, lost)
  \/ \E c \in Clocks : Restart(c)

SpecInput == InitInput /\ [][NextInput]_inputVars

-----------------------------------------------------------------------------
(* Properties.                                                             *)

(* InputTypeOK: and the stamps of pictures and sound stay in the range of  *)
(* the input; those of subtitles may leave it while the offset is          *)
(* another's.                                                              *)
InputTypeOK ==
  /\ ts_offset \in Int /\ last_ts \in Int /\ current \in AllClocks
  /\ \A t \in {dts[s] : s \in AV} :
       t = AV_NOPTS_VALUE \/ t \in (-Lost)..(LastTime - StartTime)
  /\ \A s \in InputStreams : /\ next_dts[s] = AV_NOPTS_VALUE <=> dts[s] = AV_NOPTS_VALUE
                        /\ since[s] \in 0..2 /\ wrap_correction_done[s] \in BOOLEAN

Lag(s) == dts[s] - time[s]

(* Settles: two packets of every stream after the last of them has the new *)
(* clock, the offset moves no more: the corrections of one stream do not   *)
(* set off those of another for ever, whatever frames the decoders give    *)
(* (within EarlyAssumption).                                               *)
Settles ==
  [][(\A s \in InputStreams : since[s] = 2) /\ restarts' = restarts => ts_offset' = ts_offset]_inputVars

(* InSync: from then on all streams are delayed alike: pictures, sound and *)
(* subtitles keep together however many times the source is restarted and  *)
(* process_input moves ts_offset; and no stamp leaves the range            *)
(* (InputTypeOK).                                                          *)
InSync ==
  /\ InputTypeOK
  /\ (\A s \in InputStreams : since[s] = 2) => \A s, r \in InputStreams : Lag(s) = Lag(r)

(* NoSetback: the stamps of a picture or sound never fall back by more     *)
(* than a tenth of a second.                                               *)
NoSetback ==
  [][\A s \in AV : dts[s] # AV_NOPTS_VALUE => dts'[s] + Tenth >= dts[s]]_inputVars
=============================================================================
