------------------------------- MODULE HlsEnc -------------------------------
(***************************************************************************)
(* The HLS muxer of the ffmpeg that hlsXcoder runs (libavformat/hlsenc.c)  *)
(* for one output with the options hlsXcoder gives it: one variant, no     *)
(* encryption, no temporary segments, hls_list_size and delete_segments,   *)
(* MPEG-TS segments or fmp4 ones (hevc).  The web server reads the same    *)
(* directory at any moment, so every change of a file that it can see is a *)
(* step of its own: closing the media segment, deleting old ones, the      *)
(* rename of each playlist, opening the next segment.                      *)
(*                                                                         *)
(* A segment is known by the number in its file name and its duration.     *)
(* Opening a file may fail; hls_write_packet then returns the error, and   *)
(* ffmpeg sends the output no more packets until the trailer.              *)
(***************************************************************************)
EXTENDS Integers, Sequences, FiniteSets

CONSTANTS
  Outputs,               \* the kinds of output: records of three flags
  max_nb_segments,       \* hls_list_size (0: the list is not limited)
  delete_segments,       \* -hls_flags delete_segments
  hls_delete_threshold,  \* unlisted segments kept on disk
  Durations,             \* durations of a segment
  MaxSegs,               \* bound: segments started
  MaxFailures            \* bound: files that cannot be opened or deleted

ASSUME OptionsAssumption ==
  /\ Outputs \subseteq [fmp4 : BOOLEAN, has_video : BOOLEAN, has_subtitle : BOOLEAN]
  /\ delete_segments \in BOOLEAN
  /\ max_nb_segments \in Nat
  /\ hls_delete_threshold \in Nat \ {0}
  /\ Durations \subseteq Nat \ {0}
ASSUME BoundsAssumption == MaxSegs \in Nat /\ MaxFailures \in Nat

VARIABLES
  output,           \* the output being written, fixed by the command line
  pc,               \* where the muxer is
  last,             \* hls_write_trailer has begun
  packets_written,  \* some packet has been written
  number,           \* number in the file names of the current segment
  duration,         \* duration of the segment being closed
  sequence, nb_entries, segments, old_segments,  \* fields of VariantStream
  pb,               \* media file behind vs->avf->pb (mpegts), or None
  vtt_pb,           \* subtitle file behind vs->vtt_avf->pb, or None
  media, vtt,       \* per segment: its files on disk
  init,             \* the fmp4 initialisation file
  m3u8, vtt_m3u8,   \* the published playlists
  recent,           \* history: the last playlists published, newest first
  failures          \* history: failures so far

files == <<media, vtt, init>>
list == <<sequence, nb_entries, segments, old_segments>>
published == <<m3u8, vtt_m3u8, recent>>
vars == <<output, pc, last, packets_written, number, duration, list, pb, vtt_pb,
          files, published, failures>>

fmp4 == output.fmp4                  \* -hls_segment_type fmp4, otherwise MPEG-TS
has_video == output.has_video        \* there is a video stream
has_subtitle == output.has_subtitle  \* there is a webvtt stream

None == -1
Numbers == 0..MaxSegs

(* A file on disk: absent, being written, whole, or cut short for ever. *)
Files == {"absent", "open", "whole", "cut"}

Segment(n, d) == [n |-> n, d |-> d]
Playlist(seq, segs, end) == [sequence |-> seq, list |-> segs, end |-> end]
NoPlaylist == Playlist(0, <<>>, FALSE)

Kinds == (IF has_video THEN {"video"} ELSE {"audio"})
         \cup (IF has_subtitle THEN {"subtitle"} ELSE {})

(* hls_init, with the first hls_start. *)
Init ==
  /\ output \in Outputs
  /\ pc = "packets" /\ last = FALSE /\ packets_written = FALSE
  /\ number = 0 /\ duration = 0
  /\ sequence = 0 /\ nb_entries = 0 /\ segments = <<>> /\ old_segments = <<>>
  /\ pb = IF fmp4 THEN None ELSE 0
  /\ vtt_pb = IF has_subtitle THEN 0 ELSE None
  /\ media = [n \in Numbers |-> IF n = 0 /\ ~fmp4 THEN "open" ELSE "absent"]
  /\ vtt = [n \in Numbers |-> IF n = 0 /\ has_subtitle THEN "open" ELSE "absent"]
  /\ init = IF fmp4 THEN "open" ELSE "absent"
  /\ m3u8 = NoPlaylist /\ vtt_m3u8 = NoPlaylist /\ recent = <<>>
  /\ failures = 0

MayFail == failures < MaxFailures /\ failures' = failures + 1

(* The first packet is written and never splits. *)
FirstPacket ==
  /\ pc = "packets" /\ ~packets_written
  /\ packets_written' = TRUE
  /\ UNCHANGED <<pc, last, number, duration, list, pb, vtt_pb, files, published,
                 output, failures>>

-----------------------------------------------------------------------------
(* hls_write_packet, when the packet begins a new segment.                 *)

(* With video only a key frame of it splits; otherwise any packet does. *)
CanSplit(kind) == has_video => kind = "video"

(* Closing the subtitle segment makes it whole. *)
CloseVtt ==
  /\ vtt' = IF vtt_pb = None THEN vtt ELSE [vtt EXCEPT ![vtt_pb] = "whole"]
  /\ vtt_pb' = None

(* Mutant: the media segment is left open. *)
SplitTsUnclosed(kind) ==
  /\ CloseVtt
  /\ pc' = "append"
  /\ UNCHANGED <<media, pb, init, failures>>

(* oc is the context of the packet: a subtitle closes its own file, and    *)
(* not the media file.                                                     *)
SplitTs(kind) ==
  /\ IF kind = "subtitle"
     THEN UNCHANGED <<media, pb>>
     ELSE media' = [media EXCEPT ![pb] = "whole"] /\ pb' = None
  /\ CloseVtt
  /\ pc' = "append"
  /\ UNCHANGED <<init, failures>>

(* The first split takes the initialisation data out of the buffer of oc;  *)
(* the subtitle context has a file there, not a buffer: undefined.         *)
InitUndefined(kind) == init = "open" /\ kind = "subtitle"

SplitFmp4(kind) ==
  \/ /\ InitUndefined(kind)
     /\ pc' = "undefined"
     /\ UNCHANGED <<files, pb, vtt_pb, failures>>
  \/ /\ ~InitUndefined(kind)
     /\ init' = "whole"
     /\ CloseVtt
     /\ \/ /\ media' = [media EXCEPT ![number] = "whole"]
           /\ pc' = "append"
           /\ UNCHANGED failures
        \/ MayFail /\ pc' = "failed" /\ UNCHANGED media
     /\ UNCHANGED pb

Split(kind) ==
  /\ pc = "packets" /\ packets_written /\ CanSplit(kind) /\ number < MaxSegs
  /\ duration' \in Durations
  /\ IF fmp4 THEN SplitFmp4(kind) ELSE SplitTs(kind)
  /\ UNCHANGED <<last, packets_written, number, list, published, output>>

-----------------------------------------------------------------------------
(* hls_append_segment and hls_delete_old_segments.                         *)

(* Total duration of the first i segments of a list. *)
Total(segs, i) ==
  LET f[j \in 0..Len(segs)] == IF j = 0 THEN 0 ELSE f[j - 1] + segs[j].d
  IN  f[i]

(* The walk over the old segments, newest first, stops after the i-th. *)
StopsAt(segs, old, i) ==
  Total(segs, Len(segs)) - Total(old, i) <= -old[i].d \/ i >= hls_delete_threshold

(* Mutant: a segment is deleted as soon as it leaves the list. *)
KeptNone(segs, old) == 0

(* How many old segments are kept. *)
Kept(segs, old) ==
  LET stops == {i \in 1..Len(old) : StopsAt(segs, old, i)}
  IN  IF stops = {} THEN Len(old) ELSE CHOOSE i \in stops : \A j \in stops : i <= j

(* The list is full and its first segment leaves it. *)
Slides == max_nb_segments > 0 /\ nb_entries >= max_nb_segments

(* The segments whose files are deleted. *)
Drops(segs, old) == {old[i].n : i \in (Kept(segs, old) + 1)..Len(old)}

Unlink(dropped) ==
  \/ /\ media' = [n \in Numbers |-> IF n \in dropped THEN "absent" ELSE media[n]]
     /\ vtt' = [n \in Numbers |-> IF n \in dropped THEN "absent" ELSE vtt[n]]
     /\ UNCHANGED failures
  \/ /\ dropped # {} /\ MayFail
     /\ UNCHANGED <<media, vtt>>

Append1 == Append(segments, Segment(number, duration))

(* In the trailer the subtitle segment is closed after this. *)
AppendSegment ==
  /\ pc = "append"
  /\ LET segs == IF Slides THEN Tail(Append1) ELSE Append1
         old == IF Slides /\ delete_segments
                THEN <<Head(Append1)>> \o old_segments ELSE old_segments
     IN  /\ segments' = segs
         /\ nb_entries' = IF Slides THEN nb_entries ELSE nb_entries + 1
         /\ IF Slides /\ delete_segments
            THEN /\ old_segments' = SubSeq(old, 1, Kept(segs, old))
                 /\ Unlink(Drops(segs, old))
            ELSE UNCHANGED <<old_segments, media, vtt, failures>>
  /\ sequence' = sequence + 1
  /\ pc' = IF last /\ has_subtitle THEN "closeVtt" ELSE "window"
  /\ UNCHANGED <<last, packets_written, number, duration, pb, vtt_pb, init,
                 published, output>>

-----------------------------------------------------------------------------
(* hls_window.                                                             *)

(* Mutant: the trailer counts from the start again. *)
PublishedFromZero == Playlist(IF last THEN 0 ELSE sequence - nb_entries, segments,
                              last)

Published == Playlist(sequence - nb_entries, segments, last)

(* The temporary playlist is opened through vs->avf->pb (mpegts): a media  *)
(* file still open there is lost, with what its buffer held.  If it cannot *)
(* be opened, that pointer is closed instead.                              *)
Window ==
  /\ pc = "window"
  /\ \/ /\ pc' = "publish"
        /\ media' = IF pb = None THEN media ELSE [media EXCEPT ![pb] = "cut"]
        /\ UNCHANGED failures
     \/ /\ MayFail
        /\ pc' = IF last THEN "ended" ELSE "failed"
        /\ media' = IF pb = None THEN media ELSE [media EXCEPT ![pb] = "whole"]
  /\ pb' = None
  /\ UNCHANGED <<last, packets_written, number, duration, list, vtt_pb, vtt, init,
                 published, output>>

(* Mutant: the trailer goes on with another segment. *)
AfterWindowStarts == "start"

AfterWindow == IF last THEN "ended" ELSE "start"

(* The rename of the playlist.  If the subtitle playlist could not be      *)
(* opened, this one is published all the same and the muxer fails.         *)
Publish ==
  /\ pc = "publish"
  /\ m3u8' = Published
  /\ recent' = SubSeq(<<Published>> \o recent, 1,
                      IF Len(recent) < hls_delete_threshold + 1
                      THEN Len(recent) + 1 ELSE hls_delete_threshold + 1)
  /\ \/ /\ pc' = IF has_subtitle THEN "publishVtt" ELSE AfterWindow
        /\ UNCHANGED failures
     \/ /\ has_subtitle /\ MayFail
        /\ pc' = IF last THEN "ended" ELSE "failed"
  /\ UNCHANGED <<last, packets_written, number, duration, list, pb, vtt_pb, files,
                 vtt_m3u8, output>>

PublishVtt ==
  /\ pc = "publishVtt"
  /\ vtt_m3u8' = Published
  /\ pc' = AfterWindow
  /\ UNCHANGED <<last, packets_written, number, duration, list, pb, vtt_pb, files,
                 m3u8, recent, output, failures>>

-----------------------------------------------------------------------------
(* hls_start: the names of the next segment, and its files.                *)

(* Mutant: the name is made from the number of entries of the list. *)
NextNumberEntries == nb_entries

NextNumber == sequence

OpenVtt(n) ==
  \/ /\ ~has_subtitle
     /\ pc' = "packets"
     /\ UNCHANGED <<vtt, vtt_pb, failures>>
  \/ /\ has_subtitle
     /\ vtt' = [vtt EXCEPT ![n] = "open"] /\ vtt_pb' = n
     /\ pc' = "packets"
     /\ UNCHANGED failures
  \/ /\ has_subtitle /\ MayFail
     /\ pc' = "failed"
     /\ UNCHANGED <<vtt, vtt_pb>>

Start ==
  /\ pc = "start"
  /\ number' = NextNumber
  /\ \/ /\ IF fmp4 THEN UNCHANGED <<media, pb>>
           ELSE media' = [media EXCEPT ![NextNumber] = "open"] /\ pb' = NextNumber
        /\ OpenVtt(NextNumber)
     \/ /\ ~fmp4 /\ MayFail
        /\ pc' = "failed"
        /\ UNCHANGED <<media, pb, vtt, vtt_pb>>
  /\ UNCHANGED <<last, packets_written, duration, list, init, published, output>>

-----------------------------------------------------------------------------
(* hls_write_trailer.                                                      *)

(* Mutant: the last segment is closed and not listed. *)
TrailerTsUnlisted ==
  /\ media' = IF pb = None THEN media ELSE [media EXCEPT ![pb] = "whole"]
  /\ pc' = IF has_subtitle THEN "closeVtt" ELSE "window"
  /\ pb' = None
  /\ UNCHANGED <<init, failures>>

(* The last segment is closed; without an open file there is none.         *)
TrailerTs ==
  /\ IF pb = None
     THEN /\ pc' = IF has_subtitle THEN "closeVtt" ELSE "window"
          /\ UNCHANGED media
     ELSE /\ media' = [media EXCEPT ![pb] = "whole"]
          /\ pc' = "append"
  /\ pb' = None
  /\ UNCHANGED <<init, failures>>

(* The segment is appended also when its file could not be opened.         *)
TrailerFmp4 ==
  /\ init' = "whole"
  /\ \/ media' = [media EXCEPT ![number] = "whole"] /\ UNCHANGED failures
     \/ MayFail /\ UNCHANGED media
  /\ pc' = "append"
  /\ UNCHANGED pb

Trailer ==
  /\ pc \in {"packets", "failed"}
  /\ last' = TRUE
  /\ duration' \in Durations
  /\ IF fmp4 THEN TrailerFmp4 ELSE TrailerTs
  /\ UNCHANGED <<packets_written, number, list, vtt_pb, vtt, published, output>>

TrailerVtt ==
  /\ pc = "closeVtt"
  /\ CloseVtt
  /\ pc' = "window"
  /\ UNCHANGED <<last, packets_written, number, duration, list, pb, media, init,
                 published, output, failures>>

Steps == AppendSegment \/ Window \/ Publish \/ PublishVtt \/ Start \/ TrailerVtt

Next ==
  \/ FirstPacket
  \/ \E kind \in Kinds : Split(kind)
  \/ Steps
  \/ Trailer

Spec == Init /\ [][Next]_vars

(* A call of the muxer runs to its end; nothing says that the input ends. *)
FairSpec == Spec /\ WF_vars(Steps)

-----------------------------------------------------------------------------
(* The types; and the list is never longer than hls_list_size, with as     *)
(* many entries as nb_entries counts (hls_append_segment).                 *)
TypeOK ==
  /\ pc \in {"packets", "append", "window", "publish", "publishVtt", "start",
             "closeVtt", "failed", "ended", "undefined"}
  /\ last \in BOOLEAN /\ packets_written \in BOOLEAN
  /\ number \in Numbers /\ sequence \in 0..(MaxSegs + 1)
  /\ duration \in Durations \cup {0}
  /\ nb_entries = Len(segments)
  /\ max_nb_segments > 0 => nb_entries <= max_nb_segments
  /\ pb \in Numbers \cup {None} /\ vtt_pb \in Numbers \cup {None}
  /\ media \in [Numbers -> Files] /\ vtt \in [Numbers -> Files]
  /\ init \in Files /\ failures \in 0..MaxFailures

Listed(p) == {p.list[i].n : i \in 1..Len(p.list)}

(* The trailer of an fmp4 output lists its last segment also after a       *)
(* failure: when its file could not be opened, or when it is listed        *)
(* already and the playlist could not be written (an old one is then       *)
(* deleted before the playlist without it is published).                   *)
Relisted == fmp4 /\ failures > 0 /\ last

(* What a player can read of a listed segment: all of it, except for that  *)
(* trailer and for an MPEG-TS segment of audio that a subtitle ended, of   *)
(* which the end of the buffer is lost.                                    *)
Readable(n) ==
  \/ media[n] = "whole"
  \/ Relisted
  \/ media[n] = "cut" /\ has_subtitle /\ ~has_video /\ ~fmp4

(* A player that has the current playlist finds every segment of it: a     *)
(* segment is closed before it is listed, and one that has just left the   *)
(* list is deleted only when a later one leaves it (hls_write_packet).     *)
SegmentsComplete == \A n \in Listed(m3u8) : Readable(n)

(* The same of the subtitle playlist, which is published after the other.  *)
(* Only the last segment may be missing, when its file could not be opened *)
(* and the trailer lists it because the media segment is there.            *)
VttComplete ==
  \A n \in Listed(vtt_m3u8) :
    vtt[n] = "whole" \/ Relisted \/ (failures > 0 /\ last /\ n = number)

(* An fmp4 playlist is never published before its initialisation file.     *)
InitComplete == fmp4 /\ m3u8 # NoPlaylist => init = "whole"

(* ListedComplete: at every step of hls_write_packet and of the trailer,   *)
(* whoever has just loaded a playlist finds all that it lists.             *)
ListedComplete == TypeOK /\ SegmentsComplete /\ VttComplete /\ InitComplete

(* EXT-X-MEDIA-SEQUENCE counts the segments that have left the list, so a  *)
(* player that reloads the playlist knows which segments it already has.   *)
Numbering ==
  \A p \in {m3u8, vtt_m3u8} :
    \A i \in 1..Len(p.list) :
      \/ p.list[i].n = p.sequence + i - 1
      \/ Relisted /\ i = Len(p.list) /\ p.list[i].n = number

(* Published playlists only slide forward, and an ended one stays ended.   *)
OnlySlides ==
  [][/\ m3u8'.sequence >= m3u8.sequence
     /\ m3u8'.sequence + Len(m3u8'.list) >= m3u8.sequence + Len(m3u8.list)
     /\ m3u8.end => m3u8' = m3u8]_m3u8

(* hls_delete_threshold: a player that loaded a playlist still finds its   *)
(* segments while that many newer ones are published.                      *)
RecentComplete ==
  LET kept == IF pc \in {"packets", "start"}
              THEN hls_delete_threshold + 1 ELSE hls_delete_threshold
  IN  \A i \in 1..Len(recent) :
        i <= kept => \A n \in Listed(recent[i]) : Readable(n)

(* The disk does not fill: what is on it is the list, the threshold and    *)
(* the segment being written, and what could not be deleted.               *)
DiskBounded ==
  delete_segments /\ max_nb_segments > 0 =>
    Cardinality({n \in Numbers : media[n] # "absent"})
      <= max_nb_segments + hls_delete_threshold + 1 + failures

(* Deletion: hls_delete_old_segments deletes neither too early for a slow  *)
(* player nor too late for the disk.                                       *)
Deletion == RecentComplete /\ DiskBounded

(* After an end without failures the playlist is closed and holds the last *)
(* segment written (hls_write_trailer).                                    *)
EndComplete ==
  pc = "ended" /\ failures = 0 =>
    /\ m3u8.end
    /\ m3u8.sequence + Len(m3u8.list) = number + 1
    /\ \A n \in Numbers : media[n] # "open"

(* Whatever fails, a trailer that has begun ends, with every file closed.  *)
TrailerEnds == last ~> (pc = "ended" /\ pb = None /\ vtt_pb = None)
=============================================================================
