---------------------------- MODULE HlsEncProofs ----------------------------
(***************************************************************************)
(* Proofs about HlsEnc, for every length of the list, any durations, any   *)
(* number of segments and of failures, and every kind of output.           *)
(***************************************************************************)
EXTENDS HlsEnc, FiniteSetTheorems, WellFoundedInduction, TLAPS

-----------------------------------------------------------------------------
(* The inductive invariant. *)

Labels == {"packets", "append", "window", "publish", "publishVtt", "start",
           "closeVtt", "failed", "ended", "undefined"}

Entries == [n : Numbers, d : Durations \cup {0}]

IsPlaylist(p) == /\ p = Playlist(p.sequence, p.list, p.end)
                 /\ p.sequence \in Nat /\ p.list \in Seq(Entries) /\ p.end \in BOOLEAN

(* The types, of the history too. *)
Types ==
  /\ output \in Outputs
  /\ pc \in Labels /\ last \in BOOLEAN /\ packets_written \in BOOLEAN
  /\ number \in Numbers /\ sequence \in 0..(MaxSegs + 1)
  /\ duration \in Durations \cup {0}
  /\ segments \in Seq(Entries) /\ old_segments \in Seq(Entries)
  /\ nb_entries = Len(segments) /\ nb_entries <= sequence
  /\ max_nb_segments > 0 => nb_entries <= max_nb_segments
  /\ pb \in Numbers \cup {None} /\ vtt_pb \in Numbers \cup {None}
  /\ media \in [Numbers -> Files] /\ vtt \in [Numbers -> Files]
  /\ init \in Files /\ failures \in 0..MaxFailures
  /\ IsPlaylist(m3u8) /\ IsPlaylist(vtt_m3u8)

(* The outputs on which a subtitle may end a segment of audio. *)
CutTs == has_subtitle /\ ~has_video /\ ~fmp4

(* Where the muxer can be, and what the name of the current segment has to *)
(* do with the number of segments listed so far.                           *)
Control ==
  /\ pc \in {"packets", "start", "failed", "undefined"} => ~last
  /\ pc \in {"closeVtt", "ended"} => last
  /\ pc \in {"closeVtt", "publishVtt"} => has_subtitle
  /\ pc = "failed" => failures > 0
  /\ pc = "packets" => number = sequence
  /\ pc = "append" => \/ number = sequence /\ (last \/ number < MaxSegs)
                      \/ Relisted /\ sequence = number + 1 /\ number < MaxSegs
  /\ pc \in {"window", "publish", "publishVtt", "start"} /\ ~last =>
       sequence = number + 1 /\ number < MaxSegs /\ nb_entries > 0
  /\ pc = "failed" => \/ number = sequence
                      \/ sequence = number + 1 /\ number < MaxSegs
  /\ last /\ failures = 0 /\ pc # "append" => sequence = number + 1

(* The open files. *)
Opened ==
  /\ fmp4 => pb = None
  /\ pc = "packets" /\ ~fmp4 => pb = number
  /\ pc \in {"append", "window"} /\ pb # None => pb = number /\ CutTs /\ ~last
  /\ pc \in {"publish", "publishVtt", "start", "closeVtt", "ended"} => pb = None
  /\ pc = "failed" /\ pb # None => pb = number /\ number = sequence
  /\ \A n \in Numbers : media[n] = "open" => n = pb
  /\ fmp4 => init = "whole" \/ (pc \in {"packets", "undefined"} /\ m3u8 = NoPlaylist)

OpenedVtt ==
  /\ ~has_subtitle => vtt_pb = None /\ vtt_m3u8 = NoPlaylist
  /\ pc = "packets" /\ has_subtitle => vtt_pb = number
  /\ pc \in {"append", "closeVtt"} /\ last /\ has_subtitle =>
       vtt_pb = number \/ failures > 0
  /\ pc \in {"append", "closeVtt"} => vtt_pb \in {number, None}
  /\ pc = "append" /\ ~last =>
       vtt_pb = None /\ (has_subtitle => vtt[number] = "whole")
  /\ pc \in {"window", "publish", "publishVtt", "start", "failed"} => vtt_pb = None

(* The numbers of the segments in the list and in what has left it. *)
SegmentNumbers ==
  /\ \A i \in 1..Len(segments) :
       \/ segments[i].n = sequence - Len(segments) + i - 1
       \/ Relisted /\ pc # "append" /\ i = Len(segments) /\ segments[i].n = number
  /\ \A i \in 1..Len(old_segments) : old_segments[i].n < sequence - Len(segments)

(* The playlists are behind the list, and level with it between segments. *)
Behind(p) == /\ p.sequence <= sequence - nb_entries
             /\ p.sequence + Len(p.list) <= sequence

Level(p) == /\ p.sequence = sequence - nb_entries

(* Numbering of one playlist. *)
NumbersOf(p) ==
  \A i \in 1..Len(p.list) :
    \/ p.list[i].n = p.sequence + i - 1
    \/ Relisted /\ i = Len(p.list) /\ p.list[i].n = number

PublishedInv ==
  /\ NumbersOf(m3u8) /\ NumbersOf(vtt_m3u8)
  /\ Behind(m3u8) /\ Behind(vtt_m3u8)
  /\ \/ pc \in {"packets", "start", "append"} /\ ~Relisted
     \/ pc = "failed" /\ pb # None
     => Level(m3u8) /\ (has_subtitle => Level(vtt_m3u8))
  /\ pc \in {"publishVtt", "start"} => Level(m3u8)
  /\ m3u8.end => last /\ pc \in {"publishVtt", "ended"}
  /\ pc \in {"publishVtt", "ended"} /\ last /\ failures = 0 =>
       m3u8.end /\ m3u8.sequence + Len(m3u8.list) = sequence

(* The files of the segments in the list, and of the one about to be. *)
SegmentFiles ==
  \A i \in 1..Len(segments) :
    \/ Readable(segments[i].n)
    \/ pc = "window" /\ segments[i].n = pb /\ CutTs

SegmentVtt ==
  has_subtitle => \A i \in 1..Len(segments) :
    \/ vtt[segments[i].n] = "whole" \/ Relisted
    \/ failures > 0 /\ last /\ segments[i].n = number
    \/ pc = "closeVtt" /\ segments[i].n = number

NextFile ==
  pc = "append" => media[number] = "whole" \/ Relisted \/ pb = number

Inv ==
  /\ Types /\ Control /\ Opened /\ OpenedVtt /\ SegmentNumbers /\ PublishedInv
  /\ SegmentFiles /\ SegmentVtt /\ NextFile /\ SegmentsComplete /\ VttComplete

(* Deletion with hls_delete_threshold = 1, its default, which hlsXcoder    *)
(* keeps: what is on disk and no longer accounted for could not be         *)
(* deleted, and the last playlist but one stays readable until the next    *)
(* segment is closed.                                                      *)
Numbered(segs) == {segs[i].n : i \in 1..Len(segs)}

Undeleted == {n \in Numbers : media[n] # "absent"}
             \ (Numbered(segments) \cup Numbered(old_segments) \cup {number})

Playlists == [sequence : Nat, list : Seq(Entries), end : BOOLEAN]

RecentInv ==
  /\ recent \in Seq(Playlists) /\ Len(recent) <= 2
  /\ ~last => \A i \in 1..Len(recent) : \A n \in Listed(recent[i]) : n < sequence
  /\ Len(recent) > 0 => recent[1] = m3u8
  /\ pc \in {"publishVtt", "start", "packets"} /\ Len(recent) > 1 =>
       \A n \in Listed(recent[2]) : Readable(n)

DiskInv ==
  /\ Len(old_segments) <= 1
  /\ delete_segments /\ max_nb_segments > 0 => Cardinality(Undeleted) <= failures

DeletionInv == RecentInv /\ DiskInv

-----------------------------------------------------------------------------
(* Facts about numbers, sequences and the options. *)

(* A set of natural numbers has a least one. *)
LEMMA LeastNumber ==
  ASSUME NEW T \in SUBSET Nat, T # {} PROVE \E x \in T : \A y \in T : x <= y
<1> DEFINE Less == {p \in Nat \X Nat : p[1] < p[2]}
<1>1. IsWellFoundedOn(Less, Nat)
  BY NatLessThanWellFounded DEF OpToRel
<1>2. PICK x \in T : \A y \in T : ~(<<y, x>> \in Less)
  <2> HIDE DEF Less
  <2> QED
    BY <1>1, WFMin
<1>3. \A y \in T : ~(y < x)
  BY <1>2
<1> QED
  BY <1>3

(* The walk of hls_delete_old_segments never stops before the first of the *)
(* old segments: the one that has just left the list is kept.              *)
LEMMA KeptBounds ==
  ASSUME NEW segs, NEW old, Len(old) \in Nat \ {0}
  PROVE  /\ Kept(segs, old) \in 1..Len(old)
         /\ hls_delete_threshold = 1 => Kept(segs, old) = 1
<1> DEFINE stops == {i \in 1..Len(old) : StopsAt(segs, old, i)}
<1>1. CASE stops = {}
  <2>1. Kept(segs, old) = Len(old)
    BY <1>1 DEF Kept
  <2>2. hls_delete_threshold = 1 => 1 \in stops
    BY DEF StopsAt
  <2> QED
    BY <1>1, <2>1, <2>2
<1>2. CASE stops # {}
  <2>0. stops \in SUBSET Nat
    OBVIOUS
  <2>2. Kept(segs, old) = CHOOSE i \in stops : \A j \in stops : i <= j
    BY <1>2 DEF Kept
  <2> HIDE DEF stops
  <2>1. \E x \in stops : \A y \in stops : x <= y
    BY <1>2, <2>0, LeastNumber
  <2>3. Kept(segs, old) \in stops /\ \A j \in stops : Kept(segs, old) <= j
    BY <2>1, <2>2
  <2>4. hls_delete_threshold = 1 => 1 \in stops
    BY DEF StopsAt, stops
  <2> QED
    BY <2>3, <2>4 DEF stops
<1> QED
  BY <1>1, <1>2

LEMMA Appending ==
  ASSUME NEW s \in Seq(Entries), NEW e \in Entries
  PROVE  /\ Append(s, e) \in Seq(Entries) /\ Len(Append(s, e)) = Len(s) + 1
         /\ \A i \in 1..Len(s) : Append(s, e)[i] = s[i]
         /\ Append(s, e)[Len(s) + 1] = e
         /\ Tail(Append(s, e)) \in Seq(Entries) /\ Len(Tail(Append(s, e))) = Len(s)
         /\ \A i \in 1..Len(s) : Tail(Append(s, e))[i] = Append(s, e)[i + 1]
         /\ Len(s) > 0 => Head(Append(s, e)) = s[1]
OBVIOUS

(* What leaves the list goes to the front of the old segments. *)
LEMMA Prepending ==
  ASSUME NEW e \in Entries, NEW s \in Seq(Entries), NEW k \in 1..(Len(s) + 1)
  PROVE  /\ <<e>> \o s \in Seq(Entries) /\ Len(<<e>> \o s) = Len(s) + 1
         /\ (<<e>> \o s)[1] = e
         /\ \A i \in 2..(Len(s) + 1) : (<<e>> \o s)[i] = s[i - 1]
         /\ SubSeq(<<e>> \o s, 1, k) \in Seq(Entries) /\ Len(SubSeq(<<e>> \o s, 1, k)) = k
         /\ SubSeq(<<e>> \o s, 1, k)[1] = e
         /\ \A i \in 2..k : SubSeq(<<e>> \o s, 1, k)[i] = s[i - 1]
<1>1. /\ <<e>> \o s \in Seq(Entries) /\ Len(<<e>> \o s) = Len(s) + 1
      /\ (<<e>> \o s)[1] = e
      /\ \A i \in 2..(Len(s) + 1) : (<<e>> \o s)[i] = s[i - 1]
  OBVIOUS
<1> DEFINE t == <<e>> \o s
<1> HIDE DEF t
<1>2. t \in Seq(Entries) /\ k \in 1..Len(t)
  BY <1>1 DEF t
<1>3. SubSeq(t, 1, k) \in Seq(Entries) /\ Len(SubSeq(t, 1, k)) = k
      /\ \A i \in 1..k : SubSeq(t, 1, k)[i] = t[i]
  BY <1>2
<1> QED
  BY <1>1, <1>3 DEF t

(* The options do not change while the output is written. *)
LEMMA Flags ==
  ASSUME Types, UNCHANGED output
  PROVE  /\ fmp4 \in BOOLEAN /\ has_video \in BOOLEAN /\ has_subtitle \in BOOLEAN
         /\ fmp4' = fmp4 /\ has_video' = has_video /\ has_subtitle' = has_subtitle
         /\ CutTs' = CutTs
BY OptionsAssumption DEF Types, fmp4, has_video, has_subtitle, CutTs

(* What can be read of a segment can still be read after a step that only  *)
(* closes files or lists the last segment again.                           *)
LEMMA StillReadable ==
  ASSUME Types, UNCHANGED output, Relisted => Relisted',
         NEW n, Readable(n),
         \/ media'[n] = media[n]
         \/ media'[n] = "whole"
         \/ media'[n] = "cut" /\ CutTs
  PROVE  Readable(n)'
BY Flags DEF Readable, CutTs

LEMMA RelistedStays ==
  ASSUME Types, UNCHANGED output, last => last', failures' \in Nat, failures <= failures'
  PROVE  Relisted => Relisted'
<1>1. fmp4' = fmp4
  BY Flags
<1>2. failures \in Nat /\ last \in BOOLEAN
  BY BoundsAssumption DEF Types
<1> QED
  BY <1>1, <1>2 DEF Relisted

LEMMA EntryAt ==
  ASSUME NEW s \in Seq(Entries), NEW i \in 1..Len(s)
  PROVE  s[i] \in Entries /\ s[i].n \in Numbers
<1>1. s[i] \in Entries
  OBVIOUS
<1> QED
  BY <1>1 DEF Entries

(* Before the trailer whatever a playlist or the list holds has a number   *)
(* below that of the next segment.                                         *)
LEMMA ListedBefore ==
  ASSUME Types, PublishedInv, NEW n \in Listed(m3u8) \cup Listed(vtt_m3u8)
  PROVE  n \in Numbers /\ (~last => n < sequence)
<1>1. PICK p \in {m3u8, vtt_m3u8} : n \in Listed(p)
  OBVIOUS
<1>2. PICK i \in 1..Len(p.list) : n = p.list[i].n
  BY <1>1 DEF Listed
<1>3. p.list \in Seq(Entries) /\ p.sequence \in Nat
  BY DEF Types, IsPlaylist
<1>4. n \in Numbers
  BY <1>2, <1>3, EntryAt
<1>5. n = p.sequence + i - 1 \/ Relisted
  BY <1>2 DEF PublishedInv, NumbersOf
<1>6. p.sequence + Len(p.list) <= sequence
  BY DEF PublishedInv, Behind
<1>7. sequence \in Nat
  BY BoundsAssumption DEF Types
<1> QED
  BY <1>3, <1>4, <1>5, <1>6, <1>7 DEF Relisted

LEMMA SegmentsBefore ==
  ASSUME Types, SegmentNumbers, NEW i \in 1..Len(segments)
  PROVE  segments[i].n \in Numbers /\ (~last => segments[i].n < sequence)
<1>1. segments[i].n \in Numbers /\ Len(segments) \in Nat /\ sequence \in Nat
  BY BoundsAssumption, EntryAt DEF Types
<1> QED
  BY <1>1 DEF SegmentNumbers, Relisted

(***************************************************************************)
(* A step that leaves the list alone, and of the files changes only those  *)
(* of segments not listed yet, or closes them.                             *)
(***************************************************************************)
LEMMA Quiet ==
  ASSUME Inv, UNCHANGED output, UNCHANGED <<sequence, nb_entries, segments, old_segments>>,
         last => last' /\ number' = number,
         failures' \in 0..MaxFailures, failures <= failures',
         pc' = "append" => ~last,
         \A n \in Numbers :
           \/ media'[n] = media[n] \/ media'[n] = "whole"
           \/ media'[n] = "cut" /\ CutTs
           \/ ~last /\ n >= sequence,
         \A n \in Numbers :
           \/ vtt'[n] = vtt[n] \/ vtt'[n] = "whole"
           \/ ~last /\ n >= sequence
  PROVE  /\ SegmentNumbers'
         /\ m3u8' = m3u8 =>
              /\ NumbersOf(m3u8)' /\ Behind(m3u8)' /\ Level(m3u8)' = Level(m3u8)
              /\ SegmentsComplete'
         /\ vtt_m3u8' = vtt_m3u8 =>
              /\ NumbersOf(vtt_m3u8)' /\ Behind(vtt_m3u8)'
              /\ Level(vtt_m3u8)' = Level(vtt_m3u8) /\ VttComplete'
         /\ pc # "window" => SegmentFiles'
         /\ pc # "closeVtt" => SegmentVtt'
<1>0. /\ Types /\ SegmentNumbers /\ PublishedInv /\ SegmentsComplete /\ VttComplete
      /\ SegmentFiles /\ SegmentVtt
  BY DEF Inv
<1>1. Relisted => Relisted' /\ number' = number
  <2>1. failures' \in Nat
    BY BoundsAssumption
  <2> QED
    BY <1>0, <2>1, RelistedStays DEF Relisted
<1>2. SegmentNumbers'
  BY <1>0, <1>1 DEF SegmentNumbers, Relisted
<1>3. ASSUME m3u8' = m3u8
      PROVE  NumbersOf(m3u8)' /\ Behind(m3u8)' /\ Level(m3u8)' = Level(m3u8)
  BY <1>0, <1>1, <1>3 DEF PublishedInv, NumbersOf, Behind, Level
<1>4. ASSUME vtt_m3u8' = vtt_m3u8
      PROVE  /\ NumbersOf(vtt_m3u8)' /\ Behind(vtt_m3u8)'
             /\ Level(vtt_m3u8)' = Level(vtt_m3u8)
  BY <1>0, <1>1, <1>4 DEF PublishedInv, NumbersOf, Behind, Level
<1>5. sequence \in Int /\ Numbers \subseteq Int
  BY <1>0, BoundsAssumption DEF Types, Numbers
<1>6. ASSUME NEW n \in Listed(m3u8) PROVE Readable(n)'
  <2>1. n \in Numbers /\ (~last => n < sequence)
    BY <1>0, ListedBefore
  <2>2. Readable(n)
    BY <1>0 DEF SegmentsComplete
  <2>3. media'[n] = media[n] \/ media'[n] = "whole" \/ (media'[n] = "cut" /\ CutTs)
    BY <1>5, <2>1
  <2> QED
    BY <1>0, <1>1, <2>2, <2>3, StillReadable
<1>7. ASSUME NEW n \in Listed(vtt_m3u8)
      PROVE  (vtt[n] = "whole" \/ Relisted \/ (failures > 0 /\ last /\ n = number))'
  <2>1. n \in Numbers /\ (~last => n < sequence)
    BY <1>0, ListedBefore
  <2>2. vtt[n] = "whole" \/ Relisted \/ (failures > 0 /\ last /\ n = number)
    BY <1>0 DEF VttComplete
  <2>3. vtt'[n] = vtt[n] \/ vtt'[n] = "whole"
    BY <1>5, <2>1
  <2>4. failures > 0 => failures' > 0
    BY <1>0, BoundsAssumption DEF Types
  <2> QED
    BY <1>1, <2>2, <2>3, <2>4
<1>8. /\ m3u8' = m3u8 => SegmentsComplete'
      /\ vtt_m3u8' = vtt_m3u8 => VttComplete'
  BY <1>6, <1>7 DEF SegmentsComplete, VttComplete, Listed
<1>9. ASSUME pc # "window" PROVE SegmentFiles'
  <2>1. ASSUME NEW i \in 1..Len(segments) PROVE Readable(segments[i].n)'
    <3> DEFINE n == segments[i].n
    <3>1. n \in Numbers /\ (~last => n < sequence)
      BY <1>0, SegmentsBefore
    <3>2. Readable(n)
      BY <1>0, <1>9 DEF SegmentFiles
    <3>3. n' = n
      OBVIOUS
    <3> HIDE DEF n
    <3>4. media'[n] = media[n] \/ media'[n] = "whole" \/ (media'[n] = "cut" /\ CutTs)
      BY <1>5, <3>1
    <3>5. (media[n] = "whole" \/ Relisted \/ (media[n] = "cut" /\ CutTs))
      BY <3>2 DEF Readable, CutTs
    <3>6. CutTs' = CutTs
      BY <1>0, Flags
    <3>7. media'[n] = "whole" \/ Relisted' \/ (media'[n] = "cut" /\ CutTs')
      BY <1>1, <3>4, <3>5, <3>6
    <3> QED
      BY <3>3, <3>7 DEF Readable, CutTs, n
  <2> QED
    BY <2>1 DEF SegmentFiles
<1>10. ASSUME pc # "closeVtt" PROVE SegmentVtt'
  <2>1. ASSUME has_subtitle, NEW i \in 1..Len(segments)
        PROVE  (\/ vtt[segments[i].n] = "whole" \/ Relisted
                \/ failures > 0 /\ last /\ segments[i].n = number)'
    <3> DEFINE n == segments[i].n
    <3>1. n \in Numbers /\ (~last => n < sequence)
      BY <1>0, SegmentsBefore
    <3>2. vtt[n] = "whole" \/ Relisted \/ (failures > 0 /\ last /\ n = number)
      BY <1>0, <1>10, <2>1 DEF SegmentVtt
    <3> HIDE DEF n
    <3>3. vtt'[n] = vtt[n] \/ vtt'[n] = "whole"
      BY <1>5, <3>1
    <3>4. failures > 0 => failures' > 0
      BY <1>0, BoundsAssumption DEF Types
    <3>5. vtt'[n] = "whole" \/ Relisted' \/ (failures' > 0 /\ last' /\ n = number')
      BY <1>1, <3>2, <3>3, <3>4
    <3> QED
      BY <3>5 DEF n
  <2>2. has_subtitle' = has_subtitle
    BY <1>0, Flags
  <2> QED
    BY <2>1, <2>2 DEF SegmentVtt
<1> QED
  BY <1>2, <1>3, <1>4, <1>8, <1>9, <1>10

-----------------------------------------------------------------------------
(* Every step keeps the invariant. *)

LEMMA FirstPacketInv ==
  ASSUME Inv, FirstPacket PROVE Inv'
<1>1. /\ UNCHANGED <<pc, last, number, duration, pb, vtt_pb, output, failures>>
      /\ UNCHANGED <<sequence, nb_entries, segments, old_segments>>
      /\ UNCHANGED <<m3u8, vtt_m3u8>> /\ UNCHANGED <<media, vtt, init>>
      /\ packets_written' \in BOOLEAN
  BY DEF FirstPacket, list, files, published
<1>2. /\ fmp4' = fmp4 /\ has_subtitle' = has_subtitle /\ CutTs' = CutTs
      /\ Relisted' = Relisted
  BY <1>1, Flags DEF Inv, Relisted
<1>3. failures \in 0..MaxFailures /\ failures <= failures /\ pc = "packets"
  BY BoundsAssumption DEF Inv, Types, FirstPacket
<1>4. Types'
  BY <1>1 DEF Inv, Types, IsPlaylist
<1>5. Control'
  BY <1>1, <1>2 DEF Inv, Control
<1>6. Opened'
  BY <1>1, <1>2 DEF Inv, Opened
<1>7. OpenedVtt'
  BY <1>1, <1>2 DEF Inv, OpenedVtt
<1>8. NextFile'
  BY <1>1, <1>2 DEF Inv, NextFile
<1>9. /\ SegmentNumbers' /\ NumbersOf(m3u8)' /\ NumbersOf(vtt_m3u8)'
      /\ Behind(m3u8)' /\ Behind(vtt_m3u8)'
      /\ Level(m3u8)' = Level(m3u8) /\ Level(vtt_m3u8)' = Level(vtt_m3u8)
      /\ SegmentsComplete' /\ VttComplete' /\ SegmentFiles' /\ SegmentVtt'
  BY <1>1, <1>3, Quiet
<1>10. PublishedInv'
  BY <1>1, <1>2, <1>9 DEF Inv, PublishedInv
<1> QED
  BY <1>4, <1>5, <1>6, <1>7, <1>8, <1>9, <1>10 DEF Inv

(* What a split changes, in either kind of output. *)
LEMMA SplitShape ==
  ASSUME Inv, NEW kind \in Kinds, Split(kind)
  PROVE  /\ pc = "packets" /\ ~last /\ number < MaxSegs /\ number = sequence
         /\ UNCHANGED <<last, packets_written, number, output>>
         /\ UNCHANGED <<sequence, nb_entries, segments, old_segments>>
         /\ UNCHANGED <<m3u8, vtt_m3u8>> /\ duration' \in Durations
         /\ failures' \in 0..MaxFailures /\ failures <= failures'
         /\ pc' \in {"append", "failed", "undefined"}
         /\ pc' = "failed" => failures' > 0
         /\ media' \in [Numbers -> Files] /\ vtt' \in [Numbers -> Files] /\ init' \in Files
         /\ \A n \in Numbers \ {number} : media'[n] = media[n]
         /\ media'[number] = media[number] \/ media'[number] = "whole"
         /\ pc' = "append" => \/ media'[number] = "whole"
                              \/ pb' = pb /\ pb = number /\ CutTs
         /\ pb' = None \/ (pb' = pb /\ pc' # "failed")
         /\ pb' = None \/ CutTs
         /\ media'[number] = "open" => pb' = number
         /\ \A n \in Numbers : vtt'[n] = vtt[n] \/ vtt'[n] = "whole"
         /\ pc' # "undefined" => vtt_pb' = None /\ (has_subtitle => vtt'[number] = "whole")
         /\ vtt_pb' = vtt_pb \/ vtt_pb' = None
         /\ fmp4 => init' = "whole" \/ (pc' = "undefined" /\ init' = init)
<1>0. Types /\ Control /\ Opened /\ OpenedVtt
  BY DEF Inv
<1>1. /\ pc = "packets" /\ ~last /\ number < MaxSegs /\ number = sequence
      /\ UNCHANGED <<last, packets_written, number, output>>
      /\ UNCHANGED <<sequence, nb_entries, segments, old_segments>>
      /\ UNCHANGED <<m3u8, vtt_m3u8>> /\ duration' \in Durations
  BY <1>0 DEF Split, list, published, Control
<1>2. /\ media \in [Numbers -> Files] /\ vtt \in [Numbers -> Files] /\ init \in Files
      /\ number \in Numbers /\ failures \in 0..MaxFailures /\ "whole" \in Files
      /\ number # None /\ fmp4 \in BOOLEAN
  <2>1. fmp4 \in BOOLEAN
    BY <1>0, <1>1, Flags
  <2> QED
    BY <1>0, <2>1, BoundsAssumption DEF Types, Files, Numbers, None
<1>3. /\ ~fmp4 => pb = number
      /\ has_subtitle => vtt_pb = number
      /\ ~has_subtitle => vtt_pb = None
      /\ fmp4 => pb = None
      /\ \A n \in Numbers : media[n] = "open" => n = pb
  BY <1>0, <1>1 DEF Opened, OpenedVtt
<1>4. ASSUME CloseVtt
      PROVE  /\ vtt' \in [Numbers -> Files] /\ vtt_pb' = None
             /\ \A n \in Numbers : vtt'[n] = vtt[n] \/ vtt'[n] = "whole"
             /\ has_subtitle => vtt'[number] = "whole"
  BY <1>2, <1>3, <1>4 DEF CloseVtt
<1>5. CASE fmp4
  <2>1. SplitFmp4(kind)
    BY <1>5 DEF Split
  <2>2. CASE InitUndefined(kind) /\ pc' = "undefined" /\ UNCHANGED <<media, vtt, init, pb, vtt_pb, failures>>
    BY <1>1, <1>2, <1>3, <1>5, <2>2, BoundsAssumption
  <2>3. CASE /\ ~InitUndefined(kind) /\ init' = "whole" /\ CloseVtt /\ UNCHANGED pb
             /\ media' = [media EXCEPT ![number] = "whole"] /\ pc' = "append"
             /\ UNCHANGED failures
    BY <1>1, <1>2, <1>3, <1>4, <1>5, <2>3, BoundsAssumption
  <2>4. CASE /\ ~InitUndefined(kind) /\ init' = "whole" /\ CloseVtt /\ UNCHANGED pb
             /\ MayFail /\ pc' = "failed" /\ UNCHANGED media
    <3>1. failures' \in 0..MaxFailures /\ failures <= failures' /\ failures' > 0
      BY <1>2, <2>4, BoundsAssumption DEF MayFail
    <3> QED
      BY <1>1, <1>2, <1>3, <1>4, <1>5, <2>4, <3>1
  <2> QED
    BY <2>1, <2>2, <2>3, <2>4 DEF SplitFmp4, files
<1>6. CASE ~fmp4
  <2>1. SplitTs(kind) /\ CanSplit(kind)
    BY <1>6 DEF Split
  <2>2. /\ CloseVtt /\ pc' = "append" /\ UNCHANGED <<init, failures>>
        /\ \/ UNCHANGED <<media, pb>> /\ kind = "subtitle"
           \/ media' = [media EXCEPT ![pb] = "whole"] /\ pb' = None
    BY <2>1 DEF SplitTs
  <2>3. CASE UNCHANGED <<media, pb>> /\ kind = "subtitle"
    <3>1. has_subtitle
      BY <2>3 DEF Kinds
    <3>2. ~has_video
      BY <2>1, <2>3 DEF CanSplit
    <3>3. CutTs
      BY <1>6, <3>1, <3>2 DEF CutTs
    <3> QED
      BY <1>1, <1>2, <1>3, <1>4, <1>6, <2>2, <2>3, <3>3, BoundsAssumption
  <2>4. CASE media' = [media EXCEPT ![pb] = "whole"] /\ pb' = None
    BY <1>1, <1>2, <1>3, <1>4, <1>6, <2>2, <2>4, BoundsAssumption
  <2> QED
    BY <2>2, <2>3, <2>4
<1> QED
  BY <1>2, <1>5, <1>6

LEMMA SplitInv ==
  ASSUME Inv, NEW kind \in Kinds, Split(kind) PROVE Inv'
<1>0. Types /\ Control /\ Opened /\ OpenedVtt /\ PublishedInv
  BY DEF Inv
<1>1. /\ pc = "packets" /\ ~last /\ number < MaxSegs /\ number = sequence
      /\ UNCHANGED <<last, packets_written, number, output>>
      /\ UNCHANGED <<sequence, nb_entries, segments, old_segments>>
      /\ UNCHANGED <<m3u8, vtt_m3u8>> /\ duration' \in Durations
      /\ failures' \in 0..MaxFailures /\ failures <= failures'
      /\ pc' \in {"append", "failed", "undefined"} /\ (pc' = "failed" => failures' > 0)
  BY SplitShape
<1>2. /\ media' \in [Numbers -> Files] /\ vtt' \in [Numbers -> Files] /\ init' \in Files
      /\ \A n \in Numbers \ {number} : media'[n] = media[n]
      /\ media'[number] = media[number] \/ media'[number] = "whole"
      /\ pc' = "append" => \/ media'[number] = "whole"
                           \/ pb' = pb /\ pb = number /\ CutTs
      /\ pb' = None \/ (pb' = pb /\ pc' # "failed")
      /\ pb' = None \/ CutTs
      /\ media'[number] = "open" => pb' = number
  BY SplitShape
<1>3. /\ \A n \in Numbers : vtt'[n] = vtt[n] \/ vtt'[n] = "whole"
      /\ pc' # "undefined" => vtt_pb' = None /\ (has_subtitle => vtt'[number] = "whole")
      /\ vtt_pb' = vtt_pb \/ vtt_pb' = None
      /\ fmp4 => init' = "whole" \/ (pc' = "undefined" /\ init' = init)
  BY SplitShape
<1>4. /\ fmp4' = fmp4 /\ has_subtitle' = has_subtitle /\ CutTs' = CutTs
      /\ ~Relisted /\ ~Relisted'
  BY <1>0, <1>1, Flags DEF Relisted
<1>5. Types'
  BY <1>0, <1>1, <1>2, <1>3 DEF Types, Labels, IsPlaylist
<1>6. Control'
  BY <1>0, <1>1, <1>4 DEF Control
<1>7. Opened'
  <2>1. pb = number \/ pb = None
    BY <1>0, <1>1 DEF Opened
  <2>2. \A n \in Numbers : media'[n] = "open" => n = pb'
    BY <1>0, <1>1, <1>2, <2>1 DEF Opened
  <2>3. fmp4 => pb' = None
    BY <1>0, <1>2 DEF Opened
  <2>4. fmp4 => init' = "whole" \/ (pc' = "undefined" /\ m3u8' = NoPlaylist)
    BY <1>0, <1>1, <1>3 DEF Opened
  <2> QED
    BY <1>1, <1>2, <1>4, <2>1, <2>2, <2>3, <2>4 DEF Opened
<1>8. OpenedVtt'
  BY <1>0, <1>1, <1>3, <1>4 DEF OpenedVtt
<1>9. NextFile'
  BY <1>1, <1>2 DEF NextFile
<1>10. /\ SegmentNumbers' /\ NumbersOf(m3u8)' /\ NumbersOf(vtt_m3u8)'
       /\ Behind(m3u8)' /\ Behind(vtt_m3u8)'
       /\ Level(m3u8)' = Level(m3u8) /\ Level(vtt_m3u8)' = Level(vtt_m3u8)
       /\ SegmentsComplete' /\ VttComplete' /\ SegmentFiles' /\ SegmentVtt'
  <2>1. \A n \in Numbers : media'[n] = media[n] \/ media'[n] = "whole"
    BY <1>2
  <2> QED
    BY <1>1, <1>3, <2>1, Quiet
<1>11. PublishedInv'
  BY <1>0, <1>1, <1>2, <1>4, <1>10 DEF PublishedInv
<1> QED
  BY <1>5, <1>6, <1>7, <1>8, <1>9, <1>10, <1>11 DEF Inv

LEMMA WindowInv ==
  ASSUME Inv, Window PROVE Inv'
<1>0. /\ Types /\ Control /\ Opened /\ OpenedVtt /\ PublishedInv /\ SegmentFiles
      /\ number \in Numbers /\ None \notin Numbers /\ "whole" \in Files /\ "cut" \in Files
  BY DEF Inv, Types, Numbers, None, Files
<1>1. /\ pc = "window" /\ pb' = None
      /\ UNCHANGED <<last, packets_written, number, duration, vtt_pb, vtt, init, output>>
      /\ UNCHANGED <<sequence, nb_entries, segments, old_segments>>
      /\ UNCHANGED <<m3u8, vtt_m3u8>>
  BY DEF Window, list, published
<1>2. /\ failures' \in 0..MaxFailures /\ failures <= failures'
      /\ \/ pc' = "publish"
         \/ pc' = "ended" /\ last /\ failures' > 0
         \/ pc' = "failed" /\ ~last /\ failures' > 0
  <2>1. failures \in Nat /\ failures <= MaxFailures /\ last \in BOOLEAN
    BY <1>0, BoundsAssumption DEF Types
  <2>2. CASE pc' = "publish" /\ UNCHANGED failures
    BY <2>1, <2>2, BoundsAssumption
  <2>3. CASE MayFail /\ pc' = IF last THEN "ended" ELSE "failed"
    BY <2>1, <2>3, BoundsAssumption DEF MayFail
  <2> QED
    BY <2>2, <2>3 DEF Window
<1>3. pb = None \/ (pb = number /\ CutTs /\ ~last)
  BY <1>0, <1>1 DEF Opened
<1>4. /\ media' \in [Numbers -> Files]
      /\ \A n \in Numbers : /\ n # pb => media'[n] = media[n]
                            /\ n = pb => media'[n] \in {"whole", "cut"}
  <2>1. media \in [Numbers -> Files]
    BY <1>0 DEF Types
  <2> QED
    BY <1>0, <1>3, <2>1 DEF Window
<1>5. /\ fmp4' = fmp4 /\ has_subtitle' = has_subtitle /\ CutTs' = CutTs
      /\ (Relisted => Relisted')
  <2>1. failures' \in Nat
    BY <1>2, BoundsAssumption
  <2> QED
    BY <1>0, <1>1, <1>2, <2>1, Flags, RelistedStays
<1>6. Types'
  BY <1>0, <1>1, <1>2, <1>4 DEF Types, Labels, IsPlaylist
<1>7. Control'
  <2>1. failures' = 0 => failures = 0
    BY <1>0, <1>2, BoundsAssumption DEF Types
  <2> QED
    BY <1>0, <1>1, <1>2, <1>5, <2>1 DEF Control
<1>8. Opened'
  BY <1>0, <1>1, <1>2, <1>4, <1>5 DEF Opened
<1>9. OpenedVtt'
  BY <1>0, <1>1, <1>2, <1>5 DEF OpenedVtt
<1>10. NextFile'
  BY <1>2 DEF NextFile
<1>11. /\ SegmentNumbers' /\ NumbersOf(m3u8)' /\ NumbersOf(vtt_m3u8)'
       /\ Behind(m3u8)' /\ Behind(vtt_m3u8)'
       /\ Level(m3u8)' = Level(m3u8) /\ Level(vtt_m3u8)' = Level(vtt_m3u8)
       /\ SegmentsComplete' /\ VttComplete' /\ SegmentVtt'
  <2>1. \A n \in Numbers : \/ media'[n] = media[n] \/ media'[n] = "whole"
                           \/ media'[n] = "cut" /\ CutTs
    BY <1>0, <1>3, <1>4
  <2> QED
    BY <1>1, <1>2, <2>1, Quiet
<1>12. PublishedInv'
  BY <1>0, <1>1, <1>2, <1>5, <1>11 DEF PublishedInv
<1>13. SegmentFiles'
  <2>1. ASSUME NEW i \in 1..Len(segments) PROVE Readable(segments[i].n)'
    <3> DEFINE n == segments[i].n
    <3>1. n \in Numbers
      BY <1>0, EntryAt DEF Types
    <3>2. media[n] = "whole" \/ Relisted \/ (media[n] = "cut" /\ CutTs) \/ (n = pb /\ CutTs)
      BY <1>0 DEF SegmentFiles, Readable, CutTs
    <3> HIDE DEF n
    <3>3. media'[n] = "whole" \/ Relisted' \/ (media'[n] = "cut" /\ CutTs')
      <4>1. CASE n = pb
        BY <1>0, <1>3, <1>4, <1>5, <3>1, <4>1
      <4>2. CASE n # pb
        BY <1>4, <1>5, <3>1, <3>2, <4>2
      <4> QED
        BY <4>1, <4>2
    <3> QED
      BY <1>1, <3>3 DEF Readable, CutTs, n
  <2> QED
    BY <1>1, <2>1 DEF SegmentFiles
<1> QED
  BY <1>6, <1>7, <1>8, <1>9, <1>10, <1>11, <1>12, <1>13 DEF Inv

(* The playlist that hls_window writes is the list. *)
LEMMA PublishedShape ==
  ASSUME Types, SegmentNumbers, pc \in {"publish", "publishVtt"}
  PROVE  /\ IsPlaylist(Published) /\ Published.list = segments
         /\ Published.sequence = sequence - nb_entries /\ Published.end = last
         /\ Behind(Published) /\ Level(Published) /\ NumbersOf(Published)
         /\ Published.sequence + Len(Published.list) = sequence
<1>1. /\ segments \in Seq(Entries) /\ nb_entries = Len(segments) /\ last \in BOOLEAN
      /\ nb_entries <= sequence /\ sequence \in Nat /\ nb_entries \in Nat
  BY BoundsAssumption DEF Types
<1>2. /\ Published.list = segments /\ Published.end = last
      /\ Published.sequence = sequence - nb_entries
  BY DEF Published, Playlist
<1>3. Published.sequence \in Nat
  BY <1>1, <1>2
<1>4. IsPlaylist(Published)
  <2>1. Published = Playlist(Published.sequence, Published.list, Published.end)
    BY <1>2 DEF Published
  <2> QED
    BY <1>1, <1>2, <1>3, <2>1 DEF IsPlaylist
<1>5. /\ Behind(Published) /\ Level(Published)
      /\ Published.sequence + Len(Published.list) = sequence
  BY <1>1, <1>2 DEF Behind, Level
<1>6. NumbersOf(Published)
  BY <1>1, <1>2 DEF NumbersOf, SegmentNumbers
<1> QED
  BY <1>2, <1>4, <1>5, <1>6

LEMMA PublishInv ==
  ASSUME Inv, Publish PROVE Inv'
<1>0. /\ Types /\ Control /\ Opened /\ OpenedVtt /\ PublishedInv /\ SegmentNumbers
      /\ SegmentFiles /\ last \in BOOLEAN /\ media \in [Numbers -> Files]
  BY DEF Inv, Types
<1>1. /\ pc = "publish" /\ m3u8' = Published
      /\ UNCHANGED <<last, packets_written, number, duration, pb, vtt_pb, output>>
      /\ UNCHANGED <<sequence, nb_entries, segments, old_segments>>
      /\ UNCHANGED <<media, vtt, init>> /\ vtt_m3u8' = vtt_m3u8
  BY DEF Publish, list, files
<1>2. /\ failures' \in 0..MaxFailures /\ failures <= failures'
      /\ \/ pc' = "publishVtt" /\ has_subtitle
         \/ pc' = "ended" /\ last /\ (has_subtitle => failures' > 0)
         \/ pc' = "start" /\ ~last /\ ~has_subtitle
         \/ pc' = "failed" /\ ~last /\ failures' > 0
  <2>1. failures \in Nat /\ failures <= MaxFailures
    BY <1>0, BoundsAssumption DEF Types
  <2>2. has_subtitle \in BOOLEAN
    BY <1>0, <1>1, Flags
  <2>3. CASE UNCHANGED failures /\ pc' = IF has_subtitle THEN "publishVtt" ELSE AfterWindow
    BY <1>0, <2>1, <2>2, <2>3, BoundsAssumption DEF AfterWindow
  <2>4. CASE has_subtitle /\ MayFail /\ pc' = IF last THEN "ended" ELSE "failed"
    BY <1>0, <2>1, <2>4, BoundsAssumption DEF MayFail
  <2> QED
    BY <2>3, <2>4 DEF Publish
<1>3. /\ fmp4' = fmp4 /\ has_subtitle' = has_subtitle /\ CutTs' = CutTs
      /\ (Relisted => Relisted')
  <2>1. failures' \in Nat
    BY <1>2, BoundsAssumption
  <2> QED
    BY <1>0, <1>1, <1>2, <2>1, Flags, RelistedStays
<1>4. /\ IsPlaylist(Published) /\ Published.list = segments
      /\ Published.end = last /\ Behind(Published) /\ Level(Published)
      /\ NumbersOf(Published) /\ Published.sequence + Len(Published.list) = sequence
  BY <1>0, <1>1, PublishedShape
<1>5. Types'
  BY <1>0, <1>1, <1>2, <1>4 DEF Types, Labels, IsPlaylist
<1>6. failures' = 0 => failures = 0
  BY <1>0, <1>2, BoundsAssumption DEF Types
<1>7. Control'
  BY <1>0, <1>1, <1>2, <1>3, <1>6 DEF Control
<1>8. Opened'
  BY <1>0, <1>1, <1>2, <1>3 DEF Opened
<1>9. OpenedVtt'
  BY <1>0, <1>1, <1>2, <1>3 DEF OpenedVtt
<1>10. NextFile'
  BY <1>2 DEF NextFile
<1>11. /\ SegmentNumbers' /\ NumbersOf(vtt_m3u8)' /\ Behind(vtt_m3u8)'
       /\ VttComplete' /\ SegmentVtt' /\ SegmentFiles'
  BY <1>1, <1>2, Quiet
<1>12. Behind(m3u8)' /\ Level(m3u8)' /\ NumbersOf(m3u8)'
  BY <1>1, <1>3, <1>4 DEF Behind, Level, NumbersOf
<1>13. SegmentsComplete'
  <2>1. ASSUME NEW i \in 1..Len(segments) PROVE Readable(segments[i].n)'
    <3>1. Readable(segments[i].n)
      BY <1>0, <1>1 DEF SegmentFiles
    <3> QED
      BY <1>1, <1>3, <3>1 DEF Readable, CutTs, SegmentFiles
  <2> QED
    BY <1>1, <1>4, <2>1 DEF SegmentsComplete, Listed
<1>14. PublishedInv'
  BY <1>0, <1>1, <1>2, <1>3, <1>4, <1>11, <1>12 DEF PublishedInv, Opened
<1> QED
  BY <1>5, <1>7, <1>8, <1>9, <1>10, <1>11, <1>13, <1>14 DEF Inv

LEMMA PublishVttInv ==
  ASSUME Inv, PublishVtt PROVE Inv'
<1>0. /\ Types /\ Control /\ Opened /\ OpenedVtt /\ PublishedInv /\ SegmentNumbers
      /\ SegmentVtt /\ last \in BOOLEAN /\ failures \in 0..MaxFailures
  BY DEF Inv, Types
<1>1. /\ pc = "publishVtt" /\ vtt_m3u8' = Published
      /\ UNCHANGED <<last, packets_written, number, duration, pb, vtt_pb, output, failures>>
      /\ UNCHANGED <<sequence, nb_entries, segments, old_segments>>
      /\ UNCHANGED <<media, vtt, init>> /\ m3u8' = m3u8
  BY DEF PublishVtt, list, files
<1>2. (pc' = "ended" /\ last) \/ (pc' = "start" /\ ~last)
  BY <1>0 DEF PublishVtt, AfterWindow
<1>3. /\ fmp4' = fmp4 /\ has_subtitle' = has_subtitle /\ CutTs' = CutTs
      /\ Relisted' = Relisted /\ has_subtitle
  <2>1. fmp4' = fmp4 /\ has_subtitle' = has_subtitle /\ CutTs' = CutTs
    BY <1>0, <1>1, Flags
  <2> QED
    BY <1>0, <1>1, <2>1 DEF Relisted, Control
<1>4. /\ IsPlaylist(Published) /\ Published.list = segments
      /\ Behind(Published) /\ Level(Published) /\ NumbersOf(Published)
  BY <1>0, <1>1, PublishedShape
<1>5. Types'
  BY <1>0, <1>1, <1>2, <1>4 DEF Types, Labels, IsPlaylist
<1>6. Control'
  BY <1>0, <1>1, <1>2, <1>3 DEF Control
<1>7. Opened'
  BY <1>0, <1>1, <1>2, <1>3 DEF Opened
<1>8. OpenedVtt'
  BY <1>0, <1>1, <1>2, <1>3 DEF OpenedVtt
<1>9. NextFile'
  BY <1>2 DEF NextFile
<1>10. /\ SegmentNumbers' /\ NumbersOf(m3u8)' /\ Behind(m3u8)' /\ Level(m3u8)' = Level(m3u8)
       /\ SegmentsComplete' /\ SegmentVtt' /\ SegmentFiles'
  <2>1. failures <= failures'
    BY <1>0, <1>1, BoundsAssumption
  <2> QED
    BY <1>0, <1>1, <1>2, <2>1, Quiet
<1>11. Behind(vtt_m3u8)' /\ Level(vtt_m3u8)' /\ NumbersOf(vtt_m3u8)'
  BY <1>1, <1>3, <1>4 DEF Behind, Level, NumbersOf
<1>12. VttComplete'
  <2>1. ASSUME NEW i \in 1..Len(segments)
        PROVE  (\/ vtt[segments[i].n] = "whole" \/ Relisted
                \/ failures > 0 /\ last /\ segments[i].n = number)'
    BY <1>0, <1>1, <1>3 DEF SegmentVtt
  <2> QED
    BY <1>1, <1>4, <2>1 DEF VttComplete, Listed
<1>13. PublishedInv'
  BY <1>0, <1>1, <1>2, <1>3, <1>10, <1>11 DEF PublishedInv, Opened
<1> QED
  BY <1>5, <1>6, <1>7, <1>8, <1>9, <1>10, <1>12, <1>13 DEF Inv

LEMMA StartInv ==
  ASSUME Inv, Start PROVE Inv'
<1>0. /\ Types /\ Control /\ Opened /\ OpenedVtt /\ PublishedInv
      /\ None \notin Numbers /\ "open" \in Files
      /\ media \in [Numbers -> Files] /\ vtt \in [Numbers -> Files]
  BY DEF Inv, Types, Numbers, None, Files
<1>1. /\ pc = "start" /\ number' = sequence
      /\ UNCHANGED <<last, packets_written, duration, init, output>>
      /\ UNCHANGED <<sequence, nb_entries, segments, old_segments>>
      /\ UNCHANGED <<m3u8, vtt_m3u8>>
  BY DEF Start, NextNumber, list, published
<1>2. ~last /\ pb = None /\ vtt_pb = None /\ sequence \in Numbers
  BY <1>0, <1>1, BoundsAssumption DEF Control, Opened, OpenedVtt, Types, Numbers
<1>3. /\ fmp4 \in BOOLEAN /\ has_subtitle \in BOOLEAN
      /\ fmp4' = fmp4 /\ has_subtitle' = has_subtitle /\ CutTs' = CutTs
      /\ ~Relisted /\ ~Relisted'
  BY <1>0, <1>1, <1>2, Flags DEF Relisted
<1>4. /\ failures' \in 0..MaxFailures /\ failures <= failures'
      /\ pc' = "packets" \/ (pc' = "failed" /\ failures' > 0)
      /\ \/ pb' = None /\ media' = media /\ (pc' = "packets" => fmp4)
         \/ ~fmp4 /\ pb' = sequence /\ media' = [media EXCEPT ![sequence] = "open"]
      /\ \/ vtt_pb' = None /\ vtt' = vtt /\ (pc' = "packets" => ~has_subtitle)
         \/ /\ pc' = "packets" /\ has_subtitle
            /\ vtt_pb' = sequence /\ vtt' = [vtt EXCEPT ![sequence] = "open"]
  <2>1. failures \in Nat /\ failures <= MaxFailures
    BY <1>0, BoundsAssumption DEF Types
  <2>2. MayFail => failures' \in 0..MaxFailures /\ failures <= failures' /\ failures' > 0
    BY <2>1, BoundsAssumption DEF MayFail
  <2>3. failures' = failures => failures' \in 0..MaxFailures /\ failures <= failures'
    BY <2>1, BoundsAssumption
  <2>4. CASE /\ IF fmp4 THEN UNCHANGED <<media, pb>>
                ELSE media' = [media EXCEPT ![NextNumber] = "open"] /\ pb' = NextNumber
             /\ OpenVtt(NextNumber)
    <3>1. \/ pb' = None /\ media' = media /\ fmp4
          \/ ~fmp4 /\ pb' = sequence /\ media' = [media EXCEPT ![sequence] = "open"]
      BY <1>2, <1>3, <2>4 DEF NextNumber
    <3>2. CASE ~has_subtitle /\ pc' = "packets" /\ UNCHANGED <<vtt, vtt_pb, failures>>
      BY <1>2, <1>3, <2>3, <3>1, <3>2
    <3>3. CASE has_subtitle /\ vtt' = [vtt EXCEPT ![sequence] = "open"]
               /\ vtt_pb' = sequence /\ pc' = "packets" /\ UNCHANGED failures
      BY <1>2, <1>3, <2>3, <3>1, <3>3
    <3>4. CASE has_subtitle /\ MayFail /\ pc' = "failed" /\ UNCHANGED <<vtt, vtt_pb>>
      BY <1>2, <1>3, <2>2, <3>1, <3>4
    <3> QED
      BY <2>4, <3>2, <3>3, <3>4 DEF OpenVtt, NextNumber
  <2>5. CASE ~fmp4 /\ MayFail /\ pc' = "failed" /\ UNCHANGED <<media, pb, vtt, vtt_pb>>
    BY <1>2, <2>2, <2>5
  <2> QED
    BY <2>4, <2>5 DEF Start
<1>5. /\ media' \in [Numbers -> Files] /\ vtt' \in [Numbers -> Files]
      /\ \A n \in Numbers : n # sequence => media'[n] = media[n] /\ vtt'[n] = vtt[n]
      /\ pb' = None => media' = media
  BY <1>0, <1>2, <1>4
<1>6. Types'
  BY <1>0, <1>1, <1>2, <1>4, <1>5 DEF Types, Labels, IsPlaylist
<1>7. Control'
  BY <1>0, <1>1, <1>2, <1>3, <1>4 DEF Control
<1>8. Opened'
  <2>1. \A n \in Numbers : media'[n] = "open" => n = pb'
    BY <1>0, <1>2, <1>4, <1>5 DEF Opened
  <2> QED
    BY <1>0, <1>1, <1>2, <1>3, <1>4, <2>1 DEF Opened
<1>9. OpenedVtt'
  BY <1>0, <1>1, <1>2, <1>3, <1>4 DEF OpenedVtt
<1>10. NextFile'
  BY <1>4 DEF NextFile
<1>11. /\ SegmentNumbers' /\ NumbersOf(m3u8)' /\ NumbersOf(vtt_m3u8)'
       /\ Behind(m3u8)' /\ Behind(vtt_m3u8)'
       /\ Level(m3u8)' = Level(m3u8) /\ Level(vtt_m3u8)' = Level(vtt_m3u8)
       /\ SegmentsComplete' /\ VttComplete' /\ SegmentFiles' /\ SegmentVtt'
  <2>1. \A n \in Numbers : /\ media'[n] = media[n] \/ n >= sequence
                           /\ vtt'[n] = vtt[n] \/ n >= sequence
    BY <1>2, <1>5, BoundsAssumption DEF Numbers
  <2> QED
    BY <1>1, <1>2, <1>4, <2>1, Quiet
<1>12. PublishedInv'
  BY <1>0, <1>1, <1>2, <1>3, <1>4, <1>11 DEF PublishedInv
<1> QED
  BY <1>6, <1>7, <1>8, <1>9, <1>10, <1>11, <1>12 DEF Inv

LEMMA TrailerInv ==
  ASSUME Inv, Trailer PROVE Inv'
<1>0. /\ Types /\ Control /\ Opened /\ OpenedVtt /\ PublishedInv
      /\ number \in Numbers /\ None \notin Numbers /\ "whole" \in Files
      /\ media \in [Numbers -> Files] /\ vtt \in [Numbers -> Files]
  BY DEF Inv, Types, Numbers, None, Files
<1>1. /\ pc \in {"packets", "failed"} /\ last' = TRUE /\ duration' \in Durations
      /\ UNCHANGED <<packets_written, number, vtt_pb, vtt, output>>
      /\ UNCHANGED <<sequence, nb_entries, segments, old_segments>>
      /\ UNCHANGED <<m3u8, vtt_m3u8>>
  BY DEF Trailer, list, published
<1>2. /\ ~last /\ pb \in {number, None} /\ ~Relisted
      /\ pc = "failed" => failures > 0
      /\ pb # None => number = sequence
      /\ pc = "packets" => number = sequence
  BY <1>0, <1>1 DEF Control, Opened, Relisted
<1>3. /\ fmp4 \in BOOLEAN /\ has_subtitle \in BOOLEAN
      /\ fmp4' = fmp4 /\ has_subtitle' = has_subtitle /\ CutTs' = CutTs
  BY <1>0, <1>1, Flags
<1>4. failures' \in 0..MaxFailures /\ failures <= failures' /\ (failures > 0 => failures' > 0)
  <2>1. failures \in Nat /\ failures <= MaxFailures
    BY <1>0, BoundsAssumption DEF Types
  <2>2. failures' = failures \/ MayFail
    BY DEF Trailer, TrailerFmp4, TrailerTs
  <2> QED
    BY <2>1, <2>2, BoundsAssumption DEF MayFail
<1>5. /\ pb' = None
      /\ \/ /\ ~fmp4 /\ pb = None /\ media' = media /\ init' = init
            /\ pc' = IF has_subtitle THEN "closeVtt" ELSE "window"
         \/ /\ ~fmp4 /\ pb = number /\ media' = [media EXCEPT ![number] = "whole"]
            /\ init' = init /\ pc' = "append"
         \/ /\ fmp4 /\ pb = None /\ pc' = "append" /\ init' = "whole"
            /\ \/ media' = [media EXCEPT ![number] = "whole"]
               \/ media' = media /\ failures' > 0
  <2>1. CASE fmp4
    <3>1. pb = None /\ TrailerFmp4
      BY <1>0, <2>1 DEF Opened, Trailer
    <3>2. MayFail => failures' > 0
      BY <1>0, BoundsAssumption DEF MayFail, Types
    <3> QED
      BY <2>1, <3>1, <3>2 DEF TrailerFmp4
  <2>2. CASE ~fmp4
    <3>1. TrailerTs
      BY <2>2 DEF Trailer
    <3> QED
      BY <1>0, <1>2, <2>2, <3>1 DEF TrailerTs
  <2> QED
    BY <1>3, <2>1, <2>2
<1>6. /\ media' \in [Numbers -> Files]
      /\ \A n \in Numbers : media'[n] = media[n] \/ media'[n] = "whole"
      /\ pb = number => media'[number] = "whole"
      /\ pc' = "append" => media'[number] = "whole" \/ (fmp4 /\ failures' > 0)
  BY <1>0, <1>5
<1>7. pc = "failed" /\ fmp4 => Relisted'
  BY <1>1, <1>2, <1>3, <1>4 DEF Relisted
<1>8. pc' \in {"append", "window", "closeVtt"} /\ (pc = "packets" => pc' = "append")
  BY <1>0, <1>1, <1>5 DEF Opened
<1>9. Types'
  <2>1. init' \in Files
    BY <1>0, <1>5 DEF Types
  <2> QED
    BY <1>0, <1>1, <1>4, <1>5, <1>6, <1>8, <2>1 DEF Types, Labels, IsPlaylist
<1>10. Control'
  <2>1. failures' = 0 => pc = "packets"
    BY <1>1, <1>2, <1>4, BoundsAssumption
  <2>2. pc' = "closeVtt" => has_subtitle
    BY <1>5
  <2>3. pc' = "append" /\ number # sequence => Relisted'
    BY <1>1, <1>2, <1>5, <1>7, <1>0
  <2> QED
    BY <1>0, <1>1, <1>2, <1>3, <1>8, <2>1, <2>2, <2>3 DEF Control
<1>11. Opened'
  <2>1. \A n \in Numbers : media'[n] # "open"
    BY <1>0, <1>2, <1>5, <1>6 DEF Opened
  <2>2. fmp4 => init' = "whole"
    BY <1>5
  <2> QED
    BY <1>3, <1>5, <2>1, <2>2 DEF Opened
<1>12. OpenedVtt'
  <2>1. pc' = "window" => ~has_subtitle
    BY <1>3, <1>5
  <2> QED
    BY <1>0, <1>1, <1>2, <1>3, <1>4, <1>8, <2>1 DEF OpenedVtt
<1>13. NextFile'
  BY <1>1, <1>3, <1>6 DEF NextFile, Relisted
<1>14. /\ SegmentNumbers' /\ NumbersOf(m3u8)' /\ NumbersOf(vtt_m3u8)'
       /\ Behind(m3u8)' /\ Behind(vtt_m3u8)'
       /\ Level(m3u8)' = Level(m3u8) /\ Level(vtt_m3u8)' = Level(vtt_m3u8)
       /\ SegmentsComplete' /\ VttComplete' /\ SegmentFiles' /\ SegmentVtt'
  BY <1>1, <1>2, <1>4, <1>6, Quiet
<1>15. PublishedInv'
  <2>1. pc' = "append" /\ ~Relisted' => pc = "packets" \/ (pc = "failed" /\ pb # None)
    BY <1>0, <1>1, <1>5, <1>7
  <2> QED
    BY <1>0, <1>1, <1>2, <1>3, <1>8, <1>14, <2>1 DEF PublishedInv
<1> QED
  BY <1>9, <1>10, <1>11, <1>12, <1>13, <1>14, <1>15 DEF Inv

LEMMA TrailerVttInv ==
  ASSUME Inv, TrailerVtt PROVE Inv'
<1>0. /\ Types /\ Control /\ Opened /\ OpenedVtt /\ PublishedInv /\ SegmentVtt
      /\ number \in Numbers /\ None \notin Numbers /\ "whole" \in Files
      /\ vtt \in [Numbers -> Files] /\ failures \in 0..MaxFailures
  BY DEF Inv, Types, Numbers, None, Files
<1>1. /\ pc = "closeVtt" /\ pc' = "window" /\ vtt_pb' = None
      /\ UNCHANGED <<last, packets_written, number, duration, pb, media, init, output,
                     failures>>
      /\ UNCHANGED <<sequence, nb_entries, segments, old_segments>>
      /\ UNCHANGED <<m3u8, vtt_m3u8>>
  BY DEF TrailerVtt, CloseVtt, list, published
<1>2. /\ last /\ pb = None /\ has_subtitle /\ vtt_pb \in {number, None}
      /\ vtt_pb = number \/ failures > 0
  BY <1>0, <1>1 DEF Control, Opened, OpenedVtt
<1>3. /\ fmp4' = fmp4 /\ has_subtitle' = has_subtitle /\ CutTs' = CutTs
      /\ Relisted' = Relisted
  <2>1. fmp4' = fmp4 /\ has_subtitle' = has_subtitle /\ CutTs' = CutTs
    BY <1>0, <1>1, Flags
  <2> QED
    BY <1>1, <2>1 DEF Relisted
<1>4. /\ vtt' \in [Numbers -> Files]
      /\ \A n \in Numbers : vtt'[n] = vtt[n] \/ vtt'[n] = "whole"
      /\ vtt'[number] = "whole" \/ failures > 0
  BY <1>0, <1>2 DEF TrailerVtt, CloseVtt
<1>5. Types'
  BY <1>0, <1>1, <1>4 DEF Types, Labels, IsPlaylist
<1>6. Control'
  BY <1>0, <1>1, <1>2, <1>3 DEF Control
<1>7. Opened'
  BY <1>0, <1>1, <1>2, <1>3 DEF Opened
<1>8. OpenedVtt'
  BY <1>0, <1>1, <1>2, <1>3 DEF OpenedVtt
<1>9. NextFile'
  BY <1>1 DEF NextFile
<1>10. /\ SegmentNumbers' /\ NumbersOf(m3u8)' /\ NumbersOf(vtt_m3u8)'
       /\ Behind(m3u8)' /\ Behind(vtt_m3u8)'
       /\ Level(m3u8)' = Level(m3u8) /\ Level(vtt_m3u8)' = Level(vtt_m3u8)
       /\ SegmentsComplete' /\ VttComplete' /\ SegmentFiles'
  <2>1. failures <= failures'
    BY <1>0, <1>1, BoundsAssumption
  <2> QED
    BY <1>0, <1>1, <1>2, <1>4, <2>1, Quiet
<1>11. SegmentVtt'
  <2>1. ASSUME NEW i \in 1..Len(segments)
        PROVE  (\/ vtt[segments[i].n] = "whole" \/ Relisted
                \/ failures > 0 /\ last /\ segments[i].n = number)'
    <3> DEFINE n == segments[i].n
    <3>1. n \in Numbers
      BY <1>0, EntryAt DEF Types
    <3>2. \/ vtt[n] = "whole" \/ Relisted \/ (failures > 0 /\ last /\ n = number)
          \/ n = number
      BY <1>0, <1>2 DEF SegmentVtt
    <3> HIDE DEF n
    <3>3. vtt'[n] = "whole" \/ Relisted \/ (failures > 0 /\ last /\ n = number)
      BY <1>2, <1>4, <3>1, <3>2
    <3> QED
      BY <1>1, <1>3, <3>3 DEF n
  <2> QED
    BY <1>1, <2>1 DEF SegmentVtt
<1>12. PublishedInv'
  BY <1>0, <1>1, <1>3, <1>10 DEF PublishedInv
<1> QED
  BY <1>5, <1>6, <1>7, <1>8, <1>9, <1>10, <1>11, <1>12 DEF Inv

(* What hls_append_segment does to the list, the old segments and the      *)
(* files: the new segment is the last of the list, and only files of       *)
(* segments older than the whole list are deleted.                         *)
LEMMA AppendShape ==
  ASSUME Inv, AppendSegment
  PROVE  /\ segments' \in Seq(Entries) /\ Len(segments') > 0
         /\ nb_entries' = Len(segments') /\ old_segments' \in Seq(Entries)
         /\ max_nb_segments > 0 => nb_entries' <= max_nb_segments
         /\ sequence' = sequence + 1
         /\ \/ Len(segments') = Len(segments) + 1
            \/ Len(segments') = Len(segments)
         /\ segments'[Len(segments')].n = number
         /\ \A i \in 1..(Len(segments') - 1) :
              \E j \in 1..Len(segments) :
                /\ segments'[i].n = segments[j].n
                /\ sequence' - Len(segments') + i = sequence - Len(segments) + j
         /\ \A i \in 1..Len(old_segments') :
              old_segments'[i].n < sequence' - Len(segments')
         /\ media' \in [Numbers -> Files] /\ vtt' \in [Numbers -> Files]
         /\ \A n \in Numbers :
              \/ media'[n] = media[n] /\ vtt'[n] = vtt[n]
              \/ /\ n < sequence - Len(segments)
                 /\ media'[n] \in {media[n], "absent"} /\ vtt'[n] \in {vtt[n], "absent"}
         /\ failures' \in 0..MaxFailures /\ failures <= failures'
<1>0. /\ Types /\ SegmentNumbers /\ pc = "append" /\ sequence' = sequence + 1
      /\ segments \in Seq(Entries) /\ old_segments \in Seq(Entries)
      /\ Len(segments) \in Nat /\ sequence \in Nat /\ nb_entries = Len(segments)
      /\ media \in [Numbers -> Files] /\ vtt \in [Numbers -> Files] /\ "absent" \in Files
      /\ max_nb_segments \in Nat /\ nb_entries <= sequence
      /\ max_nb_segments > 0 => nb_entries <= max_nb_segments
  BY OptionsAssumption, BoundsAssumption DEF Inv, Types, AppendSegment, Files
<1> DEFINE e == Segment(number, duration)
           base == sequence - Len(segments)
<1>1. e \in Entries /\ e.n = number
  BY <1>0 DEF Types, Entries, Segment
<1>2. \A i \in 1..Len(segments) : segments[i].n = base + i - 1
  BY <1>0 DEF SegmentNumbers
<1>3. \A i \in 1..Len(old_segments) : old_segments[i].n < base
  BY <1>0 DEF SegmentNumbers
<1>4. failures \in Nat /\ failures <= MaxFailures
  BY <1>0, BoundsAssumption DEF Types
<1>5. Append1 = Append(segments, e)
  BY DEF Append1
<1> HIDE DEF e
<1>6. /\ Append1 \in Seq(Entries) /\ Len(Append1) = Len(segments) + 1
      /\ \A i \in 1..Len(segments) : Append1[i] = segments[i]
      /\ Append1[Len(segments) + 1] = e
      /\ Tail(Append1) \in Seq(Entries) /\ Len(Tail(Append1)) = Len(segments)
      /\ \A i \in 1..Len(segments) : Tail(Append1)[i] = Append1[i + 1]
      /\ Len(segments) > 0 => Head(Append1) = segments[1]
  BY <1>0, <1>1, <1>5, Appending
<1> HIDE DEF base
<1>7. CASE ~Slides
  <2>1. /\ segments' = Append1 /\ nb_entries' = nb_entries + 1
        /\ UNCHANGED <<old_segments, media, vtt, failures>>
    BY <1>7 DEF AppendSegment
  <2>2. max_nb_segments > 0 => nb_entries' <= max_nb_segments
    BY <1>0, <1>7, <2>1 DEF Slides
  <2>3. Len(segments') = Len(segments) + 1 /\ segments'[Len(segments')].n = number
    BY <1>1, <1>6, <2>1
  <2>4. ASSUME NEW i \in 1..(Len(segments') - 1)
        PROVE  \E j \in 1..Len(segments) :
                 /\ segments'[i].n = segments[j].n
                 /\ sequence' - Len(segments') + i = sequence - Len(segments) + j
    <3>1. i \in 1..Len(segments) /\ segments'[i].n = segments[i].n
      BY <1>0, <1>6, <2>1, <2>3
    <3>2. sequence' - Len(segments') + i = sequence - Len(segments) + i
      BY <1>0, <2>3, <3>1
    <3> QED
      BY <3>1, <3>2
  <2>5. \A i \in 1..Len(old_segments') : old_segments'[i].n < sequence' - Len(segments')
    BY <1>0, <1>3, <2>1, <2>3 DEF base
  <2> QED
    BY <1>0, <1>4, <1>6, <2>1, <2>2, <2>3, <2>4, <2>5, BoundsAssumption
<1>8. CASE Slides
  <2>1. segments' = Tail(Append1) /\ nb_entries' = nb_entries
    BY <1>8 DEF AppendSegment
  <2>2. Len(segments) > 0
    BY <1>0, <1>8 DEF Slides
  <2>3. Len(segments') = Len(segments) /\ segments'[Len(segments')].n = number
    BY <1>1, <1>6, <2>1, <2>2, <1>0
  <2>4. ASSUME NEW i \in 1..(Len(segments') - 1)
        PROVE  \E j \in 1..Len(segments) :
                 /\ segments'[i].n = segments[j].n
                 /\ sequence' - Len(segments') + i = sequence - Len(segments) + j
    <3>1. i + 1 \in 1..Len(segments) /\ segments'[i].n = segments[i + 1].n
      BY <1>0, <1>6, <2>1, <2>3
    <3>2. sequence' - Len(segments') + i = sequence - Len(segments) + (i + 1)
      BY <1>0, <2>3
    <3> QED
      BY <3>1, <3>2
  <2>5. sequence' - Len(segments') = base + 1 /\ base \in Int
    BY <1>0, <2>3 DEF base
  <2>6. CASE ~delete_segments
    <3>1. UNCHANGED <<old_segments, media, vtt, failures>>
      BY <2>6 DEF AppendSegment
    <3>2. ASSUME NEW i \in 1..Len(old_segments)
          PROVE  old_segments[i].n < base + 1
      BY <1>0, <1>3, <2>5, EntryAt DEF Numbers
    <3>3. \A i \in 1..Len(old_segments') : old_segments'[i].n < sequence' - Len(segments')
      BY <2>5, <3>1, <3>2
    <3>4. failures' \in 0..MaxFailures /\ failures <= failures'
      BY <1>4, <3>1, BoundsAssumption
    <3> QED
      BY <1>0, <1>6, <2>1, <2>2, <2>3, <2>4, <3>1, <3>3, <3>4
  <2>7. CASE delete_segments
    <3> DEFINE old == <<Head(Append1)>> \o old_segments
               k == Kept(segments', old)
    <3>1. old_segments' = SubSeq(old, 1, k) /\ Unlink(Drops(segments', old))
      BY <1>8, <2>1, <2>7 DEF AppendSegment
    <3>2. segments[1] \in Entries /\ Head(Append1) = segments[1]
      BY <1>0, <1>6, <2>2, EntryAt
    <3>3. segments[1].n = base
      BY <1>0, <1>2, <2>2, <2>5
    <3>4. Len(old) = Len(old_segments) + 1 /\ Len(old_segments) \in Nat
          /\ \A i \in 2..(Len(old_segments) + 1) : old[i] = old_segments[i - 1]
      BY <1>0, <3>2
    <3> HIDE DEF old
    <3>5. k \in 1..Len(old)
      <4>1. Len(old) \in Nat \ {0}
        BY <3>4
      <4> QED
        BY <4>1, KeptBounds
    <3> HIDE DEF k
    <3>6. /\ old_segments' \in Seq(Entries) /\ Len(old_segments') = k
          /\ old_segments'[1] = segments[1]
          /\ \A i \in 2..k : old_segments'[i] = old_segments[i - 1]
      BY <1>0, <3>1, <3>2, <3>4, <3>5, Prepending DEF old
    <3>7. ASSUME NEW i \in 1..Len(old_segments') PROVE old_segments'[i].n < base + 1
      <4>1. CASE i = 1
        BY <2>5, <3>3, <3>6, <4>1
      <4>2. CASE i # 1
        <5>1. i \in 2..k /\ i - 1 \in 1..Len(old_segments)
          BY <3>4, <3>5, <3>6, <4>2
        <5>2. old_segments'[i].n = old_segments[i - 1].n /\ old_segments[i - 1].n < base
          BY <1>3, <3>6, <5>1
        <5>3. old_segments[i - 1].n \in Int
          <6>1. old_segments[i - 1].n \in Numbers
            BY <1>0, <5>1, EntryAt
          <6> QED
            BY <6>1 DEF Numbers
        <5> QED
          BY <2>5, <5>2, <5>3
      <4> QED
        BY <4>1, <4>2
    <3>8. \A n \in Drops(segments', old) : n < base
      <4>1. ASSUME NEW i \in (k + 1)..Len(old) PROVE old[i].n < base
        <5>1. i \in 2..(Len(old_segments) + 1) /\ i - 1 \in 1..Len(old_segments)
          BY <3>4, <3>5
        <5> QED
          BY <1>3, <3>4, <5>1
      <4> QED
        BY <4>1 DEF Drops, k
    <3>9. /\ failures' \in 0..MaxFailures /\ failures <= failures'
          /\ media' \in [Numbers -> Files] /\ vtt' \in [Numbers -> Files]
          /\ \A n \in Numbers :
               \/ media'[n] = media[n] /\ vtt'[n] = vtt[n]
               \/ n \in Drops(segments', old) /\ media'[n] = "absent" /\ vtt'[n] = "absent"
      <4> DEFINE D == Drops(segments', old)
      <4>0. Unlink(D)
        BY <3>1
      <4> HIDE DEF D
      <4>1. CASE MayFail /\ UNCHANGED <<media, vtt>>
        BY <1>0, <1>4, <4>1, BoundsAssumption DEF MayFail
      <4>2. CASE /\ media' = [n \in Numbers |-> IF n \in D THEN "absent" ELSE media[n]]
                 /\ vtt' = [n \in Numbers |-> IF n \in D THEN "absent" ELSE vtt[n]]
                 /\ UNCHANGED failures
        BY <1>0, <1>4, <4>2, BoundsAssumption DEF D
      <4> QED
        BY <4>0, <4>1, <4>2 DEF Unlink
    <3>10. \A n \in Numbers :
             \/ media'[n] = media[n] /\ vtt'[n] = vtt[n]
             \/ n < base /\ media'[n] = "absent" /\ vtt'[n] = "absent"
      BY <3>8, <3>9
    <3> QED
      BY <1>0, <1>6, <2>1, <2>2, <2>3, <2>4, <2>5, <3>6, <3>7, <3>9, <3>10 DEF base
  <2> QED
    BY <2>6, <2>7
<1> QED
  BY <1>7, <1>8

(* Whoever has a playlist that is level with the list finds the files as   *)
(* they were: what is deleted is older.                                    *)
LEMMA LevelKept ==
  ASSUME Inv, AppendSegment, ~Relisted, NEW p \in {m3u8, vtt_m3u8}, Level(p),
         NEW n \in Listed(p)
  PROVE  n \in Numbers /\ media'[n] = media[n] /\ vtt'[n] = vtt[n]
<1>0. /\ Types /\ PublishedInv /\ nb_entries = Len(segments) /\ sequence \in Int
      /\ Len(segments) \in Int
  BY BoundsAssumption DEF Inv, Types
<1>1. PICK i \in 1..Len(p.list) : n = p.list[i].n
  BY DEF Listed
<1>2. p.list \in Seq(Entries) /\ p.sequence \in Nat
  BY <1>0 DEF Types, IsPlaylist
<1>3. n \in Numbers
  BY <1>1, <1>2, EntryAt
<1>4. n = p.sequence + i - 1
  BY <1>0, <1>1 DEF PublishedInv, NumbersOf
<1>5. n >= sequence - Len(segments) /\ n \in Int
  BY <1>0, <1>2, <1>4 DEF Level
<1>6. \/ media'[n] = media[n] /\ vtt'[n] = vtt[n]
      \/ n < sequence - Len(segments)
  BY <1>3, AppendShape
<1> QED
  BY <1>0, <1>3, <1>5, <1>6

LEMMA AppendSegmentInv ==
  ASSUME Inv, AppendSegment PROVE Inv'
<1>0. /\ Types /\ Control /\ Opened /\ OpenedVtt /\ SegmentNumbers /\ PublishedInv
      /\ SegmentFiles /\ SegmentVtt /\ NextFile /\ SegmentsComplete /\ VttComplete
      /\ sequence \in Nat /\ number \in Numbers /\ number \in Nat /\ number <= MaxSegs
      /\ Len(segments) \in Nat /\ nb_entries = Len(segments) /\ last \in BOOLEAN
      /\ failures \in Nat /\ segments \in Seq(Entries)
      /\ Len(segments) <= sequence
  BY BoundsAssumption DEF Inv, Types, Numbers
<1>1. /\ pc = "append" /\ pc' = IF last /\ has_subtitle THEN "closeVtt" ELSE "window"
      /\ UNCHANGED <<last, packets_written, number, duration, pb, vtt_pb, init, output>>
      /\ UNCHANGED <<m3u8, vtt_m3u8>>
  BY DEF AppendSegment, published
<1>2. /\ segments' \in Seq(Entries) /\ Len(segments') > 0
      /\ nb_entries' = Len(segments') /\ old_segments' \in Seq(Entries)
      /\ max_nb_segments > 0 => nb_entries' <= max_nb_segments
      /\ sequence' = sequence + 1
      /\ Len(segments') = Len(segments) + 1 \/ Len(segments') = Len(segments)
      /\ segments'[Len(segments')].n = number
      /\ \A i \in 1..(Len(segments') - 1) :
           \E j \in 1..Len(segments) :
             /\ segments'[i].n = segments[j].n
             /\ sequence' - Len(segments') + i = sequence - Len(segments) + j
      /\ \A i \in 1..Len(old_segments') : old_segments'[i].n < sequence' - Len(segments')
  BY AppendShape
<1>3. /\ media' \in [Numbers -> Files] /\ vtt' \in [Numbers -> Files]
      /\ \A n \in Numbers :
           \/ media'[n] = media[n] /\ vtt'[n] = vtt[n]
           \/ /\ n < sequence - Len(segments)
              /\ media'[n] \in {media[n], "absent"} /\ vtt'[n] \in {vtt[n], "absent"}
      /\ failures' \in 0..MaxFailures /\ failures <= failures'
  BY AppendShape
<1>4. /\ fmp4' = fmp4 /\ has_subtitle' = has_subtitle /\ CutTs' = CutTs
      /\ has_subtitle \in BOOLEAN
      /\ Relisted => Relisted'
      /\ failures' = 0 => failures = 0
      /\ failures > 0 => failures' > 0
  <2>1. failures' \in Nat
    BY <1>3, BoundsAssumption
  <2>2. fmp4' = fmp4 /\ has_subtitle' = has_subtitle /\ CutTs' = CutTs
        /\ has_subtitle \in BOOLEAN
    BY <1>0, <1>1, Flags
  <2>3. Relisted => Relisted'
    BY <1>0, <1>1, <1>3, <2>1, RelistedStays
  <2> QED
    BY <1>0, <1>3, <2>1, <2>2, <2>3
<1>5. /\ ~Relisted => number = sequence
      /\ number = sequence \/ sequence = number + 1
      /\ ~last => number < MaxSegs
      /\ sequence = number + 1 => number < MaxSegs
  BY <1>0, <1>1 DEF Control, Relisted
<1>6. Types'
  <2>1. sequence' \in 0..(MaxSegs + 1)
    BY <1>0, <1>2, <1>5, BoundsAssumption
  <2>2. nb_entries' <= sequence'
    BY <1>0, <1>2
  <2>3. pc' \in Labels
    BY <1>1 DEF Labels
  <2> QED
    BY <1>0, <1>1, <1>2, <1>3, <2>1, <2>2, <2>3 DEF Types, IsPlaylist
<1>7. Control'
  <2>1. ~last => sequence' = number' + 1 /\ number' < MaxSegs /\ nb_entries' > 0
    BY <1>1, <1>2, <1>5 DEF Relisted
  <2>2. failures' = 0 => sequence' = number' + 1
    BY <1>0, <1>1, <1>2, <1>4, <1>5 DEF Relisted
  <2>3. pc' = "closeVtt" => last' /\ has_subtitle'
    BY <1>0, <1>1, <1>4
  <2>4. pc' \in {"closeVtt", "window"}
    BY <1>1
  <2> QED
    BY <1>1, <2>1, <2>2, <2>3, <2>4 DEF Control
<1>8. Opened'
  <2>1. \A n \in Numbers : media'[n] = "open" => n = pb'
    BY <1>0, <1>1, <1>3 DEF Opened
  <2>2. pc' = "closeVtt" => last
    BY <1>0, <1>1, <1>4
  <2>3. pc' \in {"closeVtt", "window"}
    BY <1>1
  <2> QED
    BY <1>0, <1>1, <1>4, <2>1, <2>2, <2>3 DEF Opened
<1>9. OpenedVtt'
  <2>1. \/ pc' = "closeVtt" /\ last /\ has_subtitle
        \/ pc' = "window" /\ ~(last /\ has_subtitle)
    <3>1. CASE last /\ has_subtitle
      BY <1>1, <3>1
    <3>2. CASE ~(last /\ has_subtitle)
      BY <1>1, <3>2
    <3> QED
      BY <3>1, <3>2
  <2> QED
    BY <1>0, <1>1, <1>4, <2>1 DEF OpenedVtt
<1>10. NextFile'
  BY <1>1 DEF NextFile
<1>11. SegmentNumbers'
  <2>1. ASSUME NEW i \in 1..Len(segments')
        PROVE  \/ segments'[i].n = sequence' - Len(segments') + i - 1
               \/ Relisted' /\ pc' # "append" /\ i = Len(segments') /\ segments'[i].n = number'
    <3>1. CASE i = Len(segments')
      <4>1. segments'[i].n = number /\ pc' # "append" /\ number' = number
        BY <1>1, <1>2, <3>1
      <4>2. number = sequence => number = sequence' - Len(segments') + i - 1
        BY <1>0, <1>2, <3>1
      <4> QED
        BY <1>4, <1>5, <3>1, <4>1, <4>2
    <3>2. CASE i # Len(segments')
      <4>1. i \in 1..(Len(segments') - 1)
        BY <1>2, <3>2
      <4>2. PICK j \in 1..Len(segments) :
              /\ segments'[i].n = segments[j].n
              /\ sequence' - Len(segments') + i = sequence - Len(segments) + j
        BY <1>2, <4>1
      <4>3. segments[j].n = sequence - Len(segments) + j - 1
        BY <1>0, <1>1 DEF SegmentNumbers
      <4> QED
        BY <1>0, <1>2, <4>2, <4>3
    <3> QED
      BY <3>1, <3>2
  <2> QED
    BY <1>2, <2>1 DEF SegmentNumbers
<1>12. PublishedInv'
  <2>1. ASSUME NEW p \in {m3u8, vtt_m3u8}, p' = p PROVE NumbersOf(p)' /\ Behind(p)'
    <3>1. NumbersOf(p) /\ Behind(p) /\ p.sequence \in Nat /\ Len(p.list) \in Nat
      BY <1>0 DEF PublishedInv, Types, IsPlaylist
    <3>2. NumbersOf(p)'
      BY <1>1, <1>4, <2>1, <3>1 DEF NumbersOf
    <3>3. Behind(p)'
      BY <1>0, <1>2, <2>1, <3>1 DEF Behind
    <3> QED
      BY <3>2, <3>3
  <2>2. NumbersOf(m3u8)' /\ Behind(m3u8)' /\ NumbersOf(vtt_m3u8)' /\ Behind(vtt_m3u8)'
    BY <1>1, <2>1
  <2>3. pc' \in {"closeVtt", "window"}
    BY <1>1
  <2> QED
    BY <1>0, <1>1, <2>2, <2>3 DEF PublishedInv
<1>13. SegmentsComplete'
  <2>1. ASSUME NEW n \in Listed(m3u8) PROVE Readable(n)'
    <3>1. CASE Relisted
      BY <1>4, <3>1 DEF Readable
    <3>2. CASE ~Relisted
      <4>1. Level(m3u8)
        BY <1>0, <1>1, <3>2 DEF PublishedInv
      <4>2. media'[n] = media[n]
        BY <3>2, <4>1, LevelKept
      <4>3. Readable(n)
        BY <1>0 DEF SegmentsComplete
      <4> QED
        BY <1>0, <1>1, <1>4, <4>2, <4>3, StillReadable
    <3> QED
      BY <3>1, <3>2
  <2> QED
    BY <1>1, <2>1 DEF SegmentsComplete, Listed
<1>14. VttComplete'
  <2>1. ASSUME NEW n \in Listed(vtt_m3u8)
        PROVE  (vtt[n] = "whole" \/ Relisted \/ (failures > 0 /\ last /\ n = number))'
    <3>1. CASE Relisted
      BY <1>4, <3>1
    <3>2. CASE ~Relisted
      <4>1. has_subtitle
        <5>1. CASE ~has_subtitle
          BY <1>0, <5>1 DEF OpenedVtt, NoPlaylist, Playlist, Listed
        <5> QED
          BY <5>1
      <4>2. Level(vtt_m3u8)
        BY <1>0, <1>1, <3>2, <4>1 DEF PublishedInv
      <4>3. vtt'[n] = vtt[n]
        BY <3>2, <4>2, LevelKept
      <4> QED
        BY <1>0, <1>1, <1>4, <3>2, <4>3 DEF VttComplete
    <3> QED
      BY <3>1, <3>2
  <2> QED
    BY <1>1, <2>1 DEF VttComplete, Listed
<1>15. ASSUME NEW j \in 1..Len(segments)
       PROVE  LET n == segments[j].n IN
                n \in Numbers /\ media'[n] = media[n] /\ vtt'[n] = vtt[n]
  <2> DEFINE n == segments[j].n
  <2>1. n \in Numbers
    BY <1>0, EntryAt
  <2>2. n = sequence - Len(segments) + j - 1
    BY <1>0, <1>1 DEF SegmentNumbers
  <2> HIDE DEF n
  <2>3. ~(n < sequence - Len(segments))
    BY <1>0, <2>2
  <2> QED
    BY <1>3, <2>1, <2>3 DEF n
<1>16. ~Relisted => media'[number] = media[number] /\ vtt'[number] = vtt[number]
  BY <1>0, <1>3, <1>5
<1>17. SegmentFiles'
  <2>1. ASSUME NEW i \in 1..Len(segments')
        PROVE  (Readable(segments[i].n) \/ (pc = "window" /\ segments[i].n = pb /\ CutTs))'
    <3>1. CASE Relisted
      BY <1>4, <3>1 DEF Readable
    <3>2. CASE ~Relisted /\ i = Len(segments')
      <4>1. segments'[i].n = number
        BY <1>2, <3>2
      <4>2. CASE media[number] = "whole"
        BY <1>16, <3>2, <4>1, <4>2 DEF Readable
      <4>3. CASE pb = number
        <5>1. pb # None /\ CutTs /\ ~last
          BY <1>0, <1>1, <4>3 DEF Opened, None
        <5> QED
          BY <1>1, <1>4, <4>1, <4>3, <5>1
      <4> QED
        BY <1>0, <1>1, <3>2, <4>2, <4>3 DEF NextFile
    <3>3. CASE ~Relisted /\ i # Len(segments')
      <4>1. i \in 1..(Len(segments') - 1)
        BY <1>2, <3>3
      <4>2. PICK j \in 1..Len(segments) : segments'[i].n = segments[j].n
        BY <1>2, <4>1
      <4>3. Readable(segments[j].n)
        BY <1>0, <1>1 DEF SegmentFiles
      <4>4. media'[segments'[i].n] = media[segments[j].n]
        BY <1>15, <4>2
      <4> QED
        BY <1>4, <3>3, <4>3, <4>4 DEF Readable, CutTs
    <3> QED
      BY <3>1, <3>2, <3>3
  <2> QED
    BY <2>1 DEF SegmentFiles
<1>18. SegmentVtt'
  <2>1. ASSUME has_subtitle, NEW i \in 1..Len(segments')
        PROVE  (\/ vtt[segments[i].n] = "whole" \/ Relisted
                \/ failures > 0 /\ last /\ segments[i].n = number
                \/ pc = "closeVtt" /\ segments[i].n = number)'
    <3>1. CASE Relisted
      BY <1>4, <3>1
    <3>2. CASE ~Relisted /\ i = Len(segments')
      <4>1. segments'[i].n = number
        BY <1>2, <3>2
      <4>2. CASE last
        BY <1>1, <2>1, <4>1, <4>2
      <4>3. CASE ~last
        BY <1>0, <1>1, <1>16, <2>1, <3>2, <4>1, <4>3 DEF OpenedVtt
      <4> QED
        BY <4>2, <4>3
    <3>3. CASE ~Relisted /\ i # Len(segments')
      <4>1. i \in 1..(Len(segments') - 1)
        BY <1>2, <3>3
      <4>2. PICK j \in 1..Len(segments) : segments'[i].n = segments[j].n
        BY <1>2, <4>1
      <4>3. vtt[segments[j].n] = "whole" \/ (failures > 0 /\ last /\ segments[j].n = number)
        BY <1>0, <1>1, <2>1, <3>3 DEF SegmentVtt
      <4>4. vtt'[segments'[i].n] = vtt[segments[j].n]
        BY <1>15, <4>2
      <4> QED
        BY <1>1, <1>4, <4>2, <4>3, <4>4
    <3> QED
      BY <3>1, <3>2, <3>3
  <2> QED
    BY <1>4, <2>1 DEF SegmentVtt
<1> QED
  BY <1>6, <1>7, <1>8, <1>9, <1>10, <1>11, <1>12, <1>13, <1>14, <1>17, <1>18 DEF Inv

-----------------------------------------------------------------------------
(* The theorems. *)

LEMMA InitInv == Init => Inv
<1> SUFFICES ASSUME Init PROVE Inv
  OBVIOUS
<1>1. /\ output \in Outputs /\ pc = "packets" /\ last = FALSE /\ packets_written = FALSE
      /\ number = 0 /\ duration = 0 /\ sequence = 0 /\ nb_entries = 0
      /\ segments = <<>> /\ old_segments = <<>>
      /\ pb = (IF fmp4 THEN None ELSE 0) /\ vtt_pb = (IF has_subtitle THEN 0 ELSE None)
      /\ media = [n \in Numbers |-> IF n = 0 /\ ~fmp4 THEN "open" ELSE "absent"]
      /\ vtt = [n \in Numbers |-> IF n = 0 /\ has_subtitle THEN "open" ELSE "absent"]
      /\ init = (IF fmp4 THEN "open" ELSE "absent")
      /\ m3u8 = NoPlaylist /\ vtt_m3u8 = NoPlaylist /\ failures = 0
  BY DEF Init
<1>2. fmp4 \in BOOLEAN /\ has_subtitle \in BOOLEAN
  BY <1>1, OptionsAssumption DEF fmp4, has_subtitle
<1>3. 0 \in Numbers /\ None \notin Numbers /\ {"open", "absent"} \subseteq Files
  BY BoundsAssumption DEF Numbers, None, Files
<1>4. /\ IsPlaylist(NoPlaylist) /\ NoPlaylist.sequence = 0 /\ NoPlaylist.list = <<>>
      /\ NoPlaylist.end = FALSE
  BY DEF IsPlaylist, NoPlaylist, Playlist
<1>5. Types
  <2>1. media \in [Numbers -> Files] /\ vtt \in [Numbers -> Files] /\ init \in Files
    BY <1>1, <1>2, <1>3
  <2>2. pb \in Numbers \cup {None} /\ vtt_pb \in Numbers \cup {None}
    BY <1>1, <1>2, <1>3
  <2>3. /\ nb_entries = Len(segments) /\ nb_entries <= sequence
        /\ max_nb_segments > 0 => nb_entries <= max_nb_segments
        /\ sequence \in 0..(MaxSegs + 1) /\ failures \in 0..MaxFailures
    BY <1>1, OptionsAssumption, BoundsAssumption
  <2>4. segments \in Seq(Entries) /\ old_segments \in Seq(Entries)
    BY <1>1
  <2> QED
    BY <1>1, <1>3, <1>4, <2>1, <2>2, <2>3, <2>4 DEF Types, Labels
<1>6. Control
  BY <1>1 DEF Control
<1>7. Opened
  <2>1. \A n \in Numbers : media[n] = "open" => n = pb
    BY <1>1, <1>2
  <2> QED
    BY <1>1, <1>2, <2>1 DEF Opened
<1>8. OpenedVtt
  BY <1>1, <1>2 DEF OpenedVtt
<1>9. SegmentNumbers /\ SegmentFiles /\ SegmentVtt /\ NextFile
  BY <1>1 DEF SegmentNumbers, SegmentFiles, SegmentVtt, NextFile
<1>10. PublishedInv /\ SegmentsComplete /\ VttComplete
  BY <1>1, <1>4 DEF PublishedInv, NumbersOf, Behind, Level, SegmentsComplete, VttComplete,
                    Listed
<1> QED
  BY <1>5, <1>6, <1>7, <1>8, <1>9, <1>10 DEF Inv

LEMMA StutterInv == ASSUME Inv, UNCHANGED vars PROVE Inv'
<1>1. /\ UNCHANGED <<pc, last, packets_written, number, duration, pb, vtt_pb, output,
                     failures>>
      /\ UNCHANGED <<sequence, nb_entries, segments, old_segments>>
      /\ UNCHANGED <<m3u8, vtt_m3u8>> /\ UNCHANGED <<media, vtt, init>>
  BY DEF vars, list, files, published
<1>2. /\ fmp4' = fmp4 /\ has_subtitle' = has_subtitle /\ has_video' = has_video
      /\ CutTs' = CutTs /\ Relisted' = Relisted
  BY <1>1 DEF fmp4, has_subtitle, has_video, CutTs, Relisted
<1>3. Types' /\ Control' /\ Opened' /\ OpenedVtt'
  BY <1>1, <1>2 DEF Inv, Types, IsPlaylist, Control, Opened, OpenedVtt
<1>4. SegmentNumbers' /\ PublishedInv' /\ NextFile'
  BY <1>1, <1>2 DEF Inv, SegmentNumbers, PublishedInv, NumbersOf, Behind, Level, NextFile
<1>5. SegmentFiles' /\ SegmentVtt' /\ SegmentsComplete' /\ VttComplete'
  BY <1>1, <1>2 DEF Inv, SegmentFiles, SegmentVtt, SegmentsComplete, VttComplete, Listed,
                    Readable
<1> QED
  BY <1>3, <1>4, <1>5 DEF Inv

LEMMA MuxerInv == Spec => []Inv
<1>1. Inv /\ [Next]_vars => Inv'
  <2> SUFFICES ASSUME Inv, [Next]_vars PROVE Inv'
    OBVIOUS
  <2>1. CASE FirstPacket
    BY <2>1, FirstPacketInv
  <2>2. CASE \E kind \in Kinds : Split(kind)
    BY <2>2, SplitInv
  <2>3. CASE Steps
    BY <2>3, AppendSegmentInv, WindowInv, PublishInv, PublishVttInv, StartInv,
       TrailerVttInv DEF Steps
  <2>4. CASE Trailer
    BY <2>4, TrailerInv
  <2>5. CASE UNCHANGED vars
    BY <2>5, StutterInv
  <2> QED
    BY <2>1, <2>2, <2>3, <2>4, <2>5 DEF Next
<1> QED
  BY <1>1, InitInv, PTL DEF Spec

(* ListedComplete: whoever loads a playlist, at any moment of              *)
(* hls_write_packet or of hls_write_trailer and whatever files could not   *)
(* be opened, finds every segment that it lists and the initialisation     *)
(* file, with the exceptions that ListedComplete names.                    *)
THEOREM PlaylistsReadable == Spec => []ListedComplete
<1>1. Inv => ListedComplete
  <2> SUFFICES ASSUME Inv PROVE ListedComplete
    OBVIOUS
  <2>1. TypeOK
    BY DEF Inv, Types, Labels, TypeOK
  <2>2. InitComplete
    BY DEF Inv, Opened, InitComplete
  <2> QED
    BY <2>1, <2>2 DEF Inv, ListedComplete
<1> QED
  BY <1>1, MuxerInv, PTL

(* Numbering: EXT-X-MEDIA-SEQUENCE, which hls_window computes from the     *)
(* counters of the list, is the number in the name of the first segment    *)
(* of the playlist, and the names count on from it.                        *)
THEOREM PlaylistsNumbered == Spec => []Numbering
<1>1. Inv => Numbering
  BY DEF Inv, PublishedInv, NumbersOf, Numbering
<1> QED
  BY <1>1, MuxerInv, PTL

(* EndComplete: when hls_write_trailer ends and nothing failed, the        *)
(* playlist is closed, holds the last segment and no media file is open.   *)
THEOREM PlaylistsEnd == Spec => []EndComplete
<1>1. Inv => EndComplete
  <2> SUFFICES ASSUME Inv, pc = "ended", failures = 0
               PROVE  /\ m3u8.end
                      /\ m3u8.sequence + Len(m3u8.list) = number + 1
                      /\ \A n \in Numbers : media[n] # "open"
    BY DEF EndComplete
  <2>1. last /\ sequence = number + 1 /\ pb = None
    BY DEF Inv, Control, Opened
  <2>2. m3u8.end /\ m3u8.sequence + Len(m3u8.list) = sequence
    BY <2>1 DEF Inv, PublishedInv
  <2>3. \A n \in Numbers : media[n] # "open"
    BY <2>1 DEF Inv, Opened, Numbers, None
  <2> QED
    BY <2>1, <2>2, <2>3
<1> QED
  BY <1>1, MuxerInv, PTL

(* OnlySlides: a player that reloads the playlist never goes back: the     *)
(* rename in hls_window replaces it by one that begins and ends no         *)
(* earlier, and never replaces one that has been closed.                   *)
THEOREM PlaylistsOnlySlide == Spec => OnlySlides
<1>1. Inv /\ [Next]_vars =>
        [/\ m3u8'.sequence >= m3u8.sequence
         /\ m3u8'.sequence + Len(m3u8'.list) >= m3u8.sequence + Len(m3u8.list)
         /\ m3u8.end => m3u8' = m3u8]_m3u8
  <2> SUFFICES ASSUME Inv, [Next]_vars, m3u8' # m3u8
               PROVE  /\ m3u8'.sequence >= m3u8.sequence
                      /\ m3u8'.sequence + Len(m3u8'.list) >= m3u8.sequence + Len(m3u8.list)
                      /\ ~m3u8.end
    OBVIOUS
  <2>1. Publish
    BY DEF Next, vars, published, FirstPacket, Split, Steps, AppendSegment, Window,
           PublishVtt, Start, TrailerVtt, Trailer
  <2>2. m3u8' = Published /\ pc = "publish"
    BY <2>1 DEF Publish
  <2>3. /\ Published.sequence = sequence - nb_entries
        /\ Published.sequence + Len(Published.list) = sequence
    BY <2>2, PublishedShape DEF Inv
  <2>4. Behind(m3u8) /\ ~m3u8.end
    BY <2>2 DEF Inv, PublishedInv
  <2>5. /\ m3u8.sequence \in Nat /\ Len(m3u8.list) \in Nat
        /\ sequence \in Int /\ nb_entries \in Int
    BY BoundsAssumption DEF Inv, Types, IsPlaylist
  <2> QED
    BY <2>2, <2>3, <2>4, <2>5 DEF Behind
<1> QED
  BY <1>1, MuxerInv, PTL DEF Spec, OnlySlides

-----------------------------------------------------------------------------
(* Deletion, with a threshold of one. *)

(* recent changes only when a playlist is published. *)
LEMMA RecentStep ==
  ASSUME Inv, RecentInv, [Next]_vars, hls_delete_threshold = 1
  PROVE  RecentInv'
<1>0. /\ Types /\ Control /\ Opened /\ OpenedVtt /\ SegmentNumbers /\ PublishedInv
      /\ SegmentsComplete /\ recent \in Seq(Playlists) /\ Len(recent) <= 2
      /\ Len(recent) \in Nat /\ sequence \in Nat /\ number \in Numbers
  BY BoundsAssumption DEF Inv, Types, RecentInv
<1>1. CASE Publish
  <2>1. /\ pc = "publish" /\ m3u8' = Published
        /\ recent' = SubSeq(<<Published>> \o recent, 1,
                            IF Len(recent) < 2 THEN Len(recent) + 1 ELSE 2)
        /\ UNCHANGED <<last, sequence, segments, media, output>>
    BY <1>1 DEF Publish, list, files
  <2>2. IsPlaylist(Published) /\ Published.list = segments
    BY <1>0, <2>1, PublishedShape
  <2>3. Published \in Playlists
    BY <2>2 DEF IsPlaylist, Playlists, Playlist
  <2>4. /\ recent' \in Seq(Playlists) /\ Len(recent') \in 1..2
        /\ recent'[1] = Published /\ (Len(recent') > 1 => recent'[2] = recent[1])
        /\ Len(recent') > 1 => Len(recent) > 0
    <3> HIDE DEF Published
    <3> DEFINE P == Published
    <3>0. P \in Playlists
      BY <2>3
    <3> HIDE DEF P
    <3>1. CASE Len(recent) < 2
      <4>1. recent' = SubSeq(<<P>> \o recent, 1, Len(recent) + 1)
        BY <2>1, <3>1 DEF P
      <4> QED
        BY <1>0, <3>0, <3>1, <4>1 DEF P
    <3>2. CASE ~(Len(recent) < 2)
      <4>1. recent' = SubSeq(<<P>> \o recent, 1, 2)
        BY <2>1, <3>2 DEF P
      <4> QED
        BY <1>0, <3>0, <3>2, <4>1 DEF P
    <3> QED
      BY <3>1, <3>2
  <2>5. ASSUME ~last, NEW n \in Listed(Published) PROVE n < sequence
    <3>1. PICK i \in 1..Len(segments) : n = segments[i].n
      BY <2>2, <2>5 DEF Listed
    <3> QED
      BY <1>0, <2>5, <3>1, SegmentsBefore
  <2>6. ASSUME ~last', NEW i \in 1..Len(recent'), NEW n \in Listed(recent'[i])
        PROVE  n < sequence'
    <3>1. CASE i = 1
      BY <2>1, <2>4, <2>5, <2>6, <3>1
    <3>2. CASE i # 1
      <4>1. i = 2 /\ Len(recent') > 1 /\ 1 \in 1..Len(recent)
        BY <1>0, <2>4, <3>2
      <4>2. n \in Listed(recent[1])
        BY <2>4, <2>6, <4>1
      <4> QED
        BY <2>1, <2>6, <4>1, <4>2 DEF RecentInv
    <3> QED
      BY <3>1, <3>2
  <2>7. ASSUME Len(recent') > 1, NEW n \in Listed(recent'[2]) PROVE Readable(n)'
    <3>1. n \in Listed(m3u8)
      BY <1>0, <2>4, <2>7 DEF RecentInv
    <3>2. Readable(n)
      BY <1>0, <3>1 DEF SegmentsComplete
    <3>3. Relisted => Relisted'
      <4>1. failures \in Nat /\ (failures' = failures \/ failures' = failures + 1)
        BY <1>0, <1>1, BoundsAssumption DEF Types, Publish, MayFail
      <4> QED
        BY <1>0, <2>1, <4>1, RelistedStays
    <3> QED
      BY <1>0, <2>1, <3>2, <3>3, StillReadable
  <2>8. (\A i \in 1..Len(recent) : \A n \in Listed(recent[i]) : n < sequence)' \/ last'
    BY <2>6 DEF Listed
  <2>9. Len(recent') > 1 => (\A n \in Listed(recent[2]) : Readable(n))'
    BY <2>7 DEF Listed
  <2>10. recent' \in Seq(Playlists) /\ Len(recent') <= 2 /\ recent'[1] = m3u8'
    BY <2>1, <2>4
  <2>11. (recent \in Seq(Playlists))'
    BY <2>10 DEF Playlists, Entries, Numbers
  <2> QED
    BY <2>8, <2>9, <2>10, <2>11 DEF RecentInv
<1>2. CASE ~Publish
  <2>1. UNCHANGED <<recent, m3u8>>
    BY <1>2 DEF Next, vars, published, FirstPacket, Split, Steps, AppendSegment, Window,
                PublishVtt, Start, TrailerVtt, Trailer
  <2>2. /\ sequence' \in Nat /\ sequence <= sequence' /\ (last => last')
    BY <1>0, <1>2 DEF Next, vars, list, FirstPacket, Split, Steps, AppendSegment, Window,
                PublishVtt, Start, TrailerVtt, Trailer
  <2>3. ASSUME ~last', NEW i \in 1..Len(recent), NEW n \in Listed(recent[i])
        PROVE  n < sequence'
    <3>1. n < sequence
      BY <2>2, <2>3 DEF RecentInv
    <3>2. n \in Int
      <4>1. recent[i].list \in Seq(Entries)
        <5>1. recent[i] \in Playlists
          BY <1>0
        <5> QED
          BY <5>1 DEF Playlists
      <4>2. n \in Numbers
        BY <2>3, <4>1, EntryAt DEF Listed
      <4> QED
        BY <4>2 DEF Numbers
    <3> QED
      BY <1>0, <2>2, <3>1, <3>2
  <2>4. ASSUME pc' \in {"publishVtt", "start", "packets"}, Len(recent) > 1,
               NEW n \in Listed(recent[2])
        PROVE  Readable(n)'
    <3>1. /\ pc \in {"publishVtt", "start", "packets"} /\ UNCHANGED <<last, output>>
          /\ failures' \in Nat /\ failures <= failures'
          /\ \/ UNCHANGED media
             \/ ~last /\ media' = [media EXCEPT ![sequence] = "open"]
      <4>1. failures \in Nat /\ MaxFailures \in Nat /\ last \in BOOLEAN
        BY <1>0, BoundsAssumption DEF Types
      <4>2. CASE UNCHANGED vars
        BY <2>4, <4>1, <4>2 DEF vars, files
      <4>3. CASE FirstPacket
        BY <4>1, <4>3 DEF FirstPacket, files
      <4>4. CASE PublishVtt
        BY <4>1, <4>4 DEF PublishVtt, files
      <4>5. CASE Start
        <5>1. ~last
          BY <1>0, <4>5 DEF Start, Control
        <5>2. failures' = failures \/ failures' = failures + 1
          BY <4>5 DEF Start, OpenVtt, MayFail
        <5>3. UNCHANGED media \/ media' = [media EXCEPT ![sequence] = "open"]
          BY <4>5 DEF Start, NextNumber
        <5> QED
          BY <4>1, <4>5, <5>1, <5>2, <5>3 DEF Start
      <4>6. CASE \/ \E kind \in Kinds : Split(kind)
                 \/ AppendSegment \/ Window \/ TrailerVtt \/ Trailer
        BY <2>4, <4>6 DEF Split, SplitFmp4, SplitTs, AppendSegment, Window, TrailerVtt,
                          Trailer, TrailerTs, TrailerFmp4
      <4> QED
        BY <1>2, <4>2, <4>3, <4>4, <4>5, <4>6 DEF Next, Steps
    <3>2. Readable(n) /\ (~last => n < sequence) /\ n \in Numbers
      <4>1. 2 \in 1..Len(recent)
        BY <1>0, <2>4
      <4>2. recent[2].list \in Seq(Entries)
        <5>1. recent[2] \in Playlists
          BY <1>0, <4>1
        <5> QED
          BY <5>1 DEF Playlists
      <4>3. n \in Numbers
        BY <2>4, <4>2, EntryAt DEF Listed
      <4> QED
        BY <2>4, <3>1, <4>1, <4>3 DEF RecentInv
    <3>3. media'[n] = media[n]
      <4>1. n \in Int /\ media \in [Numbers -> Files]
        BY <1>0, <3>2 DEF Numbers, Types
      <4> QED
        BY <1>0, <3>1, <3>2, <4>1
    <3>4. Relisted => Relisted'
      BY <1>0, <3>1, RelistedStays
    <3> QED
      BY <1>0, <3>1, <3>2, <3>3, <3>4, StillReadable
  <2>5. (\A i \in 1..Len(recent) : \A n \in Listed(recent[i]) : n < sequence)' \/ last'
    BY <2>1, <2>3 DEF Listed
  <2>6. pc' \in {"publishVtt", "start", "packets"} /\ Len(recent') > 1 =>
          (\A n \in Listed(recent[2]) : Readable(n))'
    BY <2>1, <2>4 DEF Listed
  <2> QED
    BY <1>0, <2>1, <2>5, <2>6 DEF RecentInv
<1> QED
  BY <1>1, <1>2

LEMMA NumbersFinite ==
  /\ IsFiniteSet(Numbers)
  /\ \A T \in SUBSET Numbers : IsFiniteSet(T) /\ Cardinality(T) \in Nat
<1>1. IsFiniteSet(Numbers)
  BY BoundsAssumption, FS_Interval DEF Numbers
<1> QED
  BY <1>1, FS_Subset, FS_CardinalityType

(* A list has at most as many numbers as entries. *)
LEMMA NumberedSize ==
  ASSUME NEW s \in Seq(Entries)
  PROVE  Numbered(s) \in SUBSET Numbers /\ Cardinality(Numbered(s)) <= Len(s)
<1>1. Numbered(s) \in SUBSET Numbers
  BY EntryAt DEF Numbered
<1> DEFINE f == [i \in 1..Len(s) |-> s[i].n]
<1>2. f \in Surjection(1..Len(s), Numbered(s))
  BY DEF Surjection, Numbered
<1>3. Len(s) \in Nat
  OBVIOUS
<1>4. Cardinality(Numbered(s)) <= Len(s)
  BY <1>2, <1>3, FS_SurjCardinalityBound DEF ExistsSurjection
<1> QED
  BY <1>1, <1>4

(* A step that leaves the list alone, and creates at most the file of the  *)
(* current segment, leaves no more files behind.                           *)
LEMMA NoMoreFiles ==
  ASSUME UNCHANGED <<segments, old_segments>>,
         number \in Numbered(segments) \/ number' = number,
         \A n \in Numbers \ {number'} : media'[n] # "absent" => media[n] # "absent"
  PROVE  Undeleted' \subseteq Undeleted
BY DEF Undeleted, Numbered

(* Appending a segment leaves at most one file behind, when it could not   *)
(* be deleted.                                                             *)
LEMMA AppendDisk ==
  ASSUME Inv, DiskInv, AppendSegment, hls_delete_threshold = 1
  PROVE  /\ Len(old_segments') <= 1
         /\ delete_segments =>
              \/ Undeleted' \subseteq Undeleted
              \/ /\ failures' = failures + 1
                 /\ \E x \in Numbers : Undeleted' \subseteq Undeleted \cup {x}
<1>0. /\ Types /\ segments \in Seq(Entries) /\ old_segments \in Seq(Entries)
      /\ Len(segments) \in Nat /\ nb_entries = Len(segments) /\ Len(old_segments) \in 0..1
      /\ media \in [Numbers -> Files] /\ max_nb_segments \in Nat
      /\ UNCHANGED number
  BY OptionsAssumption DEF Inv, Types, DiskInv, AppendSegment
<1>1. \A n \in Numbers : media'[n] # "absent" => media[n] # "absent"
  BY AppendShape
<1> DEFINE e == Segment(number, duration)
<1>2. e \in Entries /\ e.n = number
  BY <1>0 DEF Types, Entries, Segment
<1>3. Append1 = Append(segments, e)
  BY DEF Append1
<1> HIDE DEF e
<1>4. /\ Len(Append1) = Len(segments) + 1
      /\ \A i \in 1..Len(segments) : Append1[i] = segments[i]
      /\ Len(Tail(Append1)) = Len(segments)
      /\ \A i \in 1..Len(segments) : Tail(Append1)[i] = Append1[i + 1]
      /\ Len(segments) > 0 => Head(Append1) = segments[1]
  BY <1>0, <1>2, <1>3, Appending
<1>5. CASE ~Slides
  <2>1. segments' = Append1 /\ old_segments' = old_segments
    BY <1>5 DEF AppendSegment
  <2>2. Numbered(segments) \subseteq Numbered(segments')
    <3>1. ASSUME NEW i \in 1..Len(segments) PROVE segments[i].n \in Numbered(segments')
      <4>1. i \in 1..Len(segments') /\ segments'[i].n = segments[i].n
        BY <1>0, <1>4, <2>1
      <4> QED
        BY <4>1 DEF Numbered
    <3> QED
      BY <3>1 DEF Numbered
  <2>3. Numbered(old_segments') = Numbered(old_segments)
    BY <2>1
  <2>4. Undeleted' \subseteq Undeleted
    BY <1>0, <1>1, <2>2, <2>3 DEF Undeleted, Numbered
  <2>5. Len(old_segments') <= 1
    BY <2>1 DEF DiskInv
  <2> QED
    BY <2>4, <2>5
<1>6. CASE Slides /\ ~delete_segments
  <2>1. old_segments' = old_segments
    BY <1>6 DEF AppendSegment
  <2>2. Len(old_segments') <= 1
    BY <2>1 DEF DiskInv
  <2> QED
    BY <1>6, <2>2
<1>7. CASE Slides /\ delete_segments
  <2> DEFINE old == <<Head(Append1)>> \o old_segments
  <2>1. /\ segments' = Tail(Append1) /\ old_segments' = SubSeq(old, 1, Kept(segments', old))
        /\ Unlink(Drops(segments', old))
    BY <1>7 DEF AppendSegment
  <2>2. Len(segments) > 0
    BY <1>0, <1>7 DEF Slides
  <2>3. segments[1] \in Entries /\ Head(Append1) = segments[1]
    BY <1>0, <1>4, <2>2, EntryAt
  <2>4. /\ Len(old) = Len(old_segments) + 1 /\ old[1] = segments[1]
        /\ Len(old_segments) = 1 => old[2] = old_segments[1]
    BY <1>0, <2>3
  <2>5. Kept(segments', old) = 1
    <3> HIDE DEF old
    <3>1. Len(old) \in Nat \ {0}
      BY <1>0, <2>4
    <3> QED
      BY <3>1, KeptBounds
  <2>6. Len(old_segments') = 1 /\ old_segments'[1] = segments[1]
    <3>1. old_segments' = SubSeq(old, 1, 1)
      BY <2>1, <2>5
    <3>2. /\ Len(SubSeq(old, 1, 1)) = 1 /\ SubSeq(old, 1, 1)[1] = segments[1]
      BY <1>0, <2>3, Prepending
    <3> QED
      BY <3>1, <3>2
  <2>7. \A n \in Numbered(segments) : n \in Numbered(segments') \cup Numbered(old_segments')
    <3>1. ASSUME NEW i \in 1..Len(segments)
          PROVE  segments[i].n \in Numbered(segments') \cup Numbered(old_segments')
      <4>1. CASE i = 1
        <5>1. 1 \in 1..Len(old_segments') /\ old_segments'[1].n = segments[i].n
          BY <2>6, <4>1
        <5> QED
          BY <5>1 DEF Numbered
      <4>2. CASE i # 1
        <5>1. i - 1 \in 1..Len(segments') /\ segments'[i - 1].n = segments[i].n
          BY <1>0, <1>4, <2>1, <4>2
        <5> QED
          BY <5>1 DEF Numbered
      <4> QED
        BY <4>1, <4>2
    <3> QED
      BY <3>1 DEF Numbered
  <2>8. ASSUME NEW n \in Undeleted', n \notin Undeleted
        PROVE  Len(old_segments) = 1 /\ n = old_segments[1].n
    <3>1. n \in Numbers /\ media[n] # "absent" /\ n # number
      BY <1>0, <1>1, <2>8 DEF Undeleted
    <3>2. n \notin Numbered(segments') \cup Numbered(old_segments')
      BY <2>8 DEF Undeleted, Numbered
    <3>3. n \in Numbered(old_segments)
      BY <2>7, <2>8, <3>1, <3>2 DEF Undeleted
    <3> QED
      BY <1>0, <3>3 DEF Numbered
  <2>9. CASE Len(old_segments) = 0
    BY <2>6, <2>8, <2>9
  <2>10. CASE Len(old_segments) = 1
    <3> DEFINE x == old_segments[1].n
               D == Drops(segments', old)
    <3>1. x \in Numbers
      <4>1. old_segments \in Seq(Entries)
        BY <1>0
      <4>2. 1 \in 1..Len(old_segments)
        BY <2>10
      <4> QED
        BY ONLY <4>1, <4>2, EntryAt
    <3>2. x \in D
      <4>1. 2 \in (Kept(segments', old) + 1)..Len(old) /\ old[2].n = x
        BY <2>4, <2>5, <2>10
      <4> QED
        BY <4>1 DEF Drops
    <3>3. Undeleted' \subseteq Undeleted \cup {x}
      BY <2>8
    <3>4. Unlink(D)
      BY <2>1
    <3> HIDE DEF x, D
    <3>5. CASE media' = [n \in Numbers |-> IF n \in D THEN "absent" ELSE media[n]]
      <4>1. media'[x] = "absent"
        BY <3>1, <3>2, <3>5
      <4>2. x \notin Undeleted'
        BY <4>1 DEF Undeleted
      <4> QED
        BY <2>6, <3>3, <4>2
    <3>6. CASE MayFail
      BY <2>6, <3>1, <3>3, <3>6 DEF MayFail
    <3> QED
      BY <3>4, <3>5, <3>6 DEF Unlink
  <2> QED
    BY <1>0, <2>9, <2>10
<1> QED
  BY <1>5, <1>6, <1>7

LEMMA DiskStep ==
  ASSUME Inv, DiskInv, [Next]_vars, hls_delete_threshold = 1
  PROVE  DiskInv'
<1>0. /\ Types /\ Control /\ Opened /\ SegmentNumbers /\ failures \in Nat
      /\ number \in Numbers /\ None \notin Numbers /\ segments \in Seq(Entries)
      /\ media \in [Numbers -> Files] /\ sequence \in Nat /\ Len(segments) \in Nat
  BY BoundsAssumption DEF Inv, Types, Numbers, None
<1>1. Undeleted \in SUBSET Numbers /\ Undeleted' \in SUBSET Numbers
  BY DEF Undeleted, Numbers
<1>2. failures' = failures \/ failures' = failures + 1
  BY DEF Next, vars, FirstPacket, Split, SplitFmp4, SplitTs, Steps, AppendSegment, Unlink,
         Window, Publish, PublishVtt, Start, OpenVtt, TrailerVtt, Trailer, TrailerTs,
         TrailerFmp4, MayFail
<1>3. ASSUME UNCHANGED <<segments, old_segments>>, Undeleted' \subseteq Undeleted
      PROVE  DiskInv'
  <2>1. Cardinality(Undeleted') <= Cardinality(Undeleted)
    BY <1>1, <1>3, NumbersFinite, FS_Subset
  <2>2. Cardinality(Undeleted') \in Nat /\ Cardinality(Undeleted) \in Nat
    BY <1>1, NumbersFinite
  <2>3. delete_segments /\ max_nb_segments > 0 => Cardinality(Undeleted') <= failures'
    BY <1>0, <1>2, <2>1, <2>2 DEF DiskInv
  <2>4. Len(old_segments') <= 1
    BY <1>3 DEF DiskInv
  <2> QED
    BY <2>3, <2>4 DEF DiskInv
<1>4. CASE UNCHANGED vars \/ FirstPacket \/ Publish \/ PublishVtt \/ TrailerVtt
  <2>1. UNCHANGED <<segments, old_segments, media, number>>
    BY <1>4 DEF vars, list, files, FirstPacket, Publish, PublishVtt, TrailerVtt
  <2> QED
    BY <1>3, <2>1, NoMoreFiles
<1>5. CASE \E kind \in Kinds : Split(kind)
  <2>1. PICK kind \in Kinds : Split(kind)
    BY <1>5
  <2>2. /\ UNCHANGED <<segments, old_segments>> /\ number' = number
        /\ \A n \in Numbers \ {number} : media'[n] = media[n]
    BY <2>1, SplitShape
  <2> QED
    BY <1>3, <2>2, NoMoreFiles
<1>6. CASE Window
  <2>1. pb = None \/ pb = number
    BY <1>0, <1>6 DEF Window, Opened
  <2>2. /\ UNCHANGED <<segments, old_segments>> /\ number' = number
        /\ \A n \in Numbers \ {number} : media'[n] = media[n]
    BY <1>0, <1>6, <2>1 DEF Window, list
  <2> QED
    BY <1>3, <2>2, NoMoreFiles
<1>7. CASE Trailer
  <2>1. pb = None \/ pb = number
    BY <1>0, <1>7 DEF Trailer, Opened
  <2>2. /\ UNCHANGED <<segments, old_segments>> /\ number' = number
        /\ \A n \in Numbers \ {number} : media'[n] = media[n]
    BY <1>0, <1>7, <2>1 DEF Trailer, TrailerTs, TrailerFmp4, list
  <2> QED
    BY <1>3, <2>2, NoMoreFiles
<1>8. CASE Start
  <2>1. /\ UNCHANGED <<segments, old_segments>> /\ number' = sequence
        /\ \A n \in Numbers \ {sequence} : media'[n] = media[n]
    BY <1>0, <1>8 DEF Start, NextNumber, list
  <2>2. /\ pc = "start" /\ ~last /\ sequence = number + 1 /\ Len(segments) > 0
    BY <1>0, <1>8 DEF Start, Control, Types
  <2>3. number \in Numbered(segments)
    <3>1. Len(segments) \in 1..Len(segments)
      BY <1>0, <2>2
    <3>2. segments[Len(segments)].n = sequence - Len(segments) + Len(segments) - 1
      BY <1>0, <2>2, <3>1 DEF SegmentNumbers, Relisted
    <3>3. segments[Len(segments)].n = number
      BY <1>0, <2>2, <3>2 DEF Numbers
    <3> QED
      BY <3>1, <3>3 DEF Numbered
  <2> QED
    BY <1>3, <2>1, <2>3, NoMoreFiles
<1>9. CASE AppendSegment
  <2>1. /\ Len(old_segments') <= 1
        /\ delete_segments =>
             \/ Undeleted' \subseteq Undeleted
             \/ /\ failures' = failures + 1
                /\ \E x \in Numbers : Undeleted' \subseteq Undeleted \cup {x}
    BY <1>9, AppendDisk
  <2>2. ASSUME delete_segments, max_nb_segments > 0
        PROVE  Cardinality(Undeleted') <= failures'
    <3>1. Cardinality(Undeleted) <= failures
      BY <2>2 DEF DiskInv
    <3>2. Cardinality(Undeleted') \in Nat /\ Cardinality(Undeleted) \in Nat
          /\ IsFiniteSet(Undeleted)
      BY <1>1, NumbersFinite
    <3>3. CASE Undeleted' \subseteq Undeleted
      <4>1. Cardinality(Undeleted') <= Cardinality(Undeleted)
        BY <3>2, <3>3, FS_Subset
      <4> QED
        BY <1>0, <1>2, <3>1, <3>2, <4>1
    <3>4. CASE failures' = failures + 1
               /\ \E x \in Numbers : Undeleted' \subseteq Undeleted \cup {x}
      <4>1. PICK x \in Numbers : Undeleted' \subseteq Undeleted \cup {x}
        BY <3>4
      <4>2. /\ IsFiniteSet(Undeleted \cup {x})
            /\ Cardinality(Undeleted \cup {x}) =
                 IF x \in Undeleted THEN Cardinality(Undeleted) ELSE Cardinality(Undeleted) + 1
        BY <3>2, FS_AddElement
      <4>3. Cardinality(Undeleted') <= Cardinality(Undeleted \cup {x})
        BY <4>1, <4>2, FS_Subset
      <4> QED
        BY <1>0, <3>1, <3>2, <3>4, <4>2, <4>3
    <3> QED
      BY <2>1, <2>2, <3>3, <3>4
  <2> QED
    BY <2>1, <2>2 DEF DiskInv
<1> QED
  BY <1>4, <1>5, <1>6, <1>7, <1>8, <1>9 DEF Next, Steps

LEMMA DeletionInit ==
  ASSUME Init PROVE DeletionInv
<1>1. /\ recent = <<>> /\ old_segments = <<>> /\ segments = <<>> /\ number = 0
      /\ failures = 0
      /\ media = [n \in Numbers |-> IF n = 0 /\ ~fmp4 THEN "open" ELSE "absent"]
  BY DEF Init
<1>2. RecentInv
  BY <1>1 DEF RecentInv
<1>3. Undeleted = {}
  BY <1>1 DEF Undeleted
<1>4. DiskInv
  BY <1>1, <1>3, FS_EmptySet DEF DiskInv
<1> QED
  BY <1>2, <1>4 DEF DeletionInv

(* Deletion: with the threshold hlsXcoder leaves at its default of one,    *)
(* hls_delete_old_segments deletes no segment that the current playlist    *)
(* or, between segments, the one before it lists, and leaves on disk no    *)
(* more than the list, one old segment, the current one and what could     *)
(* not be deleted.                                                         *)
THEOREM DeletionInTime ==
  ASSUME hls_delete_threshold = 1
  PROVE  Spec => []Deletion
<1>1. DeletionInv /\ Inv /\ [Next]_vars => DeletionInv'
  <2> SUFFICES ASSUME DeletionInv, Inv, [Next]_vars PROVE DeletionInv'
    OBVIOUS
  <2>1. RecentInv'
    BY RecentStep DEF DeletionInv
  <2>2. DiskInv'
    BY DiskStep DEF DeletionInv
  <2> QED
    BY <2>1, <2>2 DEF DeletionInv
<1>2. Init => DeletionInv
  BY DeletionInit
<1>3. Inv /\ DeletionInv => Deletion
  <2> SUFFICES ASSUME Inv, DeletionInv PROVE Deletion
    OBVIOUS
  <2>1. RecentComplete
    <3> DEFINE kept == IF pc \in {"packets", "start"}
                       THEN hls_delete_threshold + 1 ELSE hls_delete_threshold
    <3>1. ASSUME NEW i \in 1..Len(recent), i <= kept, NEW n \in Listed(recent[i])
          PROVE  Readable(n)
      <4>1. CASE i = 1
        <5>1. n \in Listed(m3u8)
          BY <3>1, <4>1 DEF DeletionInv, RecentInv
        <5> QED
          BY <5>1 DEF Inv, SegmentsComplete
      <4>2. CASE i # 1
        <5>1. i = 2 /\ Len(recent) > 1 /\ pc \in {"packets", "start"}
          BY <3>1, <4>2 DEF DeletionInv, RecentInv
        <5> QED
          BY <3>1, <5>1 DEF DeletionInv, RecentInv
      <4> QED
        BY <4>1, <4>2
    <3> QED
      BY <3>1 DEF RecentComplete
  <2>2. ASSUME delete_segments, max_nb_segments > 0
        PROVE  Cardinality({n \in Numbers : media[n] # "absent"})
                 <= max_nb_segments + hls_delete_threshold + 1 + failures
    <3> DEFINE A == {n \in Numbers : media[n] # "absent"}
               B == Numbered(segments) \cup Numbered(old_segments)
    <3>1. /\ segments \in Seq(Entries) /\ old_segments \in Seq(Entries)
          /\ Len(segments) <= max_nb_segments /\ number \in Numbers /\ failures \in Nat
          /\ Len(segments) \in Nat /\ Len(old_segments) \in Nat /\ max_nb_segments \in Nat
      BY <2>2, OptionsAssumption, BoundsAssumption DEF Inv, Types
    <3>2. Len(old_segments) <= 1 /\ Cardinality(Undeleted) <= failures
      BY <2>2 DEF DeletionInv, DiskInv
    <3>3. /\ Numbered(segments) \in SUBSET Numbers
          /\ Numbered(old_segments) \in SUBSET Numbers
          /\ Cardinality(Numbered(segments)) <= Len(segments)
          /\ Cardinality(Numbered(old_segments)) <= Len(old_segments)
      BY <3>1, NumberedSize
    <3>4. Undeleted \in SUBSET Numbers /\ A \subseteq Undeleted \cup (B \cup {number})
      BY DEF Undeleted
    <3>5. /\ IsFiniteSet(Numbered(segments)) /\ Cardinality(Numbered(segments)) \in Nat
          /\ IsFiniteSet(Numbered(old_segments))
          /\ Cardinality(Numbered(old_segments)) \in Nat
          /\ IsFiniteSet(Undeleted) /\ Cardinality(Undeleted) \in Nat
      BY <3>3, <3>4, NumbersFinite
    <3>6. /\ IsFiniteSet(B) /\ Cardinality(B) \in Nat
          /\ Cardinality(B) <= Len(segments) + Len(old_segments)
      <4>1. IsFiniteSet(Numbered(segments) \cap Numbered(old_segments))
        BY <3>5, FS_Subset
      <4>2. Cardinality(Numbered(segments) \cap Numbered(old_segments)) \in Nat
        BY <4>1, FS_CardinalityType
      <4>3. /\ IsFiniteSet(B)
            /\ Cardinality(B) = Cardinality(Numbered(segments))
                 + Cardinality(Numbered(old_segments))
                 - Cardinality(Numbered(segments) \cap Numbered(old_segments))
        BY <3>5, FS_Union
      <4>4. Cardinality(B) \in Nat
        BY <4>3, FS_CardinalityType
      <4> QED
        BY <3>1, <3>3, <3>5, <4>2, <4>3, <4>4
    <3> HIDE DEF A, B
    <3>7. /\ IsFiniteSet(B \cup {number}) /\ Cardinality(B \cup {number}) \in Nat
          /\ Cardinality(B \cup {number}) <= Cardinality(B) + 1
      <4>1. /\ IsFiniteSet(B \cup {number})
            /\ Cardinality(B \cup {number}) =
                 IF number \in B THEN Cardinality(B) ELSE Cardinality(B) + 1
        BY <3>6, FS_AddElement
      <4> QED
        BY <3>6, <4>1
    <3>8. /\ IsFiniteSet(Undeleted \cup (B \cup {number}))
          /\ Cardinality(Undeleted \cup (B \cup {number}))
               <= Cardinality(Undeleted) + Cardinality(B \cup {number})
      <4> DEFINE C == B \cup {number}
      <4> HIDE DEF C
      <4>0. IsFiniteSet(C) /\ Cardinality(C) \in Nat
        BY <3>7 DEF C
      <4>1. IsFiniteSet(Undeleted \cap C)
        BY <3>5, FS_Subset
      <4>2. Cardinality(Undeleted \cap C) \in Nat
        BY <4>1, FS_CardinalityType
      <4>3. /\ IsFiniteSet(Undeleted \cup C)
            /\ Cardinality(Undeleted \cup C) = Cardinality(Undeleted) + Cardinality(C)
                 - Cardinality(Undeleted \cap C)
        BY <3>5, <4>0, FS_Union
      <4>4. Cardinality(Undeleted \cup C) <= Cardinality(Undeleted) + Cardinality(C)
        BY <3>5, <4>0, <4>2, <4>3
      <4> QED
        BY <4>3, <4>4 DEF C
    <3>9. /\ Cardinality(A) <= Cardinality(Undeleted \cup (B \cup {number}))
          /\ Cardinality(A) \in Nat /\ Cardinality(Undeleted \cup (B \cup {number})) \in Nat
      <4>1. IsFiniteSet(A) /\ Cardinality(A) <= Cardinality(Undeleted \cup (B \cup {number}))
        BY <3>4, <3>8, FS_Subset
      <4> QED
        BY <3>8, <4>1, FS_CardinalityType
    <3>10. Cardinality(A) <= max_nb_segments + hls_delete_threshold + 1 + failures
      BY <3>1, <3>2, <3>5, <3>6, <3>7, <3>8, <3>9
    <3> QED
      BY <3>10 DEF A
  <2>3. DiskBounded
    BY <2>2 DEF DiskBounded
  <2> QED
    BY <2>1, <2>3 DEF Deletion
<1> QED
  BY <1>1, <1>2, <1>3, MuxerInv, PTL DEF Spec

=============================================================================
