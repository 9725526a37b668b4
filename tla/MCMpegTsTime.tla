---------------------------- MODULE MCMpegTsTime ----------------------------
(* An input of two programs whose clocks are less than half the range of   *)
(* the counter apart: a picture and subtitles of one, the sound of another.*)
EXTENDS MpegTsTime

TheVideo    == {<<1, "video">>}
TheAudio    == {<<2, "audio">>}
TheTeletext == {<<1, "teletext">>}
TheDvbSub   == {<<1, "dvbsub">>}
TheClock    == <<0, 3>>
TheNoPts    == -1000
=============================================================================
