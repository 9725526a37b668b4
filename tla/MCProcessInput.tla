--------------------------- MODULE MCProcessInput ---------------------------
(* A picture stream, a sound stream one wrap ahead of it, and subtitles.   *)
EXTENDS ProcessInput

Durations == [s \in InputStreams |-> IF s = "subs" THEN 2 ELSE 1]
ClocksOf  == {-40, 0, 40}
NoPts     == -1000
=============================================================================
