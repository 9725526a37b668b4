------------------------------ MODULE MCHlsEnc ------------------------------
(* The options hlsXcoder gives the HLS muxer, on short lists. *)
EXTENDS HlsEnc

(* MPEG-TS or fmp4, with video or with audio alone, with or without webvtt. *)
AllOutputs == [fmp4 : BOOLEAN, has_video : BOOLEAN, has_subtitle : BOOLEAN]
=============================================================================
