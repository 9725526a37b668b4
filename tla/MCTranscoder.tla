---------------------------- MODULE MCTranscoder ----------------------------
(* Reports, names and configurations on which Transcoder is model-checked. *)
EXTENDS Transcoder

CONSTANTS h264, hevc     \* two encodings, -cv h264 -cv h265

Prog(sid, audio, subs) == [sid |-> sid, audio |-> audio, subs |-> subs]

NombresPropios == [e \in Enc |-> IF e = h264 THEN "h264" ELSE "hevc"]

TresProgramas == <<Prog("1", TRUE, "dvb"), Prog("2", TRUE, "teletext"),
                   Prog("3", FALSE, "no")>>
DosProgramas == <<Prog("1", TRUE, "dvb"), Prog("2", FALSE, "teletext")>>

InformesMultiple == {TresProgramas}
InformesDobles == {DosProgramas}

(* An input that changes between one probe and the next: the program has   *)
(* audio and teletext, or neither, or the streams are outside programs.    *)
InformesCambiantes == {<<Prog("1", TRUE, "teletext")>>, <<Prog("1", FALSE, "no")>>,
                       <<Prog("-1", TRUE, "dvb")>>}

Opciones(sids, tests, wns) ==
  [Id_programa : sids, Test : tests, Wn : wns]

(* A program of each kind, with and without a web server; the one without  *)
(* subtitles also as a test.                                               *)
ConfigsSid == Opciones({"1"}, {FALSE}, {FALSE})
              \cup Opciones({"2"}, {FALSE}, {TRUE})
              \cup Opciones({"3"}, BOOLEAN, {TRUE})
              \cup Opciones({"3"}, {TRUE}, {FALSE})
ConfigsCambiantes == Opciones({"1"}, BOOLEAN, {FALSE})
ConfigsSinSid == Opciones({""}, {FALSE}, {TRUE})

(* One encoding may fail at every file operation, the other at none. *)
FallosUna == {h264} \X {"borrar", "escribir", "pista"}
SinFallos == {}
=============================================================================
