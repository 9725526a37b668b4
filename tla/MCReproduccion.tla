--------------------------- MODULE MCReproduccion ---------------------------
(* Command lines and programs on which Argumentos and Reproduccion are     *)
(* model-checked.                                                          *)
EXTENDS Reproduccion

Cv(n, nvenc, bitrates) == [n |-> n, nvenc |-> nvenc, bitrates |-> bitrates]

B8 == <<8>>
B500 == <<5, 0, 0>>
B2800 == <<2, 8, 0, 0>>
B5000 == <<5, 0, 0, 0>>
B12000 == <<1, 2, 0, 0, 0>>

Linea(cvs, hwaccels, deints, videos, subs, audios) ==
  {c \in [cv : cvs, idx : 0..2, hwaccel : hwaccels, deint : deints, resize : BOOLEAN,
          video : videos, subs : subs, teletext : BOOLEAN, audio : audios,
          acodec : BOOLEAN] :
     IF c.cv = <<>> THEN c.idx = 0 ELSE c.idx \in 1..Len(c.cv)}

DosSubs == {<<>>, <<"esp">>, <<"esp", "eng">>}

(* "spa,eng": how ffprobe reports an audio stream in two languages.        *)
Audios == {<<>>, <<"esp_1">>, <<"esp_1", "eng_2">>, <<"spa,eng_1">>}

(* A stream in six languages has a name of more than 20 characters.        *)
SeisIdiomas == {<<"spa,eng,fra,deu,ita,por">>}
SeisIdiomas_1 == {<<"spa,eng,fra,deu,ita,por_1">>}

(* -hwaccel with -cv h264_nvenc and -cv h265_nvenc.  The latter, and two   *)
(* bitrates with -hwaccel, make ffmpeg exit.                               *)
EnGpu ==
  Linea({<<Cv("h264", TRUE, <<>>)>>, <<Cv("h264", TRUE, <<B5000>>), Cv("h265", TRUE, <<B500>>)>>},
        {TRUE}, BOOLEAN, {"h264", "mpeg2video"}, DosSubs, Audios \ {<<>>})
  \cup Linea({<<Cv(n, TRUE, <<B5000, B2800>>)>> : n \in {"h264", "h265"}}, BOOLEAN, {FALSE},
             {"h264"}, DosSubs, {<<"esp_1">>})

(* -cv h264 and -cv h265 on the CPU; a bitrate of one digit panics.        *)
EnCpu ==
  Linea({<<Cv("h264", FALSE, <<>>)>>, <<Cv("h264", FALSE, <<B2800, B5000>>)>>,
         <<Cv("h264", FALSE, <<B12000>>), Cv("h264", FALSE, <<B8>>)>>,
         <<Cv("h264", FALSE, <<>>), Cv("h265", FALSE, <<B5000, B2800>>)>>},
        {FALSE}, BOOLEAN, {"h264"}, DosSubs, {<<"esp_1">>})

(* No -cv: the video is copied.                                            *)
Copia ==
  Linea({<<>>}, {FALSE}, BOOLEAN, {"h264", "hevc", "mpeg2video"}, DosSubs \cup SeisIdiomas,
        Audios \cup SeisIdiomas_1)

Todas == EnGpu \cup EnCpu \cup Copia
=============================================================================
