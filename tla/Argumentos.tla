----------------------------- MODULE Argumentos -----------------------------
(***************************************************************************)
(* From the command line of hlsXcoder to the output streams of ffmpeg.     *)
(*                                                                         *)
(* ObtenerArgumentos (entrada.go) turns the -cv flags into encodings;      *)
(* inicializarFfmpegEncoding, generarArgumentosDVBSubs and                 *)
(* generarArgumentosHLS (codificacion.go, codificacion_hls.go) write one   *)
(* flat list of arguments from them; ffmpeg splits the list into option    *)
(* groups (split_commandline in cmdutils.c: options belong to the file     *)
(* that FOLLOWS them, -filter_complex to none) and opens one output after  *)
(* another (open_output_file in ffmpeg_opt.c), giving each label of a      *)
(* filter graph to the first output that maps it; then the encoders are    *)
(* opened and the filter graphs configured (init_output_stream and         *)
(* configure_filtergraph).                                                 *)
(*                                                                         *)
(* An argument is a record: an option with its value ("1" for one that     *)
(* takes none, as split_commandline stores it), the input, or an output    *)
(* file.  Options that change neither what an output contains nor          *)
(* whether it opens (presets, probe sizes, GOP, list sizes) are left out.  *)
(* A bitrate is the sequence of its digits, <<>> when there is none.       *)
(***************************************************************************)
EXTENDS Naturals, Sequences, FiniteSets, SequencesExt

CONSTANT Configs      \* the command lines and programs considered

VARIABLES
  cfg,       \* configuration and programa, fixed once read
  stage,     \* how far the start of ffmpeg has got
  argv,      \* arguments not yet split
  cur,       \* octx->cur_group: options since the last file
  outs,      \* octx->groups[GROUP_OUTFILE]
  decoder,   \* options of the input group
  graphs,    \* filtergraphs, from the global -filter_complex
  used,      \* the pads <<graph, output>> whose out_tmp was freed
  streams    \* output_streams

vars == <<cfg, stage, argv, cur, outs, decoder, graphs, used, streams>>

-----------------------------------------------------------------------------
(* The command line of hlsXcoder.                                          *)

(* codificacion.Nombre of a -cv flag: h265 is spelled hevc, _nvenc is cut. *)
NombreCv(cv) == IF cv.n = "h265" THEN "hevc" ELSE cv.n

(* nvenc is one flag for all the encodings, set by any -cv with _nvenc.    *)
Nvenc(c) == \E i \in 1..Len(c.cv) : c.cv[i].nvenc

(* codificacionIndex is -1 without -cv; here 0.                            *)
Custom(c) == c.idx > 0

VideoFormat(c) == IF c.video = "mpeg2video" THEN "mpeg2" ELSE c.video

Nombre(c) == IF Custom(c) THEN NombreCv(c.cv[c.idx]) ELSE VideoFormat(c)

Bitrates(c) == IF Custom(c) THEN c.cv[c.idx].bitrates ELSE <<>>

ConNvenc(n) == CASE n = "h264" -> "h264_nvenc"
                 [] n = "hevc" -> "hevc_nvenc"
                 [] OTHER -> "unknown"

(* What the regular expression of -cv takes for a bitrate.                 *)
Bitrate == {b \in Seq(0..9) : Len(b) \in 1..5}

Lineas == [cv : Seq([n : {"h264", "h265", "hevc"}, nvenc : BOOLEAN, bitrates : Seq(Bitrate)]),
           idx : Nat, hwaccel : BOOLEAN, deint : BOOLEAN, resize : BOOLEAN,
           video : {"h264", "hevc", "mpeg2video"}, subs : Seq(STRING), teletext : BOOLEAN,
           audio : Seq(STRING), acodec : BOOLEAN]

(* The command lines considered: an encoding of codecs that ffmpeg knows,  *)
(* no bitrate twice in a -cv, -hwaccel only with an encoder on the GPU     *)
(* (the program checks none of the three); and programs whose tracks have  *)
(* names of their own, as obtenerStreamsPost gives them.                   *)
Considerada(c) ==
  /\ c \in Lineas
  /\ IF c.cv = <<>> THEN c.idx = 0 ELSE c.idx \in 1..Len(c.cv)
  /\ IsInjective(Bitrates(c))
  /\ c.hwaccel => Custom(c) /\ Nvenc(c)
  /\ IsInjective(c.subs) /\ IsInjective(c.audio)
  /\ ToSet(c.subs) \cap ToSet(c.audio) = {}
  /\ "video" \notin ToSet(c.subs) \cup ToSet(c.audio)

ASSUME ConfigsAssumption == \A c \in Configs : Considerada(c)

-----------------------------------------------------------------------------
(* Bitrates.                                                               *)

(* The number that the digits of a bitrate spell.                          *)
Valor(b) ==
  LET v[i \in 0..Len(b)] == IF i = 0 THEN 0 ELSE 10 * v[i - 1] + b[i]
  IN  v[Len(b)]

(* bitrate[0:2] of a shorter string is a slice out of range, a panic.      *)
Panico(b) == Len(b) = 1

MaximoPorDigitos(b) == 10 * Valor(SubSeq(b, 1, 2))        \* mutant

(* Atoi of the first two digits; 7 * num + num * 100.                      *)
calcularBitrateMaximo(b) == 107 * Valor(SubSeq(b, 1, 2))

-----------------------------------------------------------------------------
(* The arguments.                                                          *)

Opt(o, v) == [t |-> "opt", o |-> o, v |-> v]
Input == [t |-> "in"]
File(dir, lang, b, fmp4) ==
  [t |-> "out", dir |-> dir, lang |-> lang, b |-> b, fmp4 |-> fmp4]

(* The directory of the video has no language in its name.                 *)
SinIdioma == "sin"

When(cond, s) == IF cond THEN s ELSE <<>>

GenerarSinIdioma(c, dir, lang, b) ==                      \* mutant
  <<File(dir, SinIdioma, b, Nombre(c) = "hevc")>>

(* generarArgumentosHLS: hevc goes in fmp4 segments with an init.mp4.      *)
generarArgumentosHLS(c, dir, lang, b) == <<File(dir, lang, b, Nombre(c) = "hevc")>>

(* Pad labels: [sub<i>] of one graph with -hwaccel, [v] of one graph per   *)
(* subtitle without it.                                                    *)
Etiqueta(c, i) == IF c.hwaccel THEN i ELSE 0

BitrateCommand(b) ==
  When(b # <<>>, <<Opt("b:v", b), Opt("maxrate", calcularBitrateMaximo(b))>>)

DVBSub(c, b, i) ==
  (IF c.hwaccel
   THEN BitrateCommand(b)
   ELSE <<Opt("filter_complex", <<[label |-> 0, lang |-> c.subs[i]]>>)>>)
  \o <<Opt("map[]", Etiqueta(c, i)), Opt("an", "1"), Opt("sn", "1"),
       Opt("c:v", IF c.hwaccel /\ Nvenc(c) THEN ConNvenc(Nombre(c)) ELSE Nombre(c))>>
  \o When(c.hwaccel, <<Opt("profile:v", "baseline")>>)
  \o generarArgumentosHLS(c, "subtitulos", c.subs[i], b)

generarArgumentosDVBSubs(c, b) ==
  When(c.subs # <<>> /\ c.hwaccel,
       <<Opt("filter_complex", [i \in 1..Len(c.subs) |->
                                  [label |-> i, lang |-> c.subs[i]]])>>)
  \o FlattenSeq([i \in 1..Len(c.subs) |-> DVBSub(c, b, i)])

Teletext(c) == c.subs # <<>> /\ c.teletext

(* What precedes the first -map: it ends up in the first output's group.   *)
VideoOptions(c) ==
  <<Opt("c:v", IF ~Custom(c) THEN "copy"
               ELSE IF Nvenc(c) THEN ConNvenc(Nombre(c)) ELSE "libx264")>>
  \o When(Custom(c), <<Opt("profile:v", "baseline")>>)
  \o When(c.resize /\ ~c.hwaccel, <<Opt("s", "resolucion")>>)
  \o (IF c.hwaccel
      THEN When(Nombre(c) = "copy", <<Opt("vf", "hwdownload")>>)
      ELSE <<Opt("pix_fmt", "yuv420p")>>)
  \o When(c.deint /\ ~c.hwaccel, <<Opt("vf", "yadif")>>)

VideoOutput(c, b) ==
  <<Opt("map", "video")>>
  \o BitrateCommand(b)
  \o When(b # <<>>, <<Opt("an", "1"), Opt("sn", "1")>>)
  \o generarArgumentosHLS(c, "video", SinIdioma, b)
  \o When(~Teletext(c), generarArgumentosDVBSubs(c, b))

VideoCommands(c) ==
  VideoOptions(c)
  \o (IF Bitrates(c) = <<>>
      THEN VideoOutput(c, <<>>)
      ELSE FlattenSeq([i \in 1..Len(Bitrates(c)) |-> VideoOutput(c, Bitrates(c)[i])]))

AudioOutputConVideo(c, i) ==                              \* mutant: no -vn
  <<Opt("c:a", IF c.acodec THEN "aac" ELSE "copy"), Opt("map", c.audio[i]),
    Opt("map", "video")>>
  \o generarArgumentosHLS(c, "audio", c.audio[i], <<>>)

AudioOutput(c, i) ==
  <<Opt("c:a", IF c.acodec THEN "aac" ELSE "copy"), Opt("map", c.audio[i])>>
  \o When(c.acodec, <<Opt("af", "aresample")>>)
  \o <<Opt("map", "video"), Opt("vn", "1")>>
  \o generarArgumentosHLS(c, "audio", c.audio[i], <<>>)

AudioCommands(c) ==
  FlattenSeq([i \in 1..Len(c.audio) |-> AudioOutput(c, i)])

(* The webvtt of a teletext stream needs an audio to cut its segments by.  *)
SubsOutput(c, i) ==
  <<Opt("map", c.audio[1]), Opt("map", c.subs[i]), Opt("map", "video"),
    Opt("vn", "1"), Opt("c:s", "webvtt")>>
  \o generarArgumentosHLS(c, "subtitulos", c.subs[i], <<>>)

SubsCommands(c) ==
  When(Teletext(c),
       FlattenSeq([i \in 1..Len(c.subs) |-> SubsOutput(c, i)]))

PreInput(c) ==
  When(c.hwaccel, <<Opt("hwaccel", "cuvid"), Opt("c:v", "cuvid")>>) \o <<Input>>

CommandArgs(c) == PreInput(c) \o VideoCommands(c) \o AudioCommands(c) \o SubsCommands(c)

(* A slice or an index out of range ends the process.                      *)
Revienta(c) ==
  \/ \E i \in 1..Len(Bitrates(c)) : Panico(Bitrates(c)[i])
  \/ Teletext(c) /\ c.audio = <<>>

Init ==
  /\ cfg \in Configs
  /\ stage = "go"
  /\ argv = <<>> /\ cur = <<>> /\ outs = <<>> /\ decoder = <<>> /\ graphs = <<>>
  /\ used = {} /\ streams = <<>>

Generar ==
  /\ stage = "go"
  /\ IF Revienta(cfg)
     THEN stage' = "panic" /\ UNCHANGED argv
     ELSE stage' = "split" /\ argv' = CommandArgs(cfg)
  /\ UNCHANGED <<cfg, cur, outs, decoder, graphs, used, streams>>

-----------------------------------------------------------------------------
(* split_commandline                                                       *)

(* add_opt: an option without OPT_PERFILE, OPT_SPEC or OPT_OFFSET goes to  *)
(* the global group; of the ones used here, only -filter_complex.          *)
Global(o) == o = "filter_complex"

AddOpt ==
  /\ stage = "split" /\ argv # <<>> /\ Head(argv).t = "opt"
  /\ argv' = Tail(argv)
  /\ IF Global(Head(argv).o)
     THEN graphs' = Append(graphs, Head(argv).v) /\ UNCHANGED cur
     ELSE cur' = Append(cur, Head(argv)) /\ UNCHANGED graphs
  /\ UNCHANGED <<cfg, stage, outs, decoder, used, streams>>

(* finish_group: the group takes the options and the next starts empty.    *)
NextGroup == <<>>

FinishInput ==
  /\ stage = "split" /\ argv # <<>> /\ Head(argv).t = "in"
  /\ argv' = Tail(argv)
  /\ decoder' = cur
  /\ cur' = NextGroup
  /\ UNCHANGED <<cfg, stage, outs, graphs, used, streams>>

FinishOutput ==
  /\ stage = "split" /\ argv # <<>> /\ Head(argv).t = "out"
  /\ argv' = Tail(argv)
  /\ outs' = Append(outs, [n |-> Len(outs) + 1, file |-> Head(argv), opts |-> cur])
  /\ cur' = NextGroup
  /\ UNCHANGED <<cfg, stage, decoder, graphs, used, streams>>

SplitDone ==
  /\ stage = "split" /\ argv = <<>>
  /\ stage' = "open"
  /\ UNCHANGED <<cfg, argv, cur, outs, decoder, graphs, used, streams>>

-----------------------------------------------------------------------------
(* open_output_file                                                        *)

Has(g, o) == \E i \in 1..Len(g) : g[i].o = o

(* MATCH_PER_STREAM_OPT keeps the last of several.                         *)
Value(g, o) == g[Max({i \in 1..Len(g) : g[i].o = o})].v

(* The encoders of the image's build, in the order of allcodecs.c.         *)
Registry == <<[name |-> "mpeg2video", codec |-> "mpeg2video", gpu |-> FALSE],
              [name |-> "libx264", codec |-> "h264", gpu |-> FALSE],
              [name |-> "libx265", codec |-> "hevc", gpu |-> FALSE],
              [name |-> "h264_nvenc", codec |-> "h264", gpu |-> TRUE],
              [name |-> "hevc_nvenc", codec |-> "hevc", gpu |-> TRUE]>>

Unknown == [name |-> "unknown", codec |-> "unknown", gpu |-> FALSE]
First(i) == Registry[Min(i)]

(* avcodec_find_encoder_by_name, then the first encoder of that codec.     *)
find_codec_or_die(name) ==
  LET named == {i \in 1..Len(Registry) : Registry[i].name = name}
      codec == {i \in 1..Len(Registry) : Registry[i].codec = name}
  IN  IF named # {} THEN First(named)
      ELSE IF codec # {} THEN First(codec) ELSE Unknown

Copy == [name |-> "copy", codec |-> "copy", gpu |-> FALSE]

ChooseByName(g) ==                                        \* mutant
  IF Has(g, "c:v") /\ Value(g, "c:v") = "copy" THEN Copy ELSE find_codec_or_die("h264")

(* Without -c:v the encoder of the hls muxer's default codec, h264.        *)
choose_encoder(g) ==
  IF ~Has(g, "c:v") THEN find_codec_or_die("h264")
  ELSE IF Value(g, "c:v") = "copy" THEN Copy
  ELSE find_codec_or_die(Value(g, "c:v"))

FreeAlways(label) ==                                      \* mutant
  {p \in UNION {{n} \X (1..Len(graphs[n])) : n \in 1..Len(graphs)} :
     graphs[p[1]][p[2]].label = label}

(* Pads with this label that no output has taken, in search order.         *)
Free(label) ==
  {p \in UNION {{n} \X (1..Len(graphs[n])) : n \in 1..Len(graphs)} :
     p \notin used /\ graphs[p[1]][p[2]].label = label}

Before(p, q) == p[1] < q[1] \/ (p[1] = q[1] /\ p[2] <= q[2])

FirstPad(label) == CHOOSE p \in Free(label) : \A q \in Free(label) : Before(p, q)

(* Frames come from the decoder on the GPU, or back from it: hwdownload.   *)
OnGpu(g, graph) ==
  /\ Has(decoder, "hwaccel")
  /\ graph \/ ~Has(g, "vf") \/ Value(g, "vf") # "hwdownload"

VideoStream(n, f, g, src, graph) ==
  [n |-> n, file |-> f, kind |-> "video", src |-> src, enc |-> choose_encoder(g),
   gpu |-> OnGpu(g, graph), baseline |-> Has(g, "profile:v"),
   b |-> IF Has(g, "b:v") THEN Value(g, "b:v") ELSE <<>>,
   max |-> IF Has(g, "maxrate") THEN Value(g, "maxrate") ELSE 0]

OtherStream(n, f, kind, src) ==
  [n |-> n, file |-> f, kind |-> kind, src |-> src, enc |-> Copy, gpu |-> FALSE,
   baseline |-> FALSE, b |-> <<>>, max |-> 0]

Maps(g) == {g[i].v : i \in {j \in 1..Len(g) : g[j].o = "map"}}
LabelMaps(g) == {g[i].v : i \in {j \in 1..Len(g) : g[j].o = "map[]"}}
Kind(src) == CASE src = "video" -> "video"
               [] src \in ToSet(cfg.audio) -> "audio"
               [] OTHER -> "subtitle"

(* -vn, -an and -sn skip the mapped streams of their kind.                 *)
Skipped(g) == {k \in {"video", "audio", "subtitle"} :
                 \/ k = "video" /\ Has(g, "vn")
                 \/ k = "audio" /\ Has(g, "an")
                 \/ k = "subtitle" /\ Has(g, "sn")}

Mapped(g) == {s \in Maps(g) : Kind(s) \notin Skipped(g)}

(* The errors that end the program: an unknown encoder, a filter on a      *)
(* copied stream, a copied stream from a filter graph, a label without a   *)
(* free pad, an output without streams.                                    *)
Fatal(g) ==
  \/ /\ "video" \in Mapped(g) \/ LabelMaps(g) # {}
     /\ \/ choose_encoder(g) = Unknown
        \/ choose_encoder(g) = Copy /\ (Has(g, "vf") \/ LabelMaps(g) # {})
  \/ Has(g, "vf") /\ LabelMaps(g) # {}
  \/ \E l \in LabelMaps(g) : Free(l) = {}
  \/ Mapped(g) = {} /\ LabelMaps(g) = {}

SourceOf(p) == graphs[p[1]][p[2]].lang

Opened(n, f, g) ==
  SetToSeq({IF Kind(s) = "video" THEN VideoStream(n, f, g, s, FALSE)
            ELSE OtherStream(n, f, Kind(s), s) : s \in Mapped(g)}
           \cup {VideoStream(n, f, g, SourceOf(FirstPad(l)), TRUE) : l \in LabelMaps(g)})

OpenOutput ==
  /\ stage = "open" /\ outs # <<>>
  /\ LET f == Head(outs).file
         g == Head(outs).opts
     IN  IF Fatal(g)
         THEN stage' = "fatal" /\ UNCHANGED <<outs, used, streams>>
         ELSE /\ outs' = Tail(outs)
              /\ streams' = streams \o Opened(Head(outs).n, f, g)
              /\ used' = used \cup {FirstPad(l) : l \in LabelMaps(g)}
              /\ UNCHANGED stage
  /\ UNCHANGED <<cfg, argv, cur, decoder, graphs>>

Pads == UNION {{n} \X (1..Len(graphs[n])) : n \in 1..Len(graphs)}

(* check_filter_outputs: no pad of a complex filter graph is left over.    *)
CheckFilterOutputs ==
  /\ stage = "open" /\ outs = <<>>
  /\ stage' = IF Pads \subseteq used THEN "init" ELSE "fatal"
  /\ UNCHANGED <<cfg, argv, cur, outs, decoder, graphs, used, streams>>

InitError(s) ==
  \/ s.baseline /\ s.enc.codec = "hevc"
  \/ s.gpu /\ s.enc # Copy /\ ~s.enc.gpu

(* init_output_stream, called with the first frame: avcodec_open2 knows no *)
(* baseline profile for hevc; and configure_filtergraph, which finds no    *)
(* way from frames on the GPU to the formats of an encoder in software.    *)
(* Either ends the program.                                                *)
InitStreams ==
  /\ stage = "init"
  /\ stage' = IF \E i \in 1..Len(streams) : InitError(streams[i]) THEN "fatal" ELSE "ok"
  /\ UNCHANGED <<cfg, argv, cur, outs, decoder, graphs, used, streams>>

Done == stage \in {"ok", "fatal", "panic"} /\ UNCHANGED vars

Next ==
  \/ Generar \/ AddOpt \/ FinishInput \/ FinishOutput \/ SplitDone
  \/ OpenOutput \/ CheckFilterOutputs \/ InitStreams \/ Done

Spec == Init /\ [][Next]_vars
-----------------------------------------------------------------------------
(* Properties.                                                             *)

Stages == {"go", "panic", "split", "open", "init", "ok", "fatal"}

(* TypeOK: stages in order; every argument is in exactly one place, so that *)
(* when the outputs open none is left between groups.  The code only warns *)
(* of trailing options (split_commandline), hlsXcoder must not write any.  *)
TypeOK ==
  /\ stage \in Stages
  /\ used \subseteq Pads
  /\ stage \in {"open", "init", "ok", "fatal"} => argv = <<>> /\ cur = <<>>
  /\ \A i \in 1..Len(outs) : \A j \in 1..Len(outs[i].opts) : ~Global(outs[i].opts[j].o)

AllStreams == {streams[i] : i \in 1..Len(streams)}
VideoStreams == {s \in AllStreams : s.kind = "video"}
Outputs == {<<s.n, s.file>> : s \in AllStreams}
Sources(n) == {s.src : s \in {t \in AllStreams : t.n = n}}
Expected(f) ==
  CASE f.dir = "video" -> {"video"}
    [] f.dir = "audio" -> {f.lang}
    [] OTHER -> IF Teletext(cfg) THEN {cfg.audio[1], f.lang} ELSE {f.lang}

(* What the program asks of ffmpeg and ffmpeg refuses: without -cv, to     *)
(* deinterlace a copied video (line 502 of codificacion.go), and to burn   *)
(* DVB subtitles into MPEG-2 with an encoder named "mpeg2" (line 416); the *)
(* profile of h264 for -cv h265_nvenc (line 463), which never starts; and, *)
(* with -hwaccel, a second bitrate, whose output gets frames on the GPU    *)
(* and the encoder in software ffmpeg has by default (line 512).           *)
Rechazada(c) ==
  \/ /\ ~Custom(c)
     /\ c.deint \/ (c.video = "mpeg2video" /\ c.subs # <<>> /\ ~c.teletext)
  \/ Custom(c) /\ Nvenc(c) /\ Nombre(c) = "hevc"
  \/ c.hwaccel /\ Len(Bitrates(c)) > 1

(* Arranca: ffmpeg accepts what hlsXcoder writes, with those exceptions    *)
(* and no other of what is modelled here: split_commandline leaves no      *)
(* argument over (TypeOK) and no output of inicializarFfmpegEncoding's     *)
(* list ends the program when it is opened or gets its first frame.        *)
Arranca ==
  /\ TypeOK
  /\ stage = "fatal" => Rechazada(cfg)
  /\ stage = "ok" => ~Rechazada(cfg)

(* Contenido: an output holds the tracks its directory is named after and  *)
(* no other: the subtitles burnt into subtitulos/<lang> are those of lang, *)
(* although every graph names its pads alike and open_output_file only     *)
(* looks for the first free pad of that name.                              *)
Contenido == \A o \in Outputs : Sources(o[1]) = Expected(o[2])

(* The options of the encoder are written once (line 455 on), so only the  *)
(* first output gets them: the other bitrates of -cv are left with the     *)
(* default encoder.                                                        *)
SinOpciones(s) == s.file.dir = "video" /\ s.file.b # <<>> /\ s.file.b # Bitrates(cfg)[1]

(* Without nvenc the video outputs are h264 whatever -cv names: line 465   *)
(* of codificacion.go writes libx264, though the help of -cv has "-cv h264 *)
(* -cv h265:5000,2800" (entrada.go:111).                                   *)
SiempreH264(s) == s.file.dir = "video" /\ ~Nvenc(cfg)

(* CodecPedido: every other video output of an encoding, those with DVB    *)
(* subtitles included, has the codec its -cv flag asks for, and those two  *)
(* kinds have h264 (options reach only the file that follows them).        *)
CodecPedido ==
  Custom(cfg) =>
    \A s \in VideoStreams :
      s.enc.codec = IF SinOpciones(s) \/ SiempreH264(s) THEN "h264" ELSE Nombre(cfg)

(* FramesGpu: frames decoded on the GPU go to an encoder that takes them   *)
(* there, or come back through hwdownload first; the outputs without the   *)
(* options of the encoder are those with which ffmpeg exits (Rechazada).   *)
FramesGpu == \A s \in VideoStreams : s.gpu => SinOpciones(s) \/ s.enc.gpu

(* BitratePropio: an output named after a bitrate is encoded at it; only   *)
(* the DVB subtitles without -hwaccel are named after it and not given it. *)
BitratePropio ==
  \A s \in VideoStreams :
    s.b = IF s.file.dir = "subtitulos" /\ ~cfg.hwaccel THEN <<>> ELSE s.file.b

(* SalidaPedida: every video output is encoded as it was asked for: the    *)
(* place each option has in the concatenation of inicializarFfmpegEncoding *)
(* gives it to the output it was written for.                              *)
SalidaPedida == CodecPedido /\ FramesGpu /\ BitratePropio

(* MaximoSuficiente: the maximum rate given to the encoder is at least the *)
(* rate it is asked for (calcularBitrateMaximo), up to three digits and    *)
(* from 1500 to 9999; it is not for five digits.  (Written without a       *)
(* leading zero: 009 would get a maximum of 0.)                            *)
MaximoSuficiente ==
  \A s \in VideoStreams : s.b # <<>> /\ s.b[1] # 0 =>
    /\ Len(s.b) <= 3 \/ (Valor(s.b) >= 1500 /\ Valor(s.b) <= 9999) => s.max >= Valor(s.b)
    /\ Len(s.b) = 5 => s.max < Valor(s.b)

(* What an output writes besides its segments: the playlist and, with fmp4 *)
(* segments, init.mp4 in the directory of the playlist (hls_init).         *)
Written(f) ==
  {<<f.dir, f.lang, "lista", f.b>>}
  \cup (IF f.fmp4 THEN {<<f.dir, f.lang, "init", <<>>>>} ELSE {})

(* ArchivosPropios: no file is written by two outputs, except the init.mp4 *)
(* of several bitrates of hevc, whose name has no bitrate in it.           *)
ArchivosPropios ==
  \A o, p \in Outputs : o[1] # p[1] =>
    \A w \in Written(o[2]) \cap Written(p[2]) : w[3] = "init" /\ Len(Bitrates(cfg)) > 1
=============================================================================
