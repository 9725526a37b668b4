---------------------------- MODULE Reproduccion ----------------------------
(***************************************************************************)
(* What a player reaches of what ffmpeg writes: the player page            *)
(* (servidor_web_reproductor.go), the master playlist (generarArchivoM3U8  *)
(* in codificacion_hls.go), the routes of the web server and the handler   *)
(* behind them (servidor_web_hls.go, servidor_web.go), composed with the   *)
(* start of ffmpeg in Argumentos.                                          *)
(*                                                                         *)
(* Three places name the same files and must agree: the arguments of       *)
(* ffmpeg, the URIs of the master playlist and the regular expressions of  *)
(* the routes.  A URL is a record: the directory and language it is under, *)
(* what it is (page, master, playlist, segment, init.mp4), the bitrate in  *)
(* its name, and whether it belongs to the webvtt half of an output.       *)
(* Files are taken as written once ffmpeg has opened its outputs and their *)
(* encoders (stage "ok"); a command line on which it exits writes nothing  *)
(* that a player could be pointed to.                                      *)
(***************************************************************************)
EXTENDS Argumentos

CONSTANTS
  Comas,     \* languages of several codes: "spa,eng"
  Largas     \* names of more than 20 characters

VARIABLES
  pend,      \* URLs the player knows and has not asked for
  servidos,  \* URLs answered with a file
  perdidos   \* URLs answered with 404

jugador == <<pend, servidos, perdidos>>

Url(dir, lang, que, b, vtt) ==
  [dir |-> dir, lang |-> lang, que |-> que, b |-> b, vtt |-> vtt]

Pagina == Url("video", SinIdioma, "index.html", <<>>, FALSE)
Maestra == Url("video", SinIdioma, "hls.m3u8", <<>>, FALSE)

-----------------------------------------------------------------------------
(* generarArchivoM3U8                                                      *)

ListasAudio == {Url("audio", l, "lista", <<>>, FALSE) : l \in ToSet(cfg.audio)}

ListasSubs == {Url("subtitulo", l, "lista", <<>>, Teletext(cfg)) : l \in ToSet(cfg.subs)}

ListasDe(b) ==
  {Url("video", SinIdioma, "lista", b, FALSE)}
  \cup (IF Teletext(cfg) THEN {}
        ELSE {Url("subtitulo", l, "lista", b, FALSE) : l \in ToSet(cfg.subs)})

ListasVideo == IF Bitrates(cfg) = <<>> THEN ListasDe(<<>>)
               ELSE UNION {ListasDe(b) : b \in ToSet(Bitrates(cfg))}

generarArchivoM3U8 == ListasAudio \cup ListasSubs \cup ListasVideo

-----------------------------------------------------------------------------
(* The files on disk.                                                      *)

UrlDirIgual(dir) == dir                                   \* mutant

(* The directory subtitulos is served under subtitulo.                     *)
UrlDir(dir) == IF dir = "subtitulos" THEN "subtitulo" ELSE dir

(* An output with a webvtt stream writes a second playlist, with .vtt      *)
(* segments; one with fmp4 segments writes init.mp4.                       *)
Mitades(o) == IF \E s \in AllStreams : s.n = o[1] /\ s.kind = "subtitle"
              THEN BOOLEAN ELSE {FALSE}

Escritos(o) ==
  LET d == UrlDir(o[2].dir)
      l == o[2].lang
      b == o[2].b
  IN  {Url(d, l, q, b, v) : q \in {"lista", "segmento"}, v \in Mitades(o)}
      \cup (IF o[2].fmp4 THEN {Url(d, l, "init", <<>>, FALSE)} ELSE {})

EnDisco == {Pagina, Maestra} \cup UNION {Escritos(o) : o \in Outputs}

(* What each answer makes the player ask for next.                         *)
Fmp4 == Nombre(cfg) = "hevc"

Enlaces(u) ==
  CASE u.que = "index.html" -> {Maestra}
    [] u.que = "hls.m3u8" -> generarArchivoM3U8
    [] u.que = "lista" -> {[u EXCEPT !.que = "segmento"]}
                          \cup (IF Fmp4 /\ ~u.vtt THEN {Url(u.dir, u.lang, "init", <<>>, FALSE)}
                                ELSE {})
    [] OTHER -> {}

-----------------------------------------------------------------------------
(* anhadirRutasHls: the regular expressions, by what they tell apart.      *)

SubName(l) == l \notin Largas                             \* [a-z,]{2,20}
AudioName(l) == l \notin Largas \cup Comas                \* [a-z|_|0-9]{2,20}

Prefijo(b) == b = <<>> \/ Len(b) \in 2..15                \* (?:[0-9]{2,15}-)?

Ruta(u) ==
  \/ u.dir = "video"
  \/ u.dir = "subtitulo" /\ SubName(u.lang) /\ u.que \in {"lista", "segmento"} /\ Prefijo(u.b)
  \/ u.dir = "audio" /\ AudioName(u.lang)

-----------------------------------------------------------------------------
InitR == Init /\ pend = {Pagina} /\ servidos = {} /\ perdidos = {}

Arranque == Next /\ UNCHANGED jugador

(* manejadorPaginaWebVideoPlayer, manejadorHLS and servirFichero: a route  *)
(* that matches and a file that exists.  The handlers keep no state, so    *)
(* the order of the requests does not matter: the player asks for all it   *)
(* knows of at once.                                                       *)
Respondida(u) == Ruta(u) /\ u \in EnDisco

Pedir ==
  /\ stage = "ok" /\ pend # {}
  /\ servidos' = servidos \cup {u \in pend : Respondida(u)}
  /\ perdidos' = perdidos \cup {u \in pend : ~Respondida(u)}
  /\ pend' = (UNION {Enlaces(u) : u \in {v \in pend : Respondida(v)}}) \ (servidos' \cup perdidos')
  /\ UNCHANGED vars

NextR == Arranque \/ Pedir

SpecR == InitR /\ [][NextR]_<<vars, jugador>>

-----------------------------------------------------------------------------
(* What is announced and cannot be had: the playlist without a bitrate of  *)
(* DVB subtitles encoded at one (line 79 of codificacion_hls.go), their    *)
(* init.mp4, for which there is no route, an audio in two languages, whose *)
(* comma the routes for audio do not take, and tracks with a name of more  *)
(* than the 20 characters the routes take (lines 52 to 56 of               *)
(* servidor_web_hls.go).                                                   *)
Inalcanzable(u) ==
  \/ /\ u.dir = "subtitulo" /\ ~Teletext(cfg)
     /\ u.que = "init" \/ (u.que = "lista" /\ u.b = <<>> /\ Bitrates(cfg) # <<>>)
  \/ u.dir = "subtitulo" /\ u.lang \in Largas
  \/ u.dir = "audio" /\ u.lang \in Largas \cup Comas

(* NadaFalta: with those exceptions and no other, the player never asks    *)
(* for a file and gets 404: every URI of the master playlist has a route   *)
(* and a file of ffmpeg behind it.                                         *)
NadaFalta == \A u \in perdidos : Inalcanzable(u)

(* The playlist of the audio that carries the teletext is not for playing. *)
Portadora(u) == u.dir = "subtitulo" /\ Teletext(cfg) /\ ~u.vtt

(* TodoAnunciado: once the player has followed every link, it has been     *)
(* served all that ffmpeg writes: no rendition is encoded and unreachable. *)
TodoAnunciado ==
  stage = "ok" /\ pend = {} =>
    \A u \in EnDisco : u \in servidos \/ Portadora(u) \/ Inalcanzable(u)

(* Reproducible: what generarArchivoM3U8 announces, what anhadirRutasHls   *)
(* serves and what ffmpeg writes are the same files.                       *)
Reproducible == NadaFalta /\ TodoAnunciado
=============================================================================
