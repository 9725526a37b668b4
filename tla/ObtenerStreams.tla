--------------------------- MODULE ObtenerStreams ---------------------------
(***************************************************************************)
(* One call of obtenerStreamsPost (codificacion.go): run ffprobe on the    *)
(* input, read its report line by line into a map of programs, post the    *)
(* summary to Titania, and leave the selected program in the global        *)
(* variable programa.                                                      *)
(*                                                                         *)
(* A line of ffprobe's report is a record holding what the code's regular  *)
(* expressions extract from it; lines none of them matches are left out.   *)
(* The loop that renames an audio stream whose name is taken is modelled   *)
(* one iteration per step, because the uniqueness of the names it yields   *)
(* is the main result about this module.                                   *)
(***************************************************************************)
EXTENDS Integers, Sequences

CONSTANTS
  Sid,        \* program numbers ffprobe may print (non-empty strings)
  Lang,       \* language tags ffprobe may print (non-empty strings)
  Servicio,   \* service names ffprobe may print
  Informes,   \* the reports of ffprobe considered: sequences of lines
  Configs     \* the configurations considered

-----------------------------------------------------------------------------
(* Data *)

SinHexa == -1      \* the empty hexaId of a stream printed without [0x...]
SinPrograma == ""  \* programId before any program, and the unset -sid
MenosUno == "-1"   \* the program opened for streams that precede any program

ProgId == Sid \cup {MenosUno}
Hexa == Nat \cup {SinHexa}

(* Mutant: the parse error of an empty hexaId is not turned into 0. *)
hex2intSinError(hexaId) == hexaId

(* hex2int: an empty string fails to parse and counts as 0. *)
hex2int(hexaId) == IF hexaId = SinHexa THEN 0 ELSE hexaId

(***************************************************************************)
(* The language of an audio stream once the code has rewritten it: base    *)
(* followed by n copies of "_pid".  The base holds no underscore and the   *)
(* pid is decimal, so two such strings are equal iff the records are.      *)
(* n = 0 is a bare tag, which only the user's -audio_lang can hold.        *)
(***************************************************************************)
NombreAudio == [base : Lang \cup {"none"}, pid : Nat, n : Nat]

Video    == [id : Nat \cup {-1}, hexaId : Hexa]
SinVideo == [id |-> -1, hexaId |-> SinHexa]
Audio    == [id : Nat, hexaId : Hexa, language : NombreAudio]
Subtitulo == [id : Nat, hexaId : Hexa, language : Lang \cup {"default"}]

Pista     == [id : Nat, hexaId : Hexa]   \* what the summary says of a stream

NombreServicio == Servicio \cup {"", "No name"}

Programa == [id : ProgId, nombre : NombreServicio, video : Video,
             audio : Seq(Audio), subtitulos : Seq(Subtitulo)]

(* The global variable may also hold the zero value of the struct. *)
ProgramaGlobal ==
  [id : ProgId \cup {SinPrograma}, nombre : NombreServicio, video : Video,
   audio : Seq(Audio), subtitulos : Seq(Subtitulo)]

(* The summary posted to Titania: the last sid and name, all the streams.  *)
Informe == [sid : ProgId \cup {""}, name : NombreServicio,
            video : SUBSET Pista, audio : SUBSET Pista,
            subtitulo : SUBSET Pista]

NuevoPrograma(p, nombre) ==
  [id |-> p, nombre |-> nombre, video |-> SinVideo,
   audio |-> <<>>, subtitulos |-> <<>>]

Clases == {"Video", "Audio", "Subtitle", "Data"}

(* A program line is any line in which progReg finds "Program N", tried    *)
(* before the service name: a service called "Program 1" is one too, so a  *)
(* sid may come up more than once.                                         *)
Linea == [tipo : {"Program"}, sid : Sid]
           \cup [tipo : {"Service"}, nombre : Servicio]
           \cup [tipo : {"Stream"}, id : Nat, hexaId : Hexa,
                 language : Lang \cup {""}, clase : Clases, fps : BOOLEAN]

Config == [Id_programa : ProgId \cup {SinPrograma}, An : BOOLEAN, Sn : BOOLEAN,
           Sub_lang : SUBSET (Lang \cup {"default"}),
           Audio_lang : SUBSET NombreAudio, Streams : SUBSET Nat]

ASSUME SidAssumption == SinPrograma \notin Sid /\ MenosUno \notin Sid
ASSUME LangAssumption == "" \notin Lang /\ "none" \notin Lang
ASSUME InformesAssumption == Informes \subseteq Seq(Linea)
ASSUME ConfigsAssumption == Configs \subseteq Config

-----------------------------------------------------------------------------
(* State *)

VARIABLES
  configuration,  \* the package variable of the same name
  pc,             \* where the call is
  lineas,         \* ffprobe's report
  i,              \* the line the loop reads next
  programId,      \* the program the next stream line belongs to
  programas,      \* programs found so far
  programa,       \* the global variable: the selected program
  informe,        \* sid, name, vid2, aud2 and sub2: the summary to be posted
  titania,        \* what Titania has been sent
  elem, ok, j     \* locals of the audio branch: stream, its filter, position

vars == <<configuration, pc, lineas, i, programId, programas, programa,
          informe, titania, elem, ok, j>>

InformeVacio == [sid |-> "", name |-> "", video |-> {}, audio |-> {},
                 subtitulo |-> {}]

ElemVacio == [id |-> 0, hexaId |-> SinHexa,
              language |-> [base |-> "none", pid |-> 0, n |-> 1]]

(* programa starts as the zero value of its struct. *)
Init ==
  /\ configuration \in Configs
  /\ pc = "ffprobe"
  /\ lineas = <<>> /\ i = 1
  /\ programId = SinPrograma
  /\ programas = [p \in {} |-> NuevoPrograma(p, "")]
  /\ programa = NuevoPrograma(SinPrograma, "")
  /\ informe = InformeVacio
  /\ titania = "nada"
  /\ elem = ElemVacio /\ ok = FALSE /\ j = 1

sub_lang_ok   == configuration.Sub_lang # {}
audio_lang_ok == configuration.Audio_lang # {}
streams_ok    == configuration.Streams # {}

Poner(f, k, v) == [x \in DOMAIN f \cup {k} |-> IF x = k THEN v ELSE f[x]]

-----------------------------------------------------------------------------
(* ffprobe runs; when it fails the error is posted and the program dies,   *)
(* whether or not Titania answered.                                        *)

Ffprobe ==
  /\ pc = "ffprobe"
  /\ \/ pc' = "lineas" /\ lineas' \in Informes
     \/ pc' = "postError" /\ UNCHANGED lineas
  /\ UNCHANGED <<configuration, i, programId, programas, programa,
                 informe, titania, elem, ok, j>>

PostError ==
  /\ pc = "postError"
  /\ titania' \in {"nada", "error"}
  /\ pc' = "fatal"
  /\ UNCHANGED <<configuration, lineas, i, programId, programas, programa,
                 informe, elem, ok, j>>

-----------------------------------------------------------------------------
(* The loop over the lines of the report *)

AvanzarLinea ==
  /\ i' = i + 1
  /\ UNCHANGED <<configuration, lineas, titania>>

(* Mutant: -sid is not compared. *)
SeleccionadoSiempre(sid) == TRUE

(* The program is selected when -sid names it, or when there is no -sid. *)
Seleccionado(sid) == configuration.Id_programa \in {SinPrograma, sid}

(* Mutant: the summary starts anew with each program. *)
InformeReiniciado(sid) == [InformeVacio EXCEPT !.sid = sid]

(* The summary keeps the last sid and accumulates the streams of all. *)
InformeConSid(sid) == [informe EXCEPT !.sid = sid]

(* "Program N": opens the program, empty even if it was open before; each  *)
(* selected one replaces the former.                                       *)
LineaPrograma(l) ==
  /\ AvanzarLinea
  /\ l.tipo = "Program"
  /\ ~streams_ok
  /\ programId' = l.sid
  /\ programa' = IF Seleccionado(l.sid)
                 THEN [programa EXCEPT !.id = l.sid] ELSE programa
  /\ programas' = Poner(programas, l.sid, NuevoPrograma(l.sid, ""))
  /\ informe' = InformeConSid(l.sid)
  /\ UNCHANGED <<pc, elem, ok, j>>

LineaServicio(l) ==
  /\ AvanzarLinea
  /\ l.tipo = "Service"
  /\ ~streams_ok
  /\ programId # SinPrograma
  /\ programas' = [programas EXCEPT ![programId].nombre = l.nombre]
  /\ informe' = [informe EXCEPT !.name = l.nombre]
  /\ UNCHANGED <<pc, programId, programa, elem, ok, j>>

(* Lines no branch handles, and program and service lines skipped because   *)
(* of -streams (or because no program is open yet).                        *)
LineaIgnorada(l) ==
  /\ AvanzarLinea
  /\ \/ l.tipo = "Program" /\ streams_ok
     \/ l.tipo = "Service" /\ (streams_ok \/ programId = SinPrograma)
  /\ UNCHANGED <<pc, programId, programas, programa, informe, elem, ok, j>>

(***************************************************************************)
(* A stream line first opens the program "-1" when none is open.           *)
(***************************************************************************)
SinAbrir == programId = SinPrograma
Actual == IF SinAbrir THEN MenosUno ELSE programId
Abiertos == IF SinAbrir
            THEN Poner(programas, MenosUno, NuevoPrograma(MenosUno, "No name"))
            ELSE programas
InformeAbierto == IF SinAbrir
                  THEN [informe EXCEPT !.sid = MenosUno, !.name = "No name"]
                  ELSE informe

AbrirPrograma ==
  /\ programId' = Actual
  /\ programa' = IF SinAbrir /\ configuration.Id_programa = SinPrograma
                 THEN [programa EXCEPT !.id = MenosUno] ELSE programa

Filtrado(l) == streams_ok /\ l.hexaId \notin configuration.Streams

Clave(l) == [id |-> l.id, hexaId |-> l.hexaId]

LineaStream(l) ==
  /\ AvanzarLinea
  /\ l.tipo = "Stream"
  /\ AbrirPrograma

(* Streams dropped by -streams, -an or -sn, and streams of another class.  *)
LineaDescartada(l) ==
  /\ LineaStream(l)
  /\ \/ Filtrado(l)
     \/ l.clase = "Audio" /\ configuration.An
     \/ l.clase = "Subtitle" /\ configuration.Sn
     \/ l.clase = "Data"
  /\ programas' = Abiertos
  /\ informe' = InformeAbierto
  /\ UNCHANGED <<pc, elem, ok, j>>

(* A video line that shows no frame rate (or no planar yuv format) makes   *)
(* FindStringSubmatch return nil, and indexing it panics.                  *)
LineaVideo(l) ==
  /\ LineaStream(l)
  /\ ~Filtrado(l)
  /\ l.clase = "Video"
  /\ IF l.fps
     THEN /\ programas' = [Abiertos EXCEPT ![Actual].video = Clave(l)]
          /\ informe' = [InformeAbierto EXCEPT !.video = @ \cup {Clave(l)}]
          /\ pc' = pc
     ELSE /\ programas' = Abiertos
          /\ informe' = InformeAbierto
          /\ pc' = "panic"
  /\ UNCHANGED <<elem, ok, j>>

(* The name of an audio stream is its language, or "none", and its pid;    *)
(* the -audio_lang filter is applied to that name.                         *)
NombreInicial(l) == [base |-> IF l.language = "" THEN "none" ELSE l.language,
                     pid |-> hex2int(l.hexaId), n |-> 1]

LineaAudio(l) ==
  /\ LineaStream(l)
  /\ ~Filtrado(l)
  /\ l.clase = "Audio"
  /\ ~configuration.An
  /\ programas' = Abiertos
  /\ informe' = InformeAbierto
  /\ elem' = [id |-> l.id, hexaId |-> l.hexaId, language |-> NombreInicial(l)]
  /\ ok' = (audio_lang_ok => NombreInicial(l) \in configuration.Audio_lang)
  /\ j' = 1
  /\ pc' = "renombrar"

(* Mutant: a taken name is always given its second suffix. *)
RenombradoFijo(nombre) == [nombre EXCEPT !.n = 2]

(* A taken name gets one more suffix. *)
Renombrado(nombre) == [nombre EXCEPT !.n = @ + 1]

(* One iteration of the renaming loop over programa.audio. *)
Renombrar ==
  /\ pc = "renombrar"
  /\ j <= Len(programas[programId].audio)
  /\ elem' = IF elem.language = programas[programId].audio[j].language
             THEN [elem EXCEPT !.language = Renombrado(@)] ELSE elem
  /\ j' = j + 1
  /\ UNCHANGED <<configuration, pc, lineas, i, programId, programas, programa,
                 informe, titania, ok>>

(* After the loop, a stream that passed the filter is kept and reported.   *)
FinRenombrar ==
  /\ pc = "renombrar"
  /\ j > Len(programas[programId].audio)
  /\ IF ok
     THEN /\ programas' = [programas EXCEPT ![programId].audio =
                                                          Append(@, elem)]
          /\ informe' = [informe EXCEPT !.audio = @ \cup {Clave(elem)}]
     ELSE UNCHANGED <<programas, informe>>
  /\ pc' = "lineas"
  /\ UNCHANGED <<configuration, lineas, i, programId, programa, titania, elem,
                 ok, j>>

(* A subtitle is kept when it passes -sub_lang and its language is new.    *)
IdiomaSub(l) == IF l.language = "" THEN "default" ELSE l.language

(* Mutant: -sub_lang is not applied. *)
SubAceptadoSinFiltro(l) ==
  \A k \in 1..Len(Abiertos[Actual].subtitulos) :
    Abiertos[Actual].subtitulos[k].language # IdiomaSub(l)

SubAceptado(l) ==
  /\ sub_lang_ok => IdiomaSub(l) \in configuration.Sub_lang
  /\ \A k \in 1..Len(Abiertos[Actual].subtitulos) :
       Abiertos[Actual].subtitulos[k].language # IdiomaSub(l)

LineaSubtitulo(l) ==
  /\ LineaStream(l)
  /\ ~Filtrado(l)
  /\ l.clase = "Subtitle"
  /\ ~configuration.Sn
  /\ IF SubAceptado(l)
     THEN /\ programas' = [Abiertos EXCEPT ![Actual].subtitulos =
               Append(@, [id |-> l.id, hexaId |-> l.hexaId,
                          language |-> IdiomaSub(l)])]
          /\ informe' = [InformeAbierto EXCEPT !.subtitulo = @ \cup {Clave(l)}]
     ELSE /\ programas' = Abiertos
          /\ informe' = InformeAbierto
  /\ UNCHANGED <<pc, elem, ok, j>>

-----------------------------------------------------------------------------
(* The report has been read: post the summary, then select the program.    *)

PostStreams ==
  /\ pc = "lineas"
  /\ i > Len(lineas)
  /\ \/ pc' = "elegir" /\ titania' = "streams"
     \/ pc' = "fatal" /\ UNCHANGED titania
  /\ UNCHANGED <<configuration, lineas, i, programId, programas, programa,
                 informe, elem, ok, j>>

Elegir ==
  /\ pc = "elegir"
  /\ IF programa.id \in DOMAIN programas
     THEN programa' = programas[programa.id] /\ pc' = "fin"
     ELSE UNCHANGED programa /\ pc' = "fatal"
  /\ UNCHANGED <<configuration, lineas, i, programId, programas, informe,
                 titania, elem, ok, j>>

-----------------------------------------------------------------------------

Leer(lineaActual) ==
  \/ LineaPrograma(lineaActual)
  \/ LineaServicio(lineaActual)
  \/ LineaIgnorada(lineaActual)
  \/ LineaDescartada(lineaActual)
  \/ LineaVideo(lineaActual)
  \/ LineaAudio(lineaActual)
  \/ LineaSubtitulo(lineaActual)

LeerLinea ==
  /\ pc = "lineas"
  /\ i <= Len(lineas)
  /\ Leer(lineas[i])

Next ==
  \/ Ffprobe
  \/ PostError
  \/ LeerLinea
  \/ Renombrar
  \/ FinRenombrar
  \/ PostStreams
  \/ Elegir

Spec == Init /\ [][Next]_vars

-----------------------------------------------------------------------------
(* Properties *)

TipoControl ==
  /\ configuration \in Configs
  /\ pc \in {"ffprobe", "postError", "lineas", "renombrar", "elegir", "fin",
             "fatal", "panic"}
  /\ lineas \in Seq(Linea)
  /\ i \in Nat \ {0}
  /\ titania \in {"nada", "error", "streams"}

TipoMapa ==
  /\ programId \in ProgId \cup {SinPrograma}
  /\ DOMAIN programas \subseteq ProgId
  /\ programas \in [DOMAIN programas -> Programa]
  /\ programId # SinPrograma => programId \in DOMAIN programas
  /\ pc = "renombrar" => programId # SinPrograma

TipoSalida ==
  /\ programa \in ProgramaGlobal
  /\ informe \in Informe

TipoAudio ==
  /\ elem \in Audio
  /\ ok \in BOOLEAN
  /\ j \in Nat \ {0}

(* Every variable holds a value of its Go type; a program whose streams    *)
(* are being read, or whose audio is being renamed, is in the map.         *)
TypeOK == TipoControl /\ TipoMapa /\ TipoSalida /\ TipoAudio

(***************************************************************************)
(* Each audio track of a program gets a directory named after its          *)
(* language, and so does each subtitle track.  No two tracks of a program  *)
(* share one: the renaming loop, which scans the tracks only once while    *)
(* the name changes under it, does find a free name, and a repeated        *)
(* subtitle language is dropped.                                           *)
(***************************************************************************)
NombresUnicos(pistas) ==
  \A m, n \in 1..Len(pistas) :
    pistas[m].language = pistas[n].language => m = n

PistasUnicas ==
  \A p \in DOMAIN programas : /\ NombresUnicos(programas[p].audio)
                              /\ NombresUnicos(programas[p].subtitulos)

(***************************************************************************)
(* A call that returns leaves in the global variable the program asked     *)
(* for with -sid, or else the program opened last; -streams, which makes   *)
(* the loop skip the program lines, never returns together with -sid.      *)
(***************************************************************************)
SeleccionPrograma ==
  pc = "fin" =>
    IF configuration.Id_programa # SinPrograma
    THEN programa.id = configuration.Id_programa /\ ~streams_ok
    ELSE programa.id = programId

(***************************************************************************)
(* The selected program holds exactly the streams its section of the       *)
(* report lists and the options let through: every audio asked for, the    *)
(* first subtitle of each language and the last video.  With -streams the  *)
(* whole report is one section; otherwise a section that a later program   *)
(* line opens again starts anew.                                           *)
(*                                                                         *)
(* "Selecciona que audios codificar.Ej: -audio_lang esp,eng" (-audio_lang): *)
(* an audio is asked for by its language, or by its language and pid.  The *)
(* code keeps only the second kind: it compares the list with a name it    *)
(* has already given its pid, so a language alone selects nothing          *)
(* (SoloPorIdioma), and the audios asked for that way are the exception.   *)
(***************************************************************************)
EnSeccion(k, p) ==
  LET previas == {m \in 1..(k-1) : lineas[m].tipo = "Program"} IN
  IF streams_ok \/ previas = {}
  THEN p = MenosUno
  ELSE \E m \in previas : lineas[m].sid = p /\ \A n \in previas : n <= m

Reabierta(k, p) ==
  /\ ~streams_ok
  /\ \E n \in (k+1)..Len(lineas) : lineas[n].tipo = "Program" /\ lineas[n].sid = p

Pasan(clase) ==
  {k \in 1..Len(lineas) :
     /\ lineas[k].tipo = "Stream"
     /\ lineas[k].clase = clase
     /\ EnSeccion(k, programa.id) /\ ~Reabierta(k, programa.id)
     /\ streams_ok => lineas[k].hexaId \in configuration.Streams}

Pide(a, l) == \/ a.n = 0 /\ a.base = NombreInicial(l).base
              \/ a = NombreInicial(l)

SoloPorIdioma(l) ==
  audio_lang_ok /\ \A a \in configuration.Audio_lang : Pide(a, l) => a.n = 0

AudiosPasan ==
  {k \in Pasan("Audio") :
     /\ ~configuration.An
     /\ audio_lang_ok => \E a \in configuration.Audio_lang : Pide(a, lineas[k])
     /\ ~SoloPorIdioma(lineas[k])}

SubtitulosPasan ==
  {k \in Pasan("Subtitle") :
     /\ ~configuration.Sn
     /\ sub_lang_ok => IdiomaSub(lineas[k]) \in configuration.Sub_lang}

PistasExactas ==
  pc = "fin" =>
    /\ {Clave(programa.audio[k]) : k \in 1..Len(programa.audio)}
         = {Clave(lineas[k]) : k \in AudiosPasan}
    /\ {Clave(programa.subtitulos[k]) : k \in 1..Len(programa.subtitulos)}
         = {Clave(lineas[k]) : k \in {m \in SubtitulosPasan :
              \A n \in SubtitulosPasan :
                n < m => IdiomaSub(lineas[n]) # IdiomaSub(lineas[m])}}
    /\ IF Pasan("Video") = {}
       THEN programa.video = SinVideo
       ELSE \E k \in Pasan("Video") : /\ programa.video = Clave(lineas[k])
                                      /\ \A m \in Pasan("Video") : m <= k

(* Every track of every program found has been written to the summary that *)
(* is posted to Titania before the program is selected.                    *)
Cubierto(q, inf) ==
  /\ q.video = SinVideo \/ q.video \in inf.video
  /\ \A k \in 1..Len(q.audio) : Clave(q.audio[k]) \in inf.audio
  /\ \A k \in 1..Len(q.subtitulos) : Clave(q.subtitulos[k]) \in inf.subtitulo

InformeCubre ==
  /\ \A p \in DOMAIN programas : Cubierto(programas[p], informe)
  /\ pc = "fin" => titania = "streams"

-----------------------------------------------------------------------------
(* What the help text of the flags says *)

(***************************************************************************)
(* "Introduce el Sid del programa (Por defecto se utiliza el primer        *)
(* programa)" (-sid): without -sid the first program listed is selected.   *)
(***************************************************************************)
PrimerPrograma ==
  pc = "fin" /\ configuration.Id_programa = SinPrograma /\ ~streams_ok =>
    \A k \in 1..Len(lineas) :
      lineas[k].tipo = "Program" =>
        \E m \in 1..k : lineas[m].tipo = "Program" /\ lineas[m].sid = programa.id
=============================================================================
