----------------------------- MODULE Transcoder -----------------------------
(***************************************************************************)
(* The running program (main.go, InicializarCodificaciones and             *)
(* inicializarFfmpegEncoding in codificacion.go, generarArchivoM3U8 in     *)
(* codificacion_hls.go, InicializarServidorWeb in servidor_web.go): the    *)
(* main goroutine, the coordinator, one goroutine per encoding and the web *)
(* server, with the package variable programa they share without a lock,   *)
(* the output directories, and the container that restarts the process.    *)
(*                                                                         *)
(* Each encoding goroutine probes the input by itself (the detail of the   *)
(* probe is in ObtenerStreams), stores the selected program in the shared  *)
(* variable and then reads that variable, field by field, for the master   *)
(* playlist and for the arguments of ffmpeg.  A step reads or writes one   *)
(* field; the reads of one field by one loop, or by statements with no     *)
(* other access between them, are one step.                                *)
(***************************************************************************)
EXTENDS Integers, Sequences, FiniteSets

CONSTANTS
  Enc,           \* the encoding goroutines (one, with no -cv)
  Coord,         \* the coordinator, InicializarCodificaciones
  Nombre,        \* output directory of each encoding, from codificacion.Nombre
  Informes,      \* what ffprobe may report: sequences of programs
  Configs,       \* the configurations considered
  SinPrograma,   \* the empty string: the unset -sid, and programa.id at first
  MenosUno,      \* the program "-1" that holds the streams outside programs
  Nada,          \* the zero value of a field of programa
  Fallos,        \* bound: which encodings may fail at which file operations
  MaxArranques   \* bound: starts of the process

Proc == Enc \cup {Coord}
Dirs == {Nombre[e] : e \in Enc}

(* A program of a report: its number, whether it has audio, its subtitles. *)
Subs == {"no", "teletext", "dvb"}
Reportados == UNION {{s[n] : n \in 1..Len(s)} : s \in Informes}

ASSUME EncAssumption == Enc # {} /\ IsFiniteSet(Enc) /\ Coord \notin Enc
ASSUME NombreAssumption == Nombre = [e \in Enc |-> Nombre[e]]
ASSUME InformesAssumption ==
  \A s \in Informes :
    /\ s \in Seq(Reportados)
    /\ \A n \in 1..Len(s) : /\ s[n].sid # SinPrograma
                            /\ s[n].audio \in BOOLEAN
                            /\ s[n].subs \in Subs
ASSUME NadaAssumption == Nada \notin Reportados
ASSUME FallosAssumption == Fallos \subseteq Enc \X {"borrar", "escribir", "pista"}
ASSUME MaxArranquesAssumption == MaxArranques \in Nat \ {0}

Campos == {"video", "audio", "subs"}

VARIABLES
  configuration,  \* Id_programa, Test and Wn
  estado,         \* whether the process runs
  salida,         \* why it last ended
  arranque,       \* number of the current start
  pc,             \* where the coordinator and each encoding are
  web,            \* where InicializarServidorWeb is
  recibidos,      \* results the coordinator has received
  programaId,     \* programa.id
  programa,       \* the other fields of programa: the program each is from
  informe, k,     \* per process: its report, the next program to read
  elegido,        \* per process: programas[programa.id]
  lenSubtitles, teletextSubtitles,  \* locals of inicializarFfmpegEncoding
  lista,          \* per encoding: what it put in the master playlist
  cmd,            \* per encoding: what it read for the ffmpeg command
  disco,          \* per directory: its master playlist, its track directories
  fallo,          \* per encoding: its file operations that have failed
  anuncios        \* per encoding: the start in which its URL was last posted

locales == <<informe, k, elegido, lenSubtitles, teletextSubtitles, lista, cmd>>
proceso == <<configuration, estado, salida, arranque>>
archivos == <<disco, fallo>>
vars == <<proceso, pc, web, recibidos, programaId, programa, locales,
          archivos, anuncios>>

(* An output directory: who has its master playlist open for writing, the  *)
(* texts in that file, and the track directories.                          *)
Dir(a, c, p) == [abierta |-> a, contenido |-> c, pistas |-> p]

DirVacio == Dir({}, {}, {})

PcInicial == [x \in Proc |-> IF x = Coord THEN "inicio" ELSE "parada"]

Init ==
  /\ configuration \in Configs
  /\ estado = "vivo" /\ salida = "" /\ arranque = 1
  /\ pc = PcInicial
  /\ web = "inicio"
  /\ recibidos = 0
  /\ programaId = SinPrograma
  /\ programa = [c \in Campos |-> Nada]
  /\ informe = [x \in Proc |-> <<>>]
  /\ k = [x \in Proc |-> 1]
  /\ elegido = [x \in Proc |-> Nada]
  /\ lenSubtitles = [e \in Enc |-> FALSE]
  /\ teletextSubtitles = [e \in Enc |-> FALSE]
  /\ lista = [e \in Enc |-> {}]
  /\ cmd = [e \in Enc |-> {}]
  /\ disco = [d \in Dirs |-> DirVacio]
  /\ fallo = [e \in Enc |-> {}]
  /\ anuncios = [e \in Enc |-> 0]

-----------------------------------------------------------------------------
(* Steps of a goroutine *)

vivo == estado = "vivo"
En(x, l) == vivo /\ pc[x] = l
Ir(x, l) == pc' = [pc EXCEPT ![x] = l]

(* log.Fatal, os.Exit or a panic in any goroutine ends the process. *)
Muere(causa) == /\ estado' = "muerto" /\ salida' = causa
                /\ UNCHANGED <<configuration, arranque, pc>>

Sigue(x, l) == Ir(x, l) /\ UNCHANGED proceso

-----------------------------------------------------------------------------
(***************************************************************************)
(* The main goroutine starts the other two and waits on main_channel; the  *)
(* first message ends the process.                                         *)
(***************************************************************************)
Mensaje(causa) ==
  /\ estado' = "muerto" /\ salida' = causa
  /\ UNCHANGED <<configuration, arranque, pc, web, recibidos, programaId,
                 programa, locales, archivos, anuncios>>

(* Mutant: the loop over the encodings leaves one out. *)
InicializarMenosUna ==
  /\ En(Coord, "inicio")
  /\ \E e \in Enc :
       pc' = IF configuration.Test
             THEN [pc EXCEPT ![Coord] = "sonda"]
             ELSE [x \in Proc |-> IF x = Coord THEN "recibir"
                                  ELSE IF x = e THEN "parada" ELSE "sonda"]
  /\ UNCHANGED <<proceso, web, recibidos, programaId, programa, locales,
                 archivos, anuncios>>

(* InicializarCodificaciones: -test probes in this goroutine, otherwise    *)
(* every encoding gets a goroutine of its own.                             *)
Inicializar ==
  /\ En(Coord, "inicio")
  /\ pc' = IF configuration.Test
           THEN [pc EXCEPT ![Coord] = "sonda"]
           ELSE [x \in Proc |-> IF x = Coord THEN "recibir" ELSE "sonda"]
  /\ UNCHANGED <<proceso, web, recibidos, programaId, programa, locales,
                 archivos, anuncios>>

(* Mutant: the coordinator leaves one result unread. *)
FaltanMenos == recibidos < Cardinality(Enc) - 1

(* Mutant: the coordinator waits for one result too many. *)
FaltanMas == recibidos < Cardinality(Enc) + 1

(* The condition of the loop that receives the results. *)
Faltan == recibidos < Cardinality(Enc)

(* channel <- resultado: a rendezvous with the loop. *)
Entregar(e) ==
  /\ En(e, "resultado")
  /\ pc[Coord] = "recibir"
  /\ Faltan
  /\ recibidos' = recibidos + 1
  /\ Sigue(e, "enviado")
  /\ UNCHANGED <<web, programaId, programa, locales, archivos, anuncios>>

FinCodificaciones ==
  /\ \/ En(Coord, "recibir") /\ ~Faltan
     \/ En(Coord, "mensaje")
  /\ Mensaje("codificaciones")

-----------------------------------------------------------------------------
(***************************************************************************)
(* InicializarServidorWeb: nothing to do with -wn or -test; otherwise      *)
(* serve until ListenAndServeTLS returns, with an error, then tell main.   *)
(***************************************************************************)
ArrancarServidor ==
  /\ vivo /\ web = "inicio"
  /\ web' = IF configuration.Wn \/ configuration.Test
            THEN "retornado" ELSE "sirviendo"
  /\ UNCHANGED <<proceso, pc, recibidos, programaId, programa, locales,
                 archivos, anuncios>>

CaerServidor ==
  /\ vivo /\ web = "sirviendo"
  /\ web' = "caido"
  /\ UNCHANGED <<proceso, pc, recibidos, programaId, programa, locales,
                 archivos, anuncios>>

FinServidor ==
  /\ vivo /\ web = "caido"
  /\ Mensaje("servidor")

-----------------------------------------------------------------------------
(***************************************************************************)
(* obtenerStreamsPost, as far as the shared variable is concerned.         *)
(***************************************************************************)
Sondear(x) ==
  /\ En(x, "sonda")
  /\ \/ /\ \E s \in Informes : informe' = [informe EXCEPT ![x] = s]
        /\ k' = [k EXCEPT ![x] = 1]
        /\ Sigue(x, "lineas")
     \/ /\ Sigue(x, "postError")
        /\ UNCHANGED <<informe, k>>
  /\ UNCHANGED <<web, recibidos, programaId, programa, elegido, lenSubtitles,
                 teletextSubtitles, lista, cmd, archivos, anuncios>>

PostError(x) ==
  /\ En(x, "postError")
  /\ Muere("fatal")
  /\ UNCHANGED <<web, recibidos, programaId, programa, locales, archivos,
                 anuncios>>

(* A program line selects the program of -sid, or any without -sid; the    *)
(* program "-1" is selected only without -sid.                             *)
Elegible(p) == \/ configuration.Id_programa = SinPrograma
               \/ configuration.Id_programa = p.sid /\ p.sid # MenosUno

(* Mutant: -sid is not compared. *)
IdSinComparar(p) == p.sid

(* programa.id after a program line. *)
IdTrasLinea(p) == IF Elegible(p) THEN p.sid ELSE programaId

LeerPrograma(x) ==
  /\ En(x, "lineas")
  /\ k[x] <= Len(informe[x])
  /\ programaId' = IdTrasLinea(informe[x][k[x]])
  /\ k' = [k EXCEPT ![x] = @ + 1]
  /\ UNCHANGED <<proceso, pc, web, recibidos, programa, informe, elegido,
                 lenSubtitles, teletextSubtitles, lista, cmd, archivos, anuncios>>

PostStreams(x) ==
  /\ En(x, "lineas")
  /\ k[x] > Len(informe[x])
  /\ Sigue(x, "elegir") \/ Muere("fatal")
  /\ UNCHANGED <<web, recibidos, programaId, programa, locales, archivos,
                 anuncios>>

(* programas[programa.id]: the id is read from the shared variable. *)
Elegir(x) ==
  /\ En(x, "elegir")
  /\ \/ \E n \in 1..Len(informe[x]) :
          /\ informe[x][n].sid = programaId
          /\ elegido' = [elegido EXCEPT ![x] = informe[x][n]]
          /\ Sigue(x, "copiaId")
     \/ /\ \A n \in 1..Len(informe[x]) : informe[x][n].sid # programaId
        /\ Muere("fatal")
        /\ UNCHANGED elegido
  /\ UNCHANGED <<web, recibidos, programaId, programa, informe, k,
                 lenSubtitles, teletextSubtitles, lista, cmd, archivos, anuncios>>

(* Mutant: the video is not copied. *)
CopiarIdSinVideo(x) ==
  /\ En(x, "copiaId")
  /\ programaId' = elegido[x].sid
  /\ Sigue(x, "audio")
  /\ UNCHANGED <<web, recibidos, programa, locales, archivos, anuncios>>

(* programa = *programaHash is not atomic: one step per field. *)
CopiarId(x) ==
  /\ En(x, "copiaId")
  /\ programaId' = elegido[x].sid
  /\ Sigue(x, "video")
  /\ UNCHANGED <<web, recibidos, programa, locales, archivos, anuncios>>

CopiarCampo(x, c, siguiente) ==
  /\ En(x, c)
  /\ programa' = [programa EXCEPT ![c] = elegido[x]]
  /\ Sigue(x, siguiente)
  /\ UNCHANGED <<web, recibidos, programaId, locales, archivos, anuncios>>

TrasSondear(x) == IF x = Coord THEN "mensaje" ELSE "lenSubtitles"

obtenerStreamsPost(x) ==
  \/ Sondear(x)
  \/ PostError(x)
  \/ LeerPrograma(x)
  \/ PostStreams(x)
  \/ Elegir(x)
  \/ CopiarId(x)
  \/ CopiarCampo(x, "video", "audio")
  \/ CopiarCampo(x, "audio", "subs")
  \/ CopiarCampo(x, "subs", TrasSondear(x))

-----------------------------------------------------------------------------
(* inicializarFfmpegEncoding after the probe *)

Usa(c) == <<c, programa[c]>>

(* Mutant: the length is compared with >= 0. *)
HaySubtitulosSiempre == TRUE

(* len(programa.subtitulos) > 0 *)
HaySubtitulos == programa["subs"].subs # "no"

LeerLenSubtitles(e) ==
  /\ En(e, "lenSubtitles")
  /\ lenSubtitles' = [lenSubtitles EXCEPT ![e] = HaySubtitulos]
  /\ Sigue(e, "videoMap")
  /\ UNCHANGED <<web, recibidos, programaId, programa, informe, k, elegido,
                 teletextSubtitles, lista, cmd, archivos, anuncios>>

(* A read of a field for the arguments of ffmpeg. *)
LeerParaCmd(e, l, c, siguiente) ==
  /\ En(e, l)
  /\ cmd' = [cmd EXCEPT ![e] = @ \cup {Usa(c)}]
  /\ Sigue(e, siguiente)
  /\ UNCHANGED <<web, recibidos, programaId, programa, informe, k, elegido,
                 lenSubtitles, teletextSubtitles, lista, archivos, anuncios>>

LeerVideo(e) == LeerParaCmd(e, "videoMap", "video", "teletexto")

(* programa.subtitulos[0] panics when there are no subtitles any more. *)
LeerTeletexto(e) ==
  /\ En(e, "teletexto")
  /\ \/ /\ lenSubtitles[e] => programa["subs"].subs # "no"
        /\ teletextSubtitles' = [teletextSubtitles EXCEPT ![e] =
             lenSubtitles[e] /\ programa["subs"].subs = "teletext"]
        /\ Sigue(e, "listaAudio")
     \/ /\ lenSubtitles[e] /\ programa["subs"].subs = "no"
        /\ Muere("panico")
        /\ UNCHANGED teletextSubtitles
  /\ UNCHANGED <<web, recibidos, programaId, programa, informe, k, elegido,
                 lenSubtitles, lista, cmd, archivos, anuncios>>

-----------------------------------------------------------------------------
(***************************************************************************)
(* generarArchivoM3U8(codificacionPath, programa, ...): the argument is a  *)
(* copy of the shared variable, of which the playlist uses two fields.     *)
(***************************************************************************)
CopiarParaLista(e, l, c, siguiente) ==
  /\ En(e, l)
  /\ lista' = [lista EXCEPT ![e] = @ \cup {Usa(c)}]
  /\ Sigue(e, siguiente)
  /\ UNCHANGED <<web, recibidos, programaId, programa, informe, k, elegido,
                 lenSubtitles, teletextSubtitles, cmd, archivos, anuncios>>

(* A file operation fails and its error is ignored: the goroutine goes on. *)
Falla(e, op) ==
  /\ <<e, op>> \in Fallos
  /\ fallo' = [fallo EXCEPT ![e] = @ \cup {op}]

(* Mutant: the directory is not emptied. *)
SinBorrar(d) == disco[d]

(* The directory after os.RemoveAll and os.MkdirAll. *)
Borrado(d) == DirVacio

(* What os.RemoveAll leaves behind when it fails: any of the directories   *)
(* of the tracks, and the playlist or not.                                 *)
Restos(d) == {Dir(l.abierta, l.contenido, q) :
                l \in {DirVacio, disco[d]}, q \in SUBSET disco[d].pistas}

BorrarDirectorio(e) ==
  /\ En(e, "borrar")
  /\ \/ /\ disco' = [disco EXCEPT ![Nombre[e]] = Borrado(Nombre[e])]
        /\ UNCHANGED fallo
     \/ /\ Falla(e, "borrar")
        /\ \E r \in Restos(Nombre[e]) \ {DirVacio} :
             disco' = [disco EXCEPT ![Nombre[e]] = r]
  /\ Sigue(e, "crear")
  /\ UNCHANGED <<web, recibidos, programaId, programa, locales, anuncios>>

(* os.Create truncates a playlist that is there already, and fails when    *)
(* there is no directory.                                                  *)
CrearLista(e) ==
  /\ En(e, "crear")
  /\ \/ /\ disco' = [disco EXCEPT ![Nombre[e]] =
                        Dir(@.abierta \cup {e}, {}, @.pistas)]
        /\ Sigue(e, "escribir")
     \/ /\ Muere("fatal")
        /\ UNCHANGED disco
  /\ UNCHANGED <<web, recibidos, programaId, programa, locales, fallo, anuncios>>

(* A text of a playlist that announces some tracks, and the whole text.    *)
Trozo(e, ps) == [autor |-> e, arranque |-> arranque, pistas |-> ps]

Texto(e) == Trozo(e, lista[e])

(* A file that was removed meanwhile takes the text with it. *)
Escrita(e, c) ==
  IF e \in disco[Nombre[e]].abierta
  THEN [disco EXCEPT ![Nombre[e]] = Dir(@.abierta \ {e}, c, @.pistas)]
  ELSE disco

(***************************************************************************)
(* fmt.Fprintln and Close.  A file that another encoding has written keeps *)
(* the tail of the other text when that is longer.  A write that fails     *)
(* leaves a text that announces part of the tracks, or nothing at all.     *)
(***************************************************************************)
EscribirLista(e) ==
  LET antes == disco[Nombre[e]].contenido
  IN /\ En(e, "escribir")
     /\ \/ /\ \E resto \in {{}, antes} : disco' = Escrita(e, resto \cup {Texto(e)})
           /\ UNCHANGED fallo
        \/ /\ Falla(e, "escribir")
           /\ \E ps \in SUBSET lista[e] : disco' = Escrita(e, antes \cup {Trozo(e, ps)})
     /\ Sigue(e, IF teletextSubtitles[e] THEN "argsAudio" ELSE "argsDvb")
     /\ UNCHANGED <<web, recibidos, programaId, programa, locales, anuncios>>

-----------------------------------------------------------------------------
(* The arguments of ffmpeg, and the directories of the tracks. *)

(* Whether there are tracks of a field, each with its directory. *)
ConDirectorio(u) == \/ u[1] = "audio" /\ u[2].audio
                    \/ u[1] = "subs" /\ u[2].subs # "no"

(* The directories without those of a field, and with new ones. *)
SinPistas(e, c) == {r \in disco[Nombre[e]].pistas : r.pista # Usa(c)}

Pista(e, c) == [autor |-> e, arranque |-> arranque, pista |-> Usa(c)]

ConPistas(e, ps) ==
  [disco EXCEPT ![Nombre[e]] = Dir(@.abierta, @.contenido, ps)]

(* Mutant: the directory of the track is not made. *)
PistasSinCrear(e, c) == SinPistas(e, c)

(* os.RemoveAll and os.MkdirAll of the directory of each track. *)
PistasCreadas(e, c) == SinPistas(e, c) \cup {Pista(e, c)}

(***************************************************************************)
(* A loop over the tracks of a field: their directories are made again,    *)
(* unless the removal or the creation of one fails, and the tracks go into *)
(* the arguments.                                                          *)
(***************************************************************************)
ArgsPistas(e, l, c, siguiente) ==
  /\ En(e, l)
  /\ cmd' = [cmd EXCEPT ![e] = @ \cup {Usa(c)}]
  /\ \/ /\ ~ConDirectorio(Usa(c))
        /\ UNCHANGED archivos
     \/ /\ ConDirectorio(Usa(c))
        /\ disco' = ConPistas(e, PistasCreadas(e, c))
        /\ UNCHANGED fallo
     \/ /\ ConDirectorio(Usa(c))
        /\ Falla(e, "pista")
        /\ \E ps \in {SinPistas(e, c), disco[Nombre[e]].pistas} :
             disco' = ConPistas(e, ps)
  /\ Sigue(e, siguiente)
  /\ UNCHANGED <<web, recibidos, programaId, programa, informe, k, elegido,
                 lenSubtitles, teletextSubtitles, lista, anuncios>>

(* generarArgumentosDVBSubs *)
ArgsDvb(e) == LeerParaCmd(e, "argsDvb", "video", "argsDvbSubs")

ArgsDvbSubs(e) == ArgsPistas(e, "argsDvbSubs", "subs", "argsAudio")

(* An audio track is mapped together with the video. *)
TrasAudio(e) == IF teletextSubtitles[e] THEN "argsSubs" ELSE "anunciar"

ArgsAudio(e) ==
  ArgsPistas(e, "argsAudio", "audio",
             IF programa["audio"].audio THEN "argsAudioVideo" ELSE TrasAudio(e))

ArgsAudioVideo(e) == LeerParaCmd(e, "argsAudioVideo", "video", TrasAudio(e))

(* Teletext is mapped together with programa.audio[0], which panics when   *)
(* the program has no audio, and with the video.                           *)
ArgsSubs(e) ==
  ArgsPistas(e, "argsSubs", "subs",
             IF programa["subs"].subs = "no" THEN "anunciar" ELSE "argsSubsAudio")

ArgsSubsAudio(e) ==
  /\ En(e, "argsSubsAudio")
  /\ \/ /\ programa["audio"].audio
        /\ LeerParaCmd(e, "argsSubsAudio", "audio", "argsSubsVideo")
     \/ /\ ~programa["audio"].audio
        /\ Muere("panico")
        /\ UNCHANGED <<web, recibidos, programaId, programa, locales, archivos,
                       anuncios>>

ArgsSubsVideo(e) == LeerParaCmd(e, "argsSubsVideo", "video", "anunciar")

-----------------------------------------------------------------------------
(* Posting the URL and running ffmpeg *)

(* Without a web server there is no URL to post; a failed post is fatal. *)
Anunciar(e) ==
  /\ En(e, "anunciar")
  /\ \/ /\ configuration.Wn
        /\ Sigue(e, "ffmpeg")
        /\ UNCHANGED anuncios
     \/ /\ ~configuration.Wn
        /\ anuncios' = [anuncios EXCEPT ![e] = arranque]
        /\ Sigue(e, "ffmpeg")
     \/ /\ ~configuration.Wn
        /\ Muere("fatal")
        /\ UNCHANGED anuncios
  /\ UNCHANGED <<web, recibidos, programaId, programa, locales, archivos>>

(* ffmpeg ends, with or without an error. *)
FinFfmpeg(e) ==
  /\ En(e, "ffmpeg")
  /\ Sigue(e, "resultado")
  /\ UNCHANGED <<web, recibidos, programaId, programa, locales, archivos,
                 anuncios>>

inicializarFfmpegEncoding(e) ==
  \/ LeerLenSubtitles(e)
  \/ LeerVideo(e)
  \/ LeerTeletexto(e)
  \/ CopiarParaLista(e, "listaAudio", "audio", "listaSubs")
  \/ CopiarParaLista(e, "listaSubs", "subs", "borrar")
  \/ BorrarDirectorio(e)
  \/ CrearLista(e)
  \/ EscribirLista(e)
  \/ ArgsDvb(e)
  \/ ArgsDvbSubs(e)
  \/ ArgsAudio(e)
  \/ ArgsAudioVideo(e)
  \/ ArgsSubs(e)
  \/ ArgsSubsAudio(e)
  \/ ArgsSubsVideo(e)
  \/ Anunciar(e)

-----------------------------------------------------------------------------
(***************************************************************************)
(* The container: the process may be killed at any moment, and is started  *)
(* again (--restart unless-stopped) with the files it left.                *)
(***************************************************************************)
Caida ==
  /\ vivo
  /\ Mensaje("caida")

Reiniciar ==
  /\ ~vivo
  /\ arranque < MaxArranques
  /\ arranque' = arranque + 1
  /\ estado' = "vivo"
  /\ pc' = PcInicial
  /\ web' = "inicio"
  /\ recibidos' = 0
  /\ programaId' = SinPrograma
  /\ programa' = [c \in Campos |-> Nada]
  /\ informe' = [x \in Proc |-> <<>>]
  /\ k' = [x \in Proc |-> 1]
  /\ elegido' = [x \in Proc |-> Nada]
  /\ lenSubtitles' = [e \in Enc |-> FALSE]
  /\ teletextSubtitles' = [e \in Enc |-> FALSE]
  /\ lista' = [e \in Enc |-> {}]
  /\ cmd' = [e \in Enc |-> {}]
  /\ disco' = [d \in Dirs |-> Dir({}, disco[d].contenido, disco[d].pistas)]
  /\ fallo' = [e \in Enc |-> {}]
  /\ UNCHANGED <<configuration, salida, anuncios>>

(* The operator stops the container. *)
Detenido == ~vivo /\ arranque = MaxArranques /\ UNCHANGED vars

Next ==
  \/ Inicializar
  \/ FinCodificaciones
  \/ ArrancarServidor
  \/ CaerServidor
  \/ FinServidor
  \/ \E x \in Proc : obtenerStreamsPost(x)
  \/ \E e \in Enc : inicializarFfmpegEncoding(e)
  \/ \E e \in Enc : FinFfmpeg(e)
  \/ \E e \in Enc : Entregar(e)
  \/ Caida
  \/ Reiniciar
  \/ Detenido

Spec == Init /\ [][Next]_vars

(***************************************************************************)
(* Every goroutine that can run does: the Go scheduler is fair, ffprobe    *)
(* ends and Titania answers (or refuses).  Nothing makes ffmpeg or the web *)
(* server end, nor the container restart.                                  *)
(***************************************************************************)
Equidad ==
  /\ WF_vars(Inicializar)
  /\ WF_vars(FinCodificaciones)
  /\ WF_vars(ArrancarServidor)
  /\ WF_vars(FinServidor)
  /\ \A x \in Proc : WF_vars(obtenerStreamsPost(x))
  /\ \A e \in Enc : WF_vars(inicializarFfmpegEncoding(e))
  /\ \A e \in Enc : WF_vars(Entregar(e))

SpecJusta == Spec /\ Equidad

-----------------------------------------------------------------------------
(* Properties *)

Antes == {"parada", "sonda", "postError", "lineas", "elegir", "copiaId",
          "video", "audio", "subs", "lenSubtitles", "videoMap", "teletexto",
          "listaAudio", "listaSubs", "borrar", "crear", "escribir"}
Despues == {"argsDvb", "argsDvbSubs", "argsAudio", "argsAudioVideo", "argsSubs",
            "argsSubsAudio", "argsSubsVideo", "anunciar"}
Lanzado == {"ffmpeg", "resultado", "enviado"}

(* Every variable has the type its declaration says; nobody reads a field  *)
(* of programa before some probe has filled it in.                         *)
TypeOK ==
  /\ configuration \in Configs
  /\ estado \in {"vivo", "muerto"}
  /\ salida \in {"", "fatal", "panico", "codificaciones", "servidor", "caida"}
  /\ arranque \in 1..MaxArranques
  /\ pc \in [Proc -> Antes \cup Despues \cup Lanzado
                       \cup {"inicio", "recibir", "mensaje"}]
  /\ web \in {"inicio", "retornado", "sirviendo", "caido"}
  /\ recibidos \in 0..Cardinality(Enc)
  /\ programaId \in {SinPrograma} \cup {p.sid : p \in Reportados}
  /\ programa \in [Campos -> Reportados \cup {Nada}]
  /\ \A x \in Proc : informe[x] \in Informes \cup {<<>>} /\ k[x] \in Nat \ {0}
  /\ elegido \in [Proc -> Reportados \cup {Nada}]
  /\ lenSubtitles \in [Enc -> BOOLEAN] /\ teletextSubtitles \in [Enc -> BOOLEAN]
  /\ \A e \in Enc : lista[e] \in SUBSET (Campos \X Reportados)
  /\ \A e \in Enc : cmd[e] \in SUBSET (Campos \X Reportados)
  /\ DOMAIN disco = Dirs
  /\ fallo \in [Enc -> SUBSET {"borrar", "escribir", "pista"}]
  /\ anuncios \in [Enc -> 0..MaxArranques]

(***************************************************************************)
(* The encodings share programa without a lock.  However the goroutines    *)
(* interleave, and even if the input changes between their probes, nothing *)
(* of a program other than the one of -sid gets into a playlist or a       *)
(* command; and when the probes agree on a single program that can be      *)
(* selected (thanks to -sid, or because the input carries only one) all    *)
(* the encodings use the same description of it: the race is harmless.     *)
(***************************************************************************)
EntradaEstable ==
  \A p, q \in Reportados : Elegible(p) /\ Elegible(q) => p = q

Usados == UNION {lista[e] \cup cmd[e] : e \in Enc}

ProgramaCoherente ==
  /\ \A u \in Usados : u[2] \in Reportados /\ Elegible(u[2])
  /\ EntradaEstable => \A u, v \in Usados : u[2] = v[2]

(***************************************************************************)
(* subtitulos[0] and audio[0] are read without a check of their own, of a  *)
(* variable the other encodings rewrite.  Whatever the interleaving and    *)
(* however the input changes, the process panics only if two goroutines    *)
(* chose programs of which one has subtitles and the other has none, or if *)
(* a program with teletext and one without audio (which may be the same)   *)
(* were chosen: when the probes agree on a program with audio, it never    *)
(* does.                                                                   *)
(***************************************************************************)
Elegidos == {elegido[x] : x \in Proc} \ {Nada}

PanicoExplicado ==
  ~vivo /\ salida = "panico" =>
    \E p, q \in Elegidos : \/ p.subs # "no" /\ q.subs = "no"
                           \/ p.subs = "teletext" /\ ~q.audio

(***************************************************************************)
(* Encodings with different names never touch each other's output.  Once   *)
(* an encoding has written its master playlist, and whenever Titania has   *)
(* been given its URL in this start of the process, the file holds only    *)
(* what the encoding wrote in this start, and all of it unless the write   *)
(* failed; and the directory holds nothing of an earlier start unless      *)
(* emptying it failed.                                                     *)
(***************************************************************************)
NombresDistintos == \A e, f \in Enc : Nombre[e] = Nombre[f] => e = f

TextoPropio(e, t) == t.autor = e /\ t.arranque = arranque /\ t.pistas \subseteq lista[e]

SalidaPropia(e) ==
  vivo /\ (pc[e] \in Despues \cup Lanzado \/ anuncios[e] = arranque) =>
    /\ \A t \in disco[Nombre[e]].contenido : TextoPropio(e, t)
    /\ "escribir" \notin fallo[e] => disco[Nombre[e]].contenido = {Texto(e)}
    /\ "borrar" \notin fallo[e] => \A r \in disco[Nombre[e]].pistas :
                                     r.autor = e /\ r.arranque = arranque

ListaIntacta == NombresDistintos => \A e \in Enc : SalidaPropia(e)

(***************************************************************************)
(* When ffmpeg starts, every track the master playlist announces is one of *)
(* the outputs of the command, and its directory is there unless making it *)
(* failed: the playlist, whose writing empties the directory, comes before *)
(* the arguments.                                                          *)
(***************************************************************************)
PistasProducidas ==
  NombresDistintos /\ EntradaEstable =>
    \A e \in Enc : vivo /\ pc[e] = "ffmpeg" =>
      \A u \in lista[e] :
        /\ u \in cmd[e]
        /\ ConDirectorio(u) /\ "pista" \notin fallo[e] =>
             [autor |-> e, arranque |-> arranque, pista |-> u]
               \in disco[Nombre[e]].pistas

(* The process says that the encodings have finished only when every one   *)
(* of them has delivered its result.                                       *)
FinOrdenado ==
  ~vivo /\ salida = "codificaciones" /\ ~configuration.Test =>
    \A e \in Enc : pc[e] = "enviado"

(***************************************************************************)
(* The process ends, for the container to start it again, when the web     *)
(* server has failed, when every ffmpeg has ended and after -test; no      *)
(* goroutine blocks for ever on a channel nobody reads.                    *)
(***************************************************************************)
Termina ==
  vivo /\ (\/ configuration.Test
           \/ web = "caido"
           \/ \A e \in Enc : pc[e] \in {"resultado", "enviado"}) ~> ~vivo

(* Every encoding gets to run ffmpeg, unless the process ends first. *)
TodasArrancan ==
  vivo /\ ~configuration.Test ~> ~vivo \/ \A e \in Enc : pc[e] \in Lanzado

-----------------------------------------------------------------------------
(* What the comments say, without the hypotheses above *)

(***************************************************************************)
(* "Programa es la estructura que almacena información del programa        *)
(* seleccionado": all an encoding uses is of one program.                  *)
(***************************************************************************)
UnSoloPrograma ==
  \A e \in Enc : \A u, v \in lista[e] \cup cmd[e] : u[2].sid = v[2].sid
=============================================================================
