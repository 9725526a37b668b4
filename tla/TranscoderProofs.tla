-------------------------- MODULE TranscoderProofs --------------------------
(***************************************************************************)
(* Proofs about Transcoder, for any number of encodings, any reports of    *)
(* ffprobe and any number of restarts.                                     *)
(***************************************************************************)
EXTENDS Transcoder, FiniteSetTheorems, TLAPS

-----------------------------------------------------------------------------
(***************************************************************************)
(* The shared variable.  Whatever is in it, and whatever a goroutine has   *)
(* picked to copy into it, can be selected; and a goroutine that has       *)
(* copied a field will never find that field empty again.                  *)
(***************************************************************************)
Elegibles == {p \in Reportados : Elegible(p)}

Copian == {"copiaId", "video", "audio", "subs"}

Leen == Despues \cup Lanzado \cup
        {"lenSubtitles", "videoMap", "teletexto", "listaAudio", "listaSubs",
         "borrar", "crear", "escribir", "mensaje"}

IdElegible == programaId = SinPrograma \/ \E p \in Elegibles : programaId = p.sid

TipoCompartido ==
  /\ IdElegible
  /\ pc = [x \in Proc |-> pc[x]]
  /\ informe \in [Proc -> Informes \cup {<<>>}]
  /\ k \in [Proc -> Nat \ {0}]
  /\ elegido \in [Proc -> Elegibles \cup {Nada}]
  /\ programa \in [Campos -> Elegibles \cup {Nada}]

Llenos ==
  \A x \in Proc :
    /\ pc[x] \in Copian => elegido[x] # Nada
    /\ pc[x] \in {"audio", "subs"} \cup Leen => programa["video"] # Nada
    /\ pc[x] \in {"subs"} \cup Leen => programa["audio"] # Nada
    /\ pc[x] \in Leen => programa["subs"] # Nada

UsosInv ==
  /\ lista \in [Enc -> SUBSET (Campos \X Elegibles)]
  /\ cmd \in [Enc -> SUBSET (Campos \X Elegibles)]

CompartidoInv == TipoCompartido /\ Llenos /\ UsosInv

(* The configuration never changes, so neither does what can be selected.  *)
LEMMA ElegiblesFijos ==
  ASSUME UNCHANGED configuration PROVE Elegibles' = Elegibles
BY DEF Elegibles, Elegible

LEMMA IdFijo ==
  ASSUME IdElegible, UNCHANGED <<configuration, programaId>> PROVE IdElegible'
BY ElegiblesFijos DEF IdElegible

(* A program of a report that has the id of one that can be selected can   *)
(* be selected too: this is why a lookup with an id written by another     *)
(* goroutine is safe.                                                      *)
LEMMA MismoId ==
  ASSUME NEW p \in Elegibles, NEW q \in Reportados, q.sid = p.sid
  PROVE  q \in Elegibles
BY DEF Elegibles, Elegible

(* The programs of a report are among the reported ones. *)
LEMMA DeInforme ==
  ASSUME NEW s \in Informes \cup {<<>>}, NEW n \in 1..Len(s)
  PROVE  s[n] \in Reportados /\ s[n].sid # SinPrograma
<1>1. s \in Informes
  <2>1. CASE s = <<>>
    BY <2>1
  <2> QED
    BY <2>1
<1>2. s[n].sid # SinPrograma
  BY <1>1, InformesAssumption
<1>3. s[n] \in {s[m] : m \in 1..Len(s)}
  OBVIOUS
<1>4. s[n] \in Reportados
  BY <1>1, <1>3 DEF Reportados
<1> QED
  BY <1>2, <1>4

(* A step that moves nobody, and one that moves a single goroutine within  *)
(* the part it was in.                                                     *)
LEMMA QuietoCompartido ==
  ASSUME CompartidoInv,
         UNCHANGED <<configuration, pc, programaId, programa, informe, k,
                     elegido, lista, cmd>>
  PROVE  CompartidoInv'
<1>1. Elegibles' = Elegibles /\ IdElegible'
  BY ElegiblesFijos, IdFijo DEF CompartidoInv, TipoCompartido
<1> QED
  BY <1>1 DEF CompartidoInv, TipoCompartido, Llenos, UsosInv

LEMMA MarcoCompartido ==
  ASSUME CompartidoInv, NEW x \in Proc, NEW l,
         UNCHANGED <<configuration, programaId, programa, informe, k, elegido,
                     lista, cmd>>,
         pc' = [pc EXCEPT ![x] = l],
         l \notin Copian,
         l \in Leen => pc[x] \in Leen
  PROVE  CompartidoInv'
<1>1. Elegibles' = Elegibles /\ IdElegible'
  BY ElegiblesFijos, IdFijo DEF CompartidoInv, TipoCompartido
<1>2. TipoCompartido'
  BY <1>1 DEF CompartidoInv, TipoCompartido
<1>3. Llenos'
  BY DEF CompartidoInv, TipoCompartido, Llenos, Copian
<1>4. UsosInv'
  BY <1>1 DEF CompartidoInv, UsosInv
<1> QED
  BY <1>2, <1>3, <1>4 DEF CompartidoInv

(* A start of the process: no goroutine has probed anything. *)
LEMMA ArranqueCompartido ==
  ASSUME pc = PcInicial, programaId = SinPrograma,
         programa = [c \in Campos |-> Nada],
         informe = [x \in Proc |-> <<>>], k = [x \in Proc |-> 1],
         elegido = [x \in Proc |-> Nada],
         lista = [e \in Enc |-> {}], cmd = [e \in Enc |-> {}]
  PROVE  CompartidoInv
<1>1. TipoCompartido
  <2>1. IdElegible
    BY DEF IdElegible
  <2>2. pc = [x \in Proc |-> pc[x]]
    BY DEF PcInicial
  <2>3. informe \in [Proc -> Informes \cup {<<>>}]
    OBVIOUS
  <2> QED
    BY <2>1, <2>2, <2>3 DEF TipoCompartido
<1>2. Llenos
  BY DEF Llenos, PcInicial, Copian, Leen, Despues, Lanzado
<1>3. UsosInv
  BY DEF UsosInv
<1> QED
  BY <1>1, <1>2, <1>3 DEF CompartidoInv

(* The end of the process by log.Fatal or by a panic. *)
Cae == /\ estado' = "muerto" /\ salida' \in {"fatal", "panico"}
       /\ UNCHANGED <<configuration, arranque, pc>>

(* The probe: it reads programa.id, and copies a program into programa.    *)
LEMMA SondaCompartida ==
  ASSUME CompartidoInv, NEW x \in Proc, obtenerStreamsPost(x)
  PROVE  CompartidoInv'
<1> USE DEF CompartidoInv
<1>0. /\ UNCHANGED configuration /\ UNCHANGED <<lista, cmd>>
      /\ Elegibles' = Elegibles
  <2>1. UNCHANGED configuration /\ UNCHANGED <<lista, cmd>>
    BY Zenon DEF obtenerStreamsPost, Sondear, PostError, LeerPrograma, PostStreams,
       Elegir, CopiarId, CopiarCampo, Sigue, Cae, Muere, proceso, locales, archivos
  <2> QED
    BY <2>1, ElegiblesFijos
<1>U. UsosInv'
  BY <1>0 DEF UsosInv
<1>1. CASE Sondear(x)
  <2>1. TipoCompartido'
    <3>1. IdElegible'
      BY <1>0, <1>1, IdFijo DEF TipoCompartido, Sondear
    <3>2. /\ UNCHANGED <<elegido, programa>>
          /\ pc' = [y \in Proc |-> pc'[y]]
          /\ k' \in [Proc -> Nat \ {0}]
      BY <1>1 DEF TipoCompartido, Sondear, Sigue, Ir
    <3>3. informe' \in [Proc -> Informes \cup {<<>>}]
      BY <1>1 DEF TipoCompartido, Sondear
    <3> QED
      BY <1>0, <3>1, <3>2, <3>3 DEF TipoCompartido
  <2>2. Llenos'
    BY <1>1 DEF TipoCompartido, Llenos, Sondear, Sigue, Ir, Copian, Leen, Despues, Lanzado
  <2> QED
    BY <2>1, <2>2, <1>U
<1>2. CASE PostError(x)
  BY <1>2, QuietoCompartido DEF PostError, Cae, Muere, locales, archivos
<1>3. CASE LeerPrograma(x)
  <2> DEFINE p == informe[x][k[x]]
  <2>1. p \in Reportados
    BY <1>3, DeInforme DEF LeerPrograma, TipoCompartido
  <2>2. programaId' = IF Elegible(p) THEN p.sid ELSE programaId
    BY <1>3 DEF LeerPrograma, IdTrasLinea
  <2>3. IdElegible'
    BY <1>0, <2>1, <2>2 DEF Elegibles, IdElegible, TipoCompartido
  <2>4. TipoCompartido'
    BY <1>0, <1>3, <2>3 DEF TipoCompartido, LeerPrograma
  <2>5. Llenos'
    BY <1>3 DEF Llenos, LeerPrograma
  <2> QED
    BY <2>4, <2>5, <1>U
<1>4. CASE PostStreams(x)
  <2>1. CASE Sigue(x, "elegir")
    <3>1. "elegir" \notin Copian /\ "elegir" \notin Leen
      BY DEF Copian, Leen, Despues, Lanzado
    <3>2. /\ pc' = [pc EXCEPT ![x] = "elegir"]
          /\ UNCHANGED <<configuration, programaId, programa, informe, k, elegido,
                         lista, cmd>>
      BY <1>4, <2>1 DEF PostStreams, Sigue, Ir, proceso, locales, archivos
    <3> QED
      BY <3>1, <3>2, MarcoCompartido
  <2>2. CASE Cae
    BY <1>4, <2>2, QuietoCompartido DEF PostStreams, Cae, Muere, locales, archivos
  <2> QED
    BY <1>4, <2>1, <2>2 DEF PostStreams, Cae, Muere
<1>5. CASE Elegir(x)
  <2>1. CASE \E n \in 1..Len(informe[x]) :
               /\ informe[x][n].sid = programaId
               /\ elegido' = [elegido EXCEPT ![x] = informe[x][n]]
               /\ Sigue(x, "copiaId")
    <3>1. PICK n \in 1..Len(informe[x]) :
            /\ informe[x][n].sid = programaId
            /\ elegido' = [elegido EXCEPT ![x] = informe[x][n]]
            /\ Sigue(x, "copiaId")
      BY <2>1
    <3> DEFINE q == informe[x][n]
    <3>2. q \in Reportados /\ q.sid # SinPrograma
      BY DeInforme DEF TipoCompartido
    <3>3. q \in Elegibles
      BY <3>1, <3>2, MismoId DEF TipoCompartido, IdElegible
    <3>4. elegido' = [elegido EXCEPT ![x] = q] /\ pc' = [pc EXCEPT ![x] = "copiaId"]
      BY <3>1 DEF Sigue, Ir
    <3>5. q # Nada
      BY <3>2, NadaAssumption
    <3> HIDE DEF q
    <3>6. UNCHANGED <<programaId, programa, informe, k>>
      BY <1>5 DEF Elegir
    <3>9. IdElegible'
      BY <1>0, <3>6, IdFijo DEF TipoCompartido
    <3>7. TipoCompartido'
      BY <1>0, <3>9, <3>3, <3>4, <3>6 DEF TipoCompartido
    <3>8. Llenos'
      BY <3>4, <3>5, <3>6 DEF TipoCompartido, Llenos, Copian, Leen, Despues, Lanzado
    <3> QED
      BY <3>7, <3>8, <1>U
  <2>2. CASE Cae /\ UNCHANGED elegido
    BY <1>5, <2>2, QuietoCompartido DEF Elegir, Cae, Muere
  <2> QED
    BY <1>5, <2>1, <2>2 DEF Elegir, Cae, Muere
<1>6. CASE CopiarId(x)
  <2>1. elegido[x] \in Elegibles
    BY <1>6 DEF CopiarId, En, TipoCompartido, Llenos, Copian
  <2>2. TipoCompartido'
    <3>1. /\ programaId' = elegido[x].sid /\ pc' = [pc EXCEPT ![x] = "video"]
          /\ UNCHANGED <<programa, informe, k, elegido>>
      BY <1>6 DEF CopiarId, Sigue, Ir, locales, archivos
    <3>2. IdElegible'
      BY <1>0, <2>1, <3>1 DEF IdElegible
    <3> QED
      BY <1>0, <3>1, <3>2 DEF TipoCompartido
  <2>3. Llenos'
    BY <1>6, <2>1 DEF TipoCompartido, Llenos, CopiarId, En, Sigue, Ir, locales, archivos,
       Copian, Leen, Despues, Lanzado
  <2> QED
    BY <2>2, <2>3, <1>U
<1>7. ASSUME NEW c \in Campos, NEW l, CopiarCampo(x, c, l),
             \/ c = "video" /\ l = "audio"
             \/ c = "audio" /\ l = "subs"
             \/ c = "subs" /\ l \in {"mensaje", "lenSubtitles"}
      PROVE  CompartidoInv'
  <2>1. elegido[x] \in Elegibles /\ elegido[x] # Nada
    BY <1>7, NadaAssumption DEF CopiarCampo, En, TipoCompartido, Llenos, Copian, Elegibles, Campos
  <2>2. /\ programa' = [programa EXCEPT ![c] = elegido[x]]
        /\ pc' = [pc EXCEPT ![x] = l] /\ pc[x] = c
        /\ UNCHANGED <<programaId, informe, k, elegido>>
    BY <1>7 DEF CopiarCampo, En, Sigue, Ir, locales, archivos
  <2>5. IdElegible'
    BY <1>0, <2>2, IdFijo DEF TipoCompartido
  <2>3. TipoCompartido'
    BY <1>0, <2>1, <2>2, <2>5 DEF TipoCompartido
  <2>4. Llenos'
    BY <1>7, <2>1, <2>2 DEF TipoCompartido, Llenos, Copian, Leen, Despues, Lanzado, Campos
  <2> QED
    BY <2>3, <2>4, <1>U
<1> QED
  <2>1. \/ CopiarCampo(x, "video", "audio")
        \/ CopiarCampo(x, "audio", "subs")
        \/ CopiarCampo(x, "subs", "mensaje")
        \/ CopiarCampo(x, "subs", "lenSubtitles")
        => CompartidoInv'
    BY <1>7 DEF Campos
  <2>2. CopiarCampo(x, "subs", TrasSondear(x)) =>
          \/ CopiarCampo(x, "subs", "mensaje")
          \/ CopiarCampo(x, "subs", "lenSubtitles")
    BY DEF TrasSondear
  <2> QED
    BY <1>1, <1>2, <1>3, <1>4, <1>5, <1>6, <2>1, <2>2 DEF obtenerStreamsPost

(***************************************************************************)
(* The kinds of step of an encoding.  Lecturas and Pistas say what a read  *)
(* of programa for the arguments and a loop over its tracks change.        *)
(***************************************************************************)
Fijas == /\ UNCHANGED <<web, recibidos, programaId, programa>>
         /\ UNCHANGED <<informe, k, elegido, lenSubtitles, teletextSubtitles>>
         /\ UNCHANGED <<lista, anuncios>>

LEMMA Lecturas ==
  ASSUME NEW e \in Enc, NEW l, NEW c, NEW m, LeerParaCmd(e, l, c, m)
  PROVE  /\ vivo /\ pc[e] = l /\ pc' = [pc EXCEPT ![e] = m] /\ Fijas
         /\ UNCHANGED <<configuration, estado, salida, arranque>>
         /\ UNCHANGED <<disco, fallo>>
         /\ cmd' = [cmd EXCEPT ![e] = @ \cup {Usa(c)}]
BY DEF LeerParaCmd, En, Sigue, Ir, proceso, archivos, Fijas

LEMMA Pistas ==
  ASSUME NEW e \in Enc, NEW l, NEW c, NEW m, ArgsPistas(e, l, c, m)
  PROVE  /\ vivo /\ pc[e] = l /\ pc' = [pc EXCEPT ![e] = m] /\ Fijas
         /\ UNCHANGED <<configuration, estado, salida, arranque>>
         /\ cmd' = [cmd EXCEPT ![e] = @ \cup {Usa(c)}]
         /\ \/ ~ConDirectorio(Usa(c)) /\ UNCHANGED <<disco, fallo>>
            \/ disco' = ConPistas(e, PistasCreadas(e, c)) /\ UNCHANGED fallo
            \/ /\ \E ps \in SUBSET disco[Nombre[e]].pistas : disco' = ConPistas(e, ps)
               /\ fallo' = [fallo EXCEPT ![e] = @ \cup {"pista"}]
<1>1. /\ vivo /\ pc[e] = l /\ pc' = [pc EXCEPT ![e] = m] /\ Fijas
      /\ UNCHANGED <<configuration, estado, salida, arranque>>
      /\ cmd' = [cmd EXCEPT ![e] = @ \cup {Usa(c)}]
  BY DEF ArgsPistas, En, Sigue, Ir, proceso, Fijas
<1>2. SinPistas(e, c) \in SUBSET disco[Nombre[e]].pistas
  BY DEF SinPistas
<1>3. \/ ~ConDirectorio(Usa(c)) /\ UNCHANGED <<disco, fallo>>
      \/ disco' = ConPistas(e, PistasCreadas(e, c)) /\ UNCHANGED fallo
      \/ /\ \E ps \in {SinPistas(e, c), disco[Nombre[e]].pistas} : disco' = ConPistas(e, ps)
         /\ fallo' = [fallo EXCEPT ![e] = @ \cup {"pista"}]
  BY Zenon DEF ArgsPistas, Falla, archivos
<1> QED
  BY <1>1, <1>2, <1>3

(* The panic of programa.audio[0]. *)
Revienta(e) ==
  /\ vivo /\ pc[e] = "argsSubsAudio" /\ ~programa["audio"].audio
  /\ Muere("panico") /\ Fijas
  /\ UNCHANGED <<cmd, disco, fallo>>

LEMMA Clases ==
  ASSUME NEW e \in Enc, inicializarFfmpegEncoding(e)
  PROVE  \/ LeerLenSubtitles(e)
         \/ LeerParaCmd(e, "videoMap", "video", "teletexto")
         \/ LeerTeletexto(e)
         \/ CopiarParaLista(e, "listaAudio", "audio", "listaSubs")
         \/ CopiarParaLista(e, "listaSubs", "subs", "borrar")
         \/ BorrarDirectorio(e)
         \/ CrearLista(e)
         \/ EscribirLista(e)
         \/ \E l, m \in Despues, c \in Campos : LeerParaCmd(e, l, c, m)
         \/ \E l, m \in Despues, c \in Campos : ArgsPistas(e, l, c, m)
         \/ Revienta(e)
         \/ Anunciar(e)
<1>0. /\ {"argsDvb", "argsDvbSubs", "argsAudio", "argsAudioVideo", "argsSubs",
          "argsSubsAudio", "argsSubsVideo", "anunciar"} \subseteq Despues
      /\ {"video", "audio", "subs"} \subseteq Campos
      /\ TrasAudio(e) \in Despues
  BY DEF Despues, Campos, TrasAudio
<1>1. CASE LeerVideo(e)
  BY <1>1 DEF LeerVideo
<1>2. CASE ArgsDvb(e) \/ ArgsAudioVideo(e) \/ ArgsSubsVideo(e)
  BY <1>0, <1>2 DEF ArgsDvb, ArgsAudioVideo, ArgsSubsVideo
<1>3. CASE ArgsDvbSubs(e)
  BY <1>0, <1>3 DEF ArgsDvbSubs
<1>4. CASE ArgsAudio(e)
  <2>1. (IF programa["audio"].audio THEN "argsAudioVideo" ELSE TrasAudio(e)) \in Despues
    BY <1>0
  <2> QED
    BY <1>0, <1>4, <2>1 DEF ArgsAudio
<1>5. CASE ArgsSubs(e)
  <2>1. (IF programa["subs"].subs = "no" THEN "anunciar" ELSE "argsSubsAudio") \in Despues
    BY <1>0
  <2> QED
    BY <1>0, <1>5, <2>1 DEF ArgsSubs
<1>6. CASE ArgsSubsAudio(e)
  <2>1. CASE LeerParaCmd(e, "argsSubsAudio", "audio", "argsSubsVideo")
    BY <1>0, <2>1
  <2>2. CASE ~LeerParaCmd(e, "argsSubsAudio", "audio", "argsSubsVideo")
    BY <1>6, <2>2, Zenon DEF ArgsSubsAudio, Revienta, Fijas, En, locales, archivos
  <2> QED
    BY <2>1, <2>2
<1> QED
  BY <1>1, <1>2, <1>3, <1>4, <1>5, <1>6 DEF inicializarFfmpegEncoding

(* What a goroutine that has probed reads of programa can be selected. *)
LEMMA UsoElegible ==
  ASSUME CompartidoInv, NEW e \in Enc, pc[e] \in Leen, NEW c \in Campos
  PROVE  Usa(c) \in Campos \X Elegibles
<1>1. programa[c] \in Elegibles
  BY DEF CompartidoInv, TipoCompartido, Llenos, Campos, Proc
<1> QED
  BY <1>1 DEF Usa

(* A step that adds such fields to a playlist or to a command. *)
LEMMA UsoCompartido ==
  ASSUME CompartidoInv, NEW e \in Enc, NEW l,
         UNCHANGED <<configuration, programaId, programa, informe, k, elegido>>,
         pc' = [pc EXCEPT ![e] = l], pc[e] \in Leen, l \in Leen,
         lista' \in [Enc -> SUBSET (Campos \X Elegibles)],
         cmd' \in [Enc -> SUBSET (Campos \X Elegibles)]
  PROVE  CompartidoInv'
<1>0. e \in Proc /\ l \notin Copian
  BY DEF Proc, Copian, Leen, Despues, Lanzado
<1>1. Elegibles' = Elegibles /\ IdElegible'
  BY ElegiblesFijos, IdFijo DEF CompartidoInv, TipoCompartido
<1>2. TipoCompartido'
  BY <1>0, <1>1 DEF CompartidoInv, TipoCompartido
<1>3. Llenos'
  BY <1>0 DEF CompartidoInv, TipoCompartido, Llenos, Copian
<1>4. UsosInv'
  BY <1>1 DEF UsosInv
<1> QED
  BY <1>2, <1>3, <1>4 DEF CompartidoInv

(* The rest of an encoding. *)
LEMMA CodificacionCompartida ==
  ASSUME CompartidoInv, NEW e \in Enc, inicializarFfmpegEncoding(e)
  PROVE  CompartidoInv'
<1> DEFINE Mueve(l) == pc' = [pc EXCEPT ![e] = l]
           MasLista(A) == lista' = [lista EXCEPT ![e] = @ \cup A]
           MasCmd(A) == cmd' = [cmd EXCEPT ![e] = @ \cup A]
<1>0. e \in Proc
  BY DEF Proc
<1>G. UNCHANGED <<configuration, programaId, programa, informe, k, elegido>>
  <2>1. UNCHANGED configuration /\ UNCHANGED <<programaId, programa>> /\ UNCHANGED <<informe, k, elegido>>
    <3>1. CASE \/ \E l, m \in Despues, c \in Campos : LeerParaCmd(e, l, c, m)
               \/ LeerParaCmd(e, "videoMap", "video", "teletexto")
      BY <3>1, Lecturas DEF Fijas
    <3>2. CASE \E l, m \in Despues, c \in Campos : ArgsPistas(e, l, c, m)
      BY <3>2, Pistas DEF Fijas
    <3>3. CASE Revienta(e)
      BY <3>3 DEF Revienta, Muere, Fijas
    <3>4. CASE \/ LeerLenSubtitles(e) \/ LeerTeletexto(e)
               \/ CopiarParaLista(e, "listaAudio", "audio", "listaSubs")
               \/ CopiarParaLista(e, "listaSubs", "subs", "borrar")
               \/ BorrarDirectorio(e) \/ CrearLista(e) \/ EscribirLista(e) \/ Anunciar(e)
      BY <3>4, Zenon DEF LeerLenSubtitles, LeerTeletexto, CopiarParaLista,
         BorrarDirectorio, CrearLista, EscribirLista, Anunciar, Sigue, Muere, proceso, locales
    <3> QED
      BY <3>1, <3>2, <3>3, <3>4, Clases
  <2> QED
    BY <2>1
<1>Q. ASSUME pc' = pc, UNCHANGED <<lista, cmd>>
      PROVE  CompartidoInv'
  BY <1>G, <1>Q, QuietoCompartido
<1>M. ASSUME NEW l \in Leen, pc[e] \in Leen, Mueve(l), UNCHANGED <<lista, cmd>>
      PROVE  CompartidoInv'
  <2>1. l \notin Copian
    BY DEF Leen, Copian, Despues, Lanzado
  <2> QED
    BY <1>0, <1>G, <1>M, <2>1, MarcoCompartido
<1>C. ASSUME NEW l \in Leen, pc[e] \in Leen, Mueve(l), UNCHANGED lista,
             NEW A \in SUBSET {Usa(c) : c \in Campos}, MasCmd(A)
      PROVE  CompartidoInv'
  <2>1. A \subseteq Campos \X Elegibles
    BY <1>C, UsoElegible
  <2>2. cmd' \in [Enc -> SUBSET (Campos \X Elegibles)]
    BY <1>C, <2>1 DEF CompartidoInv, UsosInv
  <2>3. lista' \in [Enc -> SUBSET (Campos \X Elegibles)]
    BY <1>C DEF CompartidoInv, UsosInv
  <2> QED
    BY <1>G, <1>C, <2>2, <2>3, UsoCompartido
<1>L. ASSUME NEW l \in Leen, pc[e] \in Leen, Mueve(l), UNCHANGED cmd,
             NEW c \in Campos, MasLista({Usa(c)})
      PROVE  CompartidoInv'
  <2>1. Usa(c) \in Campos \X Elegibles
    BY <1>L, UsoElegible
  <2>2. lista' \in [Enc -> SUBSET (Campos \X Elegibles)]
    BY <1>L, <2>1 DEF CompartidoInv, UsosInv
  <2>3. cmd' \in [Enc -> SUBSET (Campos \X Elegibles)]
    BY <1>L DEF CompartidoInv, UsosInv
  <2> QED
    BY <1>G, <1>L, <2>2, <2>3, UsoCompartido
<1>R. /\ {"lenSubtitles", "videoMap", "teletexto", "listaAudio", "listaSubs",
          "borrar", "crear", "escribir", "argsDvb", "argsAudio", "anunciar",
          "ffmpeg"} \subseteq Leen
      /\ Despues \subseteq Leen
      /\ {"video", "audio", "subs"} = Campos
  BY DEF Leen, Despues, Lanzado, Campos
<1>1. CASE LeerLenSubtitles(e)
  <2>1. Mueve("videoMap") /\ pc[e] = "lenSubtitles" /\ UNCHANGED <<lista, cmd>>
    BY <1>1 DEF LeerLenSubtitles, En, Sigue, Ir
  <2> QED
    BY <1>M, <1>R, <2>1
<1>2. CASE LeerParaCmd(e, "videoMap", "video", "teletexto")
  <2>1. Mueve("teletexto") /\ pc[e] = "videoMap" /\ UNCHANGED lista /\ MasCmd({Usa("video")})
    BY <1>2, Lecturas DEF Fijas
  <2> QED
    BY <1>C, <1>R, <2>1
<1>3. CASE LeerTeletexto(e)
  <2>1. pc' = pc \/ Mueve("listaAudio")
    BY <1>3, Zenon DEF LeerTeletexto, Sigue, Ir, Cae, Muere
  <2>2. pc[e] = "teletexto" /\ UNCHANGED <<lista, cmd>>
    BY <1>3, Zenon DEF LeerTeletexto, En
  <2> QED
    BY <1>M, <1>Q, <1>R, <2>1, <2>2
<1>4. CASE CopiarParaLista(e, "listaAudio", "audio", "listaSubs")
  <2>1. Mueve("listaSubs") /\ pc[e] = "listaAudio" /\ UNCHANGED cmd /\ MasLista({Usa("audio")})
    BY <1>4 DEF CopiarParaLista, En, Sigue, Ir
  <2> QED
    BY <1>L, <1>R, <2>1
<1>5. CASE CopiarParaLista(e, "listaSubs", "subs", "borrar")
  <2>1. Mueve("borrar") /\ pc[e] = "listaSubs" /\ UNCHANGED cmd /\ MasLista({Usa("subs")})
    BY <1>5 DEF CopiarParaLista, En, Sigue, Ir
  <2> QED
    BY <1>L, <1>R, <2>1
<1>6. CASE BorrarDirectorio(e)
  <2>1. Mueve("crear") /\ pc[e] = "borrar" /\ UNCHANGED <<lista, cmd>>
    BY <1>6, Zenon DEF BorrarDirectorio, En, Sigue, Ir, locales, archivos
  <2> QED
    BY <1>M, <1>R, <2>1
<1>7. CASE CrearLista(e)
  <2>1. pc' = pc \/ Mueve("escribir")
    BY <1>7, Zenon DEF CrearLista, Sigue, Ir, Cae, Muere
  <2>2. pc[e] = "crear" /\ UNCHANGED <<lista, cmd>>
    BY <1>7, Zenon DEF CrearLista, En, locales, archivos
  <2> QED
    BY <1>M, <1>Q, <1>R, <2>1, <2>2
<1>8. CASE EscribirLista(e)
  <2>1. /\ Mueve("argsAudio") \/ Mueve("argsDvb")
        /\ pc[e] = "escribir" /\ UNCHANGED <<lista, cmd>>
    BY <1>8 DEF EscribirLista, En, Sigue, Ir, locales
  <2> QED
    BY <1>M, <1>R, <2>1
<1>9. ASSUME NEW l \in Despues, NEW m \in Despues, NEW c \in Campos,
             LeerParaCmd(e, l, c, m) \/ ArgsPistas(e, l, c, m)
      PROVE  CompartidoInv'
  <2>1. Mueve(m) /\ pc[e] = l /\ UNCHANGED lista /\ MasCmd({Usa(c)})
    BY <1>9, Lecturas, Pistas DEF Fijas
  <2> QED
    BY <1>C, <1>R, <2>1
<1>10. CASE Revienta(e)
  BY <1>10, <1>Q DEF Revienta, Muere, Fijas
<1>13. CASE Anunciar(e)
  <2>1. pc' = pc \/ Mueve("ffmpeg")
    BY <1>13, Zenon DEF Anunciar, Sigue, Ir, Cae, Muere
  <2>2. pc[e] = "anunciar" /\ UNCHANGED <<lista, cmd>>
    BY <1>13, Zenon DEF Anunciar, En, locales, archivos
  <2> QED
    BY <1>M, <1>Q, <1>R, <2>1, <2>2
<1> QED
  BY <1>1, <1>2, <1>3, <1>4, <1>5, <1>6, <1>7, <1>8, <1>9, <1>10, <1>13, Clases

(* Every other step leaves programa and what was read of it alone. *)
LEMMA PasoCompartido ==
  ASSUME CompartidoInv, [Next]_vars PROVE CompartidoInv'
<1>1. CASE Inicializar
  <2>1. UNCHANGED <<configuration, programaId, programa, informe, k, elegido,
                    lista, cmd>>
    BY <1>1 DEF Inicializar, proceso, locales, archivos
  <2>2. Elegibles' = Elegibles /\ IdElegible'
    BY <2>1, ElegiblesFijos, IdFijo DEF CompartidoInv, TipoCompartido
  <2>3. /\ pc' = [y \in Proc |-> pc'[y]]
        /\ \A y \in Proc : pc'[y] = pc[y] \/ pc'[y] \in {"sonda", "recibir"}
    <3>1. CASE configuration.Test
      BY <1>1, <3>1 DEF Inicializar, CompartidoInv, TipoCompartido
    <3>2. CASE ~configuration.Test
      BY <1>1, <3>2 DEF Inicializar
    <3> QED
      BY <3>1, <3>2
  <2>4. TipoCompartido'
    BY <2>1, <2>2, <2>3 DEF CompartidoInv, TipoCompartido
  <2>5. Llenos'
    BY <2>1, <2>3 DEF CompartidoInv, Llenos, Copian, Leen, Despues, Lanzado
  <2>6. UsosInv'
    BY <2>1, <2>2 DEF CompartidoInv, UsosInv
  <2> QED
    BY <2>4, <2>5, <2>6 DEF CompartidoInv
<1>2. CASE FinCodificaciones
  BY <1>2, QuietoCompartido DEF FinCodificaciones, Mensaje, locales, archivos
<1>3. CASE ArrancarServidor
  BY <1>3, QuietoCompartido DEF ArrancarServidor, proceso, locales, archivos
<1>4. CASE CaerServidor
  BY <1>4, QuietoCompartido DEF CaerServidor, proceso, locales, archivos
<1>5. CASE FinServidor
  BY <1>5, QuietoCompartido DEF FinServidor, Mensaje, locales, archivos
<1>6. CASE \E x \in Proc : obtenerStreamsPost(x)
  BY <1>6, SondaCompartida
<1>7. CASE \E e \in Enc : inicializarFfmpegEncoding(e)
  BY <1>7, CodificacionCompartida
<1>8. ASSUME NEW e \in Enc, NEW l \in {"resultado", "enviado"}, NEW m \in {"ffmpeg", "resultado"},
             pc[e] = m, Sigue(e, l), UNCHANGED <<programaId, programa, locales>>
      PROVE  CompartidoInv'
  <2>1. /\ pc' = [pc EXCEPT ![e] = l]
        /\ UNCHANGED <<configuration, programaId, programa, informe, k, elegido,
                       lista, cmd>>
    BY <1>8 DEF Sigue, Ir, proceso, locales, archivos
  <2>2. e \in Proc /\ l \in Leen /\ l \notin Copian /\ pc[e] \in Leen
    BY <1>8 DEF Proc, Leen, Copian, Lanzado, Despues
  <2> QED
    BY <2>1, <2>2, MarcoCompartido
<1>9. CASE \E e \in Enc : FinFfmpeg(e)
  BY <1>8, <1>9 DEF FinFfmpeg, En
<1>10. CASE \E e \in Enc : Entregar(e)
  BY <1>8, <1>10 DEF Entregar, En
<1>11. CASE Caida
  BY <1>11, QuietoCompartido DEF Caida, Mensaje, locales, archivos
<1>12. CASE Reiniciar
  <2>1. /\ pc' = PcInicial /\ programaId' = SinPrograma
        /\ programa' = [c \in Campos |-> Nada]
        /\ informe' = [x \in Proc |-> <<>>] /\ k' = [x \in Proc |-> 1]
        /\ elegido' = [x \in Proc |-> Nada]
        /\ lista' = [e \in Enc |-> {}] /\ cmd' = [e \in Enc |-> {}]
    BY <1>12 DEF Reiniciar
  <2>2. TipoCompartido'
    <3>1. IdElegible'
      BY <2>1 DEF IdElegible
    <3>2. pc' = [x \in Proc |-> pc'[x]]
      BY <2>1 DEF PcInicial
    <3>3. informe' \in [Proc -> Informes \cup {<<>>}]
      BY <2>1
    <3> QED
      BY <2>1, <3>1, <3>2, <3>3 DEF TipoCompartido
  <2>3. Llenos'
    BY <2>1 DEF Llenos, PcInicial, Copian, Leen, Despues, Lanzado
  <2>4. UsosInv'
    BY <2>1 DEF UsosInv
  <2> QED
    BY <2>2, <2>3, <2>4 DEF CompartidoInv
<1>13. CASE Detenido \/ UNCHANGED vars
  BY <1>13, QuietoCompartido DEF Detenido, vars, proceso, locales, archivos
<1> QED
  BY <1>1, <1>2, <1>3, <1>4, <1>5, <1>6, <1>7, <1>9, <1>10, <1>11, <1>12, <1>13
     DEF Next

(***************************************************************************)
(* The race on programa is harmless: in every interleaving nothing of a    *)
(* program that -sid does not select is used, and probes that agree give   *)
(* every encoding the same program.                                        *)
(***************************************************************************)
THEOREM RaceSinConsecuencias == Spec => []ProgramaCoherente
<1>1. Init => CompartidoInv
  BY ArranqueCompartido DEF Init
<1>2. CompartidoInv /\ [Next]_vars => CompartidoInv'
  BY PasoCompartido
<1>3. CompartidoInv => ProgramaCoherente
  <2> SUFFICES ASSUME CompartidoInv PROVE ProgramaCoherente
    OBVIOUS
  <2>1. \A u \in Usados : u[2] \in Elegibles
    BY DEF CompartidoInv, UsosInv, Usados
  <2> QED
    BY <2>1 DEF ProgramaCoherente, EntradaEstable, Elegibles
<1> QED
  BY <1>1, <1>2, <1>3, PTL DEF Spec

-----------------------------------------------------------------------------
(***************************************************************************)
(* The shape of the steps of a goroutine: one label to the next, or the    *)
(* end of the process.                                                     *)
(***************************************************************************)
Sondeo == {"sonda", "postError", "lineas", "elegir", "copiaId", "video",
           "audio", "subs"}

Trabajo == Despues \cup {"lenSubtitles", "videoMap", "teletexto", "listaAudio",
                         "listaSubs", "borrar", "crear", "escribir"}

PcFuncion == pc = [x \in Proc |-> pc[x]]

LEMMA FormaSonda ==
  ASSUME NEW x \in Proc, obtenerStreamsPost(x), PcFuncion
  PROVE  /\ vivo /\ pc[x] \in Sondeo
         /\ UNCHANGED <<recibidos, lista, disco, fallo, anuncios>>
         /\ \/ Cae
            \/ /\ UNCHANGED <<configuration, estado, salida, arranque>>
               /\ \E l \in Sondeo \cup {"lenSubtitles", "mensaje"} :
                    pc' = [pc EXCEPT ![x] = l]
<1> USE DEF En, Sigue, Ir, Cae, Muere, proceso, locales, archivos, Sondeo
<1>1. CASE Sondear(x)
  BY <1>1 DEF Sondear
<1>2. CASE PostError(x)
  BY <1>2 DEF PostError
<1>3. CASE LeerPrograma(x)
  <2>1. pc' = [pc EXCEPT ![x] = "lineas"]
    BY <1>3 DEF LeerPrograma, PcFuncion
  <2> QED
    BY <1>3, <2>1 DEF LeerPrograma
<1>4. CASE PostStreams(x)
  BY <1>4 DEF PostStreams
<1>5. CASE Elegir(x)
  BY <1>5 DEF Elegir
<1>6. CASE CopiarId(x)
  BY <1>6 DEF CopiarId
<1>7. CASE CopiarCampo(x, "video", "audio")
  BY <1>7 DEF CopiarCampo
<1>8. CASE CopiarCampo(x, "audio", "subs")
  BY <1>8 DEF CopiarCampo
<1>9. CASE CopiarCampo(x, "subs", TrasSondear(x))
  BY <1>9 DEF CopiarCampo, TrasSondear
<1> QED
  BY <1>1, <1>2, <1>3, <1>4, <1>5, <1>6, <1>7, <1>8, <1>9 DEF obtenerStreamsPost

LEMMA FormaCodificacion ==
  ASSUME NEW e \in Enc, inicializarFfmpegEncoding(e)
  PROVE  /\ vivo /\ pc[e] \in Trabajo
         /\ UNCHANGED recibidos
         /\ \/ Cae /\ UNCHANGED <<lista, disco, fallo, anuncios>>
            \/ /\ UNCHANGED <<configuration, estado, salida, arranque>>
               /\ \E l \in Trabajo \cup {"ffmpeg"} : pc' = [pc EXCEPT ![e] = l]
<1> USE DEF En, Sigue, Ir, Cae, Muere, proceso, locales, archivos, Trabajo
<1>0. {"argsDvb", "argsAudio", "anunciar"} \subseteq Despues
  BY DEF Despues
<1>1. CASE LeerLenSubtitles(e)
  BY <1>1 DEF LeerLenSubtitles
<1>2. CASE LeerParaCmd(e, "videoMap", "video", "teletexto")
  BY <1>2, Lecturas DEF Fijas
<1>3. CASE LeerTeletexto(e)
  BY <1>3 DEF LeerTeletexto
<1>4. CASE CopiarParaLista(e, "listaAudio", "audio", "listaSubs")
  BY <1>4 DEF CopiarParaLista
<1>5. CASE CopiarParaLista(e, "listaSubs", "subs", "borrar")
  BY <1>5 DEF CopiarParaLista
<1>6. CASE BorrarDirectorio(e)
  BY <1>6 DEF BorrarDirectorio
<1>7. CASE CrearLista(e)
  BY <1>7 DEF CrearLista
<1>8. CASE EscribirLista(e)
  BY <1>0, <1>8 DEF EscribirLista
<1>9. CASE \E l, m \in Despues, c \in Campos : LeerParaCmd(e, l, c, m)
  BY <1>9, Lecturas DEF Fijas
<1>10. CASE \E l, m \in Despues, c \in Campos : ArgsPistas(e, l, c, m)
  BY <1>10, Pistas DEF Fijas
<1>11. CASE Revienta(e)
  BY <1>11 DEF Revienta, Fijas, Despues
<1>12. CASE Anunciar(e)
  BY <1>0, <1>12 DEF Anunciar
<1> QED
  BY <1>1, <1>2, <1>3, <1>4, <1>5, <1>6, <1>7, <1>8, <1>9, <1>10, <1>11, <1>12, Clases

-----------------------------------------------------------------------------
(***************************************************************************)
(* The results.  The coordinator has counted exactly the encodings that    *)
(* have delivered, and without -test it is either starting or receiving.   *)
(***************************************************************************)
Enviados == {e \in Enc : pc[e] = "enviado"}

CuentaInv ==
  /\ PcFuncion
  /\ recibidos = Cardinality(Enviados)
  /\ pc[Coord] = "inicio" => \A e \in Enc : pc[e] = "parada"
  /\ ~configuration.Test => pc[Coord] \in {"inicio", "recibir"}
  /\ FinOrdenado

(* A goroutine moves between labels other than "enviado". *)
LEMMA PasoSinEntrega ==
  ASSUME CuentaInv, vivo, NEW x \in Proc, NEW l,
         pc' = [pc EXCEPT ![x] = l], l \notin {"enviado", "inicio"},
         pc[x] \notin {"enviado", "inicio", "parada"},
         x = Coord => configuration.Test,
         UNCHANGED <<configuration, recibidos, estado>>
  PROVE  CuentaInv'
<1>1. PcFuncion'
  BY DEF CuentaInv, PcFuncion
<1>2. Enviados' = Enviados
  BY DEF CuentaInv, PcFuncion, Enviados, Proc
<1>3. (pc[Coord] = "inicio" => \A e \in Enc : pc[e] = "parada")'
  BY EncAssumption DEF CuentaInv, PcFuncion, Proc
<1>4. (~configuration.Test => pc[Coord] \in {"inicio", "recibir"})'
  BY EncAssumption DEF CuentaInv, PcFuncion, Proc
<1>5. FinOrdenado'
  BY DEF FinOrdenado, vivo
<1> QED
  BY <1>1, <1>2, <1>3, <1>4, <1>5 DEF CuentaInv

(* The process ends, for a reason other than the results. *)
LEMMA PasoFatal ==
  ASSUME CuentaInv, UNCHANGED <<configuration, pc, recibidos>>,
         \/ UNCHANGED <<estado, salida>>
         \/ salida' # "codificaciones"
  PROVE  CuentaInv'
<1>1. PcFuncion' /\ Enviados' = Enviados
  BY DEF CuentaInv, PcFuncion, Enviados
<1>2. FinOrdenado'
  BY DEF CuentaInv, FinOrdenado, vivo
<1> QED
  BY <1>1, <1>2 DEF CuentaInv

LEMMA EnviadosFinito ==
  /\ IsFiniteSet(Enviados) /\ IsFiniteSet(Enc)
  /\ Cardinality(Enviados) \in Nat /\ Cardinality(Enc) \in Nat
  /\ Cardinality(Enviados) = Cardinality(Enc) => Enviados = Enc
<1>1. Enviados \subseteq Enc
  BY DEF Enviados
<1>2. IsFiniteSet(Enviados) /\ IsFiniteSet(Enc)
  BY <1>1, EncAssumption, FS_Subset
<1> QED
  BY <1>1, <1>2, FS_CardinalityType, FS_Subset

LEMMA PasoCuenta ==
  ASSUME CuentaInv, [Next]_vars PROVE CuentaInv'
<1>0. Enc \subseteq Proc /\ Coord \in Proc /\ Coord \notin Enc
  BY EncAssumption DEF Proc
<1>1. CASE Inicializar
  <2>1. vivo /\ pc[Coord] = "inicio" /\ UNCHANGED <<configuration, estado, recibidos>>
    BY <1>1 DEF Inicializar, En, proceso
  <2>2. \A e \in Enc : pc[e] # "enviado"
    BY <2>1 DEF CuentaInv
  <2>3. /\ PcFuncion'
        /\ \A e \in Enc : pc'[e] # "enviado"
        /\ pc'[Coord] # "inicio"
        /\ ~configuration.Test => pc'[Coord] = "recibir"
    <3>1. CASE configuration.Test
      BY <1>0, <1>1, <2>2, <3>1 DEF Inicializar, CuentaInv, PcFuncion
    <3>2. CASE ~configuration.Test
      BY <1>0, <1>1, <3>2 DEF Inicializar, PcFuncion
    <3> QED
      BY <3>1, <3>2
  <2>4. Enviados' = Enviados
    BY <2>2, <2>3 DEF Enviados
  <2>5. FinOrdenado'
    BY <2>1 DEF FinOrdenado, vivo
  <2> QED
    BY <2>1, <2>3, <2>4, <2>5 DEF CuentaInv
<1>2. CASE FinCodificaciones
  <2>1. UNCHANGED <<configuration, pc, recibidos>>
    BY <1>2 DEF FinCodificaciones, Mensaje
  <2>2. PcFuncion' /\ Enviados' = Enviados
    BY <2>1 DEF CuentaInv, PcFuncion, Enviados
  <2>3. ASSUME ~configuration.Test PROVE Enviados = Enc
    <3>1. pc[Coord] # "mensaje"
      BY <2>3 DEF CuentaInv
    <3>2. ~Faltan
      BY <1>2, <3>1 DEF FinCodificaciones, En
    <3>3. Cardinality(Enviados) <= Cardinality(Enc)
      BY EncAssumption, FS_Subset DEF Enviados
    <3> QED
      BY <3>2, <3>3, EnviadosFinito DEF Faltan, CuentaInv
  <2>4. FinOrdenado'
    BY <2>1, <2>3 DEF FinOrdenado, Enviados
  <2> QED
    BY <2>1, <2>2, <2>4 DEF CuentaInv
<1>3. CASE ArrancarServidor \/ CaerServidor
  BY <1>3, PasoFatal DEF ArrancarServidor, CaerServidor, proceso
<1>4. CASE FinServidor \/ Caida
  BY <1>4, PasoFatal DEF FinServidor, Caida, Mensaje
<1>5. ASSUME NEW x \in Proc, obtenerStreamsPost(x) PROVE CuentaInv'
  <2>1. /\ vivo /\ pc[x] \in Sondeo /\ UNCHANGED recibidos
        /\ \/ Cae
           \/ /\ UNCHANGED <<configuration, estado, salida, arranque>>
              /\ \E l \in Sondeo \cup {"lenSubtitles", "mensaje"} :
                   pc' = [pc EXCEPT ![x] = l]
    BY <1>5, FormaSonda DEF CuentaInv
  <2>2. CASE Cae
    BY <2>1, <2>2, PasoFatal DEF Cae, Muere
  <2>3. CASE /\ UNCHANGED <<configuration, estado, salida, arranque>>
             /\ \E l \in Sondeo \cup {"lenSubtitles", "mensaje"} :
                  pc' = [pc EXCEPT ![x] = l]
    <3>1. PICK l \in Sondeo \cup {"lenSubtitles", "mensaje"} :
            pc' = [pc EXCEPT ![x] = l]
      BY <2>3
    <3>2. /\ l \notin {"enviado", "inicio"}
          /\ pc[x] \notin {"enviado", "inicio", "parada", "recibir"}
      BY <2>1 DEF Sondeo
    <3>3. x = Coord => configuration.Test
      BY <3>2 DEF CuentaInv
    <3> QED
      BY <2>1, <2>3, <3>1, <3>2, <3>3, PasoSinEntrega
  <2> QED
    BY <2>1, <2>2, <2>3
<1>6. ASSUME NEW e \in Enc, inicializarFfmpegEncoding(e) PROVE CuentaInv'
  <2>1. /\ vivo /\ pc[e] \in Trabajo /\ UNCHANGED recibidos
        /\ \/ Cae
           \/ /\ UNCHANGED <<configuration, estado, salida, arranque>>
              /\ \E l \in Trabajo \cup {"ffmpeg"} : pc' = [pc EXCEPT ![e] = l]
    BY <1>6, FormaCodificacion
  <2>2. CASE Cae
    BY <2>1, <2>2, PasoFatal DEF Cae, Muere
  <2>3. CASE /\ UNCHANGED <<configuration, estado, salida, arranque>>
             /\ \E l \in Trabajo \cup {"ffmpeg"} : pc' = [pc EXCEPT ![e] = l]
    <3>1. PICK l \in Trabajo \cup {"ffmpeg"} : pc' = [pc EXCEPT ![e] = l]
      BY <2>3
    <3>2. /\ l \notin {"enviado", "inicio"}
          /\ pc[e] \notin {"enviado", "inicio", "parada"}
      BY <2>1 DEF Trabajo, Despues
    <3> QED
      BY <1>0, <2>1, <2>3, <3>1, <3>2, PasoSinEntrega
  <2> QED
    BY <2>1, <2>2, <2>3
<1>7. ASSUME NEW e \in Enc, FinFfmpeg(e) PROVE CuentaInv'
  <2>1. /\ vivo /\ pc[e] = "ffmpeg" /\ pc' = [pc EXCEPT ![e] = "resultado"]
        /\ UNCHANGED <<configuration, recibidos, estado>>
    BY <1>7 DEF FinFfmpeg, En, Sigue, Ir, proceso
  <2> QED
    BY <1>0, <2>1, PasoSinEntrega
<1>8. ASSUME NEW e \in Enc, Entregar(e) PROVE CuentaInv'
  <2>1. /\ vivo /\ pc[e] = "resultado" /\ pc' = [pc EXCEPT ![e] = "enviado"]
        /\ pc[Coord] = "recibir" /\ recibidos' = recibidos + 1
        /\ UNCHANGED <<configuration, estado>>
    BY <1>8 DEF Entregar, En, Sigue, Ir, proceso
  <2>2. PcFuncion' /\ pc'[Coord] = "recibir"
    BY <1>0, <2>1 DEF CuentaInv, PcFuncion
  <2>3. Enviados' = Enviados \cup {e} /\ e \notin Enviados
    BY <1>0, <2>1 DEF CuentaInv, PcFuncion, Enviados
  <2>4. Cardinality(Enviados') = Cardinality(Enviados) + 1
    BY <2>3, EnviadosFinito, FS_AddElement
  <2>5. FinOrdenado'
    BY <2>1 DEF FinOrdenado, vivo
  <2> QED
    BY <2>1, <2>2, <2>4, <2>5 DEF CuentaInv
<1>9. CASE Reiniciar
  <2>1. pc' = PcInicial /\ recibidos' = 0 /\ estado' = "vivo"
    BY <1>9 DEF Reiniciar
  <2>2. /\ PcFuncion' /\ pc'[Coord] = "inicio"
        /\ \A e \in Enc : pc'[e] = "parada"
    BY <1>0, <2>1 DEF PcInicial, PcFuncion
  <2>3. Enviados' = {}
    BY <2>2 DEF Enviados
  <2>4. FinOrdenado'
    BY <2>1 DEF FinOrdenado, vivo
  <2> QED
    BY <2>1, <2>2, <2>3, <2>4, FS_EmptySet DEF CuentaInv
<1>10. CASE Detenido \/ UNCHANGED vars
  BY <1>10, PasoFatal DEF Detenido, vars, proceso
<1> QED
  BY <1>1, <1>2, <1>3, <1>4, <1>5, <1>6, <1>7, <1>8, <1>9, <1>10 DEF Next

LEMMA InicioCuenta == Init => CuentaInv
<1> SUFFICES ASSUME Init PROVE CuentaInv
  OBVIOUS
<1>1. /\ PcFuncion /\ pc[Coord] = "inicio"
      /\ \A e \in Enc : pc[e] = "parada"
  BY EncAssumption DEF Init, PcInicial, PcFuncion, Proc
<1>2. Enviados = {}
  BY <1>1 DEF Enviados
<1> QED
  BY <1>1, <1>2, FS_EmptySet DEF Init, CuentaInv, FinOrdenado, vivo

(***************************************************************************)
(* For any number of encodings, InicializarCodificaciones tells main that  *)
(* it has finished only after every goroutine has sent its result.         *)
(***************************************************************************)
THEOREM ResultadosCompletos == Spec => []FinOrdenado
<1>1. Init => CuentaInv
  BY InicioCuenta
<1>2. CuentaInv /\ [Next]_vars => CuentaInv'
  BY PasoCuenta
<1>3. CuentaInv => FinOrdenado
  BY DEF CuentaInv
<1> QED
  BY <1>1, <1>2, <1>3, PTL DEF Spec

-----------------------------------------------------------------------------
(***************************************************************************)
(* The output directories.  FormaDisco is what holds of any names: the     *)
(* shape of the functions, and that no URL is of a later start.  Propia is *)
(* what an encoding alone in its directory knows of it.                    *)
(***************************************************************************)
FormaDisco ==
  /\ PcFuncion
  /\ disco = [d \in Dirs |-> disco[d]]
  /\ fallo \in [Enc -> SUBSET {"borrar", "escribir", "pista"}]
  /\ arranque \in Nat
  /\ anuncios \in [Enc -> Nat]
  /\ \A e \in Enc : anuncios[e] <= arranque
  /\ lista = [e \in Enc |-> lista[e]]
  /\ vivo /\ pc[Coord] = "inicio" => \A e \in Enc : pc[e] = "parada"

Propia(e) ==
  /\ pc[e] \in Despues \cup Lanzado =>
       /\ \A t \in disco[Nombre[e]].contenido : TextoPropio(e, t)
       /\ "escribir" \notin fallo[e] => disco[Nombre[e]].contenido = {Texto(e)}
  /\ pc[e] \in {"crear", "escribir"} \cup Despues \cup Lanzado /\ "borrar" \notin fallo[e] =>
       \A r \in disco[Nombre[e]].pistas : r.autor = e /\ r.arranque = arranque
  /\ pc[e] = "escribir" => /\ e \in disco[Nombre[e]].abierta
                           /\ disco[Nombre[e]].contenido = {}
  /\ anuncios[e] = arranque => pc[e] \in Lanzado

DiscoInv ==
  /\ FormaDisco
  /\ NombresDistintos /\ vivo => \A e \in Enc : Propia(e)

(* What the others do leaves an encoding its directory. *)
LEMMA PropiaFija ==
  ASSUME NEW e \in Enc, Propia(e), pc'[e] = pc[e], lista'[e] = lista[e],
         anuncios'[e] = anuncios[e], arranque' = arranque,
         disco'[Nombre[e]] = disco[Nombre[e]], fallo'[e] = fallo[e]
  PROVE  Propia(e)'
BY DEF Propia, Texto, Trozo, TextoPropio

(* A step that touches neither the directories nor the playlists. *)
LEMMA DiscoQuieto ==
  ASSUME DiscoInv, UNCHANGED <<arranque, pc, lista, disco, fallo, anuncios>>,
         vivo' => vivo
  PROVE  DiscoInv'
<1>1. FormaDisco'
  BY DEF DiscoInv, FormaDisco, PcFuncion
<1>2. NombresDistintos /\ vivo' => \A e \in Enc : Propia(e)'
  BY PropiaFija DEF DiscoInv
<1> QED
  BY <1>1, <1>2 DEF DiscoInv, NombresDistintos

(***************************************************************************)
(* A step of one goroutine that leaves the disk alone, moving among the    *)
(* labels before "crear", or on from "escribir" without a URL.             *)
(***************************************************************************)
LEMMA DiscoMueve ==
  ASSUME DiscoInv, vivo, NEW x \in Proc, NEW l,
         pc' = [pc EXCEPT ![x] = l], l # "inicio", pc[x] \notin {"parada", "inicio"},
         UNCHANGED <<estado, arranque, disco, fallo, anuncios>>,
         \/ UNCHANGED lista
         \/ \E A : lista' = [lista EXCEPT ![x] = A] /\ l \notin Despues \cup Lanzado,
         \/ /\ l \notin {"crear", "escribir"} \cup Despues \cup Lanzado
            /\ pc[x] \notin Lanzado
         \/ /\ pc[x] \in Despues \cup Lanzado
            /\ l \in Despues \cup Lanzado
            /\ pc[x] \in Lanzado => l \in Lanzado
  PROVE  DiscoInv'
<1>0. Enc \subseteq Proc /\ Coord \in Proc /\ Coord \notin Enc
  BY EncAssumption DEF Proc
<1>1. /\ PcFuncion' /\ pc'[x] = l /\ \A y \in Proc : y # x => pc'[y] = pc[y]
      /\ lista' = [e \in Enc |-> lista'[e]]
      /\ \A e \in Enc : e # x => lista'[e] = lista[e]
  BY DEF DiscoInv, FormaDisco, PcFuncion
<1>2. FormaDisco'
  <2>1. /\ disco' = [d \in Dirs |-> disco'[d]]
        /\ fallo' \in [Enc -> SUBSET {"borrar", "escribir", "pista"}]
        /\ arranque' \in Nat /\ anuncios' \in [Enc -> Nat]
        /\ \A e \in Enc : anuncios'[e] <= arranque'
    BY DEF DiscoInv, FormaDisco
  <2>2. vivo' /\ pc'[Coord] = "inicio" => \A e \in Enc : pc'[e] = "parada"
    BY <1>0, <1>1 DEF DiscoInv, FormaDisco
  <2> QED
    BY <1>1, <2>1, <2>2 DEF FormaDisco
<1>3. ASSUME NombresDistintos, NEW e \in Enc PROVE Propia(e)'
  <2>1. Propia(e)
    BY <1>3 DEF DiscoInv
  <2>2. CASE e # x
    BY <1>0, <1>1, <2>1, <2>2, PropiaFija
  <2>3. CASE e = x
    <3>1. CASE /\ l \notin {"crear", "escribir"} \cup Despues \cup Lanzado
               /\ pc[x] \notin Lanzado
      BY <1>1, <2>1, <2>3, <3>1 DEF Propia
    <3>2. CASE /\ pc[x] \in Despues \cup Lanzado
               /\ l \in Despues \cup Lanzado
               /\ pc[x] \in Lanzado => l \in Lanzado
      <4>1. l # "escribir" /\ lista' = lista
        BY <3>2 DEF Despues, Lanzado
      <4> QED
        BY <1>1, <2>1, <2>3, <3>2, <4>1 DEF Propia, Texto, Trozo, TextoPropio
    <3> QED
      BY <3>1, <3>2
  <2> QED
    BY <2>2, <2>3
<1> QED
  BY <1>2, <1>3 DEF DiscoInv, NombresDistintos

(* A step of an encoding that works on its own directory. *)
LEMMA DiscoTrabaja ==
  ASSUME DiscoInv, vivo, NEW e \in Enc, NEW l, NEW D,
         pc' = [pc EXCEPT ![e] = l], l # "inicio", pc[e] \notin {"parada", "inicio"},
         UNCHANGED <<estado, arranque, lista>>,
         disco' = [disco EXCEPT ![Nombre[e]] = D],
         \/ UNCHANGED fallo
         \/ \E op \in {"borrar", "escribir", "pista"} :
              fallo' = [fallo EXCEPT ![e] = @ \cup {op}],
         UNCHANGED anuncios \/ anuncios' = [anuncios EXCEPT ![e] = arranque],
         NombresDistintos /\ Propia(e) => Propia(e)'
  PROVE  DiscoInv'
<1>0. /\ Enc \subseteq Proc /\ Coord \in Proc /\ Coord \notin Enc
      /\ \A f \in Enc : Nombre[f] \in Dirs
  BY EncAssumption DEF Proc, Dirs
<1>1. /\ PcFuncion' /\ \A y \in Proc : y # e => pc'[y] = pc[y]
      /\ pc'[e] = l
  BY <1>0 DEF DiscoInv, FormaDisco, PcFuncion
<1>2. /\ disco' = [d \in Dirs |-> disco'[d]]
      /\ \A d \in Dirs : d # Nombre[e] => disco'[d] = disco[d]
      /\ disco'[Nombre[e]] = D
  BY <1>0 DEF DiscoInv, FormaDisco
<1>4. /\ arranque' \in Nat /\ anuncios' \in [Enc -> Nat]
      /\ \A f \in Enc : anuncios'[f] <= arranque'
      /\ \A f \in Enc : f # e => anuncios'[f] = anuncios[f]
  BY DEF DiscoInv, FormaDisco
<1>5. vivo' /\ pc'[Coord] = "inicio" => \A f \in Enc : pc'[f] = "parada"
  BY <1>0, <1>1 DEF DiscoInv, FormaDisco
<1>9. /\ fallo' \in [Enc -> SUBSET {"borrar", "escribir", "pista"}]
      /\ \A f \in Enc : f # e => fallo'[f] = fallo[f]
  BY DEF DiscoInv, FormaDisco
<1>6. lista' = [f \in Enc |-> lista'[f]]
  BY DEF DiscoInv, FormaDisco
<1>7. FormaDisco'
  BY <1>1, <1>2, <1>4, <1>5, <1>6, <1>9 DEF FormaDisco
<1>8. ASSUME NombresDistintos, NEW f \in Enc PROVE Propia(f)'
  <2>1. Propia(f)
    BY <1>8 DEF DiscoInv
  <2>2. CASE f # e
    <3>1. Nombre[f] # Nombre[e]
      BY <1>8, <2>2 DEF NombresDistintos
    <3>2. disco'[Nombre[f]] = disco[Nombre[f]] /\ pc'[f] = pc[f]
          /\ anuncios'[f] = anuncios[f]
      BY <1>0, <1>1, <1>2, <1>4, <2>2, <3>1
    <3> QED
      BY <1>9, <2>1, <2>2, <3>2, PropiaFija
  <2>3. CASE f = e
    BY <1>8, <2>1, <2>3
  <2> QED
    BY <2>2, <2>3
<1> QED
  BY <1>7, <1>8 DEF DiscoInv, NombresDistintos

(* The directories in the steps of an encoding. *)
LEMMA CodificacionDisco ==
  ASSUME DiscoInv, NEW e \in Enc, inicializarFfmpegEncoding(e)
  PROVE  DiscoInv'
<1>0. /\ e \in Proc /\ vivo /\ pc[e] \notin {"parada", "inicio"} /\ pc[e] \notin Lanzado
      /\ pc = [x \in Proc |-> pc[x]] /\ disco = [d \in Dirs |-> disco[d]]
      /\ Nombre[e] \in Dirs
      /\ anuncios \in [Enc -> Nat] /\ fallo = [f \in Enc |-> fallo[f]]
  BY FormaCodificacion DEF Proc, Trabajo, Despues, Lanzado, DiscoInv, FormaDisco,
     PcFuncion, Dirs
<1>D. CASE Cae
  <2>1. UNCHANGED <<arranque, pc, lista, disco, fallo, anuncios>> /\ ~vivo'
    BY <1>0, <1>D, FormaCodificacion DEF Cae, Muere, vivo
  <2> QED
    BY <2>1, DiscoQuieto
<1>M. ASSUME NEW l, pc' = [pc EXCEPT ![e] = l], UNCHANGED <<estado, arranque>>,
             UNCHANGED <<disco, fallo, anuncios>>,
             \/ UNCHANGED lista
             \/ \E A : lista' = [lista EXCEPT ![e] = A] /\ l \notin Despues \cup Lanzado,
             \/ l \in {"videoMap", "teletexto", "listaAudio", "listaSubs", "borrar"}
             \/ pc[e] \in Despues /\ l \in Despues \cup {"ffmpeg"}
      PROVE  DiscoInv'
  <2>1. /\ l # "inicio"
        /\ \/ l \notin {"crear", "escribir"} \cup Despues \cup Lanzado
           \/ pc[e] \in Despues \cup Lanzado /\ l \in Despues \cup Lanzado
    BY <1>M DEF Despues, Lanzado
  <2> QED
    BY <1>0, <1>M, <2>1, DiscoMueve
<1>1. CASE LeerLenSubtitles(e)
  <2>1. pc' = [pc EXCEPT ![e] = "videoMap"] /\ UNCHANGED <<estado, arranque>>
    BY <1>1, Zenon DEF LeerLenSubtitles, Sigue, Ir, proceso
  <2>2. UNCHANGED lista /\ UNCHANGED <<disco, fallo, anuncios>>
    BY <1>1, Zenon DEF LeerLenSubtitles, archivos
  <2> QED
    BY <1>M, <2>1, <2>2
<1>2. CASE LeerParaCmd(e, "videoMap", "video", "teletexto")
  <2>1. /\ pc' = [pc EXCEPT ![e] = "teletexto"] /\ UNCHANGED <<estado, arranque>>
        /\ UNCHANGED lista /\ UNCHANGED <<disco, fallo, anuncios>>
    BY <1>2, Lecturas DEF Fijas
  <2> QED
    BY <1>M, <2>1
<1>3. CASE LeerTeletexto(e)
  <2>0. Cae \/ Sigue(e, "listaAudio")
    BY <1>3 DEF LeerTeletexto, Cae, Muere
  <2>1. CASE Cae
    BY <1>D, <2>1
  <2>2. CASE Sigue(e, "listaAudio")
    <3>1. pc' = [pc EXCEPT ![e] = "listaAudio"] /\ UNCHANGED <<estado, arranque>>
      BY <2>2 DEF Sigue, Ir, proceso
    <3>2. UNCHANGED lista /\ UNCHANGED <<disco, fallo, anuncios>>
      BY <1>3, Zenon DEF LeerTeletexto, archivos
    <3> QED
      BY <1>M, <3>1, <3>2
  <2> QED
    BY <2>0, <2>1, <2>2
<1>4. CASE CopiarParaLista(e, "listaAudio", "audio", "listaSubs")
  <2>1. /\ pc' = [pc EXCEPT ![e] = "listaSubs"] /\ UNCHANGED <<estado, arranque>>
        /\ UNCHANGED <<disco, fallo, anuncios>>
    BY <1>4, Zenon DEF CopiarParaLista, Sigue, Ir, proceso, archivos
  <2>2. \E A : lista' = [lista EXCEPT ![e] = A] /\ "listaSubs" \notin Despues \cup Lanzado
    BY <1>4 DEF CopiarParaLista, Despues, Lanzado
  <2> QED
    BY <1>M, <2>1, <2>2
<1>5. CASE CopiarParaLista(e, "listaSubs", "subs", "borrar")
  <2>1. /\ pc' = [pc EXCEPT ![e] = "borrar"] /\ UNCHANGED <<estado, arranque>>
        /\ UNCHANGED <<disco, fallo, anuncios>>
    BY <1>5, Zenon DEF CopiarParaLista, Sigue, Ir, proceso, archivos
  <2>2. \E A : lista' = [lista EXCEPT ![e] = A] /\ "borrar" \notin Despues \cup Lanzado
    BY <1>5 DEF CopiarParaLista, Despues, Lanzado
  <2> QED
    BY <1>M, <2>1, <2>2
<1>6. CASE BorrarDirectorio(e)
  <2>1. /\ pc' = [pc EXCEPT ![e] = "crear"]
        /\ UNCHANGED <<estado, arranque>> /\ UNCHANGED <<lista, anuncios>>
    BY <1>6, Zenon DEF BorrarDirectorio, Sigue, Ir, proceso, locales
  <2>2. CASE disco' = [disco EXCEPT ![Nombre[e]] = DirVacio] /\ UNCHANGED fallo
    <3>1. Propia(e) => Propia(e)'
      BY <1>0, <2>1, <2>2 DEF Propia, DirVacio, Dir, Despues, Lanzado
    <3> QED
      BY <1>0, <2>1, <2>2, <3>1, DiscoTrabaja
  <2>3. CASE /\ fallo' = [fallo EXCEPT ![e] = @ \cup {"borrar"}]
             /\ \E r \in Restos(Nombre[e]) : disco' = [disco EXCEPT ![Nombre[e]] = r]
    <3>1. PICK r \in Restos(Nombre[e]) : disco' = [disco EXCEPT ![Nombre[e]] = r]
      BY <2>3
    <3>2. "borrar" \in fallo'[e]
      BY <1>0, <2>3
    <3>3. Propia(e) => Propia(e)'
      BY <1>0, <2>1, <3>2 DEF Propia, Despues, Lanzado
    <3> QED
      BY <1>0, <2>1, <2>3, <3>1, <3>3, DiscoTrabaja
  <2> QED
    BY <1>6, <2>2, <2>3 DEF BorrarDirectorio, Borrado, Falla
<1>7. CASE CrearLista(e)
  <2> DEFINE D == Dir(disco[Nombre[e]].abierta \cup {e}, {}, disco[Nombre[e]].pistas)
  <2>1. CASE Cae
    BY <1>D, <2>1
  <2>2. CASE ~Cae
    <3>1. /\ pc[e] = "crear" /\ pc' = [pc EXCEPT ![e] = "escribir"]
          /\ UNCHANGED <<estado, arranque, lista, fallo, anuncios>>
          /\ disco' = [disco EXCEPT ![Nombre[e]] = D]
      BY <1>7, <2>2 DEF CrearLista, Cae, Muere, En, Sigue, Ir, proceso, locales
    <3>2. e \in D.abierta /\ D.contenido = {} /\ D.pistas = disco[Nombre[e]].pistas
      BY DEF Dir
    <3> HIDE DEF D
    <3>4. Propia(e) => Propia(e)'
      BY <1>0, <3>1, <3>2 DEF Propia, Despues, Lanzado
    <3> QED
      BY <1>0, <3>1, <3>4, DiscoTrabaja
  <2> QED
    BY <2>1, <2>2
<1>8. CASE EscribirLista(e)
  <2> DEFINE antes == disco[Nombre[e]].contenido
  <2>1. PICK l \in {"argsDvb", "argsAudio"} :
          /\ pc[e] = "escribir" /\ pc' = [pc EXCEPT ![e] = l]
          /\ UNCHANGED <<estado, arranque>> /\ UNCHANGED <<lista, anuncios>>
    BY <1>8 DEF EscribirLista, En, Sigue, Ir, proceso, locales
  <2>L. l \in Despues
    BY DEF Despues
  <2>2. \/ /\ \E resto \in {{}, antes} : disco' = Escrita(e, resto \cup {Texto(e)})
           /\ UNCHANGED fallo
        \/ /\ \E ps \in SUBSET lista[e] : disco' = Escrita(e, antes \cup {Trozo(e, ps)})
           /\ fallo' = [fallo EXCEPT ![e] = @ \cup {"escribir"}]
    BY <1>8, Zenon DEF EscribirLista, Falla
  <2>3. PICK c : /\ disco' = Escrita(e, c)
                 /\ \/ c \in {{Texto(e)}, antes \cup {Texto(e)}} /\ UNCHANGED fallo
                    \/ /\ \E ps \in SUBSET lista[e] : c = antes \cup {Trozo(e, ps)}
                       /\ fallo' = [fallo EXCEPT ![e] = @ \cup {"escribir"}]
    <3>1. CASE /\ \E resto \in {{}, antes} : disco' = Escrita(e, resto \cup {Texto(e)})
               /\ UNCHANGED fallo
      <4>1. PICK resto \in {{}, antes} : disco' = Escrita(e, resto \cup {Texto(e)})
        BY <3>1
      <4>2. resto \cup {Texto(e)} \in {{Texto(e)}, antes \cup {Texto(e)}}
        OBVIOUS
      <4> QED
        BY <3>1, <4>1, <4>2
    <3>2. CASE /\ \E ps \in SUBSET lista[e] : disco' = Escrita(e, antes \cup {Trozo(e, ps)})
               /\ fallo' = [fallo EXCEPT ![e] = @ \cup {"escribir"}]
      <4>1. PICK ps \in SUBSET lista[e] : disco' = Escrita(e, antes \cup {Trozo(e, ps)})
        BY <3>2
      <4> QED
        BY <3>2, <4>1
    <3> QED
      BY <2>2, <3>1, <3>2
  <2> DEFINE D == Dir(disco[Nombre[e]].abierta \ {e}, c, disco[Nombre[e]].pistas)
             E == IF e \in disco[Nombre[e]].abierta THEN D ELSE disco[Nombre[e]]
  <2>4. disco' = [disco EXCEPT ![Nombre[e]] = E]
    BY <1>0, <2>3 DEF Escrita
  <2>5. Texto(e)' = Texto(e)
    BY <2>1 DEF Texto, Trozo
  <2>6. ASSUME Propia(e) PROVE Propia(e)'
    <3>1. e \in disco[Nombre[e]].abierta /\ antes = {}
      BY <2>1, <2>6 DEF Propia
    <3>2. E.contenido = c /\ E.pistas = disco[Nombre[e]].pistas
      BY <3>1 DEF Dir
    <3> HIDE DEF E
    <3>3. disco'[Nombre[e]] = E /\ pc'[e] = l
      BY <1>0, <2>1, <2>4
    <3>4. TextoPropio(e, Texto(e))
      BY DEF TextoPropio, Texto, Trozo
    <3>5. anuncios[e] # arranque
      BY <1>0, <2>6 DEF Propia
    <3>6. /\ \A t \in c : TextoPropio(e, t)
          /\ "escribir" \notin fallo'[e] => c = {Texto(e)}
          /\ "borrar" \notin fallo'[e] => "borrar" \notin fallo[e]
      <4>1. CASE c \in {{Texto(e)}, antes \cup {Texto(e)}} /\ UNCHANGED fallo
        BY <3>1, <3>4, <4>1
      <4>2. CASE /\ \E ps \in SUBSET lista[e] : c = antes \cup {Trozo(e, ps)}
                 /\ fallo' = [fallo EXCEPT ![e] = @ \cup {"escribir"}]
        <5>1. PICK ps \in SUBSET lista[e] : c = {Trozo(e, ps)}
          BY <3>1, <4>2
        <5>2. TextoPropio(e, Trozo(e, ps))
          BY DEF TextoPropio, Trozo
        <5>3. fallo'[e] = fallo[e] \cup {"escribir"}
          BY <1>0, <4>2
        <5> QED
          BY <5>1, <5>2, <5>3
      <4> QED
        BY <2>3, <4>1, <4>2
    <3>7. \A t : TextoPropio(e, t)' <=> TextoPropio(e, t)
      BY <2>1 DEF TextoPropio
    <3>8. "borrar" \notin fallo'[e] =>
            \A r \in disco[Nombre[e]].pistas : r.autor = e /\ r.arranque = arranque
      BY <2>1, <2>6, <3>6 DEF Propia
    <3>9. l # "escribir"
      OBVIOUS
    <3> QED
      BY <2>1, <2>5, <3>2, <3>3, <3>5, <3>6, <3>7, <3>8, <3>9 DEF Propia
  <2> HIDE DEF E
  <2> QED
    BY <1>0, <2>1, <2>3, <2>4, <2>6, DiscoTrabaja
<1>9. ASSUME NEW l \in Despues, NEW m \in Despues, NEW c \in Campos, LeerParaCmd(e, l, c, m)
      PROVE  DiscoInv'
  <2>1. /\ pc[e] = l /\ pc' = [pc EXCEPT ![e] = m] /\ UNCHANGED <<estado, arranque>>
        /\ UNCHANGED lista /\ UNCHANGED <<disco, fallo, anuncios>>
    BY <1>9, Lecturas DEF Fijas
  <2> QED
    BY <1>M, <2>1
<1>10. ASSUME NEW l \in Despues, NEW m \in Despues, NEW c \in Campos, ArgsPistas(e, l, c, m)
       PROVE  DiscoInv'
  <2>1. /\ pc[e] = l /\ pc' = [pc EXCEPT ![e] = m] /\ UNCHANGED <<estado, arranque>>
        /\ UNCHANGED <<lista, anuncios>>
    BY <1>10, Pistas DEF Fijas
  <2>2. CASE UNCHANGED <<disco, fallo>>
    BY <1>M, <2>1, <2>2
  <2>3. ASSUME NEW ps, disco' = ConPistas(e, ps),
               \A r \in ps : r \in disco[Nombre[e]].pistas \/ r = Pista(e, c),
               UNCHANGED fallo \/ fallo' = [fallo EXCEPT ![e] = @ \cup {"pista"}]
        PROVE  DiscoInv'
    <3> DEFINE D == Dir(disco[Nombre[e]].abierta, disco[Nombre[e]].contenido, ps)
    <3>1. disco' = [disco EXCEPT ![Nombre[e]] = D]
      BY <2>3 DEF ConPistas
    <3>2. /\ "borrar" \notin fallo'[e] => "borrar" \notin fallo[e]
          /\ "escribir" \notin fallo'[e] => "escribir" \notin fallo[e]
      BY <1>0, <2>3
    <3>3. ASSUME Propia(e) PROVE Propia(e)'
      <4>1. Texto(e)' = Texto(e) /\ \A t : TextoPropio(e, t)' <=> TextoPropio(e, t)
        BY <2>1 DEF Texto, Trozo, TextoPropio
      <4>2. D.contenido = disco[Nombre[e]].contenido /\ D.pistas = ps
        BY DEF Dir
      <4> HIDE DEF D
      <4>3. disco'[Nombre[e]] = D /\ pc'[e] = m /\ m # "escribir"
        BY <1>0, <2>1, <3>1 DEF Despues
      <4>4. anuncios[e] # arranque
        BY <1>0, <3>3 DEF Propia
      <4>5. Pista(e, c).autor = e /\ Pista(e, c).arranque = arranque
        BY DEF Pista
      <4>6. "borrar" \notin fallo'[e] =>
              \A r \in ps : r.autor = e /\ r.arranque = arranque
        BY <2>1, <2>3, <3>2, <3>3, <4>5 DEF Propia
      <4>7. /\ \A t \in disco[Nombre[e]].contenido : TextoPropio(e, t)
            /\ "escribir" \notin fallo'[e] => disco[Nombre[e]].contenido = {Texto(e)}
        BY <2>1, <3>2, <3>3 DEF Propia
      <4> QED
        BY <2>1, <4>1, <4>2, <4>3, <4>4, <4>6, <4>7 DEF Propia
    <3>4. m # "inicio"
      BY DEF Despues
    <3> HIDE DEF D
    <3> QED
      BY <1>0, <2>1, <2>3, <3>1, <3>3, <3>4, DiscoTrabaja
  <2>4. CASE disco' = ConPistas(e, PistasCreadas(e, c)) /\ UNCHANGED fallo
    <3>1. \A r \in PistasCreadas(e, c) : r \in disco[Nombre[e]].pistas \/ r = Pista(e, c)
      BY DEF PistasCreadas, SinPistas
    <3> QED
      BY <2>3, <2>4, <3>1
  <2>5. CASE /\ \E ps \in SUBSET disco[Nombre[e]].pistas : disco' = ConPistas(e, ps)
             /\ fallo' = [fallo EXCEPT ![e] = @ \cup {"pista"}]
    BY <2>3, <2>5
  <2> QED
    BY <1>10, <2>2, <2>4, <2>5, Pistas
<1>11. CASE Revienta(e)
  <2>1. Cae
    BY <1>11 DEF Revienta, Cae, Muere
  <2> QED
    BY <1>D, <2>1
<1>13. CASE Anunciar(e)
  <2>1. CASE Cae
    BY <1>D, <2>1
  <2>2. CASE ~Cae
    <3>1. /\ pc[e] = "anunciar" /\ pc' = [pc EXCEPT ![e] = "ffmpeg"]
          /\ UNCHANGED <<estado, arranque>> /\ UNCHANGED <<lista, disco, fallo>>
      BY <1>13, <2>2 DEF Anunciar, Cae, Muere, En, Sigue, Ir, proceso, locales, archivos
    <3>2. UNCHANGED anuncios \/ anuncios' = [anuncios EXCEPT ![e] = arranque]
      BY <1>13 DEF Anunciar
    <3>3. disco' = [disco EXCEPT ![Nombre[e]] = disco[Nombre[e]]]
      BY <1>0, <3>1
    <3>4. Propia(e) => Propia(e)'
      BY <1>0, <3>1, <3>2 DEF Propia, Texto, Trozo, TextoPropio, Despues, Lanzado
    <3> QED
      BY <1>0, <3>1, <3>2, <3>3, <3>4, DiscoTrabaja
  <2> QED
    BY <2>1, <2>2
<1> QED
  BY <1>1, <1>2, <1>3, <1>4, <1>5, <1>6, <1>7, <1>8, <1>9, <1>10, <1>11, <1>13, Clases

LEMMA PasoDisco ==
  ASSUME DiscoInv, [Next]_vars PROVE DiscoInv'
<1>0. Enc \subseteq Proc /\ Coord \in Proc /\ Coord \notin Enc
  BY EncAssumption DEF Proc
<1>1. CASE Inicializar
  <2>1. /\ vivo /\ pc[Coord] = "inicio"
        /\ UNCHANGED <<estado, arranque>> /\ UNCHANGED <<lista, disco, fallo, anuncios>>
    BY <1>1, Zenon DEF Inicializar, En, proceso, locales, archivos
  <2>2. \A e \in Enc : pc[e] = "parada"
    BY <2>1 DEF DiscoInv, FormaDisco
  <2>3. /\ PcFuncion' /\ pc'[Coord] # "inicio"
        /\ \A e \in Enc : pc'[e] \in {"parada", "sonda"}
    <3>1. CASE configuration.Test
      BY <1>0, <1>1, <2>2, <3>1 DEF Inicializar, DiscoInv, FormaDisco, PcFuncion
    <3>2. CASE ~configuration.Test
      BY <1>0, <1>1, <3>2 DEF Inicializar, PcFuncion
    <3> QED
      BY <3>1, <3>2
  <2>4. FormaDisco'
    BY <2>1, <2>3 DEF DiscoInv, FormaDisco
  <2>5. ASSUME NombresDistintos, NEW e \in Enc PROVE Propia(e)'
    BY <2>1, <2>2, <2>3, <2>5 DEF DiscoInv, Propia, Despues, Lanzado
  <2> QED
    BY <2>4, <2>5 DEF DiscoInv, NombresDistintos
<1>2. CASE FinCodificaciones \/ FinServidor \/ Caida
  <2>1. UNCHANGED <<arranque, pc, lista, disco, fallo, anuncios>> /\ ~vivo'
    BY <1>2 DEF FinCodificaciones, FinServidor, Caida, Mensaje, vivo, locales, archivos
  <2> QED
    BY <2>1, DiscoQuieto
<1>3. CASE ArrancarServidor \/ CaerServidor
  <2>1. UNCHANGED <<arranque, pc, lista, disco, fallo, anuncios>> /\ vivo' = vivo
    BY <1>3 DEF ArrancarServidor, CaerServidor, vivo, proceso, locales, archivos
  <2> QED
    BY <2>1, DiscoQuieto
<1>4. ASSUME NEW x \in Proc, obtenerStreamsPost(x) PROVE DiscoInv'
  <2>1. /\ vivo /\ pc[x] \in Sondeo
        /\ UNCHANGED <<recibidos, lista, disco, fallo, anuncios>>
        /\ \/ Cae
           \/ /\ UNCHANGED <<configuration, estado, salida, arranque>>
              /\ \E l \in Sondeo \cup {"lenSubtitles", "mensaje"} :
                   pc' = [pc EXCEPT ![x] = l]
    BY <1>4, FormaSonda DEF DiscoInv, FormaDisco
  <2>2. CASE Cae
    BY <2>1, <2>2, DiscoQuieto DEF Cae, Muere, vivo
  <2>3. CASE /\ UNCHANGED <<configuration, estado, salida, arranque>>
             /\ \E l \in Sondeo \cup {"lenSubtitles", "mensaje"} :
                  pc' = [pc EXCEPT ![x] = l]
    <3>1. PICK l \in Sondeo \cup {"lenSubtitles", "mensaje"} :
            pc' = [pc EXCEPT ![x] = l]
      BY <2>3
    <3>2. /\ l # "inicio" /\ l \notin {"crear", "escribir"} \cup Despues \cup Lanzado
          /\ pc[x] \notin {"parada", "inicio"} /\ pc[x] \notin Lanzado
      BY <2>1 DEF Sondeo, Despues, Lanzado
    <3> QED
      BY <2>1, <2>3, <3>1, <3>2, DiscoMueve
  <2> QED
    BY <2>1, <2>2, <2>3
<1>5. CASE \E e \in Enc : inicializarFfmpegEncoding(e)
  BY <1>5, CodificacionDisco
<1>6. ASSUME NEW e \in Enc, NEW l \in {"resultado", "enviado"}, vivo,
             pc[e] \in {"ffmpeg", "resultado"}, Sigue(e, l),
             UNCHANGED <<locales, archivos, anuncios>>
      PROVE  DiscoInv'
  <2>1. /\ pc' = [pc EXCEPT ![e] = l]
        /\ UNCHANGED <<estado, arranque, disco, fallo, anuncios>> /\ UNCHANGED lista
    BY <1>6 DEF Sigue, Ir, proceso, locales, archivos
  <2>2. /\ l # "inicio" /\ pc[e] \notin {"parada", "inicio"}
        /\ pc[e] \in Despues \cup Lanzado /\ l \in Despues \cup Lanzado /\ l \in Lanzado
    BY <1>6 DEF Lanzado
  <2> QED
    BY <1>0, <1>6, <2>1, <2>2, DiscoMueve
<1>7. CASE \E e \in Enc : FinFfmpeg(e)
  BY <1>6, <1>7 DEF FinFfmpeg, En
<1>8. CASE \E e \in Enc : Entregar(e)
  BY <1>6, <1>8 DEF Entregar, En
<1>9. CASE Reiniciar
  <2>1. /\ pc' = PcInicial /\ arranque' = arranque + 1 /\ UNCHANGED anuncios
        /\ lista' = [e \in Enc |-> {}] /\ fallo' = [e \in Enc |-> {}]
        /\ disco' = [d \in Dirs |-> Dir({}, disco[d].contenido, disco[d].pistas)]
    BY <1>9 DEF Reiniciar
  <2>2. /\ PcFuncion' /\ \A e \in Enc : pc'[e] = "parada"
    BY <1>0, <2>1 DEF PcInicial, PcFuncion
  <2>3. disco' = [d \in Dirs |-> disco'[d]] /\ lista' = [e \in Enc |-> lista'[e]]
    BY <2>1
  <2>4. /\ arranque' \in Nat
        /\ \A e \in Enc : anuncios'[e] <= arranque' /\ anuncios'[e] # arranque'
    BY <2>1 DEF DiscoInv, FormaDisco
  <2>5. FormaDisco'
    BY <2>1, <2>2, <2>3, <2>4 DEF DiscoInv, FormaDisco
  <2>6. \A e \in Enc : Propia(e)'
    BY <2>2, <2>4 DEF Propia, Despues, Lanzado
  <2> QED
    BY <2>5, <2>6 DEF DiscoInv
<1>10. CASE Detenido \/ UNCHANGED vars
  BY <1>10, DiscoQuieto DEF Detenido, vars, proceso, locales, archivos, vivo
<1> QED
  BY <1>1, <1>2, <1>3, <1>4, <1>5, <1>7, <1>8, <1>9, <1>10 DEF Next

LEMMA InicioDisco == Init => DiscoInv
<1> SUFFICES ASSUME Init PROVE DiscoInv
  OBVIOUS
<1>1. PcFuncion /\ \A e \in Enc : pc[e] = "parada"
  BY EncAssumption DEF Init, PcInicial, PcFuncion, Proc
<1>4. /\ disco = [d \in Dirs |-> DirVacio] /\ lista = [e \in Enc |-> {}]
      /\ fallo = [e \in Enc |-> {}] /\ arranque = 1 /\ anuncios = [e \in Enc |-> 0]
  BY DEF Init
<1>2. FormaDisco
  BY <1>1, <1>4 DEF FormaDisco
<1>3. \A e \in Enc : Propia(e)
  BY <1>1, <1>4 DEF Propia, Despues, Lanzado
<1> QED
  BY <1>2, <1>3 DEF DiscoInv

(***************************************************************************)
(* Encodings whose names differ keep their output apart, through any       *)
(* number of crashes and restarts: a playlist that was written, or whose   *)
(* URL was posted in this start, is whole and of this start.               *)
(***************************************************************************)
THEOREM SalidasSeparadas == Spec => []ListaIntacta
<1>1. Init => DiscoInv
  BY InicioDisco
<1>2. DiscoInv /\ [Next]_vars => DiscoInv'
  BY PasoDisco
<1>3. DiscoInv => ListaIntacta
  BY DEF DiscoInv, ListaIntacta, SalidaPropia, Propia
<1> QED
  BY <1>1, <1>2, <1>3, PTL DEF Spec

-----------------------------------------------------------------------------
(***************************************************************************)
(* What an encoding remembers.  Vigente says it without mentioning         *)
(* programa, which the others keep rewriting: what the encoding found out  *)
(* about the subtitles is true of any program that can be selected.        *)
(* Producida is the progress of the command: the tracks of each kind are   *)
(* in it, with their directories, from the step that adds them on.         *)
(***************************************************************************)
Vigente(e) ==
  \A p \in Elegibles :
    /\ pc[e] \in {"videoMap", "teletexto"} => lenSubtitles[e] = (p.subs # "no")
    /\ pc[e] \in {"listaAudio", "listaSubs", "borrar", "crear", "escribir"}
                  \cup Despues =>
         teletextSubtitles[e] = (p.subs = "teletext")

Suya(e, u) == [autor |-> e, arranque |-> arranque, pista |-> u]

Hecha(e, u) ==
  /\ u \in cmd[e]
  /\ ConDirectorio(u) /\ "pista" \notin fallo[e] => Suya(e, u) \in disco[Nombre[e]].pistas

Teletexto == {"argsSubs", "argsSubsAudio", "argsSubsVideo"}

Producida(e) ==
  /\ lista[e] \subseteq {"audio", "subs"} \X Elegibles
  /\ pc[e] \in Teletexto => teletextSubtitles[e]
  /\ pc[e] \in Teletexto \cup {"argsAudioVideo", "anunciar", "ffmpeg"} =>
       \A p \in Elegibles : Hecha(e, <<"audio", p>>)
  /\ \/ pc[e] \in {"argsSubsAudio", "argsSubsVideo", "anunciar", "ffmpeg"}
     \/ pc[e] \in {"argsAudio", "argsAudioVideo"} /\ ~teletextSubtitles[e]
     => \A p \in Elegibles : Hecha(e, <<"subs", p>>)

TipoLocal ==
  /\ lenSubtitles \in [Enc -> BOOLEAN]
  /\ teletextSubtitles \in [Enc -> BOOLEAN]

LocalInv ==
  /\ TipoLocal
  /\ EntradaEstable => \A e \in Enc : Vigente(e)
  /\ EntradaEstable /\ NombresDistintos => \A e \in Enc : Producida(e)

MemoriaInv == CompartidoInv /\ DiscoInv /\ LocalInv

(* With a stable input, whatever an encoding reads of programa after its   *)
(* probe is the one program that can be selected.                          *)
LEMMA LecturaUnica ==
  ASSUME CompartidoInv, EntradaEstable, NEW e \in Enc, pc[e] \in Leen,
         NEW c \in Campos, NEW p \in Elegibles
  PROVE  programa[c] = p
<1>1. programa[c] \in Elegibles
  BY DEF CompartidoInv, TipoCompartido, Llenos, Campos, Proc
<1> QED
  BY <1>1 DEF EntradaEstable, Elegibles

LEMMA EstableFija ==
  ASSUME UNCHANGED configuration PROVE EntradaEstable' = EntradaEstable
BY DEF EntradaEstable, Elegible

(* A step of the others. *)
LEMMA VigenteFija ==
  ASSUME NEW e \in Enc, Vigente(e), UNCHANGED configuration, pc'[e] = pc[e],
         lenSubtitles'[e] = lenSubtitles[e],
         teletextSubtitles'[e] = teletextSubtitles[e]
  PROVE  Vigente(e)'
BY ElegiblesFijos DEF Vigente

LEMMA ProducidaFija ==
  ASSUME NEW e \in Enc, Producida(e), UNCHANGED <<configuration, arranque>>,
         pc'[e] = pc[e], teletextSubtitles'[e] = teletextSubtitles[e],
         lista'[e] = lista[e], cmd'[e] = cmd[e], fallo'[e] = fallo[e],
         disco'[Nombre[e]] = disco[Nombre[e]]
  PROVE  Producida(e)'
<1>1. Elegibles' = Elegibles
  BY ElegiblesFijos
<1>2. \A u : Hecha(e, u)' <=> Hecha(e, u)
  BY DEF Hecha, Suya, ConDirectorio
<1> QED
  BY <1>1, <1>2 DEF Producida

(* A step that moves no encoding, or one among labels nothing is said of.  *)
LEMMA LocalQuieto ==
  ASSUME LocalInv, UNCHANGED <<configuration, arranque>>,
         UNCHANGED <<lenSubtitles, teletextSubtitles, lista, cmd, disco, fallo>>,
         \A e \in Enc : \/ pc'[e] = pc[e]
                        \/ pc'[e] \in Sondeo \cup {"lenSubtitles", "resultado", "enviado", "mensaje"}
  PROVE  LocalInv'
<1>1. TipoLocal'
  BY DEF LocalInv, TipoLocal
<1>2. EntradaEstable' = EntradaEstable /\ NombresDistintos' = NombresDistintos
      /\ Elegibles' = Elegibles
  BY EstableFija, ElegiblesFijos DEF NombresDistintos
<1>3. ASSUME EntradaEstable, NEW e \in Enc PROVE Vigente(e)'
  <2>1. Vigente(e)
    BY <1>3 DEF LocalInv
  <2>2. CASE pc'[e] = pc[e]
    BY <2>1, <2>2, VigenteFija
  <2>3. CASE pc'[e] \in Sondeo \cup {"lenSubtitles", "resultado", "enviado", "mensaje"}
    BY <2>3 DEF Vigente, Sondeo, Despues
  <2> QED
    BY <2>2, <2>3
<1>4. ASSUME EntradaEstable, NombresDistintos, NEW e \in Enc PROVE Producida(e)'
  <2>1. Producida(e)
    BY <1>4 DEF LocalInv
  <2>2. CASE pc'[e] = pc[e]
    BY <2>1, <2>2, ProducidaFija
  <2>3. CASE pc'[e] \in Sondeo \cup {"lenSubtitles", "resultado", "enviado", "mensaje"}
    BY <1>2, <2>1, <2>3 DEF Producida, Teletexto, Sondeo
  <2> QED
    BY <2>2, <2>3
<1> QED
  BY <1>1, <1>2, <1>3, <1>4 DEF LocalInv

(***************************************************************************)
(* A step of one encoding: its own memory is for the caller to show, the   *)
(* others keep theirs.                                                     *)
(***************************************************************************)
LEMMA LocalTrabaja ==
  ASSUME LocalInv, FormaDisco, NEW e \in Enc, UNCHANGED <<configuration, arranque>>,
         \A f \in Enc \ {e} :
           /\ pc'[f] = pc[f] /\ lista'[f] = lista[f] /\ cmd'[f] = cmd[f]
           /\ lenSubtitles'[f] = lenSubtitles[f]
           /\ teletextSubtitles'[f] = teletextSubtitles[f]
           /\ fallo'[f] = fallo[f]
           /\ NombresDistintos => disco'[Nombre[f]] = disco[Nombre[f]],
         TipoLocal',
         EntradaEstable /\ Vigente(e) => Vigente(e)',
         EntradaEstable /\ NombresDistintos /\ Vigente(e) /\ Producida(e) => Producida(e)'
  PROVE  LocalInv'
<1>2. EntradaEstable' = EntradaEstable /\ NombresDistintos' = NombresDistintos
  BY EstableFija DEF NombresDistintos
<1>3. ASSUME EntradaEstable, NEW f \in Enc PROVE Vigente(f)'
  <2>1. Vigente(f)
    BY <1>3 DEF LocalInv
  <2>2. CASE f = e
    BY <1>3, <2>1, <2>2
  <2>3. CASE f # e
    BY <2>1, <2>3, VigenteFija
  <2> QED
    BY <2>2, <2>3
<1>4. ASSUME EntradaEstable, NombresDistintos, NEW f \in Enc PROVE Producida(f)'
  <2>1. Vigente(f) /\ Producida(f)
    BY <1>4 DEF LocalInv
  <2>2. CASE f = e
    BY <1>4, <2>1, <2>2
  <2>3. CASE f # e
    BY <1>4, <2>1, <2>3, ProducidaFija
  <2> QED
    BY <2>2, <2>3
<1> QED
  BY <1>2, <1>3, <1>4 DEF LocalInv

(* What a step of an encoding leaves alone. *)
LEMMA MarcoLocal ==
  ASSUME CompartidoInv, FormaDisco, TipoLocal, NEW e \in Enc,
         inicializarFfmpegEncoding(e)
  PROVE  /\ TipoLocal'
         /\ \A f \in Enc \ {e} :
              /\ pc'[f] = pc[f] /\ lista'[f] = lista[f] /\ cmd'[f] = cmd[f]
              /\ lenSubtitles'[f] = lenSubtitles[f]
              /\ teletextSubtitles'[f] = teletextSubtitles[f]
              /\ fallo'[f] = fallo[f]
              /\ NombresDistintos => disco'[Nombre[f]] = disco[Nombre[f]]
<1> DEFINE Otros(g) == \A f \in Enc \ {e} : g'[f] = g[f]
<1>0. /\ Enc \subseteq Proc /\ pc = [x \in Proc |-> pc[x]]
      /\ lista = [x \in Enc |-> lista[x]] /\ cmd = [x \in Enc |-> cmd[x]]
      /\ disco = [d \in Dirs |-> disco[d]] /\ \A f \in Enc : Nombre[f] \in Dirs
      /\ fallo = [f \in Enc |-> fallo[f]]
  BY DEF Proc, CompartidoInv, TipoCompartido, UsosInv, FormaDisco, Dirs
<1>1. Otros(pc)
  BY <1>0, FormaCodificacion DEF Cae, Muere
<1>A. /\ UNCHANGED lista \/ \E A : lista' = [lista EXCEPT ![e] = A]
      /\ UNCHANGED cmd \/ \E A : cmd' = [cmd EXCEPT ![e] = A]
      /\ UNCHANGED disco \/ \E A : disco' = [disco EXCEPT ![Nombre[e]] = A]
      /\ UNCHANGED fallo \/ \E A : fallo' = [fallo EXCEPT ![e] = A]
      /\ \/ UNCHANGED lenSubtitles
         \/ lenSubtitles' = [lenSubtitles EXCEPT ![e] = HaySubtitulos]
      /\ \/ UNCHANGED teletextSubtitles
         \/ teletextSubtitles' = [teletextSubtitles EXCEPT ![e] =
                lenSubtitles[e] /\ programa["subs"].subs = "teletext"]
  <2>1. CASE LeerLenSubtitles(e)
    BY <2>1 DEF LeerLenSubtitles, archivos
  <2>2. CASE LeerTeletexto(e)
    BY <2>2, Zenon DEF LeerTeletexto, archivos
  <2>3. CASE \/ CopiarParaLista(e, "listaAudio", "audio", "listaSubs")
             \/ CopiarParaLista(e, "listaSubs", "subs", "borrar")
    BY <2>3 DEF CopiarParaLista, archivos
  <2>4. CASE BorrarDirectorio(e)
    BY <2>4, Zenon DEF BorrarDirectorio, Falla, locales
  <2>5. CASE CrearLista(e)
    BY <2>5, Zenon DEF CrearLista, locales
  <2>6. CASE EscribirLista(e)
    <3>1. UNCHANGED <<lenSubtitles, teletextSubtitles, lista, cmd>>
      BY <2>6, Zenon DEF EscribirLista, locales
    <3>2. UNCHANGED fallo \/ \E A : fallo' = [fallo EXCEPT ![e] = A]
      BY <2>6, Zenon DEF EscribirLista, Falla
    <3>3. \E c : disco' = Escrita(e, c)
      BY <2>6, Zenon DEF EscribirLista
    <3> QED
      BY <3>1, <3>2, <3>3, Zenon DEF Escrita
  <2>7. CASE \/ LeerParaCmd(e, "videoMap", "video", "teletexto")
             \/ \E l, m \in Despues, c \in Campos : LeerParaCmd(e, l, c, m)
    BY <2>7, Lecturas, Zenon DEF Fijas
  <2>8. CASE \E l, m \in Despues, c \in Campos : ArgsPistas(e, l, c, m)
    <3>1. PICK l, m \in Despues, c \in Campos : ArgsPistas(e, l, c, m)
      BY <2>8
    <3>2. /\ Fijas /\ cmd' = [cmd EXCEPT ![e] = @ \cup {Usa(c)}]
          /\ UNCHANGED disco \/ \E ps : disco' = ConPistas(e, ps)
          /\ UNCHANGED fallo \/ fallo' = [fallo EXCEPT ![e] = @ \cup {"pista"}]
      BY <3>1, Pistas
    <3> QED
      BY <3>2, Zenon DEF Fijas, ConPistas
  <2>9. CASE Revienta(e)
    BY <2>9 DEF Revienta, Fijas
  <2>10. CASE Anunciar(e)
    BY <2>10 DEF Anunciar, locales, archivos
  <2> QED
    BY <2>1, <2>2, <2>3, <2>4, <2>5, <2>6, <2>7, <2>8, <2>9, <2>10, Clases
<1>7. TipoLocal' /\ Otros(lenSubtitles) /\ Otros(teletextSubtitles)
  BY <1>A DEF TipoLocal, HaySubtitulos
<1>8. Otros(lista)
  BY <1>0, <1>A
<1>9. Otros(cmd)
  BY <1>0, <1>A
<1>11. Otros(fallo)
  BY <1>0, <1>A
<1>10. ASSUME NombresDistintos, NEW f \in Enc \ {e}
       PROVE  disco'[Nombre[f]] = disco[Nombre[f]]
  <2>1. Nombre[f] # Nombre[e]
    BY <1>10 DEF NombresDistintos
  <2> QED
    BY <1>0, <1>A, <2>1
<1> QED
  BY <1>1, <1>7, <1>8, <1>9, <1>10, <1>11

(* Nothing is taken out of a command or, after "borrar" and unless making  *)
(* a directory fails, out of what an encoding has made in this start.      *)
LEMMA HechaCrece ==
  ASSUME NEW e \in Enc, NEW u, Hecha(e, u), UNCHANGED arranque,
         cmd[e] \subseteq cmd'[e], fallo[e] \subseteq fallo'[e],
         "pista" \notin fallo'[e] /\ Suya(e, u) \in disco[Nombre[e]].pistas =>
           Suya(e, u) \in disco'[Nombre[e]].pistas
  PROVE  Hecha(e, u)'
BY DEF Hecha, Suya, ConDirectorio

LEMMA PistaNueva ==
  ASSUME FormaDisco, NEW e \in Enc, NEW l, NEW c, NEW m, ArgsPistas(e, l, c, m)
  PROVE  /\ fallo[e] \subseteq fallo'[e]
         /\ "pista" \notin fallo'[e] =>
              /\ \A u : Suya(e, u) \in disco[Nombre[e]].pistas =>
                        Suya(e, u) \in disco'[Nombre[e]].pistas
              /\ ConDirectorio(Usa(c)) => Suya(e, Usa(c)) \in disco'[Nombre[e]].pistas
<1>1. Nombre[e] \in Dirs /\ disco = [d \in Dirs |-> disco[d]] /\ fallo = [f \in Enc |-> fallo[f]]
  BY DEF Dirs, FormaDisco
<1>2. CASE ~ConDirectorio(Usa(c)) /\ UNCHANGED <<disco, fallo>>
  BY <1>2
<1>3. CASE disco' = ConPistas(e, PistasCreadas(e, c)) /\ UNCHANGED fallo
  <2> DEFINE D == Dir(disco[Nombre[e]].abierta, disco[Nombre[e]].contenido, PistasCreadas(e, c))
  <2>1. disco'[Nombre[e]] = D
    BY <1>1, <1>3 DEF ConPistas
  <2>2. D.pistas = PistasCreadas(e, c)
    BY DEF Dir
  <2>3. Suya(e, Usa(c)) = Pista(e, c)
    BY DEF Suya, Pista
  <2>4. ASSUME NEW u, Suya(e, u) \in disco[Nombre[e]].pistas
        PROVE  Suya(e, u) \in PistasCreadas(e, c)
    <3>1. Suya(e, u).pista = u
      BY DEF Suya
    <3>2. CASE u = Usa(c)
      BY <2>3, <3>2 DEF PistasCreadas
    <3>3. CASE u # Usa(c)
      BY <2>4, <3>1, <3>3 DEF PistasCreadas, SinPistas
    <3> QED
      BY <3>2, <3>3
  <2>5. Suya(e, Usa(c)) \in PistasCreadas(e, c)
    BY <2>3 DEF PistasCreadas
  <2> HIDE DEF D
  <2> QED
    BY <1>3, <2>1, <2>2, <2>4, <2>5
<1>4. CASE fallo' = [fallo EXCEPT ![e] = @ \cup {"pista"}]
  <2>1. fallo'[e] = fallo[e] \cup {"pista"}
    BY <1>1, <1>4
  <2> QED
    BY <2>1
<1> QED
  BY <1>2, <1>3, <1>4, Pistas

LEMMA HechaNueva ==
  ASSUME CompartidoInv, FormaDisco, EntradaEstable, NEW e \in Enc, pc[e] \in Leen,
         NEW l, NEW m, NEW c \in {"audio", "subs"}, ArgsPistas(e, l, c, m),
         NEW p \in Elegibles, UNCHANGED arranque
  PROVE  Hecha(e, <<c, p>>)'
<1>1. programa[c] = p
  BY LecturaUnica DEF Campos
<1>2. Usa(c) = <<c, p>>
  BY <1>1 DEF Usa
<1>3. ConDirectorio(<<c, p>>)' = ConDirectorio(<<c, p>>) /\ Suya(e, <<c, p>>)' = Suya(e, <<c, p>>)
  BY DEF ConDirectorio, Suya
<1>4. ConDirectorio(<<c, p>>) /\ "pista" \notin fallo'[e] =>
        Suya(e, <<c, p>>) \in disco'[Nombre[e]].pistas
  BY <1>2, PistaNueva
<1>5. <<c, p>> \in cmd'[e]
  <2>1. cmd' = [cmd EXCEPT ![e] = @ \cup {Usa(c)}]
    BY Pistas
  <2> QED
    BY <1>2, <2>1 DEF CompartidoInv, UsosInv
<1> QED
  BY <1>3, <1>4, <1>5 DEF Hecha

(* What an encoding concludes about the subtitles. *)
LEMMA VigentePropia ==
  ASSUME CompartidoInv, FormaDisco, TipoLocal, EntradaEstable,
         NEW e \in Enc, Vigente(e), inicializarFfmpegEncoding(e)
  PROVE  Vigente(e)'
<1> DEFINE Grupo == {"listaAudio", "listaSubs", "borrar", "crear", "escribir"} \cup Despues
<1>0. /\ e \in Proc /\ pc = [x \in Proc |-> pc[x]] /\ "subs" \in Campos
      /\ {"lenSubtitles", "teletexto"} \subseteq Leen
  BY DEF Proc, CompartidoInv, TipoCompartido, Campos, Leen
<1>C. UNCHANGED configuration /\ Elegibles' = Elegibles
  <2>1. UNCHANGED configuration
    BY FormaCodificacion DEF Cae, Muere
  <2> QED
    BY <2>1, ElegiblesFijos
<1>M. ASSUME Cae, UNCHANGED <<lenSubtitles, teletextSubtitles>> PROVE Vigente(e)'
  BY <1>C, <1>M, VigenteFija DEF Cae, Muere
<1>G. ASSUME pc[e] \in Grupo, pc'[e] \in Grupo \cup {"ffmpeg"},
             UNCHANGED teletextSubtitles
      PROVE  Vigente(e)'
  BY <1>C, <1>G DEF Vigente, Despues
<1>1. CASE LeerLenSubtitles(e)
  <2>1. /\ pc[e] = "lenSubtitles" /\ pc'[e] = "videoMap"
        /\ lenSubtitles'[e] = (programa["subs"].subs # "no")
    BY <1>0, <1>1 DEF LeerLenSubtitles, En, Sigue, Ir, HaySubtitulos, TipoLocal
  <2> QED
    BY <1>0, <1>C, <2>1, LecturaUnica DEF Vigente, Despues
<1>2. CASE LeerParaCmd(e, "videoMap", "video", "teletexto")
  <2>1. pc[e] = "videoMap" /\ pc'[e] = "teletexto" /\ UNCHANGED lenSubtitles
    BY <1>0, <1>2, Lecturas DEF Fijas
  <2> QED
    BY <1>C, <2>1 DEF Vigente, Despues
<1>3. CASE LeerTeletexto(e)
  <2>1. CASE Cae
    <3>1. \/ /\ teletextSubtitles'[e] = teletextSubtitles[e]
             /\ lenSubtitles' = lenSubtitles
          \/ pc'[e] = "listaAudio"
      BY <1>0, <1>3 DEF LeerTeletexto, Sigue, Ir
    <3>2. pc'[e] # "listaAudio"
      BY <1>3, <2>1 DEF Cae, Muere, LeerTeletexto, En
    <3>3. pc'[e] = pc[e]
      BY <2>1 DEF Cae, Muere
    <3> QED
      BY <1>C, <3>1, <3>2, <3>3, VigenteFija
  <2>2. CASE ~Cae
    <3>1. /\ pc[e] = "teletexto" /\ pc'[e] = "listaAudio"
          /\ teletextSubtitles'[e] = (lenSubtitles[e] /\ programa["subs"].subs = "teletext")
      BY <1>0, <1>3, <2>2 DEF LeerTeletexto, En, Sigue, Ir, TipoLocal, Cae, Muere, proceso
    <3>2. \A p \in Elegibles : programa["subs"] = p /\ lenSubtitles[e] = (p.subs # "no")
      BY <1>0, <3>1, LecturaUnica DEF Vigente
    <3> QED
      BY <1>C, <3>1, <3>2 DEF Vigente, Despues
  <2> QED
    BY <2>1, <2>2
<1>4. CASE \/ CopiarParaLista(e, "listaAudio", "audio", "listaSubs")
           \/ CopiarParaLista(e, "listaSubs", "subs", "borrar")
  <2>1. /\ pc[e] \in {"listaAudio", "listaSubs"} /\ pc'[e] \in {"listaSubs", "borrar"}
        /\ UNCHANGED teletextSubtitles
    BY <1>0, <1>4 DEF CopiarParaLista, En, Sigue, Ir
  <2> QED
    BY <1>G, <2>1
<1>5. CASE BorrarDirectorio(e) \/ EscribirLista(e)
  <2>1. /\ pc[e] \in {"borrar", "escribir"} /\ pc'[e] \in {"crear", "argsDvb", "argsAudio"}
        /\ UNCHANGED teletextSubtitles
    BY <1>0, <1>5 DEF BorrarDirectorio, EscribirLista, En, Sigue, Ir, locales
  <2> QED
    BY <1>G, <2>1 DEF Despues
<1>6. CASE CrearLista(e) \/ Anunciar(e)
  <2>1. UNCHANGED teletextSubtitles /\ UNCHANGED lenSubtitles
    BY <1>6 DEF CrearLista, Anunciar, locales, archivos
  <2>2. pc[e] \in {"crear", "anunciar"}
    BY <1>6 DEF CrearLista, Anunciar, En
  <2>3. Cae \/ pc'[e] \in {"escribir", "ffmpeg"}
    BY <1>0, <1>6 DEF Cae, Muere, CrearLista, Anunciar, Sigue, Ir
  <2> QED
    BY <1>G, <1>M, <2>1, <2>2, <2>3 DEF Despues
<1>7. ASSUME NEW l \in Despues, NEW m \in Despues, NEW c \in Campos,
             LeerParaCmd(e, l, c, m) \/ ArgsPistas(e, l, c, m)
      PROVE  Vigente(e)'
  <2>1. UNCHANGED teletextSubtitles /\ pc[e] = l /\ pc'[e] = m
    BY <1>0, <1>7, Lecturas, Pistas DEF Fijas
  <2> QED
    BY <1>G, <2>1
<1>8. CASE Revienta(e)
  BY <1>8, <1>M DEF Revienta, Cae, Muere, Fijas
<1> QED
  BY <1>1, <1>2, <1>3, <1>4, <1>5, <1>6, <1>7, <1>8, Clases

(* The tracks of an encoding. *)
LEMMA ProducidaPropia ==
  ASSUME CompartidoInv, FormaDisco, TipoLocal, EntradaEstable,
         NEW e \in Enc, Producida(e), inicializarFfmpegEncoding(e)
  PROVE  Producida(e)'
<1>0. /\ e \in Proc /\ pc = [x \in Proc |-> pc[x]]
      /\ lista = [x \in Enc |-> lista[x]] /\ cmd = [x \in Enc |-> cmd[x]]
      /\ {"listaAudio", "listaSubs"} \cup Despues \subseteq Leen
      /\ {"audio", "subs"} \subseteq Campos
  BY DEF Proc, CompartidoInv, TipoCompartido, UsosInv, Campos, Leen, Despues
<1>C. UNCHANGED <<configuration, arranque>> /\ Elegibles' = Elegibles
  <2>1. UNCHANGED configuration /\ UNCHANGED arranque
    BY FormaCodificacion DEF Cae, Muere
  <2> QED
    BY <2>1, ElegiblesFijos
<1>M. ASSUME Cae, UNCHANGED <<teletextSubtitles, lista, cmd, disco, fallo>>
      PROVE  Producida(e)'
  BY <1>C, <1>M, ProducidaFija DEF Cae, Muere
<1>G. ASSUME lista'[e] \subseteq {"audio", "subs"} \X Elegibles,
             \/ pc'[e] \notin Despues \cup {"ffmpeg"}
             \/ pc'[e] \in {"argsDvb", "argsDvbSubs"}
             \/ pc'[e] = "argsAudio" /\ teletextSubtitles'[e]
      PROVE  Producida(e)'
  BY <1>C, <1>G DEF Producida, Teletexto, Despues
<1>R. ASSUME NEW l, NEW m, NEW c, LeerParaCmd(e, l, c, m)
      PROVE  /\ UNCHANGED <<lista, teletextSubtitles>> /\ pc[e] = l /\ pc'[e] = m
             /\ \A u : Hecha(e, u) => Hecha(e, u)'
  <2>1. /\ UNCHANGED lista /\ UNCHANGED teletextSubtitles /\ pc[e] = l /\ pc'[e] = m
        /\ UNCHANGED <<disco, fallo>> /\ cmd[e] \subseteq cmd'[e]
    BY <1>0, <1>R, Lecturas DEF Fijas
  <2> QED
    BY <1>C, <2>1, HechaCrece
<1>P. ASSUME NEW l \in Despues, NEW m, NEW c \in {"audio", "subs"}, ArgsPistas(e, l, c, m)
      PROVE  /\ UNCHANGED <<lista, teletextSubtitles>> /\ pc[e] = l /\ pc'[e] = m
             /\ \A u : Hecha(e, u) => Hecha(e, u)'
             /\ \A p \in Elegibles : Hecha(e, <<c, p>>)'
  <2>1. /\ UNCHANGED lista /\ UNCHANGED teletextSubtitles /\ pc[e] = l /\ pc'[e] = m
        /\ cmd[e] \subseteq cmd'[e]
    BY <1>0, <1>P, Pistas DEF Fijas
  <2>2. \A u : Hecha(e, u) => Hecha(e, u)'
    BY <1>C, <1>P, <2>1, PistaNueva, HechaCrece
  <2>3. \A p \in Elegibles : Hecha(e, <<c, p>>)'
    BY <1>0, <1>C, <1>P, <2>1, HechaNueva
  <2> QED
    BY <2>1, <2>2, <2>3
<1>1. CASE LeerLenSubtitles(e) \/ LeerVideo(e)
  <2>1. UNCHANGED lista /\ pc'[e] \in {"videoMap", "teletexto"}
    BY <1>0, <1>1, <1>R DEF LeerLenSubtitles, LeerVideo, Sigue, Ir
  <2> QED
    BY <1>G, <2>1 DEF Producida, Despues
<1>2. CASE LeerTeletexto(e) \/ CrearLista(e)
  <2>1. UNCHANGED lista
    BY <1>2 DEF LeerTeletexto, CrearLista, locales, archivos
  <2>2. pc'[e] = pc[e] \/ pc'[e] \in {"listaAudio", "escribir"}
    BY <1>0, <1>2 DEF LeerTeletexto, CrearLista, Sigue, Ir, Cae, Muere
  <2>3. pc[e] \in {"teletexto", "crear"}
    BY <1>2 DEF LeerTeletexto, CrearLista, En
  <2> QED
    BY <1>G, <2>1, <2>2, <2>3 DEF Producida, Despues
<1>3. ASSUME NEW c \in {"audio", "subs"}, NEW l \in {"listaAudio", "listaSubs"},
             NEW m \in {"listaSubs", "borrar"}, CopiarParaLista(e, l, c, m)
      PROVE  Producida(e)'
  <2>1. pc[e] = l /\ pc'[e] = m /\ lista'[e] = lista[e] \cup {Usa(c)}
    BY <1>0, <1>3 DEF CopiarParaLista, En, Sigue, Ir
  <2>2. Usa(c) \in {"audio", "subs"} \X Elegibles
    BY <1>0, <2>1, UsoElegible DEF Usa
  <2> QED
    BY <1>G, <2>1, <2>2 DEF Producida, Despues
<1>4. CASE BorrarDirectorio(e)
  <2>1. UNCHANGED lista /\ pc'[e] = "crear"
    BY <1>0, <1>4 DEF BorrarDirectorio, Sigue, Ir, locales
  <2> QED
    BY <1>G, <2>1 DEF Producida, Despues
<1>5. CASE EscribirLista(e)
  <2>1. /\ UNCHANGED lista /\ UNCHANGED teletextSubtitles
        /\ pc'[e] = IF teletextSubtitles[e] THEN "argsAudio" ELSE "argsDvb"
    BY <1>0, <1>5 DEF EscribirLista, Sigue, Ir, locales
  <2> QED
    BY <1>G, <2>1 DEF Producida
<1>L. Despues = Teletexto \cup {"argsDvb", "argsDvbSubs", "argsAudio", "argsAudioVideo", "anunciar"}
  BY DEF Despues, Teletexto
<1>6. CASE ArgsDvb(e)
  <2>1. UNCHANGED lista /\ pc'[e] = "argsDvbSubs"
    BY <1>6, <1>R DEF ArgsDvb
  <2> QED
    BY <1>G, <2>1 DEF Producida
<1>7. CASE ArgsDvbSubs(e)
  <2>1. /\ UNCHANGED lista /\ pc'[e] = "argsAudio"
        /\ \A p \in Elegibles : Hecha(e, <<"subs", p>>)'
    BY <1>7, <1>L, <1>P DEF ArgsDvbSubs
  <2> QED
    BY <1>C, <2>1 DEF Producida, Teletexto
<1>8. CASE ArgsAudio(e)
  <2>1. /\ UNCHANGED <<lista, teletextSubtitles>> /\ pc[e] = "argsAudio"
        /\ pc'[e] = IF programa["audio"].audio THEN "argsAudioVideo" ELSE TrasAudio(e)
        /\ \A u : Hecha(e, u) => Hecha(e, u)'
        /\ \A p \in Elegibles : Hecha(e, <<"audio", p>>)'
    BY <1>8, <1>L, <1>P DEF ArgsAudio
  <2>2. pc'[e] \in {"argsAudioVideo", TrasAudio(e)}
    BY <2>1
  <2>3. ASSUME ~teletextSubtitles[e] PROVE \A p \in Elegibles : Hecha(e, <<"subs", p>>)'
    BY <2>1, <2>3 DEF Producida
  <2> QED
    BY <1>C, <2>1, <2>2, <2>3 DEF Producida, Teletexto, TrasAudio
<1>10. CASE ArgsAudioVideo(e)
  <2>1. /\ UNCHANGED <<lista, teletextSubtitles>> /\ pc[e] = "argsAudioVideo"
        /\ pc'[e] = TrasAudio(e)
        /\ \A u : Hecha(e, u) => Hecha(e, u)'
    BY <1>10, <1>R DEF ArgsAudioVideo
  <2>2. /\ \A p \in Elegibles : Hecha(e, <<"audio", p>>)'
        /\ ~teletextSubtitles[e] => \A p \in Elegibles : Hecha(e, <<"subs", p>>)'
    BY <2>1 DEF Producida
  <2> QED
    BY <1>C, <2>1, <2>2 DEF Producida, Teletexto, TrasAudio
<1>11. CASE ArgsSubs(e)
  <2>1. /\ UNCHANGED <<lista, teletextSubtitles>> /\ pc[e] = "argsSubs"
        /\ pc'[e] \in {"anunciar", "argsSubsAudio"}
        /\ \A u : Hecha(e, u) => Hecha(e, u)'
        /\ \A p \in Elegibles : Hecha(e, <<"subs", p>>)'
    <3>1. "argsSubs" \in Despues /\ "subs" \in {"audio", "subs"}
      BY DEF Despues
    <3> QED
      BY <1>11, <1>P, <3>1 DEF ArgsSubs
  <2>2. teletextSubtitles[e] /\ \A p \in Elegibles : Hecha(e, <<"audio", p>>)'
    BY <2>1 DEF Producida, Teletexto
  <2> QED
    BY <1>C, <2>1, <2>2 DEF Producida, Teletexto
<1>12. ASSUME NEW l \in {"argsSubsAudio", "argsSubsVideo"}, NEW c,
              NEW m \in {"argsSubsVideo", "anunciar"}, LeerParaCmd(e, l, c, m)
       PROVE  Producida(e)'
  <2>1. /\ UNCHANGED <<lista, teletextSubtitles>> /\ pc[e] = l /\ pc'[e] = m
        /\ \A u : Hecha(e, u) => Hecha(e, u)'
    BY <1>12, <1>R
  <2>2. /\ teletextSubtitles[e]
        /\ \A p \in Elegibles : Hecha(e, <<"audio", p>>)' /\ Hecha(e, <<"subs", p>>)'
    BY <2>1 DEF Producida, Teletexto
  <2> QED
    BY <1>C, <2>1, <2>2 DEF Producida, Teletexto
<1>13. CASE ArgsSubsAudio(e)
  <2>1. CASE LeerParaCmd(e, "argsSubsAudio", "audio", "argsSubsVideo")
    BY <1>12, <2>1
  <2>2. CASE ~LeerParaCmd(e, "argsSubsAudio", "audio", "argsSubsVideo")
    <3>1. Cae /\ UNCHANGED <<teletextSubtitles, lista, cmd, disco, fallo>>
      BY <1>13, <2>2 DEF ArgsSubsAudio, Cae, Muere, locales, archivos
    <3> QED
      BY <1>M, <3>1
  <2> QED
    BY <2>1, <2>2
<1>14. CASE ArgsSubsVideo(e)
  BY <1>12, <1>14 DEF ArgsSubsVideo
<1>9. CASE Anunciar(e)
  <2>0. pc[e] = "anunciar" /\ UNCHANGED <<teletextSubtitles, lista, cmd, disco, fallo>>
    BY <1>9 DEF Anunciar, En, locales, archivos
  <2>1. Cae \/ pc'[e] = "ffmpeg"
    BY <1>0, <1>9 DEF Anunciar, Cae, Muere, Sigue, Ir
  <2>2. ASSUME pc'[e] = "ffmpeg" PROVE Producida(e)'
    <3>1. \A p \in Elegibles : Hecha(e, <<"audio", p>>)' /\ Hecha(e, <<"subs", p>>)'
      BY <1>C, <2>0, HechaCrece DEF Producida
    <3> QED
      BY <1>C, <2>0, <2>2, <3>1 DEF Producida, Teletexto
  <2> QED
    BY <1>M, <2>0, <2>1, <2>2
<1> QED
  BY <1>1, <1>2, <1>3, <1>4, <1>5, <1>6, <1>7, <1>8, <1>9, <1>10, <1>11, <1>13, <1>14
     DEF inicializarFfmpegEncoding

LEMMA PasoLocal ==
  ASSUME MemoriaInv, [Next]_vars PROVE LocalInv'
<1> USE DEF MemoriaInv
<1>0. Enc \subseteq Proc /\ Coord \notin Enc /\ pc = [x \in Proc |-> pc[x]]
  BY EncAssumption DEF Proc, CompartidoInv, TipoCompartido
<1>1. CASE Inicializar
  <2>1. UNCHANGED <<configuration, arranque>>
        /\ UNCHANGED <<lenSubtitles, teletextSubtitles, lista, cmd, disco, fallo>>
    BY <1>1 DEF Inicializar, proceso, locales, archivos
  <2>2. \A e \in Enc : pc'[e] = pc[e] \/ pc'[e] = "sonda"
    <3>1. CASE configuration.Test
      BY <1>0, <1>1, <3>1 DEF Inicializar
    <3>2. CASE ~configuration.Test
      BY <1>0, <1>1, <3>2 DEF Inicializar
    <3> QED
      BY <3>1, <3>2
  <2> QED
    BY <2>1, <2>2, LocalQuieto DEF Sondeo
<1>2. CASE FinCodificaciones \/ FinServidor \/ Caida
  BY <1>2, LocalQuieto DEF FinCodificaciones, FinServidor, Caida, Mensaje, locales, archivos
<1>3. CASE ArrancarServidor \/ CaerServidor
  BY <1>3, LocalQuieto DEF ArrancarServidor, CaerServidor, proceso, locales, archivos
<1>4. ASSUME NEW x \in Proc, obtenerStreamsPost(x) PROVE LocalInv'
  <2>1. /\ UNCHANGED <<lista, disco, fallo>>
        /\ UNCHANGED <<configuration, arranque>>
        /\ \/ pc' = pc
           \/ \E l \in Sondeo \cup {"lenSubtitles", "mensaje"} : pc' = [pc EXCEPT ![x] = l]
    BY <1>0, <1>4, FormaSonda DEF PcFuncion, Cae, Muere
  <2>2. UNCHANGED <<lenSubtitles, teletextSubtitles, cmd>>
    BY <1>4, Zenon DEF obtenerStreamsPost, Sondear, PostError, LeerPrograma, PostStreams,
       Elegir, CopiarId, CopiarCampo, Sigue, Cae, Muere, proceso, locales, archivos
  <2>3. \A e \in Enc : pc'[e] = pc[e] \/ pc'[e] \in Sondeo \cup {"lenSubtitles", "mensaje"}
    BY <1>0, <2>1
  <2> QED
    BY <2>1, <2>2, <2>3, LocalQuieto
<1>5. ASSUME NEW e \in Enc, inicializarFfmpegEncoding(e) PROVE LocalInv'
  <2>1. FormaDisco /\ TipoLocal
    BY DEF DiscoInv, LocalInv
  <2>2. UNCHANGED configuration /\ UNCHANGED arranque
    BY <1>5, FormaCodificacion DEF Cae, Muere
  <2>3. EntradaEstable /\ Vigente(e) => Vigente(e)'
    BY <1>5, <2>1, VigentePropia
  <2>4. EntradaEstable /\ Producida(e) => Producida(e)'
    BY <1>5, <2>1, ProducidaPropia
  <2>5. /\ TipoLocal'
        /\ \A f \in Enc \ {e} :
             /\ pc'[f] = pc[f] /\ lista'[f] = lista[f] /\ cmd'[f] = cmd[f]
             /\ lenSubtitles'[f] = lenSubtitles[f]
             /\ teletextSubtitles'[f] = teletextSubtitles[f]
             /\ fallo'[f] = fallo[f]
             /\ NombresDistintos => disco'[Nombre[f]] = disco[Nombre[f]]
    BY <1>5, <2>1, MarcoLocal
  <2>6. LocalInv
    OBVIOUS
  <2> QED
    BY <2>1, <2>2, <2>3, <2>4, <2>5, <2>6, LocalTrabaja
<1>6. CASE \E e \in Enc : FinFfmpeg(e) \/ Entregar(e)
  <2>1. PICK e \in Enc : FinFfmpeg(e) \/ Entregar(e)
    BY <1>6
  <2>2. UNCHANGED <<configuration, arranque>>
        /\ UNCHANGED <<lenSubtitles, teletextSubtitles, lista, cmd, disco, fallo>>
    BY <2>1 DEF FinFfmpeg, Entregar, Sigue, proceso, locales, archivos
  <2>3. \A f \in Enc : pc'[f] = pc[f] \/ pc'[f] \in {"resultado", "enviado"}
    BY <1>0, <2>1 DEF FinFfmpeg, Entregar, Sigue, Ir
  <2> QED
    BY <2>2, <2>3, LocalQuieto
<1>7. CASE Reiniciar
  <2>1. /\ pc' = PcInicial /\ lista' = [e \in Enc |-> {}]
        /\ lenSubtitles' = [e \in Enc |-> FALSE]
        /\ teletextSubtitles' = [e \in Enc |-> FALSE]
    BY <1>7 DEF Reiniciar
  <2>2. \A e \in Enc : pc'[e] = "parada" /\ lista'[e] = {}
    BY <1>0, <2>1 DEF PcInicial
  <2>3. \A e \in Enc : Vigente(e)' /\ Producida(e)'
    BY <2>2 DEF Vigente, Producida, Teletexto, Despues
  <2> QED
    BY <2>1, <2>3 DEF LocalInv, TipoLocal
<1>8. CASE Detenido \/ UNCHANGED vars
  BY <1>8, LocalQuieto DEF Detenido, vars, proceso, locales, archivos
<1> QED
  BY <1>1, <1>2, <1>3, <1>4, <1>5, <1>6, <1>7, <1>8 DEF Next

LEMMA Memoria == Spec => []MemoriaInv
<1>1. Init => MemoriaInv
  <2> SUFFICES ASSUME Init PROVE MemoriaInv
    OBVIOUS
  <2>1. CompartidoInv
    BY ArranqueCompartido DEF Init
  <2>2. DiscoInv
    BY InicioDisco
  <2>3. /\ \A e \in Enc : pc[e] = "parada" /\ lista[e] = {}
        /\ TipoLocal
    BY EncAssumption DEF Init, PcInicial, Proc, TipoLocal
  <2>4. \A e \in Enc : Vigente(e) /\ Producida(e)
    BY <2>3 DEF Vigente, Producida, Teletexto, Despues
  <2> QED
    BY <2>1, <2>2, <2>3, <2>4 DEF MemoriaInv, LocalInv
<1>2. MemoriaInv /\ [Next]_vars => MemoriaInv'
  BY PasoCompartido, PasoDisco, PasoLocal DEF MemoriaInv
<1> QED
  BY <1>1, <1>2, PTL DEF Spec

-----------------------------------------------------------------------------
(***************************************************************************)
(* The panics.  Everything in programa was chosen by some goroutine of     *)
(* this start, a choice is never forgotten, and what an encoding has       *)
(* concluded about the subtitles was true of a chosen program.             *)
(***************************************************************************)
SinElegir == {"parada", "inicio", "recibir", "sonda", "postError", "lineas", "elegir"}

ConSubtitulos == \E p \in Elegidos : p.subs # "no"
ConTeletexto == \E p \in Elegidos : p.subs = "teletext"

PanicoInv ==
  /\ \A c \in Campos : programa[c] \in Elegidos \cup {Nada}
  /\ \A x \in Proc : pc[x] \in SinElegir => elegido[x] = Nada
  /\ \A e \in Enc : /\ lenSubtitles[e] => ConSubtitulos
                    /\ teletextSubtitles[e] => ConTeletexto
                    /\ pc[e] \in Teletexto => teletextSubtitles[e]
  /\ PanicoExplicado

(* A step that chooses no program, copies none and concludes nothing.      *)
LEMMA PanicoMarco ==
  ASSUME PanicoInv, UNCHANGED <<programa, elegido, lenSubtitles, teletextSubtitles>>,
         \A x \in Proc : pc'[x] \in SinElegir => pc[x] \in SinElegir,
         \A e \in Enc : pc'[e] \in Teletexto => pc[e] \in Teletexto \/ teletextSubtitles[e],
         \/ UNCHANGED <<estado, salida>>
         \/ vivo'
         \/ salida' # "panico"
  PROVE  PanicoInv'
<1>1. Elegidos' = Elegidos /\ ConSubtitulos' = ConSubtitulos /\ ConTeletexto' = ConTeletexto
  BY DEF Elegidos, ConSubtitulos, ConTeletexto
<1>2. PanicoExplicado'
  BY <1>1 DEF PanicoInv, PanicoExplicado, vivo
<1> QED
  BY <1>1, <1>2 DEF PanicoInv

(* What a goroutine reads of programa after its probe was chosen. *)
LEMMA LecturaElegida ==
  ASSUME CompartidoInv, PanicoInv, NEW e \in Enc, pc[e] \in Leen, NEW c \in Campos
  PROVE  programa[c] \in Elegidos
<1>1. programa[c] # Nada
  BY DEF CompartidoInv, Llenos, Campos, Proc
<1> QED
  BY <1>1 DEF PanicoInv

LEMMA PanicoSonda ==
  ASSUME CompartidoInv, PanicoInv, NEW x \in Proc, obtenerStreamsPost(x)
  PROVE  PanicoInv'
<1>0. pc = [y \in Proc |-> pc[y]] /\ elegido = [y \in Proc |-> elegido[y]]
      /\ programa = [c \in Campos |-> programa[c]]
  BY DEF CompartidoInv, TipoCompartido
<1>F. UNCHANGED <<lenSubtitles, teletextSubtitles>>
  BY Zenon DEF obtenerStreamsPost, Sondear, PostError, LeerPrograma, PostStreams,
     Elegir, CopiarId, CopiarCampo, locales
<1>S. /\ \A y \in Proc : pc'[y] = pc[y] \/ y = x
      /\ \A e \in Enc : pc'[e] \in Teletexto => pc[e] \in Teletexto
  <2>1. \/ pc' = pc
        \/ \E l \in Sondeo \cup {"lenSubtitles", "mensaje"} : pc' = [pc EXCEPT ![x] = l]
    BY <1>0, FormaSonda DEF Cae, PcFuncion
  <2> QED
    BY <1>0, <2>1 DEF Sondeo, Teletexto, Proc
<1>1. CASE Sondear(x) \/ PostError(x) \/ LeerPrograma(x) \/ PostStreams(x)
  <2>1. UNCHANGED <<programa, elegido>>
    BY <1>1 DEF Sondear, PostError, LeerPrograma, PostStreams, locales
  <2>2. pc[x] \in SinElegir
    BY <1>1 DEF Sondear, PostError, LeerPrograma, PostStreams, En, SinElegir
  <2>3. UNCHANGED <<estado, salida>> \/ salida' # "panico"
    BY <1>1 DEF Sondear, PostError, LeerPrograma, PostStreams, Sigue, Muere, proceso
  <2> QED
    BY <1>F, <1>S, <2>1, <2>2, <2>3, PanicoMarco
<1>2. CASE Elegir(x)
  <2>1. pc[x] = "elegir" /\ UNCHANGED programa
    BY <1>2 DEF Elegir, En
  <2>2. CASE UNCHANGED elegido /\ Muere("fatal")
    <3>1. UNCHANGED pc /\ salida' # "panico"
      BY <2>2 DEF Muere
    <3> QED
      BY <1>F, <2>1, <2>2, <3>1, PanicoMarco
  <2>3. CASE \E n \in 1..Len(informe[x]) :
               /\ elegido' = [elegido EXCEPT ![x] = informe[x][n]]
               /\ Sigue(x, "copiaId")
    <3>1. PICK q : elegido' = [elegido EXCEPT ![x] = q]
      BY <2>3
    <3>2. pc' = [pc EXCEPT ![x] = "copiaId"] /\ UNCHANGED <<estado, salida>>
      BY <2>3 DEF Sigue, Ir, proceso
    <3>3. elegido[x] = Nada
      BY <2>1 DEF PanicoInv, SinElegir
    <3>4. Elegidos \subseteq Elegidos'
      BY <1>0, <3>1, <3>3 DEF Elegidos
    <3>5. (ConSubtitulos => ConSubtitulos') /\ (ConTeletexto => ConTeletexto')
      BY <3>4 DEF ConSubtitulos, ConTeletexto
    <3>6. \A y \in Proc : pc'[y] \in SinElegir => elegido'[y] = Nada
      BY <1>0, <3>1, <3>2 DEF PanicoInv, SinElegir
    <3>7. PanicoExplicado'
      BY <3>2, <3>4 DEF PanicoInv, PanicoExplicado, vivo
    <3> QED
      BY <1>F, <1>S, <2>1, <3>4, <3>5, <3>6, <3>7 DEF PanicoInv
  <2> QED
    BY <1>2, <2>2, <2>3 DEF Elegir
<1>3. CASE CopiarId(x)
  <2>1. /\ UNCHANGED <<programa, elegido>> /\ UNCHANGED <<estado, salida>>
        /\ pc' = [pc EXCEPT ![x] = "video"]
    BY <1>3 DEF CopiarId, Sigue, Ir, proceso, locales
  <2>2. \A y \in Proc : pc'[y] \in SinElegir => pc[y] \in SinElegir
    BY <1>0, <2>1 DEF SinElegir
  <2> QED
    BY <1>F, <1>S, <2>1, <2>2, PanicoMarco
<1>4. ASSUME NEW c \in Campos, NEW l \in {"audio", "subs", "mensaje", "lenSubtitles"},
             CopiarCampo(x, c, l)
      PROVE  PanicoInv'
  <2>1. /\ pc[x] = c /\ programa' = [programa EXCEPT ![c] = elegido[x]] /\ UNCHANGED elegido
        /\ pc' = [pc EXCEPT ![x] = l] /\ UNCHANGED <<estado, salida>>
    BY <1>4 DEF CopiarCampo, En, Sigue, Ir, proceso, locales
  <2>2. elegido[x] \in Elegidos \cup {Nada}
    BY DEF Elegidos
  <2>3. Elegidos' = Elegidos /\ ConSubtitulos' = ConSubtitulos /\ ConTeletexto' = ConTeletexto
    BY <2>1 DEF Elegidos, ConSubtitulos, ConTeletexto
  <2>4. \A d \in Campos : programa'[d] \in Elegidos' \cup {Nada}
    BY <1>0, <2>1, <2>2, <2>3 DEF PanicoInv
  <2>5. \A y \in Proc : pc'[y] \in SinElegir => pc[y] \in SinElegir
    BY <1>0, <2>1 DEF SinElegir
  <2>6. PanicoExplicado'
    BY <2>1, <2>3 DEF PanicoInv, PanicoExplicado, vivo
  <2> QED
    BY <1>F, <1>S, <2>1, <2>3, <2>4, <2>5, <2>6 DEF PanicoInv
<1>5. TrasSondear(x) \in {"mensaje", "lenSubtitles"} /\ {"video", "audio", "subs"} = Campos
  BY DEF TrasSondear, Campos
<1> QED
  BY <1>1, <1>2, <1>3, <1>4, <1>5 DEF obtenerStreamsPost

LEMMA PanicoCodificacion ==
  ASSUME CompartidoInv, TipoLocal, PanicoInv, NEW e \in Enc, inicializarFfmpegEncoding(e)
  PROVE  PanicoInv'
<1>0. e \in Proc /\ pc = [y \in Proc |-> pc[y]] /\ Enc \subseteq Proc
      /\ {"lenSubtitles", "teletexto"} \cup Despues \subseteq Leen
      /\ {"audio", "subs"} \subseteq Campos
  BY DEF CompartidoInv, TipoCompartido, Proc, Leen, Campos
<1>M. ASSUME NEW l, pc' = [pc EXCEPT ![e] = l], l \notin SinElegir,
             l \in Teletexto => pc[e] \in Teletexto \/ teletextSubtitles[e]
      PROVE  /\ \A x \in Proc : pc'[x] \in SinElegir => pc[x] \in SinElegir
             /\ \A f \in Enc : pc'[f] \in Teletexto => pc[f] \in Teletexto \/ teletextSubtitles[f]
  BY <1>0, <1>M
<1>1. ASSUME UNCHANGED <<programa, elegido, lenSubtitles, teletextSubtitles>>,
             \/ UNCHANGED pc /\ salida' # "panico"
             \/ /\ UNCHANGED <<estado, salida>>
                /\ \E l : /\ pc' = [pc EXCEPT ![e] = l] /\ l \notin SinElegir
                          /\ l \in Teletexto => pc[e] \in Teletexto \/ teletextSubtitles[e]
      PROVE  PanicoInv'
  BY <1>1, <1>M, PanicoMarco
<1>2. CASE LeerLenSubtitles(e)
  <2>1. /\ pc[e] = "lenSubtitles" /\ pc' = [pc EXCEPT ![e] = "videoMap"]
        /\ UNCHANGED <<programa, elegido, teletextSubtitles, estado, salida>>
        /\ lenSubtitles' = [lenSubtitles EXCEPT ![e] = HaySubtitulos]
    BY <1>2 DEF LeerLenSubtitles, En, Sigue, Ir, proceso
  <2>2. HaySubtitulos => ConSubtitulos
    BY <1>0, <2>1, LecturaElegida DEF HaySubtitulos, ConSubtitulos
  <2>3. Elegidos' = Elegidos /\ ConSubtitulos' = ConSubtitulos /\ ConTeletexto' = ConTeletexto
    BY <2>1 DEF Elegidos, ConSubtitulos, ConTeletexto
  <2>4. \A f \in Enc : lenSubtitles'[f] => ConSubtitulos
    BY <2>1, <2>2 DEF TipoLocal, PanicoInv
  <2>5. /\ \A x \in Proc : pc'[x] \in SinElegir => pc[x] \in SinElegir
        /\ \A f \in Enc : pc'[f] \in Teletexto => pc[f] \in Teletexto
    BY <1>0, <2>1 DEF SinElegir, Teletexto
  <2>6. PanicoExplicado'
    BY <2>1, <2>3 DEF PanicoInv, PanicoExplicado, vivo
  <2> QED
    BY <2>1, <2>3, <2>4, <2>5, <2>6 DEF PanicoInv
<1>3. CASE LeerTeletexto(e)
  <2>1. /\ pc[e] = "teletexto" /\ UNCHANGED <<programa, elegido, lenSubtitles>>
    BY <1>3 DEF LeerTeletexto, En
  <2>2. programa["subs"] \in Elegidos
    BY <1>0, <2>1, LecturaElegida
  <2>3. Elegidos' = Elegidos /\ ConSubtitulos' = ConSubtitulos /\ ConTeletexto' = ConTeletexto
    BY <2>1 DEF Elegidos, ConSubtitulos, ConTeletexto
  <2>4. CASE /\ lenSubtitles[e] /\ programa["subs"].subs = "no"
             /\ Muere("panico") /\ UNCHANGED teletextSubtitles
    <3>1. PICK p \in Elegidos : p.subs # "no"
      BY <2>4 DEF PanicoInv, ConSubtitulos
    <3>2. PanicoExplicado'
      BY <2>2, <2>3, <2>4, <3>1 DEF PanicoExplicado
    <3> QED
      BY <2>1, <2>3, <2>4, <3>2 DEF PanicoInv, Muere
  <2>5. CASE /\ teletextSubtitles' = [teletextSubtitles EXCEPT ![e] =
                  lenSubtitles[e] /\ programa["subs"].subs = "teletext"]
             /\ Sigue(e, "listaAudio")
    <3>1. pc' = [pc EXCEPT ![e] = "listaAudio"] /\ UNCHANGED <<estado, salida>>
      BY <2>5 DEF Sigue, Ir, proceso
    <3>2. \A f \in Enc : teletextSubtitles'[f] => ConTeletexto
      BY <2>2, <2>5 DEF TipoLocal, PanicoInv, ConTeletexto
    <3>3. /\ \A x \in Proc : pc'[x] \in SinElegir => pc[x] \in SinElegir
          /\ \A f \in Enc : pc'[f] \in Teletexto => pc[f] \in Teletexto /\ f # e
      BY <1>0, <3>1 DEF SinElegir, Teletexto
    <3>4. \A f \in Enc : f # e => teletextSubtitles'[f] = teletextSubtitles[f]
      BY <2>5 DEF TipoLocal
    <3>5. PanicoExplicado'
      BY <2>3, <3>1 DEF PanicoInv, PanicoExplicado, vivo
    <3> QED
      BY <2>1, <2>3, <3>2, <3>3, <3>4, <3>5 DEF PanicoInv
  <2> QED
    BY <1>3, <2>4, <2>5 DEF LeerTeletexto
<1>4. CASE \/ CopiarParaLista(e, "listaAudio", "audio", "listaSubs")
           \/ CopiarParaLista(e, "listaSubs", "subs", "borrar")
  <2>1. /\ UNCHANGED <<programa, elegido, lenSubtitles, teletextSubtitles>>
        /\ UNCHANGED <<estado, salida>>
        /\ \E l \in {"listaSubs", "borrar"} : pc' = [pc EXCEPT ![e] = l]
    BY <1>4 DEF CopiarParaLista, Sigue, Ir, proceso
  <2> QED
    BY <1>1, <2>1 DEF SinElegir, Teletexto
<1>5. CASE BorrarDirectorio(e) \/ EscribirLista(e)
  <2>1. /\ UNCHANGED <<programa, elegido, lenSubtitles, teletextSubtitles>>
        /\ UNCHANGED <<estado, salida>>
        /\ \E l \in {"crear", "argsAudio", "argsDvb"} : pc' = [pc EXCEPT ![e] = l]
    BY <1>5 DEF BorrarDirectorio, EscribirLista, Sigue, Ir, proceso, locales
  <2> QED
    BY <1>1, <2>1 DEF SinElegir, Teletexto
<1>6. CASE CrearLista(e) \/ Anunciar(e)
  <2>1. UNCHANGED <<programa, elegido, lenSubtitles, teletextSubtitles>>
    BY <1>6 DEF CrearLista, Anunciar, locales
  <2>2. \/ UNCHANGED pc /\ salida' # "panico"
        \/ /\ UNCHANGED <<estado, salida>>
           /\ \E l \in {"escribir", "ffmpeg"} : pc' = [pc EXCEPT ![e] = l]
    BY <1>6 DEF CrearLista, Anunciar, Muere, Sigue, Ir, proceso
  <2> QED
    BY <1>1, <2>1, <2>2 DEF SinElegir, Teletexto
<1>7. ASSUME NEW l, NEW c, NEW m,
             LeerParaCmd(e, l, c, m) \/ ArgsPistas(e, l, c, m),
             m \notin SinElegir, m \in Teletexto => l \in Teletexto \/ teletextSubtitles[e]
      PROVE  PanicoInv'
  <2>1. /\ UNCHANGED <<programa, elegido, lenSubtitles, teletextSubtitles>>
        /\ UNCHANGED <<estado, salida>> /\ pc[e] = l /\ pc' = [pc EXCEPT ![e] = m]
    BY <1>7, Lecturas, Pistas DEF Fijas
  <2> QED
    BY <1>1, <1>7, <2>1
<1>8. CASE LeerVideo(e) \/ ArgsDvb(e) \/ ArgsDvbSubs(e)
  BY <1>7, <1>8 DEF LeerVideo, ArgsDvb, ArgsDvbSubs, SinElegir, Teletexto
<1>9. CASE ArgsAudio(e) \/ ArgsAudioVideo(e)
  <2>1. /\ "argsAudioVideo" \notin SinElegir \cup Teletexto /\ TrasAudio(e) \notin SinElegir
        /\ TrasAudio(e) \in Teletexto => teletextSubtitles[e]
    BY DEF TrasAudio, SinElegir, Teletexto
  <2>2. \E l, c : \E m \in {"argsAudioVideo", TrasAudio(e)} :
          LeerParaCmd(e, l, c, m) \/ ArgsPistas(e, l, c, m)
    BY <1>9 DEF ArgsAudio, ArgsAudioVideo
  <2> QED
    BY <1>7, <2>1, <2>2
<1>10. CASE ArgsSubs(e) \/ ArgsSubsVideo(e)
  <2>1. \E l \in Teletexto : \E c : \E m \in {"anunciar", "argsSubsAudio"} :
          LeerParaCmd(e, l, c, m) \/ ArgsPistas(e, l, c, m)
    BY <1>10 DEF ArgsSubs, ArgsSubsVideo, Teletexto
  <2>2. "anunciar" \notin SinElegir /\ "argsSubsAudio" \notin SinElegir
    BY DEF SinElegir
  <2> QED
    BY <1>7, <2>1, <2>2
<1>11. CASE ArgsSubsAudio(e)
  <2>1. CASE LeerParaCmd(e, "argsSubsAudio", "audio", "argsSubsVideo")
    BY <1>7, <2>1 DEF SinElegir, Teletexto
  <2>2. CASE ~LeerParaCmd(e, "argsSubsAudio", "audio", "argsSubsVideo")
    <3>1. /\ pc[e] = "argsSubsAudio" /\ ~programa["audio"].audio /\ UNCHANGED pc
          /\ UNCHANGED <<programa, elegido, lenSubtitles, teletextSubtitles>>
      BY <1>11, <2>2 DEF ArgsSubsAudio, En, Muere, locales
    <3>2. pc[e] \in Teletexto /\ pc[e] \in Leen
      BY <1>0, <3>1 DEF Teletexto, Despues
    <3>3. programa["audio"] \in Elegidos
      BY <1>0, <3>2, LecturaElegida
    <3>4. PICK p \in Elegidos : p.subs = "teletext"
      BY <3>2 DEF PanicoInv, ConTeletexto
    <3>5. Elegidos' = Elegidos /\ ConSubtitulos' = ConSubtitulos /\ ConTeletexto' = ConTeletexto
      BY <3>1 DEF Elegidos, ConSubtitulos, ConTeletexto
    <3>6. PanicoExplicado'
      BY <3>1, <3>3, <3>4, <3>5 DEF PanicoExplicado
    <3> QED
      BY <3>1, <3>5, <3>6 DEF PanicoInv
  <2> QED
    BY <2>1, <2>2
<1> QED
  BY <1>2, <1>3, <1>4, <1>5, <1>6, <1>8, <1>9, <1>10, <1>11 DEF inicializarFfmpegEncoding

LEMMA PasoPanico ==
  ASSUME MemoriaInv, PanicoInv, [Next]_vars PROVE PanicoInv'
<1>0. /\ pc = [x \in Proc |-> pc[x]] /\ Enc \subseteq Proc /\ Coord \in Proc /\ Coord \notin Enc
      /\ CompartidoInv /\ TipoLocal /\ FormaDisco
  BY EncAssumption DEF MemoriaInv, CompartidoInv, TipoCompartido, LocalInv, DiscoInv, Proc
<1>1. CASE Inicializar
  <2>1. /\ vivo /\ pc[Coord] = "inicio" /\ UNCHANGED <<estado, salida>>
        /\ UNCHANGED <<programa, elegido, lenSubtitles, teletextSubtitles>>
    BY <1>1 DEF Inicializar, En, proceso, locales
  <2>2. \A e \in Enc : pc[e] = "parada"
    BY <1>0, <2>1 DEF FormaDisco
  <2>3. \A x \in Proc : pc[x] \in SinElegir
    BY <2>1, <2>2 DEF Proc, SinElegir
  <2>4. \A e \in Enc : pc'[e] \in {"parada", "sonda"}
    <3>1. CASE configuration.Test
      BY <1>0, <1>1, <2>2, <3>1 DEF Inicializar
    <3>2. CASE ~configuration.Test
      BY <1>0, <1>1, <3>2 DEF Inicializar
    <3> QED
      BY <3>1, <3>2
  <2> QED
    BY <2>1, <2>3, <2>4, PanicoMarco DEF Teletexto
<1>2. CASE FinCodificaciones \/ FinServidor \/ Caida
  <2>1. UNCHANGED pc /\ UNCHANGED <<programa, elegido, lenSubtitles, teletextSubtitles>>
        /\ salida' # "panico"
    BY <1>2 DEF FinCodificaciones, FinServidor, Caida, Mensaje, locales
  <2> QED
    BY <2>1, PanicoMarco
<1>3. CASE ArrancarServidor \/ CaerServidor
  BY <1>3, PanicoMarco DEF ArrancarServidor, CaerServidor, proceso, locales
<1>4. CASE \E x \in Proc : obtenerStreamsPost(x)
  BY <1>0, <1>4, PanicoSonda
<1>5. CASE \E e \in Enc : inicializarFfmpegEncoding(e)
  BY <1>0, <1>5, PanicoCodificacion
<1>6. CASE \E e \in Enc : FinFfmpeg(e) \/ Entregar(e)
  <2>1. PICK e \in Enc : FinFfmpeg(e) \/ Entregar(e)
    BY <1>6
  <2>2. /\ UNCHANGED <<programa, elegido, lenSubtitles, teletextSubtitles>>
        /\ UNCHANGED <<estado, salida>>
        /\ \E l \in {"resultado", "enviado"} : pc' = [pc EXCEPT ![e] = l]
    BY <2>1 DEF FinFfmpeg, Entregar, Sigue, Ir, proceso, locales
  <2>3. /\ \A x \in Proc : pc'[x] \in SinElegir => pc[x] \in SinElegir
        /\ \A f \in Enc : pc'[f] \in Teletexto => pc[f] \in Teletexto
    BY <1>0, <2>2 DEF SinElegir, Teletexto
  <2> QED
    BY <2>2, <2>3, PanicoMarco
<1>7. CASE Reiniciar
  <2>1. /\ pc' = PcInicial /\ estado' = "vivo" /\ programa' = [c \in Campos |-> Nada]
        /\ elegido' = [x \in Proc |-> Nada]
        /\ lenSubtitles' = [e \in Enc |-> FALSE] /\ teletextSubtitles' = [e \in Enc |-> FALSE]
    BY <1>7 DEF Reiniciar
  <2>2. \A e \in Enc : pc'[e] = "parada"
    BY <1>0, <2>1 DEF PcInicial
  <2>3. PanicoExplicado'
    BY <2>1 DEF PanicoExplicado, vivo
  <2> QED
    BY <2>1, <2>2, <2>3 DEF PanicoInv, Teletexto
<1>8. CASE Detenido \/ UNCHANGED vars
  BY <1>8, PanicoMarco DEF Detenido, vars, proceso, locales
<1> QED
  BY <1>1, <1>2, <1>3, <1>4, <1>5, <1>6, <1>7, <1>8 DEF Next

(***************************************************************************)
(* subtitulos[0] and audio[0] panic only when the programs the goroutines  *)
(* chose disagree about the subtitles, or one has teletext and one has no  *)
(* audio, for any number of encodings and any reports.                     *)
(***************************************************************************)
THEOREM PanicosExplicados == Spec => []PanicoExplicado
<1>1. Init => PanicoInv
  <2> SUFFICES ASSUME Init PROVE PanicoInv
    OBVIOUS
  <2>1. /\ pc = PcInicial /\ estado = "vivo" /\ programa = [c \in Campos |-> Nada]
        /\ elegido = [x \in Proc |-> Nada]
        /\ lenSubtitles = [e \in Enc |-> FALSE] /\ teletextSubtitles = [e \in Enc |-> FALSE]
    BY DEF Init
  <2>2. \A e \in Enc : pc[e] = "parada"
    BY <2>1, EncAssumption DEF PcInicial, Proc
  <2>3. PanicoExplicado
    BY <2>1 DEF PanicoExplicado, vivo
  <2> QED
    BY <2>1, <2>2, <2>3 DEF PanicoInv, Teletexto
<1>2. MemoriaInv /\ PanicoInv /\ [Next]_vars => PanicoInv'
  BY PasoPanico
<1>3. PanicoInv => PanicoExplicado
  BY DEF PanicoInv
<1> QED
  BY <1>1, <1>2, <1>3, Memoria, PTL DEF Spec

-----------------------------------------------------------------------------
(***************************************************************************)
(* When ffmpeg starts, every track the master playlist announces is in its *)
(* command and has its directory, through any number of restarts.          *)
(***************************************************************************)
THEOREM PistasAnunciadasHechas == Spec => []PistasProducidas
<1>1. MemoriaInv => PistasProducidas
  <2> SUFFICES ASSUME MemoriaInv, NombresDistintos, EntradaEstable, NEW e \in Enc,
                      pc[e] = "ffmpeg", NEW u \in lista[e]
               PROVE  Hecha(e, u)
    BY DEF PistasProducidas, Hecha, Suya
  <2>1. Producida(e)
    BY DEF MemoriaInv, LocalInv
  <2>2. PICK c \in {"audio", "subs"}, p \in Elegibles : u = <<c, p>>
    BY <2>1 DEF Producida
  <2> QED
    BY <2>1, <2>2 DEF Producida
<1> QED
  BY <1>1, Memoria, PTL

-----------------------------------------------------------------------------
(* The types that no argument above has needed. *)
Etiquetas == Antes \cup Despues \cup Lanzado \cup {"inicio", "recibir", "mensaje"}

Causas == {"", "fatal", "panico", "codificaciones", "servidor", "caida"}

TipoProceso ==
  /\ configuration \in Configs
  /\ estado \in {"vivo", "muerto"}
  /\ salida \in Causas
  /\ arranque \in 1..MaxArranques
  /\ pc \in [Proc -> Etiquetas]
  /\ web \in {"inicio", "retornado", "sirviendo", "caido"}

LEMMA EtiquetasPaso ==
  ASSUME pc \in [Proc -> Etiquetas], NEW x \in Proc, NEW l \in Etiquetas,
         pc' = [pc EXCEPT ![x] = l]
  PROVE  pc' \in [Proc -> Etiquetas]
OBVIOUS

LEMMA PasoTipo ==
  ASSUME TipoProceso, [Next]_vars PROVE TipoProceso'
<1>0. /\ Enc \subseteq Proc /\ Coord \in Proc /\ PcFuncion
      /\ {"sonda", "recibir", "parada", "inicio", "resultado", "enviado"} \subseteq Etiquetas
      /\ Sondeo \cup {"lenSubtitles", "mensaje"} \subseteq Etiquetas
      /\ Trabajo \cup {"ffmpeg"} \subseteq Etiquetas
      /\ pc \in [Proc -> Etiquetas]
  BY DEF Proc, TipoProceso, PcFuncion, Etiquetas, Antes, Despues, Lanzado, Sondeo, Trabajo
<1>1. CASE Inicializar
  <2>1. UNCHANGED <<configuration, estado, salida, arranque, web>>
    BY <1>1 DEF Inicializar, proceso
  <2>2. pc' \in [Proc -> Etiquetas]
    <3>1. CASE configuration.Test
      BY <1>0, <1>1, <3>1 DEF Inicializar
    <3>2. CASE ~configuration.Test
      BY <1>0, <1>1, <3>2 DEF Inicializar
    <3> QED
      BY <3>1, <3>2
  <2> QED
    BY <2>1, <2>2 DEF TipoProceso
<1>C. {"fatal", "panico", "codificaciones", "servidor", "caida"} \subseteq Causas
  BY Zenon DEF Causas
<1>2. CASE FinCodificaciones \/ FinServidor \/ Caida
  BY <1>2, <1>C DEF TipoProceso, FinCodificaciones, FinServidor, Caida, Mensaje
<1>3. CASE ArrancarServidor \/ CaerServidor
  BY <1>3 DEF TipoProceso, ArrancarServidor, CaerServidor, proceso
<1>M. ASSUME Cae, UNCHANGED web PROVE TipoProceso'
  BY <1>C, <1>M DEF TipoProceso, Cae, Muere
<1>S. ASSUME NEW x \in Proc, NEW l \in Etiquetas, pc' = [pc EXCEPT ![x] = l],
             UNCHANGED <<configuration, estado, salida, arranque>>, UNCHANGED web
      PROVE  TipoProceso'
  BY <1>0, <1>S, EtiquetasPaso DEF TipoProceso
<1>4. ASSUME NEW x \in Proc, obtenerStreamsPost(x) PROVE TipoProceso'
  <2>1. UNCHANGED web
    BY <1>4, Zenon DEF obtenerStreamsPost, Sondear, PostError, LeerPrograma, PostStreams,
       Elegir, CopiarId, CopiarCampo
  <2> QED
    BY <1>0, <1>4, <1>M, <1>S, <2>1, FormaSonda
<1>5. ASSUME NEW e \in Enc, inicializarFfmpegEncoding(e) PROVE TipoProceso'
  <2>1. UNCHANGED web
    <3>1. CASE \/ LeerParaCmd(e, "videoMap", "video", "teletexto")
               \/ \E l, m \in Despues, c \in Campos : LeerParaCmd(e, l, c, m)
      BY <3>1, Lecturas DEF Fijas
    <3>2. CASE \E l, m \in Despues, c \in Campos : ArgsPistas(e, l, c, m)
      BY <3>2, Pistas DEF Fijas
    <3>3. CASE \/ LeerLenSubtitles(e) \/ LeerTeletexto(e)
               \/ CopiarParaLista(e, "listaAudio", "audio", "listaSubs")
               \/ CopiarParaLista(e, "listaSubs", "subs", "borrar")
               \/ BorrarDirectorio(e) \/ CrearLista(e) \/ EscribirLista(e)
               \/ Revienta(e) \/ Anunciar(e)
      BY <3>3, Zenon DEF LeerLenSubtitles, LeerTeletexto, CopiarParaLista,
         BorrarDirectorio, CrearLista, EscribirLista, Revienta, Fijas, Anunciar
    <3> QED
      BY <1>5, <3>1, <3>2, <3>3, Clases
  <2> QED
    BY <1>0, <1>5, <1>M, <1>S, <2>1, FormaCodificacion
<1>6. CASE \E e \in Enc : FinFfmpeg(e) \/ Entregar(e)
  <2>1. PICK e \in Enc : FinFfmpeg(e) \/ Entregar(e)
    BY <1>6
  <2>2. /\ UNCHANGED <<configuration, estado, salida, arranque>> /\ UNCHANGED web
        /\ \E l \in {"resultado", "enviado"} : pc' = [pc EXCEPT ![e] = l]
    BY <2>1 DEF FinFfmpeg, Entregar, Sigue, Ir, proceso
  <2> QED
    BY <1>0, <1>S, <2>2
<1>7. CASE Reiniciar
  <2>1. pc' \in [Proc -> Etiquetas]
    BY <1>0, <1>7 DEF Reiniciar, PcInicial
  <2>2. arranque' \in 1..MaxArranques
    BY <1>7, MaxArranquesAssumption DEF TipoProceso, Reiniciar
  <2> QED
    BY <1>7, <2>1, <2>2 DEF TipoProceso, Reiniciar
<1>8. CASE Detenido \/ UNCHANGED vars
  BY <1>8 DEF TipoProceso, Detenido, vars, proceso
<1> QED
  BY <1>1, <1>2, <1>3, <1>4, <1>5, <1>6, <1>7, <1>8 DEF Next

(***************************************************************************)
(* Every variable has its type.  That nobody reads a field of programa     *)
(* that is still empty (the playlists and the commands hold programs only) *)
(* is the part with an argument: it is CompartidoInv.                      *)
(***************************************************************************)
THEOREM Tipos == Spec => []TypeOK
<1>1. Init => TipoProceso /\ CuentaInv
  <2> SUFFICES ASSUME Init PROVE TipoProceso /\ CuentaInv
    OBVIOUS
  <2>1. /\ configuration \in Configs /\ estado = "vivo" /\ salida \in Causas
        /\ arranque = 1 /\ pc = PcInicial /\ web = "inicio"
    BY Zenon DEF Init, Causas
  <2>2. pc \in [Proc -> Etiquetas]
    BY <2>1 DEF PcInicial, Etiquetas, Antes
  <2>3. TipoProceso
    BY <2>1, <2>2, MaxArranquesAssumption DEF TipoProceso
  <2> QED
    BY <2>3, InicioCuenta
<1>2. TipoProceso /\ CuentaInv /\ [Next]_vars => TipoProceso' /\ CuentaInv'
  BY PasoTipo, PasoCuenta
<1>3. MemoriaInv /\ TipoProceso /\ CuentaInv => TypeOK
  <2> SUFFICES ASSUME MemoriaInv, TipoProceso, CuentaInv PROVE TypeOK
    OBVIOUS
  <2>1. recibidos \in 0..Cardinality(Enc)
    <3>1. Cardinality(Enviados) <= Cardinality(Enc)
      BY EncAssumption, FS_Subset DEF Enviados
    <3> QED
      BY <3>1, EnviadosFinito DEF CuentaInv
  <2>2. Elegibles \subseteq Reportados
    BY DEF Elegibles
  <2>3. /\ programaId \in {SinPrograma} \cup {p.sid : p \in Reportados}
        /\ programa \in [Campos -> Reportados \cup {Nada}]
        /\ elegido \in [Proc -> Reportados \cup {Nada}]
    BY <2>2 DEF MemoriaInv, CompartidoInv, TipoCompartido, IdElegible
  <2>4. \A x \in Proc : informe[x] \in Informes \cup {<<>>} /\ k[x] \in Nat \ {0}
    BY DEF MemoriaInv, CompartidoInv, TipoCompartido
  <2>5. \A e \in Enc : /\ lista[e] \in SUBSET (Campos \X Reportados)
                       /\ cmd[e] \in SUBSET (Campos \X Reportados)
    BY <2>2 DEF MemoriaInv, CompartidoInv, UsosInv
  <2>6. DOMAIN disco = Dirs /\ fallo \in [Enc -> SUBSET {"borrar", "escribir", "pista"}]
    BY DEF MemoriaInv, DiscoInv, FormaDisco
  <2>7. anuncios \in [Enc -> 0..MaxArranques]
    <3>1. \A e \in Enc : anuncios[e] \in 0..MaxArranques
      BY MaxArranquesAssumption DEF MemoriaInv, DiscoInv, FormaDisco, TipoProceso
    <3> QED
      BY <3>1 DEF MemoriaInv, DiscoInv, FormaDisco
  <2>8. lenSubtitles \in [Enc -> BOOLEAN] /\ teletextSubtitles \in [Enc -> BOOLEAN]
    BY DEF MemoriaInv, LocalInv, TipoLocal
  <2> QED
    BY <2>1, <2>3, <2>4, <2>5, <2>6, <2>7, <2>8, Zenon
       DEF TypeOK, TipoProceso, Etiquetas, Causas
<1> QED
  BY <1>1, <1>2, <1>3, Memoria, PTL DEF Spec

=============================================================================
