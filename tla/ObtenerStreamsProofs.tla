------------------------ MODULE ObtenerStreamsProofs ------------------------
(***************************************************************************)
(* Proofs about ObtenerStreams, for every report of ffprobe and every      *)
(* configuration: type correctness, unique track names, the program that   *)
(* is selected, what it holds, and the completeness of the summary posted  *)
(* to Titania.                                                             *)
(***************************************************************************)
EXTENDS ObtenerStreams, SequenceTheorems, TLAPS

-----------------------------------------------------------------------------
(* Facts about the data *)

(* What the fields of a report line may hold, by the kind of line. *)
LEMMA LineaTipo ==
  ASSUME NEW l \in Linea
  PROVE  /\ l.tipo = "Program" => l.sid \in Sid
         /\ l.tipo = "Service" => l.nombre \in Servicio
         /\ l.tipo = "Stream" => /\ l.id \in Nat
                                 /\ l.hexaId \in Hexa
                                 /\ l.language \in Lang \cup {""}
BY DEF Linea

(* Putting a program in the map (Poner) adds its key and keeps the types.  *)
LEMMA PonerTipo ==
  ASSUME NEW f, NEW S, NEW D, DOMAIN f \subseteq D,
         f \in [DOMAIN f -> S], NEW k \in D, NEW v \in S
  PROVE  /\ DOMAIN Poner(f, k, v) = DOMAIN f \cup {k}
         /\ DOMAIN Poner(f, k, v) \subseteq D
         /\ Poner(f, k, v) \in [DOMAIN Poner(f, k, v) -> S]
         /\ Poner(f, k, v)[k] = v
         /\ \A x \in DOMAIN f : x # k => Poner(f, k, v)[x] = f[x]
BY DEF Poner

(* A new program (the literals of codificacion.go) is a program.           *)
LEMMA NuevoTipo ==
  ASSUME NEW p \in ProgId, NEW nombre \in NombreServicio
  PROVE  NuevoPrograma(p, nombre) \in Programa
<1>1. SinVideo \in Video
  BY DEF SinVideo, Video, SinHexa, Hexa
<1>2. <<>> \in Seq(Audio) /\ <<>> \in Seq(Subtitulo)
  BY EmptySeq
<1> QED
  BY <1>1, <1>2 DEF NuevoPrograma, Programa

(* The name given to an audio stream has its pid, and one suffix. *)
LEMMA NombreInicialTipo ==
  ASSUME NEW l \in Linea, l.tipo = "Stream"
  PROVE  NombreInicial(l) \in NombreAudio /\ NombreInicial(l).n = 1
<1>1. hex2int(l.hexaId) \in Nat
  BY LineaTipo DEF hex2int, Hexa, SinHexa
<1> QED
  BY <1>1, LineaTipo DEF NombreInicial, NombreAudio

(* After AbrirPrograma the current program is in the map, with its types.  *)
LEMMA AbiertosTipo ==
  ASSUME TipoMapa, informe \in Informe
  PROVE  /\ Actual \in ProgId
         /\ DOMAIN Abiertos \subseteq ProgId
         /\ Abiertos \in [DOMAIN Abiertos -> Programa]
         /\ Actual \in DOMAIN Abiertos
         /\ DOMAIN programas \subseteq DOMAIN Abiertos
         /\ InformeAbierto \in Informe
<1>1. MenosUno \in ProgId
  BY DEF ProgId
<1>2. NuevoPrograma(MenosUno, "No name") \in Programa
  BY <1>1, NuevoTipo DEF NombreServicio
<1>3. CASE SinAbrir
  <2> DEFINE nuevo == NuevoPrograma(MenosUno, "No name")
             g == Poner(programas, MenosUno, nuevo)
  <2>1. /\ DOMAIN g = DOMAIN programas \cup {MenosUno}
        /\ DOMAIN g \subseteq ProgId
        /\ g \in [DOMAIN g -> Programa]
    <3>1. DOMAIN programas \subseteq ProgId /\ programas \in [DOMAIN programas -> Programa]
      BY DEF TipoMapa
    <3>2. nuevo \in Programa
      BY <1>2
    <3> HIDE DEF nuevo
    <3> QED
      BY ONLY <1>1, <3>1, <3>2, PonerTipo
  <2>2. Abiertos = g /\ Actual = MenosUno
    BY <1>3 DEF Abiertos, Actual
  <2>3. InformeAbierto \in Informe
    BY <1>1, <1>3 DEF InformeAbierto, Informe, NombreServicio
  <2> QED
    BY <1>1, <2>1, <2>2, <2>3
<1>4. CASE ~SinAbrir
  BY <1>4 DEF SinAbrir, Abiertos, Actual, InformeAbierto, TipoMapa, ProgId
<1> QED
  BY <1>3, <1>4

(* Clave of a stream line, or of an audio track, is what a summary holds.  *)
LEMMA ClaveTipo ==
  /\ \A l \in Linea : l.tipo = "Stream" => Clave(l) \in Pista /\ Clave(l) \in Video
  /\ \A a \in Audio : Clave(a) \in Pista
BY LineaTipo DEF Clave, Pista, Video, Audio

(* Adding a stream to the summary gives a summary. *)
LEMMA InformeMas ==
  ASSUME NEW inf \in Informe, NEW c \in Pista
  PROVE  /\ [inf EXCEPT !.video = inf.video \cup {c}] \in Informe
         /\ [inf EXCEPT !.audio = inf.audio \cup {c}] \in Informe
         /\ [inf EXCEPT !.subtitulo = inf.subtitulo \cup {c}] \in Informe
BY DEF Informe

-----------------------------------------------------------------------------
(* Type correctness *)

(* The initial values have their types. *)
LEMMA InitTipo == Init => TypeOK
<1> SUFFICES ASSUME Init PROVE TypeOK
  OBVIOUS
<1>1. ElemVacio \in Audio
  BY DEF ElemVacio, Audio, NombreAudio, Hexa, SinHexa
<1>2. InformeVacio \in Informe
  BY DEF InformeVacio, Informe, NombreServicio
<1>3. SinVideo \in Video
  BY DEF SinVideo, Video, SinHexa, Hexa
<1>4. <<>> \in Seq(Audio) /\ <<>> \in Seq(Subtitulo) /\ <<>> \in Seq(Linea)
  BY EmptySeq
<1>5. NuevoPrograma(SinPrograma, "") \in ProgramaGlobal
  BY <1>3, <1>4 DEF NuevoPrograma, ProgramaGlobal, NombreServicio
<1>6. /\ DOMAIN programas \subseteq ProgId
      /\ programas \in [DOMAIN programas -> Programa]
  BY DEF Init
<1>7. ok \in BOOLEAN
  BY Zenon DEF Init
<1>8. lineas \in Seq(Linea)
  BY <1>4 DEF Init
<1>9. elem \in Audio /\ informe \in Informe /\ programa \in ProgramaGlobal
  BY <1>1, <1>2, <1>5, Zenon DEF Init
<1>10. i = 1 /\ j = 1
  BY Zenon DEF Init
<1>11. i \in Nat \ {0} /\ j \in Nat \ {0}
  BY <1>10
<1>12. TipoControl
  BY <1>8, <1>11, Zenon DEF Init, TipoControl
<1>13. TipoMapa
  BY <1>6, Zenon DEF Init, TipoMapa
<1> QED
  BY <1>7, <1>9, <1>11, <1>12, <1>13, Zenon DEF TypeOK, TipoSalida, TipoAudio

(* The preamble of a stream line sets programId and the global variable.   *)
LEMMA AbrirTipo ==
  ASSUME TipoMapa, TipoSalida, AbrirPrograma
  PROVE  /\ programId' = Actual
         /\ programId' \in ProgId
         /\ programId' # SinPrograma
         /\ programa' \in ProgramaGlobal
<1>1. programId' = Actual /\ Actual \in ProgId
  BY AbiertosTipo DEF AbrirPrograma, TipoSalida
<1>2. SinPrograma \notin ProgId
  BY SidAssumption DEF ProgId, SinPrograma, MenosUno
<1>3. MenosUno \in ProgId
  BY DEF ProgId
<1> QED
  BY <1>1, <1>2, <1>3 DEF AbrirPrograma, TipoSalida, ProgramaGlobal

(* Advancing to the next line keeps the control state's types. *)
LEMMA AvanzarTipo ==
  ASSUME TipoControl, AvanzarLinea, pc' \in {"lineas", "renombrar", "panic"}
  PROVE  TipoControl'
BY DEF TipoControl, AvanzarLinea

(* Reading one line of the report keeps the types. *)
LEMMA LeerTipo ==
  ASSUME TypeOK, NEW l \in Linea, pc = "lineas", Leer(l)
  PROVE  TypeOK'
<1>0. /\ MenosUno \in ProgId
      /\ SinPrograma \notin ProgId
      /\ Sid \subseteq ProgId
  BY SidAssumption DEF ProgId, SinPrograma, MenosUno
<1>t. TipoControl /\ TipoMapa /\ TipoSalida /\ TipoAudio
  BY DEF TypeOK
<1>1. ASSUME LineaPrograma(l) PROVE TypeOK'
  <2>1. l.sid \in ProgId
    BY <1>0, <1>1, LineaTipo DEF LineaPrograma
  <2>2. NuevoPrograma(l.sid, "") \in Programa
    BY <2>1, NuevoTipo DEF NombreServicio
  <2> DEFINE g == Poner(programas, l.sid, NuevoPrograma(l.sid, ""))
  <2>3. programas' = g /\ programId' = l.sid /\ pc' = pc
    BY <1>1 DEF LineaPrograma
  <2>4. /\ DOMAIN g = DOMAIN programas \cup {l.sid}
        /\ DOMAIN g \subseteq ProgId
        /\ g \in [DOMAIN g -> Programa]
    <3>1. /\ DOMAIN programas \subseteq ProgId
          /\ programas \in [DOMAIN programas -> Programa]
      BY <1>t DEF TipoMapa
    <3> QED
      BY <2>1, <2>2, <3>1 DEF Poner
  <2> HIDE DEF g
  <2>5. TipoMapa'
    BY <2>1, <2>3, <2>4, <1>0 DEF TipoMapa
  <2>6. programa' \in ProgramaGlobal
    BY <1>1, <1>t, <2>1 DEF LineaPrograma, ProgramaGlobal, TipoSalida
  <2>7. informe' \in Informe
    BY <1>1, <1>t, <2>1 DEF LineaPrograma, InformeConSid, Informe, TipoSalida
  <2>8. TipoAudio'
    BY <1>1, <1>t, Zenon DEF LineaPrograma, TipoAudio
  <2>9. TipoControl'
    BY <1>1, <1>t, <2>3, AvanzarTipo DEF LineaPrograma
  <2> QED
    BY <2>5, <2>6, <2>7, <2>8, <2>9 DEF TypeOK, TipoSalida
<1>2. ASSUME LineaServicio(l) PROVE TypeOK'
  <2> DEFINE q == [programas[programId] EXCEPT !.nombre = l.nombre]
  <2>1. /\ programId \in DOMAIN programas
        /\ programas[programId] \in Programa
    BY <1>2, <1>t DEF LineaServicio, TipoMapa
  <2>2. l.nombre \in NombreServicio
    BY <1>2, LineaTipo DEF LineaServicio, NombreServicio
  <2>3. q \in Programa
    BY <2>1, <2>2 DEF Programa
  <2>4. /\ programas' = [programas EXCEPT ![programId] = q]
        /\ pc' = pc /\ programId' = programId
    BY <1>2 DEF LineaServicio
  <2> HIDE DEF q
  <2>5. TipoMapa'
    BY <1>t, <2>1, <2>3, <2>4 DEF TipoMapa
  <2>6. TipoSalida'
    BY <1>2, <1>t, <2>2 DEF LineaServicio, Informe, TipoSalida
  <2>7. TipoAudio'
    BY <1>2, <1>t, Zenon DEF LineaServicio, TipoAudio
  <2>8. TipoControl'
    BY <1>2, <1>t, <2>4, AvanzarTipo DEF LineaServicio
  <2> QED
    BY <2>5, <2>6, <2>7, <2>8 DEF TypeOK
<1>3. ASSUME LineaIgnorada(l) PROVE TypeOK'
  <2>1. TipoControl'
    BY <1>3, <1>t, AvanzarTipo DEF LineaIgnorada
  <2>2. TipoMapa' /\ TipoSalida' /\ TipoAudio'
    BY <1>3, <1>t, Zenon DEF LineaIgnorada, TipoMapa, TipoSalida, TipoAudio
  <2> QED
    BY <2>1, <2>2 DEF TypeOK
<1>a. /\ Actual \in ProgId
      /\ DOMAIN Abiertos \subseteq ProgId
      /\ Abiertos \in [DOMAIN Abiertos -> Programa]
      /\ Actual \in DOMAIN Abiertos
      /\ Abiertos[Actual] \in Programa
      /\ InformeAbierto \in Informe
  BY <1>t, AbiertosTipo DEF TipoSalida
<1>b. ASSUME LineaStream(l)
      PROVE  /\ programId' = Actual
             /\ programId' # SinPrograma
             /\ programa' \in ProgramaGlobal
             /\ l.tipo = "Stream"
  BY <1>b, <1>t, AbrirTipo DEF LineaStream
<1>4. ASSUME LineaDescartada(l) PROVE TypeOK'
  <2>1. /\ programas' = Abiertos /\ informe' = InformeAbierto /\ pc' = pc
        /\ LineaStream(l)
    BY <1>4 DEF LineaDescartada
  <2>2. TipoMapa'
    BY <2>1, <1>a, <1>b DEF TipoMapa
  <2>3. TipoSalida'
    BY <2>1, <1>a, <1>b DEF TipoSalida
  <2>4. TipoAudio'
    BY <1>4, <1>t, Zenon DEF LineaDescartada, TipoAudio
  <2>5. TipoControl'
    BY <2>1, <1>t, AvanzarTipo DEF LineaStream
  <2> QED
    BY <2>2, <2>3, <2>4, <2>5 DEF TypeOK
<1>5. ASSUME LineaVideo(l) PROVE TypeOK'
  <2> DEFINE q == [Abiertos[Actual] EXCEPT !.video = Clave(l)]
  <2>1. LineaStream(l) /\ pc' \in {"lineas", "panic"}
    BY <1>5 DEF LineaVideo
  <2>2. Clave(l) \in Video /\ Clave(l) \in Pista
    BY <2>1, <1>b, ClaveTipo
  <2>3. q \in Programa
    BY <2>2, <1>a DEF Programa
  <2>4. \/ programas' = [Abiertos EXCEPT ![Actual] = q]
        \/ programas' = Abiertos
    BY <1>5 DEF LineaVideo
  <2> HIDE DEF q
  <2>5. TipoMapa'
    BY <2>1, <2>3, <2>4, <1>a, <1>b DEF TipoMapa
  <2>6. informe' \in Informe
    <3>1. \/ informe' = [InformeAbierto EXCEPT
                          !.video = InformeAbierto.video \cup {Clave(l)}]
          \/ informe' = InformeAbierto
      BY <1>5 DEF LineaVideo
    <3> QED
      BY <3>1, <1>a, <2>2, InformeMas
  <2>7. TipoAudio'
    BY <1>5, <1>t, Zenon DEF LineaVideo, TipoAudio
  <2>8. TipoControl'
    BY <2>1, <1>t, AvanzarTipo DEF LineaStream
  <2> QED
    BY <2>1, <1>b, <2>5, <2>6, <2>7, <2>8 DEF TypeOK, TipoSalida
<1>6. ASSUME LineaAudio(l) PROVE TypeOK'
  <2>1. /\ programas' = Abiertos /\ informe' = InformeAbierto
        /\ pc' = "renombrar" /\ j' = 1 /\ LineaStream(l)
        /\ elem' = [id |-> l.id, hexaId |-> l.hexaId,
                    language |-> NombreInicial(l)]
    BY <1>6 DEF LineaAudio
  <2>2. TipoMapa'
    BY <2>1, <1>a, <1>b DEF TipoMapa
  <2>3. TipoSalida'
    BY <2>1, <1>a, <1>b DEF TipoSalida
  <2>4. ok' \in BOOLEAN
    BY <1>6, Zenon DEF LineaAudio
  <2>5. elem' \in Audio
    BY <2>1, <1>b, LineaTipo, NombreInicialTipo DEF Audio
  <2>6. TipoAudio'
    BY <2>1, <2>4, <2>5 DEF TipoAudio
  <2>7. TipoControl'
    BY <2>1, <1>t, AvanzarTipo DEF LineaStream
  <2> QED
    BY <2>2, <2>3, <2>6, <2>7 DEF TypeOK
<1>7. ASSUME LineaSubtitulo(l) PROVE TypeOK'
  <2> DEFINE sub == [id |-> l.id, hexaId |-> l.hexaId,
                     language |-> IdiomaSub(l)]
             subs == Append(Abiertos[Actual].subtitulos, sub)
             q == [Abiertos[Actual] EXCEPT !.subtitulos = subs]
  <2>1. LineaStream(l) /\ pc' = pc
    BY <1>7 DEF LineaSubtitulo
  <2>2. Clave(l) \in Pista
    BY <2>1, <1>b, ClaveTipo
  <2>3. sub \in Subtitulo
    BY <2>1, <1>b, LineaTipo DEF IdiomaSub, Subtitulo
  <2>4. Abiertos[Actual].subtitulos \in Seq(Subtitulo)
    BY <1>a DEF Programa
  <2>5. \/ programas' = [Abiertos EXCEPT ![Actual] = q]
        \/ programas' = Abiertos
    BY <1>7 DEF LineaSubtitulo
  <2> HIDE DEF sub
  <2>6. subs \in Seq(Subtitulo)
    BY <2>3, <2>4, AppendProperties
  <2> HIDE DEF subs
  <2>7. q \in Programa
    BY <2>6, <1>a DEF Programa
  <2> HIDE DEF q
  <2>8. TipoMapa'
    BY <2>1, <2>5, <2>7, <1>a, <1>b DEF TipoMapa
  <2>9. informe' \in Informe
    <3>1. \/ informe' = [InformeAbierto EXCEPT
                   !.subtitulo = InformeAbierto.subtitulo \cup {Clave(l)}]
          \/ informe' = InformeAbierto
      BY <1>7 DEF LineaSubtitulo
    <3> QED
      BY <3>1, <1>a, <2>2, InformeMas
  <2>10. TipoAudio'
    BY <1>7, <1>t, Zenon DEF LineaSubtitulo, TipoAudio
  <2>11. TipoControl'
    BY <2>1, <1>t, AvanzarTipo DEF LineaStream
  <2> QED
    BY <2>1, <1>b, <2>8, <2>9, <2>10, <2>11 DEF TypeOK, TipoSalida
<1> QED
  BY <1>1, <1>2, <1>3, <1>4, <1>5, <1>6, <1>7 DEF Leer

(* Every step keeps the types. *)
LEMMA PasoTipo == TypeOK /\ [Next]_vars => TypeOK'
<1> SUFFICES ASSUME TypeOK, [Next]_vars PROVE TypeOK'
  OBVIOUS
<1>t. TipoControl /\ TipoMapa /\ TipoSalida /\ TipoAudio
  BY DEF TypeOK
<1>1. CASE Ffprobe
  <2>1. TipoControl'
    BY <1>1, <1>t, InformesAssumption DEF Ffprobe, TipoControl
  <2>2. TipoMapa'
    BY <1>1, <1>t, Zenon DEF Ffprobe, TipoMapa
  <2>3. TipoSalida' /\ TipoAudio'
    BY <1>1, <1>t, Zenon DEF Ffprobe, TipoSalida, TipoAudio
  <2> QED
    BY <2>1, <2>2, <2>3 DEF TypeOK
<1>2. CASE PostError
  <2>1. TipoControl'
    BY <1>2, <1>t DEF PostError, TipoControl
  <2>2. TipoMapa'
    BY <1>2, <1>t, Zenon DEF PostError, TipoMapa
  <2>3. TipoSalida' /\ TipoAudio'
    BY <1>2, <1>t, Zenon DEF PostError, TipoSalida, TipoAudio
  <2> QED
    BY <2>1, <2>2, <2>3 DEF TypeOK
<1>3. CASE LeerLinea
  <2>1. lineas[i] \in Linea
    BY <1>3, <1>t DEF LeerLinea, TipoControl
  <2> QED
    BY <1>3, <2>1, LeerTipo DEF LeerLinea
<1>4. CASE Renombrar
  <2>1. TipoControl'
    BY <1>4, <1>t, Zenon DEF Renombrar, TipoControl
  <2>2. TipoMapa' /\ TipoSalida' /\ ok' \in BOOLEAN
    BY <1>4, <1>t, Zenon DEF Renombrar, TipoMapa, TipoSalida, TipoAudio
  <2>3. elem' \in Audio
    BY <1>4, <1>t DEF Renombrar, Renombrado, TipoAudio, Audio, NombreAudio
  <2>4. j' \in Nat \ {0}
    BY <1>4, <1>t DEF Renombrar, TipoAudio
  <2> QED
    BY <2>1, <2>2, <2>3, <2>4, Zenon DEF TypeOK, TipoAudio
<1>5. CASE FinRenombrar
  <2> DEFINE auds == Append(programas[programId].audio, elem)
             q == [programas[programId] EXCEPT !.audio = auds]
  <2>1. /\ programId \in DOMAIN programas
        /\ programas[programId] \in Programa
    BY <1>5, <1>t DEF FinRenombrar, TipoMapa
  <2>2. programas[programId].audio \in Seq(Audio)
    BY <2>1 DEF Programa
  <2>3. auds \in Seq(Audio)
    BY <1>t, <2>2, AppendProperties DEF TipoAudio
  <2>4. /\ programas' = [programas EXCEPT ![programId] = q] \/ programas' = programas
        /\ pc' = "lineas" /\ programId' = programId
    BY <1>5 DEF FinRenombrar
  <2> HIDE DEF auds
  <2>5. q \in Programa
    BY <2>1, <2>3 DEF Programa
  <2> HIDE DEF q
  <2>6. TipoMapa'
    BY <1>t, <2>1, <2>4, <2>5 DEF TipoMapa
  <2>7. informe' \in Informe
    <3>1. Clave(elem) \in Pista
      BY <1>t, ClaveTipo DEF TipoAudio
    <3>2. \/ informe' = [informe EXCEPT
                          !.audio = informe.audio \cup {Clave(elem)}]
          \/ informe' = informe
      BY <1>5 DEF FinRenombrar
    <3> QED
      BY <3>1, <3>2, <1>t, InformeMas DEF TipoSalida
  <2>8. programa' \in ProgramaGlobal /\ TipoAudio'
    BY <1>5, <1>t, Zenon DEF FinRenombrar, TipoSalida, TipoAudio
  <2>9. TipoControl'
    BY <1>5, <1>t DEF FinRenombrar, TipoControl
  <2> QED
    BY <2>6, <2>7, <2>8, <2>9 DEF TypeOK, TipoSalida
<1>6. CASE PostStreams
  <2>1. TipoControl'
    BY <1>6, <1>t DEF PostStreams, TipoControl
  <2>2. TipoMapa'
    BY <1>6, <1>t DEF PostStreams, TipoMapa
  <2>3. TipoSalida' /\ TipoAudio'
    BY <1>6, <1>t, Zenon DEF PostStreams, TipoSalida, TipoAudio
  <2> QED
    BY <2>1, <2>2, <2>3 DEF TypeOK
<1>7. CASE Elegir
  <2>1. TipoControl'
    BY <1>7, <1>t DEF Elegir, TipoControl
  <2>2. TipoMapa'
    BY <1>7, <1>t DEF Elegir, TipoMapa
  <2>3. informe' \in Informe /\ TipoAudio'
    BY <1>7, <1>t, Zenon DEF Elegir, TipoSalida, TipoAudio
  <2>4. Programa \subseteq ProgramaGlobal
    BY DEF Programa, ProgramaGlobal
  <2>5. programa' \in ProgramaGlobal
    BY <1>7, <1>t, <2>4 DEF Elegir, TipoMapa, TipoSalida
  <2> QED
    BY <2>1, <2>2, <2>3, <2>5 DEF TypeOK, TipoSalida
<1>8. CASE UNCHANGED vars
  BY <1>8, <1>t, Zenon DEF vars, TypeOK, TipoControl, TipoMapa, TipoSalida, TipoAudio
<1> QED
  BY <1>1, <1>2, <1>3, <1>4, <1>5, <1>6, <1>7, <1>8 DEF Next

(* Every call of obtenerStreamsPost keeps its variables within their types,*)
(* whatever ffprobe prints and whatever the configuration.                 *)
THEOREM Tipos == Spec => []TypeOK
BY InitTipo, PasoTipo, PTL DEF Spec

-----------------------------------------------------------------------------
(***************************************************************************)
(* Unique names.  PistasUnicas is not inductive: the renaming loop scans   *)
(* the tracks once while the name it looks for grows, so a track it has    *)
(* passed might hold the final name.  It cannot, because among the tracks  *)
(* of one language and pid the number of suffixes grows with the position  *)
(* (Ordenados) and skips no value (Densos).                                *)
(***************************************************************************)
Mismo(x, y) == /\ x.language.base = y.language.base
               /\ x.language.pid = y.language.pid

Ordenados(a) == \A m, n \in 1..Len(a) :
  m < n /\ Mismo(a[m], a[n]) => a[m].language.n < a[n].language.n

Densos(a) == \A k \in 1..Len(a) : \A v \in 1..(a[k].language.n - 1) :
  \E h \in 1..(k-1) : Mismo(a[h], a[k]) /\ a[h].language.n = v

(* The name of e is free among the first k - 1 tracks, and minimal. *)
Libre(a, e, k) ==
  /\ \A h \in 1..(k-1) : Mismo(a[h], e) => a[h].language.n < e.language.n
  /\ \A v \in 1..(e.language.n - 1) :
       \E h \in 1..(k-1) : Mismo(a[h], e) /\ a[h].language.n = v

(* Two audio names with the same base, pid and suffixes are equal. *)
LEMMA NombreIgual ==
  ASSUME NEW x \in Audio, NEW y \in Audio
  PROVE  x.language = y.language <=>
           Mismo(x, y) /\ x.language.n = y.language.n
BY DEF Audio, NombreAudio, Mismo

(* The number of suffixes of an audio name is a natural number. *)
LEMMA SufijosNat == \A x \in Audio : x.language.n \in Nat
BY DEF Audio, NombreAudio

(* An iteration that meets the name taken leaves the next one free so far. *)
LEMMA LibreTrasChoque ==
  ASSUME NEW a \in Seq(Audio), NEW e \in Audio, NEW k \in 1..Len(a),
         e.language.n >= 1, Libre(a, e, k), a[k].language = e.language
  PROVE  Libre(a, [e EXCEPT !.language = Renombrado(e.language)], k + 1)
<1> DEFINE f == [e EXCEPT !.language = Renombrado(e.language)]
<1>1. /\ e.language.n \in Nat
      /\ f.language.n = e.language.n + 1
      /\ f.language.base = e.language.base
      /\ f.language.pid = e.language.pid
  BY DEF Audio, NombreAudio, Renombrado
<1> HIDE DEF f
<1>2. \A x : Mismo(x, f) <=> Mismo(x, e)
  BY <1>1 DEF Mismo
<1>3. Mismo(a[k], e) /\ a[k].language.n = e.language.n
  BY DEF Mismo
<1>4. \A h \in 1..k : h = k \/ h \in 1..(k-1)
  OBVIOUS
<1>5. ASSUME NEW h \in 1..k, Mismo(a[h], f)
      PROVE  a[h].language.n < f.language.n
  <2>0. a[h] \in Audio
    OBVIOUS
  <2>1. a[h].language.n \in Nat
    BY <2>0, SufijosNat
  <2>2. CASE h = k
    BY <2>2, <1>1, <1>3
  <2>3. CASE h \in 1..(k-1)
    <3>1. a[h].language.n < e.language.n
      BY <2>3, <1>2, <1>5 DEF Libre
    <3> QED
      BY <3>1, <2>1, <1>1
  <2> QED
    BY <2>2, <2>3, <1>4
<1>6. ASSUME NEW v \in 1..(f.language.n - 1)
      PROVE  \E h \in 1..k : Mismo(a[h], f) /\ a[h].language.n = v
  <2>1. CASE v = e.language.n
    BY <2>1, <1>2, <1>3
  <2>2. CASE v # e.language.n
    <3>1. v \in 1..(e.language.n - 1)
      BY <2>2, <1>1
    <3>2. PICK h \in 1..(k-1) : Mismo(a[h], e) /\ a[h].language.n = v
      BY <3>1 DEF Libre
    <3> QED
      BY <3>2, <1>2
  <2> QED
    BY <2>1, <2>2
<1>7. (k + 1) - 1 = k
  OBVIOUS
<1>8. Libre(a, f, k + 1)
  BY <1>5, <1>6, <1>7 DEF Libre
<1> QED
  BY <1>8 DEF f

(* An iteration that meets another name: a track with more suffixes would  *)
(* have an earlier track with exactly those of e, which is excluded.       *)
LEMMA LibreSinChoque ==
  ASSUME NEW a \in Seq(Audio), NEW e \in Audio, NEW k \in 1..Len(a),
         e.language.n >= 1, Densos(a), Libre(a, e, k),
         a[k].language # e.language
  PROVE  Libre(a, e, k + 1)
<1>0. a[k] \in Audio
  OBVIOUS
<1>1. /\ a[k] \in Audio /\ a[k].language.n \in Nat
      /\ e.language.n \in Nat
  BY <1>0, SufijosNat
<1>2. ASSUME Mismo(a[k], e) PROVE a[k].language.n < e.language.n
  <2>1. a[k].language.n # e.language.n
    BY <1>1, <1>2, NombreIgual
  <2>2. ASSUME a[k].language.n > e.language.n PROVE FALSE
    <3>1. e.language.n \in 1..(a[k].language.n - 1)
      BY <1>1, <2>2
    <3>2. PICK h \in 1..(k-1) : /\ Mismo(a[h], a[k])
                                /\ a[h].language.n = e.language.n
      BY <3>1 DEF Densos
    <3>3. Mismo(a[h], e)
      BY <1>2, <3>2 DEF Mismo
    <3>4. e.language.n < e.language.n
      BY <3>2, <3>3 DEF Libre
    <3> QED
      BY <3>4, <1>1
  <2> QED
    BY <1>1, <2>1, <2>2
<1>3. \A h \in 1..k : h = k \/ h \in 1..(k-1)
  OBVIOUS
<1>4. (k + 1) - 1 = k /\ 1..(k-1) \subseteq 1..k
  OBVIOUS
<1> QED
  BY <1>2, <1>3, <1>4 DEF Libre

(* A track whose name is free after the whole scan can be appended. *)
LEMMA AnadirAudio ==
  ASSUME NEW a \in Seq(Audio), NEW e \in Audio, Ordenados(a), Densos(a),
         Libre(a, e, Len(a) + 1)
  PROVE  Ordenados(Append(a, e)) /\ Densos(Append(a, e))
<1> DEFINE b == Append(a, e)
           N == Len(a)
<1>1. /\ N \in Nat /\ Len(b) = N + 1 /\ b[N + 1] = e
      /\ \A k \in 1..N : b[k] = a[k]
  BY AppendProperties
<1>2. \A k \in 1..(N + 1) : k = N + 1 \/ k \in 1..N
  BY <1>1
<1>3. (N + 1) - 1 = N
  BY <1>1
<1> HIDE DEF b, N
<1>4. Libre(a, e, N + 1) /\ Len(a) = N
  BY DEF N
<1>5. Ordenados(b)
  <2> SUFFICES ASSUME NEW m \in 1..(N+1), NEW n \in 1..(N+1), m < n,
                      Mismo(b[m], b[n])
               PROVE  b[m].language.n < b[n].language.n
    BY <1>1 DEF Ordenados
  <2>1. m \in 1..N /\ b[m] = a[m]
    BY <1>1
  <2>2. CASE n = N + 1
    BY <2>1, <2>2, <1>1, <1>3, <1>4 DEF Libre
  <2>3. CASE n \in 1..N
    BY <2>1, <2>3, <1>1, <1>4 DEF Ordenados
  <2> QED
    BY <2>2, <2>3, <1>2
<1>6. Densos(b)
  <2> SUFFICES ASSUME NEW k \in 1..(N+1), NEW v \in 1..(b[k].language.n - 1)
               PROVE  \E h \in 1..(k-1) : Mismo(b[h], b[k]) /\ b[h].language.n = v
    BY <1>1 DEF Densos
  <2>1. CASE k = N + 1
    <3>1. PICK h \in 1..N : Mismo(a[h], e) /\ a[h].language.n = v
      BY <2>1, <1>1, <1>3, <1>4 DEF Libre
    <3> QED
      BY <3>1, <2>1, <1>1, <1>3
  <2>2. CASE k \in 1..N
    <3>1. PICK h \in 1..(k-1) : Mismo(a[h], a[k]) /\ a[h].language.n = v
      BY <2>2, <1>1, <1>4 DEF Densos
    <3>2. h \in 1..N
      BY <2>2, <1>1
    <3> QED
      BY <3>1, <3>2, <2>2, <1>1
  <2> QED
    BY <2>1, <2>2, <1>2
<1> QED
  BY <1>5, <1>6 DEF b

(* Tracks in that order have different names. *)
LEMMA OrdenadosUnicos ==
  ASSUME NEW a \in Seq(Audio), Ordenados(a)
  PROVE  NombresUnicos(a)
<1> SUFFICES ASSUME NEW m \in 1..Len(a), NEW n \in 1..Len(a),
                    a[m].language = a[n].language, m # n
             PROVE  FALSE
  BY DEF NombresUnicos
<1>0. a[m] \in Audio /\ a[n] \in Audio
  OBVIOUS
<1>1. a[m].language.n \in Nat /\ Mismo(a[m], a[n]) /\ Mismo(a[n], a[m])
  BY <1>0, SufijosNat DEF Mismo
<1>2. m < n \/ n < m
  OBVIOUS
<1> QED
  BY <1>1, <1>2 DEF Ordenados

-----------------------------------------------------------------------------
(***************************************************************************)
(* The inductive invariant: each program is in order, with different       *)
(* subtitle languages and wholly in the summary; inside the renaming loop  *)
(* the name is free among the tracks scanned.                              *)
(***************************************************************************)
EnOrden(q, inf) ==
  /\ Ordenados(q.audio)
  /\ Densos(q.audio)
  /\ NombresUnicos(q.subtitulos)
  /\ Cubierto(q, inf)

BucleInv ==
  pc = "renombrar" =>
    /\ elem.language.n >= 1
    /\ j <= Len(programas[programId].audio) + 1
    /\ Libre(programas[programId].audio, elem, j)

PistasInv ==
  /\ \A p \in DOMAIN programas : EnOrden(programas[p], informe)
  /\ BucleInv
  /\ pc \in {"elegir", "fin"} => titania = "streams"

(* A summary that has all another one has. *)
Incluye(inf2, inf) == /\ inf.video \subseteq inf2.video
                      /\ inf.audio \subseteq inf2.audio
                      /\ inf.subtitulo \subseteq inf2.subtitulo

(* A longer summary still covers a program. *)
LEMMA CubiertoMas ==
  ASSUME NEW q, NEW inf, NEW inf2, EnOrden(q, inf), Incluye(inf2, inf)
  PROVE  EnOrden(q, inf2)
BY DEF EnOrden, Cubierto, Incluye

(* A new program has no tracks. *)
LEMMA NuevoEnOrden ==
  ASSUME NEW p, NEW nombre, NEW inf
  PROVE  EnOrden(NuevoPrograma(p, nombre), inf)
<1>1. Len(<<>>) = 0 /\ 1..0 = {}
  BY EmptySeq
<1> QED
  BY <1>1 DEF EnOrden, Cubierto, NuevoPrograma, Ordenados, Densos, NombresUnicos

(* Setting the service name touches no track. *)
LEMMA NombreEnOrden ==
  ASSUME NEW q \in Programa, NEW nombre, NEW inf, EnOrden(q, inf)
  PROVE  EnOrden([q EXCEPT !.nombre = nombre], inf)
<1> DEFINE r == [q EXCEPT !.nombre = nombre]
<1>1. r.audio = q.audio /\ r.subtitulos = q.subtitulos /\ r.video = q.video
  BY DEF Programa
<1> HIDE DEF r
<1>2. EnOrden(r, inf)
  BY <1>1 DEF EnOrden, Cubierto
<1> QED
  BY <1>2 DEF r

(* Setting the video and reporting it. *)
LEMMA VideoEnOrden ==
  ASSUME NEW q \in Programa, NEW c, NEW inf \in Informe, EnOrden(q, inf)
  PROVE  EnOrden([q EXCEPT !.video = c],
                 [inf EXCEPT !.video = inf.video \cup {c}])
<1> DEFINE r == [q EXCEPT !.video = c]
           g == [inf EXCEPT !.video = inf.video \cup {c}]
<1>1. r.audio = q.audio /\ r.subtitulos = q.subtitulos /\ r.video = c
  BY DEF Programa
<1>2. g.audio = inf.audio /\ g.subtitulo = inf.subtitulo /\ c \in g.video
  BY DEF Informe
<1> HIDE DEF r, g
<1>3. EnOrden(r, g)
  BY <1>1, <1>2 DEF EnOrden, Cubierto
<1> QED
  BY <1>3 DEF r, g

(* Appending an audio track whose name is free, and reporting it. *)
LEMMA AudioEnOrden ==
  ASSUME NEW q \in Programa, NEW e \in Audio, NEW inf \in Informe,
         EnOrden(q, inf), Libre(q.audio, e, Len(q.audio) + 1)
  PROVE  EnOrden([q EXCEPT !.audio = Append(q.audio, e)],
                 [inf EXCEPT !.audio = inf.audio \cup {Clave(e)}])
<1> DEFINE b == Append(q.audio, e)
           r == [q EXCEPT !.audio = b]
           g == [inf EXCEPT !.audio = inf.audio \cup {Clave(e)}]
<1>1. q.audio \in Seq(Audio)
  BY DEF Programa
<1>2. Ordenados(b) /\ Densos(b)
  BY <1>1, AnadirAudio DEF EnOrden
<1>3. /\ Len(q.audio) \in Nat /\ Len(b) = Len(q.audio) + 1
      /\ b[Len(q.audio) + 1] = e
      /\ \A k \in 1..Len(q.audio) : b[k] = q.audio[k]
  BY <1>1, AppendProperties
<1>4. r.audio = b /\ r.subtitulos = q.subtitulos /\ r.video = q.video
  BY DEF Programa
<1>5. /\ g.video = inf.video /\ g.subtitulo = inf.subtitulo
      /\ g.audio = inf.audio \cup {Clave(e)}
  BY DEF Informe
<1> HIDE DEF b, r, g
<1>6. \A k \in 1..Len(b) : Clave(b[k]) \in g.audio
  BY <1>3, <1>5 DEF EnOrden, Cubierto
<1>7. EnOrden(r, g)
  BY <1>2, <1>4, <1>5, <1>6 DEF EnOrden, Cubierto
<1> QED
  BY <1>7 DEF r, g, b

(* Appending a subtitle track of a new language, and reporting it. *)
LEMMA SubtituloEnOrden ==
  ASSUME NEW q \in Programa, NEW e \in Subtitulo, NEW inf \in Informe,
         EnOrden(q, inf),
         \A k \in 1..Len(q.subtitulos) : q.subtitulos[k].language # e.language
  PROVE  EnOrden([q EXCEPT !.subtitulos = Append(q.subtitulos, e)],
                 [inf EXCEPT !.subtitulo = inf.subtitulo \cup {Clave(e)}])
<1> DEFINE b == Append(q.subtitulos, e)
           r == [q EXCEPT !.subtitulos = b]
           g == [inf EXCEPT !.subtitulo = inf.subtitulo \cup {Clave(e)}]
<1>1. q.subtitulos \in Seq(Subtitulo)
  BY DEF Programa
<1>2. /\ Len(q.subtitulos) \in Nat /\ Len(b) = Len(q.subtitulos) + 1
      /\ b[Len(q.subtitulos) + 1] = e
      /\ \A k \in 1..Len(q.subtitulos) : b[k] = q.subtitulos[k]
  BY <1>1, AppendProperties
<1>3. r.audio = q.audio /\ r.subtitulos = b /\ r.video = q.video
  BY DEF Programa
<1>4. /\ g.video = inf.video /\ g.audio = inf.audio
      /\ g.subtitulo = inf.subtitulo \cup {Clave(e)}
  BY DEF Informe
<1> HIDE DEF b, r, g
<1>5. NombresUnicos(b)
  <2> DEFINE L == Len(q.subtitulos)
  <2>0. /\ L \in Nat /\ Len(b) = L + 1
        /\ b[L + 1].language = e.language
        /\ \A k \in 1..L : b[k].language = q.subtitulos[k].language
    BY <1>2
  <2>1. /\ \A k \in 1..L : b[k].language # e.language
        /\ \A k, h \in 1..L : b[k].language = b[h].language => k = h
    BY <2>0 DEF EnOrden, NombresUnicos
  <2> HIDE DEF L
  <2> SUFFICES ASSUME NEW m \in 1..(L + 1), NEW n \in 1..(L + 1),
                      b[m].language = b[n].language
               PROVE  m = n
    BY <2>0 DEF NombresUnicos
  <2>2. (m \in 1..L \/ m = L + 1) /\ (n \in 1..L \/ n = L + 1)
    BY <2>0
  <2> QED
    BY <2>0, <2>1, <2>2
<1>6. \A k \in 1..Len(b) : Clave(b[k]) \in g.subtitulo
  BY <1>2, <1>4 DEF EnOrden, Cubierto
<1>7. EnOrden(r, g)
  BY <1>3, <1>4, <1>5, <1>6 DEF EnOrden, Cubierto
<1> QED
  BY <1>7 DEF r, g, b

(* Opening the program of a stream line keeps every program in order. *)
LEMMA AbiertosEnOrden ==
  ASSUME TypeOK, PistasInv
  PROVE  \A p \in DOMAIN Abiertos : EnOrden(Abiertos[p], InformeAbierto)
<1>1. Incluye(InformeAbierto, informe)
  BY DEF Incluye, InformeAbierto, TypeOK, TipoSalida, Informe
<1>2. \A p \in DOMAIN programas : EnOrden(programas[p], InformeAbierto)
  BY <1>1, CubiertoMas DEF PistasInv
<1>3. CASE SinAbrir
  <2>1. EnOrden(NuevoPrograma(MenosUno, "No name"), InformeAbierto)
    BY NuevoEnOrden
  <2> QED
    BY <1>2, <1>3, <2>1 DEF Abiertos, Poner
<1>4. CASE ~SinAbrir
  BY <1>2, <1>4 DEF Abiertos
<1> QED
  BY <1>3, <1>4

(* Reading one line keeps the inductive invariant. *)
LEMMA LeerPistas ==
  ASSUME TypeOK, PistasInv, NEW l \in Linea, pc = "lineas", Leer(l)
  PROVE  PistasInv'
<1>t. TipoControl /\ TipoMapa /\ TipoSalida /\ TipoAudio
  BY DEF TypeOK
<1>a. /\ Abiertos \in [DOMAIN Abiertos -> Programa]
      /\ Actual \in DOMAIN Abiertos
      /\ Abiertos[Actual] \in Programa
      /\ InformeAbierto \in Informe
  BY <1>t, AbiertosTipo DEF TipoSalida
<1>b. \A p \in DOMAIN Abiertos : EnOrden(Abiertos[p], InformeAbierto)
  BY AbiertosEnOrden
<1>1. ASSUME LineaPrograma(l) PROVE PistasInv'
  <2>1. /\ pc' = pc /\ informe' = InformeConSid(l.sid)
        /\ programas' = Poner(programas, l.sid, NuevoPrograma(l.sid, ""))
    BY <1>1 DEF LineaPrograma
  <2>2. Incluye(informe', informe)
    BY <2>1, <1>t DEF Incluye, InformeConSid, TipoSalida, Informe
  <2>3. \A p \in DOMAIN programas : EnOrden(programas[p], informe')
    BY <2>2, CubiertoMas DEF PistasInv
  <2>4. EnOrden(NuevoPrograma(l.sid, ""), informe')
    BY NuevoEnOrden
  <2>5. \A p \in DOMAIN programas' : EnOrden(programas'[p], informe')
    BY <2>1, <2>3, <2>4 DEF Poner
  <2> QED
    BY <2>1, <2>5 DEF PistasInv, BucleInv
<1>2. ASSUME LineaServicio(l) PROVE PistasInv'
  <2> DEFINE q == [programas[programId] EXCEPT !.nombre = l.nombre]
  <2>1. /\ programId \in DOMAIN programas
        /\ programas[programId] \in Programa
    BY <1>2, <1>t DEF LineaServicio, TipoMapa
  <2>2. /\ pc' = pc /\ informe' = [informe EXCEPT !.name = l.nombre]
        /\ programas' = [programas EXCEPT ![programId] = q]
    BY <1>2 DEF LineaServicio
  <2>3. Incluye(informe', informe)
    BY <2>2, <1>t DEF Incluye, TipoSalida, Informe
  <2>4. \A p \in DOMAIN programas : EnOrden(programas[p], informe')
    BY <2>3, CubiertoMas DEF PistasInv
  <2>5. EnOrden(q, informe')
    BY <2>1, <2>4, NombreEnOrden
  <2> HIDE DEF q
  <2>6. \A p \in DOMAIN programas' : EnOrden(programas'[p], informe')
    BY <2>2, <2>4, <2>5
  <2> QED
    BY <2>2, <2>6 DEF PistasInv, BucleInv
<1>3. ASSUME LineaIgnorada(l) PROVE PistasInv'
  BY <1>3 DEF LineaIgnorada, PistasInv, BucleInv
<1>4. ASSUME LineaDescartada(l) PROVE PistasInv'
  BY <1>4, <1>b DEF LineaDescartada, PistasInv, BucleInv
<1>5. ASSUME LineaVideo(l) PROVE PistasInv'
  <2> DEFINE q == [Abiertos[Actual] EXCEPT !.video = Clave(l)]
             g == [InformeAbierto EXCEPT
                     !.video = InformeAbierto.video \cup {Clave(l)}]
  <2>1. /\ pc' \in {"lineas", "panic"}
        /\ \/ programas' = [Abiertos EXCEPT ![Actual] = q] /\ informe' = g
           \/ programas' = Abiertos /\ informe' = InformeAbierto
    BY <1>5 DEF LineaVideo
  <2>2. EnOrden(q, g)
    BY <1>a, <1>b, VideoEnOrden
  <2>3. Incluye(g, InformeAbierto)
    BY <1>a DEF Incluye, Informe
  <2> HIDE DEF q, g
  <2>4. \A p \in DOMAIN Abiertos : EnOrden(Abiertos[p], g)
    BY <1>b, <2>3, CubiertoMas
  <2>5. \A p \in DOMAIN programas' : EnOrden(programas'[p], informe')
    BY <1>a, <1>b, <2>1, <2>2, <2>4
  <2> QED
    BY <2>1, <2>5 DEF PistasInv, BucleInv
<1>6. ASSUME LineaAudio(l) PROVE PistasInv'
  <2>1. /\ programas' = Abiertos /\ informe' = InformeAbierto
        /\ pc' = "renombrar" /\ j' = 1 /\ programId' = Actual
        /\ elem' = [id |-> l.id, hexaId |-> l.hexaId,
                    language |-> NombreInicial(l)]
        /\ l.tipo = "Stream"
    BY <1>6 DEF LineaAudio, LineaStream, AbrirPrograma
  <2>2. elem'.language.n = 1
    BY <2>1, NombreInicialTipo
  <2>3. Len(Abiertos[Actual].audio) \in Nat
    BY <1>a DEF Programa
  <2>4. Libre(Abiertos[Actual].audio, elem', 1)
    BY <2>2 DEF Libre
  <2>5. BucleInv'
    BY <2>1, <2>2, <2>3, <2>4 DEF BucleInv
  <2> QED
    BY <2>1, <2>5, <1>b DEF PistasInv
<1>7. ASSUME LineaSubtitulo(l) PROVE PistasInv'
  <2> DEFINE sub == [id |-> l.id, hexaId |-> l.hexaId,
                     language |-> IdiomaSub(l)]
             q == [Abiertos[Actual] EXCEPT
                     !.subtitulos = Append(Abiertos[Actual].subtitulos, sub)]
             g == [InformeAbierto EXCEPT
                     !.subtitulo = InformeAbierto.subtitulo \cup {Clave(sub)}]
  <2>1. Clave(sub) = Clave(l)
    BY DEF Clave
  <2>2. /\ pc' = pc /\ l.tipo = "Stream"
        /\ \/ /\ programas' = [Abiertos EXCEPT ![Actual] = q] /\ informe' = g
              /\ SubAceptado(l)
           \/ programas' = Abiertos /\ informe' = InformeAbierto
    BY <1>7, <2>1 DEF LineaSubtitulo, LineaStream
  <2>3. sub \in Subtitulo
    BY <2>2, LineaTipo DEF IdiomaSub, Subtitulo
  <2>4. sub.language = IdiomaSub(l)
    OBVIOUS
  <2> HIDE DEF sub
  <2>5. ASSUME SubAceptado(l) PROVE EnOrden(q, g)
    <3>1. \A k \in 1..Len(Abiertos[Actual].subtitulos) :
            Abiertos[Actual].subtitulos[k].language # sub.language
      BY <2>4, <2>5 DEF SubAceptado
    <3> QED
      BY <3>1, <2>3, <1>a, <1>b, SubtituloEnOrden
  <2>6. Incluye(g, InformeAbierto)
    BY <1>a DEF Incluye, Informe
  <2> HIDE DEF q, g
  <2>7. \A p \in DOMAIN Abiertos : EnOrden(Abiertos[p], g)
    BY <1>b, <2>6, CubiertoMas
  <2>8. \A p \in DOMAIN programas' : EnOrden(programas'[p], informe')
    BY <1>a, <1>b, <2>2, <2>5, <2>7
  <2> QED
    BY <2>2, <2>8 DEF PistasInv, BucleInv
<1> QED
  BY <1>1, <1>2, <1>3, <1>4, <1>5, <1>6, <1>7 DEF Leer

(* Every step keeps the inductive invariant. *)
LEMMA PasoPistas == TypeOK /\ PistasInv /\ [Next]_vars => PistasInv'
<1> SUFFICES ASSUME TypeOK, PistasInv, [Next]_vars PROVE PistasInv'
  OBVIOUS
<1>t. TipoControl /\ TipoMapa /\ TipoSalida /\ TipoAudio
  BY DEF TypeOK
<1>1. CASE Ffprobe
  BY <1>1 DEF Ffprobe, PistasInv, BucleInv
<1>2. CASE PostError
  BY <1>2 DEF PostError, PistasInv, BucleInv
<1>3. CASE LeerLinea
  <2>1. lineas[i] \in Linea
    BY <1>3, <1>t DEF LeerLinea, TipoControl
  <2> QED
    BY <1>3, <2>1, LeerPistas DEF LeerLinea
<1>r. ASSUME pc = "renombrar"
      PROVE  /\ programId \in DOMAIN programas
             /\ programas[programId] \in Programa
             /\ programas[programId].audio \in Seq(Audio)
             /\ EnOrden(programas[programId], informe)
  <2>1. programId \in DOMAIN programas /\ programas[programId] \in Programa
    BY <1>r, <1>t DEF TipoMapa
  <2> QED
    BY <2>1 DEF PistasInv, Programa
<1>4. CASE Renombrar
  <2> DEFINE A == programas[programId].audio
  <2>1. /\ pc = "renombrar" /\ pc' = pc /\ j' = j + 1 /\ j <= Len(A)
        /\ UNCHANGED <<programas, programId, informe, titania>>
        /\ elem' = IF elem.language = A[j].language
                   THEN [elem EXCEPT !.language = Renombrado(elem.language)]
                   ELSE elem
    BY <1>4 DEF Renombrar
  <2>2. A \in Seq(Audio) /\ Densos(A) /\ Ordenados(A)
    BY <1>r, <2>1 DEF EnOrden
  <2>3. elem \in Audio /\ j \in Nat \ {0} /\ elem.language.n >= 1
    BY <1>t, <2>1 DEF TipoAudio, PistasInv, BucleInv
  <2>4. Libre(A, elem, j)
    BY <2>1 DEF PistasInv, BucleInv
  <2>5. A' = A
    BY <2>1
  <2> HIDE DEF A
  <2>6. j \in 1..Len(A)
    BY <2>1, <2>2, <2>3
  <2>7. Libre(A, elem', j + 1)
    BY <2>1, <2>2, <2>3, <2>4, <2>6, LibreTrasChoque, LibreSinChoque
  <2>8. elem'.language.n >= 1
    BY <2>1, <2>3 DEF Audio, NombreAudio, Renombrado
  <2>9. j' <= Len(A) + 1
    BY <2>1, <2>6
  <2>10. BucleInv'
    BY <2>1, <2>5, <2>7, <2>8, <2>9 DEF BucleInv, A
  <2> QED
    BY <2>1, <2>10 DEF PistasInv
<1>5. CASE FinRenombrar
  <2> DEFINE Q == programas[programId]
             q == [Q EXCEPT !.audio = Append(Q.audio, elem)]
             g == [informe EXCEPT !.audio = informe.audio \cup {Clave(elem)}]
  <2>1. /\ pc = "renombrar" /\ pc' = "lineas" /\ j > Len(Q.audio)
        /\ \/ programas' = [programas EXCEPT ![programId] = q] /\ informe' = g
           \/ UNCHANGED <<programas, informe>>
    BY <1>5 DEF FinRenombrar
  <2>2. /\ Q \in Programa /\ Q.audio \in Seq(Audio) /\ EnOrden(Q, informe)
        /\ programId \in DOMAIN programas
    BY <1>r, <2>1
  <2>3. elem \in Audio /\ informe \in Informe /\ j \in Nat
    BY <1>t DEF TipoAudio, TipoSalida
  <2>4. j = Len(Q.audio) + 1
    BY <2>1, <2>2, <2>3 DEF PistasInv, BucleInv
  <2>5. Libre(Q.audio, elem, Len(Q.audio) + 1)
    BY <2>1, <2>4 DEF PistasInv, BucleInv
  <2>6. EnOrden(q, g)
    BY <2>2, <2>3, <2>5, AudioEnOrden
  <2>7. Incluye(g, informe)
    BY <2>3 DEF Incluye, Informe
  <2> HIDE DEF q, g
  <2>8. \A p \in DOMAIN programas : EnOrden(programas[p], g)
    BY <2>7, CubiertoMas DEF PistasInv
  <2>9. \A p \in DOMAIN programas' : EnOrden(programas'[p], informe')
    BY <2>1, <2>2, <2>6, <2>8 DEF PistasInv
  <2> QED
    BY <2>1, <2>9 DEF PistasInv, BucleInv
<1>6. CASE PostStreams
  BY <1>6 DEF PostStreams, PistasInv, BucleInv
<1>7. CASE Elegir
  BY <1>7 DEF Elegir, PistasInv, BucleInv
<1>8. CASE UNCHANGED vars
  BY <1>8 DEF vars, PistasInv, BucleInv
<1> QED
  BY <1>1, <1>2, <1>3, <1>4, <1>5, <1>6, <1>7, <1>8 DEF Next

(* The inductive invariant holds at the start. *)
LEMMA InitPistas == Init => PistasInv
<1> SUFFICES ASSUME Init PROVE PistasInv
  OBVIOUS
<1>1. pc = "ffprobe" /\ DOMAIN programas = {}
  BY DEF Init
<1> QED
  BY <1>1 DEF PistasInv, BucleInv

(* What the inductive invariant says of names and of the summary. *)
LEMMA PistasInvImplica == TypeOK /\ PistasInv => PistasUnicas /\ InformeCubre
<1> SUFFICES ASSUME TypeOK, PistasInv PROVE PistasUnicas /\ InformeCubre
  OBVIOUS
<1>1. ASSUME NEW p \in DOMAIN programas
      PROVE  NombresUnicos(programas[p].audio)
  <2>1. programas[p] \in Programa
    BY DEF TypeOK, TipoMapa
  <2>2. programas[p].audio \in Seq(Audio)
    BY <2>1 DEF Programa
  <2> QED
    BY <2>2, OrdenadosUnicos DEF PistasInv, EnOrden
<1> QED
  BY <1>1 DEF PistasUnicas, InformeCubre, PistasInv, EnOrden

(* The inductive invariant holds in every state. *)
LEMMA Pistas == Spec => [](TypeOK /\ PistasInv)
BY InitTipo, InitPistas, PasoTipo, PasoPistas, PTL DEF Spec

(* No two tracks of a program are ever given the same directory, whatever  *)
(* streams ffprobe reports and in whatever order (codificacion.go, the     *)
(* renaming loop of the audio branch and the filter of the subtitle one).  *)
THEOREM NombresDePistas == Spec => []PistasUnicas
BY Pistas, PistasInvImplica, PTL

(* The summary posted to Titania lists every track of every program.       *)
THEOREM InformeCompleto == Spec => []InformeCubre
BY Pistas, PistasInvImplica, PTL

-----------------------------------------------------------------------------
(***************************************************************************)
(* The selected program.  Without -sid the global id follows programId;    *)
(* with -sid it is unset until that program is read, which -streams        *)
(* prevents; the map holds each program under its own id.                  *)
(***************************************************************************)
SeleccionInv ==
  /\ \A p \in DOMAIN programas : programas[p].id = p
  /\ configuration.Id_programa = SinPrograma => programa.id = programId
  /\ configuration.Id_programa # SinPrograma =>
       /\ programa.id \in {SinPrograma, configuration.Id_programa}
       /\ streams_ok => programa.id = SinPrograma
  /\ pc = "fin" => programa.id # SinPrograma

(* The selection part of a stream line's preamble. *)
LEMMA AbrirSeleccion ==
  ASSUME TypeOK, SeleccionInv, AbrirPrograma, UNCHANGED configuration,
         pc' # "fin",
         \A p \in DOMAIN programas' : programas'[p].id = p
  PROVE  SeleccionInv'
<1>1. programId' = Actual
  BY DEF AbrirPrograma
<1>2. CASE SinAbrir
  <2>1. /\ Actual = MenosUno
        /\ programa' = IF configuration.Id_programa = SinPrograma
                       THEN [programa EXCEPT !.id = MenosUno] ELSE programa
    BY <1>2 DEF Actual, AbrirPrograma
  <2>2. configuration.Id_programa = SinPrograma => programa'.id = MenosUno
    BY <2>1 DEF TypeOK, TipoSalida, ProgramaGlobal
  <2>3. configuration.Id_programa # SinPrograma => programa' = programa
    BY <2>1
  <2> QED
    BY <1>1, <2>1, <2>2, <2>3 DEF SeleccionInv, streams_ok
<1>3. CASE ~SinAbrir
  <2>1. programId' = programId /\ programa' = programa
    BY <1>3, <1>1 DEF Actual, AbrirPrograma
  <2> QED
    BY <2>1 DEF SeleccionInv, streams_ok
<1> QED
  BY <1>2, <1>3

(* Opening a program, and replacing a field other than id, keep the ids. *)
LEMMA AbiertosIds ==
  ASSUME TypeOK, SeleccionInv
  PROVE  \A p \in DOMAIN Abiertos : Abiertos[p].id = p
<1>1. NuevoPrograma(MenosUno, "No name").id = MenosUno
  BY DEF NuevoPrograma
<1> QED
  BY <1>1 DEF Abiertos, Poner, SeleccionInv

(* Reading one line keeps the selection invariant. *)
LEMMA LeerSeleccion ==
  ASSUME TypeOK, SeleccionInv, NEW l \in Linea, pc = "lineas", Leer(l)
  PROVE  SeleccionInv'
<1>t. TipoControl /\ TipoMapa /\ TipoSalida /\ TipoAudio
  BY DEF TypeOK
<1>a. /\ Abiertos \in [DOMAIN Abiertos -> Programa]
      /\ Actual \in DOMAIN Abiertos
      /\ Abiertos[Actual] \in Programa
  BY <1>t, AbiertosTipo DEF TipoSalida
<1>b. \A p \in DOMAIN Abiertos : Abiertos[p].id = p
  BY AbiertosIds
<1>1. ASSUME LineaPrograma(l) PROVE SeleccionInv'
  <2>1. /\ pc' = pc /\ ~streams_ok /\ programId' = l.sid
        /\ configuration' = configuration
        /\ programas' = Poner(programas, l.sid, NuevoPrograma(l.sid, ""))
        /\ programa' = IF Seleccionado(l.sid)
                       THEN [programa EXCEPT !.id = l.sid] ELSE programa
    BY <1>1 DEF LineaPrograma, AvanzarLinea
  <2>2. NuevoPrograma(l.sid, "").id = l.sid
    BY DEF NuevoPrograma
  <2>3. \A p \in DOMAIN programas' : programas'[p].id = p
    BY <2>1, <2>2 DEF Poner, SeleccionInv
  <2>4. programa'.id = IF Seleccionado(l.sid) THEN l.sid ELSE programa.id
    BY <2>1, <1>t DEF TipoSalida, ProgramaGlobal
  <2>5. ~streams_ok'
    BY <2>1 DEF streams_ok
  <2> QED
    BY <2>1, <2>3, <2>4, <2>5 DEF SeleccionInv, Seleccionado
<1>2. ASSUME LineaServicio(l) PROVE SeleccionInv'
  <2> DEFINE q == [programas[programId] EXCEPT !.nombre = l.nombre]
  <2>1. /\ programId \in DOMAIN programas
        /\ programas[programId] \in Programa
    BY <1>2, <1>t DEF LineaServicio, TipoMapa
  <2>2. /\ pc' = pc
        /\ UNCHANGED <<configuration, programId, programa>>
        /\ programas' = [programas EXCEPT ![programId] = q]
    BY <1>2 DEF LineaServicio, AvanzarLinea
  <2>3. q.id = programId
    BY <2>1 DEF SeleccionInv, Programa
  <2> HIDE DEF q
  <2> QED
    BY <2>2, <2>3 DEF SeleccionInv, streams_ok
<1>3. ASSUME LineaIgnorada(l) PROVE SeleccionInv'
  BY <1>3 DEF LineaIgnorada, AvanzarLinea, SeleccionInv, streams_ok
<1>s. ASSUME LineaStream(l), pc' # "fin",
             \A p \in DOMAIN programas' : programas'[p].id = p
      PROVE  SeleccionInv'
  BY <1>s, AbrirSeleccion DEF LineaStream, AvanzarLinea
<1>4. ASSUME LineaDescartada(l) PROVE SeleccionInv'
  BY <1>4, <1>b, <1>s DEF LineaDescartada
<1>5. ASSUME LineaVideo(l) PROVE SeleccionInv'
  <2> DEFINE q == [Abiertos[Actual] EXCEPT !.video = Clave(l)]
  <2>1. q.id = Actual
    BY <1>a, <1>b DEF Programa
  <2>2. /\ LineaStream(l) /\ pc' \in {"lineas", "panic"}
        /\ \/ programas' = [Abiertos EXCEPT ![Actual] = q]
           \/ programas' = Abiertos
    BY <1>5 DEF LineaVideo
  <2> HIDE DEF q
  <2> QED
    BY <1>a, <1>b, <1>s, <2>1, <2>2
<1>6. ASSUME LineaAudio(l) PROVE SeleccionInv'
  BY <1>6, <1>b, <1>s DEF LineaAudio
<1>7. ASSUME LineaSubtitulo(l) PROVE SeleccionInv'
  <2> DEFINE subs == Append(Abiertos[Actual].subtitulos,
                            [id |-> l.id, hexaId |-> l.hexaId,
                             language |-> IdiomaSub(l)])
             q == [Abiertos[Actual] EXCEPT !.subtitulos = subs]
  <2>1. /\ LineaStream(l) /\ pc' = "lineas"
        /\ \/ programas' = [Abiertos EXCEPT ![Actual] = q]
           \/ programas' = Abiertos
    BY <1>7 DEF LineaSubtitulo
  <2> HIDE DEF subs
  <2>2. q.id = Actual
    BY <1>a, <1>b DEF Programa
  <2> HIDE DEF q
  <2> QED
    BY <1>a, <1>b, <1>s, <2>1, <2>2
<1> QED
  BY <1>1, <1>2, <1>3, <1>4, <1>5, <1>6, <1>7 DEF Leer

(* Every step keeps the selection invariant. *)
LEMMA PasoSeleccion == TypeOK /\ SeleccionInv /\ [Next]_vars => SeleccionInv'
<1> SUFFICES ASSUME TypeOK, SeleccionInv, [Next]_vars PROVE SeleccionInv'
  OBVIOUS
<1>t. TipoControl /\ TipoMapa /\ TipoSalida /\ TipoAudio
  BY DEF TypeOK
<1>1. CASE Ffprobe
  BY <1>1 DEF Ffprobe, SeleccionInv, streams_ok
<1>2. CASE PostError
  BY <1>2 DEF PostError, SeleccionInv, streams_ok
<1>3. CASE LeerLinea
  <2>1. lineas[i] \in Linea
    BY <1>3, <1>t DEF LeerLinea, TipoControl
  <2> QED
    BY <1>3, <2>1, LeerSeleccion DEF LeerLinea
<1>4. CASE Renombrar
  BY <1>4 DEF Renombrar, SeleccionInv, streams_ok
<1>5. CASE FinRenombrar
  <2> DEFINE q == [programas[programId] EXCEPT
                     !.audio = Append(programas[programId].audio, elem)]
  <2>1. /\ programId \in DOMAIN programas
        /\ programas[programId] \in Programa
    BY <1>5, <1>t DEF FinRenombrar, TipoMapa
  <2>2. q.id = programId
    BY <2>1 DEF Programa, SeleccionInv
  <2>3. /\ pc' = "lineas" /\ UNCHANGED <<configuration, programId, programa>>
        /\ \/ programas' = [programas EXCEPT ![programId] = q]
           \/ programas' = programas
    BY <1>5 DEF FinRenombrar
  <2> HIDE DEF q
  <2> QED
    BY <2>2, <2>3 DEF SeleccionInv, streams_ok
<1>6. CASE PostStreams
  BY <1>6 DEF PostStreams, SeleccionInv, streams_ok
<1>7. CASE Elegir
  <2>1. SinPrograma \notin DOMAIN programas
    BY <1>t, SidAssumption DEF TipoMapa, ProgId, SinPrograma, MenosUno
  <2> QED
    BY <1>7, <2>1 DEF Elegir, SeleccionInv, streams_ok
<1>8. CASE UNCHANGED vars
  BY <1>8 DEF vars, SeleccionInv, streams_ok
<1> QED
  BY <1>1, <1>2, <1>3, <1>4, <1>5, <1>6, <1>7, <1>8 DEF Next

(* The selection invariant holds at the start. *)
LEMMA InitSeleccion == Init => SeleccionInv
<1> SUFFICES ASSUME Init PROVE SeleccionInv
  OBVIOUS
<1>1. pc = "ffprobe" /\ DOMAIN programas = {} /\ programId = SinPrograma
  BY DEF Init
<1>2. programa.id = SinPrograma
  BY DEF Init, NuevoPrograma
<1> QED
  BY <1>1, <1>2 DEF SeleccionInv

(* A call that returns selects the program of -sid, or else the last one   *)
(* opened, and never returns when -sid and -streams are both given.        *)
THEOREM ProgramaElegido == Spec => []SeleccionPrograma
<1>1. SeleccionInv => SeleccionPrograma
  BY DEF SeleccionInv, SeleccionPrograma
<1> QED
  BY <1>1, InitTipo, PasoTipo, InitSeleccion, PasoSeleccion, PTL DEF Spec

-----------------------------------------------------------------------------
(***************************************************************************)
(* The contents of the selected program.  PistasExactas speaks of the end  *)
(* only; the invariant says the same of every program, in every state, for *)
(* the lines read so far (Leidas): the line of an audio whose name is      *)
(* being sought has been read but not kept.  The definitions take the      *)
(* report and the options as parameters, which only Ffprobe changes.       *)
(***************************************************************************)
Previas(ls, k) == {m \in 1..(k-1) : ls[m].tipo = "Program"}

(* EnSeccion: line k of report ls belongs to program p.                    *)
EnSec(ls, c, k, p) ==
  IF c.Streams # {} \/ Previas(ls, k) = {}
  THEN p = MenosUno
  ELSE \E m \in Previas(ls, k) : ls[m].sid = p /\ \A n \in Previas(ls, k) : n <= m

PasaEn(ls, c, clase, k, p) ==
  /\ ls[k].tipo = "Stream" /\ ls[k].clase = clase
  /\ EnSec(ls, c, k, p)
  /\ c.Streams # {} => ls[k].hexaId \in c.Streams

AudioEn(ls, c, k, p) ==
  /\ PasaEn(ls, c, "Audio", k, p)
  /\ ~c.An
  /\ c.Audio_lang # {} => NombreInicial(ls[k]) \in c.Audio_lang

SubEn(ls, c, k, p) ==
  /\ PasaEn(ls, c, "Subtitle", k, p)
  /\ ~c.Sn
  /\ c.Sub_lang # {} => IdiomaSub(ls[k]) \in c.Sub_lang

VideoEn(ls, c, k, p) == PasaEn(ls, c, "Video", k, p)

(* Of the first h lines, those after which p is not opened anew.           *)
Tramo(ls, c, p, h) ==
  {k \in 1..h : c.Streams = {} =>
     ~\E n \in (k+1)..h : ls[n].tipo = "Program" /\ ls[n].sid = p}

(* The audio tracks a are those of the lines in T.                         *)
AudiosExactos(ls, c, a, p, T) ==
  /\ \A n \in 1..Len(a) : \E k \in T : AudioEn(ls, c, k, p) /\ Clave(a[n]) = Clave(ls[k])
  /\ \A k \in T : AudioEn(ls, c, k, p) => \E n \in 1..Len(a) : Clave(a[n]) = Clave(ls[k])

(* No line of T before k has a subtitle of its language.                   *)
Primera(ls, c, k, p, T) ==
  \A m \in T : m < k /\ SubEn(ls, c, m, p) => IdiomaSub(ls[m]) # IdiomaSub(ls[k])

(* The subtitle tracks s are the first of each language in those lines.    *)
SubsExactos(ls, c, s, p, T) ==
  /\ \A n \in 1..Len(s) : \E k \in T : /\ SubEn(ls, c, k, p)
                                       /\ Clave(s[n]) = Clave(ls[k])
                                       /\ s[n].language = IdiomaSub(ls[k])
                                       /\ Primera(ls, c, k, p, T)
  /\ \A k \in T : SubEn(ls, c, k, p) => \E n \in 1..Len(s) : s[n].language = IdiomaSub(ls[k])

(* The video v is the last one in those lines, or none.                    *)
VideoExacto(ls, c, v, p, T) ==
  \/ v = SinVideo /\ \A k \in T : ~VideoEn(ls, c, k, p)
  \/ \E k \in T : /\ VideoEn(ls, c, k, p) /\ v = Clave(ls[k])
                 /\ \A m \in T : VideoEn(ls, c, m, p) => m <= k

ExactoEn(ls, c, q, p, T) ==
  /\ AudiosExactos(ls, c, q.audio, p, T)
  /\ SubsExactos(ls, c, q.subtitulos, p, T)
  /\ VideoExacto(ls, c, q.video, p, T)

Exacto(ls, c, q, p, h) == ExactoEn(ls, c, q, p, Tramo(ls, c, p, h))

Leidas == IF pc = "renombrar" THEN i - 2 ELSE i - 1

(* The line being read belongs to the open program; none is open only      *)
(* while no stream line has been read.                                     *)
Abierto ==
  /\ \A p \in ProgId : EnSec(lineas, configuration, i, p) <=> p = Actual
  /\ SinAbrir => \A k \in 1..(i-1) : lineas[k].tipo # "Stream"

(* The audio whose name is sought is the one of the last line.             *)
Pendiente ==
  pc = "renombrar" =>
    /\ i >= 2
    /\ lineas[i-1].tipo = "Stream" /\ lineas[i-1].clase = "Audio"
    /\ Clave(elem) = Clave(lineas[i-1])
    /\ \A p \in ProgId : (ok /\ p = programId) <=> AudioEn(lineas, configuration, i-1, p)

ContenidoInv ==
  /\ i <= Len(lineas) + 1
  /\ Abierto
  /\ Pendiente
  /\ pc # "panic" =>
       \A p \in DOMAIN programas : Exacto(lineas, configuration, programas[p], p, Leidas)
  /\ pc = "ffprobe" => i = 1 /\ DOMAIN programas = {} /\ programId = SinPrograma
  /\ pc \in {"elegir", "fin"} => i > Len(lineas)
  /\ pc = "fin" => programa.id \in DOMAIN programas /\ programa = programas[programa.id]

(* EnSec is EnSeccion for the report and the options of the state.         *)
LEMMA EnSecEs ==
  \A k, p : EnSeccion(k, p) <=> EnSec(lineas, configuration, k, p)
BY DEF EnSeccion, EnSec, Previas, streams_ok

(* A line that opens no section leaves the next one in the same section.   *)
LEMMA MismaSeccion ==
  ASSUME NEW ls, NEW c, NEW k \in Nat \ {0},
         ls[k].tipo # "Program" \/ c.Streams # {}
  PROVE  \A p : EnSec(ls, c, k + 1, p) <=> EnSec(ls, c, k, p)
<1>1. CASE c.Streams # {}
  BY <1>1 DEF EnSec
<1>2. CASE ls[k].tipo # "Program"
  <2>1. Previas(ls, k + 1) = Previas(ls, k)
    BY <1>2 DEF Previas
  <2> QED
    BY <2>1 DEF EnSec
<1> QED
  BY <1>1, <1>2

SoloEn(ls, c, k, x) == \A p : EnSec(ls, c, k, p) <=> p = x

(* A program line puts the next line in its own section.                   *)
LEMMA OtraSeccion ==
  ASSUME NEW ls, NEW c, NEW k \in Nat \ {0},
         ls[k].tipo = "Program", c.Streams = {}
  PROVE  SoloEn(ls, c, k + 1, ls[k].sid)
<1>1. k \in Previas(ls, k + 1) /\ \A n \in Previas(ls, k + 1) : n \in 1..k
  BY DEF Previas
<1>2. \A n \in Previas(ls, k + 1) : n <= k
  BY <1>1
<1>3. \A m \in Previas(ls, k + 1) : k <= m => m = k
  BY <1>1
<1> QED
  BY <1>1, <1>2, <1>3 DEF EnSec, SoloEn

(* A line that does not open p is one more of p's lines.                   *)
LEMMA TramoSigue ==
  ASSUME NEW ls, NEW c, NEW p, NEW h \in Nat,
         c.Streams # {} \/ ls[h + 1].tipo # "Program" \/ ls[h + 1].sid # p
  PROVE  Tramo(ls, c, p, h + 1) = Tramo(ls, c, p, h) \cup {h + 1}
<1> DEFINE Abre(n) == ls[n].tipo = "Program" /\ ls[n].sid = p
<1>1. ASSUME NEW k \in 1..h, c.Streams = {}
      PROVE  (\E n \in (k+1)..(h+1) : Abre(n)) <=> \E n \in (k+1)..h : Abre(n)
  <2>1. \A n \in (k+1)..(h+1) : n \in (k+1)..h \/ n = h + 1
    OBVIOUS
  <2>2. \A n \in (k+1)..h : n \in (k+1)..(h+1)
    OBVIOUS
  <2>3. ~Abre(h + 1)
    BY <1>1
  <2> QED
    BY <2>1, <2>2, <2>3
<1>2. 1..(h+1) = (1..h) \cup {h + 1} /\ ((h+1)+1)..(h+1) = {}
  OBVIOUS
<1> QED
  BY <1>1, <1>2 DEF Tramo

(* A line that opens p leaves only itself.                                 *)
LEMMA TramoNuevo ==
  ASSUME NEW ls, NEW c, NEW p, NEW h \in Nat \ {0},
         c.Streams = {}, ls[h].tipo = "Program", ls[h].sid = p
  PROVE  \A k \in Tramo(ls, c, p, h) : k = h
<1>1. \A k \in 1..h : k # h => h \in (k+1)..h
  OBVIOUS
<1> QED
  BY <1>1 DEF Tramo

LEMMA TramoDe ==
  ASSUME NEW ls, NEW c, NEW p, NEW h \in Nat
  PROVE  Tramo(ls, c, p, h) \subseteq 1..h
BY DEF Tramo

(* A line that is no audio of p changes nothing of p's audio tracks.       *)
LEMMA AudiosIgual ==
  ASSUME NEW ls, NEW c, NEW a, NEW p, NEW T, NEW h,
         AudiosExactos(ls, c, a, p, T), ~AudioEn(ls, c, h, p)
  PROVE  AudiosExactos(ls, c, a, p, T \cup {h})
BY DEF AudiosExactos

(* No subtitle of p: the same.                                             *)
LEMMA SubsIgual ==
  ASSUME NEW ls, NEW c, NEW s, NEW p, NEW T, NEW h,
         SubsExactos(ls, c, s, p, T), ~SubEn(ls, c, h, p)
  PROVE  SubsExactos(ls, c, s, p, T \cup {h})
<1>1. \A k : Primera(ls, c, k, p, T) => Primera(ls, c, k, p, T \cup {h})
  BY DEF Primera
<1> QED
  BY <1>1 DEF SubsExactos

(* No video of p: the same.                                                *)
LEMMA VideoIgual ==
  ASSUME NEW ls, NEW c, NEW v, NEW p, NEW T, NEW h,
         VideoExacto(ls, c, v, p, T), ~VideoEn(ls, c, h, p)
  PROVE  VideoExacto(ls, c, v, p, T \cup {h})
BY DEF VideoExacto

(* A line that is none of p's streams changes nothing for p.               *)
LEMMA ExactoIgual ==
  ASSUME NEW ls, NEW c, NEW q, NEW p, NEW h \in Nat, Exacto(ls, c, q, p, h),
         c.Streams # {} \/ ls[h + 1].tipo # "Program" \/ ls[h + 1].sid # p,
         ~AudioEn(ls, c, h + 1, p), ~SubEn(ls, c, h + 1, p), ~VideoEn(ls, c, h + 1, p)
  PROVE  Exacto(ls, c, q, p, h + 1)
<1>1. Tramo(ls, c, p, h + 1) = Tramo(ls, c, p, h) \cup {h + 1}
  BY TramoSigue
<1> QED
  BY <1>1, AudiosIgual, SubsIgual, VideoIgual DEF Exacto, ExactoEn

(* An audio line that passes is kept at the end.                           *)
LEMMA AudioNuevo ==
  ASSUME NEW ls, NEW c, NEW a \in Seq(Audio), NEW e \in Audio, NEW p, NEW T, NEW h,
         AudiosExactos(ls, c, a, p, T),
         AudioEn(ls, c, h, p), Clave(e) = Clave(ls[h])
  PROVE  AudiosExactos(ls, c, Append(a, e), p, T \cup {h})
<1> DEFINE b == Append(a, e)
<1>1. /\ Len(a) \in Nat /\ Len(b) = Len(a) + 1
      /\ \A n \in 1..Len(a) : b[n] = a[n]
      /\ b[Len(a) + 1] = e
  BY AppendProperties
<1> HIDE DEF b
<1>2. \A n \in 1..Len(b) : n \in 1..Len(a) \/ n = Len(a) + 1
  BY <1>1
<1>3. Len(a) + 1 \in 1..Len(b) /\ \A n \in 1..Len(a) : n \in 1..Len(b)
  BY <1>1
<1>4. ASSUME NEW n \in 1..Len(b)
      PROVE  \E k \in T \cup {h} : AudioEn(ls, c, k, p) /\ Clave(b[n]) = Clave(ls[k])
  BY <1>1, <1>2 DEF AudiosExactos
<1>5. ASSUME NEW k \in T \cup {h}, AudioEn(ls, c, k, p)
      PROVE  \E n \in 1..Len(b) : Clave(b[n]) = Clave(ls[k])
  <2>1. CASE k \in T
    <3>1. PICK n \in 1..Len(a) : Clave(a[n]) = Clave(ls[k])
      BY <1>5, <2>1 DEF AudiosExactos
    <3> QED
      BY <1>1, <1>3, <3>1
  <2>2. CASE k = h
    BY <1>1, <1>3, <2>2
  <2> QED
    BY <2>1, <2>2
<1>6. AudiosExactos(ls, c, b, p, T \cup {h})
  BY <1>4, <1>5 DEF AudiosExactos
<1> QED
  BY <1>6 DEF b

(* A subtitle line of a new language is kept at the end.                   *)
LEMMA SubNuevo ==
  ASSUME NEW ls, NEW c, NEW s \in Seq(Subtitulo), NEW e \in Subtitulo, NEW p,
         NEW h \in Nat, NEW T \in SUBSET (1..h),
         SubsExactos(ls, c, s, p, T),
         SubEn(ls, c, h + 1, p), Clave(e) = Clave(ls[h + 1]),
         e.language = IdiomaSub(ls[h + 1]),
         \A n \in 1..Len(s) : s[n].language # IdiomaSub(ls[h + 1])
  PROVE  SubsExactos(ls, c, Append(s, e), p, T \cup {h + 1})
<1> DEFINE b == Append(s, e)
           U == T \cup {h + 1}
<1>1. /\ Len(s) \in Nat /\ Len(b) = Len(s) + 1
      /\ \A n \in 1..Len(s) : b[n] = s[n]
      /\ b[Len(s) + 1] = e
  BY AppendProperties
<1> HIDE DEF b
<1>2. \A n \in 1..Len(b) : n \in 1..Len(s) \/ n = Len(s) + 1
  BY <1>1
<1>3. Len(s) + 1 \in 1..Len(b) /\ \A n \in 1..Len(s) : n \in 1..Len(b)
  BY <1>1
<1>4. \A k \in T : k < h + 1 /\ ~(h + 1 < k)
  OBVIOUS
<1>5. Primera(ls, c, h + 1, p, U)
  BY <1>4 DEF Primera, SubsExactos
<1>6. ASSUME NEW k \in T, Primera(ls, c, k, p, T) PROVE Primera(ls, c, k, p, U)
  BY <1>4, <1>6 DEF Primera
<1>7. ASSUME NEW n \in 1..Len(b)
      PROVE  \E k \in U : /\ SubEn(ls, c, k, p)
                          /\ Clave(b[n]) = Clave(ls[k])
                          /\ b[n].language = IdiomaSub(ls[k])
                          /\ Primera(ls, c, k, p, U)
  <2>1. CASE n \in 1..Len(s)
    <3>1. PICK k \in T : /\ SubEn(ls, c, k, p)
                         /\ Clave(s[n]) = Clave(ls[k])
                         /\ s[n].language = IdiomaSub(ls[k])
                         /\ Primera(ls, c, k, p, T)
      BY <2>1 DEF SubsExactos
    <3>2. Primera(ls, c, k, p, U) /\ k \in U /\ b[n] = s[n]
      BY <1>1, <1>6, <2>1, <3>1
    <3> QED
      BY <3>1, <3>2
  <2>2. CASE n = Len(s) + 1
    <3>1. b[n] = e /\ h + 1 \in U
      BY <1>1, <2>2
    <3> QED
      BY <1>5, <3>1
  <2> QED
    BY <1>2, <2>1, <2>2
<1>8. ASSUME NEW k \in U, SubEn(ls, c, k, p)
      PROVE  \E n \in 1..Len(b) : b[n].language = IdiomaSub(ls[k])
  <2>1. CASE k \in T
    <3>1. PICK n \in 1..Len(s) : s[n].language = IdiomaSub(ls[k])
      BY <1>8, <2>1 DEF SubsExactos
    <3>2. n \in 1..Len(b) /\ b[n] = s[n]
      BY <1>1, <1>3
    <3> QED
      BY <3>1, <3>2
  <2>2. CASE k = h + 1
    <3>1. b[Len(s) + 1].language = IdiomaSub(ls[k])
      BY <1>1, <2>2
    <3> QED
      BY <1>3, <3>1
  <2> QED
    BY <2>1, <2>2
<1>9. SubsExactos(ls, c, b, p, U)
  BY <1>7, <1>8 DEF SubsExactos
<1> QED
  BY <1>9 DEF b

(* A subtitle line of a language the program has is dropped.               *)
LEMMA SubRepetido ==
  ASSUME NEW ls, NEW c, NEW s, NEW p, NEW h \in Nat, NEW T \in SUBSET (1..h),
         SubsExactos(ls, c, s, p, T),
         \E n \in 1..Len(s) : s[n].language = IdiomaSub(ls[h + 1])
  PROVE  SubsExactos(ls, c, s, p, T \cup {h + 1})
<1>1. \A k \in T : ~(h + 1 < k)
  OBVIOUS
<1>2. \A k \in T : Primera(ls, c, k, p, T) => Primera(ls, c, k, p, T \cup {h + 1})
  BY <1>1 DEF Primera
<1> QED
  BY <1>2 DEF SubsExactos

(* A video line that passes takes the place of the one before.             *)
LEMMA VideoNuevo ==
  ASSUME NEW ls, NEW c, NEW p, NEW h \in Nat, NEW T \in SUBSET (1..h),
         VideoEn(ls, c, h + 1, p)
  PROVE  VideoExacto(ls, c, Clave(ls[h + 1]), p, T \cup {h + 1})
<1>1. \A m \in T \cup {h + 1} : m <= h + 1
  OBVIOUS
<1> QED
  BY <1>1 DEF VideoExacto

(* A program opened where none of its streams has been read is exact.      *)
LEMMA NuevoExacto ==
  ASSUME NEW ls, NEW c, NEW p, NEW h \in Nat, NEW x, NEW nombre,
         \A k \in Tramo(ls, c, p, h) : ls[k].tipo # "Stream"
  PROVE  Exacto(ls, c, NuevoPrograma(x, nombre), p, h)
<1> DEFINE q == NuevoPrograma(x, nombre)
           T == Tramo(ls, c, p, h)
<1>1. q.audio = <<>> /\ q.subtitulos = <<>> /\ q.video = SinVideo
  BY DEF NuevoPrograma
<1>2. \A k \in T : ~AudioEn(ls, c, k, p) /\ ~SubEn(ls, c, k, p) /\ ~VideoEn(ls, c, k, p)
  BY DEF AudioEn, SubEn, VideoEn, PasaEn
<1>3. 1..Len(<<>>) = {}
  OBVIOUS
<1> HIDE DEF q, T
<1>4. AudiosExactos(ls, c, q.audio, p, T)
  BY <1>1, <1>2, <1>3, Zenon DEF AudiosExactos
<1>5. SubsExactos(ls, c, q.subtitulos, p, T)
  BY <1>1, <1>2, <1>3, Zenon DEF SubsExactos
<1>6. VideoExacto(ls, c, q.video, p, T)
  BY <1>1, <1>2, Zenon DEF VideoExacto
<1>7. Exacto(ls, c, q, p, h)
  BY <1>4, <1>5, <1>6 DEF Exacto, ExactoEn, T
<1> QED
  BY <1>7 DEF q

(* What the invariant says of the programs after AbrirPrograma, for the    *)
(* lines before the one that is being read.                                *)
LEMMA AbiertosExactos ==
  ASSUME TypeOK, ContenidoInv, pc = "lineas"
  PROVE  \A p \in DOMAIN Abiertos : Exacto(lineas, configuration, Abiertos[p], p, i - 1)
<1>1. \A p \in DOMAIN programas : Exacto(lineas, configuration, programas[p], p, i - 1)
  BY DEF ContenidoInv, Leidas
<1>2. i - 1 \in Nat
  BY DEF TypeOK, TipoControl
<1>3. CASE SinAbrir
  <2> DEFINE q == NuevoPrograma(MenosUno, "No name")
  <2>1. \A k \in 1..(i-1) : lineas[k].tipo # "Stream"
    BY <1>3 DEF ContenidoInv, Abierto
  <2>2. Exacto(lineas, configuration, q, MenosUno, i - 1)
    BY <1>2, <2>1, NuevoExacto, TramoDe
  <2> HIDE DEF q
  <2>3. Abiertos = Poner(programas, MenosUno, q)
    BY <1>3 DEF Abiertos, q
  <2> QED
    BY <1>1, <2>2, <2>3 DEF Poner
<1>4. CASE ~SinAbrir
  BY <1>1, <1>4 DEF Abiertos
<1> QED
  BY <1>3, <1>4

(* A stream line is none of the other programs'.                           *)
LEMMA OtrosExactos ==
  ASSUME TypeOK, ContenidoInv, pc = "lineas", lineas[i].tipo = "Stream"
  PROVE  \A p \in DOMAIN Abiertos : p # Actual =>
           Exacto(lineas, configuration, Abiertos[p], p, i)
<1> SUFFICES ASSUME NEW p \in DOMAIN Abiertos, p # Actual
             PROVE  Exacto(lineas, configuration, Abiertos[p], p, i)
  OBVIOUS
<1>1. i - 1 \in Nat /\ (i - 1) + 1 = i
  BY DEF TypeOK, TipoControl
<1>2. p \in ProgId
  BY AbiertosTipo DEF TypeOK, TipoSalida
<1>3. ~EnSec(lineas, configuration, i, p)
  BY <1>2 DEF ContenidoInv, Abierto
<1>4. /\ ~AudioEn(lineas, configuration, i, p) /\ ~SubEn(lineas, configuration, i, p)
      /\ ~VideoEn(lineas, configuration, i, p)
  BY <1>3 DEF AudioEn, SubEn, VideoEn, PasaEn
<1>5. Exacto(lineas, configuration, Abiertos[p], p, i - 1)
  BY AbiertosExactos
<1> QED
  BY <1>1, <1>4, <1>5, ExactoIgual

(* Reading a stream line leaves its program open.                          *)
LEMMA StreamAbierto ==
  ASSUME TypeOK, ContenidoInv, LineaStream(lineas[i])
  PROVE  Abierto'
<1>1. /\ i' = i + 1 /\ lineas' = lineas /\ configuration' = configuration
      /\ lineas[i].tipo = "Stream" /\ programId' = Actual
  BY DEF LineaStream, AvanzarLinea, AbrirPrograma
<1>2. i \in Nat \ {0}
  BY DEF TypeOK, TipoControl
<1>3. Actual # SinPrograma
  <2>1. Actual \in ProgId
    BY AbiertosTipo DEF TypeOK, TipoSalida
  <2> QED
    BY <2>1, SidAssumption DEF ProgId, SinPrograma, MenosUno
<1>4. ~SinAbrir' /\ Actual' = Actual
  BY <1>1, <1>3 DEF SinAbrir, Actual
<1>5. \A p : EnSec(lineas, configuration, i + 1, p) <=> EnSec(lineas, configuration, i, p)
  BY <1>1, <1>2, MismaSeccion
<1>6. \A p \in ProgId : EnSec(lineas, configuration, i + 1, p) <=> p = Actual
  BY <1>5 DEF ContenidoInv, Abierto
<1> QED
  BY <1>1, <1>4, <1>6 DEF Abierto

(* Reading one line keeps the invariant on the contents.                   *)
LEMMA LeerContenido ==
  ASSUME TypeOK, ContenidoInv, pc = "lineas", i <= Len(lineas), Leer(lineas[i])
  PROVE  ContenidoInv'
<1> DEFINE l == lineas[i]
           ls == lineas
           c == configuration
<1>t. TipoControl /\ TipoMapa /\ TipoSalida /\ TipoAudio
  BY DEF TypeOK
<1>i. /\ i \in Nat \ {0} /\ Len(lineas) \in Nat
      /\ i - 1 \in Nat /\ (i - 1) + 1 = i /\ (i + 1) - 1 = i /\ (i + 1) - 2 = i - 1
  BY <1>t DEF TipoControl
<1>l. l \in Linea
  BY <1>t, <1>i DEF TipoControl
<1>s. /\ i' = i + 1 /\ lineas' = lineas /\ configuration' = configuration
  BY DEF Leer, LineaPrograma, LineaServicio, LineaIgnorada, LineaDescartada, LineaVideo,
         LineaAudio, LineaSubtitulo, LineaStream, AvanzarLinea
<1>a. /\ Actual \in ProgId
      /\ DOMAIN Abiertos \subseteq ProgId
      /\ Abiertos \in [DOMAIN Abiertos -> Programa]
      /\ Actual \in DOMAIN Abiertos
      /\ Abiertos[Actual] \in Programa
  BY <1>t, AbiertosTipo DEF TipoSalida
<1>e. EnSec(ls, c, i, Actual) /\ \A p \in ProgId : EnSec(ls, c, i, p) <=> p = Actual
  BY <1>a DEF ContenidoInv, Abierto
<1>x. \A p \in DOMAIN Abiertos : Exacto(ls, c, Abiertos[p], p, i - 1)
  BY AbiertosExactos
<1>o. l.tipo = "Stream" => \A p \in DOMAIN Abiertos : p # Actual => Exacto(ls, c, Abiertos[p], p, i)
  BY OtrosExactos
<1>r. l.tipo = "Stream" => \A p : Tramo(ls, c, p, i) = Tramo(ls, c, p, i - 1) \cup {i}
  <2>1. ASSUME lineas[i].tipo = "Stream", NEW p
        PROVE  Tramo(lineas, configuration, p, (i - 1) + 1)
                 = Tramo(lineas, configuration, p, i - 1) \cup {(i - 1) + 1}
    <3>1. lineas[(i - 1) + 1].tipo # "Program"
      BY <1>i, <2>1
    <3> QED
      BY <1>i, <3>1, TramoSigue
  <2> QED
    BY <1>i, <2>1
<1>m. \A p \in DOMAIN programas : Exacto(ls, c, programas[p], p, i - 1)
  BY DEF ContenidoInv, Leidas
<1>0. i' <= Len(lineas') + 1
  BY <1>s, <1>i DEF ContenidoInv
(* What remains to be shown of a line that leaves the loop where it is.    *)
<1>f. ASSUME pc' \in {"lineas", "panic"}, Abierto',
             pc' = "lineas" => \A p \in DOMAIN programas' : Exacto(ls, c, programas'[p], p, i)
      PROVE  ContenidoInv'
  <2>1. Leidas' = i
    BY <1>f, <1>s, <1>i DEF Leidas
  <2>2. Pendiente'
    BY <1>f DEF Pendiente
  <2> QED
    BY <1>0, <1>s, <1>f, <2>1, <2>2 DEF ContenidoInv
<1>n. ASSUME l.tipo # "Stream"
      PROVE  \A p \in DOMAIN programas :
               c.Streams # {} \/ l.tipo # "Program" \/ l.sid # p =>
                 Exacto(ls, c, programas[p], p, i)
  <2>1. \A p : ~AudioEn(ls, c, i, p) /\ ~SubEn(ls, c, i, p) /\ ~VideoEn(ls, c, i, p)
    BY <1>n DEF AudioEn, SubEn, VideoEn, PasaEn
  <2> QED
    BY <1>i, <1>m, <2>1, ExactoIgual
<1>1. ASSUME LineaPrograma(l) PROVE ContenidoInv'
  <2> DEFINE nuevo == NuevoPrograma(l.sid, "")
  <2>1. /\ l.tipo = "Program" /\ c.Streams = {} /\ programId' = l.sid /\ pc' = pc
        /\ programas' = Poner(programas, l.sid, nuevo)
    BY <1>1 DEF LineaPrograma, streams_ok
  <2>2. l.sid \in Sid /\ l.sid # SinPrograma /\ l.sid # MenosUno
    BY <1>l, <2>1, LineaTipo, SidAssumption
  <2>3. Abierto'
    <3>0. i \in Nat \ {0} /\ lineas[i].tipo = "Program" /\ configuration.Streams = {}
      BY <1>i, <2>1
    <3>1. \A p : EnSec(ls, c, i + 1, p) <=> p = l.sid
      <4>1. SoloEn(lineas, configuration, i + 1, lineas[i].sid)
        BY ONLY <3>0, OtraSeccion, Zenon
      <4> QED
        BY <4>1 DEF SoloEn
    <3>2. ~SinAbrir' /\ Actual' = l.sid
      BY <2>1, <2>2 DEF SinAbrir, Actual
    <3> QED
      BY <1>s, <3>1, <3>2 DEF Abierto
  <2>4. \A k \in Tramo(ls, c, l.sid, i) : ls[k].tipo # "Stream"
    BY <1>i, <2>1, TramoNuevo
  <2>5. Exacto(ls, c, nuevo, l.sid, i)
    BY <1>i, <2>4, NuevoExacto
  <2> HIDE DEF nuevo
  <2>6. \A p \in DOMAIN programas' : Exacto(ls, c, programas'[p], p, i)
    BY <1>n, <2>1, <2>5 DEF Poner
  <2> QED
    BY <1>f, <2>1, <2>3, <2>6
<1>q. ASSUME l.tipo # "Program" \/ c.Streams # {}, l.tipo # "Stream", programId' = programId
      PROVE  Abierto'
  <2>1. \A p : EnSec(ls, c, i + 1, p) <=> EnSec(ls, c, i, p)
    BY <1>q, <1>i, MismaSeccion
  <2>2. Actual' = Actual /\ SinAbrir' = SinAbrir
    BY <1>q DEF Actual, SinAbrir
  <2>3. \A k \in 1..i : k \in 1..(i-1) \/ k = i
    BY <1>i
  <2>4. SinAbrir => \A k \in 1..i : ls[k].tipo # "Stream"
    BY <1>q, <2>3 DEF ContenidoInv, Abierto
  <2> QED
    BY <1>s, <1>i, <1>e, <2>1, <2>2, <2>4 DEF Abierto
<1>2. ASSUME LineaServicio(l) PROVE ContenidoInv'
  <2> DEFINE q == [programas[programId] EXCEPT !.nombre = l.nombre]
  <2>1. /\ l.tipo = "Service" /\ programId' = programId /\ pc' = pc
        /\ programas' = [programas EXCEPT ![programId] = q]
        /\ programId \in DOMAIN programas /\ programas[programId] \in Programa
    BY <1>2, <1>t DEF LineaServicio, TipoMapa
  <2>2. /\ q.audio = programas[programId].audio
        /\ q.subtitulos = programas[programId].subtitulos
        /\ q.video = programas[programId].video
    BY <2>1 DEF Programa
  <2> HIDE DEF q
  <2>3. \A p \in DOMAIN programas : Exacto(ls, c, programas[p], p, i)
    BY <1>n, <2>1
  <2>4. Exacto(ls, c, q, programId, i)
    BY <2>1, <2>2, <2>3 DEF Exacto, ExactoEn
  <2>5. \A p \in DOMAIN programas' : Exacto(ls, c, programas'[p], p, i)
    BY <2>1, <2>3, <2>4
  <2> QED
    BY <1>f, <1>q, <2>1, <2>5
<1>3. ASSUME LineaIgnorada(l) PROVE ContenidoInv'
  <2>1. /\ l.tipo # "Program" \/ c.Streams # {}
        /\ l.tipo # "Stream" /\ programId' = programId /\ pc' = pc
        /\ programas' = programas
    BY <1>3 DEF LineaIgnorada, streams_ok
  <2> QED
    BY <1>f, <1>n, <1>q, <2>1
<1>b. ASSUME LineaStream(l) PROVE Abierto' /\ l.tipo = "Stream" /\ programId' = Actual
  BY <1>b, StreamAbierto DEF LineaStream, AbrirPrograma
<1>4. ASSUME LineaDescartada(l) PROVE ContenidoInv'
  <2>1. /\ LineaStream(l) /\ pc' = pc /\ programas' = Abiertos
        /\ \/ c.Streams # {} /\ l.hexaId \notin c.Streams
           \/ l.clase = "Audio" /\ c.An
           \/ l.clase = "Subtitle" /\ c.Sn
           \/ l.clase = "Data"
    BY <1>4 DEF LineaDescartada, Filtrado, streams_ok
  <2>2. \A p : ~AudioEn(ls, c, i, p) /\ ~SubEn(ls, c, i, p) /\ ~VideoEn(ls, c, i, p)
    BY <2>1 DEF AudioEn, SubEn, VideoEn, PasaEn
  <2>3. \A p \in DOMAIN Abiertos : Exacto(ls, c, Abiertos[p], p, i)
    BY <1>b, <1>i, <1>x, <2>1, <2>2, ExactoIgual
  <2> QED
    BY <1>b, <1>f, <2>1, <2>3
<1>5. ASSUME LineaVideo(l) PROVE ContenidoInv'
  <2> DEFINE q == [Abiertos[Actual] EXCEPT !.video = Clave(l)]
  <2>1. /\ LineaStream(l) /\ l.clase = "Video" /\ ~Filtrado(l)
        /\ \/ pc' = pc /\ programas' = [Abiertos EXCEPT ![Actual] = q]
           \/ pc' = "panic"
    BY <1>5 DEF LineaVideo
  <2>2. /\ q.audio = Abiertos[Actual].audio /\ q.video = Clave(l)
        /\ q.subtitulos = Abiertos[Actual].subtitulos
    BY <1>a DEF Programa
  <2>3. ~AudioEn(ls, c, i, Actual) /\ ~SubEn(ls, c, i, Actual)
    BY <2>1 DEF AudioEn, SubEn, PasaEn
  <2>4. VideoEn(ls, c, i, Actual)
    BY <1>b, <1>e, <2>1 DEF VideoEn, PasaEn, Filtrado, streams_ok
  <2> HIDE DEF q
  <2>5. Exacto(ls, c, Abiertos[Actual], Actual, i - 1)
    BY <1>a, <1>x
  <2> DEFINE T == Tramo(ls, c, Actual, i - 1)
  <2>6. AudiosExactos(ls, c, q.audio, Actual, T \cup {i})
    BY <2>2, <2>3, <2>5, AudiosIgual DEF Exacto, ExactoEn
  <2>7. SubsExactos(ls, c, q.subtitulos, Actual, T \cup {i})
    BY <2>2, <2>3, <2>5, SubsIgual DEF Exacto, ExactoEn
  <2>8. VideoExacto(ls, c, q.video, Actual, T \cup {i})
    <3>1. T \in SUBSET (1..(i - 1))
      BY <1>i, TramoDe
    <3> HIDE DEF T
    <3>2. VideoExacto(ls, c, Clave(ls[(i - 1) + 1]), Actual, T \cup {(i - 1) + 1})
      BY <1>i, <2>4, <3>1, VideoNuevo
    <3> QED
      BY <1>i, <2>2, <3>2
  <2>9. Exacto(ls, c, q, Actual, i)
    BY <1>b, <1>r, <2>1, <2>6, <2>7, <2>8 DEF Exacto, ExactoEn
  <2>10. pc' = "lineas" => \A p \in DOMAIN programas' : Exacto(ls, c, programas'[p], p, i)
    BY <1>a, <1>b, <1>o, <2>1, <2>9
  <2> QED
    BY <1>b, <1>f, <2>1, <2>10
<1>6. ASSUME LineaAudio(l) PROVE ContenidoInv'
  <2>1. /\ LineaStream(l) /\ l.clase = "Audio" /\ ~Filtrado(l) /\ ~c.An
        /\ programas' = Abiertos /\ pc' = "renombrar"
        /\ elem' = [id |-> l.id, hexaId |-> l.hexaId, language |-> NombreInicial(l)]
        /\ ok' <=> (c.Audio_lang # {} => NombreInicial(l) \in c.Audio_lang)
    BY <1>6 DEF LineaAudio, audio_lang_ok
  <2>2. Clave(elem') = Clave(l)
    BY <2>1 DEF Clave
  <2>3. \A p \in ProgId : (ok' /\ p = programId') <=> AudioEn(ls, c, i, p)
    BY <1>b, <1>e, <2>1 DEF AudioEn, PasaEn, Filtrado, streams_ok
  <2>4. Pendiente'
    BY <1>s, <1>i, <1>b, <2>1, <2>2, <2>3 DEF Pendiente
  <2>5. Leidas' = i - 1
    BY <1>s, <1>i, <2>1 DEF Leidas
  <2> QED
    BY <1>0, <1>s, <1>b, <1>x, <2>1, <2>4, <2>5 DEF ContenidoInv
<1>7. ASSUME LineaSubtitulo(l) PROVE ContenidoInv'
  <2> DEFINE sub == [id |-> l.id, hexaId |-> l.hexaId, language |-> IdiomaSub(l)]
             subs == Abiertos[Actual].subtitulos
             q == [Abiertos[Actual] EXCEPT !.subtitulos = Append(subs, sub)]
  <2>1. /\ LineaStream(l) /\ l.clase = "Subtitle" /\ ~Filtrado(l) /\ ~c.Sn /\ pc' = pc
        /\ \/ SubAceptado(l) /\ programas' = [Abiertos EXCEPT ![Actual] = q]
           \/ ~SubAceptado(l) /\ programas' = Abiertos
    BY <1>7 DEF LineaSubtitulo
  <2>2. /\ q.audio = Abiertos[Actual].audio /\ q.video = Abiertos[Actual].video
        /\ q.subtitulos = Append(subs, sub)
    BY <1>a DEF Programa
  <2>3. subs \in Seq(Subtitulo)
    BY <1>a DEF Programa
  <2>4. sub \in Subtitulo
    BY <1>b, <1>l, <2>1, LineaTipo DEF IdiomaSub, Subtitulo
  <2>5. Clave(sub) = Clave(l) /\ sub.language = IdiomaSub(l)
    BY DEF Clave
  <2> HIDE DEF sub, q
  <2>6. ~AudioEn(ls, c, i, Actual) /\ ~VideoEn(ls, c, i, Actual)
    BY <2>1 DEF AudioEn, VideoEn, PasaEn
  <2>7. SubEn(ls, c, i, Actual) <=> (c.Sub_lang # {} => IdiomaSub(l) \in c.Sub_lang)
    BY <1>b, <1>e, <2>1 DEF SubEn, PasaEn, Filtrado, streams_ok
  <2> DEFINE T == Tramo(ls, c, Actual, i - 1)
  <2>8. /\ AudiosExactos(ls, c, Abiertos[Actual].audio, Actual, T)
        /\ SubsExactos(ls, c, subs, Actual, T)
        /\ VideoExacto(ls, c, Abiertos[Actual].video, Actual, T)
    BY <1>a, <1>x DEF Exacto, ExactoEn
  <2>t. Tramo(ls, c, Actual, i) = T \cup {i} /\ T \in SUBSET (1..(i - 1))
    BY <1>b, <1>i, <1>r, <2>1, TramoDe
  <2> HIDE DEF subs, T
  <2>9. /\ AudiosExactos(ls, c, Abiertos[Actual].audio, Actual, T \cup {i})
        /\ VideoExacto(ls, c, Abiertos[Actual].video, Actual, T \cup {i})
    BY <2>6, <2>8, AudiosIgual, VideoIgual
  <2>10. CASE SubAceptado(l)
    <3>1. /\ SubEn(ls, c, i, Actual)
          /\ \A n \in 1..Len(subs) : subs[n].language # IdiomaSub(l)
      BY <2>7, <2>10 DEF SubAceptado, subs, sub_lang_ok
    <3>2. SubsExactos(ls, c, Append(subs, sub), Actual, T \cup {(i - 1) + 1})
      BY <1>i, <2>3, <2>4, <2>5, <2>8, <2>t, <3>1, SubNuevo
    <3>3. Exacto(ls, c, q, Actual, i)
      BY <1>i, <2>2, <2>9, <2>t, <3>2 DEF Exacto, ExactoEn
    <3>4. \A p \in DOMAIN programas' : Exacto(ls, c, programas'[p], p, i)
      BY <1>a, <1>b, <1>o, <2>1, <2>10, <3>3
    <3> QED
      BY <1>b, <1>f, <2>1, <3>4
  <2>11. CASE ~SubAceptado(l)
    <3>1. \/ ~SubEn(ls, c, i, Actual)
          \/ \E n \in 1..Len(subs) : subs[n].language = IdiomaSub(l)
      BY <2>7, <2>11 DEF SubAceptado, subs, sub_lang_ok
    <3>2. SubsExactos(ls, c, subs, Actual, T \cup {(i - 1) + 1})
      BY <1>i, <2>8, <2>t, <3>1, SubsIgual, SubRepetido
    <3>3. Exacto(ls, c, Abiertos[Actual], Actual, i)
      BY <1>i, <2>9, <2>t, <3>2 DEF Exacto, ExactoEn, subs
    <3>4. \A p \in DOMAIN programas' : Exacto(ls, c, programas'[p], p, i)
      BY <1>a, <1>b, <1>o, <2>1, <2>11, <3>3
    <3> QED
      BY <1>b, <1>f, <2>1, <3>4
  <2> QED
    BY <2>10, <2>11
<1> QED
  BY <1>1, <1>2, <1>3, <1>4, <1>5, <1>6, <1>7 DEF Leer

(* Keeping the audio whose name has been found.                            *)
LEMMA FinContenido ==
  ASSUME TypeOK, ContenidoInv, FinRenombrar
  PROVE  ContenidoInv'
<1> DEFINE ls == lineas
           c == configuration
           Q == programas[programId]
           q == [Q EXCEPT !.audio = Append(Q.audio, elem)]
<1>1. /\ pc = "renombrar" /\ pc' = "lineas"
      /\ UNCHANGED <<configuration, lineas, i, programId>>
      /\ \/ ok /\ programas' = [programas EXCEPT ![programId] = q]
         \/ ~ok /\ programas' = programas
  BY DEF FinRenombrar
<1>2. /\ programId \in DOMAIN programas /\ Q \in Programa /\ elem \in Audio
      /\ DOMAIN programas \subseteq ProgId
  BY <1>1 DEF TypeOK, TipoMapa, TipoAudio
<1>3. /\ i \in Nat /\ i >= 2
      /\ ls[i-1].tipo = "Stream" /\ ls[i-1].clase = "Audio"
      /\ Clave(elem) = Clave(ls[i-1])
      /\ \A p \in ProgId : (ok /\ p = programId) <=> AudioEn(ls, c, i - 1, p)
  BY <1>1 DEF TypeOK, TipoControl, ContenidoInv, Pendiente
<1>4. i - 2 \in Nat /\ (i - 2) + 1 = i - 1
  BY <1>3
<1>5. \A p \in DOMAIN programas : Exacto(ls, c, programas[p], p, i - 2)
  BY <1>1 DEF ContenidoInv, Leidas
<1>6. \A p : ~SubEn(ls, c, i - 1, p) /\ ~VideoEn(ls, c, i - 1, p)
  BY <1>3 DEF SubEn, VideoEn, PasaEn
<1>7. ASSUME NEW p \in DOMAIN programas, ~ok \/ p # programId
      PROVE  Exacto(ls, c, programas[p], p, i - 1)
  <2>1. ~AudioEn(ls, c, i - 1, p)
    BY <1>2, <1>3, <1>7
  <2> QED
    BY <1>3, <1>4, <1>5, <1>6, <2>1, ExactoIgual
<1>8. ASSUME ok PROVE Exacto(ls, c, q, programId, i - 1)
  <2>1. /\ q.audio = Append(Q.audio, elem) /\ q.video = Q.video
        /\ q.subtitulos = Q.subtitulos /\ Q.audio \in Seq(Audio)
    BY <1>2 DEF Programa
  <2>2. AudioEn(ls, c, i - 1, programId)
    BY <1>2, <1>3, <1>8
  <2> HIDE DEF q
  <2>3. Exacto(ls, c, Q, programId, i - 2)
    BY <1>2, <1>5
  <2> HIDE DEF Q
  <2> DEFINE T == Tramo(ls, c, programId, i - 2)
  <2>t. Tramo(ls, c, programId, i - 1) = T \cup {i - 1}
    <3>1. ls[(i - 2) + 1].tipo # "Program"
      BY <1>3, <1>4
    <3> QED
      BY <1>4, <3>1, TramoSigue
  <2>x. /\ AudiosExactos(ls, c, Q.audio, programId, T)
        /\ SubsExactos(ls, c, Q.subtitulos, programId, T)
        /\ VideoExacto(ls, c, Q.video, programId, T)
    BY <2>3 DEF Exacto, ExactoEn
  <2> HIDE DEF T
  <2>4. AudiosExactos(ls, c, Append(Q.audio, elem), programId, T \cup {i - 1})
    BY <1>2, <1>3, <2>1, <2>2, <2>x, AudioNuevo
  <2>5. SubsExactos(ls, c, Q.subtitulos, programId, T \cup {i - 1})
    BY <1>6, <2>x, SubsIgual
  <2>6. VideoExacto(ls, c, Q.video, programId, T \cup {i - 1})
    BY <1>6, <2>x, VideoIgual
  <2> QED
    BY <2>1, <2>t, <2>4, <2>5, <2>6 DEF Exacto, ExactoEn
<1> HIDE DEF q
<1>9. \A p \in DOMAIN programas' : Exacto(ls, c, programas'[p], p, i - 1)
  BY <1>1, <1>2, <1>7, <1>8
<1>10. Leidas' = i - 1
  BY <1>1 DEF Leidas
<1>11. Abierto'
  BY <1>1 DEF ContenidoInv, Abierto, Actual, SinAbrir
<1> QED
  BY <1>1, <1>9, <1>10, <1>11 DEF ContenidoInv, Pendiente

(* Every step keeps the invariant on the contents.                         *)
LEMMA PasoContenido ==
  TypeOK /\ SeleccionInv /\ ContenidoInv /\ [Next]_vars => ContenidoInv'
<1> SUFFICES ASSUME TypeOK, SeleccionInv, ContenidoInv, [Next]_vars PROVE ContenidoInv'
  OBVIOUS
<1>1. CASE Ffprobe
  <2>1. /\ pc' # "panic" /\ pc' \notin {"ffprobe", "renombrar", "elegir", "fin"}
        /\ UNCHANGED <<configuration, i, programId, programas>>
        /\ lineas' \in Informes \/ lineas' = lineas
    BY <1>1 DEF Ffprobe
  <2>2. i = 1 /\ DOMAIN programas = {} /\ programId = SinPrograma
    BY <1>1 DEF Ffprobe, ContenidoInv
  <2>4. i' <= Len(lineas') + 1
    <3>1. lineas' \in Seq(Linea)
      BY <2>1, InformesAssumption DEF TypeOK, TipoControl
    <3>2. Len(lineas') \in Nat
      BY <3>1
    <3> QED
      BY <2>1, <2>2, <3>2
  <2>5. Previas(lineas', i') = {}
    BY <2>1, <2>2 DEF Previas
  <2>6. Abierto'
    BY <2>1, <2>2, <2>5 DEF Abierto, EnSec, Actual, SinAbrir
  <2> QED
    BY <2>1, <2>2, <2>4, <2>6 DEF ContenidoInv, Pendiente
<1>2. CASE PostError
  BY <1>2 DEF PostError, ContenidoInv, Abierto, Actual, SinAbrir, Pendiente, Leidas
<1>3. CASE LeerLinea
  BY <1>3, LeerContenido DEF LeerLinea
<1>4. CASE Renombrar
  <2>1. Clave(elem') = Clave(elem)
    BY <1>4 DEF Renombrar, Clave, TypeOK, TipoAudio, Audio
  <2>2. /\ pc = "renombrar" /\ pc' = pc
        /\ UNCHANGED <<configuration, lineas, i, programId, programas, programa, ok>>
    BY <1>4 DEF Renombrar
  <2>3. Pendiente'
    BY <2>1, <2>2 DEF ContenidoInv, Pendiente
  <2>4. Abierto' /\ Leidas' = Leidas
    BY <2>2 DEF ContenidoInv, Abierto, Actual, SinAbrir, Leidas
  <2> QED
    BY <2>2, <2>3, <2>4 DEF ContenidoInv
<1>5. CASE FinRenombrar
  BY <1>5, FinContenido
<1>6. CASE PostStreams
  BY <1>6 DEF PostStreams, ContenidoInv, Abierto, Actual, SinAbrir, Pendiente, Leidas
<1>7. CASE Elegir
  <2>1. /\ pc = "elegir" /\ pc' \in {"fin", "fatal"}
        /\ UNCHANGED <<configuration, lineas, i, programId, programas>>
        /\ pc' = "fin" => programa.id \in DOMAIN programas /\ programa' = programas[programa.id]
    BY <1>7 DEF Elegir
  <2>2. pc' = "fin" => programa'.id = programa.id
    BY <2>1 DEF SeleccionInv
  <2>3. Abierto' /\ Leidas' = Leidas
    BY <2>1 DEF ContenidoInv, Abierto, Actual, SinAbrir, Leidas
  <2> QED
    BY <2>1, <2>2, <2>3 DEF ContenidoInv, Pendiente
<1>8. CASE UNCHANGED vars
  BY <1>8 DEF vars, ContenidoInv, Abierto, Actual, SinAbrir, Pendiente, Leidas
<1> QED
  BY <1>1, <1>2, <1>3, <1>4, <1>5, <1>6, <1>7, <1>8 DEF Next

(* The invariant on the contents holds at the start.                       *)
LEMMA InitContenido == Init => ContenidoInv
<1> SUFFICES ASSUME Init PROVE ContenidoInv
  OBVIOUS
<1>1. /\ pc = "ffprobe" /\ DOMAIN programas = {} /\ programId = SinPrograma
      /\ i = 1 /\ lineas = <<>>
  BY DEF Init
<1>2. Len(lineas) = 0
  BY <1>1
<1>4. Previas(lineas, i) = {}
  BY <1>1 DEF Previas
<1>5. Abierto
  BY <1>1, <1>4 DEF Abierto, EnSec, Actual, SinAbrir
<1> QED
  BY <1>1, <1>2, <1>5 DEF ContenidoInv, Pendiente

(* At the end the invariant is PistasExactas: of two first subtitles of    *)
(* one language, neither is before the other.                              *)
LEMMA ContenidoImplica == TypeOK /\ ContenidoInv => PistasExactas
<1> SUFFICES ASSUME TypeOK, ContenidoInv, pc = "fin" PROVE PistasExactas
  BY DEF PistasExactas
<1> DEFINE ls == lineas
           c == configuration
           p == programa.id
           L == Len(lineas)
           T == Tramo(lineas, configuration, programa.id, Len(lineas))
<1>1. L \in Nat /\ i - 1 = L
  BY DEF TypeOK, TipoControl, ContenidoInv
<1>2. Exacto(ls, c, programa, p, L)
  BY <1>1 DEF ContenidoInv, Leidas
<1>3. ASSUME NEW clase
      PROVE  \A k : k \in Pasan(clase) <=> (k \in T /\ PasaEn(ls, c, clase, k, p))
  BY EnSecEs DEF Pasan, PasaEn, Reabierta, Tramo, streams_ok
<1>4. \A k : k \in AudiosPasan <=> (k \in T /\ AudioEn(ls, c, k, p))
  <2>1. \A k : NombreInicial(ls[k]).n = 1
    BY DEF NombreInicial
  <2>2. ASSUME NEW k
        PROVE  /\ audio_lang_ok => \E a \in c.Audio_lang : Pide(a, ls[k])
               /\ ~SoloPorIdioma(ls[k])
               <=> (c.Audio_lang # {} => NombreInicial(ls[k]) \in c.Audio_lang)
    BY <2>1 DEF Pide, SoloPorIdioma, audio_lang_ok
  <2> QED
    BY <1>3, <2>2 DEF AudiosPasan, AudioEn
<1>5. \A k : k \in SubtitulosPasan <=> (k \in T /\ SubEn(ls, c, k, p))
  BY <1>3 DEF SubtitulosPasan, SubEn, sub_lang_ok
<1>6. \A k : k \in Pasan("Video") <=> (k \in T /\ VideoEn(ls, c, k, p))
  BY <1>3 DEF VideoEn
<1>t. T \subseteq 1..L
  BY <1>1, TramoDe
<1> HIDE DEF T
<1> DEFINE PrimerasSub == {m \in SubtitulosPasan :
              \A n \in SubtitulosPasan :
                n < m => IdiomaSub(lineas[n]) # IdiomaSub(lineas[m])}
<1>7. {Clave(programa.audio[k]) : k \in 1..Len(programa.audio)}
         = {Clave(lineas[k]) : k \in AudiosPasan}
  <2>1. \A n \in 1..Len(programa.audio) : \E k \in AudiosPasan :
          Clave(programa.audio[n]) = Clave(lineas[k])
    BY <1>2, <1>4 DEF Exacto, ExactoEn, AudiosExactos, T
  <2>2. \A k \in AudiosPasan : \E n \in 1..Len(programa.audio) :
          Clave(programa.audio[n]) = Clave(lineas[k])
    BY <1>2, <1>4 DEF Exacto, ExactoEn, AudiosExactos, T
  <2> QED
    BY <2>1, <2>2
<1>8. \A k : k \in PrimerasSub <=> (k \in T /\ SubEn(ls, c, k, p) /\ Primera(ls, c, k, p, T))
  BY <1>5 DEF Primera
<1> HIDE DEF PrimerasSub
<1>9. ASSUME NEW k \in PrimerasSub, NEW m \in PrimerasSub, IdiomaSub(ls[k]) = IdiomaSub(ls[m])
      PROVE  k = m
  <2>1. k \in T /\ SubEn(ls, c, k, p) /\ Primera(ls, c, k, p, T)
    BY <1>8
  <2>2. m \in T /\ SubEn(ls, c, m, p) /\ Primera(ls, c, m, p, T)
    BY <1>8
  <2>3. ~(k < m)
    BY <1>1, <1>9, <2>1, <2>2 DEF Primera
  <2>4. ~(m < k)
    BY <1>1, <1>9, <2>1, <2>2 DEF Primera
  <2> QED
    BY <1>1, <1>t, <2>1, <2>2, <2>3, <2>4
<1>10. \A n \in 1..Len(programa.subtitulos) : \E k \in PrimerasSub :
         /\ Clave(programa.subtitulos[n]) = Clave(ls[k])
         /\ programa.subtitulos[n].language = IdiomaSub(ls[k])
  BY <1>2, <1>8 DEF Exacto, ExactoEn, SubsExactos, T
<1>11. \A k \in PrimerasSub : \E n \in 1..Len(programa.subtitulos) :
         Clave(programa.subtitulos[n]) = Clave(ls[k])
  <2> SUFFICES ASSUME NEW k \in PrimerasSub
               PROVE  \E n \in 1..Len(programa.subtitulos) :
                        Clave(programa.subtitulos[n]) = Clave(ls[k])
    OBVIOUS
  <2>1. PICK n \in 1..Len(programa.subtitulos) :
          programa.subtitulos[n].language = IdiomaSub(ls[k])
    BY <1>2, <1>8 DEF Exacto, ExactoEn, SubsExactos, T
  <2>2. PICK m \in PrimerasSub : /\ Clave(programa.subtitulos[n]) = Clave(ls[m])
                                 /\ programa.subtitulos[n].language = IdiomaSub(ls[m])
    BY <1>10
  <2>3. m = k
    BY <1>9, <2>1, <2>2
  <2> QED
    BY <2>2, <2>3
<1>12. {Clave(programa.subtitulos[k]) : k \in 1..Len(programa.subtitulos)}
         = {Clave(lineas[k]) : k \in PrimerasSub}
  BY <1>10, <1>11
<1>13. IF Pasan("Video") = {}
       THEN programa.video = SinVideo
       ELSE \E k \in Pasan("Video") : /\ programa.video = Clave(lineas[k])
                                      /\ \A m \in Pasan("Video") : m <= k
  <2>1. VideoExacto(ls, c, programa.video, p, T)
    BY <1>2 DEF Exacto, ExactoEn, T
  <2>2. CASE programa.video = SinVideo /\ \A k \in T : ~VideoEn(ls, c, k, p)
    BY <1>6, <2>2
  <2>3. CASE \E k \in T : /\ VideoEn(ls, c, k, p) /\ programa.video = Clave(ls[k])
                          /\ \A m \in T : VideoEn(ls, c, m, p) => m <= k
    BY <1>6, <2>3
  <2> QED
    BY <2>1, <2>2, <2>3 DEF VideoExacto
<1> QED
  BY <1>7, <1>12, <1>13 DEF PistasExactas, PrimerasSub

(* A call that returns leaves in the global variable exactly the streams   *)
(* of the selected program's section of the report that the options let    *)
(* through, whatever the report, programs listed twice included, and the   *)
(* options (codificacion.go, the loop of obtenerStreamsPost over the lines *)
(* of ffprobe).  The audios asked for by language alone are the exception. *)
THEOREM ContenidoExacto == Spec => []PistasExactas
BY InitTipo, PasoTipo, InitSeleccion, PasoSeleccion, InitContenido, PasoContenido,
   ContenidoImplica, PTL DEF Spec
=============================================================================
