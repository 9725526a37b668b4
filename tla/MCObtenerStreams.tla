-------------------------- MODULE MCObtenerStreams --------------------------
(***************************************************************************)
(* Reports and configurations on which ObtenerStreams is model-checked.    *)
(* A report is what ffprobe prints: either streams outside any program, or *)
(* up to two programs, each with its service line and its streams, the     *)
(* second of which may be called "Program 1".  The streams are numbered in *)
(* order, as ffprobe numbers them.                                         *)
(***************************************************************************)
EXTENDS ObtenerStreams

CONSTANTS
  MaxFlujos,      \* bound: streams of the first program
  MaxAudios,      \* bound: audio streams of a report with audio only
  SoloSid         \* the -sid values considered

MCSid == {"1", "2"}
MCLang == {"spa", "eng"}
MCServicio == {"La 1"}

Flujo(clase, hexaId, language, fps) ==
  [tipo |-> "Stream", clase |-> clase, hexaId |-> hexaId,
   language |-> language, fps |-> fps]

(* Without a pid two audio streams of one language collide; so do two      *)
(* programs' streams with the same pid, but only within one -streams run.  *)
Audios == {Flujo("Audio", SinHexa, "spa", FALSE),
           Flujo("Audio", SinHexa, "", FALSE),
           Flujo("Audio", 101, "spa", FALSE)}

Flujos == Audios \cup
  {Flujo("Video", 100, "", TRUE), Flujo("Video", SinHexa, "", FALSE),
   Flujo("Subtitle", 102, "spa", FALSE), Flujo("Subtitle", SinHexa, "", FALSE),
   Flujo("Data", 103, "", FALSE)}

Listas(S, n) == UNION {[1..k -> S] : k \in 0..n}

Numerar(s, base) ==
  [k \in 1..Len(s) |->
     [tipo |-> "Stream", id |-> base + k - 1, hexaId |-> s[k].hexaId,
      language |-> s[k].language, clase |-> s[k].clase, fps |-> s[k].fps]]

Programas(sid) == <<[tipo |-> "Program", sid |-> sid]>>
ServicioLa1 == <<[tipo |-> "Service", nombre |-> "La 1"]>>

MCInformes ==
  {Numerar(s, 0) : s \in Listas(Audios, MaxAudios)}
    \cup {ServicioLa1 \o Numerar(s, 0) : s \in Listas(Flujos, 2)}
    \cup {Programas("1") \o ServicioLa1 \o Numerar(s, 0) \o
          Programas("2") \o Numerar(t, Len(s)) :
            s \in Listas(Flujos, MaxFlujos), t \in Listas(Flujos, 1)}
    \cup {Programas("2") \o Numerar(s, 0) : s \in Listas(Flujos, 1)}
    \cup {Programas("1") \o Numerar(s, 0) \o Programas("2") \o Programas("1") \o
          Numerar(t, Len(s)) :
            s \in Listas(Flujos, 1), t \in Listas(Flujos, 2)}

Etiqueta(lang) == [base |-> lang, pid |-> 0, n |-> 0]
Nombre(lang, pid) == [base |-> lang, pid |-> pid, n |-> 1]

Opciones(sid, an, sn, sub_lang, audio_lang, streams) ==
  [Id_programa |-> sid, An |-> an, Sn |-> sn, Sub_lang |-> sub_lang,
   Audio_lang |-> audio_lang, Streams |-> streams]

MCConfigs ==
  UNION {{Opciones(sid, FALSE, FALSE, {}, {}, {}),
          Opciones(sid, FALSE, FALSE, {"spa"}, {Nombre("spa", 101)}, {}),
          Opciones(sid, TRUE, FALSE, {}, {}, {}),
          Opciones(sid, FALSE, TRUE, {}, {Etiqueta("spa")}, {}),
          Opciones(sid, FALSE, FALSE, {}, {}, {100, 101, 102})} :
           sid \in SoloSid}
=============================================================================
