SPECIFICATION Spec
CONSTANTS
  Sid <- MCSid
  Lang <- MCLang
  Servicio <- MCServicio
  Informes <- MCInformes
  Configs <- MCConfigs
  SoloSid = {""}
  MaxFlujos = 1
  MaxAudios = 2
CHECK_DEADLOCK FALSE
INVARIANT
  PrimerPrograma
