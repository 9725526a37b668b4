SPECIFICATION Spec
CONSTANTS
  Sid <- MCSid
  Lang <- MCLang
  Servicio <- MCServicio
  Informes <- MCInformes
  Configs <- MCConfigs
  SoloSid = {"", "1"}
  MaxFlujos = 3
  MaxAudios = 5
CHECK_DEADLOCK FALSE
INVARIANTS
  TypeOK
  PistasUnicas
  SeleccionPrograma
  PistasExactas
  InformeCubre
