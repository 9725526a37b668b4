SPECIFICATION Spec
CONSTANTS
  h264 = h264
  hevc = hevc
  Coord = coord
  Enc = {h264, hevc}
  Nombre <- NombresPropios
  Informes <- InformesDobles
  Configs <- ConfigsSinSid
  SinPrograma = ""
  MenosUno = "-1"
  Nada = nada
  Fallos <- SinFallos
  MaxArranques = 1
INVARIANT
  UnSoloPrograma
