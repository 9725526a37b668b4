SPECIFICATION SpecJusta
CONSTANTS
  h264 = h264
  hevc = hevc
  Coord = coord
  Enc = {h264, hevc}
  Nombre <- NombresPropios
  Informes <- InformesCambiantes
  Configs <- ConfigsCambiantes
  SinPrograma = ""
  MenosUno = "-1"
  Nada = nada
  Fallos <- SinFallos
  MaxArranques = 1
INVARIANTS
  TypeOK
  ProgramaCoherente
  PanicoExplicado
PROPERTIES
  Termina
  TodasArrancan
