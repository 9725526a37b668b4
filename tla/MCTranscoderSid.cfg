SPECIFICATION Spec
CONSTANTS
  h264 = h264
  hevc = hevc
  Coord = coord
  Enc = {h264, hevc}
  Nombre <- NombresPropios
  Informes <- InformesMultiple
  Configs <- ConfigsSid
  SinPrograma = ""
  MenosUno = "-1"
  Nada = nada
  Fallos <- FallosUna
  MaxArranques = 2
INVARIANTS
  ListaIntacta
  PistasProducidas
  FinOrdenado
