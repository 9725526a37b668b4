SPECIFICATION SpecR
CONSTANTS
  Configs <- Todas
  Comas = {"spa,eng_1"}
  Largas = {"spa,eng,fra,deu,ita,por", "spa,eng,fra,deu,ita,por_1"}
INVARIANTS
  Arranca
  Contenido
  SalidaPedida
  MaximoSuficiente
  ArchivosPropios
  Reproducible
