SPECIFICATION Spec
CONSTANTS
  BasePalabra = 1000
  Conectables = {5, 6}
  Archivos <- SoloBuenos
  TamanioDe <- Tamanios
  EstimacionInicial = 2000
  Horas = {1500}
  AlfaNum = 1
  AlfaDen = 2
INVARIANTS AvisoALaSuya
CHECK_DEADLOCK FALSE
