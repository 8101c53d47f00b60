SPECIFICATION SpecDeAUna
CONSTANTS
  BasePalabra = 1000
  Conectables = {5, 6}
  Archivos <- Todos
  TamanioDe <- Tamanios
  EstimacionInicial = 2000
  Horas = {1500}
  AlfaNum = 1
  AlfaDen = 2
INVARIANTS TypeOK EjecucionFiel PcbVuelveIgual AvisoALaSuya
PROPERTIES FinLlega
CHECK_DEADLOCK FALSE
