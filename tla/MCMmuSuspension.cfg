SPECIFICATION MmuSpec
CONSTANTS
  p1 = p1
  p2 = p2
  Procesos = {p1, p2}
  Nadie = Nadie
  CantPaginas = 2
  CantMarcos = 4
  MarcosPorProceso = 2
  Algoritmos <- SoloClock
  Valores = {0, 1}
  Cero = 0
  MaxReanudaciones = 1
  CantEntradasTlb = 1
  AlgoritmosTlb <- SoloFifo
  TamPagina = 1
  EntradasPorTabla = 1
  Instrucciones <- TodasInstrucciones
SYMMETRY Simetria
INVARIANTS MmuTypeOK UnaPaginaPorMarco ReemplazosLocales MarcosPropios MemoriaEnOrden EntradasFieles
PROPERTIES CumpleIdeal
CHECK_DEADLOCK FALSE
