SPECIFICATION MmuSpecJusta
CONSTANTS
  p1 = p1
  Procesos = {p1}
  Nadie = Nadie
  CantPaginas = 4
  CantMarcos = 2
  MarcosPorProceso = 2
  Algoritmos <- AmbosAlgoritmos
  Valores = {0}
  Cero = 0
  MaxReanudaciones = 0
  CantEntradasTlb = 2
  AlgoritmosTlb <- SoloLru
  TamPagina = 2
  EntradasPorTabla = 2
  Instrucciones <- SinCopy
INVARIANTS EntradasFieles MarcosEnUso LugaresAlineados
PROPERTIES RelojTermina UltimaPaginaQueda
CHECK_DEADLOCK FALSE
