\* Two processes with replacement: whose frame is used.
SPECIFICATION Spec
CONSTANTS
  p1 = p1
  p2 = p2
  Procesos = {p1, p2}
  Nadie = Nadie
  CantPaginas = 2
  CantMarcos = 2
  MarcosPorProceso = 1
  Algoritmos <- SoloClock
  Valores = {0}
  Cero = 0
  MaxReanudaciones = 0
SYMMETRY Simetria
INVARIANTS ReemplazosLocales
CHECK_DEADLOCK FALSE
