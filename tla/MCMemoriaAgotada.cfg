\* Frames for the two processes at once, and one resumption.
SPECIFICATION Spec
CONSTANTS
  p1 = p1
  p2 = p2
  Procesos = {p1, p2}
  Nadie = Nadie
  CantPaginas = 1
  CantMarcos = 2
  MarcosPorProceso = 1
  Algoritmos <- SoloClock
  Valores = {0}
  Cero = 0
  MaxReanudaciones = 1
SYMMETRY Simetria
INVARIANTS MarcosAlcanzan
CHECK_DEADLOCK FALSE
