SPECIFICATION Spec
CONSTANTS
  p1 = p1
  p2 = p2
  Procesos = {p1, p2}
  Nadie = Nadie
  MaxLlegadas = 1
INVARIANTS CpuVaciaEnCaso2
CHECK_DEADLOCK FALSE
