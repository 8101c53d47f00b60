SPECIFICATION SpecJusta
CONSTANTS
  p1 = p1
  p2 = p2
  Procesos = {p1, p2}
  Nadie = Nadie
  Grado = 1
  MaxIo = 2
PROPERTIES TodosTerminan
CHECK_DEADLOCK FALSE
