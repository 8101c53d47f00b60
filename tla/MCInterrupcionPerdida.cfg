SPECIFICATION SpecJusta
CONSTANTS
  p1 = p1
  p2 = p2
  Procesos = {p1, p2}
  Nadie = Nadie
  MaxLlegadas = 1
PROPERTIES InterrupcionRespondida
CHECK_DEADLOCK FALSE
