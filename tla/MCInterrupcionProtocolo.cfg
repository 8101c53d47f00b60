SPECIFICATION Spec
CONSTANTS
  p1 = p1
  p2 = p2
  p3 = p3
  Procesos = {p1, p2, p3}
  Nadie = Nadie
  MaxLlegadas = 2
SYMMETRY Simetria
INVARIANTS TypeOK Inductiva UnaRespuestaPorInterrupcion FlagDiceLaVerdad HayCandidato CadaPcbEnUnLugar
CHECK_DEADLOCK FALSE
