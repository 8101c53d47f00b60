\* Nobody works on a PCB between its push and its new process_state with the old one.
SPECIFICATION Spec
CONSTANTS
  p1 = p1
  p2 = p2
  p3 = p3
  Procesos = {p1, p2, p3}
  Nadie = Nadie
  Grado = 2
  MaxIo = 2
SYMMETRY Simetria
CONSTRAINT VentanaSinUsar
INVARIANTS TypeOK Inductiva InductivaCiclo UnSoloPcbEnCpu ColasNuncaVacias CadaPcbEnUnLugar NingunLugarSePierde SoloSuspendidosSeReanudan
PROPERTIES CumpleCiclo
CHECK_DEADLOCK FALSE
