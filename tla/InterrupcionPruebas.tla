------------------------ MODULE InterrupcionPruebas ------------------------
(***************************************************************************)
(* Proofs about Interrupcion, for any set of PCBs and any number of times  *)
(* each of them reaches ready.                                             *)
(***************************************************************************)
EXTENDS Interrupcion, Conteo

----------------------------------------------------------------------------
(* Types.                                                                  *)

Tipos == TypeOK /\ CpuContada /\ ManosLlenas

\* Head and tail of a queue or a connection that is not empty.
LEMMA DeCabeza ==
  ASSUME NEW S, NEW s \in Seq(S), s # <<>>
  PROVE  Len(s) > 0 /\ Head(s) \in S /\ Tail(s) \in Seq(S) /\ Len(Tail(s)) = Len(s) - 1
  OBVIOUS

\* A queue or a connection with one more element.
LEMMA DeAppend ==
  ASSUME NEW S, NEW s \in Seq(S), NEW x \in S
  PROVE  Append(s, x) \in Seq(S) /\ Len(Append(s, x)) = Len(s) + 1
  OBVIOUS

\* The messages the CPU sends.
LEMMA DeMensajes ==
  /\ \A op \in {"io", "exit", "respuesta"} : \A p \in Procesos : [op |-> op, p |-> p] \in Mensajes
  /\ [op |-> "libre", p |-> Nadie] \in Mensajes
  /\ \A m \in Mensajes :
       /\ m.op \in {"io", "exit", "respuesta", "libre"}
       /\ m.op # "libre" => m.p \in Procesos
       /\ m.op = "libre" => m.p = Nadie
  BY DEF Mensajes

\* The connection after the CPU has sent a message.
LEMMA DeEnvia ==
  ASSUME retorno \in Seq(Mensajes), NEW op, NEW p, Envia(op, p), [op |-> op, p |-> p] \in Mensajes
  PROVE  retorno' \in Seq(Mensajes)
  BY DeAppend DEF Envia

\* Every step keeps the types, cpu_en_running and the PCBs in the hands of who
\* is going to use them.
LEMMA TiposSeConservan == Tipos /\ [Next]_vars => Tipos'
<1> SUFFICES ASSUME Tipos, [Next]_vars PROVE Tipos'
  OBVIOUS
<1> USE NadieAssumption, MaxLlegadasAssumption DEF Tipos, TypeOK, CpuContada, ManosLlenas, Uno, varsKernel, varsPlan, varsRx, varsRed, varsCpu
<1>1. ASSUME NEW p \in Procesos, Llega(p) PROVE Tipos'
  BY <1>1 DEF Llega
<1>2. CASE AvisaLlegada
  BY <1>2 DEF AvisaLlegada
<1>3. CASE PlanEspera
  BY <1>3 DEF PlanEspera
<1>4. CASE PlanEsperaLista
  BY <1>4 DEF PlanEsperaLista
<1>5. CASE PlanInterrumpe
  BY <1>5 DEF PlanInterrumpe
<1>6. CASE PlanGanaEjecutado
  BY <1>6, DeCabeza, DeAppend DEF PlanGanaEjecutado, Despacha
<1>7. CASE PlanGanaCandidato
  BY <1>7, DeCabeza, DeAppend DEF PlanGanaCandidato, Despacha, algoritmo_srt, remover_de_cola_ready
<1>8. CASE PlanReencola
  BY <1>8 DEF PlanReencola
<1>9. CASE PlanCpuVacia
  BY <1>9, DeAppend DEF PlanCpuVacia, Despacha, algoritmo_srt, remover_de_cola_ready
<1>10. CASE RxIo
  BY <1>10, DeCabeza, DeMensajes DEF RxIo, RxRecibe
<1>11. CASE RxExit
  BY <1>11, DeCabeza, DeMensajes DEF RxExit, RxRecibe
<1>12. CASE RxRespuesta
  BY <1>12, DeCabeza, DeMensajes DEF RxRespuesta, RxRecibe
<1>13. CASE RxAvisaRespuesta
  BY <1>13, DeAppend DEF RxAvisaRespuesta
<1>14. CASE RxLibre
  BY <1>14, DeCabeza DEF RxLibre, RxRecibe
<1>15. CASE IxLee
  BY <1>15 DEF IxLee
<1>16. CASE IxCpuLibre
  BY <1>16, DeAppend, DeMensajes DEF IxCpuLibre, Envia
<1>17. CASE IxAnota
  BY <1>17 DEF IxAnota
<1>18. CASE DxRecibe
  BY <1>18, DeCabeza DEF DxRecibe
<1>19. ASSUME NEW op \in {"comun", "io", "exit"}, DxEjecuta(op) PROVE Tipos'
  <2>1. retorno' \in Seq(Mensajes)
    <3>1. CASE op = "comun"
      BY <1>19, <3>1 DEF DxEjecuta
    <3>2. CASE op \in {"io", "exit"}
      <4>1. [op |-> op, p |-> pcb] \in Mensajes
        BY <1>19, <3>2, DeMensajes DEF DxEjecuta
      <4>2. QED
        BY <1>19, <3>2, <4>1, DeEnvia DEF DxEjecuta
    <3>3. QED
      BY <3>1, <3>2
  <2>2. QED
    BY <1>19, <2>1 DEF DxEjecuta
<1>20. CASE DxSinInterrupcion
  BY <1>20 DEF DxSinInterrupcion, MutexLibre
<1>21. CASE DxInterrumpido
  <2>1. retorno' \in Seq(Mensajes)
    <3>1. /\ [op |-> "respuesta", p |-> pcb] \in Mensajes
          /\ [op |-> "libre", p |-> Nadie] \in Mensajes
      BY <1>21, DeMensajes DEF DxInterrumpido
    <3>2. QED
      BY <1>21, <3>1, DeEnvia DEF DxInterrumpido
  <2>2. QED
    BY <1>21, <2>1 DEF DxInterrumpido
<1>22. CASE DxSuelta
  BY <1>22 DEF DxSuelta
<1>23. CASE UNCHANGED vars
  BY <1>23 DEF vars
<1>24. QED
  BY <1>1, <1>2, <1>3, <1>4, <1>5, <1>6, <1>7, <1>8, <1>9, <1>10, <1>11, <1>12, <1>13, <1>14, <1>15,
     <1>16, <1>17, <1>18, <1>19, <1>20, <1>21, <1>22, <1>23
  DEF Next, Entorno, Plan, Rx, Ix, Dx, DxTermina
----------------------------------------------------------------------------
(* The question and its answer.                                            *)

\* The messages that answer an interrupt.
Contestan == {m \in Mensajes : m.op \in {"respuesta", "libre"}}
nContestan == Cuantos(retorno, Contestan)

Pregunta ==
  interrup + Uno(ix # "espera") + hay + nContestan + Uno(rx # Nadie) + flagSem
    = Uno(plan = "respuesta")

\* Counting the answers on their way as positions or as messages is the same.
LEMMA MismasRespuestas ==
  ASSUME TypeOK
  PROVE  /\ Cardinality(Respuestas) = nContestan /\ nContestan \in Nat
         /\ UnaRespuestaPorInterrupcion <=> Pregunta
<1>1. retorno \in Seq(Mensajes)
  BY DEF TypeOK
<1>2. \A i \in DOMAIN retorno : retorno[i] \in Mensajes
  BY <1>1
<1>3. Respuestas = Donde(retorno, Contestan)
  BY <1>2 DEF Respuestas, Donde, Contestan
<1>4. QED
  BY <1>1, <1>3, CuantosTipo DEF nContestan, Cuantos, UnaRespuestaPorInterrupcion, Pregunta

\* The connection after a message of the CPU, in answers.
LEMMA EnviaContesta ==
  ASSUME TypeOK, NEW op, NEW p, Envia(op, p), [op |-> op, p |-> p] \in Mensajes
  PROVE  nContestan' = nContestan + Uno(op \in {"respuesta", "libre"})
<1>1. retorno \in Seq(Mensajes) /\ retorno' = Append(retorno, [op |-> op, p |-> p])
  BY DEF TypeOK, Envia
<1>2. [op |-> op, p |-> p] \in Contestan <=> op \in {"respuesta", "libre"}
  BY DEF Contestan
<1>3. QED
  BY <1>1, <1>2, CuantosAppend DEF nContestan, Uno

\* The connection after recibir_pcb_de_cpu has taken a message, in answers.
LEMMA RecibeContesta ==
  ASSUME TypeOK, NEW op, RxRecibe(op)
  PROVE  /\ op \in {"io", "exit"} => nContestan' = nContestan
         /\ op \in {"respuesta", "libre"} => nContestan' = nContestan - 1
<1>1. /\ retorno \in Seq(Mensajes) /\ retorno # <<>> /\ retorno' = Tail(retorno)
      /\ Head(retorno).op = op /\ Head(retorno) \in Mensajes /\ Tail(retorno) \in Seq(Mensajes)
  BY DeCabeza DEF TypeOK, RxRecibe
<1>2. Head(retorno) \in Contestan <=> op \in {"respuesta", "libre"}
  BY <1>1 DEF Contestan
<1>3. nContestan \in Nat /\ nContestan' \in Nat
  BY <1>1, CuantosTipo DEF nContestan
<1>4. nContestan' = nContestan - (IF Head(retorno) \in Contestan THEN 1 ELSE 0)
  BY <1>1, <1>3, CuantosTail DEF nContestan
<1>5. QED
  BY <1>2, <1>3, <1>4

Protocolo == Pregunta /\ FlagEscrita

\* Every step moves the question on, or its answer, and the flag with it.
LEMMA ProtocoloSeConserva == Tipos /\ Protocolo /\ [Next]_vars => Protocolo'
<1> SUFFICES ASSUME Tipos, Protocolo, [Next]_vars PROVE Protocolo'
  OBVIOUS
<1>t. TypeOK /\ nContestan \in Nat /\ nContestan' \in Nat
  <2>1. TypeOK /\ TypeOK'
    BY TiposSeConservan DEF Tipos
  <2>2. retorno' \in Seq(Mensajes)
    BY <2>1 DEF TypeOK
  <2>3. QED
    BY <2>1, <2>2, CuantosTipo, MismasRespuestas DEF nContestan
<1>r. UNCHANGED retorno => UNCHANGED nContestan
  BY DEF nContestan
<1>l. Len(rtaInt) \in Nat
  BY <1>t DEF TypeOK
<1> USE DEF Protocolo, Pregunta, FlagEscrita, TypeOK, Uno, varsKernel, varsPlan, varsRx, varsRed, varsCpu
<1>1. ASSUME NEW p \in Procesos, Llega(p) PROVE Protocolo'
  BY <1>1, <1>t, <1>r DEF Llega
<1>2. CASE AvisaLlegada
  BY <1>2, <1>t, <1>r DEF AvisaLlegada
<1>3. CASE PlanEspera
  BY <1>3, <1>t, <1>r DEF PlanEspera
<1>4. CASE PlanEsperaLista
  BY <1>4, <1>t, <1>r DEF PlanEsperaLista
<1>5. CASE PlanInterrumpe
  BY <1>5, <1>t, <1>r DEF PlanInterrumpe
<1>6. CASE PlanGanaEjecutado
  BY <1>6, <1>t, <1>r, <1>l, DeCabeza DEF PlanGanaEjecutado
<1>7. CASE PlanGanaCandidato
  BY <1>7, <1>t, <1>r, <1>l, DeCabeza DEF PlanGanaCandidato
<1>8. CASE PlanReencola
  BY <1>8, <1>t, <1>r DEF PlanReencola
<1>9. CASE PlanCpuVacia
  BY <1>9, <1>t, <1>r, <1>l DEF PlanCpuVacia
<1>10. CASE RxIo
  <2>1. UNCHANGED nContestan
    BY <1>10, <1>t, RecibeContesta DEF RxIo
  <2>2. QED
    BY <1>10, <1>t, <2>1 DEF RxIo
<1>11. CASE RxExit
  <2>1. UNCHANGED nContestan
    BY <1>11, <1>t, RecibeContesta DEF RxExit
  <2>2. QED
    BY <1>11, <1>t, <2>1 DEF RxExit
<1>12. CASE RxRespuesta
  <2>1. nContestan' = nContestan - 1
    BY <1>12, <1>t, RecibeContesta DEF RxRespuesta
  <2>2. Head(retorno).p \in Procesos
    BY <1>12, <1>t, DeCabeza, DeMensajes DEF RxRespuesta, RxRecibe
  <2>3. /\ rx = Nadie /\ rx' # Nadie /\ flag' = 1
        /\ interrup' = interrup /\ ix' = ix /\ hay' = hay
        /\ flagSem' = flagSem /\ plan' = plan /\ rtaInt' = rtaInt
    BY <1>12, <2>2, NadieAssumption DEF RxRespuesta, RxRecibe
  <2>4. /\ interrup \in Nat /\ hay \in Nat /\ flagSem \in Nat
        /\ Uno(rx # Nadie) = 0 /\ Uno(rx' # Nadie) = 1
        /\ Uno(ix # "espera") \in {0, 1} /\ Uno(plan = "respuesta") \in {0, 1}
    BY <1>t, <2>3
  <2>5. Pregunta' /\ flagSem = 0
    BY <1>t, <2>1, <2>3, <2>4
  <2>6. QED
    BY <1>l, <2>3, <2>5
<1>13. CASE RxAvisaRespuesta
  BY <1>13, <1>t, <1>r, <1>l, DeAppend DEF RxAvisaRespuesta
<1>14. CASE RxLibre
  <2>1. nContestan' = nContestan - 1
    BY <1>14, <1>t, RecibeContesta DEF RxLibre
  <2>2. /\ rx = Nadie /\ flag' = 2 /\ flagSem' = flagSem + 1
        /\ interrup' = interrup /\ ix' = ix /\ hay' = hay
        /\ rx' = rx /\ plan' = plan /\ rtaInt' = rtaInt
    BY <1>14 DEF RxLibre, RxRecibe
  <2>3. Pregunta'
    BY <1>t, <2>1, <2>2
  <2>4. flagSem = 0
    BY <1>t, <2>1, <2>2
  <2>5. QED
    BY <1>l, <2>2, <2>3, <2>4
<1>15. CASE IxLee
  BY <1>15, <1>t, <1>r DEF IxLee
<1>16. CASE IxCpuLibre
  <2>1. nContestan' = nContestan + 1
    BY <1>16, <1>t, EnviaContesta, DeMensajes DEF IxCpuLibre
  <2>2. QED
    BY <1>16, <1>t, <2>1 DEF IxCpuLibre
<1>17. CASE IxAnota
  BY <1>17, <1>t, <1>r DEF IxAnota
<1>18. CASE DxRecibe
  BY <1>18, <1>t, <1>r DEF DxRecibe
<1>19. ASSUME NEW op \in {"comun", "io", "exit"}, DxEjecuta(op) PROVE Protocolo'
  <2>1. UNCHANGED nContestan
    <3>1. CASE op = "comun"
      BY <1>19, <3>1, <1>r DEF DxEjecuta
    <3>2. CASE op \in {"io", "exit"}
      <4>1. Envia(op, pcb) /\ [op |-> op, p |-> pcb] \in Mensajes
        BY <1>19, <3>2, DeMensajes DEF DxEjecuta, Tipos, ManosLlenas
      <4>2. QED
        BY <1>t, <3>2, <4>1, EnviaContesta
    <3>3. QED
      BY <3>1, <3>2
  <2>2. QED
    BY <1>19, <1>t, <2>1 DEF DxEjecuta
<1>20. CASE DxSinInterrupcion
  BY <1>20, <1>t, <1>r DEF DxSinInterrupcion
<1>21. CASE DxInterrumpido
  <2>1. nContestan' = nContestan + 1
    <3>1. /\ [op |-> "respuesta", p |-> pcb] \in Mensajes
          /\ [op |-> "libre", p |-> Nadie] \in Mensajes
      BY <1>21, DeMensajes DEF DxInterrumpido, Tipos, ManosLlenas
    <3>2. \/ Envia("respuesta", pcb)
          \/ Envia("libre", Nadie)
      BY <1>21 DEF DxInterrumpido
    <3>3. QED
      BY <1>t, <3>1, <3>2, EnviaContesta
  <2>2. QED
    BY <1>21, <1>t, <2>1 DEF DxInterrumpido
<1>22. CASE DxSuelta
  BY <1>22, <1>t, <1>r DEF DxSuelta
<1>23. CASE UNCHANGED vars
  BY <1>23, <1>t, <1>r DEF vars
<1>24. QED
  BY <1>1, <1>2, <1>3, <1>4, <1>5, <1>6, <1>7, <1>8, <1>9, <1>10, <1>11, <1>12, <1>13, <1>14, <1>15,
     <1>16, <1>17, <1>18, <1>19, <1>20, <1>21, <1>22, <1>23
  DEF Next, Entorno, Plan, Rx, Ix, Dx, DxTermina
----------------------------------------------------------------------------
(* The places of a PCB.                                                    *)

\* How many times p is in rta_int, on its way to the CPU and on its way back,
\* and whether the CPU's copy counts.
De(p) == {m \in Mensajes : m.p = p}
nRta(p) == Cuantos(rtaInt, {p})
nDespacho(p) == Cuantos(despacho, {p})
nRetorno(p) == Cuantos(retorno, De(p))
EnCpu(p) == pcb = p /\ (dx = "ejecuta" \/ (dx = "chequea" /\ ult = "comun"))

Veces(p) ==
  Uno(p \in ready) + Uno(p \in fuera) + Uno(p \in fin) + nRta(p) + nDespacho(p) + nRetorno(p)
    + Uno(ejecutado = p) + Uno(rx = p) + Uno(EnCpu(p))

\* The numbers of places are naturals, and only a change of a queue or a
\* connection changes its number.
LEMMA CuentasTipo ==
  ASSUME TypeOK, NEW p \in Procesos
  PROVE  nRta(p) \in Nat /\ nDespacho(p) \in Nat /\ nRetorno(p) \in Nat
BY CuantosTipo DEF TypeOK, nRta, nDespacho, nRetorno

\* What each operation on rta_int and on the connections does to the numbers.
LEMMA CuentasSinCambio ==
  ASSUME NEW p
  PROVE  /\ UNCHANGED rtaInt => UNCHANGED nRta(p)
         /\ UNCHANGED despacho => UNCHANGED nDespacho(p)
         /\ UNCHANGED retorno => UNCHANGED nRetorno(p)
BY DEF nRta, nDespacho, nRetorno

\* rta_int: queue_push and queue_pop.
LEMMA CuentaRta ==
  ASSUME TypeOK, NEW p \in Procesos
  PROVE  /\ \A x \in Procesos : rtaInt' = Append(rtaInt, x) => nRta(p)' = nRta(p) + Uno(x = p)
         /\ rtaInt # <<>> /\ rtaInt' = Tail(rtaInt) =>
              /\ Head(rtaInt) \in Procesos
              /\ nRta(p)' = nRta(p) - Uno(Head(rtaInt) = p)
<1>1. rtaInt \in Seq(Procesos)
  BY DEF TypeOK
<1>2. ASSUME NEW x \in Procesos, rtaInt' = Append(rtaInt, x)
      PROVE  nRta(p)' = nRta(p) + Uno(x = p)
  BY <1>1, <1>2, CuantosAppend DEF nRta, Uno
<1>3. ASSUME rtaInt # <<>>, rtaInt' = Tail(rtaInt)
      PROVE  Head(rtaInt) \in Procesos /\ nRta(p)' = nRta(p) - Uno(Head(rtaInt) = p)
  <2>1. Tail(rtaInt) \in Seq(Procesos) /\ Head(rtaInt) \in Procesos
    BY <1>1, <1>3
  <2>2. Cuantos(rtaInt, {p}) \in Nat /\ Cuantos(Tail(rtaInt), {p}) \in Nat
    BY <1>1, <2>1, CuantosTipo
  <2>3. Cuantos(rtaInt, {p}) = Cuantos(Tail(rtaInt), {p}) + Uno(Head(rtaInt) = p)
    BY <1>1, <1>3, CuantosTail DEF Uno
  <2>4. QED
    BY <1>3, <2>1, <2>2, <2>3 DEF nRta, Uno
<1>4. QED
  BY <1>2, <1>3

\* The connection from kernel to CPU.
LEMMA CuentaDespacho ==
  ASSUME TypeOK, NEW p \in Procesos
  PROVE  /\ \A x \in Procesos : Despacha(x) => nDespacho(p)' = nDespacho(p) + Uno(x = p)
         /\ despacho # <<>> /\ despacho' = Tail(despacho) =>
              /\ Head(despacho) \in Procesos
              /\ nDespacho(p)' = nDespacho(p) - Uno(Head(despacho) = p)
<1>1. despacho \in Seq(Procesos)
  BY DEF TypeOK
<1>2. ASSUME NEW x \in Procesos, Despacha(x)
      PROVE  nDespacho(p)' = nDespacho(p) + Uno(x = p)
  BY <1>1, <1>2, CuantosAppend DEF nDespacho, Despacha, Uno
<1>3. ASSUME despacho # <<>>, despacho' = Tail(despacho)
      PROVE  Head(despacho) \in Procesos /\ nDespacho(p)' = nDespacho(p) - Uno(Head(despacho) = p)
  <2>1. Tail(despacho) \in Seq(Procesos) /\ Head(despacho) \in Procesos
    BY <1>1, <1>3
  <2>2. Cuantos(despacho, {p}) \in Nat /\ Cuantos(Tail(despacho), {p}) \in Nat
    BY <1>1, <2>1, CuantosTipo
  <2>3. Cuantos(despacho, {p}) = Cuantos(Tail(despacho), {p}) + Uno(Head(despacho) = p)
    BY <1>1, <1>3, CuantosTail DEF Uno
  <2>4. QED
    BY <1>3, <2>1, <2>2, <2>3 DEF nDespacho, Uno
<1>4. QED
  BY <1>2, <1>3

\* The connection from CPU to kernel.
LEMMA CuentaRetorno ==
  ASSUME TypeOK, NEW p \in Procesos
  PROVE  /\ \A op, x : Envia(op, x) /\ [op |-> op, p |-> x] \in Mensajes =>
                        nRetorno(p)' = nRetorno(p) + Uno(x = p)
         /\ \A op : RxRecibe(op) =>
              /\ op \in {"io", "exit", "respuesta"} => Head(retorno).p \in Procesos
              /\ op = "libre" => Head(retorno).p = Nadie
              /\ nRetorno(p)' = nRetorno(p) - Uno(Head(retorno).p = p)
<1>1. retorno \in Seq(Mensajes)
  BY DEF TypeOK
<1>2. ASSUME NEW op, NEW x, Envia(op, x), [op |-> op, p |-> x] \in Mensajes
      PROVE  nRetorno(p)' = nRetorno(p) + Uno(x = p)
  <2>1. [op |-> op, p |-> x] \in De(p) <=> x = p
    BY <1>2 DEF De
  <2>2. QED
    BY <1>1, <1>2, <2>1, CuantosAppend DEF nRetorno, Envia, Uno
<1>3. ASSUME NEW op, RxRecibe(op)
      PROVE  /\ op \in {"io", "exit", "respuesta"} => Head(retorno).p \in Procesos
             /\ op = "libre" => Head(retorno).p = Nadie
             /\ nRetorno(p)' = nRetorno(p) - Uno(Head(retorno).p = p)
  <2>1. /\ retorno # <<>> /\ retorno' = Tail(retorno) /\ Head(retorno).op = op
        /\ Tail(retorno) \in Seq(Mensajes) /\ Head(retorno) \in Mensajes
    BY <1>1, <1>3, DeCabeza DEF RxRecibe
  <2>2. Cuantos(retorno, De(p)) \in Nat /\ Cuantos(Tail(retorno), De(p)) \in Nat
    BY <1>1, <2>1, CuantosTipo
  <2>3. Head(retorno) \in De(p) <=> Head(retorno).p = p
    BY <2>1 DEF De
  <2>4. Cuantos(retorno, De(p)) = Cuantos(Tail(retorno), De(p)) + Uno(Head(retorno).p = p)
    BY <1>1, <2>1, <2>3, CuantosTail DEF Uno
  <2>5. nRetorno(p)' = nRetorno(p) - Uno(Head(retorno).p = p)
    BY <2>1, <2>2, <2>4 DEF nRetorno, Uno
  <2>6. QED
    BY <2>1, <2>5, DeMensajes
<1>4. QED
  BY <1>2, <1>3

\* No step duplicates a PCB or loses it.
LEMMA UnaVezSeConserva ==
  Tipos /\ [Next]_vars => \A p \in Procesos : Veces(p) = 1 => Veces(p)' = 1
<1> SUFFICES ASSUME Tipos, [Next]_vars, NEW p \in Procesos, Veces(p) = 1
             PROVE  Veces(p)' = 1
  OBVIOUS
<1>t. TypeOK /\ p # Nadie /\ nRta(p) \in Nat /\ nDespacho(p) \in Nat /\ nRetorno(p) \in Nat
  BY CuentasTipo, NadieAssumption DEF Tipos
<1>u. /\ UNCHANGED rtaInt => UNCHANGED nRta(p)
      /\ UNCHANGED despacho => UNCHANGED nDespacho(p)
      /\ UNCHANGED retorno => UNCHANGED nRetorno(p)
  BY CuentasSinCambio
<1>v. nRta(p)' \in Nat /\ nDespacho(p)' \in Nat /\ nRetorno(p)' \in Nat
  <2>1. rtaInt' \in Seq(Procesos) /\ despacho' \in Seq(Procesos) /\ retorno' \in Seq(Mensajes)
    BY TiposSeConservan DEF Tipos, TypeOK
  <2>2. QED
    BY <2>1, CuantosTipo DEF nRta, nDespacho, nRetorno
<1>m. CpuContada /\ ManosLlenas
  BY DEF Tipos
<1> USE DEF Veces, EnCpu, Uno, varsKernel, varsPlan, varsRx, varsRed, varsCpu
<1>1. ASSUME NEW q \in Procesos, Llega(q) PROVE Veces(p)' = 1
  BY <1>1, <1>t, <1>u DEF Llega
<1>2. CASE AvisaLlegada
  BY <1>2, <1>t, <1>u DEF AvisaLlegada
<1>3. CASE PlanEspera
  BY <1>3, <1>t, <1>u DEF PlanEspera
<1>4. CASE PlanEsperaLista
  BY <1>4, <1>t, <1>u DEF PlanEsperaLista
<1>5. CASE PlanInterrumpe
  BY <1>5, <1>t, <1>u DEF PlanInterrumpe
<1>6. CASE PlanGanaEjecutado
  <2>1. /\ Head(rtaInt) \in Procesos
        /\ nRta(p)' = nRta(p) - Uno(Head(rtaInt) = p)
    BY <1>6, <1>t, CuentaRta DEF PlanGanaEjecutado
  <2>2. nDespacho(p)' = nDespacho(p) + Uno(Head(rtaInt) = p)
    BY <1>6, <1>t, <2>1, CuentaDespacho DEF PlanGanaEjecutado
  <2>3. QED
    BY <1>6, <1>t, <1>u, <2>1, <2>2 DEF PlanGanaEjecutado
<1>7. CASE PlanGanaCandidato
  <2>1. /\ Head(rtaInt) \in Procesos
        /\ nRta(p)' = nRta(p) - Uno(Head(rtaInt) = p)
    BY <1>7, <1>t, CuentaRta DEF PlanGanaCandidato
  <2>2. PICK c \in ready : ready' = ready \ {c} /\ Despacha(c)
    BY <1>7 DEF PlanGanaCandidato, algoritmo_srt, remover_de_cola_ready
  <2>3. c \in Procesos /\ nDespacho(p)' = nDespacho(p) + Uno(c = p)
    BY <1>t, <2>2, CuentaDespacho DEF TypeOK
  <2>4. ejecutado # p /\ ejecutado' = Head(rtaInt)
    BY <1>7, <1>t, <1>m DEF PlanGanaCandidato, ManosLlenas
  <2>5. Head(rtaInt) = p => nRta(p) # 0
    BY <1>t, <1>v, <2>1
  <2>6. p \in ready' <=> p \in ready /\ p # c
    BY <2>2
  <2>7. CASE p = c
    <3>1. nRta(p) = 0 /\ p \in ready /\ p \notin ready'
      BY <1>t, <2>2, <2>6, <2>7
    <3>2. Head(rtaInt) # p
      BY <2>5, <3>1
    <3>3. /\ nDespacho(p)' = nDespacho(p) + 1 /\ nRta(p)' = nRta(p)
          /\ ejecutado # p /\ ejecutado' # p
      BY <1>t, <2>1, <2>3, <2>4, <2>7, <3>2
    <3>4. UNCHANGED <<fuera, fin, rx, retorno, dx, pcb, ult>>
      BY <1>7 DEF PlanGanaCandidato
    <3>5. QED
      BY <1>t, <1>u, <3>1, <3>3, <3>4
  <2>8. CASE p # c
    BY <1>7, <1>t, <1>u, <1>v, <2>1, <2>3, <2>4, <2>5, <2>6, <2>8 DEF PlanGanaCandidato
  <2>9. QED
    BY <2>7, <2>8
<1>8. CASE PlanReencola
  BY <1>8, <1>t, <1>u DEF PlanReencola
<1>9. CASE PlanCpuVacia
  <2>1. PICK c \in ready : ready' = ready \ {c} /\ Despacha(c)
    BY <1>9 DEF PlanCpuVacia, algoritmo_srt, remover_de_cola_ready
  <2>2. c \in Procesos /\ nDespacho(p)' = nDespacho(p) + Uno(c = p)
    BY <1>t, <2>1, CuentaDespacho DEF TypeOK
  <2>3. QED
    BY <1>9, <1>t, <1>u, <2>1, <2>2 DEF PlanCpuVacia
<1>10. CASE RxIo
  <2>1. nRetorno(p)' = nRetorno(p) - Uno(Head(retorno).p = p)
    BY <1>10, <1>t, CuentaRetorno DEF RxIo
  <2>2. p \in fuera' <=> p \in fuera \/ Head(retorno).p = p
    BY <1>10 DEF RxIo
  <2>3. CASE Head(retorno).p = p
    <3>1. nRetorno(p) # 0
      BY <1>t, <1>v, <2>1, <2>3
    <3>2. nRetorno(p) = 1 /\ p \notin fuera /\ p \notin fin
      BY <1>t, <3>1
    <3>3. QED
      BY <1>10, <1>t, <1>u, <2>1, <2>2, <2>3, <3>2 DEF RxIo
  <2>4. CASE Head(retorno).p # p
    BY <1>10, <1>t, <1>u, <2>1, <2>2, <2>4 DEF RxIo
  <2>5. QED
    BY <2>3, <2>4
<1>11. CASE RxExit
  <2>1. nRetorno(p)' = nRetorno(p) - Uno(Head(retorno).p = p)
    BY <1>11, <1>t, CuentaRetorno DEF RxExit
  <2>2. p \in fin' <=> p \in fin \/ Head(retorno).p = p
    BY <1>11 DEF RxExit
  <2>3. CASE Head(retorno).p = p
    <3>1. nRetorno(p) # 0
      BY <1>t, <1>v, <2>1, <2>3
    <3>2. nRetorno(p) = 1 /\ p \notin fuera /\ p \notin fin
      BY <1>t, <3>1
    <3>3. QED
      BY <1>11, <1>t, <1>u, <2>1, <2>2, <2>3, <3>2 DEF RxExit
  <2>4. CASE Head(retorno).p # p
    BY <1>11, <1>t, <1>u, <2>1, <2>2, <2>4 DEF RxExit
  <2>5. QED
    BY <2>3, <2>4
<1>12. CASE RxRespuesta
  <2>1. nRetorno(p)' = nRetorno(p) - Uno(Head(retorno).p = p)
    BY <1>12, <1>t, CuentaRetorno DEF RxRespuesta
  <2>2. rx = Nadie
    BY <1>12 DEF RxRespuesta, RxRecibe
  <2>3. QED
    BY <1>12, <1>t, <1>u, <2>1, <2>2 DEF RxRespuesta
<1>13. CASE RxAvisaRespuesta
  <2>1. rx \in Procesos
    BY <1>13, <1>t DEF RxAvisaRespuesta, TypeOK
  <2>2. nRta(p)' = nRta(p) + Uno(rx = p)
    BY <1>13, <1>t, <2>1, CuentaRta DEF RxAvisaRespuesta
  <2>3. QED
    BY <1>13, <1>t, <1>u, <2>2 DEF RxAvisaRespuesta
<1>14. CASE RxLibre
  <2>1. /\ Head(retorno).p = Nadie
        /\ nRetorno(p)' = nRetorno(p) - Uno(Head(retorno).p = p)
    BY <1>14, <1>t, CuentaRetorno DEF RxLibre
  <2>2. QED
    BY <1>14, <1>t, <1>u, <2>1 DEF RxLibre
<1>15. CASE IxLee
  BY <1>15, <1>t, <1>u DEF IxLee
<1>16. CASE IxCpuLibre
  <2>1. nRetorno(p)' = nRetorno(p) + Uno(Nadie = p)
    BY <1>16, <1>t, CuentaRetorno, DeMensajes DEF IxCpuLibre
  <2>2. QED
    BY <1>16, <1>t, <1>u, <2>1 DEF IxCpuLibre
<1>17. CASE IxAnota
  BY <1>17, <1>t, <1>u DEF IxAnota
<1>18. CASE DxRecibe
  <2>1. nDespacho(p)' = nDespacho(p) - Uno(Head(despacho) = p)
    BY <1>18, <1>t, CuentaDespacho DEF DxRecibe
  <2>2. QED
    BY <1>18, <1>t, <1>u, <2>1 DEF DxRecibe
<1>19. ASSUME NEW op \in {"comun", "io", "exit"}, DxEjecuta(op) PROVE Veces(p)' = 1
  <2>1. CASE op = "comun"
    BY <1>19, <1>t, <1>u, <2>1 DEF DxEjecuta
  <2>2. CASE op \in {"io", "exit"}
    <3>1. Envia(op, pcb) /\ [op |-> op, p |-> pcb] \in Mensajes
      BY <1>19, <1>m, <2>2, DeMensajes DEF DxEjecuta, ManosLlenas
    <3>2. nRetorno(p)' = nRetorno(p) + Uno(pcb = p)
      BY <1>t, <3>1, CuentaRetorno
    <3>3. QED
      BY <1>19, <1>t, <1>u, <2>2, <3>2 DEF DxEjecuta
  <2>3. QED
    BY <2>1, <2>2
<1>20. CASE DxSinInterrupcion
  BY <1>20, <1>t, <1>u DEF DxSinInterrupcion
<1>21. CASE DxInterrumpido
  <2>1. /\ [op |-> "respuesta", p |-> pcb] \in Mensajes
        /\ [op |-> "libre", p |-> Nadie] \in Mensajes
    BY <1>21, <1>m, DeMensajes DEF DxInterrumpido, ManosLlenas
  <2>2. nRetorno(p)' = nRetorno(p) + Uno(ult = "comun" /\ pcb = p)
    BY <1>21, <1>t, <2>1, CuentaRetorno DEF DxInterrumpido
  <2>3. QED
    BY <1>21, <1>t, <1>u, <2>2 DEF DxInterrumpido
<1>22. CASE DxSuelta
  BY <1>22, <1>t, <1>u DEF DxSuelta
<1>23. CASE UNCHANGED vars
  BY <1>23, <1>t, <1>u DEF vars
<1>24. QED
  BY <1>1, <1>2, <1>3, <1>4, <1>5, <1>6, <1>7, <1>8, <1>9, <1>10, <1>11, <1>12, <1>13, <1>14, <1>15,
     <1>16, <1>17, <1>18, <1>19, <1>20, <1>21, <1>22, <1>23
  DEF Next, Entorno, Plan, Rx, Ix, Dx, DxTermina

\* Counting one by one and counting the places of Lugares is the same.
LEMMA VecesSonLugares ==
  ASSUME TypeOK, NEW p \in Procesos, Veces(p) = 1
  PROVE  Cardinality(Lugares(p)) = 1
<1> DEFINE L1 == {<<"ready", 0>> : x \in ready \intersect {p}}
           L2 == {<<"fuera", 0>> : x \in fuera \intersect {p}}
           L3 == {<<"fin", 0>> : x \in fin \intersect {p}}
           L4 == {<<"rta", i>> : i \in {j \in DOMAIN rtaInt : rtaInt[j] = p}}
           L5 == {<<"despacho", i>> : i \in {j \in DOMAIN despacho : despacho[j] = p}}
           L6 == {<<"retorno", i>> : i \in {j \in DOMAIN retorno : retorno[j].p = p}}
           L7 == {<<"mano", x>> : x \in {y \in {ejecutado} : y = p}}
           L8 == {<<"rx", x>> : x \in {y \in {rx} : y = p}}
           L9 == {<<"cpu", x>> : x \in {y \in {pcb} :
                       y = p /\ (dx = "ejecuta" \/ (dx = "chequea" /\ ult = "comun"))}}
<1>1. /\ Zona(L1, Uno(p \in ready)) /\ Zona(L2, Uno(p \in fuera)) /\ Zona(L3, Uno(p \in fin))
      /\ Zona(L7, Uno(ejecutado = p)) /\ Zona(L8, Uno(rx = p)) /\ Zona(L9, Uno(EnCpu(p)))
  <2>1. /\ p \in ready => L1 = {<<"ready", 0>>}
        /\ p \notin ready => L1 = {}
    OBVIOUS
  <2>2. /\ p \in fuera => L2 = {<<"fuera", 0>>}
        /\ p \notin fuera => L2 = {}
    OBVIOUS
  <2>3. /\ p \in fin => L3 = {<<"fin", 0>>}
        /\ p \notin fin => L3 = {}
    OBVIOUS
  <2>7. /\ ejecutado = p => L7 = {<<"mano", p>>}
        /\ ejecutado # p => L7 = {}
    OBVIOUS
  <2>8. /\ rx = p => L8 = {<<"rx", p>>}
        /\ rx # p => L8 = {}
    OBVIOUS
  <2>9. /\ EnCpu(p) => L9 = {<<"cpu", p>>}
        /\ ~EnCpu(p) => L9 = {}
    BY DEF EnCpu
  <2> HIDE DEF L1, L2, L3, L7, L8, L9
  <2>10. QED
    BY <2>1, <2>2, <2>3, <2>7, <2>8, <2>9, ZonaUna DEF Uno
<1>2. Zona(L4, nRta(p)) /\ Zona(L5, nDespacho(p)) /\ Zona(L6, nRetorno(p))
  <2>1. rtaInt \in Seq(Procesos) /\ despacho \in Seq(Procesos) /\ retorno \in Seq(Mensajes)
    BY DEF TypeOK
  <2>2. /\ {j \in DOMAIN rtaInt : rtaInt[j] = p} = Donde(rtaInt, {p})
        /\ {j \in DOMAIN despacho : despacho[j] = p} = Donde(despacho, {p})
        /\ {j \in DOMAIN retorno : retorno[j].p = p} = Donde(retorno, De(p))
    BY <2>1 DEF Donde, De
  <2>3. QED
    BY <2>1, <2>2, ZonaSecuencia DEF nRta, nDespacho, nRetorno
<1> HIDE DEF L1, L2, L3, L4, L5, L6, L7, L8, L9
<1> DEFINE U2 == L1 \union L2
           U3 == U2 \union L3
           U4 == U3 \union L4
           U5 == U4 \union L5
           U6 == U5 \union L6
           U7 == U6 \union L7
           U8 == U7 \union L8
           U9 == U8 \union L9
<1>3. Zona(U4, Uno(p \in ready) + Uno(p \in fuera) + Uno(p \in fin) + nRta(p))
  BY <1>1, <1>2, ZonaUnion
<1> HIDE DEF U4
<1>4. Zona(U9, Veces(p))
  BY <1>1, <1>2, <1>3, ZonaUnion DEF Veces
<1>5. Lugares(p) = U9
  BY DEF Lugares, L1, L2, L3, L4, L5, L6, L7, L8, L9, U4
<1>6. QED
  BY <1>4, <1>5, ZonaDeUno
----------------------------------------------------------------------------
(* The count of ready.                                                     *)

UnaVez == \A p \in Procesos : Veces(p) = 1

\* A PCB that is outside, or that the scheduler got back, is not in ready.
LEMMA SeparadosDeReady ==
  ASSUME TypeOK, UnaVez
  PROVE  ready \intersect fuera = {} /\ ejecutado \notin ready
<1>1. ASSUME NEW p \in ready PROVE p \notin fuera /\ ejecutado # p
  <2>1. p \in Procesos
    BY DEF TypeOK
  <2>2. nRta(p) \in Nat /\ nDespacho(p) \in Nat /\ nRetorno(p) \in Nat /\ Veces(p) = 1
    BY <2>1, CuentasTipo DEF UnaVez
  <2>3. QED
    BY <2>2 DEF Veces, Uno
<1>2. QED
  BY <1>1

\* ready is finite; a push adds one, and taking a candidate out takes one.
LEMMA CardinalidadDeReady ==
  ASSUME TypeOK
  PROVE  /\ Cardinality(ready) \in Nat
         /\ \A x : x \notin ready /\ ready' = ready \union {x} =>
                Cardinality(ready') = Cardinality(ready) + 1
         /\ \A x \in ready : ready' = ready \ {x} => Cardinality(ready') = Cardinality(ready) - 1
<1>1. IsFiniteSet(ready)
  BY NadieAssumption, FS_Subset DEF TypeOK
<1>2. QED
  BY <1>1, FS_CardinalityType, FS_AddElement, FS_RemoveElement

\* Every step keeps the count of the PCBs of ready.
LEMMA CuentaReadySeConserva == Tipos /\ UnaVez /\ CuentaReady /\ [Next]_vars => CuentaReady'
<1> SUFFICES ASSUME Tipos, UnaVez, CuentaReady, [Next]_vars PROVE CuentaReady'
  OBVIOUS
<1> DEFINE n == Cardinality(ready)
<1>t. /\ TypeOK /\ ManosLlenas /\ n \in Nat
      /\ \A x : x \notin ready /\ ready' = ready \union {x} => n' = n + 1
      /\ \A x \in ready : ready' = ready \ {x} => n' = n - 1
      /\ UNCHANGED ready => UNCHANGED n
  BY CardinalidadDeReady DEF Tipos
<1>s. ready \intersect fuera = {} /\ ejecutado \notin ready
  BY <1>t, SeparadosDeReady
<1>n. /\ lista \in Nat /\ llegando \in Nat
      /\ lista + llegando + Uno(plan \in {"interrumpir", "respuesta"}) = n
  BY <1>t DEF TypeOK, CuentaReady
<1>g. (lista' + llegando' + Uno(plan' \in {"interrumpir", "respuesta"}) = n') => CuentaReady'
  BY DEF CuentaReady
<1> HIDE DEF n
<1> USE DEF Uno, varsKernel, varsPlan, varsRx, varsRed, varsCpu
<1>1. ASSUME NEW p \in Procesos, Llega(p) PROVE CuentaReady'
  <2>1. n' = n + 1
    BY <1>1, <1>t, <1>s DEF Llega
  <2>2. QED
    BY <1>1, <1>n, <1>g, <2>1 DEF Llega
<1>2. CASE AvisaLlegada
  BY <1>2, <1>t, <1>n, <1>g DEF AvisaLlegada
<1>3. CASE PlanEspera
  BY <1>3, <1>t, <1>n, <1>g DEF PlanEspera
<1>4. CASE PlanEsperaLista
  BY <1>4, <1>t, <1>n, <1>g DEF PlanEsperaLista
<1>5. CASE PlanInterrumpe
  BY <1>5, <1>t, <1>n, <1>g DEF PlanInterrumpe
<1>6. CASE PlanGanaEjecutado
  BY <1>6, <1>t, <1>n, <1>g DEF PlanGanaEjecutado
<1>7. CASE PlanGanaCandidato
  <2>1. n' = n - 1
    BY <1>7, <1>t DEF PlanGanaCandidato, algoritmo_srt, remover_de_cola_ready
  <2>2. QED
    BY <1>7, <1>n, <1>g, <1>t, <2>1 DEF PlanGanaCandidato
<1>8. CASE PlanReencola
  <2>1. n' = n + 1
    BY <1>8, <1>t, <1>s DEF PlanReencola
  <2>2. QED
    BY <1>8, <1>n, <1>g, <2>1 DEF PlanReencola
<1>9. CASE PlanCpuVacia
  <2>1. n' = n - 1
    BY <1>9, <1>t DEF PlanCpuVacia, algoritmo_srt, remover_de_cola_ready
  <2>2. QED
    BY <1>9, <1>n, <1>g, <1>t, <2>1 DEF PlanCpuVacia
<1>10. ASSUME UNCHANGED <<ready, llegando, lista, plan>> PROVE CuentaReady'
  BY <1>10, <1>t, <1>n, <1>g
<1>11. Rx \/ Ix \/ Dx \/ UNCHANGED vars => UNCHANGED <<ready, llegando, lista, plan>>
  BY DEF Rx, RxIo, RxExit, RxRespuesta, RxAvisaRespuesta, RxLibre, Ix, IxLee, IxCpuLibre, IxAnota,
         Dx, DxTermina, DxRecibe, DxEjecuta, DxSinInterrupcion, DxInterrumpido, DxSuelta, vars
<1>12. QED
  BY <1>1, <1>2, <1>3, <1>4, <1>5, <1>6, <1>7, <1>8, <1>9, <1>10, <1>11
  DEF Next, Entorno, Plan

----------------------------------------------------------------------------
(* The invariant and the theorems.                                         *)

\* Inductiva, with the places and the answers counted one by one.
InvContado == Tipos /\ Protocolo /\ UnaVez /\ CuentaReady

\* The program starts with every PCB outside and nothing else anywhere.
LEMMA InvContadoInicial == Init => InvContado
<1> SUFFICES ASSUME Init PROVE InvContado
  OBVIOUS
<1> USE NadieAssumption, MaxLlegadasAssumption DEF Init, Uno
<1>1. Tipos
  BY DEF Tipos, TypeOK, CpuContada, ManosLlenas
<1>2. Protocolo
  <2>1. nContestan = 0
    BY CuantosVacia DEF nContestan
  <2>2. Len(rtaInt) = 0
    OBVIOUS
  <2>3. QED
    BY <2>1, <2>2 DEF Protocolo, Pregunta, FlagEscrita
<1>3. ASSUME NEW p \in Procesos PROVE Veces(p) = 1
  <2>1. nRta(p) = 0 /\ nDespacho(p) = 0 /\ nRetorno(p) = 0
    BY CuantosVacia DEF nRta, nDespacho, nRetorno
  <2>2. QED
    BY <2>1 DEF Veces, EnCpu
<1>4. CuentaReady
  BY FS_EmptySet DEF CuentaReady
<1>5. QED
  BY <1>1, <1>2, <1>3, <1>4 DEF InvContado, UnaVez

\* InvContado is inductive, and says Inductiva.
LEMMA InvContadoSeConserva == InvContado /\ [Next]_vars => InvContado'
<1> SUFFICES ASSUME InvContado, [Next]_vars PROVE InvContado'
  OBVIOUS
<1>1. Tipos' /\ Protocolo'
  BY TiposSeConservan, ProtocoloSeConserva DEF InvContado
<1>2. UnaVez'
  BY UnaVezSeConserva DEF InvContado, UnaVez
<1>3. CuentaReady'
  BY CuentaReadySeConserva DEF InvContado
<1>4. QED
  BY <1>1, <1>2, <1>3 DEF InvContado

LEMMA InvContadoEsInductiva == InvContado => Inductiva
<1> SUFFICES ASSUME InvContado PROVE Inductiva
  OBVIOUS
<1>1. TypeOK /\ CpuContada /\ ManosLlenas /\ FlagEscrita /\ CuentaReady
  BY DEF InvContado, Tipos, Protocolo
<1>2. UnaRespuestaPorInterrupcion
  BY <1>1, MismasRespuestas DEF InvContado, Protocolo
<1>3. CadaPcbEnUnLugar
  BY <1>1, VecesSonLugares DEF InvContado, UnaVez, CadaPcbEnUnLugar
<1>4. QED
  BY <1>1, <1>2, <1>3 DEF Inductiva

\* The conjuncts that make up Inductiva hold in every state of every execution
\* of the preemption protocol, however many PCBs arrive and however often.
THEOREM SiempreInductiva == Spec => []Inductiva
BY InvContadoInicial, InvContadoSeConserva, InvContadoEsInductiva, PTL DEF Spec

\* The variables of the preemption protocol have their types.
THEOREM TiposDeInterrupcion == Spec => []TypeOK
<1>1. Inductiva => TypeOK
  BY DEF Inductiva
<1>2. QED
  BY <1>1, SiempreInductiva, PTL

\* planificador_de_corto_plazo and the threads of the CPU: while the scheduler
\* waits its interrupt is in exactly one place, and otherwise in none, so that
\* the CPU never answers twice and no answer waits for the next question.
THEOREM NuncaDosRespuestas == Spec => []UnaRespuestaPorInterrupcion
<1>1. Inductiva => UnaRespuestaPorInterrupcion
  BY DEF Inductiva
<1>2. QED
  BY <1>1, SiempreInductiva, PTL

\* flag_respuesta_a_interrupcion is written without a lock, and when the
\* scheduler reads it, it tells whether rta_int holds the interrupted PCB.
THEOREM LaFlagDiceLaVerdad == Spec => []FlagDiceLaVerdad
<1>1. Inductiva => FlagDiceLaVerdad
  <2> SUFFICES ASSUME Inductiva PROVE FlagDiceLaVerdad
    OBVIOUS
  <2>1. FlagEscrita
    BY DEF Inductiva
  <2>2. QED
    BY <2>1 DEF FlagEscrita, FlagDiceLaVerdad, Uno
<1>2. QED
  BY <1>1, SiempreInductiva, PTL

\* algoritmo_srt pops cola_de_ready without looking: from the interrupt to the
\* choice there is a PCB in it, because the scheduler holds its token.
THEOREM SiempreHayCandidato == Spec => []HayCandidato
<1>1. Inductiva => HayCandidato
  <2> SUFFICES ASSUME Inductiva, plan \in {"interrumpir", "respuesta"} PROVE ready # {}
    BY DEF HayCandidato
  <2>1. lista \in Nat /\ llegando \in Nat /\ CuentaReady
    BY DEF Inductiva, TypeOK
  <2>2. Cardinality(ready) # 0
    BY <2>1 DEF CuentaReady, Uno
  <2>3. QED
    BY <2>2, FS_EmptySet
<1>2. QED
  BY <1>1, SiempreInductiva, PTL

\* A PCB that travels between the kernel and the CPU while an interrupt travels
\* the other way is never lost and never in two places.
THEOREM CadaPcbEnSuLugar == Spec => []CadaPcbEnUnLugar
<1>1. Inductiva => CadaPcbEnUnLugar
  BY DEF Inductiva
<1>2. QED
  BY <1>1, SiempreInductiva, PTL
=============================================================================
