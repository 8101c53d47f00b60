--------------------------- MODULE KernelPruebas ----------------------------
(***************************************************************************)
(* Proofs about Kernel, for any set of programs, any degree of             *)
(* multiprogramming and any number of I/O instructions: types, the accounts*)
(* of the semaphores, and that the kernel neither loses nor duplicates a   *)
(* PCB. For the last one each process is counted once over the queues, the *)
(* connections with the CPU, the hands of the threads and the two ends of  *)
(* its life, and every step moves it from one of those places to another.  *)
(***************************************************************************)
EXTENDS Kernel, Conteo

\* What a step of thread h leaves in the program counters.
LEMMA DePaso ==
  ASSUME NEW h \in Hilos, NEW de, NEW a, hilo \in [Hilos -> Pcs], Paso(h, de, a)
  PROVE  /\ vivo /\ hilo[h] = de
         /\ hilo'[h] = a
         /\ \A g \in Hilos : g # h => hilo'[g] = hilo[g]
         /\ a \in Pcs => hilo' \in [Hilos -> Pcs]
  BY DEF Paso, En

\* Head and tail of a non-empty sequence.
LEMMA DeCabeza ==
  ASSUME NEW S, NEW s \in Seq(S), s # <<>>
  PROVE  /\ Len(s) > 0 /\ Head(s) \in S
         /\ Tail(s) \in Seq(S) /\ Len(Tail(s)) = Len(s) - 1
  OBVIOUS

\* A sequence with one more element.
LEMMA DeAppend ==
  ASSUME NEW S, NEW s \in Seq(S), NEW x \in S
  PROVE  Append(s, x) \in Seq(S) /\ Len(Append(s, x)) = Len(s) + 1
  OBVIOUS

\* What sem_wait leaves in the semaphores.
LEMMA DeSemWait ==
  ASSUME NEW s \in Semaforos, sem \in [Semaforos -> Nat], SemWait(s)
  PROVE  /\ sem[s] > 0
         /\ sem' \in [Semaforos -> Nat]
         /\ sem'[s] = sem[s] - 1
         /\ \A t \in Semaforos : t # s => sem'[t] = sem[t]
  BY DEF SemWait

\* What a group of sem_posts leaves in the semaphores.
LEMMA DeSemPost ==
  ASSUME NEW S, sem \in [Semaforos -> Nat], SemPost(S)
  PROVE  /\ sem' \in [Semaforos -> Nat]
         /\ \A t \in Semaforos : sem'[t] = IF t \in S THEN sem[t] + 1 ELSE sem[t]
  BY DEF SemPost

\* queue_push lengthens one queue by one.
LEMMA DePush ==
  ASSUME NEW c \in Colas, NEW p \in Procesos, cola \in [Colas -> Seq(Procesos)],
         Push(c, p)
  PROVE  /\ cola' \in [Colas -> Seq(Procesos)]
         /\ Len(cola'[c]) = Len(cola[c]) + 1
         /\ \A d \in Colas : d # c => cola'[d] = cola[d]
  BY DEF Push

\* queue_pop shortens one queue by one and gives the thread a PCB.
LEMMA DePop ==
  ASSUME NEW c \in Colas, NEW h \in Hilos, cola \in [Colas -> Seq(Procesos)],
         suyo \in [Hilos -> Procesos \union {Nadie}],
         Pop(c, h)
  PROVE  /\ cola' \in [Colas -> Seq(Procesos)]
         /\ Len(cola[c]) > 0
         /\ Len(cola'[c]) = Len(cola[c]) - 1
         /\ \A d \in Colas : d # c => cola'[d] = cola[d]
         /\ suyo' \in [Hilos -> Procesos \union {Nadie}]
         /\ suyo'[h] \in Procesos
         /\ \A g \in Hilos : g # h => suyo'[g] = suyo[g]
<1>1. cola[c] \in Seq(Procesos) /\ cola[c] # <<>>
  BY DEF Pop
<1>2. Head(cola[c]) \in Procesos /\ Tail(cola[c]) \in Seq(Procesos)
      /\ Len(Tail(cola[c])) = Len(cola[c]) - 1 /\ Len(cola[c]) > 0
  BY <1>1
<1>3. QED BY <1>1, <1>2 DEF Pop, Guarda

\* What an assignment to a local PCB variable leaves in all of them.
LEMMA DeGuarda ==
  ASSUME NEW h \in Hilos, NEW p \in Procesos \union {Nadie},
         suyo \in [Hilos -> Procesos \union {Nadie}], Guarda(h, p)
  PROVE  /\ suyo' \in [Hilos -> Procesos \union {Nadie}]
         /\ suyo'[h] = p
         /\ \A g \in Hilos : g # h => suyo'[g] = suyo[g]
  BY DEF Guarda

\* The initial state has the types.
LEMMA TiposIniciales == Init => TypeOK
  BY ProcesosAssumption, GradoAssumption, MaxIoAssumption
  DEF Init, TypeOK, TiposHilos, TiposDatos, ManosLlenas, Mensajes, Memorias, Estados,
      Colas, Semaforos, Hilos, Pcs, PcLargo, PcCorto, PcRecibe, PcGestor, PcDisp, PcCpu

\* Every step of every thread keeps the types, and leaves a PCB in the hands
\* of each thread that is going to use one.
LEMMA TiposSeConservan == TypeOK /\ [Next]_vars => TypeOK'
<1> SUFFICES ASSUME TypeOK, [Next]_vars PROVE TypeOK'
  OBVIOUS
<1> USE DEF TypeOK, TiposHilos, sinCpu, sinMemoria, sinLlegada
<1>1. ASSUME NEW p \in Procesos, Recibir(p) PROVE TypeOK'
  <2>1. TiposHilos'
    BY <1>1 DEF Recibir
  <2>2. TiposDatos'
    BY <1>1, DePush DEF Recibir, TiposDatos, Colas, Semaforos, Hilos
  <2>3. ManosLlenas'
    BY <1>1 DEF Recibir, TiposDatos, ManosLlenas, Hilos, Colas, En
  <2>4. QED
    BY <2>1, <2>2, <2>3
<1>2. ASSUME NEW p \in Procesos, AvisarLlegada(p) PROVE TypeOK'
  <2>1. TiposHilos'
    BY <1>2 DEF AvisarLlegada
  <2>2. TiposDatos'
    BY <1>2, DeSemPost DEF AvisarLlegada, TiposDatos, Colas, Semaforos, Hilos
  <2>3. ManosLlenas'
    BY <1>2 DEF AvisarLlegada, TiposDatos, ManosLlenas, Hilos, Colas, En
  <2>4. QED
    BY <2>1, <2>2, <2>3
<1>3. CASE LargoEsperaLista
  <2>1. TiposHilos'
    BY <1>3, DePaso DEF LargoEsperaLista, Hilos, Pcs, PcLargo
  <2>2. TiposDatos'
    BY <1>3, DeSemWait DEF LargoEsperaLista, TiposDatos, Colas, Semaforos, Hilos
  <2>3. ManosLlenas'
    BY <1>3, DePaso DEF LargoEsperaLista, TiposDatos, ManosLlenas, Hilos, Colas
  <2>4. QED
    BY <2>1, <2>2, <2>3
<1>4. CASE LargoEsperaMulti
  <2>1. TiposHilos'
    BY <1>4, DePaso DEF LargoEsperaMulti, Hilos, Pcs, PcLargo
  <2>2. TiposDatos'
    BY <1>4, DeSemWait DEF LargoEsperaMulti, TiposDatos, Colas, Semaforos, Hilos
  <2>3. ManosLlenas'
    BY <1>4, DePaso DEF LargoEsperaMulti, TiposDatos, ManosLlenas, Hilos, Colas
  <2>4. QED
    BY <2>1, <2>2, <2>3
<1>5. CASE LargoMiraSus
  <2>1. TiposHilos'
    BY <1>5, DePaso DEF LargoMiraSus, Hilos, Pcs, PcLargo
  <2>2. TiposDatos'
    BY <1>5, DePop DEF LargoMiraSus, TiposDatos, Colas, Semaforos, Hilos
  <2>3. ManosLlenas'
    BY <1>5, DePaso, DePop, SMTT(30) DEF LargoMiraSus, TiposDatos, ManosLlenas, Hilos, Colas
  <2>4. QED
    BY <2>1, <2>2, <2>3
<1>6. CASE LargoReanuda
  <2>0. suyo["largo"] \in Procesos
    BY <1>6 DEF LargoReanuda, AReady, Paso, En, ManosLlenas
  <2>1. TiposHilos'
    BY <1>6, DePaso DEF LargoReanuda, AReady, Hilos, Pcs, PcLargo
  <2>2. TiposDatos'
    BY <1>6, <2>0, DePush, DeGuarda DEF LargoReanuda, AReady, TiposDatos, Colas,
       Semaforos, Hilos, Memorias
  <2>3. ManosLlenas'
    BY <1>6, <2>0, DePaso, DeGuarda DEF LargoReanuda, AReady, TiposDatos, ManosLlenas,
       Hilos, Colas
  <2>4. QED
    BY <2>1, <2>2, <2>3
<1>7. CASE LargoAvisaSus
  <2>1. TiposHilos'
    BY <1>7, DePaso DEF LargoAvisaSus, Hilos, Pcs, PcLargo
  <2>2. TiposDatos'
    BY <1>7, DeSemPost DEF LargoAvisaSus, TiposDatos, Colas, Semaforos, Hilos
  <2>3. ManosLlenas'
    BY <1>7, DePaso DEF LargoAvisaSus, TiposDatos, ManosLlenas, Hilos, Colas
  <2>4. QED
    BY <2>1, <2>2, <2>3
<1>8. CASE LargoMiraNew
  <2>1. TiposHilos'
    BY <1>8, DePaso DEF LargoMiraNew, Hilos, Pcs, PcLargo
  <2>2. TiposDatos'
    BY <1>8, DePop DEF LargoMiraNew, TiposDatos, Colas, Semaforos, Hilos
  <2>3. ManosLlenas'
    <3>1. \A g \in Hilos : g # "largo" => hilo'[g] = hilo[g] /\ suyo'[g] = suyo[g]
      BY <1>8, DePaso, DePop DEF LargoMiraNew, TiposDatos, Hilos, Colas
    <3>2. \/ hilo'["largo"] = "wait_lista"
          \/ hilo'["largo"] = "crear" /\ suyo'["largo"] \in Procesos
      BY <1>8, DePaso, DePop DEF LargoMiraNew, TiposDatos, Hilos, Colas
    <3>3. QED
      BY <3>1, <3>2 DEF ManosLlenas, Hilos
  <2>4. QED
    BY <2>1, <2>2, <2>3
<1>9. CASE LargoCrea
  <2>0. suyo["largo"] \in Procesos
    BY <1>9 DEF LargoCrea, AReady, Paso, En, ManosLlenas
  <2>1. TiposHilos'
    BY <1>9, DePaso DEF LargoCrea, AReady, Hilos, Pcs, PcLargo
  <2>2. TiposDatos'
    BY <1>9, <2>0, DePush, DeGuarda DEF LargoCrea, AReady, TiposDatos, Colas,
       Semaforos, Hilos, Memorias
  <2>3. ManosLlenas'
    BY <1>9, <2>0, DePaso, DeGuarda DEF LargoCrea, AReady, TiposDatos, ManosLlenas,
       Hilos, Colas
  <2>4. QED
    BY <2>1, <2>2, <2>3
<1>10. CASE LargoAvisaNew
  <2>1. TiposHilos'
    BY <1>10, DePaso DEF LargoAvisaNew, Hilos, Pcs, PcLargo
  <2>2. TiposDatos'
    BY <1>10, DeSemPost DEF LargoAvisaNew, TiposDatos, Colas, Semaforos, Hilos
  <2>3. ManosLlenas'
    BY <1>10, DePaso DEF LargoAvisaNew, TiposDatos, ManosLlenas, Hilos, Colas
  <2>4. QED
    BY <2>1, <2>2, <2>3
<1>11. CASE CortoEspera
  <2>1. TiposHilos'
    BY <1>11, DePaso DEF CortoEspera, Hilos, Pcs, PcCorto
  <2>2. TiposDatos'
    BY <1>11, DeSemWait DEF CortoEspera, TiposDatos, Colas, Semaforos, Hilos
  <2>3. ManosLlenas'
    BY <1>11, DePaso DEF CortoEspera, TiposDatos, ManosLlenas, Hilos, Colas
  <2>4. QED
    BY <2>1, <2>2, <2>3
<1>12. CASE CortoEsperaLista
  <2>1. TiposHilos'
    BY <1>12, DePaso DEF CortoEsperaLista, Hilos, Pcs, PcCorto
  <2>2. TiposDatos'
    BY <1>12, DeSemWait DEF CortoEsperaLista, TiposDatos, Colas, Semaforos, Hilos
  <2>3. ManosLlenas'
    BY <1>12, DePaso DEF CortoEsperaLista, TiposDatos, ManosLlenas, Hilos, Colas
  <2>4. QED
    BY <2>1, <2>2, <2>3
<1>13. CASE CortoElige
  <2>0. cola["ready"] # <<>> => /\ Head(cola["ready"]) \in Procesos
                                /\ Tail(cola["ready"]) \in Seq(Procesos)
    BY DeCabeza DEF TiposDatos, Colas
  <2>1. TiposHilos'
    BY <1>13, DePaso DEF CortoElige, Hilos, Pcs, PcCorto
  <2>2. TiposDatos'
    <3>1. cola' \in [Colas -> Seq(Procesos)] /\ despacho' \in Seq(Procesos)
      <4>1. CASE cola["ready"] = <<>>
        BY <1>13, <4>1 DEF CortoElige, TiposDatos
      <4>2. CASE cola["ready"] # <<>>
        <5>1. /\ despacho' = Append(despacho, Head(cola["ready"]))
              /\ cola' = [cola EXCEPT !["ready"] = Tail(@)]
          BY <1>13, <4>2 DEF CortoElige
        <5>2. QED
          BY <5>1, <4>2, <2>0, DeAppend DEF TiposDatos, Colas
      <4>3. QED
        BY <4>1, <4>2
    <3>2. QED
      BY <1>13, <3>1 DEF CortoElige, TiposDatos
  <2>3. ManosLlenas'
    BY <1>13, <2>0, DePaso DEF CortoElige, TiposDatos, ManosLlenas, Hilos, Colas
  <2>4. QED
    BY <2>1, <2>2, <2>3
<1>14. CASE CpuRecibe
  <2>0. Head(despacho) \in Procesos /\ Tail(despacho) \in Seq(Procesos)
    BY <1>14, DeCabeza DEF CpuRecibe, TiposDatos
  <2>1. TiposHilos'
    BY <1>14, DePaso DEF CpuRecibe, Hilos, Pcs, PcCpu
  <2>2. TiposDatos'
    BY <1>14, <2>0, DeGuarda DEF CpuRecibe, TiposDatos, Hilos
  <2>3. ManosLlenas'
    BY <1>14, <2>0, DePaso, DeGuarda, SMTT(30) DEF CpuRecibe, TiposDatos, ManosLlenas, Hilos,
       Colas
  <2>4. QED
    BY <2>1, <2>2, <2>3
<1>15. CASE CpuIo
  <2>0. suyo["cpu"] \in Procesos
    BY <1>15 DEF CpuIo, CpuDevuelve, Paso, En, ManosLlenas
  <2>1. TiposHilos'
    BY <1>15, DePaso DEF CpuIo, CpuDevuelve, Hilos, Pcs, PcCpu
  <2>2. TiposDatos'
    <3>1. ioHechas' \in [Procesos -> 0 .. MaxIo]
      BY <1>15, <2>0, MaxIoAssumption DEF CpuIo, TiposDatos
    <3>2. retorno' \in Seq(Mensajes)
      BY <1>15, <2>0, DeAppend DEF CpuIo, CpuDevuelve, TiposDatos, Mensajes
    <3>3. suyo' \in [Hilos -> Procesos \union {Nadie}]
      BY <1>15, DeGuarda DEF CpuIo, CpuDevuelve, TiposDatos, Hilos
    <3>4. QED
      BY <1>15, <3>1, <3>2, <3>3 DEF CpuIo, CpuDevuelve, TiposDatos
  <2>3. ManosLlenas'
    <3>1. /\ hilo'["cpu"] = "libre"
          /\ \A g \in Hilos : g # "cpu" => hilo'[g] = hilo[g] /\ suyo'[g] = suyo[g]
      BY <1>15, DePaso, DeGuarda DEF CpuIo, CpuDevuelve, TiposDatos, Hilos
    <3>2. QED
      BY <3>1 DEF ManosLlenas, Hilos
  <2>4. QED
    BY <2>1, <2>2, <2>3
<1>16. CASE CpuExit
  <2>0. suyo["cpu"] \in Procesos
    BY <1>16 DEF CpuExit, CpuDevuelve, Paso, En, ManosLlenas
  <2>1. TiposHilos'
    BY <1>16, DePaso DEF CpuExit, CpuDevuelve, Hilos, Pcs, PcCpu
  <2>2. TiposDatos'
    BY <1>16, <2>0, DeAppend, DeGuarda DEF CpuExit, CpuDevuelve, TiposDatos, Colas,
       Semaforos, Hilos, Mensajes
  <2>3. ManosLlenas'
    BY <1>16, <2>0, DePaso, DeGuarda DEF CpuExit, CpuDevuelve, TiposDatos,
       ManosLlenas, Hilos, Colas
  <2>4. QED
    BY <2>1, <2>2, <2>3
<1>17. CASE RecibeMensaje
  <2>0. /\ Head(retorno) \in Mensajes /\ Head(retorno).p \in Procesos
       /\ Tail(retorno) \in Seq(Mensajes)
    <3>1. retorno \in Seq(Mensajes) /\ retorno # <<>>
      BY <1>17 DEF RecibeMensaje, TiposDatos
    <3>2. Head(retorno) \in Mensajes /\ Tail(retorno) \in Seq(Mensajes)
      BY <3>1, DeCabeza
    <3>3. QED
      BY <3>2 DEF Mensajes
  <2>1. TiposHilos'
    BY <1>17, DePaso DEF RecibeMensaje, Hilos, Pcs, PcRecibe
  <2>2. TiposDatos'
    BY <1>17, <2>0, DeGuarda DEF RecibeMensaje, TiposDatos, Hilos
  <2>3. ManosLlenas'
    <3>1. /\ suyo'["recibe"] \in Procesos
          /\ \A g \in Hilos : g # "recibe" => hilo'[g] = hilo[g] /\ suyo'[g] = suyo[g]
      BY <1>17, <2>0, DePaso, DeGuarda DEF RecibeMensaje, TiposDatos, Hilos
    <3>2. QED
      BY <3>1 DEF ManosLlenas, Hilos
  <2>4. QED
    BY <2>1, <2>2, <2>3
<1>18. CASE RecibeEncola
  <2>0. suyo["recibe"] \in Procesos
    BY <1>18 DEF RecibeEncola, Paso, En, ManosLlenas
  <2>1. TiposHilos'
    BY <1>18, DePaso DEF RecibeEncola, Hilos, Pcs, PcRecibe
  <2>2. TiposDatos'
    BY <1>18, <2>0, DePush DEF RecibeEncola, TiposDatos, Colas, Semaforos, Hilos
  <2>3. ManosLlenas'
    BY <1>18, <2>0, DePaso DEF RecibeEncola, TiposDatos, ManosLlenas, Hilos, Colas
  <2>4. QED
    BY <2>1, <2>2, <2>3
<1>19. CASE RecibeMarca
  <2>0. suyo["recibe"] \in Procesos
    BY <1>19 DEF RecibeMarca, Paso, En, ManosLlenas
  <2>1. TiposHilos'
    BY <1>19, DePaso DEF RecibeMarca, Hilos, Pcs, PcRecibe
  <2>2. TiposDatos'
    BY <1>19, <2>0 DEF RecibeMarca, TiposDatos, Estados
  <2>3. ManosLlenas'
    BY <1>19, <2>0, DePaso DEF RecibeMarca, TiposDatos, ManosLlenas, Hilos, Colas
  <2>4. QED
    BY <2>1, <2>2, <2>3
<1>20. CASE RecibeAvisaIo
  <2>1. TiposHilos'
    BY <1>20, DePaso DEF RecibeAvisaIo, Hilos, Pcs, PcRecibe
  <2>2. TiposDatos'
    BY <1>20, DeSemPost, DeGuarda DEF RecibeAvisaIo, TiposDatos, Colas, Semaforos,
       Hilos
  <2>3. ManosLlenas'
    BY <1>20, DePaso, DeGuarda DEF RecibeAvisaIo, TiposDatos, ManosLlenas, Hilos,
       Colas
  <2>4. QED
    BY <2>1, <2>2, <2>3
<1>21. CASE RecibeFinaliza
  <2>0. suyo["recibe"] \in Procesos
    BY <1>21 DEF RecibeFinaliza, Paso, En, ManosLlenas
  <2>1. TiposHilos'
    BY <1>21, DePaso DEF RecibeFinaliza, Hilos, Pcs, PcRecibe
  <2>2. TiposDatos'
    BY <1>21, <2>0 DEF RecibeFinaliza, TiposDatos, Memorias
  <2>3. ManosLlenas'
    BY <1>21, <2>0, DePaso DEF RecibeFinaliza, TiposDatos, ManosLlenas, Hilos, Colas
  <2>4. QED
    BY <2>1, <2>2, <2>3
<1>22. CASE RecibeAvisaFin
  <2>1. TiposHilos'
    BY <1>22, DePaso DEF RecibeAvisaFin, Hilos, Pcs, PcRecibe
  <2>2. TiposDatos'
    BY <1>22, DeSemPost, DeGuarda DEF RecibeAvisaFin, TiposDatos, Colas, Semaforos,
       Hilos
  <2>3. ManosLlenas'
    BY <1>22, DePaso, DeGuarda DEF RecibeAvisaFin, TiposDatos, ManosLlenas, Hilos,
       Colas
  <2>4. QED
    BY <2>1, <2>2, <2>3
<1>23. CASE GestorEspera
  <2>1. TiposHilos'
    BY <1>23, DePaso DEF GestorEspera, Hilos, Pcs, PcGestor
  <2>2. TiposDatos'
    BY <1>23, DeSemWait DEF GestorEspera, TiposDatos, Colas, Semaforos, Hilos
  <2>3. ManosLlenas'
    BY <1>23, DePaso DEF GestorEspera, TiposDatos, ManosLlenas, Hilos, Colas
  <2>4. QED
    BY <2>1, <2>2, <2>3
<1>24. CASE GestorCuenta
  <2>1. TiposHilos'
    BY <1>24, DePaso DEF GestorCuenta, Hilos, Pcs, PcGestor
  <2>2. TiposDatos'
    BY <1>24 DEF GestorCuenta, TiposDatos, Semaforos
  <2>3. ManosLlenas'
    BY <1>24, DePaso DEF GestorCuenta, TiposDatos, ManosLlenas, Hilos, Colas
  <2>4. QED
    BY <2>1, <2>2, <2>3
<1>25. CASE GestorUsaDispositivo
  <2>1. TiposHilos'
    BY <1>25 DEF GestorUsaDispositivo, Ronda, Hilos, Pcs, PcGestor, PcDisp
  <2>2. TiposDatos'
    <3>1. sem' \in [Semaforos -> Nat]
      BY <1>25, DeSemWait DEF GestorUsaDispositivo, TiposDatos, Semaforos
    <3>2. /\ cola' \in [Colas -> Seq(Procesos)]
          /\ suyo' \in [Hilos -> Procesos \union {Nadie}]
      BY <1>25, DePop DEF GestorUsaDispositivo, TiposDatos, Colas, Hilos
    <3>3. /\ cant' = cant - 1
          /\ UNCHANGED <<inicio, vivo, sinCpu, sinMemoria, sinLlegada>>
      BY <1>25 DEF GestorUsaDispositivo
    <3>4. QED
      BY <3>1, <3>2, <3>3 DEF TiposDatos
  <2>3. ManosLlenas'
    BY <1>25, DePop DEF GestorUsaDispositivo, Ronda, TiposDatos, ManosLlenas, Hilos,
       Colas, En
  <2>4. QED
    BY <2>1, <2>2, <2>3
<1>26. CASE GestorDispositivoOcupado
  <2>1. TiposHilos'
    BY <1>26, DePaso DEF GestorDispositivoOcupado, Hilos, Pcs, PcGestor
  <2>2. TiposDatos'
    BY <1>26, DeSemPost DEF GestorDispositivoOcupado, TiposDatos, Colas, Semaforos,
       Hilos
  <2>3. ManosLlenas'
    BY <1>26, DePaso DEF GestorDispositivoOcupado, TiposDatos, ManosLlenas, Hilos,
       Colas
  <2>4. QED
    BY <2>1, <2>2, <2>3
<1>27. CASE GestorRota
  <2>0. /\ Head(cola["io"]) \in Procesos /\ Tail(cola["io"]) \in Seq(Procesos)
    BY <1>27, DeCabeza DEF GestorRota, TiposDatos, Colas
  <2>1. TiposHilos'
    BY <1>27, DePaso DEF GestorRota, Ronda, Hilos, Pcs, PcGestor
  <2>2. TiposDatos'
    BY <1>27, <2>0, DeAppend DEF GestorRota, Ronda, TiposDatos, Colas
  <2>3. ManosLlenas'
    BY <1>27, <2>0, DePaso, SMTT(30) DEF GestorRota, Ronda, TiposDatos, ManosLlenas, Hilos,
       Colas
  <2>4. QED
    BY <2>1, <2>2, <2>3
<1>28. CASE GestorVence
  <2>1. TiposHilos'
    BY <1>28, DePaso DEF GestorVence, Hilos, Pcs, PcGestor
  <2>2. TiposDatos'
    BY <1>28, DePop, DeSemPost DEF GestorVence, TiposDatos, Colas, Semaforos, Hilos
  <2>3. ManosLlenas'
    BY <1>28, DePaso, DePop DEF GestorVence, TiposDatos, ManosLlenas, Hilos, Colas
  <2>4. QED
    BY <2>1, <2>2, <2>3
<1>29. CASE GestorSuspende
  <2>0. suyo["gestor"] \in Procesos
    BY <1>29 DEF GestorSuspende, Paso, En, ManosLlenas
  <2>1. TiposHilos'
    BY <1>29, DePaso DEF GestorSuspende, SuspenderEnMemoria, Ronda, Hilos, Pcs,
       PcGestor
  <2>2. TiposDatos'
    <3>1. /\ memoria' \in [Procesos -> Memorias]
          /\ estado' \in [Procesos -> Estados]
      BY <1>29 DEF GestorSuspende, SuspenderEnMemoria, TiposDatos, Memorias, Estados
    <3>2. cola' \in [Colas -> Seq(Procesos)]
      BY <1>29, <2>0, DePush DEF GestorSuspende, TiposDatos, Colas
    <3>3. suyo' \in [Hilos -> Procesos \union {Nadie}]
      BY <1>29, DeGuarda DEF GestorSuspende, TiposDatos, Hilos
    <3>4. QED
      BY <1>29, <3>1, <3>2, <3>3 DEF GestorSuspende, TiposDatos
  <2>3. ManosLlenas'
    <3>1. /\ hilo'["gestor"] # "suspender"
          /\ \A g \in Hilos : g # "gestor" => hilo'[g] = hilo[g]
      BY <1>29, DePaso DEF GestorSuspende, Ronda, Hilos
    <3>2. \A g \in Hilos : g # "gestor" => suyo'[g] = suyo[g]
      BY <1>29, DeGuarda DEF GestorSuspende, TiposDatos, Hilos
    <3>3. QED
      BY <3>1, <3>2 DEF ManosLlenas, Hilos
  <2>4. QED
    BY <2>1, <2>2, <2>3
<1>30. CASE GestorCae
  <2>1. TiposHilos'
    BY <1>30 DEF GestorCae, Hilos, Pcs, PcGestor
  <2>2. TiposDatos'
    BY <1>30 DEF GestorCae, TiposDatos, Colas, Semaforos, Hilos
  <2>3. ManosLlenas'
    BY <1>30 DEF GestorCae, TiposDatos, ManosLlenas, Hilos, Colas, En
  <2>4. QED
    BY <2>1, <2>2, <2>3
<1>31. CASE DispLee
  <2>1. TiposHilos'
    BY <1>31, DePaso DEF DispLee, Hilos, Pcs, PcDisp
  <2>2. TiposDatos'
    BY <1>31 DEF DispLee, TiposDatos, Colas, Semaforos, Hilos
  <2>3. ManosLlenas'
    BY <1>31, DePaso DEF DispLee, TiposDatos, ManosLlenas, Hilos, Colas
  <2>4. QED
    BY <2>1, <2>2, <2>3
<1>32. CASE DispCae
  <2>1. TiposHilos'
    BY <1>32 DEF DispCae, Hilos, Pcs, PcDisp
  <2>2. TiposDatos'
    BY <1>32 DEF DispCae, TiposDatos, Colas, Semaforos, Hilos
  <2>3. ManosLlenas'
    BY <1>32 DEF DispCae, TiposDatos, ManosLlenas, Hilos, Colas, En
  <2>4. QED
    BY <2>1, <2>2, <2>3
<1>33. CASE DispIoNormal
  <2>0. suyo["disp"] \in Procesos
    BY <1>33 DEF DispIoNormal, Paso, En, ManosLlenas
  <2>1. TiposHilos'
    BY <1>33, DePaso DEF DispIoNormal, Hilos, Pcs, PcDisp
  <2>2. TiposDatos'
    BY <1>33, <2>0, DePush, DeGuarda DEF DispIoNormal, TiposDatos, Colas, Semaforos,
       Hilos
  <2>3. ManosLlenas'
    BY <1>33, <2>0, DePaso, DeGuarda DEF DispIoNormal, TiposDatos, ManosLlenas, Hilos,
       Colas
  <2>4. QED
    BY <2>1, <2>2, <2>3
<1>34. CASE DispSuspende
  <2>0. suyo["disp"] \in Procesos
    BY <1>34 DEF DispSuspende, Paso, En, ManosLlenas
  <2>1. TiposHilos'
    BY <1>34, DePaso DEF DispSuspende, SuspenderEnMemoria, Hilos, Pcs, PcDisp
  <2>2. TiposDatos'
    BY <1>34, <2>0 DEF DispSuspende, SuspenderEnMemoria, TiposDatos, Memorias, Estados
  <2>3. ManosLlenas'
    BY <1>34, <2>0, DePaso DEF DispSuspende, SuspenderEnMemoria, TiposDatos,
       ManosLlenas, Hilos, Colas
  <2>4. QED
    BY <2>1, <2>2, <2>3
<1>35. CASE DispSube
  <2>1. TiposHilos'
    BY <1>35, DePaso DEF DispSube, Hilos, Pcs, PcDisp
  <2>2. TiposDatos'
    BY <1>35, DeSemPost DEF DispSube, TiposDatos, Colas, Semaforos, Hilos
  <2>3. ManosLlenas'
    BY <1>35, DePaso DEF DispSube, TiposDatos, ManosLlenas, Hilos, Colas
  <2>4. QED
    BY <2>1, <2>2, <2>3
<1>36. CASE DispASusReady
  <2>0. suyo["disp"] \in Procesos
    BY <1>36 DEF DispASusReady, Paso, En, ManosLlenas
  <2>1. TiposHilos'
    BY <1>36, DePaso DEF DispASusReady, Hilos, Pcs, PcDisp
  <2>2. TiposDatos'
    BY <1>36, <2>0, DePush, DeGuarda DEF DispASusReady, TiposDatos, Colas, Semaforos,
       Hilos, Estados
  <2>3. ManosLlenas'
    <3>1. /\ hilo'["disp"] = "soltar_sus"
          /\ \A g \in Hilos : g # "disp" => hilo'[g] = hilo[g]
      BY <1>36, DePaso DEF DispASusReady, Hilos
    <3>2. \A g \in Hilos : g # "disp" => suyo'[g] = suyo[g]
      BY <1>36, DeGuarda DEF DispASusReady, TiposDatos, Hilos
    <3>3. QED
      BY <3>1, <3>2 DEF ManosLlenas, Hilos
  <2>4. QED
    BY <2>1, <2>2, <2>3
<1>37. CASE DispAvisa
  <2>1. TiposHilos'
    BY <1>37, DePaso DEF DispAvisa, Hilos, Pcs, PcDisp
  <2>2. TiposDatos'
    BY <1>37, DeSemPost DEF DispAvisa, TiposDatos, Colas, Semaforos, Hilos
  <2>3. ManosLlenas'
    BY <1>37, DePaso DEF DispAvisa, TiposDatos, ManosLlenas, Hilos, Colas
  <2>4. QED
    BY <2>1, <2>2, <2>3
<1>38. CASE DispSuelta
  <2>1. TiposHilos'
    BY <1>38, DePaso DEF DispSuelta, Hilos, Pcs, PcDisp
  <2>2. TiposDatos'
    BY <1>38, DeSemPost DEF DispSuelta, TiposDatos, Colas, Semaforos, Hilos
  <2>3. ManosLlenas'
    BY <1>38, DePaso DEF DispSuelta, TiposDatos, ManosLlenas, Hilos, Colas
  <2>4. QED
    BY <2>1, <2>2, <2>3
<1>39. CASE UNCHANGED vars
  BY <1>39 DEF vars, TiposDatos, ManosLlenas
<1>40. QED
  BY <1>1, <1>2, <1>3, <1>4, <1>5, <1>6, <1>7, <1>8, <1>9, <1>10, <1>11, <1>12, <1>13,
     <1>14, <1>15, <1>16, <1>17, <1>18, <1>19, <1>20, <1>21, <1>22, <1>23, <1>24,
     <1>25, <1>26, <1>27, <1>28, <1>29, <1>30, <1>31, <1>32, <1>33, <1>34, <1>35,
     <1>36, <1>37, <1>38, <1>39 DEF Next,
        Llegada, Largo, Corto, Cpu, Recibe, Gestor, Disp
-----------------------------------------------------------------------------

\* The counters of the kernel, by name: semaphores, queues and messages.
sEsperando == sem["esperando"]
sLista     == sem["lista"]
sCorto     == sem["corto"]
sSignal    == sem["signal"]
sDisp      == sem["dispositivo"]
eNew   == Encolados("new")
eSus   == Encolados("susReady")
eReady == Encolados("ready")
eIo    == Encolados("io")
nAvisando == Cardinality(avisando)
nDespacho == Len(despacho)
nRetorno  == Len(retorno)

Contadores ==
  /\ sEsperando \in Nat /\ sLista \in Nat /\ sCorto \in Nat /\ sSignal \in Nat
  /\ sDisp \in Nat /\ eNew \in Nat /\ eSus \in Nat /\ eReady \in Nat /\ eIo \in Nat
  /\ nAvisando \in Nat /\ nDespacho \in Nat /\ nRetorno \in Nat /\ inicio \in Nat
  /\ cant \in Int

\* What the program counters add to the counts is never negative.
Pesos ==
  /\ CortoActivo \in Nat /\ CpuActiva \in Nat /\ RecibeActivo \in Nat
  /\ DispActivo \in Nat /\ CortoSaca \in Nat /\ LargoDebeLista \in Nat
  /\ DispDebeLista \in Nat /\ LargoTomo \in Nat /\ DispDebeSus \in Nat
  /\ GestorTomo \in Nat /\ RecibeDebe \in Nat /\ GestorTiene \in Nat

\* The types make every counter a number.
LEMMA Numeros == TypeOK => Contadores /\ Pesos
<1> SUFFICES ASSUME TypeOK PROVE Contadores /\ Pesos
  OBVIOUS
<1>1. nAvisando \in Nat
  BY ProcesosAssumption, FS_Subset, FS_CardinalityType
  DEF TypeOK, TiposDatos, nAvisando
<1>2. \A c \in Colas : Encolados(c) \in Nat
  BY DEF TypeOK, TiposDatos, Encolados
<1>3. Pesos
  BY DEF Pesos, Uno, CortoActivo, CpuActiva, RecibeActivo, DispActivo, CortoSaca,
     LargoDebeLista, DispDebeLista, LargoTomo, DispDebeSus, GestorTomo, RecibeDebe,
     GestorTiene
<1>4. nDespacho \in Nat /\ nRetorno \in Nat
  BY DEF TypeOK, TiposDatos, nDespacho, nRetorno
<1>5. QED
  BY <1>1, <1>2, <1>3, <1>4 DEF TypeOK, TiposDatos, Semaforos, Colas, Contadores,
     sEsperando, sLista, sCorto, sSignal, sDisp, eNew, eSus, eReady, eIo

\* The counts of Cuentas, with every counter by name.
Sumas ==
  /\ inicio + sCorto + CortoActivo + nDespacho + CpuActiva + nRetorno + RecibeActivo = 1
  /\ sLista + CortoSaca + LargoDebeLista + DispDebeLista = eReady
  /\ sEsperando + nAvisando + LargoTomo + DispDebeSus = eNew + eSus
  /\ sSignal + GestorTomo + RecibeDebe = eIo + GestorTiene
  /\ sDisp + DispActivo = 1

Rondas ==
  /\ hilo["gestor"] = "tomar" => 1 <= cant /\ cant <= sSignal + 1
  /\ hilo["gestor"] \in {"rotar", "suspender"} => 1 <= cant /\ cant <= sSignal

MiraNew == hilo["largo"] = "mirar_new" => eNew > 0

\* Both forms say the same.
LEMMA MismasCuentas ==
  TypeOK => (Cuentas <=> Sumas /\ Rondas /\ MiraNew /\ AfueraAparte)
<1> SUFFICES ASSUME TypeOK
             PROVE  Cuentas <=> Sumas /\ Rondas /\ MiraNew /\ AfueraAparte
  OBVIOUS
<1>1. Sumas <=> /\ FichaUnica /\ CuentaReady /\ CuentaEsperando /\ CuentaIo
                /\ DispositivoUnico
  BY DEF Sumas, FichaUnica, CuentaReady, CuentaEsperando, CuentaIo, DispositivoUnico,
     sEsperando, sLista, sCorto, sSignal, sDisp, eNew, eSus, eReady, eIo, nAvisando,
     nDespacho, nRetorno
<1>2. sSignal \in Nat /\ cant \in Int
  BY Numeros DEF Contadores
<1>3. RondasContadas <=> /\ hilo["gestor"] = "tomar" => cant \in 1 .. (sSignal + 1)
                         /\ hilo["gestor"] \in {"rotar", "suspender"}
                              => cant \in 1 .. sSignal
  BY DEF RondasContadas, sSignal
<1>4. Rondas <=> RondasContadas
  BY <1>2, <1>3 DEF Rondas
<1>5. MiraNew <=> MiraNewConAlgo
  BY DEF MiraNew, MiraNewConAlgo, eNew
<1>6. QED
  BY <1>1, <1>4, <1>5 DEF Cuentas

\* What a step leaves alone: the semaphores, the queues, all threads but one.
MismosSem   == UNCHANGED <<sEsperando, sLista, sCorto, sSignal, sDisp>>
MismasColas == UNCHANGED <<eNew, eSus, eReady, eIo>>
MismoLargo  == hilo'["largo"] = hilo["largo"] /\ UNCHANGED <<LargoDebeLista, LargoTomo>>
MismoCorto  == UNCHANGED <<CortoActivo, CortoSaca>>
MismoCpu    == UNCHANGED CpuActiva
MismoRecibe == UNCHANGED <<RecibeActivo, RecibeDebe>>
MismoGestor == hilo'["gestor"] = hilo["gestor"] /\ UNCHANGED <<GestorTomo, GestorTiene>>
MismoDisp   == UNCHANGED <<DispActivo, DispDebeLista, DispDebeSus>>

Salvo(h) ==
  /\ h = "largo" \/ MismoLargo
  /\ h = "corto" \/ MismoCorto
  /\ h = "cpu" \/ MismoCpu
  /\ h = "recibe" \/ MismoRecibe
  /\ h = "gestor" \/ MismoGestor
  /\ h = "disp" \/ MismoDisp

\* A step of thread h leaves the counts of the others alone.
LEMMA Mismos ==
  ASSUME NEW h, \A g \in Hilos : g # h => hilo'[g] = hilo[g]
  PROVE  Salvo(h)
<1>1. h = "largo" \/ MismoLargo
  BY DEF Hilos, MismoLargo, LargoDebeLista, LargoTomo
<1>2. h = "corto" \/ MismoCorto
  BY DEF Hilos, MismoCorto, CortoActivo, CortoSaca
<1>3. h = "cpu" \/ MismoCpu
  BY DEF Hilos, MismoCpu, CpuActiva
<1>4. h = "recibe" \/ MismoRecibe
  BY DEF Hilos, MismoRecibe, RecibeActivo, RecibeDebe
<1>5. h = "gestor" \/ MismoGestor
  BY DEF Hilos, MismoGestor, GestorTomo, GestorTiene
<1>6. h = "disp" \/ MismoDisp
  BY DEF Hilos, MismoDisp, DispActivo, DispDebeLista, DispDebeSus
<1>7. QED
  BY <1>1, <1>2, <1>3, <1>4, <1>5, <1>6 DEF Salvo

\* What a group of sem_posts adds to the named counters.
LEMMA PostSuma ==
  ASSUME NEW S, TypeOK, SemPost(S)
  PROVE  /\ sEsperando' = IF "esperando" \in S THEN sEsperando + 1 ELSE sEsperando
         /\ sLista' = IF "lista" \in S THEN sLista + 1 ELSE sLista
         /\ sCorto' = IF "corto" \in S THEN sCorto + 1 ELSE sCorto
         /\ sSignal' = IF "signal" \in S THEN sSignal + 1 ELSE sSignal
         /\ sDisp' = IF "dispositivo" \in S THEN sDisp + 1 ELSE sDisp
<1>1. sem \in [Semaforos -> Nat]
  BY DEF TypeOK, TiposDatos
<1>2. \A t \in Semaforos : sem'[t] = IF t \in S THEN sem[t] + 1 ELSE sem[t]
  BY <1>1, DeSemPost
<1>3. sEsperando' = IF "esperando" \in S THEN sEsperando + 1 ELSE sEsperando
  BY <1>2 DEF Semaforos, sEsperando
<1>4. sLista' = IF "lista" \in S THEN sLista + 1 ELSE sLista
  BY <1>2 DEF Semaforos, sLista
<1>5. sCorto' = IF "corto" \in S THEN sCorto + 1 ELSE sCorto
  BY <1>2 DEF Semaforos, sCorto
<1>6. sSignal' = IF "signal" \in S THEN sSignal + 1 ELSE sSignal
  BY <1>2 DEF Semaforos, sSignal
<1>7. sDisp' = IF "dispositivo" \in S THEN sDisp + 1 ELSE sDisp
  BY <1>2 DEF Semaforos, sDisp
<1>8. QED
  BY <1>3, <1>4, <1>5, <1>6, <1>7

\* What a sem_wait takes from them.
LEMMA WaitResta ==
  ASSUME NEW s \in Semaforos, TypeOK, SemWait(s)
  PROVE  /\ sEsperando' = IF s = "esperando" THEN sEsperando - 1 ELSE sEsperando
         /\ sLista' = IF s = "lista" THEN sLista - 1 ELSE sLista
         /\ sCorto' = IF s = "corto" THEN sCorto - 1 ELSE sCorto
         /\ sSignal' = IF s = "signal" THEN sSignal - 1 ELSE sSignal
         /\ sDisp' = IF s = "dispositivo" THEN sDisp - 1 ELSE sDisp
<1>1. sem \in [Semaforos -> Nat]
  BY DEF TypeOK, TiposDatos
<1>2. \A t \in Semaforos : sem'[t] = IF t = s THEN sem[t] - 1 ELSE sem[t]
  BY <1>1, DeSemWait
<1>3. sEsperando' = IF s = "esperando" THEN sEsperando - 1 ELSE sEsperando
  BY <1>2 DEF Semaforos, sEsperando
<1>4. sLista' = IF s = "lista" THEN sLista - 1 ELSE sLista
  BY <1>2 DEF Semaforos, sLista
<1>5. sCorto' = IF s = "corto" THEN sCorto - 1 ELSE sCorto
  BY <1>2 DEF Semaforos, sCorto
<1>6. sSignal' = IF s = "signal" THEN sSignal - 1 ELSE sSignal
  BY <1>2 DEF Semaforos, sSignal
<1>7. sDisp' = IF s = "dispositivo" THEN sDisp - 1 ELSE sDisp
  BY <1>2 DEF Semaforos, sDisp
<1>8. QED
  BY <1>3, <1>4, <1>5, <1>6, <1>7

\* What a queue_push adds to the named lengths.
LEMMA PushSuma ==
  ASSUME NEW c \in Colas, NEW p \in Procesos, TypeOK, Push(c, p)
  PROVE  /\ eNew' = IF c = "new" THEN eNew + 1 ELSE eNew
         /\ eSus' = IF c = "susReady" THEN eSus + 1 ELSE eSus
         /\ eReady' = IF c = "ready" THEN eReady + 1 ELSE eReady
         /\ eIo' = IF c = "io" THEN eIo + 1 ELSE eIo
<1>1. cola \in [Colas -> Seq(Procesos)]
  BY DEF TypeOK, TiposDatos
<1>2. \A d \in Colas : Encolados(d)' = IF d = c THEN Encolados(d) + 1 ELSE Encolados(d)
  BY <1>1, DePush DEF Encolados
<1>3. QED
  BY <1>2 DEF Colas, eNew, eSus, eReady, eIo

\* What a queue_pop takes from them.
LEMMA PopResta ==
  ASSUME NEW c \in Colas, NEW h \in Hilos, TypeOK, Pop(c, h)
  PROVE  /\ eNew' = IF c = "new" THEN eNew - 1 ELSE eNew
         /\ eSus' = IF c = "susReady" THEN eSus - 1 ELSE eSus
         /\ eReady' = IF c = "ready" THEN eReady - 1 ELSE eReady
         /\ eIo' = IF c = "io" THEN eIo - 1 ELSE eIo
<1>1. cola \in [Colas -> Seq(Procesos)] /\ suyo \in [Hilos -> Procesos \union {Nadie}]
  BY DEF TypeOK, TiposDatos
<1>2. \A d \in Colas : Encolados(d)' = IF d = c THEN Encolados(d) - 1 ELSE Encolados(d)
  BY <1>1, DePop DEF Encolados
<1>3. QED
  BY <1>2 DEF Colas, eNew, eSus, eReady, eIo

\* Every step of every thread keeps the tokens and counts.
LEMMA SumasSeConservan ==
  ASSUME TypeOK, Sumas, Rondas, MiraNew, AfueraAparte, [Next]_vars
  PROVE  Sumas' /\ Rondas' /\ MiraNew' /\ AfueraAparte'
<1>n. Contadores /\ Pesos
  BY Numeros
<1>f. IsFiniteSet(avisando)
  BY ProcesosAssumption, FS_Subset DEF TypeOK, TiposDatos
<1> USE DEF Contadores, Pesos, Salvo, MismosSem, MismasColas, MismoLargo, MismoCorto,
        MismoCpu, MismoRecibe, MismoGestor, MismoDisp, sinCpu, sinMemoria, sinLlegada
<1>1. ASSUME NEW p \in Procesos, Recibir(p)
      PROVE  Sumas' /\ Rondas' /\ MiraNew' /\ AfueraAparte'
  <2>1. UNCHANGED hilo
    BY <1>1 DEF Recibir
  <2>2. Salvo("ninguno")
    BY <2>1, Mismos DEF Hilos
  <2>3. MismosSem /\ UNCHANGED <<cant, inicio, nDespacho, nRetorno>>
    BY <1>1 DEF Recibir, MismosSem, sEsperando, sLista, sCorto, sSignal, sDisp,
       nDespacho, nRetorno
  <2>4. eNew' = eNew + 1 /\ UNCHANGED <<eSus, eReady, eIo>>
    BY <1>1, PushSuma DEF Recibir, Colas
  <2>5. nAvisando' = nAvisando + 1 /\ AfueraAparte'
    <3>1. p \notin avisando /\ avisando' = avisando \union {p}
      BY <1>1 DEF Recibir, AfueraAparte
    <3>2. Cardinality(avisando \union {p}) = Cardinality(avisando) + 1
      BY <3>1, <1>f, FS_AddElement
    <3>3. nAvisando' = nAvisando + 1
      BY <3>1, <3>2 DEF nAvisando
    <3>4. AfueraAparte'
      BY <1>1, <3>1 DEF Recibir, AfueraAparte
    <3>5. QED
      BY <3>3, <3>4
  <2>6. Sumas'
    <3>1. nAvisando' = nAvisando + 1
      BY <2>5
    <3>2. QED
      BY <2>2, <2>3, <2>4, <3>1, <1>n DEF Sumas
  <2>7. Rondas' /\ MiraNew'
    BY <2>2, <2>3, <2>4, <1>n DEF Rondas, MiraNew
  <2>8. QED
    BY <2>5, <2>6, <2>7
<1>2. ASSUME NEW p \in Procesos, AvisarLlegada(p)
      PROVE  Sumas' /\ Rondas' /\ MiraNew' /\ AfueraAparte'
  <2>1. UNCHANGED hilo
    BY <1>2 DEF AvisarLlegada
  <2>2. Salvo("ninguno")
    BY <2>1, Mismos DEF Hilos
  <2>3. /\ sEsperando' = sEsperando + 1 /\ UNCHANGED <<sLista, sCorto, sSignal, sDisp>>
    BY <1>2, PostSuma DEF AvisarLlegada
  <2>4. MismasColas /\ UNCHANGED <<cant, inicio, nDespacho, nRetorno>>
    BY <1>2 DEF AvisarLlegada, MismasColas, Encolados, eNew, eSus, eReady, eIo,
       nDespacho, nRetorno
  <2>5. nAvisando' = nAvisando - 1 /\ AfueraAparte'
    BY <1>2, <1>f, FS_RemoveElement DEF AvisarLlegada, AfueraAparte, nAvisando
  <2>6. Sumas'
    BY <2>2, <2>3, <2>4, <2>5, <1>n DEF Sumas
  <2>7. Rondas' /\ MiraNew'
    BY <2>2, <2>3, <2>4, <1>n DEF Rondas, MiraNew
  <2>8. QED
    BY <2>5, <2>6, <2>7
<1>3. CASE LargoEsperaLista
  <2>1. hilo["largo"] = "wait_lista" /\ hilo'["largo"] = "wait_multi" /\ Salvo("largo")
    BY <1>3, DePaso, Mismos DEF LargoEsperaLista, TypeOK, TiposHilos, Hilos
  <2>2. /\ LargoDebeLista = 0 /\ LargoDebeLista' = 0 /\ LargoTomo = 0
        /\ LargoTomo' = 1
    BY <2>1 DEF LargoDebeLista, LargoTomo, Uno
  <2>3. /\ sEsperando' = sEsperando - 1
        /\ UNCHANGED <<sLista, sCorto, sSignal, sDisp>>
    BY <1>3, WaitResta DEF LargoEsperaLista, Semaforos
  <2>4. MismasColas
    BY <1>3 DEF LargoEsperaLista, MismasColas, Encolados, eNew, eSus, eReady, eIo
  <2>5. UNCHANGED <<cant, inicio, nAvisando, nDespacho, nRetorno, afuera, avisando>>
    BY <1>3 DEF LargoEsperaLista, nAvisando, nDespacho, nRetorno
  <2>6. Sumas'
    BY <2>1, <2>2, <2>3, <2>4, <2>5, <1>n DEF Sumas
  <2>7. Rondas' /\ MiraNew' /\ AfueraAparte'
    BY <2>1, <2>2, <2>3, <2>4, <2>5, <1>n DEF Rondas, MiraNew, AfueraAparte
  <2>8. QED
    BY <2>6, <2>7
<1>4. CASE LargoEsperaMulti
  <2>1. hilo["largo"] = "wait_multi" /\ hilo'["largo"] = "mirar_sus" /\ Salvo("largo")
    BY <1>4, DePaso, Mismos DEF LargoEsperaMulti, TypeOK, TiposHilos, Hilos
  <2>2. /\ LargoDebeLista = 0 /\ LargoDebeLista' = 0 /\ LargoTomo = 1
        /\ LargoTomo' = 1
    BY <2>1 DEF LargoDebeLista, LargoTomo, Uno
  <2>3. MismosSem
    BY <1>4, WaitResta DEF LargoEsperaMulti, Semaforos, MismosSem
  <2>4. MismasColas
    BY <1>4 DEF LargoEsperaMulti, MismasColas, Encolados, eNew, eSus, eReady, eIo
  <2>5. UNCHANGED <<cant, inicio, nAvisando, nDespacho, nRetorno, afuera, avisando>>
    BY <1>4 DEF LargoEsperaMulti, nAvisando, nDespacho, nRetorno
  <2>6. Sumas'
    BY <2>1, <2>2, <2>3, <2>4, <2>5, <1>n DEF Sumas
  <2>7. Rondas' /\ MiraNew' /\ AfueraAparte'
    BY <2>1, <2>2, <2>3, <2>4, <2>5, <1>n DEF Rondas, MiraNew, AfueraAparte
  <2>8. QED
    BY <2>6, <2>7
<1>5. CASE LargoMiraSus
  <2>1. hilo["largo"] = "mirar_sus" /\ Salvo("largo")
    BY <1>5, DePaso, Mismos DEF LargoMiraSus, TypeOK, TiposHilos, Hilos
  <2>2. LargoDebeLista = 0 /\ LargoTomo = 1
    BY <2>1 DEF LargoDebeLista, LargoTomo, Uno
  <2>3. MismosSem
    BY <1>5 DEF LargoMiraSus, MismosSem, sEsperando, sLista, sCorto, sSignal, sDisp
  <2>4. UNCHANGED <<cant, inicio, nAvisando, nDespacho, nRetorno, afuera, avisando>>
    BY <1>5 DEF LargoMiraSus, nAvisando, nDespacho, nRetorno
  <2>5. CASE hilo'["largo"] = "reanudar"
    <3>1. Pop("susReady", "largo")
      BY <1>5, <2>5, DePaso DEF LargoMiraSus, TypeOK, TiposHilos, Hilos
    <3>2. eSus' = eSus - 1 /\ UNCHANGED <<eNew, eReady, eIo>>
      BY <3>1, PopResta DEF Colas, Hilos
    <3>3. LargoDebeLista' = 0 /\ LargoTomo' = 0
      BY <2>5 DEF LargoDebeLista, LargoTomo, Uno
    <3>4. Sumas'
      BY <2>1, <2>2, <2>3, <2>4, <3>2, <3>3, <1>n DEF Sumas
    <3>5. Rondas' /\ MiraNew' /\ AfueraAparte'
      BY <2>1, <2>3, <2>4, <2>5, <1>n DEF Rondas, MiraNew, AfueraAparte
    <3>6. QED
      BY <3>4, <3>5
  <2>6. CASE hilo'["largo"] = "mirar_new"
    <3>1. cola["susReady"] = <<>> /\ UNCHANGED cola
      BY <1>5, <2>6, DePaso DEF LargoMiraSus, TypeOK, TiposHilos, Hilos
    <3>2. eSus = 0 /\ MismasColas
      BY <3>1 DEF MismasColas, Encolados, eNew, eSus, eReady, eIo
    <3>3. LargoDebeLista' = 0 /\ LargoTomo' = 1
      BY <2>6 DEF LargoDebeLista, LargoTomo, Uno
    <3>4. Sumas'
      BY <2>1, <2>2, <2>3, <2>4, <3>2, <3>3, <1>n DEF Sumas
    <3>5. eNew > 0
      BY <2>2, <3>2, <1>n DEF Sumas
    <3>6. Rondas' /\ MiraNew' /\ AfueraAparte'
      BY <2>1, <2>3, <2>4, <2>6, <3>2, <3>5, <1>n DEF Rondas, MiraNew, AfueraAparte
    <3>7. QED
      BY <3>4, <3>6
  <2>7. hilo'["largo"] \in {"reanudar", "mirar_new"}
    BY <1>5, DePaso DEF LargoMiraSus, TypeOK, TiposHilos, Hilos
  <2>8. QED
    BY <2>5, <2>6, <2>7
<1>6. CASE LargoReanuda
  <2>1. hilo["largo"] = "reanudar" /\ hilo'["largo"] = "avisar_sus" /\ Salvo("largo")
    BY <1>6, DePaso, Mismos DEF LargoReanuda, AReady, TypeOK, TiposHilos, Hilos
  <2>2. /\ LargoDebeLista = 0 /\ LargoDebeLista' = 1 /\ LargoTomo = 0
        /\ LargoTomo' = 0
    BY <2>1 DEF LargoDebeLista, LargoTomo, Uno
  <2>3. MismosSem
    BY <1>6 DEF LargoReanuda, AReady, MismosSem, sEsperando, sLista, sCorto,
       sSignal, sDisp
  <2>4. eReady' = eReady + 1 /\ UNCHANGED <<eNew, eSus, eIo>>
    BY <1>6, PushSuma, <2>1 DEF LargoReanuda, AReady, TypeOK, ManosLlenas, Colas
  <2>5. UNCHANGED <<cant, inicio, nAvisando, nDespacho, nRetorno, afuera, avisando>>
    BY <1>6 DEF LargoReanuda, AReady, nAvisando, nDespacho, nRetorno
  <2>6. Sumas'
    BY <2>1, <2>2, <2>3, <2>4, <2>5, <1>n DEF Sumas
  <2>7. Rondas' /\ MiraNew' /\ AfueraAparte'
    BY <2>1, <2>2, <2>3, <2>4, <2>5, <1>n DEF Rondas, MiraNew, AfueraAparte
  <2>8. QED
    BY <2>6, <2>7
<1>7. CASE LargoAvisaSus
  <2>1. hilo["largo"] = "avisar_sus" /\ hilo'["largo"] = "wait_lista" /\ Salvo("largo")
    BY <1>7, DePaso, Mismos DEF LargoAvisaSus, TypeOK, TiposHilos, Hilos
  <2>2. /\ LargoDebeLista = 1 /\ LargoDebeLista' = 0 /\ LargoTomo = 0
        /\ LargoTomo' = 0
    BY <2>1 DEF LargoDebeLista, LargoTomo, Uno
  <2>3. /\ sLista' = sLista + 1
        /\ UNCHANGED <<sEsperando, sCorto, sSignal, sDisp>>
    BY <1>7, PostSuma DEF LargoAvisaSus, Semaforos
  <2>4. MismasColas
    BY <1>7 DEF LargoAvisaSus, MismasColas, Encolados, eNew, eSus, eReady, eIo
  <2>5. UNCHANGED <<cant, inicio, nAvisando, nDespacho, nRetorno, afuera, avisando>>
    BY <1>7 DEF LargoAvisaSus, nAvisando, nDespacho, nRetorno
  <2>6. Sumas'
    BY <2>1, <2>2, <2>3, <2>4, <2>5, <1>n DEF Sumas
  <2>7. Rondas' /\ MiraNew' /\ AfueraAparte'
    BY <2>1, <2>2, <2>3, <2>4, <2>5, <1>n DEF Rondas, MiraNew, AfueraAparte
  <2>8. QED
    BY <2>6, <2>7
<1>8. CASE LargoMiraNew
  <2>1. hilo["largo"] = "mirar_new" /\ Salvo("largo")
    BY <1>8, DePaso, Mismos DEF LargoMiraNew, TypeOK, TiposHilos, Hilos
  <2>2. cola["new"] # <<>>
    BY <2>1, <1>n DEF MiraNew, eNew, Encolados
  <2>3. hilo'["largo"] = "crear" /\ Pop("new", "largo")
    BY <1>8, <2>2, DePaso DEF LargoMiraNew, TypeOK, TiposHilos, Hilos
  <2>4. /\ LargoDebeLista = 0 /\ LargoDebeLista' = 0 /\ LargoTomo = 1
        /\ LargoTomo' = 0
    BY <2>1, <2>3 DEF LargoDebeLista, LargoTomo, Uno
  <2>5. MismosSem
    BY <1>8 DEF LargoMiraNew, MismosSem, sEsperando, sLista, sCorto, sSignal, sDisp
  <2>6. eNew' = eNew - 1 /\ UNCHANGED <<eSus, eReady, eIo>>
    BY <2>3, PopResta DEF Colas, Hilos
  <2>7. UNCHANGED <<cant, inicio, nAvisando, nDespacho, nRetorno, afuera, avisando>>
    BY <1>8 DEF LargoMiraNew, nAvisando, nDespacho, nRetorno
  <2>8. Sumas'
    BY <2>1, <2>4, <2>5, <2>6, <2>7, <1>n DEF Sumas
  <2>9. Rondas' /\ MiraNew' /\ AfueraAparte'
    BY <2>1, <2>3, <2>5, <2>7, <1>n DEF Rondas, MiraNew, AfueraAparte
  <2>10. QED
    BY <2>8, <2>9
<1>9. CASE LargoCrea
  <2>1. hilo["largo"] = "crear" /\ hilo'["largo"] = "avisar_new" /\ Salvo("largo")
    BY <1>9, DePaso, Mismos DEF LargoCrea, AReady, TypeOK, TiposHilos, Hilos
  <2>2. /\ LargoDebeLista = 0 /\ LargoDebeLista' = 1 /\ LargoTomo = 0
        /\ LargoTomo' = 0
    BY <2>1 DEF LargoDebeLista, LargoTomo, Uno
  <2>3. MismosSem
    BY <1>9 DEF LargoCrea, AReady, MismosSem, sEsperando, sLista, sCorto, sSignal,
       sDisp
  <2>4. eReady' = eReady + 1 /\ UNCHANGED <<eNew, eSus, eIo>>
    BY <1>9, PushSuma, <2>1 DEF LargoCrea, AReady, TypeOK, ManosLlenas, Colas
  <2>5. UNCHANGED <<cant, inicio, nAvisando, nDespacho, nRetorno, afuera, avisando>>
    BY <1>9 DEF LargoCrea, AReady, nAvisando, nDespacho, nRetorno
  <2>6. Sumas'
    BY <2>1, <2>2, <2>3, <2>4, <2>5, <1>n DEF Sumas
  <2>7. Rondas' /\ MiraNew' /\ AfueraAparte'
    BY <2>1, <2>2, <2>3, <2>4, <2>5, <1>n DEF Rondas, MiraNew, AfueraAparte
  <2>8. QED
    BY <2>6, <2>7
<1>10. CASE LargoAvisaNew
  <2>1. /\ hilo["largo"] = "avisar_new" /\ hilo'["largo"] = "wait_lista"
        /\ Salvo("largo")
    BY <1>10, DePaso, Mismos DEF LargoAvisaNew, TypeOK, TiposHilos, Hilos
  <2>2. /\ LargoDebeLista = 1 /\ LargoDebeLista' = 0 /\ LargoTomo = 0
        /\ LargoTomo' = 0
    BY <2>1 DEF LargoDebeLista, LargoTomo, Uno
  <2>3. /\ sLista' = sLista + 1 /\ UNCHANGED <<sEsperando, sSignal, sDisp>>
        /\ sCorto' = IF inicio = 1 THEN sCorto + 1 ELSE sCorto
    BY <1>10, PostSuma DEF LargoAvisaNew
  <2>4. inicio = 0 \/ inicio = 1
    BY DEF TypeOK, TiposDatos
  <2>5. sCorto' = sCorto + inicio
    BY <2>3, <2>4, <1>n
  <2>6. MismasColas
    BY <1>10 DEF LargoAvisaNew, MismasColas, Encolados, eNew, eSus, eReady, eIo
  <2>7. UNCHANGED <<cant, nAvisando, nDespacho, nRetorno, afuera, avisando>> /\ inicio' = 0
    BY <1>10 DEF LargoAvisaNew, nAvisando, nDespacho, nRetorno
  <2>8. /\ sLista' = sLista + 1 /\ UNCHANGED <<sEsperando, sSignal, sDisp>>
    BY <2>3
  <2>9. Sumas'
    BY <2>1, <2>2, <2>5, <2>6, <2>7, <2>8, <1>n DEF Sumas
  <2>10. Rondas' /\ MiraNew' /\ AfueraAparte'
    BY <2>1, <2>6, <2>7, <2>8, <1>n DEF Rondas, MiraNew, AfueraAparte
  <2>11. QED
    BY <2>9, <2>10
<1>11. CASE CortoEspera
  <2>1. hilo["corto"] = "wait_corto" /\ hilo'["corto"] = "wait_lista" /\ Salvo("corto")
    BY <1>11, DePaso, Mismos DEF CortoEspera, TypeOK, TiposHilos, Hilos
  <2>2. CortoActivo = 0 /\ CortoActivo' = 1 /\ CortoSaca = 0 /\ CortoSaca' = 0
    BY <2>1 DEF CortoActivo, CortoSaca, Uno
  <2>3. /\ sCorto' = sCorto - 1
        /\ UNCHANGED <<sEsperando, sLista, sSignal, sDisp>>
    BY <1>11, WaitResta DEF CortoEspera, Semaforos
  <2>4. MismasColas
    BY <1>11 DEF CortoEspera, MismasColas, Encolados, eNew, eSus, eReady, eIo
  <2>5. UNCHANGED <<cant, inicio, nAvisando, nDespacho, nRetorno, afuera, avisando>>
    BY <1>11 DEF CortoEspera, nAvisando, nDespacho, nRetorno
  <2>6. Sumas'
    BY <2>1, <2>2, <2>3, <2>4, <2>5, <1>n DEF Sumas
  <2>7. Rondas' /\ MiraNew' /\ AfueraAparte'
    BY <2>1, <2>2, <2>3, <2>4, <2>5, <1>n DEF Rondas, MiraNew, AfueraAparte
  <2>8. QED
    BY <2>6, <2>7
<1>12. CASE CortoEsperaLista
  <2>1. hilo["corto"] = "wait_lista" /\ hilo'["corto"] = "elegir" /\ Salvo("corto")
    BY <1>12, DePaso, Mismos DEF CortoEsperaLista, TypeOK, TiposHilos, Hilos
  <2>2. CortoActivo = 1 /\ CortoActivo' = 1 /\ CortoSaca = 0 /\ CortoSaca' = 1
    BY <2>1 DEF CortoActivo, CortoSaca, Uno
  <2>3. /\ sLista' = sLista - 1
        /\ UNCHANGED <<sEsperando, sCorto, sSignal, sDisp>>
    BY <1>12, WaitResta DEF CortoEsperaLista, Semaforos
  <2>4. MismasColas
    BY <1>12 DEF CortoEsperaLista, MismasColas, Encolados, eNew, eSus, eReady, eIo
  <2>5. UNCHANGED <<cant, inicio, nAvisando, nDespacho, nRetorno, afuera, avisando>>
    BY <1>12 DEF CortoEsperaLista, nAvisando, nDespacho, nRetorno
  <2>6. Sumas'
    BY <2>1, <2>2, <2>3, <2>4, <2>5, <1>n DEF Sumas
  <2>7. Rondas' /\ MiraNew' /\ AfueraAparte'
    BY <2>1, <2>2, <2>3, <2>4, <2>5, <1>n DEF Rondas, MiraNew, AfueraAparte
  <2>8. QED
    BY <2>6, <2>7
<1>13. CASE CortoElige
  <2>1. hilo["corto"] = "elegir" /\ hilo'["corto"] = "wait_corto" /\ Salvo("corto")
    BY <1>13, DePaso, Mismos DEF CortoElige, TypeOK, TiposHilos, Hilos
  <2>2. /\ CortoActivo = 1 /\ CortoActivo' = 0 /\ CortoSaca = 1 /\ CortoSaca' = 0
    BY <2>1 DEF CortoActivo, CortoSaca, Uno
  <2>3. MismosSem
    BY <1>13 DEF CortoElige, MismosSem, sEsperando, sLista, sCorto, sSignal, sDisp
  <2>4. eReady > 0
    BY <2>2, <1>n DEF Sumas
  <2>5. /\ cola["ready"] \in Seq(Procesos) /\ cola["ready"] # <<>>
        /\ despacho \in Seq(Procesos) /\ cola \in [Colas -> Seq(Procesos)]
    BY <2>4 DEF TypeOK, TiposDatos, Colas, eReady, Encolados
  <2>6. /\ despacho' = Append(despacho, Head(cola["ready"]))
        /\ cola' = [cola EXCEPT !["ready"] = Tail(@)]
    BY <1>13, <2>5 DEF CortoElige
  <2>7. nDespacho' = nDespacho + 1
    BY <2>5, <2>6, DeCabeza, DeAppend DEF nDespacho
  <2>8. /\ cola'["ready"] = Tail(cola["ready"]) /\ cola'["new"] = cola["new"]
        /\ cola'["susReady"] = cola["susReady"] /\ cola'["io"] = cola["io"]
    BY <2>5, <2>6 DEF Colas
  <2>9. eReady' = eReady - 1 /\ UNCHANGED <<eNew, eSus, eIo>>
    BY <2>5, <2>8, DeCabeza DEF Encolados, eNew, eSus, eReady, eIo
  <2>10. UNCHANGED <<cant, inicio, nAvisando, nRetorno, afuera, avisando>>
    BY <1>13 DEF CortoElige, nAvisando, nRetorno
  <2>11. Sumas'
    BY <2>1, <2>2, <2>3, <2>7, <2>9, <2>10, <1>n DEF Sumas
  <2>12. Rondas' /\ MiraNew' /\ AfueraAparte'
    BY <2>1, <2>3, <2>9, <2>10, <1>n DEF Rondas, MiraNew, AfueraAparte
  <2>13. QED
    BY <2>11, <2>12
<1>14. CASE CpuRecibe
  <2>1. hilo["cpu"] = "libre" /\ hilo'["cpu"] = "corre" /\ Salvo("cpu")
    BY <1>14, DePaso, Mismos DEF CpuRecibe, TypeOK, TiposHilos, Hilos
  <2>2. CpuActiva = 0 /\ CpuActiva' = 1
    BY <2>1 DEF CpuActiva, Uno
  <2>3. MismosSem /\ MismasColas
    BY <1>14 DEF CpuRecibe, MismosSem, MismasColas, Encolados, sEsperando, sLista,
       sCorto, sSignal, sDisp, eNew, eSus, eReady, eIo
  <2>4. nDespacho' = nDespacho - 1
    BY <1>14, DeCabeza DEF CpuRecibe, TypeOK, TiposDatos, nDespacho
  <2>5. UNCHANGED <<cant, inicio, nAvisando, nRetorno, afuera, avisando>>
    BY <1>14 DEF CpuRecibe, nAvisando, nRetorno
  <2>6. Sumas'
    BY <2>1, <2>2, <2>3, <2>4, <2>5, <1>n DEF Sumas
  <2>7. Rondas' /\ MiraNew' /\ AfueraAparte'
    BY <2>1, <2>3, <2>5, <1>n DEF Rondas, MiraNew, AfueraAparte
  <2>8. QED
    BY <2>6, <2>7
<1>15. CASE CpuIo
  <2>1. hilo["cpu"] = "corre" /\ hilo'["cpu"] = "libre" /\ Salvo("cpu")
    BY <1>15, DePaso, Mismos DEF CpuIo, CpuDevuelve, TypeOK, TiposHilos, Hilos
  <2>2. CpuActiva = 1 /\ CpuActiva' = 0
    BY <2>1 DEF CpuActiva, Uno
  <2>3. MismosSem /\ MismasColas
    BY <1>15 DEF CpuIo, CpuDevuelve, MismosSem, MismasColas, Encolados, sEsperando,
       sLista, sCorto, sSignal, sDisp, eNew, eSus, eReady, eIo
  <2>4. nRetorno' = nRetorno + 1
    <3>1. suyo["cpu"] \in Procesos
      BY <2>1 DEF TypeOK, ManosLlenas
    <3>2. QED
      BY <1>15, <3>1, DeAppend DEF CpuIo, CpuDevuelve, TypeOK, TiposDatos, Mensajes,
         nRetorno
  <2>5. UNCHANGED <<cant, inicio, nAvisando, nDespacho, afuera, avisando>>
    BY <1>15 DEF CpuIo, CpuDevuelve, nAvisando, nDespacho
  <2>6. Sumas'
    BY <2>1, <2>2, <2>3, <2>4, <2>5, <1>n DEF Sumas
  <2>7. Rondas' /\ MiraNew' /\ AfueraAparte'
    BY <2>1, <2>3, <2>5, <1>n DEF Rondas, MiraNew, AfueraAparte
  <2>8. QED
    BY <2>6, <2>7
<1>16. CASE CpuExit
  <2>1. hilo["cpu"] = "corre" /\ hilo'["cpu"] = "libre" /\ Salvo("cpu")
    BY <1>16, DePaso, Mismos DEF CpuExit, CpuDevuelve, TypeOK, TiposHilos, Hilos
  <2>2. CpuActiva = 1 /\ CpuActiva' = 0
    BY <2>1 DEF CpuActiva, Uno
  <2>3. MismosSem /\ MismasColas
    BY <1>16 DEF CpuExit, CpuDevuelve, MismosSem, MismasColas, Encolados,
       sEsperando, sLista, sCorto, sSignal, sDisp, eNew, eSus, eReady, eIo
  <2>4. nRetorno' = nRetorno + 1
    <3>1. suyo["cpu"] \in Procesos
      BY <2>1 DEF TypeOK, ManosLlenas
    <3>2. QED
      BY <1>16, <3>1, DeAppend DEF CpuExit, CpuDevuelve, TypeOK, TiposDatos, Mensajes,
         nRetorno
  <2>5. UNCHANGED <<cant, inicio, nAvisando, nDespacho, afuera, avisando>>
    BY <1>16 DEF CpuExit, CpuDevuelve, nAvisando, nDespacho
  <2>6. Sumas'
    BY <2>1, <2>2, <2>3, <2>4, <2>5, <1>n DEF Sumas
  <2>7. Rondas' /\ MiraNew' /\ AfueraAparte'
    BY <2>1, <2>3, <2>5, <1>n DEF Rondas, MiraNew, AfueraAparte
  <2>8. QED
    BY <2>6, <2>7
<1>17. CASE RecibeMensaje
  <2>1. /\ hilo["recibe"] = "recv" /\ Salvo("recibe")
        /\ hilo'["recibe"] = "encolar_io" \/ hilo'["recibe"] = "finalizar"
    BY <1>17, DePaso, Mismos DEF RecibeMensaje, TypeOK, TiposHilos, Hilos
  <2>2. /\ RecibeActivo = 0 /\ RecibeActivo' = 1 /\ RecibeDebe = 0
        /\ RecibeDebe' = 0
    BY <2>1 DEF RecibeActivo, RecibeDebe, Uno
  <2>3. MismosSem /\ MismasColas
    BY <1>17 DEF RecibeMensaje, MismosSem, MismasColas, Encolados, sEsperando,
       sLista, sCorto, sSignal, sDisp, eNew, eSus, eReady, eIo
  <2>4. nRetorno' = nRetorno - 1
    BY <1>17, DeCabeza DEF RecibeMensaje, TypeOK, TiposDatos, nRetorno
  <2>5. UNCHANGED <<cant, inicio, nAvisando, nDespacho, afuera, avisando>>
    BY <1>17 DEF RecibeMensaje, nAvisando, nDespacho
  <2>6. Sumas'
    BY <2>1, <2>2, <2>3, <2>4, <2>5, <1>n DEF Sumas
  <2>7. Rondas' /\ MiraNew' /\ AfueraAparte'
    BY <2>1, <2>3, <2>5, <1>n DEF Rondas, MiraNew, AfueraAparte
  <2>8. QED
    BY <2>6, <2>7
<1>18. CASE RecibeEncola
  <2>1. hilo["recibe"] = "encolar_io" /\ hilo'["recibe"] = "marcar" /\ Salvo("recibe")
    BY <1>18, DePaso, Mismos DEF RecibeEncola, TypeOK, TiposHilos, Hilos
  <2>2. /\ RecibeActivo = 1 /\ RecibeActivo' = 1 /\ RecibeDebe = 0
        /\ RecibeDebe' = 1
    BY <2>1 DEF RecibeActivo, RecibeDebe, Uno
  <2>3. MismosSem
    BY <1>18 DEF RecibeEncola, MismosSem, sEsperando, sLista, sCorto, sSignal, sDisp
  <2>4. eIo' = eIo + 1 /\ UNCHANGED <<eNew, eSus, eReady>>
    BY <1>18, PushSuma, <2>1 DEF RecibeEncola, TypeOK, ManosLlenas, Colas
  <2>5. UNCHANGED <<cant, inicio, nAvisando, nDespacho, nRetorno, afuera, avisando>>
    BY <1>18 DEF RecibeEncola, nAvisando, nDespacho, nRetorno
  <2>6. Sumas'
    BY <2>1, <2>2, <2>3, <2>4, <2>5, <1>n DEF Sumas
  <2>7. Rondas' /\ MiraNew' /\ AfueraAparte'
    BY <2>1, <2>2, <2>3, <2>4, <2>5, <1>n DEF Rondas, MiraNew, AfueraAparte
  <2>8. QED
    BY <2>6, <2>7
<1>19. CASE RecibeMarca
  <2>1. hilo["recibe"] = "marcar" /\ hilo'["recibe"] = "avisar_io" /\ Salvo("recibe")
    BY <1>19, DePaso, Mismos DEF RecibeMarca, TypeOK, TiposHilos, Hilos
  <2>2. /\ RecibeActivo = 1 /\ RecibeActivo' = 1 /\ RecibeDebe = 1
        /\ RecibeDebe' = 1
    BY <2>1 DEF RecibeActivo, RecibeDebe, Uno
  <2>3. MismosSem
    BY <1>19 DEF RecibeMarca, MismosSem, sEsperando, sLista, sCorto, sSignal, sDisp
  <2>4. MismasColas
    BY <1>19 DEF RecibeMarca, MismasColas, Encolados, eNew, eSus, eReady, eIo
  <2>5. UNCHANGED <<cant, inicio, nAvisando, nDespacho, nRetorno, afuera, avisando>>
    BY <1>19 DEF RecibeMarca, nAvisando, nDespacho, nRetorno
  <2>6. Sumas'
    BY <2>1, <2>2, <2>3, <2>4, <2>5, <1>n DEF Sumas
  <2>7. Rondas' /\ MiraNew' /\ AfueraAparte'
    BY <2>1, <2>2, <2>3, <2>4, <2>5, <1>n DEF Rondas, MiraNew, AfueraAparte
  <2>8. QED
    BY <2>6, <2>7
<1>20. CASE RecibeAvisaIo
  <2>1. hilo["recibe"] = "avisar_io" /\ hilo'["recibe"] = "recv" /\ Salvo("recibe")
    BY <1>20, DePaso, Mismos DEF RecibeAvisaIo, TypeOK, TiposHilos, Hilos
  <2>2. /\ RecibeActivo = 1 /\ RecibeActivo' = 0 /\ RecibeDebe = 1
        /\ RecibeDebe' = 0
    BY <2>1 DEF RecibeActivo, RecibeDebe, Uno
  <2>3. /\ sCorto' = sCorto + 1 /\ sSignal' = sSignal + 1
        /\ UNCHANGED <<sEsperando, sLista, sDisp>>
    BY <1>20, PostSuma DEF RecibeAvisaIo, Semaforos
  <2>4. MismasColas
    BY <1>20 DEF RecibeAvisaIo, MismasColas, Encolados, eNew, eSus, eReady, eIo
  <2>5. UNCHANGED <<cant, inicio, nAvisando, nDespacho, nRetorno, afuera, avisando>>
    BY <1>20 DEF RecibeAvisaIo, nAvisando, nDespacho, nRetorno
  <2>6. Sumas'
    BY <2>1, <2>2, <2>3, <2>4, <2>5, <1>n DEF Sumas
  <2>7. Rondas' /\ MiraNew' /\ AfueraAparte'
    BY <2>1, <2>2, <2>3, <2>4, <2>5, <1>n DEF Rondas, MiraNew, AfueraAparte
  <2>8. QED
    BY <2>6, <2>7
<1>21. CASE RecibeFinaliza
  <2>1. hilo["recibe"] = "finalizar" /\ hilo'["recibe"] = "avisar_fin" /\ Salvo("recibe")
    BY <1>21, DePaso, Mismos DEF RecibeFinaliza, TypeOK, TiposHilos, Hilos
  <2>2. /\ RecibeActivo = 1 /\ RecibeActivo' = 1 /\ RecibeDebe = 0
        /\ RecibeDebe' = 0
    BY <2>1 DEF RecibeActivo, RecibeDebe, Uno
  <2>3. MismosSem
    BY <1>21 DEF RecibeFinaliza, MismosSem, sEsperando, sLista, sCorto, sSignal,
       sDisp
  <2>4. MismasColas
    BY <1>21 DEF RecibeFinaliza, MismasColas, Encolados, eNew, eSus, eReady, eIo
  <2>5. UNCHANGED <<cant, inicio, nAvisando, nDespacho, nRetorno, afuera, avisando>>
    BY <1>21 DEF RecibeFinaliza, nAvisando, nDespacho, nRetorno
  <2>6. Sumas'
    BY <2>1, <2>2, <2>3, <2>4, <2>5, <1>n DEF Sumas
  <2>7. Rondas' /\ MiraNew' /\ AfueraAparte'
    BY <2>1, <2>2, <2>3, <2>4, <2>5, <1>n DEF Rondas, MiraNew, AfueraAparte
  <2>8. QED
    BY <2>6, <2>7
<1>22. CASE RecibeAvisaFin
  <2>1. hilo["recibe"] = "avisar_fin" /\ hilo'["recibe"] = "recv" /\ Salvo("recibe")
    BY <1>22, DePaso, Mismos DEF RecibeAvisaFin, TypeOK, TiposHilos, Hilos
  <2>2. /\ RecibeActivo = 1 /\ RecibeActivo' = 0 /\ RecibeDebe = 0
        /\ RecibeDebe' = 0
    BY <2>1 DEF RecibeActivo, RecibeDebe, Uno
  <2>3. /\ sCorto' = sCorto + 1
        /\ UNCHANGED <<sEsperando, sLista, sSignal, sDisp>>
    BY <1>22, PostSuma DEF RecibeAvisaFin, Semaforos
  <2>4. MismasColas
    BY <1>22 DEF RecibeAvisaFin, MismasColas, Encolados, eNew, eSus, eReady, eIo
  <2>5. UNCHANGED <<cant, inicio, nAvisando, nDespacho, nRetorno, afuera, avisando>>
    BY <1>22 DEF RecibeAvisaFin, nAvisando, nDespacho, nRetorno
  <2>6. Sumas'
    BY <2>1, <2>2, <2>3, <2>4, <2>5, <1>n DEF Sumas
  <2>7. Rondas' /\ MiraNew' /\ AfueraAparte'
    BY <2>1, <2>2, <2>3, <2>4, <2>5, <1>n DEF Rondas, MiraNew, AfueraAparte
  <2>8. QED
    BY <2>6, <2>7
<1>23. CASE GestorEspera
  <2>1. hilo["gestor"] = "wait_signal" /\ hilo'["gestor"] = "contar" /\ Salvo("gestor")
    BY <1>23, DePaso, Mismos DEF GestorEspera, TypeOK, TiposHilos, Hilos
  <2>2. /\ GestorTomo = 0 /\ GestorTomo' = 1 /\ GestorTiene = 0
        /\ GestorTiene' = 0
    BY <2>1 DEF GestorTomo, GestorTiene, Uno
  <2>3. /\ sSignal' = sSignal - 1
        /\ UNCHANGED <<sEsperando, sLista, sCorto, sDisp>>
    BY <1>23, WaitResta DEF GestorEspera, Semaforos
  <2>4. MismasColas
    BY <1>23 DEF GestorEspera, MismasColas, Encolados, eNew, eSus, eReady, eIo
  <2>5. UNCHANGED <<cant, inicio, nAvisando, nDespacho, nRetorno, afuera, avisando>>
    BY <1>23 DEF GestorEspera, nAvisando, nDespacho, nRetorno
  <2>6. Sumas'
    BY <2>1, <2>2, <2>3, <2>4, <2>5, <1>n DEF Sumas
  <2>7. Rondas' /\ MiraNew' /\ AfueraAparte'
    BY <2>1, <2>2, <2>3, <2>4, <2>5, <1>n DEF Rondas, MiraNew, AfueraAparte
  <2>8. QED
    BY <2>6, <2>7
<1>24. CASE GestorCuenta
  <2>1. hilo["gestor"] = "contar" /\ hilo'["gestor"] = "tomar" /\ Salvo("gestor")
    BY <1>24, DePaso, Mismos DEF GestorCuenta, TypeOK, TiposHilos, Hilos
  <2>2. /\ GestorTomo = 1 /\ GestorTomo' = 1 /\ GestorTiene = 0 /\ GestorTiene' = 0
    BY <2>1 DEF GestorTomo, GestorTiene, Uno
  <2>3. MismosSem /\ MismasColas
    BY <1>24 DEF GestorCuenta, MismosSem, MismasColas, Encolados, sEsperando, sLista,
       sCorto, sSignal, sDisp, eNew, eSus, eReady, eIo
  <2>4. cant' = sSignal + 1
    BY <1>24 DEF GestorCuenta, sSignal
  <2>5. UNCHANGED <<inicio, nAvisando, nDespacho, nRetorno, afuera, avisando>>
    BY <1>24 DEF GestorCuenta, nAvisando, nDespacho, nRetorno
  <2>6. Sumas'
    BY <2>1, <2>2, <2>3, <2>5, <1>n DEF Sumas
  <2>7. Rondas' /\ MiraNew' /\ AfueraAparte'
    BY <2>1, <2>3, <2>4, <2>5, <1>n DEF Rondas, MiraNew, AfueraAparte
  <2>8. QED
    BY <2>6, <2>7
<1>25. CASE GestorUsaDispositivo
  <2>1. /\ hilo["gestor"] = "tomar" /\ hilo'["gestor"] = Ronda(cant - 1)
        /\ hilo'["disp"] = "leer"
        /\ \A g \in Hilos \ {"gestor", "disp"} : hilo'[g] = hilo[g]
    BY <1>25 DEF GestorUsaDispositivo, En, TypeOK, TiposHilos, Hilos
  <2>2. MismoLargo /\ MismoCorto /\ MismoCpu /\ MismoRecibe
    BY <2>1 DEF Hilos, LargoDebeLista, LargoTomo, CortoActivo, CortoSaca, CpuActiva,
       RecibeActivo, RecibeDebe
  <2>3. sem["dispositivo"] > 0
    BY <1>25 DEF GestorUsaDispositivo, SemWait
  <2>4. DispActivo = 0
    BY <2>3, <1>n DEF Sumas, sDisp
  <2>5. hilo["disp"] = "libre"
    BY <2>4 DEF DispActivo, Uno
  <2>6. /\ DispActivo' = 1 /\ DispDebeLista = 0 /\ DispDebeLista' = 0
        /\ DispDebeSus = 0 /\ DispDebeSus' = 0
    BY <2>1, <2>5 DEF DispActivo, DispDebeLista, DispDebeSus, Uno
  <2>7. /\ GestorTomo = 1 /\ GestorTomo' = 0 /\ GestorTiene = 0 /\ GestorTiene' = 0
    BY <2>1 DEF Ronda, GestorTomo, GestorTiene, Uno
  <2>8. sDisp' = sDisp - 1 /\ UNCHANGED <<sEsperando, sLista, sCorto, sSignal>>
    BY <1>25, WaitResta DEF GestorUsaDispositivo, Semaforos
  <2>9. eIo' = eIo - 1 /\ UNCHANGED <<eNew, eSus, eReady>>
    BY <1>25, PopResta DEF GestorUsaDispositivo, Hilos, Colas
  <2>10. /\ cant' = cant - 1
         /\ UNCHANGED <<inicio, nAvisando, nDespacho, nRetorno, afuera, avisando>>
    BY <1>25 DEF GestorUsaDispositivo, nAvisando, nDespacho, nRetorno
  <2>11. Sumas'
    BY <2>2, <2>4, <2>6, <2>7, <2>8, <2>9, <2>10, <1>n DEF Sumas
  <2>12. Rondas'
    BY <2>1, <2>8, <2>10, <1>n DEF Rondas, Ronda
  <2>13. MiraNew' /\ AfueraAparte'
    BY <2>2, <2>9, <2>10 DEF MiraNew, AfueraAparte
  <2>14. QED
    BY <2>11, <2>12, <2>13
<1>26. CASE GestorDispositivoOcupado
  <2>1. hilo["gestor"] = "tomar" /\ hilo'["gestor"] = "rotar" /\ Salvo("gestor")
    BY <1>26, DePaso, Mismos DEF GestorDispositivoOcupado, TypeOK, TiposHilos, Hilos
  <2>2. /\ GestorTomo = 1 /\ GestorTomo' = 0 /\ GestorTiene = 0
        /\ GestorTiene' = 0
    BY <2>1 DEF GestorTomo, GestorTiene, Uno
  <2>3. /\ sSignal' = sSignal + 1
        /\ UNCHANGED <<sEsperando, sLista, sCorto, sDisp>>
    BY <1>26, PostSuma DEF GestorDispositivoOcupado, Semaforos
  <2>4. MismasColas
    BY <1>26 DEF GestorDispositivoOcupado, MismasColas, Encolados, eNew, eSus,
       eReady, eIo
  <2>5. UNCHANGED <<cant, inicio, nAvisando, nDespacho, nRetorno, afuera, avisando>>
    BY <1>26 DEF GestorDispositivoOcupado, nAvisando, nDespacho, nRetorno
  <2>6. Sumas'
    BY <2>1, <2>2, <2>3, <2>4, <2>5, <1>n DEF Sumas
  <2>7. Rondas' /\ MiraNew' /\ AfueraAparte'
    BY <2>1, <2>2, <2>3, <2>4, <2>5, <1>n DEF Rondas, MiraNew, AfueraAparte
  <2>8. QED
    BY <2>6, <2>7
<1>27. CASE GestorRota
  <2>1. /\ hilo["gestor"] = "rotar" /\ hilo'["gestor"] = Ronda(cant - 1)
        /\ Salvo("gestor")
    BY <1>27, DePaso, Mismos DEF GestorRota, TypeOK, TiposHilos, Hilos
  <2>2. /\ GestorTomo = 0 /\ GestorTomo' = 0 /\ GestorTiene' = 0
        /\ GestorTiene = 0
    BY <2>1 DEF Ronda, GestorTomo, GestorTiene, Uno
  <2>3. MismosSem
    BY <1>27 DEF GestorRota, MismosSem, sEsperando, sLista, sCorto, sSignal, sDisp
  <2>4. MismasColas
    <3>1. /\ cola["io"] \in Seq(Procesos) /\ cola["io"] # <<>>
          /\ cola \in [Colas -> Seq(Procesos)]
      BY <1>27 DEF GestorRota, TypeOK, TiposDatos, Colas
    <3>2. /\ Head(cola["io"]) \in Procesos /\ Tail(cola["io"]) \in Seq(Procesos)
          /\ Len(Tail(cola["io"])) = Len(cola["io"]) - 1 /\ Len(cola["io"]) \in Nat
      BY <3>1, DeCabeza
    <3>3. Len(Append(Tail(cola["io"]), Head(cola["io"]))) = Len(cola["io"])
      BY <3>2, DeAppend
    <3>4. QED
      BY <1>27, <3>1, <3>3 DEF GestorRota, MismasColas, Encolados, eNew, eSus, eReady,
         eIo, Colas
  <2>5. /\ cant' = cant - 1
        /\ UNCHANGED <<inicio, nAvisando, nDespacho, nRetorno, afuera, avisando>>
    BY <1>27 DEF GestorRota, nAvisando, nDespacho, nRetorno
  <2>6. Sumas'
    BY <2>1, <2>2, <2>3, <2>4, <2>5, <1>n DEF Sumas
  <2>7. Rondas'
    BY <2>1, <2>3, <2>5, <1>n DEF Rondas, Ronda
  <2>8. MiraNew' /\ AfueraAparte'
    BY <2>1, <2>4, <2>5 DEF MiraNew, AfueraAparte
  <2>9. QED
    BY <2>6, <2>7, <2>8
<1>28. CASE GestorVence
  <2>1. hilo["gestor"] = "rotar" /\ hilo'["gestor"] = "suspender" /\ Salvo("gestor")
    BY <1>28, DePaso, Mismos DEF GestorVence, TypeOK, TiposHilos, Hilos
  <2>2. /\ GestorTomo = 0 /\ GestorTomo' = 0 /\ GestorTiene = 0
        /\ GestorTiene' = 1
    BY <2>1 DEF GestorTomo, GestorTiene, Uno
  <2>3. MismosSem
    BY <1>28, PostSuma DEF GestorVence, Semaforos, MismosSem
  <2>4. eIo' = eIo - 1 /\ UNCHANGED <<eNew, eSus, eReady>>
    BY <1>28, PopResta DEF GestorVence, Hilos, Colas
  <2>5. UNCHANGED <<cant, inicio, nAvisando, nDespacho, nRetorno, afuera, avisando>>
    BY <1>28 DEF GestorVence, nAvisando, nDespacho, nRetorno
  <2>6. Sumas'
    BY <2>1, <2>2, <2>3, <2>4, <2>5, <1>n DEF Sumas
  <2>7. Rondas' /\ MiraNew' /\ AfueraAparte'
    BY <2>1, <2>2, <2>3, <2>4, <2>5, <1>n DEF Rondas, MiraNew, AfueraAparte
  <2>8. QED
    BY <2>6, <2>7
<1>29. CASE GestorSuspende
  <2>1. /\ hilo["gestor"] = "suspender" /\ hilo'["gestor"] = Ronda(cant - 1)
        /\ Salvo("gestor")
    BY <1>29, DePaso, Mismos DEF GestorSuspende, TypeOK, TiposHilos, Hilos
  <2>2. /\ GestorTomo = 0 /\ GestorTomo' = 0 /\ GestorTiene' = 0
        /\ GestorTiene = 1
    BY <2>1 DEF Ronda, GestorTomo, GestorTiene, Uno
  <2>3. MismosSem
    BY <1>29 DEF GestorSuspende, MismosSem, sEsperando, sLista, sCorto, sSignal, sDisp
  <2>4. eIo' = eIo + 1 /\ UNCHANGED <<eNew, eSus, eReady>>
    BY <1>29, <2>1, PushSuma DEF GestorSuspende, TypeOK, ManosLlenas, Colas
  <2>5. /\ cant' = cant - 1
        /\ UNCHANGED <<inicio, nAvisando, nDespacho, nRetorno, afuera, avisando>>
    BY <1>29 DEF GestorSuspende, nAvisando, nDespacho, nRetorno
  <2>6. Sumas'
    BY <2>1, <2>2, <2>3, <2>4, <2>5, <1>n DEF Sumas
  <2>7. Rondas'
    BY <2>1, <2>3, <2>5, <1>n DEF Rondas, Ronda
  <2>8. MiraNew' /\ AfueraAparte'
    BY <2>1, <2>4, <2>5 DEF MiraNew, AfueraAparte
  <2>9. QED
    BY <2>6, <2>7, <2>8
<1>30. CASE GestorCae
  <2>1. Salvo("ninguno")
    BY <1>30, Mismos DEF GestorCae, Hilos
  <2>2. MismosSem /\ MismasColas
    BY <1>30 DEF GestorCae, MismosSem, MismasColas, Encolados, sEsperando, sLista,
       sCorto, sSignal, sDisp, eNew, eSus, eReady, eIo
  <2>3. UNCHANGED <<cant, inicio, nAvisando, nDespacho, nRetorno, afuera, avisando>>
    BY <1>30 DEF GestorCae, nAvisando, nDespacho, nRetorno
  <2>4. Sumas'
    BY <2>1, <2>2, <2>3, <1>n DEF Sumas
  <2>5. Rondas' /\ MiraNew' /\ AfueraAparte'
    BY <2>1, <2>2, <2>3, <1>n DEF Rondas, MiraNew, AfueraAparte
  <2>6. QED
    BY <2>4, <2>5
<1>31. CASE DispLee
  <2>1. /\ hilo["disp"] = "leer" /\ Salvo("disp")
        /\ hilo'["disp"] \in {"io_normal", "io_suspender", "sus_ready"}
    BY <1>31, DePaso, Mismos DEF DispLee, TypeOK, TiposHilos, Hilos
  <2>2. /\ DispActivo = 1 /\ DispActivo' = 1 /\ DispDebeLista = 0
        /\ DispDebeLista' = 0 /\ DispDebeSus = 0 /\ DispDebeSus' = 0
    BY <2>1 DEF DispActivo, DispDebeLista, DispDebeSus, Uno
  <2>3. MismosSem /\ MismasColas
    BY <1>31 DEF DispLee, MismosSem, MismasColas, Encolados, sEsperando, sLista,
       sCorto, sSignal, sDisp, eNew, eSus, eReady, eIo
  <2>4. UNCHANGED <<cant, inicio, nAvisando, nDespacho, nRetorno, afuera, avisando>>
    BY <1>31 DEF DispLee, nAvisando, nDespacho, nRetorno
  <2>5. Sumas'
    BY <2>1, <2>2, <2>3, <2>4, <1>n DEF Sumas
  <2>6. Rondas' /\ MiraNew' /\ AfueraAparte'
    BY <2>1, <2>3, <2>4, <1>n DEF Rondas, MiraNew, AfueraAparte
  <2>7. QED
    BY <2>5, <2>6
<1>32. CASE DispCae
  <2>1. Salvo("ninguno")
    BY <1>32, Mismos DEF DispCae, Hilos
  <2>2. MismosSem /\ MismasColas
    BY <1>32 DEF DispCae, MismosSem, MismasColas, Encolados, sEsperando, sLista,
       sCorto, sSignal, sDisp, eNew, eSus, eReady, eIo
  <2>3. UNCHANGED <<cant, inicio, nAvisando, nDespacho, nRetorno, afuera, avisando>>
    BY <1>32 DEF DispCae, nAvisando, nDespacho, nRetorno
  <2>4. Sumas'
    BY <2>1, <2>2, <2>3, <1>n DEF Sumas
  <2>5. Rondas' /\ MiraNew' /\ AfueraAparte'
    BY <2>1, <2>2, <2>3, <1>n DEF Rondas, MiraNew, AfueraAparte
  <2>6. QED
    BY <2>4, <2>5
<1>33. CASE DispIoNormal
  <2>1. hilo["disp"] = "io_normal" /\ hilo'["disp"] = "soltar_ready" /\ Salvo("disp")
    BY <1>33, DePaso, Mismos DEF DispIoNormal, TypeOK, TiposHilos, Hilos
  <2>2. /\ DispActivo = 1 /\ DispActivo' = 1 /\ DispDebeLista = 0
        /\ DispDebeLista' = 1 /\ DispDebeSus = 0 /\ DispDebeSus' = 0
    BY <2>1 DEF DispActivo, DispDebeLista, DispDebeSus, Uno
  <2>3. MismosSem
    BY <1>33 DEF DispIoNormal, MismosSem, sEsperando, sLista, sCorto, sSignal, sDisp
  <2>4. eReady' = eReady + 1 /\ UNCHANGED <<eNew, eSus, eIo>>
    BY <1>33, PushSuma, <2>1 DEF DispIoNormal, TypeOK, ManosLlenas, Colas
  <2>5. UNCHANGED <<cant, inicio, nAvisando, nDespacho, nRetorno, afuera, avisando>>
    BY <1>33 DEF DispIoNormal, nAvisando, nDespacho, nRetorno
  <2>6. Sumas'
    BY <2>1, <2>2, <2>3, <2>4, <2>5, <1>n DEF Sumas
  <2>7. Rondas' /\ MiraNew' /\ AfueraAparte'
    BY <2>1, <2>2, <2>3, <2>4, <2>5, <1>n DEF Rondas, MiraNew, AfueraAparte
  <2>8. QED
    BY <2>6, <2>7
<1>34. CASE DispSuspende
  <2>1. hilo["disp"] = "io_suspender" /\ hilo'["disp"] = "io_subir" /\ Salvo("disp")
    BY <1>34, DePaso, Mismos DEF DispSuspende, SuspenderEnMemoria, TypeOK,
       TiposHilos, Hilos
  <2>2. /\ DispActivo = 1 /\ DispActivo' = 1 /\ DispDebeLista = 0
        /\ DispDebeLista' = 0 /\ DispDebeSus = 0 /\ DispDebeSus' = 0
    BY <2>1 DEF DispActivo, DispDebeLista, DispDebeSus, Uno
  <2>3. MismosSem
    BY <1>34 DEF DispSuspende, SuspenderEnMemoria, MismosSem, sEsperando, sLista,
       sCorto, sSignal, sDisp
  <2>4. MismasColas
    BY <1>34 DEF DispSuspende, SuspenderEnMemoria, MismasColas, Encolados, eNew,
       eSus, eReady, eIo
  <2>5. UNCHANGED <<cant, inicio, nAvisando, nDespacho, nRetorno, afuera, avisando>>
    BY <1>34 DEF DispSuspende, SuspenderEnMemoria, nAvisando, nDespacho, nRetorno
  <2>6. Sumas'
    BY <2>1, <2>2, <2>3, <2>4, <2>5, <1>n DEF Sumas
  <2>7. Rondas' /\ MiraNew' /\ AfueraAparte'
    BY <2>1, <2>2, <2>3, <2>4, <2>5, <1>n DEF Rondas, MiraNew, AfueraAparte
  <2>8. QED
    BY <2>6, <2>7
<1>35. CASE DispSube
  <2>1. hilo["disp"] = "io_subir" /\ hilo'["disp"] = "sus_ready" /\ Salvo("disp")
    BY <1>35, DePaso, Mismos DEF DispSube, TypeOK, TiposHilos, Hilos
  <2>2. /\ DispActivo = 1 /\ DispActivo' = 1 /\ DispDebeLista = 0
        /\ DispDebeLista' = 0 /\ DispDebeSus = 0 /\ DispDebeSus' = 0
    BY <2>1 DEF DispActivo, DispDebeLista, DispDebeSus, Uno
  <2>3. MismosSem
    BY <1>35, PostSuma DEF DispSube, Semaforos, MismosSem
  <2>4. MismasColas
    BY <1>35 DEF DispSube, MismasColas, Encolados, eNew, eSus, eReady, eIo
  <2>5. UNCHANGED <<cant, inicio, nAvisando, nDespacho, nRetorno, afuera, avisando>>
    BY <1>35 DEF DispSube, nAvisando, nDespacho, nRetorno
  <2>6. Sumas'
    BY <2>1, <2>2, <2>3, <2>4, <2>5, <1>n DEF Sumas
  <2>7. Rondas' /\ MiraNew' /\ AfueraAparte'
    BY <2>1, <2>2, <2>3, <2>4, <2>5, <1>n DEF Rondas, MiraNew, AfueraAparte
  <2>8. QED
    BY <2>6, <2>7
<1>36. CASE DispASusReady
  <2>1. hilo["disp"] = "sus_ready" /\ hilo'["disp"] = "soltar_sus" /\ Salvo("disp")
    BY <1>36, DePaso, Mismos DEF DispASusReady, TypeOK, TiposHilos, Hilos
  <2>2. /\ DispActivo = 1 /\ DispActivo' = 1 /\ DispDebeLista = 0
        /\ DispDebeLista' = 0 /\ DispDebeSus = 0 /\ DispDebeSus' = 1
    BY <2>1 DEF DispActivo, DispDebeLista, DispDebeSus, Uno
  <2>3. MismosSem
    BY <1>36 DEF DispASusReady, MismosSem, sEsperando, sLista, sCorto, sSignal,
       sDisp
  <2>4. eSus' = eSus + 1 /\ UNCHANGED <<eNew, eReady, eIo>>
    BY <1>36, PushSuma, <2>1 DEF DispASusReady, TypeOK, ManosLlenas, Colas
  <2>5. UNCHANGED <<cant, inicio, nAvisando, nDespacho, nRetorno, afuera, avisando>>
    BY <1>36 DEF DispASusReady, nAvisando, nDespacho, nRetorno
  <2>6. Sumas'
    BY <2>1, <2>2, <2>3, <2>4, <2>5, <1>n DEF Sumas
  <2>7. Rondas' /\ MiraNew' /\ AfueraAparte'
    BY <2>1, <2>2, <2>3, <2>4, <2>5, <1>n DEF Rondas, MiraNew, AfueraAparte
  <2>8. QED
    BY <2>6, <2>7
<1>37. CASE DispAvisa
  <2>1. hilo'["disp"] = "soltar" /\ Salvo("disp")
    BY <1>37, DePaso, Mismos DEF DispAvisa, TypeOK, TiposHilos, Hilos
  <2>2. DispActivo' = 1 /\ DispDebeLista' = 0 /\ DispDebeSus' = 0
    BY <2>1 DEF DispActivo, DispDebeLista, DispDebeSus, Uno
  <2>3. MismasColas
    BY <1>37 DEF DispAvisa, MismasColas, Encolados, eNew, eSus, eReady, eIo
  <2>4. UNCHANGED <<cant, inicio, nAvisando, nDespacho, nRetorno, afuera, avisando>>
    BY <1>37 DEF DispAvisa, nAvisando, nDespacho, nRetorno
  <2>5. CASE hilo["disp"] = "soltar_ready"
    <3>1. SemPost({"lista"})
      BY <1>37, <2>5 DEF DispAvisa, Paso, En
    <3>2. /\ sLista' = sLista + 1
          /\ UNCHANGED <<sEsperando, sCorto, sSignal, sDisp>>
      BY <3>1, PostSuma
    <3>3. DispActivo = 1 /\ DispDebeLista = 1 /\ DispDebeSus = 0
      BY <2>5 DEF DispActivo, DispDebeLista, DispDebeSus, Uno
    <3>4. Sumas'
      BY <2>1, <2>2, <2>3, <2>4, <3>2, <3>3, <1>n DEF Sumas
    <3>5. Rondas' /\ MiraNew' /\ AfueraAparte'
      BY <2>1, <2>3, <2>4, <3>2, <1>n DEF Rondas, MiraNew, AfueraAparte
    <3>6. QED
      BY <3>4, <3>5
  <2>6. CASE hilo["disp"] = "soltar_sus"
    <3>1. SemPost({"esperando"})
      BY <1>37, <2>6 DEF DispAvisa, Paso, En
    <3>2. /\ sEsperando' = sEsperando + 1
          /\ UNCHANGED <<sLista, sCorto, sSignal, sDisp>>
      BY <3>1, PostSuma
    <3>3. DispActivo = 1 /\ DispDebeLista = 0 /\ DispDebeSus = 1
      BY <2>6 DEF DispActivo, DispDebeLista, DispDebeSus, Uno
    <3>4. Sumas'
      BY <2>1, <2>2, <2>3, <2>4, <3>2, <3>3, <1>n DEF Sumas
    <3>5. Rondas' /\ MiraNew' /\ AfueraAparte'
      BY <2>1, <2>3, <2>4, <3>2, <1>n DEF Rondas, MiraNew, AfueraAparte
    <3>6. QED
      BY <3>4, <3>5
  <2>7. hilo["disp"] = "soltar_ready" \/ hilo["disp"] = "soltar_sus"
    BY <1>37 DEF DispAvisa, Paso, En
  <2>8. QED
    BY <2>5, <2>6, <2>7
<1>38. CASE DispSuelta
  <2>1. hilo["disp"] = "soltar" /\ hilo'["disp"] = "libre" /\ Salvo("disp")
    BY <1>38, DePaso, Mismos DEF DispSuelta, TypeOK, TiposHilos, Hilos
  <2>2. /\ DispActivo = 1 /\ DispActivo' = 0 /\ DispDebeLista = 0
        /\ DispDebeLista' = 0 /\ DispDebeSus = 0 /\ DispDebeSus' = 0
    BY <2>1 DEF DispActivo, DispDebeLista, DispDebeSus, Uno
  <2>3. sDisp' = sDisp + 1 /\ UNCHANGED <<sEsperando, sLista, sCorto, sSignal>>
    BY <1>38, PostSuma DEF DispSuelta
  <2>4. MismasColas
    BY <1>38 DEF DispSuelta, MismasColas, Encolados, eNew, eSus, eReady, eIo
  <2>5. UNCHANGED <<cant, inicio, nAvisando, nDespacho, nRetorno, afuera, avisando>>
    BY <1>38 DEF DispSuelta, nAvisando, nDespacho, nRetorno
  <2>6. Sumas'
    BY <2>1, <2>2, <2>3, <2>4, <2>5, <1>n DEF Sumas
  <2>7. Rondas' /\ MiraNew' /\ AfueraAparte'
    BY <2>1, <2>3, <2>4, <2>5, <1>n DEF Rondas, MiraNew, AfueraAparte
  <2>8. QED
    BY <2>6, <2>7
<1>39. CASE UNCHANGED vars
  <2>1. Salvo("ninguno")
    BY <1>39, Mismos DEF vars, Hilos
  <2>2. MismosSem /\ MismasColas
    BY <1>39 DEF vars, MismosSem, MismasColas, Encolados, sEsperando, sLista, sCorto,
       sSignal, sDisp, eNew, eSus, eReady, eIo
  <2>3. UNCHANGED <<cant, inicio, nAvisando, nDespacho, nRetorno, afuera, avisando>>
    BY <1>39 DEF vars, nAvisando, nDespacho, nRetorno
  <2>4. Sumas'
    BY <2>1, <2>2, <2>3, <1>n DEF Sumas
  <2>5. Rondas' /\ MiraNew' /\ AfueraAparte'
    BY <2>1, <2>2, <2>3, <1>n DEF Rondas, MiraNew, AfueraAparte
  <2>6. QED
    BY <2>4, <2>5
<1>40. QED
  BY <1>1, <1>2, <1>3, <1>4, <1>5, <1>6, <1>7, <1>8, <1>9, <1>10,
     <1>11, <1>12, <1>13, <1>14, <1>15, <1>16, <1>17, <1>18, <1>19, <1>20,
     <1>21, <1>22, <1>23, <1>24, <1>25, <1>26, <1>27, <1>28, <1>29, <1>30,
     <1>31, <1>32, <1>33, <1>34, <1>35, <1>36, <1>37, <1>38, <1>39 DEF Next,
        Llegada, Largo, Corto, Cpu, Recibe, Gestor, Disp

\* The counts of Kernel are kept, in their own form.
LEMMA CuentasSeConservan == Inductiva /\ [Next]_vars => Cuentas'
<1> SUFFICES ASSUME TypeOK, Cuentas, [Next]_vars PROVE Cuentas'
  BY DEF Inductiva
<1>1. Sumas /\ Rondas /\ MiraNew /\ AfueraAparte
  BY MismasCuentas
<1>2. Sumas' /\ Rondas' /\ MiraNew' /\ AfueraAparte'
  BY <1>1, SumasSeConservan
<1>3. TypeOK'
  BY TiposSeConservan
<1>4. TypeOK' => (Cuentas' <=> Sumas' /\ Rondas' /\ MiraNew' /\ AfueraAparte')
  BY MismasCuentas, PTL
<1>5. QED
  BY <1>2, <1>3, <1>4

\* Initially the only token is inicio, and nothing is queued.
LEMMA CuentasIniciales == Init => Cuentas
<1> SUFFICES ASSUME Init PROVE Cuentas
  OBVIOUS
<1>1. nAvisando = 0
  BY FS_EmptySet DEF Init, nAvisando
<1>2. /\ hilo["largo"] = "wait_lista" /\ hilo["corto"] = "wait_corto"
      /\ hilo["recibe"] = "recv" /\ hilo["gestor"] = "wait_signal"
      /\ hilo["disp"] = "libre" /\ hilo["cpu"] = "libre"
  BY DEF Init, Hilos
<1>3. /\ CortoActivo = 0 /\ CpuActiva = 0 /\ RecibeActivo = 0 /\ DispActivo = 0
      /\ CortoSaca = 0 /\ LargoDebeLista = 0 /\ DispDebeLista = 0 /\ LargoTomo = 0
      /\ DispDebeSus = 0 /\ GestorTomo = 0 /\ RecibeDebe = 0 /\ GestorTiene = 0
  BY <1>2 DEF Uno, CortoActivo, CpuActiva, RecibeActivo, DispActivo, CortoSaca,
     LargoDebeLista, DispDebeLista, LargoTomo, DispDebeSus, GestorTomo, RecibeDebe,
     GestorTiene
<1>4. sEsperando = 0 /\ sLista = 0 /\ sCorto = 0 /\ sSignal = 0 /\ sDisp = 1
  BY DEF Init, Semaforos, sEsperando, sLista, sCorto, sSignal, sDisp
<1>5. /\ eNew = 0 /\ eSus = 0 /\ eReady = 0 /\ eIo = 0 /\ nDespacho = 0 /\ nRetorno = 0
  BY DEF Init, Colas, Encolados, eNew, eSus, eReady, eIo, nDespacho, nRetorno
<1>6. inicio = 1 /\ AfueraAparte
  BY DEF Init, AfueraAparte
<1>7. Sumas
  BY <1>1, <1>3, <1>4, <1>5, <1>6 DEF Sumas
<1>8. Rondas /\ MiraNew
  BY <1>2 DEF Rondas, MiraNew
<1>9. QED
  BY <1>6, <1>7, <1>8, TiposIniciales, MismasCuentas

----------------------------------------------------------------------------
\* The variables of Kernel keep their types: no thread of planificador.c ever
\* works on a PCB pointer it has not received.
THEOREM TiposCorrectos == Spec => []TypeOK
<1>1. Init => TypeOK
  BY TiposIniciales
<1>2. TypeOK /\ [Next]_vars => TypeOK'
  BY TiposSeConservan
<1>3. QED
  BY <1>1, <1>2, PTL DEF Spec

\* The tokens and counts of the threads of planificador.c are an invariant: it
\* is inductive as it stands.
THEOREM CuentasInvariantes == Spec => []Inductiva
<1>1. Init => Inductiva
  BY TiposIniciales, CuentasIniciales DEF Inductiva
<1>2. Inductiva /\ [Next]_vars => Inductiva'
  BY TiposSeConservan, CuentasSeConservan DEF Inductiva
<1>3. QED
  BY <1>1, <1>2, PTL DEF Spec

\* Under FIFO the short-term scheduler never sends a second process to the CPU
\* before the first has come back, for any number of consoles and any degree.
THEOREM NuncaDosEnCpu == Spec => []UnSoloPcbEnCpu
<1>1. Inductiva => UnSoloPcbEnCpu
  <2> SUFFICES ASSUME TypeOK, Cuentas PROVE UnSoloPcbEnCpu
    BY DEF Inductiva
  <2>1. nDespacho + CpuActiva + nRetorno <= 1 /\ sCorto <= 1
    BY Numeros, MismasCuentas DEF Sumas, Contadores, Pesos
  <2>2. QED
    BY <2>1 DEF UnSoloPcbEnCpu, nDespacho, nRetorno, sCorto
<1>2. QED
  BY <1>1, CuentasInvariantes, PTL

\* The counts leave an element in the queue of every thread about to pop one.
LEMMA HayQueSacar == Inductiva => ColasNuncaVacias
<1> SUFFICES ASSUME TypeOK, Cuentas PROVE ColasNuncaVacias
  BY DEF Inductiva
<1>1. Contadores /\ Pesos /\ Sumas /\ Rondas /\ MiraNew
  BY Numeros, MismasCuentas
<1>2. hilo["corto"] = "elegir" => eReady > 0
  <2>1. hilo["corto"] = "elegir" => CortoSaca = 1
    BY DEF CortoSaca, Uno
  <2>2. CortoSaca = 1 => eReady > 0
    BY <1>1 DEF Contadores, Pesos, Sumas
  <2>3. QED
    BY <2>1, <2>2
<1>3. hilo["gestor"] = "tomar" => eIo > 0
  <2>1. hilo["gestor"] = "tomar" => GestorTomo = 1 /\ GestorTiene = 0
    BY DEF GestorTomo, GestorTiene, Uno
  <2>2. GestorTomo = 1 /\ GestorTiene = 0 => eIo > 0
    BY <1>1 DEF Contadores, Pesos, Sumas
  <2>3. QED
    BY <2>1, <2>2
<1>4. hilo["gestor"] = "rotar" => eIo > 0
  <2>1. hilo["gestor"] = "rotar" => GestorTiene = 0 /\ sSignal >= 1
    BY <1>1 DEF Contadores, Rondas, GestorTiene, Uno
  <2>2. GestorTiene = 0 /\ sSignal >= 1 => eIo > 0
    BY <1>1 DEF Contadores, Pesos, Sumas
  <2>3. QED
    BY <2>1, <2>2
<1>5. hilo["largo"] = "mirar_new" => eNew > 0
  BY <1>1 DEF MiraNew
<1>6. /\ eNew > 0 => cola["new"] # <<>>
      /\ eReady > 0 => cola["ready"] # <<>>
      /\ eIo > 0 => cola["io"] # <<>>
  BY DEF Encolados, eNew, eReady, eIo
<1>7. QED
  BY <1>2, <1>3, <1>4, <1>5, <1>6 DEF ColasNuncaVacias

\* No queue_pop of the kernel threads meets an empty queue.
THEOREM NuncaSacanDeVacia == Spec => []ColasNuncaVacias
BY HayQueSacar, CuentasInvariantes, PTL

----------------------------------------------------------------------------
(* Places of a process.                                                    *)

\* How many times p is in a queue, in a connection, in the hands of a thread,
\* outside the kernel and at the end.
De(p) == {m \in Mensajes : m.p = p}
vCola(c, p)  == Cuantos(cola[c], {p})
vDespacho(p) == Cuantos(despacho, {p})
vRetorno(p)  == Cuantos(retorno, De(p))
vMano(h, p)  == Uno(suyo[h] = p /\ hilo[h] \notin {"marcar", "avisar_io"})
vAfuera(p)   == Uno(p \in afuera)
vFin(p)      == Uno(memoria[p] = "eliminado" /\ suyo["recibe"] # p)

Veces(p) ==
  vCola("new", p) + vCola("susReady", p) + vCola("ready", p) + vCola("io", p)
    + vDespacho(p) + vRetorno(p)
    + vMano("largo", p) + vMano("recibe", p) + vMano("gestor", p) + vMano("disp", p)
    + vMano("cpu", p) + vAfuera(p) + vFin(p)

Terminos(p) ==
  /\ vCola("new", p) \in Nat /\ vCola("susReady", p) \in Nat
  /\ vCola("ready", p) \in Nat /\ vCola("io", p) \in Nat
  /\ vDespacho(p) \in Nat /\ vRetorno(p) \in Nat
  /\ vMano("largo", p) \in {0, 1} /\ vMano("recibe", p) \in {0, 1}
  /\ vMano("gestor", p) \in {0, 1} /\ vMano("disp", p) \in {0, 1}
  /\ vMano("cpu", p) \in {0, 1} /\ vAfuera(p) \in {0, 1} /\ vFin(p) \in {0, 1}

\* Uno is a bit.
LEMMA UnoEsBit ==
  ASSUME NEW b
  PROVE  Uno(b) \in {0, 1} /\ (Uno(b) = 1 <=> b) /\ (Uno(b) = 0 <=> ~b)
BY DEF Uno

\* The terms of the count are naturals, now and after a step.
LEMMA TerminosNat ==
  ASSUME TypeOK, NEW p \in Procesos
  PROVE  Terminos(p)
<1>1. /\ cola \in [Colas -> Seq(Procesos)]
      /\ despacho \in Seq(Procesos) /\ retorno \in Seq(Mensajes)
  BY DEF TypeOK, TiposDatos
<1>2. \A c \in Colas : vCola(c, p) \in Nat
  BY <1>1, CuantosTipo DEF vCola
<1>3. vDespacho(p) \in Nat /\ vRetorno(p) \in Nat
  BY <1>1, CuantosTipo DEF vDespacho, vRetorno
<1>4. (\A h : vMano(h, p) \in {0, 1}) /\ vAfuera(p) \in {0, 1} /\ vFin(p) \in {0, 1}
  BY DEF vMano, vAfuera, vFin, Uno
<1>5. QED
  BY <1>2, <1>3, <1>4 DEF Terminos, Colas

\* The terms of the sum that counts a process are numbers after a step too.
LEMMA TerminosNatDespues ==
  ASSUME TypeOK', NEW p \in Procesos
  PROVE  Terminos(p)'
<1>1. /\ cola' \in [Colas -> Seq(Procesos)]
      /\ despacho' \in Seq(Procesos) /\ retorno' \in Seq(Mensajes)
  BY DEF TypeOK, TiposDatos
<1>2. \A c \in Colas : vCola(c, p)' \in Nat
  BY <1>1, CuantosTipo DEF vCola
<1>3. vDespacho(p)' \in Nat /\ vRetorno(p)' \in Nat
  BY <1>1, CuantosTipo DEF vDespacho, vRetorno
<1>4. (\A h : vMano(h, p)' \in {0, 1}) /\ vAfuera(p)' \in {0, 1} /\ vFin(p)' \in {0, 1}
  BY DEF vMano, vAfuera, vFin, Uno
<1>5. QED
  BY <1>2, <1>3, <1>4 DEF Terminos, Colas

\* queue_push and queue_pop, in places.
LEMMA PushMueve ==
  ASSUME TypeOK, NEW c \in Colas, NEW q \in Procesos, Push(c, q), NEW p
  PROVE  \A d \in Colas : vCola(d, p)' = vCola(d, p) + (IF d = c THEN Uno(q = p) ELSE 0)
<1>1. cola \in [Colas -> Seq(Procesos)]
  BY DEF TypeOK, TiposDatos
<1>2. ASSUME NEW d \in Colas
      PROVE  vCola(d, p)' = vCola(d, p) + (IF d = c THEN Uno(q = p) ELSE 0)
  <2>1. cola[d] \in Seq(Procesos) /\ vCola(d, p) \in Nat
    BY <1>1, CuantosTipo DEF vCola
  <2>2. CASE d = c
    <3>1. cola'[d] = Append(cola[d], q)
      BY <1>1, <2>2 DEF Push
    <3>2. QED
      BY <2>1, <2>2, <3>1, CuantosAppend DEF vCola, Uno
  <2>3. CASE d # c
    <3>1. cola'[d] = cola[d]
      BY <1>1, <2>3 DEF Push
    <3>2. QED
      BY <2>1, <2>3, <3>1 DEF vCola
  <2>4. QED
    BY <2>2, <2>3
<1>3. QED
  BY <1>2

\* The head of a queue or a connection, taken out.
LEMMA SacaCabeza ==
  ASSUME NEW S, NEW s \in Seq(S), s # <<>>, NEW X
  PROVE  /\ Head(s) \in S /\ Tail(s) \in Seq(S)
         /\ Cuantos(Tail(s), X) = Cuantos(s, X) - (IF Head(s) \in X THEN 1 ELSE 0)
<1>1. Head(s) \in S /\ Tail(s) \in Seq(S)
  OBVIOUS
<1>2. Cuantos(s, X) \in Nat /\ Cuantos(Tail(s), X) \in Nat
  BY <1>1, CuantosTipo
<1>3. Cuantos(s, X) = Cuantos(Tail(s), X) + (IF Head(s) \in X THEN 1 ELSE 0)
  BY CuantosTail
<1>4. QED
  BY <1>1, <1>2, <1>3

\* A pop takes the first PCB of its queue to the thread's variable, and touches no other.
LEMMA PopMueve ==
  ASSUME TypeOK, NEW c \in Colas, NEW h \in Hilos, Pop(c, h), NEW p
  PROVE  /\ Head(cola[c]) \in Procesos /\ suyo'[h] = Head(cola[c])
         /\ \A g \in Hilos : g # h => suyo'[g] = suyo[g]
         /\ \A d \in Colas :
              vCola(d, p)' = vCola(d, p) - (IF d = c THEN Uno(Head(cola[c]) = p) ELSE 0)
<1>1. cola \in [Colas -> Seq(Procesos)] /\ suyo \in [Hilos -> Procesos \union {Nadie}]
  BY DEF TypeOK, TiposDatos
<1>2. cola[c] \in Seq(Procesos) /\ cola[c] # <<>> /\ Head(cola[c]) \in Procesos
  BY <1>1 DEF Pop
<1>3. suyo'[h] = Head(cola[c]) /\ \A g \in Hilos : g # h => suyo'[g] = suyo[g]
  BY <1>1 DEF Pop, Guarda
<1>4. ASSUME NEW d \in Colas
      PROVE  vCola(d, p)' = vCola(d, p) - (IF d = c THEN Uno(Head(cola[c]) = p) ELSE 0)
  <2>1. cola[d] \in Seq(Procesos) /\ vCola(d, p) \in Nat
    BY <1>1, CuantosTipo DEF vCola
  <2>2. CASE d = c
    <3>1. cola'[d] = Tail(cola[d])
      BY <1>1, <2>2 DEF Pop
    <3>2. QED
      BY <1>2, <2>1, <2>2, <3>1, SacaCabeza DEF vCola, Uno
  <2>3. CASE d # c
    <3>1. cola'[d] = cola[d]
      BY <1>1, <2>3 DEF Pop
    <3>2. QED
      BY <2>1, <2>3, <3>1 DEF vCola
  <2>4. QED
    BY <2>2, <2>3
<1>5. QED
  BY <1>2, <1>3, <1>4

\* What a step that leaves a variable alone leaves of the count.
LEMMA Quedan ==
  ASSUME NEW p
  PROVE  /\ UNCHANGED cola => \A c \in Colas : vCola(c, p)' = vCola(c, p)
         /\ UNCHANGED despacho => vDespacho(p)' = vDespacho(p)
         /\ UNCHANGED retorno => vRetorno(p)' = vRetorno(p)
         /\ UNCHANGED afuera => vAfuera(p)' = vAfuera(p)
         /\ UNCHANGED memoria /\ suyo'["recibe"] = suyo["recibe"] => vFin(p)' = vFin(p)
         /\ \A h \in Hilos : hilo'[h] = hilo[h] /\ suyo'[h] = suyo[h] => vMano(h, p)' = vMano(h, p)
<1>1. UNCHANGED cola => \A c \in Colas : vCola(c, p)' = vCola(c, p)
  BY DEF vCola
<1>2. UNCHANGED despacho => vDespacho(p)' = vDespacho(p)
  BY DEF vDespacho
<1>3. UNCHANGED retorno => vRetorno(p)' = vRetorno(p)
  BY DEF vRetorno
<1>4. UNCHANGED afuera => vAfuera(p)' = vAfuera(p)
  BY DEF vAfuera
<1>5. UNCHANGED memoria /\ suyo'["recibe"] = suyo["recibe"] => vFin(p)' = vFin(p)
  BY DEF vFin
<1>6. \A h \in Hilos : hilo'[h] = hilo[h] /\ suyo'[h] = suyo[h] => vMano(h, p)' = vMano(h, p)
  BY DEF vMano
<1>7. QED
  BY <1>1, <1>2, <1>3, <1>4, <1>5, <1>6

----------------------------------------------------------------------------
\* The steps that leave every PCB where it is.
Quietos ==
  \/ \E p \in Procesos : AvisarLlegada(p)
  \/ LargoEsperaLista \/ LargoEsperaMulti \/ LargoAvisaSus \/ LargoAvisaNew
  \/ CortoEspera \/ CortoEsperaLista
  \/ RecibeMarca
  \/ GestorEspera \/ GestorCuenta \/ GestorDispositivoOcupado \/ GestorCae
  \/ DispLee \/ DispCae \/ DispSube \/ DispAvisa \/ DispSuelta

\* What is the same after them.
QuietosDejan ==
  /\ UNCHANGED <<cola, suyo, despacho, retorno, afuera, memoria>>
  /\ hilo'["recibe"] = hilo["recibe"]
       \/ (hilo["recibe"] = "marcar" /\ hilo'["recibe"] = "avisar_io")

\* Nothing that is counted changes in the quiet steps.
LEMMA SonQuietos ==
  ASSUME TypeOK, Quietos
  PROVE  QuietosDejan
<1>1. hilo \in [Hilos -> Pcs]
  BY DEF TypeOK, TiposHilos
<1> USE DEF QuietosDejan, sinCpu, sinMemoria, sinLlegada, Hilos
<1>2. CASE \E p \in Procesos : AvisarLlegada(p)
  BY <1>2 DEF AvisarLlegada
<1>3. CASE LargoEsperaLista
  BY <1>1, <1>3, DePaso DEF LargoEsperaLista
<1>4. CASE LargoEsperaMulti
  BY <1>1, <1>4, DePaso DEF LargoEsperaMulti
<1>5. CASE LargoAvisaSus
  BY <1>1, <1>5, DePaso DEF LargoAvisaSus
<1>6. CASE LargoAvisaNew
  BY <1>1, <1>6, DePaso DEF LargoAvisaNew
<1>7. CASE CortoEspera
  BY <1>1, <1>7, DePaso DEF CortoEspera
<1>8. CASE CortoEsperaLista
  BY <1>1, <1>8, DePaso DEF CortoEsperaLista
<1>9. CASE RecibeMarca
  BY <1>1, <1>9, DePaso DEF RecibeMarca
<1>10. CASE GestorEspera
  BY <1>1, <1>10, DePaso DEF GestorEspera
<1>11. CASE GestorCuenta
  BY <1>1, <1>11, DePaso DEF GestorCuenta
<1>12. CASE GestorDispositivoOcupado
  BY <1>1, <1>12, DePaso DEF GestorDispositivoOcupado
<1>13. CASE GestorCae
  BY <1>1, <1>13, DePaso DEF GestorCae
<1>14. CASE DispLee
  BY <1>1, <1>14, DePaso DEF DispLee
<1>15. CASE DispCae
  BY <1>1, <1>15, DePaso DEF DispCae
<1>16. CASE DispSube
  BY <1>1, <1>16, DePaso DEF DispSube
<1>17. CASE DispAvisa
  BY <1>1, <1>17, DePaso DEF DispAvisa
<1>18. CASE DispSuelta
  BY <1>1, <1>18, DePaso DEF DispSuelta
<1>19. QED
  BY <1>2, <1>3, <1>4, <1>5, <1>6, <1>7, <1>8, <1>9, <1>10, <1>11, <1>12, <1>13, <1>14, <1>15, <1>16, <1>17, <1>18 DEF Quietos

\* A program counter that only recibir_pcb_de_cpu has.
LEMMA ManoSinVentana ==
  ASSUME TypeOK, NEW h \in {"largo", "gestor", "disp", "cpu"}, NEW p
  PROVE  vMano(h, p) = Uno(suyo[h] = p)
<1>1. hilo[h] \notin {"marcar", "avisar_io"}
  BY DEF TypeOK, TiposHilos, PcLargo, PcGestor, PcDisp, PcCpu
<1>2. QED
  BY <1>1 DEF vMano, Uno

\* The same after a step.
LEMMA ManoSinVentanaDespues ==
  ASSUME TypeOK', NEW h \in {"largo", "gestor", "disp", "cpu"}, NEW p
  PROVE  vMano(h, p)' = Uno(suyo'[h] = p)
<1>1. hilo'[h] \notin {"marcar", "avisar_io"}
  BY DEF TypeOK, TiposHilos, PcLargo, PcGestor, PcDisp, PcCpu
<1>2. QED
  BY <1>1 DEF vMano, Uno

\* They do not change the count of any process.
LEMMA QuietosCuentan ==
  ASSUME TypeOK, TypeOK', Quietos, NEW p
  PROVE  Veces(p)' = Veces(p)
<1>1. QuietosDejan
  BY SonQuietos
<1>2. \A h \in {"largo", "gestor", "disp", "cpu"} : vMano(h, p)' = vMano(h, p)
  BY <1>1, ManoSinVentana, ManoSinVentanaDespues DEF QuietosDejan
<1>3. vMano("recibe", p)' = vMano("recibe", p)
  BY <1>1 DEF QuietosDejan, vMano, Uno
<1>4. /\ \A c \in Colas : vCola(c, p)' = vCola(c, p)
      /\ vDespacho(p)' = vDespacho(p) /\ vRetorno(p)' = vRetorno(p)
      /\ vAfuera(p)' = vAfuera(p) /\ vFin(p)' = vFin(p)
  BY <1>1, Quedan DEF QuietosDejan
<1>5. QED
  BY <1>2, <1>3, <1>4 DEF Veces, Colas

----------------------------------------------------------------------------
\* The threads that a step of thread h does not touch.
Ajenos(h) == \A g \in Hilos : g # h => hilo'[g] = hilo[g] /\ suyo'[g] = suyo[g]

\* Their hands, and those of a thread that takes a PCB, gives it away or keeps it.
LEMMA ManosAjenas ==
  ASSUME NEW h, Ajenos(h), NEW p
  PROVE  /\ \A g \in Hilos : g # h => vMano(g, p)' = vMano(g, p)
         /\ h # "recibe" => suyo'["recibe"] = suyo["recibe"] /\ hilo'["recibe"] = hilo["recibe"]
BY Quedan DEF Ajenos, Hilos

\* The process in the hands of a thread other than recibir_pcb_de_cpu has not
\* ended, so what that thread tells memory about it does not change its end.
LEMMA FinIgual ==
  ASSUME TypeOK, NEW p \in Procesos, Veces(p) = 1,
         NEW h \in {"largo", "gestor", "disp"}, NEW e, e # "eliminado",
         memoria' = [memoria EXCEPT ![suyo[h]] = e], suyo'["recibe"] = suyo["recibe"]
  PROVE  vFin(p)' = vFin(p)
<1>1. memoria \in [Procesos -> Memorias]
  BY DEF TypeOK, TiposDatos
<1>2. CASE suyo[h] # p
  <2>1. memoria'[p] = memoria[p]
    BY <1>1, <1>2
  <2>2. QED
    BY <2>1 DEF vFin
<1>3. CASE suyo[h] = p
  <2>1. vMano(h, p) = 1
    BY <1>3, ManoSinVentana DEF Uno
  <2>2. vFin(p) = 0
    BY <2>1, TerminosNat DEF Terminos, Veces
  <2>3. memoria'[p] = e
    BY <1>1, <1>3
  <2>4. vFin(p)' = 0
    BY <2>3 DEF vFin, Uno
  <2>5. QED
    BY <2>2, <2>4
<1>4. QED
  BY <1>2, <1>3

\* From the console to new.
LEMMA MueveRecibir ==
  ASSUME TypeOK, TypeOK', Cuentas, ManosVacias, FinDeRecibe, NEW p \in Procesos, Veces(p) = 1,
         NEW q \in Procesos, Recibir(q)
  PROVE  Veces(p)' = 1
<1>t. Terminos(p) /\ Terminos(p)' /\ p # Nadie
  BY TerminosNat, TerminosNatDespues, ProcesosAssumption
<1>v. /\ hilo \in [Hilos -> Pcs] /\ suyo \in [Hilos -> Procesos \union {Nadie}]
      /\ memoria \in [Procesos -> Memorias] /\ ManosLlenas
  BY DEF TypeOK, TiposHilos, TiposDatos
<1> USE DEF sinCpu, sinMemoria, sinLlegada
<1>1. vCola("new", p)' = vCola("new", p) + Uno(q = p)
      /\ \A c \in Colas : c # "new" => vCola(c, p)' = vCola(c, p)
  BY PushMueve, <1>t DEF Recibir, Colas, Terminos
<1>2. vAfuera(p)' = vAfuera(p) - Uno(q = p)
  BY DEF Recibir, vAfuera, Uno
<1>3. /\ vDespacho(p)' = vDespacho(p) /\ vRetorno(p)' = vRetorno(p) /\ vFin(p)' = vFin(p)
      /\ \A h \in Hilos : vMano(h, p)' = vMano(h, p)
  BY Quedan DEF Recibir
<1>4. QED
  BY <1>t, <1>1, <1>2, <1>3, UnoEsBit DEF Veces, Terminos, Colas, Hilos

\* From susReady to the hands of the long-term scheduler.
LEMMA MueveMiraSus ==
  ASSUME TypeOK, TypeOK', Cuentas, ManosVacias, FinDeRecibe, NEW p \in Procesos, Veces(p) = 1,
         Paso("largo", "mirar_sus", "reanudar"), Pop("susReady", "largo"), LargoMiraSus
  PROVE  Veces(p)' = 1
<1>t. Terminos(p) /\ Terminos(p)' /\ p # Nadie
  BY TerminosNat, TerminosNatDespues, ProcesosAssumption
<1>v. /\ hilo \in [Hilos -> Pcs] /\ suyo \in [Hilos -> Procesos \union {Nadie}]
      /\ memoria \in [Procesos -> Memorias] /\ ManosLlenas
  BY DEF TypeOK, TiposHilos, TiposDatos
<1> USE DEF sinCpu, sinMemoria, sinLlegada
<1> DEFINE q == Head(cola["susReady"])
<1>1. /\ \A d \in Colas : vCola(d, p)' = vCola(d, p) - (IF d = "susReady" THEN Uno(q = p) ELSE 0)
      /\ suyo'["largo"] = q /\ Ajenos("largo") /\ suyo["largo"] = Nadie
  BY <1>v, PopMueve, DePaso DEF Ajenos, Colas, Hilos, ManosVacias
<1>2. vMano("largo", p) = 0 /\ vMano("largo", p)' = Uno(q = p)
  BY <1>1, <1>t, ManoSinVentana, ManoSinVentanaDespues DEF Uno
<1>3. /\ vDespacho(p)' = vDespacho(p) /\ vRetorno(p)' = vRetorno(p) /\ vFin(p)' = vFin(p)
      /\ vAfuera(p)' = vAfuera(p)
      /\ \A h \in Hilos : h # "largo" => vMano(h, p)' = vMano(h, p)
  BY <1>1, Quedan, ManosAjenas DEF LargoMiraSus
<1> HIDE DEF q
<1>4. QED
  BY <1>t, <1>1, <1>2, <1>3, UnoEsBit DEF Veces, Terminos, Colas, Hilos

\* From new to the hands of the long-term scheduler.
LEMMA MueveMiraNew ==
  ASSUME TypeOK, TypeOK', Cuentas, ManosVacias, FinDeRecibe, NEW p \in Procesos, Veces(p) = 1,
         LargoMiraNew
  PROVE  Veces(p)' = 1
<1>t. Terminos(p) /\ Terminos(p)' /\ p # Nadie
  BY TerminosNat, TerminosNatDespues, ProcesosAssumption
<1>v. /\ hilo \in [Hilos -> Pcs] /\ suyo \in [Hilos -> Procesos \union {Nadie}]
      /\ memoria \in [Procesos -> Memorias] /\ ManosLlenas
  BY DEF TypeOK, TiposHilos, TiposDatos
<1> USE DEF sinCpu, sinMemoria, sinLlegada
<1>e. hilo["largo"] = "mirar_new" /\ cola["new"] # <<>>
  BY <1>v, DePaso DEF LargoMiraNew, Cuentas, MiraNewConAlgo, Encolados, Hilos
<1> DEFINE q == Head(cola["new"])
<1>1. /\ \A d \in Colas : vCola(d, p)' = vCola(d, p) - (IF d = "new" THEN Uno(q = p) ELSE 0)
      /\ suyo'["largo"] = q /\ Ajenos("largo") /\ suyo["largo"] = Nadie
  BY <1>e, <1>v, PopMueve, DePaso DEF LargoMiraNew, Ajenos, Colas, Hilos, ManosVacias
<1>2. vMano("largo", p) = 0 /\ vMano("largo", p)' = Uno(q = p)
  BY <1>1, <1>t, ManoSinVentana, ManoSinVentanaDespues DEF Uno
<1>3. /\ vDespacho(p)' = vDespacho(p) /\ vRetorno(p)' = vRetorno(p) /\ vFin(p)' = vFin(p)
      /\ vAfuera(p)' = vAfuera(p)
      /\ \A h \in Hilos : h # "largo" => vMano(h, p)' = vMano(h, p)
  BY <1>1, Quedan, ManosAjenas DEF LargoMiraNew
<1> HIDE DEF q
<1>4. QED
  BY <1>t, <1>1, <1>2, <1>3, UnoEsBit DEF Veces, Terminos, Colas, Hilos

\* From the hands of the long-term scheduler to ready.
LEMMA MueveAReady ==
  ASSUME TypeOK, TypeOK', Cuentas, ManosVacias, FinDeRecibe, NEW p \in Procesos, Veces(p) = 1,
         NEW de \in {"reanudar", "crear"}, NEW a, AReady(de, a)
  PROVE  Veces(p)' = 1
<1>t. Terminos(p) /\ Terminos(p)' /\ p # Nadie
  BY TerminosNat, TerminosNatDespues, ProcesosAssumption
<1>v. /\ hilo \in [Hilos -> Pcs] /\ suyo \in [Hilos -> Procesos \union {Nadie}]
      /\ memoria \in [Procesos -> Memorias] /\ ManosLlenas
  BY DEF TypeOK, TiposHilos, TiposDatos
<1> USE DEF sinCpu, sinMemoria, sinLlegada
<1> DEFINE q == suyo["largo"]
<1>0. q \in Procesos
  BY <1>v, DePaso DEF AReady, ManosLlenas, Hilos
<1>1. /\ \A d \in Colas : vCola(d, p)' = vCola(d, p) + (IF d = "ready" THEN Uno(q = p) ELSE 0)
      /\ suyo'["largo"] = Nadie /\ Ajenos("largo")
  BY <1>0, <1>v, PushMueve, DePaso, DeGuarda DEF AReady, Ajenos, Colas, Hilos
<1>2. vMano("largo", p) = Uno(q = p) /\ vMano("largo", p)' = 0
  BY <1>1, <1>t, ManoSinVentana, ManoSinVentanaDespues DEF Uno
<1>3. /\ vDespacho(p)' = vDespacho(p) /\ vRetorno(p)' = vRetorno(p) /\ vAfuera(p)' = vAfuera(p)
      /\ \A h \in Hilos : h # "largo" => vMano(h, p)' = vMano(h, p)
  BY <1>1, Quedan, ManosAjenas DEF AReady
<1>4. vFin(p)' = vFin(p)
  <2>1. memoria' = [memoria EXCEPT ![suyo["largo"]] = "activo"] /\ suyo'["recibe"] = suyo["recibe"]
    BY <1>1, ManosAjenas DEF AReady
  <2>2. QED
    BY <2>1, FinIgual
<1> HIDE DEF q
<1>5. QED
  BY <1>t, <1>1, <1>2, <1>3, <1>4, UnoEsBit DEF Veces, Terminos, Colas, Hilos

\* From ready to the connection with the CPU.
LEMMA MueveElige ==
  ASSUME TypeOK, TypeOK', Cuentas, ManosVacias, FinDeRecibe, NEW p \in Procesos, Veces(p) = 1,
         CortoElige
  PROVE  Veces(p)' = 1
<1>t. Terminos(p) /\ Terminos(p)' /\ p # Nadie
  BY TerminosNat, TerminosNatDespues, ProcesosAssumption
<1>v. /\ hilo \in [Hilos -> Pcs] /\ suyo \in [Hilos -> Procesos \union {Nadie}]
      /\ memoria \in [Procesos -> Memorias] /\ ManosLlenas
  BY DEF TypeOK, TiposHilos, TiposDatos
<1> USE DEF sinCpu, sinMemoria, sinLlegada
<1>0. cola["ready"] \in Seq(Procesos) /\ despacho \in Seq(Procesos) /\ cola \in [Colas -> Seq(Procesos)]
  BY DEF TypeOK, TiposDatos, Colas
<1>1. UNCHANGED suyo /\ \A g \in Hilos : g # "corto" => hilo'[g] = hilo[g]
  BY <1>v, DePaso DEF CortoElige, Hilos
<1>2. /\ vRetorno(p)' = vRetorno(p) /\ vFin(p)' = vFin(p) /\ vAfuera(p)' = vAfuera(p)
      /\ \A h \in Hilos : h # "corto" => vMano(h, p)' = vMano(h, p)
  BY <1>1, Quedan DEF CortoElige
<1>3. CASE cola["ready"] = <<>>
  <2>1. (\A c \in Colas : vCola(c, p)' = vCola(c, p)) /\ vDespacho(p)' = vDespacho(p)
    BY <1>3, Quedan DEF CortoElige
  <2>2. QED
    BY <1>t, <1>2, <2>1 DEF Veces, Terminos, Colas, Hilos
<1>4. CASE cola["ready"] # <<>>
  <2> DEFINE q == Head(cola["ready"])
  <2>1. q \in Procesos /\ Cuantos(Tail(cola["ready"]), {p}) = vCola("ready", p) - Uno(q = p)
    BY <1>0, <1>4, SacaCabeza DEF vCola, Uno
  <2>2. vCola("ready", p)' = vCola("ready", p) - Uno(q = p)
    <3>1. cola'["ready"] = Tail(cola["ready"])
      BY <1>0, <1>4 DEF CortoElige, Colas
    <3>2. QED
      BY <2>1, <3>1 DEF vCola
  <2>3. \A c \in Colas : c # "ready" => vCola(c, p)' = vCola(c, p)
    BY <1>0, <1>4 DEF CortoElige, vCola
  <2>4. vDespacho(p)' = vDespacho(p) + Uno(q = p)
    <3>1. despacho' = Append(despacho, q)
      BY <1>4 DEF CortoElige
    <3>2. QED
      BY <1>0, <2>1, <3>1, CuantosAppend DEF vDespacho, Uno
  <2> HIDE DEF q
  <2>5. QED
    BY <1>t, <1>2, <2>2, <2>3, <2>4, UnoEsBit DEF Veces, Terminos, Colas, Hilos
<1>5. QED
  BY <1>3, <1>4

\* From the connection to the CPU.
LEMMA MueveCpuRecibe ==
  ASSUME TypeOK, TypeOK', Cuentas, ManosVacias, FinDeRecibe, NEW p \in Procesos, Veces(p) = 1,
         CpuRecibe
  PROVE  Veces(p)' = 1
<1>t. Terminos(p) /\ Terminos(p)' /\ p # Nadie
  BY TerminosNat, TerminosNatDespues, ProcesosAssumption
<1>v. /\ hilo \in [Hilos -> Pcs] /\ suyo \in [Hilos -> Procesos \union {Nadie}]
      /\ memoria \in [Procesos -> Memorias] /\ ManosLlenas
  BY DEF TypeOK, TiposHilos, TiposDatos
<1> USE DEF sinCpu, sinMemoria, sinLlegada
<1> DEFINE q == Head(despacho)
<1>0. despacho \in Seq(Procesos) /\ despacho # <<>> /\ q \in Procesos
  BY DEF TypeOK, TiposDatos, CpuRecibe
<1>1. suyo'["cpu"] = q /\ Ajenos("cpu") /\ suyo["cpu"] = Nadie
  BY <1>0, <1>v, DePaso, DeGuarda DEF CpuRecibe, Ajenos, Hilos, ManosVacias
<1>2. vMano("cpu", p) = 0 /\ vMano("cpu", p)' = Uno(q = p)
  BY <1>1, <1>t, ManoSinVentana, ManoSinVentanaDespues DEF Uno
<1>3. vDespacho(p)' = vDespacho(p) - Uno(q = p)
  BY <1>0, SacaCabeza DEF CpuRecibe, vDespacho, Uno
<1>4. /\ vRetorno(p)' = vRetorno(p) /\ vFin(p)' = vFin(p) /\ vAfuera(p)' = vAfuera(p)
      /\ \A c \in Colas : vCola(c, p)' = vCola(c, p)
      /\ \A h \in Hilos : h # "cpu" => vMano(h, p)' = vMano(h, p)
  BY <1>1, Quedan, ManosAjenas DEF CpuRecibe
<1> HIDE DEF q
<1>5. QED
  BY <1>t, <1>2, <1>3, <1>4, UnoEsBit DEF Veces, Terminos, Colas, Hilos

\* From the CPU to the connection back.
LEMMA MueveCpuDevuelve ==
  ASSUME TypeOK, TypeOK', Cuentas, ManosVacias, FinDeRecibe, NEW p \in Procesos, Veces(p) = 1,
         NEW op \in {"io", "exit"}, CpuDevuelve(op)
  PROVE  Veces(p)' = 1
<1>t. Terminos(p) /\ Terminos(p)' /\ p # Nadie
  BY TerminosNat, TerminosNatDespues, ProcesosAssumption
<1>v. /\ hilo \in [Hilos -> Pcs] /\ suyo \in [Hilos -> Procesos \union {Nadie}]
      /\ memoria \in [Procesos -> Memorias] /\ ManosLlenas
  BY DEF TypeOK, TiposHilos, TiposDatos
<1> USE DEF sinCpu, sinMemoria, sinLlegada
<1> DEFINE q == suyo["cpu"]
<1>0. retorno \in Seq(Mensajes) /\ q \in Procesos /\ [op |-> op, p |-> q] \in Mensajes
  BY <1>v, DePaso DEF TypeOK, TiposDatos, CpuDevuelve, ManosLlenas, Hilos, Mensajes
<1>1. suyo'["cpu"] = Nadie /\ Ajenos("cpu")
  BY <1>v, DePaso, DeGuarda DEF CpuDevuelve, Ajenos, Hilos
<1>2. vMano("cpu", p) = Uno(q = p) /\ vMano("cpu", p)' = 0
  BY <1>1, <1>t, ManoSinVentana, ManoSinVentanaDespues DEF Uno
<1>3. vRetorno(p)' = vRetorno(p) + Uno(q = p)
  <2>1. [op |-> op, p |-> q] \in De(p) <=> q = p
    BY <1>0 DEF De
  <2>2. QED
    BY <1>0, <2>1, CuantosAppend DEF CpuDevuelve, vRetorno, Uno
<1>4. /\ vDespacho(p)' = vDespacho(p) /\ vFin(p)' = vFin(p) /\ vAfuera(p)' = vAfuera(p)
      /\ \A c \in Colas : vCola(c, p)' = vCola(c, p)
      /\ \A h \in Hilos : h # "cpu" => vMano(h, p)' = vMano(h, p)
  <2>1. UNCHANGED <<despacho, memoria, afuera, cola>> /\ suyo'["recibe"] = suyo["recibe"]
    BY <1>1, ManosAjenas DEF CpuDevuelve
  <2>2. QED
    BY <1>1, <2>1, Quedan, ManosAjenas
<1> HIDE DEF q
<1>5. QED
  BY <1>t, <1>2, <1>3, <1>4, UnoEsBit DEF Veces, Terminos, Colas, Hilos

\* From the connection to the hands of recibir_pcb_de_cpu.
LEMMA MueveMensaje ==
  ASSUME TypeOK, TypeOK', Cuentas, ManosVacias, FinDeRecibe, NEW p \in Procesos, Veces(p) = 1,
         RecibeMensaje
  PROVE  Veces(p)' = 1
<1>t. Terminos(p) /\ Terminos(p)' /\ p # Nadie
  BY TerminosNat, TerminosNatDespues, ProcesosAssumption
<1>v. /\ hilo \in [Hilos -> Pcs] /\ suyo \in [Hilos -> Procesos \union {Nadie}]
      /\ memoria \in [Procesos -> Memorias] /\ ManosLlenas
  BY DEF TypeOK, TiposHilos, TiposDatos
<1> USE DEF sinCpu, sinMemoria, sinLlegada
<1> DEFINE q == Head(retorno).p
<1>0. /\ retorno \in Seq(Mensajes) /\ retorno # <<>> /\ Head(retorno) \in Mensajes
      /\ q \in Procesos
  <2>1. retorno \in Seq(Mensajes) /\ retorno # <<>>
    BY DEF TypeOK, TiposDatos, RecibeMensaje
  <2>2. Head(retorno) \in Mensajes
    BY <2>1
  <2>3. QED
    BY <2>1, <2>2 DEF Mensajes
<1>1. suyo'["recibe"] = q /\ Ajenos("recibe") /\ suyo["recibe"] = Nadie
      /\ hilo'["recibe"] \in {"encolar_io", "finalizar"}
  BY <1>0, <1>v, DePaso, DeGuarda DEF RecibeMensaje, Ajenos, Hilos, ManosVacias
<1>2. vMano("recibe", p) = 0 /\ vMano("recibe", p)' = Uno(q = p)
  BY <1>1, <1>t DEF vMano, Uno
<1>3. vRetorno(p)' = vRetorno(p) - Uno(q = p)
  <2>1. Head(retorno) \in De(p) <=> q = p
    BY <1>0 DEF De
  <2>2. QED
    BY <1>0, <2>1, SacaCabeza DEF RecibeMensaje, vRetorno, Uno
<1>4. /\ vDespacho(p)' = vDespacho(p) /\ vAfuera(p)' = vAfuera(p)
      /\ \A c \in Colas : vCola(c, p)' = vCola(c, p)
      /\ \A h \in Hilos : h # "recibe" => vMano(h, p)' = vMano(h, p)
  <2>1. UNCHANGED <<despacho, afuera, cola>>
    BY DEF RecibeMensaje
  <2>2. QED
    BY <1>1, <2>1, Quedan, ManosAjenas
<1>5. vFin(p)' = vFin(p)
  <2>1. UNCHANGED memoria
    BY DEF RecibeMensaje
  <2>2. q = p => vFin(p) = 0
    <3>1. q = p => vRetorno(p) # 0
      <4>1. q = p => vRetorno(p)' = vRetorno(p) - 1
        BY <1>3 DEF Uno
      <4>2. QED
        BY <1>t, <4>1 DEF Terminos
    <3>2. QED
      BY <1>t, <3>1 DEF Veces, Terminos
  <2>3. QED
    BY <1>t, <1>1, <2>1, <2>2 DEF vFin, Uno
<1> HIDE DEF q
<1>6. QED
  BY <1>t, <1>2, <1>3, <1>4, <1>5, UnoEsBit DEF Veces, Terminos, Colas, Hilos

\* From the hands of recibir_pcb_de_cpu to cola_de_io.
LEMMA MueveEncola ==
  ASSUME TypeOK, TypeOK', Cuentas, ManosVacias, FinDeRecibe, NEW p \in Procesos, Veces(p) = 1,
         RecibeEncola
  PROVE  Veces(p)' = 1
<1>t. Terminos(p) /\ Terminos(p)' /\ p # Nadie
  BY TerminosNat, TerminosNatDespues, ProcesosAssumption
<1>v. /\ hilo \in [Hilos -> Pcs] /\ suyo \in [Hilos -> Procesos \union {Nadie}]
      /\ memoria \in [Procesos -> Memorias] /\ ManosLlenas
  BY DEF TypeOK, TiposHilos, TiposDatos
<1> USE DEF sinCpu, sinMemoria, sinLlegada
<1> DEFINE q == suyo["recibe"]
<1>0. /\ q \in Procesos /\ hilo["recibe"] = "encolar_io" /\ hilo'["recibe"] = "marcar"
      /\ UNCHANGED suyo /\ Ajenos("recibe")
  BY <1>v, DePaso DEF RecibeEncola, ManosLlenas, Hilos, Ajenos
<1>1. \A d \in Colas : vCola(d, p)' = vCola(d, p) + (IF d = "io" THEN Uno(q = p) ELSE 0)
  BY <1>0, PushMueve DEF RecibeEncola, Colas
<1>2. vMano("recibe", p) = Uno(q = p) /\ vMano("recibe", p)' = 0
  BY <1>0 DEF vMano, Uno
<1>3. /\ vDespacho(p)' = vDespacho(p) /\ vRetorno(p)' = vRetorno(p) /\ vAfuera(p)' = vAfuera(p)
      /\ vFin(p)' = vFin(p)
      /\ \A h \in Hilos : h # "recibe" => vMano(h, p)' = vMano(h, p)
  <2>1. UNCHANGED <<despacho, retorno, afuera, memoria>>
    BY DEF RecibeEncola
  <2>2. QED
    BY <1>0, <2>1, Quedan, ManosAjenas
<1> HIDE DEF q
<1>4. QED
  BY <1>t, <1>1, <1>2, <1>3, UnoEsBit DEF Veces, Terminos, Colas, Hilos

\* recibir_pcb_de_cpu forgets the PCB it has queued.
LEMMA MueveAvisaIo ==
  ASSUME TypeOK, TypeOK', Cuentas, ManosVacias, FinDeRecibe, NEW p \in Procesos, Veces(p) = 1,
         RecibeAvisaIo
  PROVE  Veces(p)' = 1
<1>t. Terminos(p) /\ Terminos(p)' /\ p # Nadie
  BY TerminosNat, TerminosNatDespues, ProcesosAssumption
<1>v. /\ hilo \in [Hilos -> Pcs] /\ suyo \in [Hilos -> Procesos \union {Nadie}]
      /\ memoria \in [Procesos -> Memorias] /\ ManosLlenas
  BY DEF TypeOK, TiposHilos, TiposDatos
<1> USE DEF sinCpu, sinMemoria, sinLlegada
<1>0. /\ hilo["recibe"] = "avisar_io" /\ hilo'["recibe"] = "recv"
      /\ suyo'["recibe"] = Nadie /\ Ajenos("recibe") /\ UNCHANGED memoria
      /\ memoria[suyo["recibe"]] # "eliminado"
  BY <1>v, DePaso, DeGuarda DEF RecibeAvisaIo, Hilos, Ajenos, FinDeRecibe
<1>1. vMano("recibe", p) = 0 /\ vMano("recibe", p)' = 0 /\ vFin(p)' = vFin(p)
  BY <1>0, <1>t DEF vMano, vFin, Uno
<1>2. /\ vDespacho(p)' = vDespacho(p) /\ vRetorno(p)' = vRetorno(p) /\ vAfuera(p)' = vAfuera(p)
      /\ \A c \in Colas : vCola(c, p)' = vCola(c, p)
      /\ \A h \in Hilos : h # "recibe" => vMano(h, p)' = vMano(h, p)
  <2>1. UNCHANGED <<despacho, retorno, afuera, cola>>
    BY DEF RecibeAvisaIo
  <2>2. QED
    BY <1>0, <2>1, Quedan, ManosAjenas
<1>3. QED
  BY <1>t, <1>1, <1>2 DEF Veces, Terminos, Colas, Hilos

\* Memory deletes the process that recibir_pcb_de_cpu still holds.
LEMMA MueveFinaliza ==
  ASSUME TypeOK, TypeOK', Cuentas, ManosVacias, FinDeRecibe, NEW p \in Procesos, Veces(p) = 1,
         RecibeFinaliza
  PROVE  Veces(p)' = 1
<1>t. Terminos(p) /\ Terminos(p)' /\ p # Nadie
  BY TerminosNat, TerminosNatDespues, ProcesosAssumption
<1>v. /\ hilo \in [Hilos -> Pcs] /\ suyo \in [Hilos -> Procesos \union {Nadie}]
      /\ memoria \in [Procesos -> Memorias] /\ ManosLlenas
  BY DEF TypeOK, TiposHilos, TiposDatos
<1> USE DEF sinCpu, sinMemoria, sinLlegada
<1>0. /\ hilo["recibe"] = "finalizar" /\ hilo'["recibe"] = "avisar_fin"
      /\ UNCHANGED suyo /\ Ajenos("recibe")
      /\ \A q \in Procesos : q # suyo["recibe"] => memoria'[q] = memoria[q]
  BY <1>v, DePaso DEF RecibeFinaliza, Hilos, Ajenos
<1>1. vMano("recibe", p)' = vMano("recibe", p) /\ vFin(p)' = vFin(p)
  BY <1>0, <1>t DEF vMano, vFin, Uno
<1>2. /\ vDespacho(p)' = vDespacho(p) /\ vRetorno(p)' = vRetorno(p) /\ vAfuera(p)' = vAfuera(p)
      /\ \A c \in Colas : vCola(c, p)' = vCola(c, p)
      /\ \A h \in Hilos : h # "recibe" => vMano(h, p)' = vMano(h, p)
  <2>1. UNCHANGED <<despacho, retorno, afuera, cola>>
    BY DEF RecibeFinaliza
  <2>2. QED
    BY <1>0, <2>1, Quedan, ManosAjenas
<1>3. QED
  BY <1>t, <1>1, <1>2 DEF Veces, Terminos, Colas, Hilos

\* From the hands of recibir_pcb_de_cpu to the end.
LEMMA MueveAvisaFin ==
  ASSUME TypeOK, TypeOK', Cuentas, ManosVacias, FinDeRecibe, NEW p \in Procesos, Veces(p) = 1,
         RecibeAvisaFin
  PROVE  Veces(p)' = 1
<1>t. Terminos(p) /\ Terminos(p)' /\ p # Nadie
  BY TerminosNat, TerminosNatDespues, ProcesosAssumption
<1>v. /\ hilo \in [Hilos -> Pcs] /\ suyo \in [Hilos -> Procesos \union {Nadie}]
      /\ memoria \in [Procesos -> Memorias] /\ ManosLlenas
  BY DEF TypeOK, TiposHilos, TiposDatos
<1> USE DEF sinCpu, sinMemoria, sinLlegada
<1> DEFINE q == suyo["recibe"]
<1>0. /\ q \in Procesos /\ hilo["recibe"] = "avisar_fin" /\ hilo'["recibe"] = "recv"
      /\ suyo'["recibe"] = Nadie /\ Ajenos("recibe") /\ UNCHANGED memoria
      /\ memoria[q] = "eliminado"
  BY <1>v, DePaso, DeGuarda DEF RecibeAvisaFin, Hilos, Ajenos, FinDeRecibe, ManosLlenas
<1>1. vMano("recibe", p) = Uno(q = p) /\ vMano("recibe", p)' = 0
  BY <1>0, <1>t DEF vMano, Uno
<1>2. vFin(p)' = vFin(p) + Uno(q = p)
  <2>1. CASE q = p
    BY <1>0, <1>t, <2>1 DEF vFin, Uno
  <2>2. CASE q # p
    BY <1>0, <1>t, <2>2 DEF vFin, Uno
  <2>3. QED
    BY <2>1, <2>2
<1>3. /\ vDespacho(p)' = vDespacho(p) /\ vRetorno(p)' = vRetorno(p) /\ vAfuera(p)' = vAfuera(p)
      /\ \A c \in Colas : vCola(c, p)' = vCola(c, p)
      /\ \A h \in Hilos : h # "recibe" => vMano(h, p)' = vMano(h, p)
  <2>1. UNCHANGED <<despacho, retorno, afuera, cola>>
    BY DEF RecibeAvisaFin
  <2>2. QED
    BY <1>0, <2>1, Quedan, ManosAjenas
<1> HIDE DEF q
<1>4. QED
  BY <1>t, <1>1, <1>2, <1>3, UnoEsBit DEF Veces, Terminos, Colas, Hilos

\* From cola_de_io to the device.
LEMMA MueveUsaDispositivo ==
  ASSUME TypeOK, TypeOK', Cuentas, ManosVacias, FinDeRecibe, NEW p \in Procesos, Veces(p) = 1,
         GestorUsaDispositivo
  PROVE  Veces(p)' = 1
<1>t. Terminos(p) /\ Terminos(p)' /\ p # Nadie
  BY TerminosNat, TerminosNatDespues, ProcesosAssumption
<1>v. /\ hilo \in [Hilos -> Pcs] /\ suyo \in [Hilos -> Procesos \union {Nadie}]
      /\ memoria \in [Procesos -> Memorias] /\ ManosLlenas
  BY DEF TypeOK, TiposHilos, TiposDatos
<1> USE DEF sinCpu, sinMemoria, sinLlegada
<1> DEFINE q == Head(cola["io"])
<1>0. hilo["disp"] = "libre"
  <2>1. sem["dispositivo"] > 0 /\ sem["dispositivo"] \in Nat
    BY DEF GestorUsaDispositivo, SemWait, TypeOK, TiposDatos, Semaforos
  <2>2. sem["dispositivo"] + DispActivo = 1
    BY DEF Cuentas, DispositivoUnico
  <2>3. QED
    BY <2>1, <2>2 DEF DispActivo, Uno
<1>1. /\ \A d \in Colas : vCola(d, p)' = vCola(d, p) - (IF d = "io" THEN Uno(q = p) ELSE 0)
      /\ suyo'["disp"] = q /\ suyo["disp"] = Nadie
      /\ \A g \in Hilos : g # "disp" => suyo'[g] = suyo[g]
  BY <1>0, PopMueve DEF GestorUsaDispositivo, Colas, Hilos, ManosVacias
<1>2. vMano("disp", p) = 0 /\ vMano("disp", p)' = Uno(q = p)
  BY <1>1, <1>t, ManoSinVentana, ManoSinVentanaDespues DEF Uno
<1>3. vMano("gestor", p)' = vMano("gestor", p)
  BY <1>1, ManoSinVentana, ManoSinVentanaDespues DEF Hilos
<1>4. \A g \in Hilos : g \notin {"disp", "gestor"} => vMano(g, p)' = vMano(g, p)
  <2>1. \A g \in Hilos : g \notin {"disp", "gestor"} => hilo'[g] = hilo[g]
    BY <1>v DEF GestorUsaDispositivo
  <2>2. QED
    BY <1>1, <2>1, Quedan
<1>5. /\ vDespacho(p)' = vDespacho(p) /\ vRetorno(p)' = vRetorno(p) /\ vAfuera(p)' = vAfuera(p)
      /\ vFin(p)' = vFin(p)
  <2>1. UNCHANGED <<despacho, retorno, afuera, memoria>>
    BY DEF GestorUsaDispositivo
  <2>2. suyo'["recibe"] = suyo["recibe"]
    BY <1>1 DEF Hilos
  <2>3. QED
    BY <2>1, <2>2, Quedan
<1> HIDE DEF q
<1>6. QED
  BY <1>t, <1>1, <1>2, <1>3, <1>4, <1>5, UnoEsBit DEF Veces, Terminos, Colas, Hilos

\* From the head of cola_de_io to its tail.
LEMMA MueveRota ==
  ASSUME TypeOK, TypeOK', Cuentas, ManosVacias, FinDeRecibe, NEW p \in Procesos, Veces(p) = 1,
         GestorRota
  PROVE  Veces(p)' = 1
<1>t. Terminos(p) /\ Terminos(p)' /\ p # Nadie
  BY TerminosNat, TerminosNatDespues, ProcesosAssumption
<1>v. /\ hilo \in [Hilos -> Pcs] /\ suyo \in [Hilos -> Procesos \union {Nadie}]
      /\ memoria \in [Procesos -> Memorias] /\ ManosLlenas
  BY DEF TypeOK, TiposHilos, TiposDatos
<1> USE DEF sinCpu, sinMemoria, sinLlegada
<1>0. /\ cola["io"] \in Seq(Procesos) /\ cola["io"] # <<>> /\ cola \in [Colas -> Seq(Procesos)]
      /\ UNCHANGED suyo /\ Ajenos("gestor")
      /\ UNCHANGED <<despacho, retorno, afuera, memoria>>
  BY <1>v, DePaso DEF TypeOK, TiposDatos, GestorRota, Colas, Hilos, Ajenos
<1> DEFINE x == Head(cola["io"])
           resto == Tail(cola["io"])
<1>1. vCola("io", p)' = vCola("io", p)
  <2>1. /\ x \in Procesos /\ resto \in Seq(Procesos)
        /\ Cuantos(resto, {p}) = vCola("io", p) - (IF x \in {p} THEN 1 ELSE 0)
    BY <1>0, SacaCabeza DEF vCola
  <2>2. cola'["io"] = Append(resto, x)
    BY <1>0 DEF GestorRota, Colas
  <2> HIDE DEF x, resto
  <2>3. Cuantos(Append(resto, x), {p}) = Cuantos(resto, {p}) + (IF x \in {p} THEN 1 ELSE 0)
    BY <2>1, CuantosAppend
  <2>4. vCola("io", p)' = Cuantos(Append(resto, x), {p})
    BY <2>2 DEF vCola
  <2>5. QED
    BY <1>t, <2>1, <2>3, <2>4 DEF Terminos
<1>2. \A c \in Colas : c # "io" => vCola(c, p)' = vCola(c, p)
  BY <1>0 DEF GestorRota, vCola
<1>3. vMano("gestor", p)' = vMano("gestor", p)
  BY <1>0, ManoSinVentana, ManoSinVentanaDespues
<1>4. /\ vDespacho(p)' = vDespacho(p) /\ vRetorno(p)' = vRetorno(p) /\ vAfuera(p)' = vAfuera(p)
      /\ vFin(p)' = vFin(p)
      /\ \A h \in Hilos : h # "gestor" => vMano(h, p)' = vMano(h, p)
  BY <1>0, Quedan, ManosAjenas
<1>5. QED
  BY <1>t, <1>1, <1>2, <1>3, <1>4 DEF Veces, Terminos, Colas, Hilos

\* From cola_de_io to the hands of the gestor.
LEMMA MueveVence ==
  ASSUME TypeOK, TypeOK', Cuentas, ManosVacias, FinDeRecibe, NEW p \in Procesos, Veces(p) = 1,
         GestorVence
  PROVE  Veces(p)' = 1
<1>t. Terminos(p) /\ Terminos(p)' /\ p # Nadie
  BY TerminosNat, TerminosNatDespues, ProcesosAssumption
<1>v. /\ hilo \in [Hilos -> Pcs] /\ suyo \in [Hilos -> Procesos \union {Nadie}]
      /\ memoria \in [Procesos -> Memorias] /\ ManosLlenas
  BY DEF TypeOK, TiposHilos, TiposDatos
<1> USE DEF sinCpu, sinMemoria, sinLlegada
<1> DEFINE q == Head(cola["io"])
<1>1. /\ \A d \in Colas : vCola(d, p)' = vCola(d, p) - (IF d = "io" THEN Uno(q = p) ELSE 0)
      /\ suyo'["gestor"] = q /\ Ajenos("gestor") /\ suyo["gestor"] = Nadie
  BY <1>v, PopMueve, DePaso DEF GestorVence, Ajenos, Colas, Hilos, ManosVacias
<1>2. vMano("gestor", p) = 0 /\ vMano("gestor", p)' = Uno(q = p)
  BY <1>1, <1>t, ManoSinVentana, ManoSinVentanaDespues DEF Uno
<1>3. /\ vDespacho(p)' = vDespacho(p) /\ vRetorno(p)' = vRetorno(p) /\ vFin(p)' = vFin(p)
      /\ vAfuera(p)' = vAfuera(p)
      /\ \A h \in Hilos : h # "gestor" => vMano(h, p)' = vMano(h, p)
  <2>1. UNCHANGED <<despacho, retorno, afuera, memoria>>
    BY DEF GestorVence
  <2>2. QED
    BY <1>1, <2>1, Quedan, ManosAjenas
<1> HIDE DEF q
<1>4. QED
  BY <1>t, <1>1, <1>2, <1>3, UnoEsBit DEF Veces, Terminos, Colas, Hilos

\* From the hands of the gestor to cola_de_io.
LEMMA MueveSuspende ==
  ASSUME TypeOK, TypeOK', Cuentas, ManosVacias, FinDeRecibe, NEW p \in Procesos, Veces(p) = 1,
         GestorSuspende
  PROVE  Veces(p)' = 1
<1>t. Terminos(p) /\ Terminos(p)' /\ p # Nadie
  BY TerminosNat, TerminosNatDespues, ProcesosAssumption
<1>v. /\ hilo \in [Hilos -> Pcs] /\ suyo \in [Hilos -> Procesos \union {Nadie}]
      /\ memoria \in [Procesos -> Memorias] /\ ManosLlenas
  BY DEF TypeOK, TiposHilos, TiposDatos
<1> USE DEF sinCpu, sinMemoria, sinLlegada
<1> DEFINE q == suyo["gestor"]
<1>p. /\ Paso("gestor", "suspender", hilo'["gestor"]) /\ Push("io", suyo["gestor"])
      /\ Guarda("gestor", Nadie)
  BY <1>v DEF GestorSuspende, Paso, En, Hilos
<1>0. q \in Procesos
  BY <1>p DEF Paso, En, ManosLlenas, TypeOK
<1>1. /\ \A d \in Colas : vCola(d, p)' = vCola(d, p) + (IF d = "io" THEN Uno(q = p) ELSE 0)
      /\ suyo'["gestor"] = Nadie /\ Ajenos("gestor")
  BY <1>0, <1>p, <1>v, PushMueve, DePaso, DeGuarda DEF Ajenos, Colas, Hilos
<1>2. vMano("gestor", p) = Uno(q = p) /\ vMano("gestor", p)' = 0
  BY <1>1, <1>t, ManoSinVentana, ManoSinVentanaDespues DEF Uno
<1>3. /\ vDespacho(p)' = vDespacho(p) /\ vRetorno(p)' = vRetorno(p) /\ vAfuera(p)' = vAfuera(p)
      /\ \A h \in Hilos : h # "gestor" => vMano(h, p)' = vMano(h, p)
  <2>1. UNCHANGED <<despacho, retorno, afuera>>
    BY DEF GestorSuspende
  <2>2. QED
    BY <1>1, <2>1, Quedan, ManosAjenas
<1>4. vFin(p)' = vFin(p)
  <2>1. memoria' = [memoria EXCEPT ![suyo["gestor"]] = "suspendido"] /\ suyo'["recibe"] = suyo["recibe"]
    <3>1. memoria' = [memoria EXCEPT ![suyo["gestor"]] = "suspendido"]
      BY DEF GestorSuspende, SuspenderEnMemoria
    <3>2. QED
      BY <1>1, <3>1, ManosAjenas
  <2>2. QED
    BY <2>1, FinIgual
<1> HIDE DEF q
<1>5. QED
  BY <1>t, <1>1, <1>2, <1>3, <1>4, UnoEsBit DEF Veces, Terminos, Colas, Hilos

\* From the device to ready.
LEMMA MueveIoNormal ==
  ASSUME TypeOK, TypeOK', Cuentas, ManosVacias, FinDeRecibe, NEW p \in Procesos, Veces(p) = 1,
         DispIoNormal
  PROVE  Veces(p)' = 1
<1>t. Terminos(p) /\ Terminos(p)' /\ p # Nadie
  BY TerminosNat, TerminosNatDespues, ProcesosAssumption
<1>v. /\ hilo \in [Hilos -> Pcs] /\ suyo \in [Hilos -> Procesos \union {Nadie}]
      /\ memoria \in [Procesos -> Memorias] /\ ManosLlenas
  BY DEF TypeOK, TiposHilos, TiposDatos
<1> USE DEF sinCpu, sinMemoria, sinLlegada
<1> DEFINE q == suyo["disp"]
<1>p. /\ Paso("disp", "io_normal", hilo'["disp"]) /\ Push("ready", suyo["disp"])
      /\ Guarda("disp", Nadie)
  BY <1>v DEF DispIoNormal, Paso, En, Hilos
<1>0. q \in Procesos
  BY <1>p DEF Paso, En, ManosLlenas, TypeOK
<1>1. /\ \A d \in Colas : vCola(d, p)' = vCola(d, p) + (IF d = "ready" THEN Uno(q = p) ELSE 0)
      /\ suyo'["disp"] = Nadie /\ Ajenos("disp")
  BY <1>0, <1>p, <1>v, PushMueve, DePaso, DeGuarda DEF Ajenos, Colas, Hilos
<1>2. vMano("disp", p) = Uno(q = p) /\ vMano("disp", p)' = 0
  BY <1>1, <1>t, ManoSinVentana, ManoSinVentanaDespues DEF Uno
<1>3. /\ vDespacho(p)' = vDespacho(p) /\ vRetorno(p)' = vRetorno(p) /\ vAfuera(p)' = vAfuera(p)
      /\ \A h \in Hilos : h # "disp" => vMano(h, p)' = vMano(h, p)
  <2>1. UNCHANGED <<despacho, retorno, afuera>>
    BY DEF DispIoNormal
  <2>2. QED
    BY <1>1, <2>1, Quedan, ManosAjenas
<1>4. vFin(p)' = vFin(p)
  <2>1. UNCHANGED memoria /\ suyo'["recibe"] = suyo["recibe"]
    <3>1. UNCHANGED memoria
      BY DEF DispIoNormal
    <3>2. QED
      BY <1>1, <3>1, ManosAjenas
  <2>2. QED
    BY <2>1, Quedan
<1> HIDE DEF q
<1>5. QED
  BY <1>t, <1>1, <1>2, <1>3, <1>4, UnoEsBit DEF Veces, Terminos, Colas, Hilos

\* From the device to susReady.
LEMMA MueveASusReady ==
  ASSUME TypeOK, TypeOK', Cuentas, ManosVacias, FinDeRecibe, NEW p \in Procesos, Veces(p) = 1,
         DispASusReady
  PROVE  Veces(p)' = 1
<1>t. Terminos(p) /\ Terminos(p)' /\ p # Nadie
  BY TerminosNat, TerminosNatDespues, ProcesosAssumption
<1>v. /\ hilo \in [Hilos -> Pcs] /\ suyo \in [Hilos -> Procesos \union {Nadie}]
      /\ memoria \in [Procesos -> Memorias] /\ ManosLlenas
  BY DEF TypeOK, TiposHilos, TiposDatos
<1> USE DEF sinCpu, sinMemoria, sinLlegada
<1> DEFINE q == suyo["disp"]
<1>p. /\ Paso("disp", "sus_ready", hilo'["disp"]) /\ Push("susReady", suyo["disp"])
      /\ Guarda("disp", Nadie)
  BY <1>v DEF DispASusReady, Paso, En, Hilos
<1>0. q \in Procesos
  BY <1>p DEF Paso, En, ManosLlenas, TypeOK
<1>1. /\ \A d \in Colas : vCola(d, p)' = vCola(d, p) + (IF d = "susReady" THEN Uno(q = p) ELSE 0)
      /\ suyo'["disp"] = Nadie /\ Ajenos("disp")
  BY <1>0, <1>p, <1>v, PushMueve, DePaso, DeGuarda DEF Ajenos, Colas, Hilos
<1>2. vMano("disp", p) = Uno(q = p) /\ vMano("disp", p)' = 0
  BY <1>1, <1>t, ManoSinVentana, ManoSinVentanaDespues DEF Uno
<1>3. /\ vDespacho(p)' = vDespacho(p) /\ vRetorno(p)' = vRetorno(p) /\ vAfuera(p)' = vAfuera(p)
      /\ \A h \in Hilos : h # "disp" => vMano(h, p)' = vMano(h, p)
  <2>1. UNCHANGED <<despacho, retorno, afuera>>
    BY DEF DispASusReady
  <2>2. QED
    BY <1>1, <2>1, Quedan, ManosAjenas
<1>4. vFin(p)' = vFin(p)
  <2>1. UNCHANGED memoria /\ suyo'["recibe"] = suyo["recibe"]
    <3>1. UNCHANGED memoria
      BY DEF DispASusReady
    <3>2. QED
      BY <1>1, <3>1, ManosAjenas
  <2>2. QED
    BY <2>1, Quedan
<1> HIDE DEF q
<1>5. QED
  BY <1>t, <1>1, <1>2, <1>3, <1>4, UnoEsBit DEF Veces, Terminos, Colas, Hilos

\* The device tells memory to suspend the process it holds.
LEMMA MueveDispSuspende ==
  ASSUME TypeOK, TypeOK', Cuentas, ManosVacias, FinDeRecibe, NEW p \in Procesos, Veces(p) = 1,
         DispSuspende
  PROVE  Veces(p)' = 1
<1>t. Terminos(p) /\ Terminos(p)' /\ p # Nadie
  BY TerminosNat, TerminosNatDespues, ProcesosAssumption
<1>v. /\ hilo \in [Hilos -> Pcs] /\ suyo \in [Hilos -> Procesos \union {Nadie}]
      /\ memoria \in [Procesos -> Memorias] /\ ManosLlenas
  BY DEF TypeOK, TiposHilos, TiposDatos
<1> USE DEF sinCpu, sinMemoria, sinLlegada
<1>1. UNCHANGED suyo /\ Ajenos("disp")
  BY <1>v, DePaso DEF DispSuspende, Ajenos, Hilos
<1>2. vMano("disp", p)' = vMano("disp", p)
  BY <1>1, ManoSinVentana, ManoSinVentanaDespues
<1>3. /\ vDespacho(p)' = vDespacho(p) /\ vRetorno(p)' = vRetorno(p) /\ vAfuera(p)' = vAfuera(p)
      /\ \A c \in Colas : vCola(c, p)' = vCola(c, p)
      /\ \A h \in Hilos : h # "disp" => vMano(h, p)' = vMano(h, p)
  <2>1. UNCHANGED <<despacho, retorno, afuera, cola>>
    BY DEF DispSuspende
  <2>2. QED
    BY <1>1, <2>1, Quedan, ManosAjenas
<1>4. vFin(p)' = vFin(p)
  <2>1. memoria' = [memoria EXCEPT ![suyo["disp"]] = "suspendido"] /\ suyo'["recibe"] = suyo["recibe"]
    BY <1>1 DEF DispSuspende, SuspenderEnMemoria
  <2>2. QED
    BY <2>1, FinIgual
<1>5. QED
  BY <1>t, <1>2, <1>3, <1>4 DEF Veces, Terminos, Colas, Hilos

----------------------------------------------------------------------------
\* Every step of every thread leaves each process in one place.
LEMMA UnaVezSeConserva ==
  ASSUME TypeOK, TypeOK', Cuentas, ManosVacias, FinDeRecibe, NEW p \in Procesos, Veces(p) = 1,
         [Next]_vars
  PROVE  Veces(p)' = 1
<1>1. CASE Quietos
  BY <1>1, QuietosCuentan
<1>2. ASSUME NEW q \in Procesos, Llegada(q) PROVE Veces(p)' = 1
  BY <1>1, <1>2, MueveRecibir DEF Llegada, Quietos
<1>3. CASE Largo
  <2>1. CASE LargoMiraSus
    <3>1. CASE Paso("largo", "mirar_sus", "reanudar") /\ Pop("susReady", "largo")
      BY <2>1, <3>1, MueveMiraSus
    <3>2. CASE Paso("largo", "mirar_sus", "mirar_new") /\ UNCHANGED <<cola, suyo>>
      <4>1. hilo'["recibe"] = hilo["recibe"]
        BY <3>2, DePaso DEF TypeOK, TiposHilos, Hilos
      <4>2. \A h \in {"largo", "gestor", "disp", "cpu"} : vMano(h, p)' = vMano(h, p)
        BY <3>2, ManoSinVentana, ManoSinVentanaDespues
      <4>3. /\ vDespacho(p)' = vDespacho(p) /\ vRetorno(p)' = vRetorno(p) /\ vAfuera(p)' = vAfuera(p)
            /\ vFin(p)' = vFin(p) /\ vMano("recibe", p)' = vMano("recibe", p)
            /\ \A c \in Colas : vCola(c, p)' = vCola(c, p)
        BY <2>1, <3>2, <4>1, Quedan DEF LargoMiraSus, sinCpu, sinMemoria, sinLlegada, Hilos
      <4>4. QED
        BY <4>2, <4>3 DEF Veces, Colas
    <3>3. QED
      BY <2>1, <3>1, <3>2 DEF LargoMiraSus
  <2>2. CASE LargoReanuda
    BY <2>2, MueveAReady DEF LargoReanuda
  <2>3. CASE LargoCrea
    BY <2>3, MueveAReady DEF LargoCrea
  <2>4. QED
    BY <1>1, <1>3, <2>1, <2>2, <2>3, MueveMiraNew DEF Largo, Quietos
<1>4. CASE Corto
  BY <1>1, <1>4, MueveElige DEF Corto, Quietos
<1>5. CASE Cpu
  BY <1>5, MueveCpuRecibe, MueveCpuDevuelve DEF Cpu, CpuIo, CpuExit
<1>6. CASE Recibe
  BY <1>1, <1>6, MueveMensaje, MueveEncola, MueveAvisaIo, MueveFinaliza, MueveAvisaFin DEF Recibe, Quietos
<1>7. CASE Gestor
  BY <1>1, <1>7, MueveUsaDispositivo, MueveRota, MueveVence, MueveSuspende DEF Gestor, Quietos
<1>8. CASE Disp
  BY <1>1, <1>8, MueveIoNormal, MueveDispSuspende, MueveASusReady DEF Disp, Quietos
<1>9. CASE UNCHANGED vars
  <2>1. /\ vDespacho(p)' = vDespacho(p) /\ vRetorno(p)' = vRetorno(p) /\ vAfuera(p)' = vAfuera(p)
        /\ vFin(p)' = vFin(p) /\ (\A h \in Hilos : vMano(h, p)' = vMano(h, p))
        /\ \A c \in Colas : vCola(c, p)' = vCola(c, p)
    BY <1>9, Quedan DEF vars
  <2>2. QED
    BY <2>1 DEF Veces, Colas, Hilos
<1>10. QED
  BY <1>2, <1>3, <1>4, <1>5, <1>6, <1>7, <1>8, <1>9 DEF Next

----------------------------------------------------------------------------
\* Every step leaves the hands of each idle thread empty.
LEMMA ManosVaciasSeConserva ==
  ASSUME TypeOK, ManosVacias, [Next]_vars
  PROVE  ManosVacias'
<1>v. /\ hilo \in [Hilos -> Pcs] /\ suyo \in [Hilos -> Procesos \union {Nadie}]
      /\ cola \in [Colas -> Seq(Procesos)]
  BY DEF TypeOK, TiposHilos, TiposDatos
<1> USE DEF ManosVacias, Hilos, Colas
<1>1. ASSUME NEW p \in Procesos, Llegada(p) PROVE ManosVacias'
  BY <1>1 DEF Llegada, Recibir, AvisarLlegada
<1>2. CASE Largo
  <2>1. CASE LargoEsperaLista
    BY <1>v, <2>1 DEF LargoEsperaLista, Paso, En, Guarda
  <2>2. CASE LargoEsperaMulti
    BY <1>v, <2>2 DEF LargoEsperaMulti, Paso, En, Guarda
  <2>3. CASE LargoMiraSus
    BY <1>v, <2>3 DEF LargoMiraSus, Pop, Paso, En, Guarda
  <2>4. CASE LargoReanuda
    BY <1>v, <2>4 DEF LargoReanuda, AReady, Paso, En, Guarda
  <2>5. CASE LargoAvisaSus
    BY <1>v, <2>5 DEF LargoAvisaSus, Paso, En, Guarda
  <2>6. CASE LargoMiraNew
    BY <1>v, <2>6 DEF LargoMiraNew, Pop, Paso, En, Guarda
  <2>7. CASE LargoCrea
    BY <1>v, <2>7 DEF LargoCrea, AReady, Paso, En, Guarda
  <2>8. CASE LargoAvisaNew
    BY <1>v, <2>8 DEF LargoAvisaNew, Paso, En, Guarda
  <2>9. QED
    BY <1>2, <2>1, <2>2, <2>3, <2>4, <2>5, <2>6, <2>7, <2>8 DEF Largo
<1>3. CASE Corto
  <2>1. CASE CortoEspera
    BY <1>v, <2>1 DEF CortoEspera, Paso, En, Guarda
  <2>2. CASE CortoEsperaLista
    BY <1>v, <2>2 DEF CortoEsperaLista, Paso, En, Guarda
  <2>3. CASE CortoElige
    BY <1>v, <2>3 DEF CortoElige, Paso, En, Guarda
  <2>4. QED
    BY <1>3, <2>1, <2>2, <2>3 DEF Corto
<1>4. CASE Cpu
  <2>1. CASE CpuRecibe
    BY <1>v, <2>1 DEF CpuRecibe, Paso, En, Guarda
  <2>2. CASE CpuIo
    BY <1>v, <2>2 DEF CpuIo, CpuDevuelve, Paso, En, Guarda
  <2>3. CASE CpuExit
    BY <1>v, <2>3 DEF CpuExit, CpuDevuelve, Paso, En, Guarda
  <2>4. QED
    BY <1>4, <2>1, <2>2, <2>3 DEF Cpu
<1>5. CASE Recibe
  <2>1. CASE RecibeMensaje
    BY <1>v, <2>1 DEF RecibeMensaje, Paso, En, Guarda
  <2>2. CASE RecibeEncola
    BY <1>v, <2>2 DEF RecibeEncola, Paso, En, Guarda
  <2>3. CASE RecibeMarca
    BY <1>v, <2>3 DEF RecibeMarca, Paso, En, Guarda
  <2>4. CASE RecibeAvisaIo
    BY <1>v, <2>4 DEF RecibeAvisaIo, Paso, En, Guarda
  <2>5. CASE RecibeFinaliza
    BY <1>v, <2>5 DEF RecibeFinaliza, Paso, En, Guarda
  <2>6. CASE RecibeAvisaFin
    BY <1>v, <2>6 DEF RecibeAvisaFin, Paso, En, Guarda
  <2>7. QED
    BY <1>5, <2>1, <2>2, <2>3, <2>4, <2>5, <2>6 DEF Recibe
<1>6. CASE Gestor
  <2>1. CASE GestorEspera
    BY <1>v, <2>1 DEF GestorEspera, Paso, En, Guarda
  <2>2. CASE GestorCuenta
    BY <1>v, <2>2 DEF GestorCuenta, Paso, En, Guarda
  <2>3. CASE GestorUsaDispositivo
    BY <1>v, <2>3 DEF GestorUsaDispositivo, Pop, Ronda, Paso, En, Guarda
  <2>4. CASE GestorDispositivoOcupado
    BY <1>v, <2>4 DEF GestorDispositivoOcupado, Paso, En, Guarda
  <2>5. CASE GestorRota
    BY <1>v, <2>5 DEF GestorRota, Ronda, Paso, En, Guarda
  <2>6. CASE GestorVence
    BY <1>v, <2>6 DEF GestorVence, Pop, Paso, En, Guarda
  <2>7. CASE GestorSuspende
    BY <1>v, <2>7 DEF GestorSuspende, Ronda, Paso, En, Guarda
  <2>8. CASE GestorCae
    BY <1>v, <2>8 DEF GestorCae, Paso, En, Guarda
  <2>9. QED
    BY <1>6, <2>1, <2>2, <2>3, <2>4, <2>5, <2>6, <2>7, <2>8 DEF Gestor
<1>7. CASE Disp
  <2>1. CASE DispLee
    BY <1>v, <2>1 DEF DispLee, Paso, En, Guarda
  <2>2. CASE DispCae
    BY <1>v, <2>2 DEF DispCae, Paso, En, Guarda
  <2>3. CASE DispIoNormal
    BY <1>v, <2>3 DEF DispIoNormal, Paso, En, Guarda
  <2>4. CASE DispSuspende
    BY <1>v, <2>4 DEF DispSuspende, Paso, En, Guarda
  <2>5. CASE DispSube
    BY <1>v, <2>5 DEF DispSube, Paso, En, Guarda
  <2>6. CASE DispASusReady
    BY <1>v, <2>6 DEF DispASusReady, Paso, En, Guarda
  <2>7. CASE DispAvisa
    BY <1>v, <2>7 DEF DispAvisa, Paso, En, Guarda
  <2>8. CASE DispSuelta
    BY <1>v, <2>8 DEF DispSuelta, Paso, En, Guarda
  <2>9. QED
    BY <1>7, <2>1, <2>2, <2>3, <2>4, <2>5, <2>6, <2>7, <2>8 DEF Disp
<1>8. CASE UNCHANGED vars
  BY <1>8 DEF vars
<1>9. QED
  BY <1>1, <1>2, <1>3, <1>4, <1>5, <1>6, <1>7, <1>8 DEF Next

\* recibir_pcb_de_cpu keeps a PCB after queueing it to I/O; only then can the
\* same PCB be in the hands of another thread.
LEMMA MismaEnDosManos ==
  ASSUME TypeOK, NEW p \in Procesos, Veces(p) = 1, NEW h \in {"largo", "gestor", "disp"},
         suyo[h] = p, suyo["recibe"] = p
  PROVE  hilo["recibe"] \in {"marcar", "avisar_io"}
<1>1. vMano(h, p) = 1
  BY ManoSinVentana DEF Uno
<1>2. vMano("recibe", p) = 0
  BY <1>1, TerminosNat DEF Terminos, Veces
<1>3. QED
  BY <1>2 DEF vMano, Uno

\* What memory knows about the process of recibir_pcb_de_cpu after thread h has
\* told it something else about its own.
LEMMA FinDeRecibeAjeno ==
  ASSUME TypeOK, ManosLlenas, FinDeRecibe, \A p \in Procesos : Veces(p) = 1,
         NEW h \in {"largo", "gestor", "disp"}, suyo[h] \in Procesos,
         NEW e, e # "eliminado", memoria' = [memoria EXCEPT ![suyo[h]] = e],
         suyo'["recibe"] = suyo["recibe"], hilo'["recibe"] = hilo["recibe"]
  PROVE  FinDeRecibe'
<1>1. memoria \in [Procesos -> Memorias]
  BY DEF TypeOK, TiposDatos
<1>2. CASE hilo["recibe"] = "recv"
  BY <1>2 DEF FinDeRecibe
<1>3. CASE hilo["recibe"] # "recv"
  <2>1. suyo["recibe"] \in Procesos
    BY <1>3 DEF ManosLlenas
  <2>2. CASE suyo[h] = suyo["recibe"]
    <3>1. hilo["recibe"] \in {"marcar", "avisar_io"}
      BY <2>1, <2>2, MismaEnDosManos
    <3>2. memoria'[suyo["recibe"]] = e
      BY <1>1, <2>1, <2>2
    <3>3. QED
      BY <3>1, <3>2 DEF FinDeRecibe
  <2>3. CASE suyo[h] # suyo["recibe"]
    <3>1. memoria'[suyo["recibe"]] = memoria[suyo["recibe"]]
      BY <1>1, <2>1, <2>3
    <3>2. QED
      BY <1>3, <3>1 DEF FinDeRecibe
  <2>4. QED
    BY <2>2, <2>3
<1>4. QED
  BY <1>2, <1>3

\* Every step keeps what memory knows about the process recibir_pcb_de_cpu has.
LEMMA FinDeRecibeSeConserva ==
  ASSUME TypeOK, ManosVacias, FinDeRecibe, \A p \in Procesos : Veces(p) = 1, [Next]_vars
  PROVE  FinDeRecibe'
<1>v. /\ hilo \in [Hilos -> Pcs] /\ suyo \in [Hilos -> Procesos \union {Nadie}]
      /\ memoria \in [Procesos -> Memorias] /\ ManosLlenas
  BY DEF TypeOK, TiposHilos, TiposDatos
<1> USE DEF Hilos
<1>0. ASSUME UNCHANGED memoria, hilo'["recibe"] = hilo["recibe"], suyo'["recibe"] = suyo["recibe"]
      PROVE  FinDeRecibe'
  BY <1>0 DEF FinDeRecibe
<1>1. ASSUME NEW p \in Procesos, Llegada(p) PROVE FinDeRecibe'
  BY <1>1, <1>0 DEF Llegada, Recibir, AvisarLlegada, sinMemoria
<1>2. CASE Largo
  <2>1. CASE LargoEsperaLista
    <3>1. UNCHANGED memoria /\ hilo'["recibe"] = hilo["recibe"] /\ suyo'["recibe"] = suyo["recibe"]
      BY <1>v, <2>1 DEF LargoEsperaLista, Paso, En, Guarda, sinMemoria
    <3>2. QED
      BY <1>0, <3>1
  <2>2. CASE LargoEsperaMulti
    <3>1. UNCHANGED memoria /\ hilo'["recibe"] = hilo["recibe"] /\ suyo'["recibe"] = suyo["recibe"]
      BY <1>v, <2>2 DEF LargoEsperaMulti, Paso, En, Guarda, sinMemoria
    <3>2. QED
      BY <1>0, <3>1
  <2>3. CASE LargoMiraSus
    <3>1. UNCHANGED memoria /\ hilo'["recibe"] = hilo["recibe"] /\ suyo'["recibe"] = suyo["recibe"]
      BY <1>v, <2>3 DEF LargoMiraSus, Pop, Paso, En, Guarda, sinMemoria
    <3>2. QED
      BY <1>0, <3>1
  <2>4. CASE LargoAvisaSus
    <3>1. UNCHANGED memoria /\ hilo'["recibe"] = hilo["recibe"] /\ suyo'["recibe"] = suyo["recibe"]
      BY <1>v, <2>4 DEF LargoAvisaSus, Paso, En, Guarda, sinMemoria
    <3>2. QED
      BY <1>0, <3>1
  <2>5. CASE LargoMiraNew
    <3>1. UNCHANGED memoria /\ hilo'["recibe"] = hilo["recibe"] /\ suyo'["recibe"] = suyo["recibe"]
      BY <1>v, <2>5 DEF LargoMiraNew, Pop, Paso, En, Guarda, sinMemoria
    <3>2. QED
      BY <1>0, <3>1
  <2>6. CASE LargoAvisaNew
    <3>1. UNCHANGED memoria /\ hilo'["recibe"] = hilo["recibe"] /\ suyo'["recibe"] = suyo["recibe"]
      BY <1>v, <2>6 DEF LargoAvisaNew, Paso, En, Guarda, sinMemoria
    <3>2. QED
      BY <1>0, <3>1
  <2>7. CASE LargoReanuda
    <3>1. /\ memoria' = [memoria EXCEPT ![suyo["largo"]] = "activo"] /\ suyo["largo"] \in Procesos
          /\ hilo'["recibe"] = hilo["recibe"] /\ suyo'["recibe"] = suyo["recibe"]
      BY <1>v, <2>7 DEF LargoReanuda, AReady, Paso, En, Guarda, ManosLlenas
    <3>2. QED
      BY <1>v, <3>1, FinDeRecibeAjeno
  <2>8. CASE LargoCrea
    <3>1. /\ memoria' = [memoria EXCEPT ![suyo["largo"]] = "activo"] /\ suyo["largo"] \in Procesos
          /\ hilo'["recibe"] = hilo["recibe"] /\ suyo'["recibe"] = suyo["recibe"]
      BY <1>v, <2>8 DEF LargoCrea, AReady, Paso, En, Guarda, ManosLlenas
    <3>2. QED
      BY <1>v, <3>1, FinDeRecibeAjeno
  <2>9. QED
    BY <1>2, <2>1, <2>2, <2>3, <2>4, <2>5, <2>6, <2>7, <2>8 DEF Largo
<1>3. CASE Corto
  <2>1. CASE CortoEspera
    <3>1. UNCHANGED memoria /\ hilo'["recibe"] = hilo["recibe"] /\ suyo'["recibe"] = suyo["recibe"]
      BY <1>v, <2>1 DEF CortoEspera, Paso, En, Guarda, sinMemoria
    <3>2. QED
      BY <1>0, <3>1
  <2>2. CASE CortoEsperaLista
    <3>1. UNCHANGED memoria /\ hilo'["recibe"] = hilo["recibe"] /\ suyo'["recibe"] = suyo["recibe"]
      BY <1>v, <2>2 DEF CortoEsperaLista, Paso, En, Guarda, sinMemoria
    <3>2. QED
      BY <1>0, <3>1
  <2>3. CASE CortoElige
    <3>1. UNCHANGED memoria /\ hilo'["recibe"] = hilo["recibe"] /\ suyo'["recibe"] = suyo["recibe"]
      BY <1>v, <2>3 DEF CortoElige, Paso, En, Guarda, sinMemoria
    <3>2. QED
      BY <1>0, <3>1
  <2>4. QED
    BY <1>3, <2>1, <2>2, <2>3 DEF Corto
<1>4. CASE Cpu
  <2>1. CASE CpuRecibe
    <3>1. UNCHANGED memoria /\ hilo'["recibe"] = hilo["recibe"] /\ suyo'["recibe"] = suyo["recibe"]
      BY <1>v, <2>1 DEF CpuRecibe, Paso, En, Guarda, sinMemoria
    <3>2. QED
      BY <1>0, <3>1
  <2>2. CASE CpuIo
    <3>1. UNCHANGED memoria /\ hilo'["recibe"] = hilo["recibe"] /\ suyo'["recibe"] = suyo["recibe"]
      BY <1>v, <2>2 DEF CpuIo, CpuDevuelve, Paso, En, Guarda, sinMemoria
    <3>2. QED
      BY <1>0, <3>1
  <2>3. CASE CpuExit
    <3>1. UNCHANGED memoria /\ hilo'["recibe"] = hilo["recibe"] /\ suyo'["recibe"] = suyo["recibe"]
      BY <1>v, <2>3 DEF CpuExit, CpuDevuelve, Paso, En, Guarda, sinMemoria
    <3>2. QED
      BY <1>0, <3>1
  <2>4. QED
    BY <1>4, <2>1, <2>2, <2>3 DEF Cpu
<1>5. CASE Recibe
  <2>1. CASE RecibeMensaje
    <3> DEFINE q == Head(retorno).p
    <3>1. retorno \in Seq(Mensajes) /\ retorno # <<>> /\ suyo["recibe"] = Nadie
      BY <1>v, <2>1 DEF TypeOK, TiposDatos, RecibeMensaje, ManosVacias, Paso, En
    <3>2. Head(retorno) \in Mensajes /\ q \in Procesos /\ q # Nadie
      <4>1. Head(retorno) \in Mensajes
        BY <3>1
      <4>2. QED
        BY <4>1, ProcesosAssumption DEF Mensajes
    <3>3. memoria[q] # "eliminado"
      <4>1. vRetorno(q) = Cuantos(Tail(retorno), De(q)) + 1
        <5>1. Head(retorno) \in De(q)
          BY <3>2 DEF De
        <5>2. QED
          BY <3>1, <5>1, CuantosTail DEF vRetorno
      <4>2. Cuantos(Tail(retorno), De(q)) \in Nat
        BY <3>1, SacaCabeza, CuantosTipo
      <4>3. Terminos(q) /\ Veces(q) = 1
        BY <3>2, TerminosNat
      <4>4. vFin(q) = 0
        BY <4>1, <4>2, <4>3 DEF Terminos, Veces
      <4>5. QED
        BY <3>1, <3>2, <4>4 DEF vFin, Uno
    <3>4. /\ suyo'["recibe"] = q /\ UNCHANGED memoria
          /\ hilo'["recibe"] \in {"encolar_io", "finalizar"}
      BY <1>v, <2>1 DEF RecibeMensaje, Paso, En, Guarda, sinMemoria
    <3>5. QED
      BY <3>3, <3>4 DEF FinDeRecibe
  <2>2. CASE RecibeEncola
    BY <1>v, <2>2 DEF RecibeEncola, Paso, En, FinDeRecibe, sinMemoria
  <2>3. CASE RecibeMarca
    BY <1>v, <2>3 DEF RecibeMarca, Paso, En, FinDeRecibe
  <2>4. CASE RecibeAvisaIo
    BY <1>v, <2>4 DEF RecibeAvisaIo, Paso, En, FinDeRecibe
  <2>5. CASE RecibeFinaliza
    BY <1>v, <2>5 DEF RecibeFinaliza, Paso, En, FinDeRecibe, ManosLlenas
  <2>6. CASE RecibeAvisaFin
    BY <1>v, <2>6 DEF RecibeAvisaFin, Paso, En, FinDeRecibe
  <2>7. QED
    BY <1>5, <2>1, <2>2, <2>3, <2>4, <2>5, <2>6 DEF Recibe
<1>6. CASE Gestor
  <2>1. CASE GestorEspera
    <3>1. UNCHANGED memoria /\ hilo'["recibe"] = hilo["recibe"] /\ suyo'["recibe"] = suyo["recibe"]
      BY <1>v, <2>1 DEF GestorEspera, Paso, En, Guarda, sinMemoria
    <3>2. QED
      BY <1>0, <3>1
  <2>2. CASE GestorCuenta
    <3>1. UNCHANGED memoria /\ hilo'["recibe"] = hilo["recibe"] /\ suyo'["recibe"] = suyo["recibe"]
      BY <1>v, <2>2 DEF GestorCuenta, Paso, En, Guarda, sinMemoria
    <3>2. QED
      BY <1>0, <3>1
  <2>3. CASE GestorUsaDispositivo
    <3>1. UNCHANGED memoria /\ hilo'["recibe"] = hilo["recibe"] /\ suyo'["recibe"] = suyo["recibe"]
      BY <1>v, <2>3 DEF GestorUsaDispositivo, Pop, Paso, En, Guarda, sinMemoria
    <3>2. QED
      BY <1>0, <3>1
  <2>4. CASE GestorDispositivoOcupado
    <3>1. UNCHANGED memoria /\ hilo'["recibe"] = hilo["recibe"] /\ suyo'["recibe"] = suyo["recibe"]
      BY <1>v, <2>4 DEF GestorDispositivoOcupado, Paso, En, Guarda, sinMemoria
    <3>2. QED
      BY <1>0, <3>1
  <2>5. CASE GestorRota
    <3>1. UNCHANGED memoria /\ hilo'["recibe"] = hilo["recibe"] /\ suyo'["recibe"] = suyo["recibe"]
      BY <1>v, <2>5 DEF GestorRota, Paso, En, Guarda, sinMemoria
    <3>2. QED
      BY <1>0, <3>1
  <2>6. CASE GestorVence
    <3>1. UNCHANGED memoria /\ hilo'["recibe"] = hilo["recibe"] /\ suyo'["recibe"] = suyo["recibe"]
      BY <1>v, <2>6 DEF GestorVence, Pop, Paso, En, Guarda, sinMemoria
    <3>2. QED
      BY <1>0, <3>1
  <2>7. CASE GestorCae
    <3>1. UNCHANGED memoria /\ hilo'["recibe"] = hilo["recibe"] /\ suyo'["recibe"] = suyo["recibe"]
      BY <1>v, <2>7 DEF GestorCae, Paso, En, Guarda, sinMemoria
    <3>2. QED
      BY <1>0, <3>1
  <2>8. CASE GestorSuspende
    <3>1. /\ memoria' = [memoria EXCEPT ![suyo["gestor"]] = "suspendido"] /\ suyo["gestor"] \in Procesos
          /\ hilo'["recibe"] = hilo["recibe"] /\ suyo'["recibe"] = suyo["recibe"]
      BY <1>v, <2>8 DEF GestorSuspende, SuspenderEnMemoria, Paso, En, Guarda, ManosLlenas
    <3>2. QED
      BY <1>v, <3>1, FinDeRecibeAjeno
  <2>9. QED
    BY <1>6, <2>1, <2>2, <2>3, <2>4, <2>5, <2>6, <2>7, <2>8 DEF Gestor
<1>7. CASE Disp
  <2>1. CASE DispLee
    <3>1. UNCHANGED memoria /\ hilo'["recibe"] = hilo["recibe"] /\ suyo'["recibe"] = suyo["recibe"]
      BY <1>v, <2>1 DEF DispLee, Paso, En, Guarda, sinMemoria
    <3>2. QED
      BY <1>0, <3>1
  <2>2. CASE DispCae
    <3>1. UNCHANGED memoria /\ hilo'["recibe"] = hilo["recibe"] /\ suyo'["recibe"] = suyo["recibe"]
      BY <1>v, <2>2 DEF DispCae, Paso, En, Guarda, sinMemoria
    <3>2. QED
      BY <1>0, <3>1
  <2>3. CASE DispIoNormal
    <3>1. UNCHANGED memoria /\ hilo'["recibe"] = hilo["recibe"] /\ suyo'["recibe"] = suyo["recibe"]
      BY <1>v, <2>3 DEF DispIoNormal, Paso, En, Guarda, sinMemoria
    <3>2. QED
      BY <1>0, <3>1
  <2>4. CASE DispSube
    <3>1. UNCHANGED memoria /\ hilo'["recibe"] = hilo["recibe"] /\ suyo'["recibe"] = suyo["recibe"]
      BY <1>v, <2>4 DEF DispSube, Paso, En, Guarda, sinMemoria
    <3>2. QED
      BY <1>0, <3>1
  <2>5. CASE DispSuelta
    <3>1. UNCHANGED memoria /\ hilo'["recibe"] = hilo["recibe"] /\ suyo'["recibe"] = suyo["recibe"]
      BY <1>v, <2>5 DEF DispSuelta, Paso, En, Guarda, sinMemoria
    <3>2. QED
      BY <1>0, <3>1
  <2>6. CASE DispSuspende
    <3>1. /\ memoria' = [memoria EXCEPT ![suyo["disp"]] = "suspendido"] /\ suyo["disp"] \in Procesos
          /\ hilo'["recibe"] = hilo["recibe"] /\ suyo'["recibe"] = suyo["recibe"]
      BY <1>v, <2>6 DEF DispSuspende, SuspenderEnMemoria, Paso, En, Guarda, ManosLlenas
    <3>2. QED
      BY <1>v, <3>1, FinDeRecibeAjeno
  <2>7. CASE DispASusReady
    <3>1. UNCHANGED memoria /\ hilo'["recibe"] = hilo["recibe"] /\ suyo'["recibe"] = suyo["recibe"]
      BY <1>v, <2>7 DEF DispASusReady, Paso, En, Guarda
    <3>2. QED
      BY <1>0, <3>1
  <2>8. CASE DispAvisa
    <3>1. UNCHANGED memoria /\ hilo'["recibe"] = hilo["recibe"] /\ suyo'["recibe"] = suyo["recibe"]
      BY <1>v, <2>8 DEF DispAvisa, Paso, En, Guarda, sinMemoria
    <3>2. QED
      BY <1>0, <3>1
  <2>9. QED
    BY <1>7, <2>1, <2>2, <2>3, <2>4, <2>5, <2>6, <2>7, <2>8 DEF Disp
<1>8. CASE UNCHANGED vars
  BY <1>8, <1>0 DEF vars
<1>9. QED
  BY <1>1, <1>2, <1>3, <1>4, <1>5, <1>6, <1>7, <1>8 DEF Next

----------------------------------------------------------------------------
\* The places of Lugares in a queue and in the hands of a thread.
ZonaCola(c, p) == {<<c, i>> : i \in {j \in DOMAIN cola[c] : cola[c][j] = p}}
ZonaMano(h, p) == {<<g, 0>> : g \in {x \in {h} : suyo[x] = p /\ hilo[x] \notin {"marcar", "avisar_io"}}}

\* Counting one by one and counting the places of Lugares is the same.
LEMMA VecesSonLugares ==
  ASSUME TypeOK, ManosVacias, NEW p \in Procesos, Veces(p) = 1
  PROVE  Cardinality(Lugares(p)) = 1
<1>t. /\ cola \in [Colas -> Seq(Procesos)] /\ despacho \in Seq(Procesos)
      /\ retorno \in Seq(Mensajes) /\ p # Nadie
  BY ProcesosAssumption DEF TypeOK, TiposDatos
<1> DEFINE L1 == {<<"despacho", i>> : i \in {j \in DOMAIN despacho : despacho[j] = p}}
           L2 == {<<"retorno", i>> : i \in {j \in DOMAIN retorno : retorno[j].p = p}}
           L3 == {<<"afuera", i>> : i \in {j \in {0} : p \in afuera}}
           L4 == {<<"fin", i>> : i \in {j \in {0} : memoria[p] = "eliminado" /\ suyo["recibe"] # p}}
<1>1. \A c \in Colas : Zona(ZonaCola(c, p), vCola(c, p))
  <2>1. ASSUME NEW c \in Colas PROVE Zona(ZonaCola(c, p), vCola(c, p))
    <3>1. {j \in DOMAIN cola[c] : cola[c][j] = p} = Donde(cola[c], {p})
      BY DEF Donde
    <3>2. cola[c] \in Seq(Procesos)
      BY <1>t
    <3>3. QED
      BY <3>1, <3>2, ZonaSecuencia DEF ZonaCola, vCola
  <2>2. QED
    BY <2>1
<1>2. Zona(L1, vDespacho(p)) /\ Zona(L2, vRetorno(p))
  <2>1. /\ {j \in DOMAIN despacho : despacho[j] = p} = Donde(despacho, {p})
        /\ {j \in DOMAIN retorno : retorno[j].p = p} = Donde(retorno, De(p))
    BY <1>t DEF Donde, De
  <2>2. QED
    BY <1>t, <2>1, ZonaSecuencia DEF vDespacho, vRetorno
<1>3. \A h : Zona(ZonaMano(h, p), vMano(h, p))
  <2>1. ASSUME NEW h PROVE Zona(ZonaMano(h, p), vMano(h, p))
    <3> DEFINE b == suyo[h] = p /\ hilo[h] \notin {"marcar", "avisar_io"}
    <3>1. /\ b => ZonaMano(h, p) = {<<h, 0>>}
          /\ ~b => ZonaMano(h, p) = {}
      BY DEF ZonaMano
    <3>2. vMano(h, p) = IF b THEN 1 ELSE 0
      BY DEF vMano, Uno
    <3> HIDE DEF b
    <3>3. QED
      BY <3>1, <3>2, ZonaUna
  <2>2. QED
    BY <2>1
<1>4. Zona(L3, vAfuera(p)) /\ Zona(L4, vFin(p))
  <2> DEFINE b == p \in afuera
             c == memoria[p] = "eliminado" /\ suyo["recibe"] # p
  <2>1. /\ b => L3 = {<<"afuera", 0>>}
        /\ ~b => L3 = {}
        /\ c => L4 = {<<"fin", 0>>}
        /\ ~c => L4 = {}
    OBVIOUS
  <2>2. vAfuera(p) = (IF b THEN 1 ELSE 0) /\ vFin(p) = (IF c THEN 1 ELSE 0)
    BY DEF vAfuera, vFin, Uno
  <2> HIDE DEF b, c, L3, L4
  <2>3. QED
    BY <2>1, <2>2, ZonaUna
<1> HIDE DEF L1, L2, L3, L4
<1> DEFINE U2 == ZonaCola("new", p) \union ZonaCola("susReady", p)
           U3 == U2 \union ZonaCola("ready", p)
           U4 == U3 \union ZonaCola("io", p)
           U6 == (U4 \union L1) \union L2
           U7 == U6 \union ZonaMano("largo", p)
           U8 == U7 \union ZonaMano("recibe", p)
           U9 == U8 \union ZonaMano("gestor", p)
           U10 == U9 \union ZonaMano("disp", p)
           U11 == U10 \union ZonaMano("cpu", p)
           U == (U11 \union L3) \union L4
<1>5. Zona(U4, vCola("new", p) + vCola("susReady", p) + vCola("ready", p) + vCola("io", p))
  BY <1>1, ZonaUnion DEF Colas
<1> HIDE DEF U4
<1>6. Zona(U6, vCola("new", p) + vCola("susReady", p) + vCola("ready", p) + vCola("io", p)
                 + vDespacho(p) + vRetorno(p))
  BY <1>2, <1>5, ZonaUnion
<1> HIDE DEF U6
<1>7. Zona(U11, vCola("new", p) + vCola("susReady", p) + vCola("ready", p) + vCola("io", p)
                 + vDespacho(p) + vRetorno(p) + vMano("largo", p) + vMano("recibe", p)
                 + vMano("gestor", p) + vMano("disp", p) + vMano("cpu", p))
  BY <1>3, <1>6, ZonaUnion
<1> HIDE DEF U11
<1>8. Zona(U, Veces(p))
  BY <1>4, <1>7, ZonaUnion DEF Veces
<1>9. Lugares(p) = U
  <2> DEFINE A == UNION {{<<c, i>> : i \in {j \in DOMAIN cola[c] : cola[c][j] = p}} : c \in Colas}
             B == {<<h, 0>> : h \in {g \in Hilos : suyo[g] = p /\ hilo[g] \notin {"marcar", "avisar_io"}}}
  <2>1. A = U4
    BY DEF Colas, U4, ZonaCola
  <2>2. B = ZonaMano("largo", p) \union ZonaMano("recibe", p) \union ZonaMano("gestor", p)
            \union ZonaMano("disp", p) \union ZonaMano("cpu", p)
    BY <1>t DEF Hilos, ZonaMano, ManosVacias
  <2>3. Lugares(p) = ((((A \union L1) \union L2) \union B) \union L3) \union L4
    BY DEF Lugares, L1, L2, L3, L4
  <2> HIDE DEF A, B
  <2>4. U11 = ((U4 \union L1) \union L2) \union B
    BY <2>2 DEF U11, U6
  <2>5. QED
    BY <2>1, <2>3, <2>4
<1>10. QED
  BY <1>8, <1>9, ZonaDeUno

----------------------------------------------------------------------------
\* InductivaLugares, with the places counted one by one.
InvLugares ==
  /\ Inductiva /\ ManosVacias /\ FinDeRecibe
  /\ \A p \in Procesos : Veces(p) = 1

\* At the start every program is outside.
LEMMA LugaresIniciales == Init => ManosVacias /\ FinDeRecibe /\ \A p \in Procesos : Veces(p) = 1
<1> SUFFICES ASSUME Init PROVE ManosVacias /\ FinDeRecibe /\ \A p \in Procesos : Veces(p) = 1
  OBVIOUS
<1>1. /\ hilo["recibe"] = "recv" /\ \A h \in Hilos : suyo[h] = Nadie
  BY DEF Init, Hilos
<1>2. ManosVacias /\ FinDeRecibe
  BY <1>1 DEF ManosVacias, FinDeRecibe, Hilos
<1>3. ASSUME NEW p \in Procesos PROVE Veces(p) = 1
  <2>1. p # Nadie /\ memoria[p] = "sin" /\ p \in afuera
    BY ProcesosAssumption DEF Init
  <2>2. \A c \in Colas : vCola(c, p) = 0
    BY CuantosVacia DEF Init, vCola
  <2>3. vDespacho(p) = 0 /\ vRetorno(p) = 0
    BY CuantosVacia DEF Init, vDespacho, vRetorno
  <2>4. (\A h \in Hilos : vMano(h, p) = 0) /\ vAfuera(p) = 1 /\ vFin(p) = 0
    BY <1>1, <2>1 DEF vMano, vAfuera, vFin, Uno
  <2>5. QED
    BY <2>2, <2>3, <2>4 DEF Veces, Colas, Hilos
<1>4. QED
  BY <1>2, <1>3

\* Each conjunct of InvLugares is kept with the help of the others.
LEMMA LugaresSeConservan == InvLugares /\ [Next]_vars => InvLugares'
<1> SUFFICES ASSUME InvLugares, [Next]_vars PROVE InvLugares'
  OBVIOUS
<1>1. TypeOK /\ Cuentas /\ TypeOK' /\ Cuentas'
  BY TiposSeConservan, CuentasSeConservan DEF InvLugares, Inductiva
<1>2. ManosVacias' /\ FinDeRecibe'
  BY <1>1, ManosVaciasSeConserva, FinDeRecibeSeConserva DEF InvLugares
<1>3. \A p \in Procesos : Veces(p)' = 1
  BY <1>1, UnaVezSeConserva DEF InvLugares
<1>4. QED
  BY <1>1, <1>2, <1>3 DEF InvLugares, Inductiva

\* The invariants of types, counts and places hold together in every state.
LEMMA LugaresSiempre == Spec => []InvLugares
<1>1. Init => InvLugares
  BY TiposIniciales, CuentasIniciales, LugaresIniciales DEF InvLugares, Inductiva
<1>2. QED
  BY <1>1, LugaresSeConservan, PTL DEF Spec

\* The tokens, the hands of the threads and the places of the PCBs, together,
\* in every state of every execution of the kernel.
THEOREM LugaresInvariantes == Spec => []InductivaLugares
<1>1. InvLugares => InductivaLugares
  <2> SUFFICES ASSUME InvLugares PROVE InductivaLugares
    OBVIOUS
  <2>1. \A p \in Procesos : Cardinality(Lugares(p)) = 1
    BY VecesSonLugares DEF InvLugares, Inductiva
  <2>2. QED
    BY <2>1 DEF InvLugares, InductivaLugares, CadaPcbEnUnLugar
<1>2. QED
  BY <1>1, LugaresSiempre, PTL

\* The threads of planificador.c pass each PCB on from queue to queue, to the
\* CPU and back: at every moment it is in one place, although two queue_push of
\* a PCB that another thread still reads are among the steps.
THEOREM PcbEnUnSoloLugar == Spec => []CadaPcbEnUnLugar
<1>1. InductivaLugares => CadaPcbEnUnLugar
  BY DEF InductivaLugares
<1>2. QED
  BY <1>1, LugaresInvariantes, PTL
=============================================================================
