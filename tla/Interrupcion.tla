---------------------------- MODULE Interrupcion ----------------------------
(***************************************************************************)
(* Preemption under ALGORITMO_PLANIFICACION=SRT: the short-term scheduler  *)
(* interrupts the CPU, waits for its answer and dispatches.  Four threads  *)
(* on three connections: planificador_de_corto_plazo and                   *)
(* recibir_pcb_de_cpu in the kernel, escuchar_kernel and                   *)
(* escuchar_interrupciones in the CPU.  The rest of the kernel is the      *)
(* arrival of PCBs to ready and their departure to I/O or to the end.      *)
(*                                                                         *)
(* Estimations are abstract: which ready PCB algoritmo_srt picks, and      *)
(* whether the interrupted one still wins, are free choices.               *)
(***************************************************************************)
EXTENDS Naturals, Sequences, FiniteSets

CONSTANTS Procesos,      \* PCBs
          Nadie,         \* no PCB
          MaxLlegadas    \* bound: times a PCB reaches ready from outside

ASSUME NadieAssumption == IsFiniteSet(Procesos) /\ Nadie \notin Procesos
ASSUME MaxLlegadasAssumption == MaxLlegadas \in Nat

VARIABLES
  \* kernel
  ready,       \* cola_de_ready, whose order SRT does not use
  llegando,    \* threads that pushed a PCB to ready and owe their two posts
  fuera,       \* PCBs in new, in I/O or suspended
  fin,         \* PCBs that executed EXIT
  llegadas,    \* times each PCB reached ready from outside
  lista,       \* binario_lista_ready
  corto,       \* binario_plani_corto
  plan,        \* where the short-term scheduler is
  ejecutado,   \* the PCB the scheduler got back and pushes to ready again
  flag,        \* flag_respuesta_a_interrupcion
  flagSem,     \* binario_flag_interrupt
  rtaInt,      \* rta_int, the queue of interrupted PCBs
  rx,          \* the message recibir_pcb_de_cpu is handling, or Nadie
  \* connections
  despacho,    \* PCBs from kernel to CPU
  interrup,    \* OPERACION_INTERRUPT messages from kernel to CPU
  retorno,     \* messages from CPU to kernel
  \* CPU
  ix,          \* escuchar_interrupciones: what sem_getvalue returned, or "espera"
  hay,         \* hay_interrupciones
  enRunning,   \* the semaphore cpu_en_running
  dx,          \* where escuchar_kernel is
  pcb,         \* the PCB in the CPU, or Nadie
  ult          \* cod_op of the last instruction: "comun", "io" or "exit"

varsKernel == <<ready, llegando, fuera, fin, llegadas, lista, corto>>
varsPlan   == <<plan, ejecutado>>
varsRx     == <<flag, flagSem, rtaInt, rx>>
varsRed    == <<despacho, interrup, retorno>>
varsCpu    == <<ix, hay, enRunning, dx, pcb, ult>>
vars       == <<varsKernel, varsPlan, varsRx, varsRed, varsCpu>>

Init ==
  /\ ready = {} /\ llegando = 0 /\ fuera = Procesos /\ fin = {}
  /\ llegadas = [p \in Procesos |-> 0]
  /\ lista = 0 /\ corto = 0
  /\ plan = "wait_corto" /\ ejecutado = Nadie
  /\ flag = 0 /\ flagSem = 0 /\ rtaInt = <<>> /\ rx = Nadie
  /\ despacho = <<>> /\ interrup = 0 /\ retorno = <<>>
  /\ ix = "espera" /\ hay = 0 /\ enRunning = 0
  /\ dx = "espera" /\ pcb = Nadie /\ ult = "comun"

----------------------------------------------------------------------------
\* funcion_pasar_a_ready and realizar_io under SRT: push, then two posts.
Llega(p) ==
  /\ p \in fuera /\ llegadas[p] < MaxLlegadas
  /\ fuera' = fuera \ {p}
  /\ ready' = ready \union {p}
  /\ llegando' = llegando + 1
  /\ llegadas' = [llegadas EXCEPT ![p] = @ + 1]
  /\ UNCHANGED <<fin, lista, corto, varsPlan, varsRx, varsRed, varsCpu>>

AvisaLlegada ==
  /\ llegando > 0 /\ llegando' = llegando - 1
  /\ lista' = lista + 1 /\ corto' = corto + 1
  /\ UNCHANGED <<ready, fuera, fin, llegadas, varsPlan, varsRx, varsRed, varsCpu>>

----------------------------------------------------------------------------
\* planificador_de_corto_plazo, SRT branch.
PlanEspera ==
  /\ plan = "wait_corto" /\ corto > 0
  /\ plan' = "wait_lista" /\ corto' = corto - 1
  /\ UNCHANGED <<ready, llegando, fuera, fin, llegadas, lista, ejecutado, varsRx, varsRed, varsCpu>>

\* Mutant: the wait on binario_lista_ready is missing.
PlanNoEsperaLista ==
  /\ plan = "wait_lista"
  /\ plan' = "interrumpir"
  /\ UNCHANGED <<varsKernel, ejecutado, varsRx, varsRed, varsCpu>>

PlanEsperaLista ==
  /\ plan = "wait_lista" /\ lista > 0
  /\ plan' = "interrumpir" /\ lista' = lista - 1
  /\ UNCHANGED <<ready, llegando, fuera, fin, llegadas, corto, ejecutado, varsRx, varsRed, varsCpu>>

PlanInterrumpe ==
  /\ plan = "interrumpir" /\ plan' = "respuesta"
  /\ flag' = 0
  /\ interrup' = interrup + 1
  /\ UNCHANGED <<varsKernel, ejecutado, flagSem, rtaInt, rx, despacho, retorno, varsCpu>>

\* The estimations are abstract: any PCB of ready may be the shortest. The code
\* rotates the whole queue, and leaves every PCB in it.
algoritmo_srt == ready

\* Mutant: the PCB is pushed back too.
remover_ninguno(c) == UNCHANGED ready

\* One turn of the queue in which the PCB with that pid is not pushed back.
remover_de_cola_ready(c) == ready' = ready \ {c}

\* pasar_a_running.
Despacha(p) == despacho' = Append(despacho, p)

\* Case 1, the interrupted PCB stays: it goes back and its token is returned.
PlanGanaEjecutado ==
  /\ plan = "respuesta" /\ flagSem > 0 /\ flag = 1 /\ rtaInt # <<>>
  /\ plan' = "wait_corto" /\ flagSem' = flagSem - 1
  /\ rtaInt' = Tail(rtaInt)
  /\ Despacha(Head(rtaInt))
  /\ lista' = lista + 1
  /\ UNCHANGED <<ready, llegando, fuera, fin, llegadas, corto, ejecutado, flag, rx,
                 interrup, retorno, varsCpu>>

\* Case 1, a ready PCB takes its place; the other is pushed after the send.
PlanGanaCandidato ==
  /\ plan = "respuesta" /\ flagSem > 0 /\ flag = 1 /\ rtaInt # <<>>
  /\ plan' = "reencolar" /\ flagSem' = flagSem - 1
  /\ rtaInt' = Tail(rtaInt) /\ ejecutado' = Head(rtaInt)
  /\ \E c \in algoritmo_srt : remover_de_cola_ready(c) /\ Despacha(c)
  /\ UNCHANGED <<llegando, fuera, fin, llegadas, lista, corto, flag, rx,
                 interrup, retorno, varsCpu>>

\* Mutant: the post on binario_lista_ready is missing.
PlanReencolaSinPost ==
  /\ plan = "reencolar" /\ plan' = "wait_corto"
  /\ ready' = ready \union {ejecutado} /\ ejecutado' = Nadie
  /\ UNCHANGED <<llegando, fuera, fin, llegadas, lista, corto, varsRx, varsRed, varsCpu>>

PlanReencola ==
  /\ plan = "reencolar" /\ plan' = "wait_corto"
  /\ ready' = ready \union {ejecutado} /\ ejecutado' = Nadie
  /\ lista' = lista + 1
  /\ UNCHANGED <<llegando, fuera, fin, llegadas, corto, varsRx, varsRed, varsCpu>>

\* Case 2: the CPU is said to be empty.
PlanCpuVacia ==
  /\ plan = "respuesta" /\ flagSem > 0 /\ flag = 2
  /\ plan' = "wait_corto" /\ flagSem' = flagSem - 1
  /\ \E c \in algoritmo_srt : remover_de_cola_ready(c) /\ Despacha(c)
  /\ UNCHANGED <<llegando, fuera, fin, llegadas, lista, corto, ejecutado, flag, rtaInt, rx,
                 interrup, retorno, varsCpu>>

----------------------------------------------------------------------------
\* recibir_pcb_de_cpu.
RxRecibe(op) == rx = Nadie /\ retorno # <<>> /\ Head(retorno).op = op /\ retorno' = Tail(retorno)

RxIo ==
  /\ RxRecibe("io")
  /\ fuera' = fuera \union {Head(retorno).p}
  /\ corto' = corto + 1
  /\ UNCHANGED <<ready, llegando, fin, llegadas, lista, varsPlan, varsRx, despacho, interrup, varsCpu>>

RxExit ==
  /\ RxRecibe("exit")
  /\ fin' = fin \union {Head(retorno).p}
  /\ corto' = corto + 1
  /\ UNCHANGED <<ready, llegando, fuera, llegadas, lista, varsPlan, varsRx, despacho, interrup, varsCpu>>

\* The flag is written first, the PCB is received, queued and then announced.
RxRespuesta ==
  /\ RxRecibe("respuesta")
  /\ flag' = 1
  /\ rx' = Head(retorno).p
  /\ UNCHANGED <<varsKernel, varsPlan, flagSem, rtaInt, despacho, interrup, varsCpu>>

RxAvisaRespuesta ==
  /\ rx # Nadie
  /\ rtaInt' = Append(rtaInt, rx) /\ rx' = Nadie
  /\ flagSem' = flagSem + 1
  /\ UNCHANGED <<varsKernel, varsPlan, flag, varsRed, varsCpu>>

\* Mutant: the flag is not written.
RxLibreSinFlag ==
  /\ RxRecibe("libre")
  /\ flagSem' = flagSem + 1
  /\ UNCHANGED <<varsKernel, varsPlan, flag, rtaInt, rx, despacho, interrup, varsCpu>>

RxLibre ==
  /\ RxRecibe("libre")
  /\ flag' = 2
  /\ flagSem' = flagSem + 1
  /\ UNCHANGED <<varsKernel, varsPlan, rtaInt, rx, despacho, interrup, varsCpu>>

----------------------------------------------------------------------------
\* The CPU.  mutex_interrupciones is held while ix has a value in hand.
MutexLibre == ix = "espera"

Envia(op, p) == retorno' = Append(retorno, [op |-> op, p |-> p])

\* escuchar_interrupciones: cpu_en_running is read, and acted upon later.
IxLee ==
  /\ ix = "espera" /\ interrup > 0
  /\ interrup' = interrup - 1
  /\ ix' = IF enRunning = 0 THEN "vacia" ELSE "ocupada"
  /\ UNCHANGED <<varsKernel, varsPlan, varsRx, despacho, retorno, hay, enRunning, dx, pcb, ult>>

IxCpuLibre ==
  /\ ix = "vacia" /\ ix' = "espera"
  /\ Envia("libre", Nadie)
  /\ UNCHANGED <<varsKernel, varsPlan, varsRx, despacho, interrup, hay, enRunning, dx, pcb, ult>>

IxAnota ==
  /\ ix = "ocupada" /\ ix' = "espera"
  /\ hay' = hay + 1
  /\ UNCHANGED <<varsKernel, varsPlan, varsRx, varsRed, enRunning, dx, pcb, ult>>

DxRecibe ==
  /\ dx = "espera" /\ despacho # <<>>
  /\ pcb' = Head(despacho) /\ despacho' = Tail(despacho)
  /\ enRunning' = enRunning + 1
  /\ dx' = "ejecuta"
  /\ UNCHANGED <<varsKernel, varsPlan, varsRx, interrup, retorno, ix, hay, ult>>

\* ciclo_de_instruccion up to the check: I_O and EXIT give the PCB back.
DxEjecuta(op) ==
  /\ dx = "ejecuta" /\ dx' = "chequea"
  /\ ult' = op
  /\ IF op = "comun" THEN UNCHANGED retorno ELSE Envia(op, pcb)
  /\ UNCHANGED <<varsKernel, varsPlan, varsRx, despacho, interrup, ix, hay, enRunning, pcb>>

\* Check interrupt, nothing pending.
DxSinInterrupcion ==
  /\ dx = "chequea" /\ MutexLibre /\ hay = 0
  /\ dx' = IF ult = "comun" THEN "ejecuta" ELSE "suelta"
  /\ UNCHANGED <<varsKernel, varsPlan, varsRx, varsRed, ix, hay, enRunning, pcb, ult>>

\* Mutant: hay_interrupciones is not decremented.
DxInterrumpidoSinConsumir ==
  /\ dx = "chequea" /\ MutexLibre /\ hay > 0
  /\ dx' = "suelta"
  /\ IF ult = "comun" THEN Envia("respuesta", pcb) ELSE Envia("libre", Nadie)
  /\ UNCHANGED <<varsKernel, varsPlan, varsRx, despacho, interrup, ix, hay, enRunning, pcb, ult>>

\* Check interrupt, one pending: the PCB goes back, or it has just gone.
DxInterrumpido ==
  /\ dx = "chequea" /\ MutexLibre /\ hay > 0
  /\ dx' = "suelta" /\ hay' = hay - 1
  /\ IF ult = "comun" THEN Envia("respuesta", pcb) ELSE Envia("libre", Nadie)
  /\ UNCHANGED <<varsKernel, varsPlan, varsRx, despacho, interrup, ix, enRunning, pcb, ult>>

\* Mutant: cpu_en_running is not waited for.
DxSueltaSinEsperar ==
  /\ dx = "suelta" /\ dx' = "espera"
  /\ pcb' = Nadie
  /\ UNCHANGED <<varsKernel, varsPlan, varsRx, varsRed, ix, hay, enRunning, ult>>

\* sem_wait(cpu_en_running): only now does the CPU count as empty.
DxSuelta ==
  /\ dx = "suelta" /\ dx' = "espera"
  /\ enRunning > 0 /\ enRunning' = enRunning - 1
  /\ pcb' = Nadie
  /\ UNCHANGED <<varsKernel, varsPlan, varsRx, varsRed, ix, hay, ult>>

----------------------------------------------------------------------------
Entorno == \E p \in Procesos : Llega(p)
Plan    == \/ PlanEspera \/ PlanEsperaLista \/ PlanInterrumpe \/ PlanGanaEjecutado
           \/ PlanGanaCandidato \/ PlanReencola \/ PlanCpuVacia
Rx      == RxIo \/ RxExit \/ RxRespuesta \/ RxAvisaRespuesta \/ RxLibre
Ix      == IxLee \/ IxCpuLibre \/ IxAnota
DxTermina == DxEjecuta("io") \/ DxEjecuta("exit")
Dx      == \/ DxRecibe \/ DxEjecuta("comun") \/ DxTermina
           \/ DxSinInterrupcion \/ DxInterrumpido \/ DxSuelta

Next == Entorno \/ AvisaLlegada \/ Plan \/ Rx \/ Ix \/ Dx

Spec == Init /\ [][Next]_vars

(***************************************************************************)
(* Every thread is scheduled, and a program does not run for ever without  *)
(* an I_O or an EXIT (SF on DxTermina: "ejecuta" is left and met again).   *)
(***************************************************************************)
SpecJusta == /\ Spec
             /\ WF_vars(AvisaLlegada) /\ WF_vars(Plan) /\ WF_vars(Rx) /\ WF_vars(Ix)
             /\ WF_vars(Dx) /\ SF_vars(DxTermina)

----------------------------------------------------------------------------
(***************************************************************************)
(* Properties.                                                             *)
(***************************************************************************)
Uno(b) == IF b THEN 1 ELSE 0

\* Only CPU_LIBRE carries no PCB.
Mensajes == [op : {"io", "exit", "respuesta"}, p : Procesos]
              \union [op : {"libre"}, p : {Nadie}]

\* The variables have their types.
TypeOK ==
  /\ ready \subseteq Procesos /\ llegando \in Nat
  /\ fuera \subseteq Procesos /\ fin \subseteq Procesos
  /\ llegadas \in [Procesos -> 0 .. MaxLlegadas]
  /\ lista \in Nat /\ corto \in Nat /\ interrup \in Nat /\ hay \in Nat
  /\ plan \in {"wait_corto", "wait_lista", "interrumpir", "respuesta", "reencolar"}
  /\ ejecutado \in Procesos \union {Nadie} /\ rx \in Procesos \union {Nadie}
  /\ flag \in 0 .. 2 /\ flagSem \in Nat /\ rtaInt \in Seq(Procesos)
  /\ despacho \in Seq(Procesos) /\ retorno \in Seq(Mensajes)
  /\ ix \in {"espera", "vacia", "ocupada"} /\ enRunning \in {0, 1}
  /\ dx \in {"espera", "ejecuta", "chequea", "suelta"}
  /\ pcb \in Procesos \union {Nadie} /\ ult \in {"comun", "io", "exit"}

Respuestas == {i \in DOMAIN retorno : retorno[i].op \in {"respuesta", "libre"}}

(***************************************************************************)
(* One question, one answer: while the scheduler waits, its interrupt is   *)
(* in exactly one place -- on the way, read, noted in hay_interrupciones,  *)
(* answered, or announced -- and otherwise nowhere.  The CPU never answers *)
(* twice, and no answer is left over for the next question.                *)
(***************************************************************************)
UnaRespuestaPorInterrupcion ==
  interrup + Uno(ix # "espera") + hay + Cardinality(Respuestas) + Uno(rx # Nadie) + flagSem
    = Uno(plan = "respuesta")

(***************************************************************************)
(* When the scheduler reads flag_respuesta_a_interrupcion, a variable two  *)
(* threads write without a lock, it tells exactly whether there is an      *)
(* interrupted PCB in rta_int.                                             *)
(***************************************************************************)
FlagDiceLaVerdad ==
  flagSem > 0 => /\ flag \in {1, 2}
                 /\ (flag = 1) <=> (Len(rtaInt) = 1)

(***************************************************************************)
(* algoritmo_srt always has a candidate: it pops a queue that the CPU's    *)
(* answer, not its own semaphore, made it look at.                         *)
(***************************************************************************)
HayCandidato == plan \in {"interrumpir", "respuesta"} => ready # {}

\* The places where p is.  The CPU's copy does not count once it is sent back.
Lugares(p) ==
  {<<"ready", 0>> : x \in ready \intersect {p}} \union {<<"fuera", 0>> : x \in fuera \intersect {p}}
  \union {<<"fin", 0>> : x \in fin \intersect {p}}
  \union {<<"rta", i>> : i \in {j \in DOMAIN rtaInt : rtaInt[j] = p}}
  \union {<<"despacho", i>> : i \in {j \in DOMAIN despacho : despacho[j] = p}}
  \union {<<"retorno", i>> : i \in {j \in DOMAIN retorno : retorno[j].p = p}}
  \union {<<"mano", x>> : x \in {y \in {ejecutado} : y = p}}
  \union {<<"rx", x>> : x \in {y \in {rx} : y = p}}
  \union {<<"cpu", x>> : x \in {y \in {pcb} :
                y = p /\ (dx = "ejecuta" \/ (dx = "chequea" /\ ult = "comun"))}}

(***************************************************************************)
(* Preemption neither loses nor duplicates a PCB: every one is in exactly  *)
(* one place, although it travels in both directions at the same time.     *)
(***************************************************************************)
CadaPcbEnUnLugar == \A p \in Procesos : Cardinality(Lugares(p)) = 1

(***************************************************************************)
(* The inductive invariant of the properties above, conjunct by conjunct.  *)
(***************************************************************************)
\* cpu_en_running counts the PCB that escuchar_kernel is working on.
CpuContada == enRunning = Uno(dx # "espera")

\* Whoever is about to use a PCB has one.
ManosLlenas ==
  /\ plan = "reencolar" <=> ejecutado # Nadie
  /\ dx # "espera" => pcb \in Procesos

\* From its first write to its use the flag says what the answer was, and
\* rta_int holds the PCB of the answer that is announced and not yet used.
FlagEscrita ==
  /\ rx # Nadie => flag = 1
  /\ flagSem > 0 => flag \in {1, 2}
  /\ Len(rtaInt) = Uno(flagSem > 0 /\ flag = 1)

\* binario_lista_ready counts the PCBs of ready, minus the posts to come, plus
\* the token the scheduler has taken.
CuentaReady ==
  lista + llegando + Uno(plan \in {"interrumpir", "respuesta"}) = Cardinality(ready)

Inductiva ==
  /\ TypeOK /\ CpuContada /\ ManosLlenas
  /\ UnaRespuestaPorInterrupcion /\ FlagEscrita
  /\ CadaPcbEnUnLugar /\ CuentaReady

(***************************************************************************)
(* planificador.c:366 calls case 2 "caso en el que la cpu esta vacia y no  *)
(* nos da nada": when the scheduler is about to act on it, no PCB is in    *)
(* the CPU or on its way there.                                            *)
(***************************************************************************)
CpuVaciaEnCaso2 ==
  plan = "respuesta" /\ flagSem > 0 /\ flag = 2 =>
    despacho = <<>> /\ (pcb = Nadie \/ dx = "suelta")

(***************************************************************************)
(* planificador.c:330, "srt hace una interrupcion al cpu para desalojar":  *)
(* the scheduler that interrupts the CPU gets its answer and goes on.      *)
(***************************************************************************)
InterrupcionRespondida == (plan = "respuesta") ~> (plan # "respuesta")
============================================================================
