------------------------------- MODULE Kernel -------------------------------
(***************************************************************************)
(* The kernel process under ALGORITMO_PLANIFICACION=FIFO: the long-,       *)
(* medium- and short-term schedulers of Kernel/planificador.c, the thread  *)
(* that hears the CPU and the I/O device, with the CPU and the memory      *)
(* module seen through the messages the kernel exchanges with them.        *)
(*                                                                         *)
(* Every thread is a program counter hilo[h]; a step runs up to the next   *)
(* sem_wait or shared access that another thread could see half done.      *)
(* A request to memory and its reply are one step (conexion_memoria is     *)
(* shared without a lock; its interleaving is not this module's subject).  *)
(* Clocks are abstract: whether a deadline has passed is a free choice.    *)
(***************************************************************************)
EXTENDS Integers, Sequences, FiniteSets

CONSTANTS Procesos,   \* the programs that consoles send, one PCB each
          Nadie,      \* no PCB in a thread's hands
          Grado,      \* GRADO_MULTIPROGRAMACION
          MaxIo       \* bound: I_O instructions of a program

ASSUME ProcesosAssumption == IsFiniteSet(Procesos) /\ Nadie \notin Procesos
ASSUME GradoAssumption    == Grado \in Nat \ {0}
ASSUME MaxIoAssumption    == MaxIo \in Nat

VARIABLES
  cola,       \* the four PCB queues
  sem,        \* the counting semaphores
  hilo,       \* thread -> program counter
  suyo,       \* thread -> the PCB its local variable holds
  cant,       \* cantidad_en_io, local of dispositivo_io
  despacho,   \* PCBs on their way to the CPU
  retorno,    \* messages of the CPU on the dispatch connection
  inicio,     \* the global inicio: 1 until a process has reached ready
  estado,     \* process_state: pid -> string, "nulo" when absent
  memoria,    \* pid -> what the memory module was last told about it
  afuera,     \* programs whose console has not been served yet
  avisando,   \* recibiendo threads between the push to new and its sem_post
  ioHechas,   \* I_O instructions each program has executed
  vivo        \* FALSE once the kernel has dereferenced a null pointer

vars == <<cola, sem, hilo, suyo, cant, despacho, retorno, inicio, estado,
          memoria, afuera, avisando, ioHechas, vivo>>

Colas     == {"new", "susReady", "ready", "io"}
Semaforos == {"esperando", "multi", "lista", "corto", "signal", "dispositivo"}
Hilos     == {"largo", "corto", "recibe", "gestor", "disp", "cpu"}

PcLargo  == {"wait_lista", "wait_multi", "mirar_sus", "reanudar", "avisar_sus",
             "mirar_new", "crear", "avisar_new"}
PcCorto  == {"wait_corto", "wait_lista", "elegir"}
PcRecibe == {"recv", "encolar_io", "marcar", "avisar_io", "finalizar",
             "avisar_fin"}
PcGestor == {"wait_signal", "contar", "tomar", "rotar", "suspender"}
PcDisp   == {"libre", "leer", "io_normal", "io_suspender", "io_subir",
             "sus_ready", "soltar_ready", "soltar_sus", "soltar"}
PcCpu    == {"libre", "corre"}
Pcs      == PcLargo \union PcCorto \union PcRecibe \union PcGestor \union PcDisp
              \union PcCpu

Memorias == {"sin", "activo", "suspendido", "eliminado"}
Estados  == {"nulo", "blocked", "suspended blocked", "suspended ready"}

Init ==
  /\ cola = [c \in Colas |-> <<>>]
  /\ sem = [s \in Semaforos |-> CASE s = "multi" -> Grado
                                  [] s = "dispositivo" -> 1
                                  [] OTHER -> 0]
  /\ hilo = [h \in Hilos |-> CASE h = "largo" -> "wait_lista"
                               [] h = "corto" -> "wait_corto"
                               [] h = "recibe" -> "recv"
                               [] h = "gestor" -> "wait_signal"
                               [] OTHER -> "libre"]
  /\ suyo = [h \in Hilos |-> Nadie]
  /\ cant = 0
  /\ despacho = <<>>
  /\ retorno = <<>>
  /\ inicio = 1
  /\ estado = [p \in Procesos |-> "nulo"]
  /\ memoria = [p \in Procesos |-> "sin"]
  /\ afuera = Procesos
  /\ avisando = {}
  /\ ioHechas = [p \in Procesos |-> 0]
  /\ vivo = TRUE

----------------------------------------------------------------------------
\* Thread h of the running kernel is at pc, and goes from there to another.
En(h, pc) == vivo /\ hilo[h] = pc
Paso(h, de, a) == En(h, de) /\ hilo' = [hilo EXCEPT ![h] = a]

SemWait(s) == sem[s] > 0 /\ sem' = [sem EXCEPT ![s] = @ - 1]
SemPost(S) == sem' = [s \in Semaforos |-> IF s \in S THEN sem[s] + 1 ELSE sem[s]]

Push(c, p) == cola' = [cola EXCEPT ![c] = Append(@, p)]
Guarda(h, p) == suyo' = [suyo EXCEPT ![h] = p]

\* queue_pop(c) into the local variable of thread h.
Pop(c, h) == /\ cola[c] # <<>>
             /\ Guarda(h, Head(cola[c]))
             /\ cola' = [cola EXCEPT ![c] = Tail(@)]

\* The mutexes that are held across steps, as a function of who holds them.
MutexSusReadyLibre   == hilo["largo"] # "reanudar"
MutexNewLibre        == hilo["largo"] # "crear" /\ hilo["largo"] # "avisar_new"
MutexSuspendidoLibre == hilo["gestor"] # "rotar" /\ hilo["gestor"] # "suspender"

sinCpu     == <<despacho, retorno, ioHechas>>
sinMemoria == <<estado, memoria>>
sinLlegada == <<afuera, avisando>>

----------------------------------------------------------------------------
\* recibiendo: one thread per console; the PCB goes to new, then the post.
Recibir(p) ==
  /\ vivo /\ p \in afuera /\ MutexNewLibre
  /\ Push("new", p)
  /\ afuera' = afuera \ {p}
  /\ avisando' = avisando \union {p}
  /\ UNCHANGED <<sem, hilo, suyo, cant, inicio, vivo, sinCpu, sinMemoria>>

AvisarLlegada(p) ==
  /\ vivo /\ p \in avisando
  /\ avisando' = avisando \ {p}
  /\ SemPost({"esperando"})
  /\ UNCHANGED <<cola, hilo, suyo, cant, inicio, vivo, afuera, sinCpu, sinMemoria>>

----------------------------------------------------------------------------
\* funcion_pasar_a_ready: the long- and medium-term scheduler.
LargoEsperaLista ==
  /\ Paso("largo", "wait_lista", "wait_multi")
  /\ SemWait("esperando")
  /\ UNCHANGED <<cola, suyo, cant, inicio, vivo, sinCpu, sinMemoria, sinLlegada>>

\* Mutant: the wait on sem_contador_multiprogramacion is missing.
LargoEsperaMultiSinCupo ==
  /\ Paso("largo", "wait_multi", "mirar_sus")
  /\ UNCHANGED <<cola, sem, suyo, cant, inicio, vivo, sinCpu, sinMemoria, sinLlegada>>

LargoEsperaMulti ==
  /\ Paso("largo", "wait_multi", "mirar_sus")
  /\ SemWait("multi")
  /\ UNCHANGED <<cola, suyo, cant, inicio, vivo, sinCpu, sinMemoria, sinLlegada>>

\* Mutant: the test of queue_is_empty does not stop the resumption.
LargoMiraSusVacia ==
  /\ Paso("largo", "mirar_sus", "reanudar")
  /\ IF cola["susReady"] = <<>> THEN UNCHANGED <<cola, suyo>> ELSE Pop("susReady", "largo")
  /\ UNCHANGED <<sem, cant, inicio, vivo, sinCpu, sinMemoria, sinLlegada>>

\* Suspended processes go first; the mutex is kept only if there is one.
LargoMiraSus ==
  /\ \/ /\ Paso("largo", "mirar_sus", "reanudar")
        /\ Pop("susReady", "largo")
     \/ /\ cola["susReady"] = <<>>
        /\ Paso("largo", "mirar_sus", "mirar_new")
        /\ UNCHANGED <<cola, suyo>>
  /\ UNCHANGED <<sem, cant, inicio, vivo, sinCpu, sinMemoria, sinLlegada>>

\* The PCB in the thread's hands is made active in memory and pushed to ready.
AReady(de, a) ==
  /\ Paso("largo", de, a)
  /\ memoria' = [memoria EXCEPT ![suyo["largo"]] = "activo"]
  /\ Push("ready", suyo["largo"])
  /\ Guarda("largo", Nadie)
  /\ UNCHANGED <<sem, cant, inicio, estado, vivo, sinCpu, sinLlegada>>

LargoReanuda == AReady("reanudar", "avisar_sus")

LargoAvisaSus ==
  /\ Paso("largo", "avisar_sus", "wait_lista")
  /\ SemPost({"lista"})
  /\ UNCHANGED <<cola, suyo, cant, inicio, vivo, sinCpu, sinMemoria, sinLlegada>>

\* Line 91: an empty new queue would lose both tokens taken.
LargoMiraNew ==
  /\ Paso("largo", "mirar_new",
          IF cola["new"] = <<>> THEN "wait_lista" ELSE "crear")
  /\ IF cola["new"] = <<>> THEN UNCHANGED <<cola, suyo>> ELSE Pop("new", "largo")
  /\ UNCHANGED <<sem, cant, inicio, vivo, sinCpu, sinMemoria, sinLlegada>>

LargoCrea == AReady("crear", "avisar_new")

\* Mutant: inicio is never set to 0.
LargoAvisaNewSiempre ==
  /\ Paso("largo", "avisar_new", "wait_lista")
  /\ SemPost(IF inicio = 1 THEN {"lista", "corto"} ELSE {"lista"})
  /\ UNCHANGED <<cola, suyo, cant, inicio, vivo, sinCpu, sinMemoria, sinLlegada>>

\* Only the first process ever calls the short-term scheduler from here.
LargoAvisaNew ==
  /\ Paso("largo", "avisar_new", "wait_lista")
  /\ SemPost(IF inicio = 1 THEN {"lista", "corto"} ELSE {"lista"})
  /\ inicio' = 0
  /\ UNCHANGED <<cola, suyo, cant, vivo, sinCpu, sinMemoria, sinLlegada>>

----------------------------------------------------------------------------
\* planificador_de_corto_plazo, FIFO branch.
CortoEspera ==
  /\ Paso("corto", "wait_corto", "wait_lista")
  /\ SemWait("corto")
  /\ UNCHANGED <<cola, suyo, cant, inicio, vivo, sinCpu, sinMemoria, sinLlegada>>

CortoEsperaLista ==
  /\ Paso("corto", "wait_lista", "elegir")
  /\ SemWait("lista")
  /\ UNCHANGED <<cola, suyo, cant, inicio, vivo, sinCpu, sinMemoria, sinLlegada>>

\* pasar_a_running of the head of ready; an empty ready queue loses the call.
CortoElige ==
  /\ Paso("corto", "elegir", "wait_corto")
  /\ IF cola["ready"] = <<>>
       THEN UNCHANGED <<cola, despacho>>
       ELSE /\ despacho' = Append(despacho, Head(cola["ready"]))
            /\ cola' = [cola EXCEPT !["ready"] = Tail(@)]
  /\ UNCHANGED <<sem, suyo, cant, inicio, vivo, retorno, ioHechas, sinMemoria, sinLlegada>>

----------------------------------------------------------------------------
\* The CPU as the kernel sees it: it takes a PCB and gives it back.
CpuRecibe ==
  /\ Paso("cpu", "libre", "corre")
  /\ despacho # <<>>
  /\ Guarda("cpu", Head(despacho))
  /\ despacho' = Tail(despacho)
  /\ UNCHANGED <<cola, sem, cant, inicio, vivo, retorno, ioHechas, sinMemoria, sinLlegada>>

CpuDevuelve(op) ==
  /\ Paso("cpu", "corre", "libre")
  /\ retorno' = Append(retorno, [op |-> op, p |-> suyo["cpu"]])
  /\ Guarda("cpu", Nadie)
  /\ UNCHANGED <<cola, sem, cant, inicio, vivo, despacho, sinMemoria, sinLlegada>>

CpuIo ==
  /\ suyo["cpu"] # Nadie
  /\ ioHechas[suyo["cpu"]] < MaxIo
  /\ ioHechas' = [ioHechas EXCEPT ![suyo["cpu"]] = @ + 1]
  /\ CpuDevuelve("io")

CpuExit == CpuDevuelve("exit") /\ UNCHANGED ioHechas

----------------------------------------------------------------------------
\* recibir_pcb_de_cpu.
RecibeMensaje ==
  /\ retorno # <<>>
  /\ Paso("recibe", "recv",
          IF Head(retorno).op = "io" THEN "encolar_io" ELSE "finalizar")
  /\ Guarda("recibe", Head(retorno).p)
  /\ retorno' = Tail(retorno)
  /\ UNCHANGED <<cola, sem, cant, inicio, vivo, despacho, ioHechas, sinMemoria, sinLlegada>>

RecibeEncola ==
  /\ MutexSuspendidoLibre
  /\ Paso("recibe", "encolar_io", "marcar")
  /\ Push("io", suyo["recibe"])
  /\ UNCHANGED <<sem, suyo, cant, inicio, vivo, sinCpu, sinMemoria, sinLlegada>>

\* Mutant: process_state keeps what the previous I/O left.
RecibeMarcaSinEstado ==
  /\ Paso("recibe", "marcar", "avisar_io")
  /\ UNCHANGED <<cola, sem, suyo, cant, inicio, vivo, sinCpu, sinMemoria, sinLlegada>>

\* The PCB is already in cola_de_io, and mutex_cola_suspendido is released.
RecibeMarca ==
  /\ Paso("recibe", "marcar", "avisar_io")
  /\ estado' = [estado EXCEPT ![suyo["recibe"]] = "blocked"]
  /\ UNCHANGED <<cola, sem, suyo, cant, inicio, memoria, vivo, sinCpu, sinLlegada>>

RecibeAvisaIo ==
  /\ Paso("recibe", "avisar_io", "recv")
  /\ SemPost({"signal", "corto"})
  /\ Guarda("recibe", Nadie)
  /\ UNCHANGED <<cola, cant, inicio, vivo, sinCpu, sinMemoria, sinLlegada>>

RecibeFinaliza ==
  /\ Paso("recibe", "finalizar", "avisar_fin")
  /\ memoria' = [memoria EXCEPT ![suyo["recibe"]] = "eliminado"]
  /\ UNCHANGED <<cola, sem, suyo, cant, inicio, estado, vivo, sinCpu, sinLlegada>>

\* Mutant: an ended process does not give its place back.
RecibeAvisaFinSinLugar ==
  /\ Paso("recibe", "avisar_fin", "recv")
  /\ SemPost({"corto"})
  /\ Guarda("recibe", Nadie)
  /\ UNCHANGED <<cola, cant, inicio, vivo, sinCpu, sinMemoria, sinLlegada>>

RecibeAvisaFin ==
  /\ Paso("recibe", "avisar_fin", "recv")
  /\ SemPost({"multi", "corto"})
  /\ Guarda("recibe", Nadie)
  /\ UNCHANGED <<cola, cant, inicio, vivo, sinCpu, sinMemoria, sinLlegada>>

----------------------------------------------------------------------------
\* Mutant: memory is not told.
SuspenderSinAvisar(p) ==
  /\ UNCHANGED memoria
  /\ estado' = [estado EXCEPT ![p] = "suspended blocked"]

\* dispositivo_io: hands PCBs to the device and watches the waiting ones.
SuspenderEnMemoria(p) ==
  /\ memoria' = [memoria EXCEPT ![p] = "suspendido"]
  /\ estado' = [estado EXCEPT ![p] = "suspended blocked"]

GestorEspera ==
  /\ Paso("gestor", "wait_signal", "contar")
  /\ SemWait("signal")
  /\ UNCHANGED <<cola, suyo, cant, inicio, vivo, sinCpu, sinMemoria, sinLlegada>>

\* Mutant: cantidad_en_io++ is missing.
GestorCuentaDeMenos ==
  /\ Paso("gestor", "contar", "tomar")
  /\ cant' = sem["signal"]
  /\ UNCHANGED <<cola, sem, suyo, inicio, vivo, sinCpu, sinMemoria, sinLlegada>>

\* sem_getvalue: the waiting PCBs announced so far, and the one just taken.
GestorCuenta ==
  /\ Paso("gestor", "contar", "tomar")
  /\ cant' = sem["signal"] + 1
  /\ UNCHANGED <<cola, sem, suyo, inicio, vivo, sinCpu, sinMemoria, sinLlegada>>

\* The for loop of line 211: the mutex is kept while rounds are left.
Ronda(n) == IF n = 0 THEN "wait_signal" ELSE "rotar"

\* Mutant: cantidad_en_io-- is missing.
GestorUsaDispositivoDeMas ==
  /\ En("gestor", "tomar")
  /\ hilo' = [hilo EXCEPT !["gestor"] = Ronda(cant), !["disp"] = "leer"]
  /\ SemWait("dispositivo")
  /\ Pop("io", "disp")
  /\ UNCHANGED <<cant, inicio, vivo, sinCpu, sinMemoria, sinLlegada>>

\* sem_trywait succeeds: realizar_io starts with the head of cola_de_io.
GestorUsaDispositivo ==
  /\ En("gestor", "tomar")
  /\ hilo' = [hilo EXCEPT !["gestor"] = Ronda(cant - 1), !["disp"] = "leer"]
  /\ SemWait("dispositivo")
  /\ Pop("io", "disp")
  /\ cant' = cant - 1
  /\ UNCHANGED <<inicio, vivo, sinCpu, sinMemoria, sinLlegada>>

GestorDispositivoOcupado ==
  /\ sem["dispositivo"] = 0
  /\ Paso("gestor", "tomar", "rotar")
  /\ SemPost({"signal"})
  /\ UNCHANGED <<cola, suyo, cant, inicio, vivo, sinCpu, sinMemoria, sinLlegada>>

\* One round: the PCB has not waited too long, or is suspended already.
GestorRota ==
  /\ cola["io"] # <<>>
  /\ Paso("gestor", "rotar", Ronda(cant - 1))
  /\ cola' = [cola EXCEPT !["io"] = Append(Tail(@), Head(@))]
  /\ cant' = cant - 1
  /\ UNCHANGED <<sem, suyo, inicio, vivo, sinCpu, sinMemoria, sinLlegada>>

\* One round: it has waited too long; the place is freed before memory knows.
GestorVence ==
  /\ Paso("gestor", "rotar", "suspender")
  /\ Pop("io", "gestor")
  /\ estado[Head(cola["io"])] = "blocked"
  /\ SemPost({"multi"})
  /\ UNCHANGED <<cant, inicio, vivo, sinCpu, sinMemoria, sinLlegada>>

\* Mutant: the suspended PCB is not pushed to cola_de_io again.
GestorSuspendeSinEncolar ==
  /\ Paso("gestor", "suspender", Ronda(cant - 1))
  /\ SuspenderEnMemoria(suyo["gestor"])
  /\ Guarda("gestor", Nadie)
  /\ cant' = cant - 1
  /\ UNCHANGED <<cola, sem, inicio, vivo, sinCpu, sinLlegada>>

GestorSuspende ==
  /\ Paso("gestor", "suspender", Ronda(cant - 1))
  /\ SuspenderEnMemoria(suyo["gestor"])
  /\ Push("io", suyo["gestor"])
  /\ Guarda("gestor", Nadie)
  /\ cant' = cant - 1
  /\ UNCHANGED <<sem, inicio, vivo, sinCpu, sinLlegada>>

\* strcmp(NULL, "blocked"): waited too long and not yet in process_state.
GestorCae ==
  /\ En("gestor", "rotar")
  /\ cola["io"] # <<>>
  /\ estado[Head(cola["io"])] = "nulo"
  /\ vivo' = FALSE
  /\ UNCHANGED <<cola, sem, hilo, suyo, cant, inicio, sinCpu, sinMemoria, sinLlegada>>

----------------------------------------------------------------------------
\* Mutant: a PCB the gestor suspended frees its place a second time.
DispLeeSubeDeNuevo ==
  /\ En("disp", "leer")
  /\ estado[suyo["disp"]] # "nulo"
  /\ \/ estado[suyo["disp"]] = "blocked" /\ Paso("disp", "leer", "io_normal")
     \/ estado[suyo["disp"]] = "blocked" /\ Paso("disp", "leer", "io_suspender")
     \/ estado[suyo["disp"]] # "blocked" /\ Paso("disp", "leer", "io_subir")
  /\ UNCHANGED <<cola, sem, suyo, cant, inicio, vivo, sinCpu, sinMemoria, sinLlegada>>

\* realizar_io: one PCB at a time, from the queue to ready or to susReady.
\* Line 140-142: the state read decides, and then the time that is left.
DispLee ==
  /\ En("disp", "leer")
  /\ estado[suyo["disp"]] # "nulo"
  /\ \/ /\ estado[suyo["disp"]] = "blocked"
        /\ Paso("disp", "leer", "io_normal")
     \/ /\ estado[suyo["disp"]] = "blocked"
        /\ Paso("disp", "leer", "io_suspender")
     \/ /\ estado[suyo["disp"]] # "blocked"
        /\ Paso("disp", "leer", "sus_ready")
  /\ UNCHANGED <<cola, sem, suyo, cant, inicio, vivo, sinCpu, sinMemoria, sinLlegada>>

\* strcmp(NULL, "blocked") of line 140.
DispCae ==
  /\ En("disp", "leer")
  /\ estado[suyo["disp"]] = "nulo"
  /\ vivo' = FALSE
  /\ UNCHANGED <<cola, sem, hilo, suyo, cant, inicio, sinCpu, sinMemoria, sinLlegada>>

DispIoNormal ==
  /\ Paso("disp", "io_normal", "soltar_ready")
  /\ Push("ready", suyo["disp"])
  /\ Guarda("disp", Nadie)
  /\ UNCHANGED <<sem, cant, inicio, vivo, sinCpu, sinMemoria, sinLlegada>>

DispSuspende ==
  /\ Paso("disp", "io_suspender", "io_subir")
  /\ SuspenderEnMemoria(suyo["disp"])
  /\ UNCHANGED <<cola, sem, suyo, cant, inicio, vivo, sinCpu, sinLlegada>>

DispSube ==
  /\ Paso("disp", "io_subir", "sus_ready")
  /\ SemPost({"multi"})
  /\ UNCHANGED <<cola, suyo, cant, inicio, vivo, sinCpu, sinMemoria, sinLlegada>>

DispASusReady ==
  /\ MutexSusReadyLibre
  /\ Paso("disp", "sus_ready", "soltar_sus")
  /\ estado' = [estado EXCEPT ![suyo["disp"]] = "suspended ready"]
  /\ Push("susReady", suyo["disp"])
  /\ Guarda("disp", Nadie)
  /\ UNCHANGED <<sem, cant, inicio, memoria, vivo, sinCpu, sinLlegada>>

\* The post for the queue: others may take the PCB while the device is still busy.
DispAvisa ==
  /\ \/ Paso("disp", "soltar_ready", "soltar") /\ SemPost({"lista"})
     \/ Paso("disp", "soltar_sus", "soltar") /\ SemPost({"esperando"})
  /\ UNCHANGED <<cola, suyo, cant, inicio, vivo, sinCpu, sinMemoria, sinLlegada>>

\* Line 189, a step of its own: sem_trywait of line 204 fails until then.
DispSuelta ==
  /\ Paso("disp", "soltar", "libre")
  /\ SemPost({"dispositivo"})
  /\ UNCHANGED <<cola, suyo, cant, inicio, vivo, sinCpu, sinMemoria, sinLlegada>>

----------------------------------------------------------------------------
Llegada(p) == Recibir(p) \/ AvisarLlegada(p)

Largo == \/ LargoEsperaLista \/ LargoEsperaMulti \/ LargoMiraSus \/ LargoReanuda
         \/ LargoAvisaSus \/ LargoMiraNew \/ LargoCrea \/ LargoAvisaNew

Corto == CortoEspera \/ CortoEsperaLista \/ CortoElige

Cpu == CpuRecibe \/ CpuIo \/ CpuExit

Recibe == \/ RecibeMensaje \/ RecibeEncola \/ RecibeMarca \/ RecibeAvisaIo
          \/ RecibeFinaliza \/ RecibeAvisaFin

Gestor == \/ GestorEspera \/ GestorCuenta \/ GestorUsaDispositivo
          \/ GestorDispositivoOcupado \/ GestorRota \/ GestorVence
          \/ GestorSuspende \/ GestorCae

Disp == \/ DispLee \/ DispCae \/ DispIoNormal \/ DispSuspende \/ DispSube
        \/ DispASusReady \/ DispAvisa \/ DispSuelta

Next == \/ \E p \in Procesos : Llegada(p)
        \/ Largo \/ Corto \/ Cpu \/ Recibe \/ Gestor \/ Disp

Spec == Init /\ [][Next]_vars

(***************************************************************************)
(* Every thread is a pthread the operating system keeps scheduling, every  *)
(* I/O lasts a finite usleep, memory answers every request and a program   *)
(* that runs reaches its next I_O or its EXIT.  Consoles need not come.    *)
(***************************************************************************)
Equidad ==
  /\ \A p \in Procesos : WF_vars(AvisarLlegada(p))
  /\ WF_vars(Largo)
  /\ WF_vars(Corto)
  /\ WF_vars(Cpu)
  /\ WF_vars(Recibe)
  /\ WF_vars(Gestor)
  /\ WF_vars(Disp)

SpecJusta == Spec /\ Equidad

----------------------------------------------------------------------------
(***************************************************************************)
(* Properties.                                                             *)
(***************************************************************************)
Uno(b) == IF b THEN 1 ELSE 0

Mensajes == [op : {"io", "exit"}, p : Procesos]

\* Every thread is somewhere in its own code.
TiposHilos ==
  /\ hilo \in [Hilos -> Pcs]
  /\ hilo["largo"] \in PcLargo /\ hilo["corto"] \in PcCorto /\ hilo["recibe"] \in PcRecibe
  /\ hilo["gestor"] \in PcGestor /\ hilo["disp"] \in PcDisp /\ hilo["cpu"] \in PcCpu

TiposDatos ==
  /\ cola \in [Colas -> Seq(Procesos)]
  /\ sem \in [Semaforos -> Nat]
  /\ suyo \in [Hilos -> Procesos \union {Nadie}]
  /\ cant \in Int
  /\ despacho \in Seq(Procesos)
  /\ retorno \in Seq(Mensajes)
  /\ inicio \in {0, 1}
  /\ estado \in [Procesos -> Estados]
  /\ memoria \in [Procesos -> Memorias]
  /\ afuera \subseteq Procesos
  /\ avisando \subseteq Procesos
  /\ ioHechas \in [Procesos -> 0 .. MaxIo]
  /\ vivo \in BOOLEAN

\* A thread whose program counter says it works on a PCB has one in its hands.
ManosLlenas ==
  /\ hilo["largo"] \in {"reanudar", "crear"} => suyo["largo"] \in Procesos
  /\ hilo["recibe"] # "recv" => suyo["recibe"] \in Procesos
  /\ hilo["gestor"] = "suspender" => suyo["gestor"] \in Procesos
  /\ hilo["disp"] \notin {"libre", "soltar_ready", "soltar_sus", "soltar"}
       => suyo["disp"] \in Procesos
  /\ hilo["cpu"] = "corre" => suyo["cpu"] \in Procesos

\* Every variable has its type, and no thread reads a PCB it does not have.
TypeOK == TiposHilos /\ TiposDatos /\ ManosLlenas

\* How many PCBs are in a queue.
Encolados(c) == Len(cola[c])

\* Who holds, or owes, one unit of a count: 1 while the thread is there.
CortoActivo    == Uno(hilo["corto"] # "wait_corto")
CpuActiva      == Uno(hilo["cpu"] = "corre")
RecibeActivo   == Uno(hilo["recibe"] # "recv")
DispActivo     == Uno(hilo["disp"] # "libre")
CortoSaca      == Uno(hilo["corto"] = "elegir")
LargoDebeLista == Uno(hilo["largo"] \in {"avisar_sus", "avisar_new"})
DispDebeLista  == Uno(hilo["disp"] = "soltar_ready")
LargoTomo      == Uno(hilo["largo"] \in {"wait_multi", "mirar_sus", "mirar_new"})
DispDebeSus    == Uno(hilo["disp"] = "soltar_sus")
GestorTomo     == Uno(hilo["gestor"] \in {"contar", "tomar"})
RecibeDebe     == Uno(hilo["recibe"] \in {"marcar", "avisar_io"})
GestorTiene    == Uno(hilo["gestor"] = "suspender")

(***************************************************************************)
(* The inductive invariant of the counting properties below, conjunct by   *)
(* conjunct.  FichaUnica: the right to use the CPU is one token, handed    *)
(* from inicio to binario_plani_corto, to the short-term scheduler, to the *)
(* CPU and back through recibir_pcb_de_cpu.                                *)
(***************************************************************************)
FichaUnica ==
  inicio + sem["corto"] + CortoActivo + Len(despacho) + CpuActiva
    + Len(retorno) + RecibeActivo = 1

\* Every semaphore that counts PCBs counts those of its queue, minus the
\* posts that are still to come, plus the tokens already taken.
CuentaReady ==
  sem["lista"] + CortoSaca + LargoDebeLista + DispDebeLista = Encolados("ready")

CuentaEsperando ==
  sem["esperando"] + Cardinality(avisando) + LargoTomo + DispDebeSus
  = Encolados("new") + Encolados("susReady")

CuentaIo ==
  sem["signal"] + GestorTomo + RecibeDebe = Encolados("io") + GestorTiene

\* cantidad_en_io is out of date at once, but never too large.
RondasContadas ==
  /\ hilo["gestor"] = "tomar" => cant \in 1 .. (sem["signal"] + 1)
  /\ hilo["gestor"] \in {"rotar", "suspender"} => cant \in 1 .. sem["signal"]

DispositivoUnico == sem["dispositivo"] + DispActivo = 1

\* The thread that posts for a program runs after its console was served.
AfueraAparte == afuera \intersect avisando = {}

MiraNewConAlgo == hilo["largo"] = "mirar_new" => Encolados("new") > 0

\* The tokens and counts of all the threads, at any moment.
Cuentas == /\ FichaUnica /\ CuentaReady /\ CuentaEsperando /\ CuentaIo
           /\ RondasContadas /\ DispositivoUnico /\ MiraNewConAlgo
           /\ AfueraAparte

Inductiva == TypeOK /\ Cuentas

(***************************************************************************)
(* The kernel never has two processes in the CPU: whatever the order in    *)
(* which consoles, I/O and the CPU wake the short-term scheduler, at most  *)
(* one PCB is travelling to the CPU, running, or travelling back, and      *)
(* binario_plani_corto, posted from three threads, really stays binary.    *)
(***************************************************************************)
UnSoloPcbEnCpu ==
  /\ Len(despacho) + CpuActiva + Len(retorno) <= 1
  /\ sem["corto"] <= 1

(***************************************************************************)
(* No queue_pop of the kernel finds its queue empty (the commons library   *)
(* returns NULL, and every caller dereferences it): the counts of the      *)
(* semaphores never run ahead of the queues, although pushes and posts are *)
(* separate steps of several threads.                                      *)
(***************************************************************************)
ColasNuncaVacias ==
  /\ hilo["largo"] = "mirar_new" => cola["new"] # <<>>
  /\ hilo["corto"] = "elegir" => cola["ready"] # <<>>
  /\ hilo["gestor"] \in {"tomar", "rotar"} => cola["io"] # <<>>

\* The places where process p is: queues, messages, hands of threads, the end.
Lugares(p) ==
  (UNION {{<<c, i>> : i \in {j \in DOMAIN cola[c] : cola[c][j] = p}} : c \in Colas})
  \union {<<"despacho", i>> : i \in {j \in DOMAIN despacho : despacho[j] = p}}
  \union {<<"retorno", i>> : i \in {j \in DOMAIN retorno : retorno[j].p = p}}
  \union {<<h, 0>> : h \in {g \in Hilos : suyo[g] = p /\ hilo[g] \notin {"marcar", "avisar_io"}}}
  \union {<<"afuera", i>> : i \in {j \in {0} : p \in afuera}}
  \union {<<"fin", i>> : i \in {j \in {0} : memoria[p] = "eliminado" /\ suyo["recibe"] # p}}

(***************************************************************************)
(* No PCB is lost or duplicated on its way through the queues, the threads *)
(* and the CPU: every process is in exactly one place.                     *)
(***************************************************************************)
CadaPcbEnUnLugar == \A p \in Procesos : Cardinality(Lugares(p)) = 1

\* A thread holds a PCB only from the moment it takes it to the moment it gives
\* it away; the short-term scheduler never does across steps.
ManosVacias ==
  /\ suyo["corto"] = Nadie
  /\ hilo["largo"] \notin {"reanudar", "crear"} => suyo["largo"] = Nadie
  /\ hilo["recibe"] = "recv" => suyo["recibe"] = Nadie
  /\ hilo["gestor"] # "suspender" => suyo["gestor"] = Nadie
  /\ hilo["disp"] \in {"libre", "soltar_ready", "soltar_sus", "soltar"} => suyo["disp"] = Nadie
  /\ hilo["cpu"] = "libre" => suyo["cpu"] = Nadie

\* Memory has deleted the process that recibir_pcb_de_cpu ends, and no other
\* that this thread still has in its hands.
FinDeRecibe ==
  hilo["recibe"] # "recv" =>
    (memoria[suyo["recibe"]] = "eliminado" <=> hilo["recibe"] = "avisar_fin")

\* The invariant that proves CadaPcbEnUnLugar.
InductivaLugares == Inductiva /\ ManosVacias /\ FinDeRecibe /\ CadaPcbEnUnLugar

Residentes == {p \in Procesos : memoria[p] = "activo"}

(***************************************************************************)
(* The degree of multiprogramming is kept to the unit: the places free in  *)
(* the semaphore, those taken on the way to ready, the processes resident  *)
(* in memory and those on their way out add up to Grado, but while the     *)
(* gestor has freed a place whose process memory has not suspended yet.    *)
(***************************************************************************)
NingunLugarSePierde ==
  sem["multi"]
    + Uno(hilo["largo"] \in {"mirar_sus", "reanudar", "mirar_new", "crear"})
    + Cardinality(Residentes)
    + Uno(hilo["recibe"] = "avisar_fin") + Uno(hilo["disp"] = "io_subir")
  = Grado + Uno(hilo["gestor"] = "suspender")

(***************************************************************************)
(* A process waits to be resumed only if memory was told to suspend it:    *)
(* the kernel asks memory to REANUDAR what it asked it to SUSPENDER, the   *)
(* request lines 160 and 222 of planificador.c insist on.                  *)
(***************************************************************************)
SoloSuspendidosSeReanudan ==
  \A i \in DOMAIN cola["susReady"] : memoria[cola["susReady"][i]] = "suspendido"

(***************************************************************************)
(* recibir_pcb_de_cpu has pushed a PCB to cola_de_io and not yet put its   *)
(* new process_state (lines 266-268): nobody works on it with the state of *)
(* its last stay in the queue.  In its first stay there is none, and       *)
(* reading it crashes (GestorCae, DispCae).                                *)
(***************************************************************************)
VentanaSinUsar ==
  hilo["recibe"] = "marcar" /\ estado[suyo["recibe"]] # "nulo" =>
    suyo["recibe"] \notin {suyo["disp"], suyo["gestor"]}

(***************************************************************************)
(* Where that window is never used, every process that reached the kernel  *)
(* ends, with Grado = 1 too: nobody starves in new, in susReady, in ready  *)
(* or in cola_de_io, and no token is lost between the planners.  Where it  *)
(* is used the kernel crashes, or starts a PCB as suspended that is not,   *)
(* whose place is never given back: with one place everybody waits.        *)
(***************************************************************************)
TodosTerminan ==
  [](vivo /\ VentanaSinUsar) =>
    \A p \in Procesos : (p \notin afuera) ~> (memoria[p] = "eliminado")

EnCola(c, p) == \E i \in DOMAIN cola[c] : cola[c][i] = p

\* What a thread is doing with the PCB in its hands.
Trabajos == {"crear", "reanudar", "encolar_io", "finalizar", "suspender", "leer",
             "io_normal", "io_suspender", "io_subir", "sus_ready", "corre"}

\* Process p is at s: a queue, a connection with the CPU, the step of the thread
\* that has its PCB, still at its console, or deleted from memory.
EstaEn(s, p) ==
  \/ s = "afuera" /\ p \in afuera
  \/ s \in Colas /\ EnCola(s, p)
  \/ s = "despacho" /\ \E i \in DOMAIN despacho : despacho[i] = p
  \/ s = "retorno" /\ \E i \in DOMAIN retorno : retorno[i].p = p
  \/ s \in Trabajos /\ \E h \in Hilos : hilo[h] = s /\ suyo[h] = p
  \/ s = "eliminado" /\ memoria[p] = "eliminado"

Entre(S, p) == \E s \in S : EstaEn(s, p)

\* The places of some of the states of the diagram.
EnNew      == {"new", "crear"}
EnExec     == {"despacho", "corre", "retorno", "encolar_io", "finalizar"}
EnSusReady == {"susReady", "reanudar"}

(***************************************************************************)
(* What memory was last told about a process, by the place where it is:    *)
(* the invariant of the two properties above while VentanaSinUsar holds.   *)
(***************************************************************************)
EnLaVentana(p) == hilo["recibe"] = "marcar" /\ suyo["recibe"] = p

EstadoFiel(p) == \/ estado[p] = "blocked" /\ memoria[p] = "activo"
                 \/ estado[p] = "suspended blocked" /\ memoria[p] = "suspendido"

SegunLugar(p) ==
  \/ memoria[p] = "sin" /\ Entre({"afuera"} \union EnNew, p)
  \/ memoria[p] = "activo" /\ Entre({"ready", "io_normal", "io_suspender"} \union EnExec, p)
  \/ memoria[p] = "activo" /\ estado[p] = "blocked" /\ EstaEn("suspender", p)
  \/ memoria[p] = "suspendido" /\ Entre({"io_subir", "sus_ready"} \union EnSusReady, p)
  \/ memoria[p] = "eliminado"
  \/ Entre({"io", "leer"}, p) /\ IF EnLaVentana(p) THEN memoria[p] = "activo" ELSE EstadoFiel(p)

MemoriaSegunLugar == \A p \in Procesos : SegunLugar(p)

InductivaCiclo == InductivaLugares /\ MemoriaSegunLugar /\ NingunLugarSePierde

----------------------------------------------------------------------------
(***************************************************************************)
(* Refinement of CicloDeVida.  A process leaves the blocked phase when its *)
(* place is given up: memory suspends it, or the gestor posts the place.   *)
(***************************************************************************)
Fase(p) ==
  CASE p \in afuera -> "afuera"
    [] EnCola("new", p) \/ (suyo["largo"] = p /\ hilo["largo"] = "crear") -> "new"
    [] EnCola("ready", p) -> "ready"
    [] EnCola("susReady", p) \/ (suyo["largo"] = p /\ hilo["largo"] = "reanudar")
         -> "susReady"
    [] EnCola("io", p) \/ suyo["gestor"] = p \/ suyo["disp"] = p
         -> IF memoria[p] = "activo" /\ suyo["gestor"] # p THEN "blocked" ELSE "susBlocked"
    [] memoria[p] = "eliminado" -> "exit"
    [] OTHER -> "exec"

Ciclo == INSTANCE CicloDeVida WITH fase <- [p \in Procesos |-> Fase(p)]

\* The threads, queues and semaphores implement the seven-state diagram with
\* one CPU and at most Grado processes in ready, exec and blocked.
CumpleCiclo == Ciclo!Spec
============================================================================
