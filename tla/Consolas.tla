------------------------------ MODULE Consolas ------------------------------
(***************************************************************************)
(* A program from its file to its end: the consoles, the accept loop of    *)
(* the kernel with its single cliente_fd, the threads that receive the     *)
(* programs, the PCBs that go to the CPU and back as packets, and the CPU  *)
(* that executes them (consola/, Kernel/planificador.c, CPU/CPU.c).        *)
(*                                                                         *)
(* ALGORITMO_PLANIFICACION=FIFO, and a place in memory for every process:  *)
(* scheduling threads and degree are the subject of module Kernel, so each *)
(* of their operations is one step here, but the arrival of an I/O, whose  *)
(* PCB is in cola_de_io before process_state has an entry for it. What     *)
(* memory answers to the instructions is the subject of Mmu. A console     *)
(* keeps its number as file descriptor in the kernel, which never closes   *)
(* one of a console it serves.                                             *)
(***************************************************************************)
EXTENDS Serializacion

CONSTANTS Conectables,       \* the consoles: their descriptors in the kernel
          Archivos,          \* bound: the files they may be given
          TamanioDe,         \* console -> its argument tamanio
          EstimacionInicial, \* ESTIMACION_INICIAL
          Horas,             \* bound: what currentTimeMillis may return
          AlfaNum, AlfaDen   \* ALFA, as a fraction

Conocidas == {operaciones[i] : i \in DOMAIN operaciones}

\* Numbers a line must have: atoi and the CPU do not check.
Operandos(nombre) == CASE nombre \in {"NO_OP", "I/O", "READ"} -> 1
                       [] nombre \in {"WRITE", "COPY"} -> 2
                       [] OTHER -> 0

ASSUME ConectablesAssumption ==
  /\ Conectables \subseteq Palabra \ {0}
  /\ TamanioDe \in [Conectables -> Palabra]

\* A program whose PCB has a size that fits in its 32 bits, and operands.
ASSUME ArchivosAssumption ==
  \A a \in Archivos :
    /\ a \in Seq([nombre : STRING, numeros : Seq(Palabra)])
    /\ \A i \in DOMAIN a :
         a[i].nombre \in Conocidas => Len(a[i].numeros) >= Operandos(a[i].nombre)
    /\ 6 * Ancho + Ancho * Len(EnPalabras(agregar_instrucciones(a))) + 3 * Largo \in Palabra
ASSUME TiempoAssumption ==
  /\ {EstimacionInicial} \cup Horas \subseteq 0 .. BasePalabra * BasePalabra - 1
  /\ AlfaNum \in 0 .. AlfaDen /\ AlfaDen \in Nat \ {0}

VARIABLES
  archivo,      \* console -> the lines of its file
  consola,      \* console -> where its main is
  haciaKernel,  \* console -> words it has sent and nobody has received
  haciaConsola, \* console -> words the kernel has sent it
  cliente_fd,   \* the variable of escuchar_consola; 0 before the first
  hilo,         \* console -> the thread created when it was accepted
  vivo,         \* FALSE once the kernel crashed: a copy of 4 GB, or a NULL
  proximo_pid,
  colas,        \* the PCBs in the kernel: nuevos, susReady, ready; in I/O
  corto,        \* binario_plani_corto
  inicio,       \* 1 until a process has reached ready
  tablas,       \* the tables of first level that memory has created
  process_state, \* pid -> "blocked" or "suspended ready", since its first I/O
  recibe,       \* recibir_pcb_de_cpu: its phase, the pid it has pushed to I/O
  despacho,     \* words to the CPU on the dispatch connection
  retorno,      \* words from the CPU
  cpu,          \* escuchar_kernel: its phase, its loop variable, its PCB
  duenio,       \* history: pid -> the console whose program it got
  ejecutadas,   \* history: console -> instructions executed for it
  despachado    \* history: pid -> its PCB when it was last dispatched

consolaVars == <<archivo, consola, haciaKernel, haciaConsola>>
admision == <<cliente_fd, hilo, proximo_pid>>
cpuVars == <<despacho, retorno, cpu>>
planVars == <<colas, corto, inicio, tablas>>
ioVars == <<process_state, recibe>>
historia == <<duenio, ejecutadas, despachado>>
vars == <<consolaVars, admision, vivo, planVars, ioVars, cpuVars, historia>>

Anota(f, x, y) == [z \in DOMAIN f \cup {x} |-> IF z = x THEN y ELSE f[z]]

SinHilo == [fase |-> "no", fd |-> 0, size |-> 0, stream |-> <<>>]
SinPcb == <<>>
CpuLibre == [fase |-> "libre", i |-> 0, pcb |-> SinPcb]
RecibeLibre == [fase |-> "recv", pid |-> 0]

Init ==
  /\ archivo \in [Conectables -> Archivos]
  /\ consola = [c \in Conectables |-> "sin conectar"]
  /\ haciaKernel = [c \in Conectables |-> <<>>]
  /\ haciaConsola = [c \in Conectables |-> <<>>]
  /\ cliente_fd = 0
  /\ hilo = [c \in Conectables |-> SinHilo]
  /\ vivo = TRUE
  /\ proximo_pid = 0
  /\ colas = [nuevos |-> <<>>, susReady |-> <<>>, ready |-> <<>>, io |-> <<>>]
  /\ corto = 0 /\ inicio = 1
  /\ tablas = 0
  /\ process_state = <<>> /\ recibe = RecibeLibre
  /\ despacho = <<>> /\ retorno = <<>>
  /\ cpu = CpuLibre
  /\ duenio = <<>>
  /\ ejecutadas = [c \in Conectables |-> <<>>]
  /\ despachado = <<>>

----------------------------------------------------------------------------
(* The console.                                                            *)

Pasa(c, de, a) == consola[c] = de /\ consola' = [consola EXCEPT ![c] = a]

\* crear_conexion: connect and the handshake; then it waits for the answer.
Conecta(c) ==
  /\ Pasa(c, "sin conectar", "conectada")
  /\ UNCHANGED <<archivo, haciaKernel, haciaConsola, admision, vivo, planVars, ioVars, cpuVars, historia>>

\* main: the file is parsed, serialised and sent.
EnviaPrograma(c) ==
  /\ Pasa(c, "aceptada", "espera")
  /\ \E lista \in {agregar_instrucciones(archivo[c])} :
       \E buffer \in {serializar_instrucciones(lista, TamanioDe[c])} :
         haciaKernel' = [haciaKernel EXCEPT ![c] =
                           @ \o empaquetar(buffer, OPERACION_ENVIO_INSTRUCCIONES)]
  /\ UNCHANGED <<archivo, haciaConsola, admision, vivo, planVars, ioVars, cpuVars, historia>>

\* Whatever the kernel sends ends it.
RecibeResultado(c) ==
  /\ haciaConsola[c] # <<>>
  /\ Pasa(c, "espera", "terminada")
  /\ haciaConsola' = [haciaConsola EXCEPT ![c] = Tail(@)]
  /\ UNCHANGED <<archivo, haciaKernel, admision, vivo, planVars, ioVars, cpuVars, historia>>

----------------------------------------------------------------------------
(* escuchar_consola and the threads it creates, that get the address of    *)
(* cliente_fd and read it three times.                                     *)

\* esperar_cliente answers the handshake; cliente_fd is the same for all.
Acepta(c) ==
  /\ vivo
  /\ Pasa(c, "conectada", "aceptada")
  /\ cliente_fd' = c
  /\ hilo' = [hilo EXCEPT ![c].fase = "operacion"]
  /\ UNCHANGED <<archivo, haciaKernel, haciaConsola, proximo_pid, vivo, planVars, ioVars, cpuVars, historia>>

\* A thread evaluates *cliente_fd and calls recv.
LeeFd(h, de, a) ==
  /\ vivo /\ hilo[h].fase = de
  /\ hilo' = [hilo EXCEPT ![h].fase = a, ![h].fd = cliente_fd]
  /\ UNCHANGED <<consolaVars, cliente_fd, proximo_pid, vivo, planVars, ioVars, cpuVars, historia>>

LeeFdOperacion(h) == LeeFd(h, "operacion", "recv operacion")
LeeFdBuffer(h) == LeeFd(h, "buffer", "recv size")

\* The end of the connection is -1, and ends the thread as any other code.
recibir_operacion(h) ==
  LET fd == hilo[h].fd
      palabras == haciaKernel[fd]
  IN /\ vivo /\ hilo[h].fase = "recv operacion"
     /\ palabras # <<>> \/ consola[fd] = "terminada"
     /\ hilo' = [hilo EXCEPT ![h].fase =
          IF palabras # <<>> /\ Head(palabras) = OPERACION_ENVIO_INSTRUCCIONES
          THEN "buffer" ELSE "termino"]
     /\ haciaKernel' = [haciaKernel EXCEPT ![fd] = IF palabras = <<>> THEN @ ELSE Tail(@)]
     /\ UNCHANGED <<archivo, consola, haciaConsola, cliente_fd, proximo_pid, vivo, planVars,
                    ioVars, cpuVars, historia>>

\* recibir_buffer, first recv.
RecibeSize(h) ==
  LET fd == hilo[h].fd
  IN /\ vivo /\ hilo[h].fase = "recv size"
     /\ haciaKernel[fd] # <<>>
     /\ hilo' = [hilo EXCEPT ![h].fase = "recv stream", ![h].size = Head(haciaKernel[fd])]
     /\ haciaKernel' = [haciaKernel EXCEPT ![fd] = Tail(@)]
     /\ UNCHANGED <<archivo, consola, haciaConsola, cliente_fd, proximo_pid, vivo, planVars,
                    ioVars, cpuVars, historia>>

\* Its second recv waits for all the bytes.
RecibeStream(h) ==
  LET fd == hilo[h].fd
      recibido == recibir_buffer(<<hilo[h].size>> \o haciaKernel[fd])
  IN /\ vivo /\ hilo[h].fase = "recv stream"
     /\ Len(haciaKernel[fd]) >= Palabras(hilo[h].size)
     /\ hilo' = [hilo EXCEPT ![h].fase = "crear", ![h].stream = recibido.stream]
     /\ haciaKernel' = [haciaKernel EXCEPT ![fd] = recibido.resto]
     /\ UNCHANGED <<archivo, consola, haciaConsola, cliente_fd, proximo_pid, vivo, planVars,
                    ioVars, cpuVars, historia>>

\* The section of mutex_cola_new. A size below 4 makes the copy of
\* crear_header as long as 2^32 - 4 bytes.
CreaPcb(h) ==
  /\ vivo /\ hilo[h].fase = "crear"
  /\ hilo' = [hilo EXCEPT ![h] = [SinHilo EXCEPT !.fase = "termino"]]
  /\ IF hilo[h].size >= Ancho
     THEN /\ colas' = [colas EXCEPT !.nuevos = Append(@,
               [crear_header(proximo_pid, hilo[h].size, hilo[h].stream, EstimacionInicial)
                  EXCEPT !.socket_consola = cliente_fd])]
          /\ proximo_pid' = proximo_pid + 1
          /\ duenio' = Anota(duenio, proximo_pid, hilo[h].fd)
          /\ UNCHANGED vivo
     ELSE vivo' = FALSE /\ UNCHANGED <<colas, proximo_pid, duenio>>
  /\ UNCHANGED <<consolaVars, cliente_fd, corto, inicio, tablas, ioVars, cpuVars, ejecutadas, despachado>>

----------------------------------------------------------------------------
(* The schedulers and the device, one step per operation.                  *)

\* funcion_pasar_a_ready: suspended processes first.
Reanuda ==
  /\ vivo /\ colas.susReady # <<>>
  /\ colas' = [colas EXCEPT !.susReady = Tail(@), !.ready = Append(@, Head(colas.susReady))]
  /\ UNCHANGED <<consolaVars, admision, vivo, corto, inicio, tablas, ioVars, cpuVars, historia>>

\* Mutant: the first process is the first for ever.
PasaAReadySiempreInicio ==
  /\ vivo /\ colas.susReady = <<>> /\ colas.nuevos # <<>>
  /\ colas' = [colas EXCEPT !.nuevos = Tail(@),
                            !.ready = Append(@, [Head(colas.nuevos) EXCEPT !.tabla_paginas = tablas])]
  /\ tablas' = tablas + 1
  /\ corto' = corto + inicio
  /\ UNCHANGED <<consolaVars, admision, vivo, inicio, ioVars, cpuVars, historia>>

\* CREAR_PROCESO answers with the number of tables that memory had; the
\* first process to be ready calls the short-term scheduler.
PasaAReady ==
  /\ vivo /\ colas.susReady = <<>> /\ colas.nuevos # <<>>
  /\ colas' = [colas EXCEPT !.nuevos = Tail(@),
                            !.ready = Append(@, [Head(colas.nuevos) EXCEPT !.tabla_paginas = tablas])]
  /\ tablas' = tablas + 1
  /\ corto' = corto + inicio /\ inicio' = 0
  /\ UNCHANGED <<consolaVars, admision, vivo, ioVars, cpuVars, historia>>

\* planificador_de_corto_plazo and pasar_a_running.
PasaARunning ==
  LET pcb == Head(colas.ready)
  IN /\ vivo /\ corto > 0 /\ colas.ready # <<>>
     /\ corto' = corto - 1
     /\ colas' = [colas EXCEPT !.ready = Tail(@)]
     /\ despacho' = despacho \o empaquetar(serializar_header(pcb), OPERACION_ENVIO_PCB)
     /\ despachado' = Anota(despachado, pcb.pid, pcb)
     /\ UNCHANGED <<consolaVars, admision, vivo, inicio, tablas, ioVars, retorno, cpu, duenio, ejecutadas>>

hacer_cuenta_srt(pcb) ==
  [pcb EXCEPT !.estimacion_siguiente =
                 (pcb.real_actual * AlfaNum + @ * (AlfaDen - AlfaNum)) \div AlfaDen,
              !.real_actual = 0]

\* signal_a_io: the PCBs of cola_de_io that were announced with a post.
Anunciados == Len(colas.io) - (IF recibe.fase = "marcar" THEN 1 ELSE 0)

\* dispositivo_io rotates cola_de_io, so any may be the next of realizar_io. It
\* was not suspended, or it was, and then FIFO leaves its estimation alone.
realizar_io ==
  /\ vivo /\ Anunciados > 0
  /\ \E i \in DOMAIN colas.io :
       LET pcb == colas.io[i]
           resto == [colas EXCEPT !.io = RemoveAt(@, i)]
       IN /\ pcb.pid \in DOMAIN process_state
          /\ \/ /\ process_state[pcb.pid] = "blocked"
                /\ colas' = [resto EXCEPT !.ready = Append(@, hacer_cuenta_srt(pcb))]
                /\ UNCHANGED process_state
             \/ /\ colas' = [resto EXCEPT !.susReady = Append(@, pcb)]
                /\ process_state' = Anota(process_state, pcb.pid, "suspended ready")
  /\ UNCHANGED <<consolaVars, admision, vivo, corto, inicio, tablas, recibe, cpuVars, historia>>

\* The device or the gestor looks at a PCB in its first I/O that has no entry
\* yet: strcmp of NULL.
CaeSinEstado ==
  /\ vivo /\ Anunciados > 0
  /\ \E i \in DOMAIN colas.io : colas.io[i].pid \notin DOMAIN process_state
  /\ vivo' = FALSE
  /\ UNCHANGED <<consolaVars, admision, planVars, ioVars, cpuVars, historia>>

----------------------------------------------------------------------------
(* escuchar_kernel and ciclo_de_instruccion. Without SRT nobody interrupts.*)

RecibePcb ==
  /\ cpu.fase = "libre" /\ despacho # <<>> /\ Head(despacho) = OPERACION_ENVIO_PCB
  /\ \E recibido \in {recibir_buffer(Tail(despacho))} :
       /\ \E pcb \in {recibir_pcb_cpu(recibido.stream)} :
            cpu' = [fase |-> "corre", i |-> pcb.program_counter, pcb |-> pcb]
       /\ despacho' = recibido.resto
  /\ UNCHANGED <<consolaVars, admision, vivo, planVars, ioVars, retorno, historia>>

\* fetch: program_counter is an index from 0.
Instruccion == cpu.pcb.instrucciones[cpu.pcb.program_counter + 1]

EnCiclo(codigos) ==
  /\ cpu.fase = "corre"
  /\ cpu.i < Len(cpu.pcb.instrucciones)
  /\ Instruccion.cod_op \in codigos

\* The console whose program is in the CPU executes its instruction.
Ejecuta ==
  ejecutadas' = [ejecutadas EXCEPT ![duenio[cpu.pcb.pid]] = Append(@, Instruccion)]

\* NO_OP, and READ, WRITE and COPY, that ask memory.
EjecutaComun ==
  /\ EnCiclo({Codigo(n) : n \in {"NO_OP", "READ", "WRITE", "COPY"}})
  /\ Ejecuta
  /\ cpu' = [cpu EXCEPT !.i = @ + 1, !.pcb.program_counter = @ + 1]
  /\ UNCHANGED <<consolaVars, admision, vivo, planVars, ioVars, despacho, retorno, duenio, despachado>>

\* Mutant: the PCB is serialised before the program counter moves.
EjecutaIoSinAvanzar ==
  /\ EnCiclo({Codigo("I/O")})
  /\ Ejecuta
  /\ retorno' = retorno \o empaquetar_i_o(serializar_header_cpu(cpu.pcb), OPERACION_IO,
                                           Instruccion.parametros[1])
  /\ cpu' = CpuLibre
  /\ UNCHANGED <<consolaVars, admision, vivo, planVars, ioVars, despacho, duenio, despachado>>

\* After I_O and EXIT the loop is left.
EjecutaIo ==
  /\ EnCiclo({Codigo("I/O")})
  /\ Ejecuta
  /\ retorno' = retorno \o empaquetar_i_o(
                  serializar_header_cpu([cpu.pcb EXCEPT !.program_counter = @ + 1]),
                  OPERACION_IO, Instruccion.parametros[1])
  /\ cpu' = CpuLibre
  /\ UNCHANGED <<consolaVars, admision, vivo, planVars, ioVars, despacho, duenio, despachado>>

EjecutaExit ==
  /\ EnCiclo({Codigo("EXIT")})
  /\ Ejecuta
  /\ retorno' = retorno \o empaquetar(
                  serializar_header_cpu([cpu.pcb EXCEPT !.program_counter = @ + 1]),
                  OPERACION_EXIT)
  /\ cpu' = CpuLibre
  /\ UNCHANGED <<consolaVars, admision, vivo, planVars, ioVars, despacho, duenio, despachado>>

\* A code of no case of the switch moves i and not program_counter. Then
\* escuchar_kernel looks at the instruction before it: there is none and the
\* CPU crashes, or it was I_O and the loop is left with nothing sent.
EjecutaDesconocida ==
  LET pc == cpu.pcb.program_counter
  IN /\ EnCiclo({ERROR_OP_DESCONOCIDA})
     /\ cpu' = CASE pc = 0 -> [cpu EXCEPT !.fase = "caida"]
                 [] pc > 0 /\ cpu.pcb.instrucciones[pc].cod_op = Codigo("I/O") -> CpuLibre
                 [] OTHER -> [cpu EXCEPT !.i = @ + 1]
     /\ UNCHANGED <<consolaVars, admision, vivo, planVars, ioVars, despacho, retorno, historia>>

\* The end of the list without EXIT: the loop ends and nothing is sent.
TerminaSinExit ==
  /\ cpu.fase = "corre"
  /\ cpu.i >= Len(cpu.pcb.instrucciones)
  /\ cpu' = CpuLibre
  /\ UNCHANGED <<consolaVars, admision, vivo, planVars, ioVars, despacho, retorno, historia>>

----------------------------------------------------------------------------
(* recibir_pcb_de_cpu.                                                     *)

\* OPERACION_IO up to the release of mutex_cola_suspendido: the PCB is in
\* cola_de_io, and nobody has been told.
RecibeIo ==
  /\ vivo /\ recibe.fase = "recv" /\ retorno # <<>> /\ Head(retorno) = OPERACION_IO
  /\ \E recibido \in {recibir_buffer(SubSeq(retorno, 3, Len(retorno)))} :
       /\ \E pcb \in {recibir_pcb(recibido.stream)}, ahora \in Horas :
            /\ colas' = [colas EXCEPT !.io =
                        Append(@, [pcb EXCEPT !.real_actual = ahora - pcb.timestamp_inicio_exe])]
            /\ recibe' = [fase |-> "marcar", pid |-> pcb.pid]
       /\ retorno' = recibido.resto
  /\ UNCHANGED <<consolaVars, admision, vivo, corto, inicio, tablas, process_state, despacho, cpu,
                 historia>>

\* Mutant: the post on binario_plani_corto is missing.
MarcaSinAvisar ==
  /\ vivo /\ recibe.fase = "marcar"
  /\ process_state' = Anota(process_state, recibe.pid, "blocked")
  /\ recibe' = RecibeLibre
  /\ UNCHANGED <<consolaVars, admision, vivo, planVars, cpuVars, historia>>

\* Its entry of process_state, and the posts of signal_a_io and
\* binario_plani_corto.
Marca ==
  /\ vivo /\ recibe.fase = "marcar"
  /\ process_state' = Anota(process_state, recibe.pid, "blocked")
  /\ recibe' = RecibeLibre
  /\ corto' = corto + 1
  /\ UNCHANGED <<consolaVars, admision, vivo, colas, inicio, tablas, cpuVars, historia>>

\* Mutant: the end is told to the console that connected last.
RecibeExitUltima ==
  /\ vivo /\ recibe.fase = "recv" /\ retorno # <<>> /\ Head(retorno) = OPERACION_EXIT
  /\ retorno' = recibir_buffer(Tail(retorno)).resto
  /\ haciaConsola' = [haciaConsola EXCEPT ![cliente_fd] = Append(@, PROCESO_FINALIZADO)]
  /\ corto' = corto + 1
  /\ UNCHANGED <<archivo, consola, haciaKernel, admision, vivo, colas, inicio, tablas,
                 ioVars, despacho, cpu, historia>>

\* The end is told to the descriptor in the PCB that came back.
RecibeExit ==
  /\ vivo /\ recibe.fase = "recv" /\ retorno # <<>> /\ Head(retorno) = OPERACION_EXIT
  /\ \E recibido \in {recibir_buffer(Tail(retorno))} :
       /\ haciaConsola' = [haciaConsola EXCEPT ![recibir_pcb(recibido.stream).socket_consola] =
                             Append(@, PROCESO_FINALIZADO)]
       /\ retorno' = recibido.resto
  /\ corto' = corto + 1
  /\ UNCHANGED <<archivo, consola, haciaKernel, admision, vivo, colas, inicio, tablas,
                 ioVars, despacho, cpu, historia>>

----------------------------------------------------------------------------
Cpu == RecibePcb \/ EjecutaComun \/ EjecutaIo \/ EjecutaExit \/ EjecutaDesconocida \/ TerminaSinExit

RecibeDeCpu == RecibeIo \/ Marca \/ RecibeExit

Recibiendo(h) ==
  LeeFdOperacion(h) \/ recibir_operacion(h) \/ LeeFdBuffer(h) \/ RecibeSize(h)
    \/ RecibeStream(h) \/ CreaPcb(h)

Servida(c) == Acepta(c) \/ EnviaPrograma(c) \/ RecibeResultado(c) \/ Recibiendo(c)

Sistema ==
  \/ \E c \in Conectables : Servida(c)
  \/ Reanuda \/ PasaAReady \/ PasaARunning \/ realizar_io \/ CaeSinEstado
  \/ Cpu \/ RecibeDeCpu

Next == Sistema \/ \E c \in Conectables : Conecta(c)

\* Consoles started one after the other: the next one connects when the
\* program of the previous one has become a process.
Admitida(c) == consola[c] = "sin conectar" \/ hilo[c].fase = "termino"

NextDeAUna ==
  Sistema \/ \E c \in Conectables : Conecta(c) /\ \A d \in Conectables : Admitida(d)

Spec == Init /\ [][Next]_vars

\* Weak fairness of the system as a whole is enough, since every program is
\* finite: some thread goes on while one can. Nobody has to start a console.
SpecDeAUna == Init /\ [][NextDeAUna]_vars /\ WF_vars(Sistema)

----------------------------------------------------------------------------
(* Properties.                                                             *)

Pcbs == [pid : Nat, tamanio_en_memoria : Palabra, tamanio_stream_instrucciones : Palabra,
         instrucciones : Seq(Palabra), program_counter : Palabra, tabla_paginas : Palabra,
         estimacion_siguiente : Nat, timestamp_inicio_exe : Nat, real_actual : Nat,
         socket_consola : Conectables]

\* Types. A PCB has the size it announces, and at most one process is in the
\* CPU or on its way.
TypeOK ==
  /\ consola \in [Conectables -> {"sin conectar", "conectada", "aceptada", "espera", "terminada"}]
  /\ \A c \in Conectables : haciaKernel[c] \in Seq(Palabra) /\ haciaConsola[c] \in Seq(Palabra)
  /\ cliente_fd \in Conectables \cup {0}
  /\ hilo \in [Conectables -> [fase : {"no", "operacion", "recv operacion", "buffer", "recv size",
                                       "recv stream", "crear", "termino"},
                               fd : Conectables \cup {0}, size : Palabra, stream : Seq(Palabra)]]
  /\ vivo \in BOOLEAN
  /\ \A q \in DOMAIN colas : \A i \in DOMAIN colas[q] :
       /\ colas[q][i] \in Pcbs
       /\ Len(colas[q][i].instrucciones) = Palabras(colas[q][i].tamanio_stream_instrucciones)
  /\ process_state \in [DOMAIN process_state -> {"blocked", "suspended ready"}]
  /\ recibe \in [fase : {"recv", "marcar"}, pid : Nat]
  /\ despacho \in Seq(Palabra) /\ retorno \in Seq(Palabra)
  /\ cpu.fase \in {"libre", "corre", "caida"}
  /\ corto + inicio + Cardinality({x \in {1, 2, 3, 4} : CASE x = 1 -> despacho # <<>>
                                                          [] x = 2 -> retorno # <<>>
                                                          [] x = 3 -> recibe.fase # "recv"
                                                          [] OTHER -> cpu.fase # "libre"}) <= 1

\* The reference: the lines of the file, with each NO_OP as many times as it
\* says, as the names and numbers the user wrote.
Desplegado(lineas) ==
  FlattenSeq([i \in DOMAIN lineas |->
    IF lineas[i].nombre = "NO_OP"
    THEN [k \in 1 .. lineas[i].numeros[1] |-> [nombre |-> "NO_OP", numeros |-> <<>>]]
    ELSE <<lineas[i]>>])

EnTexto(ins) == [nombre |-> operaciones[ins.cod_op + 1], numeros |-> ins.parametros]

\* What the CPU executes for a console is the program of its file, from its
\* first line on, each instruction once and with its operands: nothing is
\* lost, repeated or mixed with the program of another on its way through
\* two parsers, two layouts of the PCB and every I/O.
EjecucionFiel ==
  \A c \in Conectables :
    IsPrefix([i \in DOMAIN ejecutadas[c] |-> EnTexto(ejecutadas[c][i])], Desplegado(archivo[c]))

\* A PCB that went to the CPU comes back as it was sent, except for its
\* program counter, which says how many instructions were executed.
PcbVuelveIgual ==
  \A i \in DOMAIN colas.io :
    LET pcb == colas.io[i]
    IN pcb = [despachado[pcb.pid] EXCEPT !.program_counter = Len(ejecutadas[duenio[pcb.pid]]),
                                         !.real_actual = pcb.real_actual]

\* "aviso a la consola que termino su proceso": a console that was told the
\* end had its own program executed up to its EXIT, and is told once.
AvisoALaSuya ==
  \A c \in Conectables :
    /\ Len(haciaConsola[c]) + (IF consola[c] = "terminada" THEN 1 ELSE 0) <= 1
    /\ haciaConsola[c] # <<>> \/ consola[c] = "terminada"
         => ejecutadas[c] # <<>> /\ EnTexto(Last(ejecutadas[c])).nombre = "EXIT"

\* A file whose operations are known and that ends with EXIT.
BienFormado(lineas) ==
  /\ \A i \in DOMAIN lineas : lineas[i].nombre \in Conocidas
  /\ lineas # <<>> /\ Last(lineas).nombre = "EXIT"

\* The window between the push to cola_de_io and the entry in process_state is
\* not used: the device has not taken the PCB, and nobody crashed on its state.
VentanaSinUsar ==
  recibe.fase = "marcar" => vivo /\ \E i \in DOMAIN colas.io : colas.io[i].pid = recibe.pid

\* Where that window is never used and all the files are well formed, every
\* console that connects is told the end of its program. Where it is used the
\* kernel may crash (CaeSinEstado) and, with fewer places than here, lose one
\* (SoloSuspendidosSeReanudan of module Kernel): nobody is told any more.
FinLlega ==
  []VentanaSinUsar =>
    \A c \in Conectables :
      (\A d \in Conectables : BienFormado(archivo[d])) /\ consola[c] = "conectada"
        ~> consola[c] = "terminada"
=============================================================================
