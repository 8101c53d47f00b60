# Formal models of tp-2022-1c-Club-Penguin

The repository is a small distributed operating system: consoles send programs
to a kernel, the kernel schedules them on one CPU, and a memory module gives
them paged memory with swap. This directory holds TLA+ modules translated from
its C source, the TLC configurations that check them, and proofs that TLAPS
checks. Names in the modules are those of the source.

## 1. The system

| Part | Source | State | Operations | Talks to |
|---|---|---|---|---|
| Console | `consola/` | the program read | parse, send, wait for the end | kernel (one connection each) |
| Kernel, admission | `Kernel/planificador.c` 3-46 | `cola_procesos_nuevos`, `proximo_pid`, `cliente_fd` | `escuchar_consola`, `recibiendo` (one thread per console) | consoles |
| Kernel, long- and medium-term | 50-114 | `cola_procesos_sus_ready`, two counting semaphores | `funcion_pasar_a_ready` | memory: CREAR, REANUDAR |
| Kernel, short-term | 318-442 | `cola_de_ready`, `binario_plani_corto`, `binario_lista_ready`, `flag_respuesta_a_interrupcion`, `rta_int` | FIFO and SRT branches, `algoritmo_srt` | CPU: dispatch and interrupt connections |
| Kernel, I/O | 128-236 | `cola_de_io`, `process_state`, `pid_handler`, `dispositivo_de_io` | `dispositivo_io`, `realizar_io` | memory: SUSPENDER |
| Kernel, answers of the CPU | 238-312 | none of its own | `recibir_pcb_de_cpu` | CPU; memory: FINALIZAR; console |
| CPU, cycle | `CPU/CPU.c` | `cpu_en_running`, `hay_interrupciones`, `se_fue_por_int` | `escuchar_kernel`, `escuchar_interrupciones`, `ciclo_de_instruccion` | kernel |
| Packets and PCBs | `utilsConsola.c` 133-198, `utilsKernel.c` 67-264, `utilsCPU.c` 114-288 | none | serialise, send, receive, parse | all three |
| CPU, MMU and TLB | `CPU/utilsCPU.c` 313-520 | the TLB | translation, FIFO and LRU replacement | memory |
| Memory, accesses | `Memoria/Memoria.c` 93-187, 446-614 | tables, frames, swap files | `respuesta_a_pregunta_de_2do_acceso`, `reemplazar_marco`, reads and writes | CPU |
| Memory, processes | 190-235, 321-441 | the same | `crear_proceso`, `suspender_proceso`, `reanudar_proceso`, `eliminar_proceso` | kernel |

What makes it hard: seven kinds of threads in the kernel that hand PCBs to each
other through queues and semaphores, where the push and the post are separate
steps; an interrupt protocol over two connections answered from two threads;
shared dictionaries, a shared descriptor and a shared socket with no lock; two
threads of memory on the same frames, under a TLB that names no process; a PCB that
is laid out twice, as bytes and as a list, and thrown away on each side of every trip. `PROJECT.json` lists each hazard at its line.

What makes each part correct:

- kernel: one process in the CPU at a time, no pop of an empty queue, no PCB
  lost, the degree of multiprogramming exact, the seven-state diagram respected,
  every process ends where the window below is not used;
- preemption: one answer for each interrupt, the answer tells the truth, no
  scheduler waits for ever;
- memory: one page per frame, a process uses its own frames, a read returns the
  last write across suspension, frames come back, the clocks end;
- TLB: whenever it may be used, its entries are those of the tables of the process
  that runs; LRU keeps the page used last;
- journey of a program: the CPU executes what the user wrote, once and in order; a PCB
  comes back as it went; the console of the process, and no other, is told the end;
- requests to memory and timed I/O: see the plan.

## 2. The modules

| Module | Models | 
|---|---|
| `CicloDeVida` | abstract: the seven-state diagram, one CPU, `Grado` processes active |
| `Kernel` | every thread of the kernel under FIFO, CPU and memory as it sees them |
| `KernelPruebas` | proofs about `Kernel`: types, tokens and counts, each PCB in one place |
| `Conteo` | lemmas: how often an element is in a queue, and what push and pop do to that number |
| `KernelCupos` | proofs about `Kernel`: each step as the move of one process, the degree, what memory was told, the refinement of `CicloDeVida`; EXTENDS `KernelPruebas` |
| `Interrupcion` | preemption under SRT: two threads of the kernel, two of the CPU, three message queues |
| `InterrupcionPruebas` | proofs about `Interrupcion` |
| `MemoriaIdeal` | abstract: pages that keep their last value |
| `Memoria` | both threads of the memory module, CLOCK and CLOCK-M, swap, suspension |
| `MemoriaPruebas` | proofs about `Memoria`, and the refinement of `MemoriaIdeal` |
| `Mmu` | the CPU as user of memory: addresses, TLB, READ, WRITE, COPY; EXTENDS `Memoria` |
| `MmuPruebas` | proofs about `Mmu`; EXTENDS `MemoriaPruebas` |
| `Serializacion` | operators only: packets, instructions and PCBs as the three programs write and read them |
| `Consolas` | consoles, accept loop, threads `recibiendo`, the trip of each PCB, the loop of the CPU; EXTENDS `Serializacion` |
| `SerializacionPruebas` | proofs about `Serializacion`: what one program writes the other reads |
| `ConsolasPruebas` | proofs about `Consolas`; EXTENDS `SerializacionPruebas` |
| `MCKernel`, `MCInterrupcion`, `MCMemoria`, `MCMmu`, `MCConsolas` | instances for TLC |

`Kernel` INSTANCEs `CicloDeVida`, and `Memoria` INSTANCEs `MemoriaIdeal`, with
the refinement mappings at the end of each module. As `Mmu` only adds to the steps of
`Memoria`, its run checks that CPU, TLB and memory together implement `MemoriaIdeal`.

### Kernel

`hilo[h]` is where thread `h` is in its code and `suyo[h]` the PCB in its local
variable; `cola` and `sem` are the queues and semaphores. There is one action per
stretch of code between two points where another thread can interfere: a
semaphore that is waited for, a shared variable read or written, a message.

| Thread of the code | Actions |
|---|---|
| `recibiendo` | `Recibir`, `AvisarLlegada` |
| `funcion_pasar_a_ready` | `LargoEsperaLista` ... `LargoAvisaNew` |
| `planificador_de_corto_plazo`, FIFO | `CortoEspera`, `CortoEsperaLista`, `CortoElige` |
| `escuchar_kernel` of the CPU | `CpuRecibe`, `CpuIo`, `CpuExit` |
| `recibir_pcb_de_cpu` | `RecibeMensaje` ... `RecibeAvisaFin` |
| `dispositivo_io` | `GestorEspera` ... `GestorCae` |
| `realizar_io` | `DispLee` ... `DispAvisa`, `DispSuelta` |

Mutexes held over one push or pop are part of their step; those held across steps
(`mutex_cola_sus_ready`, `mutex_cola_new`, `mutex_cola_suspendido`) are operators on
`hilo`. A request to memory and its answer are one step. Times are abstract: whether
a wait exceeded `TIEMPO_MAXIMO_BLOQUEADO` is a free choice. `strcmp` of a missing
`process_state` stops the kernel (`GestorCae`, `DispCae`). The post that gives a PCB away
(149, 173, 186: `DispAvisa`) and that of `dispositivo_de_io` (189: `DispSuelta`) are two
steps, since `dispositivo_io` looks at the second with `sem_trywait`. `memoria[p]` is what memory
was told about `p`.

### Interrupcion

`ready` is a set, since SRT does not use the order of the queue, and `llegando` counts the
threads that pushed a PCB and have not posted yet. `algoritmo_srt` and
the comparison of estimations are free choices. Instructions are `"comun"` (any that
keeps the CPU), `"io"` and `"exit"`. The rest of the kernel is `Llega`: a PCB comes
to ready from new, from I/O or from suspension.

### Memoria

`pagina[p][n]` is the entry of page `n`, `admin[p]` the structure with `offset` and
`marcos_asignados`, `estado_de_marcos` the map of frames, `ram` and `swap` one value per
page. `cpu` and `kernel` say what each thread is doing. `reemplazar_marco` is a loop of
steps (`RelojAvanza`, `RelojReemplaza`), and `suspender_proceso` one step per page
(`SuspendePagina`), so that the two threads interleave in them. The two levels of the
tables are one function. `mutex_swap` is held for one copy only and is not kept. The
environment is what the kernel and the CPU do: one access at a time, of a process that
is resident and not being suspended; CREAR once, SUSPENDER and FINALIZAR of a resident
process, REANUDAR of a suspended one. An index -1 or a NULL stops the program (`Vive`).

### Mmu

Every step of the CPU that reaches memory is a step of `Memoria` plus what it does to the
TLB (`tlb`, the queue) and to the instruction (`mmu`, where `ciclo_de_instruccion` is).
`TraduceConTlb`, `TraduceCargada` and `TraducePidiendo` are the three ways through
`obtener_direccion_fisica`; `segundo_acceso_a_memoria` is the arrival of the frame, that
comes with the code of an access or with that of a replacement (`mmu.codigo`). `EnviaPcb`
and `vaciar_tlb` are two steps, as in lines 149-156 and 181-187 of `CPU.c`: in between, the
kernel may already ask memory to suspend or end the process. The kernel does not ask
anything of the process that is in the CPU (`PideKernel`). Logical addresses are below the
size of the process. Timestamps are ranks: only their order is read, and two translations
are `RETARDO_MEMORIA` apart. The loop of `algoritmo_LRU` is written by what its turn `k`
leaves: the entry it holds apart is the oldest of the first `k` (`MasAntigua`).

### Serializacion and Consolas

A stream is a sequence of words of 4 bytes; `BasePalabra` stands for 2^32 and a long takes
two words. Sizes stay in bytes. The parse of the console is `agregar_instrucciones` on
lines that are a name and its numbers. `recibir_pcb` and `serializar_header` are the
kernel's, the same with `_cpu` those of the CPU.

| Code | Actions of `Consolas` |
|---|---|
| `main` of a console | `Conecta`, `EnviaPrograma`, `RecibeResultado` |
| `escuchar_consola` | `Acepta` (accept, handshake, `cliente_fd`, `pthread_create`) |
| `recibiendo` | `LeeFdOperacion`, `recibir_operacion`, `LeeFdBuffer`, `RecibeSize`, `RecibeStream`, `CreaPcb` |
| schedulers and device, one step each | `PasaAReady`, `Reanuda`, `PasaARunning`, `realizar_io`, `CaeSinEstado` |
| `escuchar_kernel`, `ciclo_de_instruccion` | `RecibePcb`, `EjecutaComun`, `EjecutaIo`, `EjecutaExit`, `EjecutaDesconocida`, `TerminaSinExit` |
| `recibir_pcb_de_cpu` | `RecibeIo`, `Marca`, `RecibeExit` |

The three evaluations of `*cliente_fd` (lines 8, 12, 17) and each `recv` are steps of their
own. So are the two halves of an OPERACION_IO: up to the release of
`mutex_cola_suspendido` (`RecibeIo`, 252-266) and from `process_state` on (`Marca`,
268-271). In between another PCB's token may send the device to this one, which has no
entry yet (`CaeSinEstado`) or an old one. Algorithm FIFO, and a place in memory for everyone: `Kernel` has the threads, the
degree and the semaphores that are one step here, `Interrupcion` the preemption. A
descriptor is the number of its console; what a thread does with an end of file in the
middle of a packet is not followed. `duenio`, `ejecutadas` and `despachado` are history.

The assumptions say what the C types say: numbers, sizes and descriptors are words, the
times fit in a long, `ALFA` is between 0 and 1. Two are about the user: the files give
every known operation the operands it needs (`parametros` has no others), and the stream
of a PCB is not longer than a 32 bit size can say.

## 3. What TLC checks

Definitions called *Mutant* are the code with a plausible mistake; no specification
uses them. Every property of a passing run is violated when the mutant listed in
`PROJECT.json` takes the place of its original.

| Run | Instance | Shows |
|---|---|---|
| `kernel_colas` | 3 processes, 2 places, 2 I/Os each, stale window unused | no empty pop, one process in the CPU, every PCB in one place, the inductive invariants of the counts and of the degree, degree exact, only suspended processes resumed, `CicloDeVida` implemented |
| `kernel_termina` | 2 processes, 1 place, 2 I/Os each, fair | where the window is not used, every process that arrived ends |
| `kernel_ventana` | 2 processes, 1 place, 2 I/Os each | violation of `SoloSuspendidosSeReanudan` |
| `interrupcion_protocolo` | 3 PCBs, each reaches ready twice | the inductive invariant, at most one answer per interrupt, flag truthful, a candidate always, no PCB lost |
| `interrupcion_caso2` | 2 PCBs, once each | violation of `CpuVaciaEnCaso2` |
| `interrupcion_perdida` | 2 PCBs, once each, fair | violation of `InterrupcionRespondida` |
| `memoria_suspension` | 2 processes, 2 pages, 2 places, 4 frames, 2 values, 1 resumption, TLB of 1 | one page per frame, own frames, the rest of the inductive invariant (`MemoriaEnOrden`), TLB faithful, `MemoriaIdeal` implemented |
| `memoria_reloj` | 1 process, 4 pages in two tables, 2 places, both algorithms, LRU with 2 entries, fair | the clocks end, the loaded pages are in exactly the frames the process was given, places and frames have the same numbers, TLB faithful under replacement, LRU keeps the last page |
| `memoria_ajena` | 2 processes, 2 pages, 1 place | violation of `ReemplazosLocales` |
| `memoria_agotada` | 2 processes, 1 page, 2 frames | violation of `MarcosAlcanzan` |
| `consola_viaje` | 2 consoles one after the other, each with any of 6 files, fair | program executed as written, PCBs come back as they went, the end told to the right console, once, and always if the files are well formed and the window is not used |
| `consola_fd` | 2 consoles at any time, 2 files | violation of `AvisoALaSuya` |

**Bounds.** Named in the modules: `MaxIo`, `MaxLlegadas`, `MaxReanudaciones`,
`Instrucciones`, `Archivos`, `Horas`. Three processes with two places are the least with
one in the CPU, one in the device and one waiting in `cola_de_io` while a third place is
missing; two I/Os let a process meet the `process_state` of its previous one. In memory,
two pages and two places let a suspension be half way; four frames let both processes load
all their pages once, or one of them twice (the model stops at the fifth load). With a TLB
of one entry a hit, a miss and an entry of another process all occur. Four pages on two
places give the clocks stale entries before and after the page looked for, and a TLB of
two has an entry to lose and one to keep. The files of the consoles have NO_OPs that
unroll to none and to several, two I/Os, and zero, one and two operands; an estimation
above `BasePalabra` uses the high word of a long.

**The window.** `kernel_colas` has `CONSTRAINT VentanaSinUsar`: no thread picks from
`cola_de_io` the PCB that `recibir_pcb_de_cpu` has pushed and not yet put in
`process_state` (lines 266-268) while the entry of its previous I/O is still there. On
the first I/O there is no entry: that part stays, and reading it stops the kernel.
`kernel_ventana` shows what happens otherwise, and
two processes with one place are enough. p1 comes out of a suspension and is resumed
between lines 186 and 189; its next I/O is pushed (265) while the device is still busy, and
the gestor, that found it so, is turning the queue with the suspended p2 in it. Now 189
posts, and the device takes p1 with the "suspended ready" of before. p1 goes to
`cola_procesos_sus_ready` although memory holds it, its place is never given back, and both
processes wait there for ever. So `TodosTerminan` is promised for the behaviours with
`[](vivo /\ VentanaSinUsar)`, and `FinLlega` for those with the `[]VentanaSinUsar` of
`Consolas`, in which every reading of a missing or old entry counts as a use of the window:
without that hypothesis TLC finds both violated. Of the theorems of section 4, those of
`KernelPruebas` need no constraint; those of `KernelCupos` have
`[]VentanaSinUsar` as hypothesis, which is the same constraint.

**One after the other.** In `consola_viaje` a console connects when the thread of the
previous one has made its process. `consola_fd` shows what happens otherwise.

**Deadlock** is not checked: the system rests when all the programs have ended, when no
console comes, when a program left the CPU without EXIT, and when one of the programs has
crashed.

**Symmetry** is used for safety only; PCBs differ by identity alone.

**Fairness.** Weak fairness of every thread of the kernel: each is a pthread, the steps
are those of sections that wait for a semaphore or for a message that comes, I/O is a
finite `usleep`, memory answers every request. Consoles need not come. In `Interrupcion`
also strong fairness of `DxTermina`: a program does not run for ever without an I/O or
its end. In `Mmu`, weak fairness of the loop of `reemplazar_marco`, which blocks
nowhere. In `Consolas`, weak fairness of the system as a whole (some thread goes on while
one can), which is enough because programs are finite; nobody has to start a console.

**Findings.**

1. `planificador.c:268`: a process is pushed to `cola_de_io` before its state is written.
   It can reach suspended ready while memory holds it; with one place for two processes
   both then wait for ever.
2. `CPU.c:73`: CPU_LIBRE is sent while a PCB is on its way; two are dispatched.
3. `CPU.c:111`: an interrupt noted for a process that has left is never answered; the
   scheduler waits for ever.
4. `Memoria.c:562`: a position of `marcos_asignados` is used as a frame. Both numbers
   agree for the first process loaded.
5. `Memoria.c:387`: frames are not given back when a process is suspended or ends.
6. `planificador.c:42`: the thread of a console works on the address of `cliente_fd`. A
   second console that connects early enough becomes the console of the first process: it
   is told an end that is not its own, and the first waits for ever.

A further one was met and has no run: with replacement, one process is enough for two
loaded pages to share a frame, since `retornar_pagina` takes evicted pages (`Memoria.c:538`).
`memoria_suspension` therefore claims nothing about replacement.

## 4. What is proved

For every set of processes and every value of the other constants that the named
assumptions of the modules allow (TLC evaluates them in the runs). What a theorem assumes
beyond that is in its column.

| Module | Theorem | Says | Under |
|---|---|---|---|
| `KernelPruebas` | `TiposCorrectos`, `CuentasInvariantes` | `[]TypeOK`, `[]Inductiva` | |
| | `NuncaDosEnCpu`, `NuncaSacanDeVacia` | `[]UnSoloPcbEnCpu`, `[]ColasNuncaVacias` | |
| | `LugaresInvariantes`, `PcbEnUnSoloLugar` | `[]InductivaLugares`, `[]CadaPcbEnUnLugar` | |
| `KernelCupos` | `CicloInvariante`, `ElGradoSeMantiene`, `SoloSeReanudaLoSuspendido` | `[]InductivaCiclo`, `[]NingunLugarSePierde`, `[]SoloSuspendidosSeReanudan` | `[]VentanaSinUsar` |
| | `ElKernelCumpleElCiclo` | `CumpleCiclo`: `Kernel` implements `CicloDeVida` | `[]VentanaSinUsar` |
| `InterrupcionPruebas` | `SiempreInductiva`, `TiposDeInterrupcion` | `[]Inductiva`, `[]TypeOK` | |
| | `NuncaDosRespuestas`, `LaFlagDiceLaVerdad`, `SiempreHayCandidato`, `CadaPcbEnSuLugar` | `[]UnaRespuestaPorInterrupcion`, `[]FlagDiceLaVerdad`, `[]HayCandidato`, `[]CadaPcbEnUnLugar` | |
| `MemoriaPruebas` | `TiposDeMemoria`, `CadaMarcoDeUno` | `[]TypeOK`, `[]MarcosPropios` | |
| | `PaginasPorMarco`, `CadaUnoEnSusMarcos`, `MemoriaSiempreEnOrden` | `[]UnaPaginaPorMarco`, `[]ReemplazosLocales`, `[]MemoriaEnOrden` | `SinReemplazo` |
| | `ImplementaIdeal` | `CumpleIdeal`: `Memoria` implements `MemoriaIdeal` | `SinReemplazo` |
| | `RelojUsaSusMarcos` | `[]MarcosEnUso` | `[]LugaresAlineados` |
| | `UnoSoloAlinea` | `[]LugaresAlineados` | `UnSoloProceso` |
| `MmuPruebas` | `TiposDeMmu`, `MmuCadaMarcoDeUno` | `[]MmuTypeOK`, `[]MarcosPropios` | |
| | `LaUltimaQueda` | `UltimaPaginaQueda`, an action property | |
| | `TlbDiceLaVerdad`, `MmuPaginasPorMarco`, `MmuEnSusMarcos`, `MmuEnOrden` | `[]EntradasFieles`, `[]UnaPaginaPorMarco`, `[]ReemplazosLocales`, `[]MemoriaEnOrden` | `SinReemplazo` |
| | `MmuImplementaIdeal` | `CumpleIdeal`: `Mmu` implements `MemoriaIdeal` | `SinReemplazo` |
| | `TlbTrasReemplazos`, `MmuUsaSusMarcos`, `MmuReemplazaLoSuyo` | `[]EntradasFieles`, `[]MarcosEnUso`, `[]ReemplazosLocales` | `[]LugaresAlineados` |
| | `MmuUnoSoloAlinea`, `UnoSoloConTlb` | `[]LugaresAlineados`; `[]MarcosEnUso` and `[]EntradasFieles` | `UnSoloProceso` |
| `SerializacionPruebas` | `SizeExacto` | the size announced is the size written | |
| | `ListaVuelve` | `LeeInstrucciones` undoes `EnPalabras` | |
| | `PaqueteVuelve` | `recibir_buffer` undoes `empaquetar` | its size is a word |
| | `PcbVuelve`, `PcbEnLaCpu` | both `recibir_pcb` undo `serializar_header`, and the CPU writes what the kernel would | the PCB has the size it announces |
| `ConsolasPruebas` | `RecorridoInvariante`, `TiposDeConsolas` | `[]IndInv`, `[]TypeOK` | `SpecDeAUna` |
| | `SeEjecutaElPrograma`, `ElPcbVuelveIgual`, `SeAvisaALaSuya` | `[]EjecucionFiel`, `[]PcbVuelveIgual`, `[]AvisoALaSuya` | `SpecDeAUna` |

**Kernel, counts.** That there is one process in the CPU says nothing of the token that is
about to be posted. `Cuentas` follows the tokens: `FichaUnica` says that the right to use
the CPU is one token, in `inicio`, in `binario_plani_corto`, in the scheduler, in a message,
in the CPU or in `recibir_pcb_de_cpu`; `CuentaReady`, `CuentaEsperando` and `CuentaIo` say
that each counting semaphore counts its queue, less the posts to come, plus the tokens
taken; `RondasContadas` bounds the stale `cantidad_en_io`; `DispositivoUnico` and
`AfueraAparte` are what those need. `TypeOK` is inductive by itself, with `ManosLlenas` (a
thread that works on a PCB has one). For the counts every semaphore, queue length and thread
gets a named number, and each step of the proof first says what its action adds to and takes
from those numbers.

**Kernel, places.** `CadaPcbEnUnLugar` is not inductive either: a thread could put back a PCB
it has already given away. `ManosVacias` says that a thread whose local variable is not in
use has nothing in it, and `FinDeRecibe` what `recibir_pcb_de_cpu` may still do with the PCB
of an EXIT. Each process is counted over queues, connections and hands (`Veces`, with the
lemmas of `Conteo`); every step takes it from one and adds it to another.

**Kernel, degree and diagram.** The first half of `KernelCupos` says of every step which process it moves and
from which place (`EstaEn`) to which. `MemoriaSegunLugar`, what memory was told of a process
and its `process_state` for each place, follows from the moves, and so does the sum of free,
taken and owed places. The window of lines 266-268 is the one step that breaks
`MemoriaSegunLugar`, hence the hypothesis; `kernel_ventana` is the proof that it is needed.
For the refinement, each move is a step of the diagram or stays in the same state of it;
that the CPU is free when one is dispatched comes from `FichaUnica`, and that there is a
place for one more from the sum.

**Preemption.** The two answers to an interrupt come from two threads, and the flag is
written by one and read by another. The inductive invariant counts: `CpuContada` (the value
of `cpu_en_running` against what is on its way to it), `UnaRespuestaPorInterrupcion` (the
answers in the connections and to be sent), `FlagEscrita`, `CuentaReady`, and each PCB once.

**Memory.** `Fuerte` holds whatever is replaced: both threads work on processes that are in
memory and not on the same one (`HilosFieles`), only processes in memory have loaded pages
(`CargadasDeResidentes`), and the frame an access was given is a frame. With it come the
types, which are all the indices into frames, tables and places, and `MarcosPropios`.

Under `SinReemplazo` (`CantPaginas <= MarcosPorProceso`, a place for each page) the inductive
invariant is `Ordenada`. Its heart are `LugaresConPagina`, that every place that is taken has
a page of the process in its frame, so that by counting a page that is not loaded finds a
place (`HayLugar`), and `CopiaFiel`, that a page with `modificado` 0 is in swap as in its
frame, so that a suspension may skip it. `reemplazar_marco` is then never called, a read
returns the last write, and the refinement maps each step to a read, a write, an answer, an
end or a stutter. The hypothesis is not of convenience: with replacement the code does not
implement `MemoriaIdeal` (section 3, findings).

With replacement two things can still be said, while each place has the frame of its own
number (`LugaresAlineados`): the frames with a loaded page are exactly those the process was
given (`MarcosEnUso`), so that the clock never follows a NULL page, and frames are replaced
within their process. The invariant is `ConReloj`, in which two loaded pages may share a
frame: that each frame has one page only is not true, as section 3 says. One
process that is not resumed always has its places so (`UnSoloProceso`), so the theorems with
this hypothesis are about what `memoria_reloj` runs, at any size; `memoria_ajena` shows that
a second process breaks it.

**MMU.** Every step of the composition is a step of memory, or an access with a frame out of
the TLB, or does not touch memory (`MmuEsPaso`). So memory's invariants are kept as they
were once those accesses use the right frame, which is what `TlbFiel` says: every entry is
true of the process that runs but, between REEMPLAZO_DE_PAGINA and the frame, for the
entries of the frame that is replaced. `CpuDeLaMmu` keeps both sides in step and says that
an idle CPU has an empty TLB. The lemmas on `guardar_en_TLB`, `actualizar_TLB`,
`algoritmo_LRU` and the addresses (`TraduccionDePagina`, `MarcoDeDireccion`) say what the
code's operators do for every size. `UltimaPaginaQueda` rests on `Ultima`: the page
translated last, if it has an entry, has one newer than those of all others, and
`algoritmo_LRU` throws out one entry only, the oldest (`LruSacaLaMasAntigua`).

**Packets and PCBs.** What a loop over a list computes is an induction over the list, and the
induction theorems of the library cannot be used. The loops are written as recursive
functions of the number of turns, and one lemma takes the place of induction: a set of
numbers that holds 0 and, below n, the next of each of its own holds all up to n
(`HastaElFinal`, from the least number outside it). With it such an equation has a solution
(`Une`) and only one, which is what CHOOSE then picks. The stream of a list is its
concatenation of pieces; after k turns `recibir_pcb` stands at the end of piece k with the
first k instructions, and it takes no more turns than bytes since every piece has two words
at least. From there the layouts of a PCB are offsets: three words, the stream, two words,
three longs and a word.

**The journey of a program.** None of the three properties is inductive: they look at
`colas.io`, at `ejecutadas` and at the connections to the consoles, and a wrong PCB anywhere
else would become a wrong one there. `IndInv` follows one program from its file to the
notice. `Admision`: only one console is between its connection and its process, `cliente_fd`
is that one, and its words on the way, with what its thread has read, make up its program.
`Duenios`: no two processes of one console. `Colas`: each process is in one queue once, and
its PCB says how far it is (`AlDia`: the program of its console, as many instructions as
`ejecutadas` has, not told its end). `Ficha` and `Vuelo`: one process at most is away, in
the packet to the CPU, in the CPU or in the packet back, and each of the three is the PCB
that was dispatched but for its program counter. While `recibe` has yet to mark the PCB of
an I/O (`Marca`) none is away and no token is out; it is the post of `Marca` that lets the
next one go. `PcbEnLaCpu` and `PaqueteVuelve` are used twice per trip. `Historia` and
`Avisos` give the properties: what was executed is a prefix of the list of the file, and a console that was told the end is at
its EXIT. `UnaLinea` and the lemmas after it bring that list to the text of the file, NO_OPs
unrolled. The hypothesis is in `Admision` alone, and `consola_fd` shows what two consoles at
once do to it.

**Model-checked only.** `TodosTerminan`, `RelojTermina` and `FinLlega`, which are liveness
under fairness, and the violations, which are single behaviours.

## 5. Not modelled

- The bytes of `conexion_memoria`, used by four kinds of threads with no lock: a request
  and its answer are one step.
- Time: `io[2]`, `cupo_restante`, and the estimations SRT compares (`planificador.c:347`).
  `hacer_cuenta_srt` is in `Consolas`, as FIFO calls it.
- Preemption in the trip of a PCB: `Interrupcion` has its protocol, and RESPUESTA_INTERRUPT
  uses the same `serializar_header` and `recibir_pcb` as EXIT.
- Replacement with two processes, beyond `memoria_ajena`: once a process takes a frame of
  another, nothing else holds of either.
- Text: `string_split` and `atoi`; arguments and files that are missing end the console
  before it connects.
- Sockets, configuration, logs: wrappers without state of their own.
- Data races of the dictionaries in memory: each operation is a step.

## 6. Plan

1. `ConexionMemoria`: requests of four threads on one socket, each message a step.
2. `EsperaIo`: the shared `io[2]`, the time left and its width, the decision to suspend.
3. `Estimacion`: the comparison of line 347 and the choice of `algoritmo_srt`.
4. Proofs: what becomes of the theorems of `Mmu` for several processes that never replace a
   page although they could (`UnaPaginaPorMarco` while `cpu.fase` is never `"reloj"`, instead
   of `SinReemplazo`).
