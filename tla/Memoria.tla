------------------------------ MODULE Memoria ------------------------------
(***************************************************************************)
(* The memory module (Memoria/Memoria.c): page tables, the frames of each  *)
(* process, the swap file of each process, and the two threads that share  *)
(* them without a lock: atender_cpu, which answers the accesses of the     *)
(* running process, and atender_kernel, which creates, suspends, resumes   *)
(* and ends processes.                                                     *)
(*                                                                         *)
(* The two-level table of a process is the function pagina[p], indexed by  *)
(* nro_pag (get_tabla splits it into two indices and joins them again). A  *)
(* page, a frame and a page of swap hold one value. volcar_pagina_en_swap  *)
(* and leer_pagina_de_swap hold mutex_swap for one copy and wait for       *)
(* nothing inside, so each copy is one step and the semaphore is not kept. *)
(***************************************************************************)
EXTENDS Integers, FiniteSets

CONSTANTS Procesos,          \* pids
          Nadie,             \* no process
          CantPaginas,       \* pages of a process (tamanio_en_memoria / tam_pagina)
          CantMarcos,        \* cantidad_de_marcos_totales
          MarcosPorProceso,  \* marcos_por_proceso
          Algoritmos,        \* the values of ALGORITMO_REEMPLAZO considered
          Valores,           \* values a page can hold
          Cero,              \* what ftruncate leaves in a new swap file
          MaxReanudaciones   \* bound: REANUDAR_PROCESO messages in all

Paginas == 0 .. CantPaginas - 1
Marcos == 0 .. CantMarcos - 1
Lugares == 0 .. MarcosPorProceso - 1

ASSUME NadieAssumption == Nadie \notin Procesos
ASSUME PaginasAssumption == CantPaginas \in Nat \ {0}
ASSUME MarcosAssumption ==
  /\ MarcosPorProceso \in Nat \ {0}
  /\ CantMarcos \in Nat
  /\ MarcosPorProceso <= CantMarcos
ASSUME AlgoritmosAssumption ==
  Algoritmos # {} /\ Algoritmos \subseteq {"CLOCK", "CLOCK-M"}
ASSUME ValoresAssumption == Cero \in Valores
ASSUME ReanudacionesAssumption == MaxReanudaciones \in Nat

VARIABLES
  algoritmo,         \* alg_reemplazo, read once from the configuration
  proceso,           \* where the kernel has each process
  pagina,            \* pagina[p][n]: the entry of page n in the tables of p
  admin,             \* admin[p]: estructura_administrativa_de_marcos
  estado_de_marcos,  \* 1 free, 0 taken
  ram,               \* espacio_memoria_user, one value per frame
  swap,              \* swap[p]: the swap file of p
  cpu,               \* the thread atender_cpu and the access it answers
  kernel,            \* the thread atender_kernel and the suspension it runs
  respuesta,         \* the answer to an access, until it is sent
  reanudaciones      \* REANUDAR_PROCESO messages so far

vars == <<algoritmo, proceso, pagina, admin, estado_de_marcos, ram, swap, cpu,
          kernel, respuesta, reanudaciones>>

SinMarco == -1

----------------------------------------------------------------------------
(* Helpers of the code.                                                    *)

Minimo(S) == CHOOSE x \in S : \A y \in S : x <= y

\* An entry of a table that was just created.
PaginaNueva == [marco |-> SinMarco, presencia |-> 0, uso |-> 0, modificado |-> 0]

\* The entry after a page was given the frame m.
Cargada(m) == [marco |-> m, presencia |-> 1, uso |-> 1, modificado |-> 0]

AdminNuevo == [offset |-> 0, marcos |-> [i \in Lugares |-> SinMarco]]

SwapNuevo == [n \in Paginas |-> Cero]

\* Mutant: the pointer does not turn.
SiguienteSinVuelta(i) == i + 1

Siguiente(i) == (i + 1) % MarcosPorProceso

\* The places of p without a frame, as distances from its pointer.
LugaresLibres(p) ==
  {d \in Lugares :
     admin[p].marcos[(admin[p].offset + d) % MarcosPorProceso] = SinMarco}

primer_marco_libre_del_proceso(p) ==
  IF LugaresLibres(p) = {} THEN SinMarco
  ELSE (admin[p].offset + Minimo(LugaresLibres(p))) % MarcosPorProceso

MarcosLibres == {m \in Marcos : estado_de_marcos[m] = 1}

primer_marco_libre ==
  IF MarcosLibres = {} THEN SinMarco ELSE Minimo(MarcosLibres)

\* The pages of p whose entry names frame m, present or not.
PaginasCon(p, m) == {n \in Paginas : pagina[p][n].marco = m}

\* retornar_pagina walks the tables in order and does not look at presence.
retornar_pagina(p, m) == Minimo(PaginasCon(p, m))

\* Suspending a page writes it to swap if it is loaded and was written.
HayQueVolcar(d) == d.modificado = 1 /\ d.presencia = 1

----------------------------------------------------------------------------
CpuLibre == [fase |-> "libre", pid |-> Nadie, pag |-> 0, marco |-> SinMarco,
             vuelta |-> 0, i |-> 0]

\* No answer waits to be sent, or the answer to an access does.
SinRespuesta == [op |-> "ninguna", pid |-> Nadie, pag |-> 0, valor |-> Cero]
Respuestas == [op : {"lectura", "escritura"}, pid : Procesos, pag : Paginas, valor : Valores]

KernelLibre == [fase |-> "libre", pid |-> Nadie, pag |-> 0]

Init ==
  /\ algoritmo \in Algoritmos
  /\ proceso = [p \in Procesos |-> "sin_crear"]
  /\ pagina = [p \in Procesos |-> [n \in Paginas |-> PaginaNueva]]
  /\ admin = [p \in Procesos |-> AdminNuevo]
  /\ estado_de_marcos = [m \in Marcos |-> 1]
  /\ ram = [m \in Marcos |-> Cero]
  /\ swap = [p \in Procesos |-> SwapNuevo]
  /\ cpu = CpuLibre
  /\ kernel = KernelLibre
  /\ respuesta = SinRespuesta
  /\ reanudaciones = 0

----------------------------------------------------------------------------
(* The thread atender_cpu. The CPU asks for the frame of a page and then   *)
(* reads or writes it; it serves one access at a time, of the process that *)
(* runs, which is resident and not being suspended.                        *)

EnMemoria(p) == proceso[p] = "residente" /\ kernel.pid # p

\* ACCESO_A_2DA_TABLA, the page is loaded.
AccesoPresente(p, n) ==
  /\ cpu.fase = "libre"
  /\ EnMemoria(p)
  /\ pagina[p][n].presencia = 1
  /\ pagina' = [pagina EXCEPT ![p][n].uso = 1]
  /\ cpu' = [CpuLibre EXCEPT !.fase = "acceso", !.pid = p, !.pag = n,
                             !.marco = pagina[p][n].marco]
  /\ UNCHANGED <<algoritmo, proceso, admin, estado_de_marcos, ram, swap, kernel,
                 respuesta, reanudaciones>>

\* Mutant: the frame given is not taken in estado_de_marcos.
AccesoSinOcupar(p, n) ==
  LET lugar == primer_marco_libre_del_proceso(p)
      m == primer_marco_libre
  IN /\ cpu.fase = "libre" /\ EnMemoria(p)
     /\ pagina[p][n].presencia = 0
     /\ lugar # SinMarco /\ m # SinMarco
     /\ pagina' = [pagina EXCEPT ![p][n] = Cargada(m)]
     /\ admin' = [admin EXCEPT ![p].marcos[lugar] = m, ![p].offset = Siguiente(lugar)]
     /\ cpu' = [CpuLibre EXCEPT !.fase = "carga", !.pid = p, !.pag = n, !.marco = m]
     /\ UNCHANGED <<algoritmo, proceso, estado_de_marcos, ram, swap, kernel, respuesta,
                    reanudaciones>>

\* ACCESO_A_2DA_TABLA, the process has a place without a frame: the lowest
\* free frame is taken for it. With no free frame left the code writes at
\* index -1 of estado_de_marcos and before the memory it manages: the model
\* stops the thread there.
AccesoConLugar(p, n) ==
  LET lugar == primer_marco_libre_del_proceso(p)
      m == primer_marco_libre
  IN /\ cpu.fase = "libre"
     /\ EnMemoria(p)
     /\ pagina[p][n].presencia = 0
     /\ lugar # SinMarco
     /\ IF m = SinMarco
        THEN /\ cpu' = [CpuLibre EXCEPT !.fase = "sin_marcos", !.pid = p, !.pag = n]
             /\ UNCHANGED <<pagina, admin, estado_de_marcos>>
        ELSE /\ pagina' = [pagina EXCEPT ![p][n] = Cargada(m)]
             /\ admin' = [admin EXCEPT ![p].marcos[lugar] = m,
                                       ![p].offset = Siguiente(lugar)]
             /\ estado_de_marcos' = [estado_de_marcos EXCEPT ![m] = 0]
             /\ cpu' = [CpuLibre EXCEPT !.fase = "carga", !.pid = p, !.pag = n,
                                        !.marco = m]
     /\ UNCHANGED <<algoritmo, proceso, ram, swap, kernel, respuesta, reanudaciones>>

\* ACCESO_A_2DA_TABLA, every place has a frame: reemplazar_marco is called.
AccesoSinLugar(p, n) ==
  /\ cpu.fase = "libre"
  /\ EnMemoria(p)
  /\ pagina[p][n].presencia = 0
  /\ primer_marco_libre_del_proceso(p) = SinMarco
  /\ cpu' = [CpuLibre EXCEPT !.fase = "reloj", !.pid = p, !.pag = n]
  /\ UNCHANGED <<algoritmo, proceso, pagina, admin, estado_de_marcos, ram, swap,
                 kernel, respuesta, reanudaciones>>

\* CLOCK takes the first page not used. CLOCK-M looks for pages not used nor
\* modified in its even rounds and for modified ones in its odd rounds.
EsVictima(d) ==
  /\ d.uso = 0
  /\ algoritmo = "CLOCK-M" => d.modificado = cpu.vuelta

\* Mutant: CLOCK does not clear the bit of use.
BajaUsoSoloClockM == algoritmo = "CLOCK-M" /\ cpu.vuelta = 1

\* The bit of use is cleared in every step of CLOCK and in the odd rounds of
\* CLOCK-M.
BajaUso == algoritmo = "CLOCK" \/ cpu.vuelta = 1

\* The page the pointer of p is at: the first whose entry has that frame.
MarcoApuntado(p) == admin[p].marcos[admin[p].offset]
PaginaApuntada(p) == retornar_pagina(p, MarcoApuntado(p))

\* Mutant: the pointer advances before it is returned.
reemplazar_siguiente(p) == Siguiente(admin[p].offset)

\* What reemplazar_marco returns: the pointer, not the frame it points to.
reemplazar_marco(p) == admin[p].offset

\* No entry of the process names the frame: retornar_pagina returns NULL and
\* reemplazar_marco follows it.
RelojSinPagina(p) ==
  /\ cpu.fase = "reloj" /\ cpu.pid = p
  /\ PaginasCon(p, MarcoApuntado(p)) = {}
  /\ cpu' = [cpu EXCEPT !.fase = "sin_pagina"]
  /\ UNCHANGED <<algoritmo, proceso, pagina, admin, estado_de_marcos, ram, swap,
                 kernel, respuesta, reanudaciones>>

\* One step of the loop that does not find its victim: the pointer advances
\* and CLOCK-M counts the step of its round.
RelojAvanza(p) ==
  LET v == PaginaApuntada(p)
  IN /\ cpu.fase = "reloj" /\ cpu.pid = p
     /\ PaginasCon(p, MarcoApuntado(p)) # {}
     /\ ~EsVictima(pagina[p][v])
     /\ pagina' = IF BajaUso THEN [pagina EXCEPT ![p][v].uso = 0] ELSE pagina
     /\ admin' = [admin EXCEPT ![p].offset = Siguiente(@)]
     /\ cpu' = IF algoritmo = "CLOCK" THEN cpu
               ELSE [cpu EXCEPT !.i = Siguiente(@),
                                !.vuelta = IF Siguiente(cpu.i) = 0 THEN 1 - @ ELSE @]
     /\ UNCHANGED <<algoritmo, proceso, estado_de_marcos, ram, swap, kernel, respuesta,
                    reanudaciones>>

\* The loop finds its victim: it is written to swap if it was modified, loses
\* its presence, and the page that was asked for takes what reemplazar_marco
\* returns as its frame.
RelojReemplaza(p) ==
  LET v == PaginaApuntada(p)
      d == pagina[p][v]
      m == reemplazar_marco(p)
  IN /\ cpu.fase = "reloj" /\ cpu.pid = p
     /\ PaginasCon(p, MarcoApuntado(p)) # {}
     /\ EsVictima(d)
     /\ swap' = IF d.modificado = 1 THEN [swap EXCEPT ![p][v] = ram[d.marco]] ELSE swap
     /\ pagina' = [pagina EXCEPT ![p][v].presencia = 0, ![p][v].modificado = 0,
                                 ![p][cpu.pag] = Cargada(m)]
     /\ admin' = [admin EXCEPT ![p].offset = Siguiente(@)]
     /\ cpu' = [cpu EXCEPT !.fase = "carga", !.marco = m, !.vuelta = 0, !.i = 0]
     /\ UNCHANGED <<algoritmo, proceso, estado_de_marcos, ram, kernel, respuesta,
                    reanudaciones>>

\* leer_pagina_de_swap into the frame, and the frame is sent to the CPU.
CargaPagina(p) ==
  /\ cpu.fase = "carga" /\ cpu.pid = p
  /\ ram' = [ram EXCEPT ![cpu.marco] = swap[p][cpu.pag]]
  /\ cpu' = [cpu EXCEPT !.fase = "acceso"]
  /\ UNCHANGED <<algoritmo, proceso, pagina, admin, estado_de_marcos, swap, kernel,
                 respuesta, reanudaciones>>

\* The answer to the access is ready, and the thread is about to send it.
Prepara(op, p, v) ==
  /\ respuesta' = [op |-> op, pid |-> p, pag |-> cpu.pag, valor |-> v]
  /\ cpu' = [cpu EXCEPT !.fase = "responde"]

\* LECTURA_EN_MEMORIA in the frame the CPU was given.
leer_posicion(p) ==
  /\ cpu.fase = "acceso" /\ cpu.pid = p
  /\ Prepara("lectura", p, ram[cpu.marco])
  /\ pagina' = [pagina EXCEPT ![p][cpu.pag].uso = 1]
  /\ UNCHANGED <<algoritmo, proceso, admin, estado_de_marcos, ram, swap, kernel,
                 reanudaciones>>

\* Mutant: bit_modificado is not set.
escribir_sin_marcar(p, v) ==
  /\ cpu.fase = "acceso" /\ cpu.pid = p
  /\ ram' = [ram EXCEPT ![cpu.marco] = v]
  /\ pagina' = [pagina EXCEPT ![p][cpu.pag].uso = 1]
  /\ Prepara("escritura", p, v)
  /\ UNCHANGED <<algoritmo, proceso, admin, estado_de_marcos, swap, kernel,
                 reanudaciones>>

\* ESCRITURA_EN_MEMORIA in the frame the CPU was given.
escribir_en_posicion(p, v) ==
  /\ cpu.fase = "acceso" /\ cpu.pid = p
  /\ ram' = [ram EXCEPT ![cpu.marco] = v]
  /\ pagina' = [pagina EXCEPT ![p][cpu.pag].uso = 1, ![p][cpu.pag].modificado = 1]
  /\ Prepara("escritura", p, v)
  /\ UNCHANGED <<algoritmo, proceso, admin, estado_de_marcos, swap, kernel,
                 reanudaciones>>

\* The send of the value read, or of cod_ok.
Responde(p) ==
  /\ cpu.fase = "responde" /\ cpu.pid = p
  /\ respuesta' = SinRespuesta
  /\ cpu' = CpuLibre
  /\ UNCHANGED <<algoritmo, proceso, pagina, admin, estado_de_marcos, ram, swap, kernel,
                 reanudaciones>>

----------------------------------------------------------------------------
(* The thread atender_kernel. The kernel sends one message at a time, of a *)
(* process that is not in the CPU.                                         *)

Pide(p) == kernel.fase = "libre" /\ cpu.pid # p

\* CREAR_PROCESO: swap file, tables and administration of a new process.
crear_proceso(p) ==
  /\ Pide(p)
  /\ proceso[p] = "sin_crear"
  /\ proceso' = [proceso EXCEPT ![p] = "residente"]
  /\ swap' = [swap EXCEPT ![p] = SwapNuevo]
  /\ pagina' = [pagina EXCEPT ![p] = [n \in Paginas |-> PaginaNueva]]
  /\ admin' = [admin EXCEPT ![p] = AdminNuevo]
  /\ UNCHANGED <<algoritmo, estado_de_marcos, ram, cpu, kernel, respuesta, reanudaciones>>

\* SUSPENDER_PROCESO arrives: the walk over the tables starts.
suspender_proceso(p) ==
  /\ Pide(p)
  /\ proceso[p] = "residente"
  /\ kernel' = [fase |-> "suspende", pid |-> p, pag |-> 0]
  /\ UNCHANGED <<algoritmo, proceso, pagina, admin, estado_de_marcos, ram, swap, cpu,
                 respuesta, reanudaciones>>

\* Mutant: the bits of a page that is not written to swap are not cleared.
SuspendePaginaModificada(p) ==
  LET n == kernel.pag
      d == pagina[p][n]
  IN /\ kernel.fase = "suspende" /\ kernel.pid = p
     /\ n < CantPaginas
     /\ IF HayQueVolcar(d)
        THEN /\ swap' = [swap EXCEPT ![p][n] = ram[d.marco]]
             /\ pagina' = [pagina EXCEPT ![p][n].uso = 0, ![p][n].modificado = 0,
                                         ![p][n].presencia = 0]
        ELSE UNCHANGED <<swap, pagina>>
     /\ kernel' = [kernel EXCEPT !.pag = n + 1]
     /\ UNCHANGED <<algoritmo, proceso, admin, estado_de_marcos, ram, cpu, respuesta,
                    reanudaciones>>

\* One page of the walk: written to swap if it has to be, its bits cleared.
\* The entry keeps its frame.
SuspendePagina(p) ==
  LET n == kernel.pag
      d == pagina[p][n]
  IN /\ kernel.fase = "suspende" /\ kernel.pid = p
     /\ n < CantPaginas
     /\ swap' = IF HayQueVolcar(d) THEN [swap EXCEPT ![p][n] = ram[d.marco]] ELSE swap
     /\ pagina' = [pagina EXCEPT ![p][n].uso = 0, ![p][n].modificado = 0,
                                 ![p][n].presencia = 0]
     /\ kernel' = [kernel EXCEPT !.pag = n + 1]
     /\ UNCHANGED <<algoritmo, proceso, admin, estado_de_marcos, ram, cpu, respuesta,
                    reanudaciones>>

\* Mutant: the places are freed in the map as if they were the frames.
liberar_lugares(p) ==
  /\ admin' = [admin EXCEPT ![p] = AdminNuevo]
  /\ estado_de_marcos' = [m \in Marcos |-> IF m \in Lugares THEN 1 ELSE estado_de_marcos[m]]

\* liberar_marcos destroys the administration of the process. The frames it
\* named stay taken in estado_de_marcos.
liberar_marcos(p) ==
  /\ admin' = [admin EXCEPT ![p] = AdminNuevo]
  /\ UNCHANGED estado_de_marcos

\* The end of the walk: the frames are released and the kernel is answered.
SuspendeTermina(p) ==
  /\ kernel.fase = "suspende" /\ kernel.pid = p
  /\ kernel.pag = CantPaginas
  /\ liberar_marcos(p)
  /\ proceso' = [proceso EXCEPT ![p] = "suspendido"]
  /\ kernel' = KernelLibre
  /\ UNCHANGED <<algoritmo, pagina, ram, swap, cpu, respuesta, reanudaciones>>

\* REANUDAR_PROCESO: a new administration over the old tables.
reanudar_proceso(p) ==
  /\ Pide(p)
  /\ proceso[p] = "suspendido"
  /\ reanudaciones < MaxReanudaciones
  /\ reanudaciones' = reanudaciones + 1
  /\ proceso' = [proceso EXCEPT ![p] = "residente"]
  /\ admin' = [admin EXCEPT ![p] = AdminNuevo]
  /\ UNCHANGED <<algoritmo, pagina, estado_de_marcos, ram, swap, cpu, kernel, respuesta>>

\* FINALIZAR_PROCESO: the frames are released and the swap file is removed.
\* The tables stay in the global lists and nobody names them again.
eliminar_proceso(p) ==
  /\ Pide(p)
  /\ proceso[p] = "residente"
  /\ liberar_marcos(p)
  /\ swap' = [swap EXCEPT ![p] = SwapNuevo]
  /\ pagina' = [pagina EXCEPT ![p] = [n \in Paginas |-> PaginaNueva]]
  /\ proceso' = [proceso EXCEPT ![p] = "terminado"]
  /\ UNCHANGED <<algoritmo, ram, cpu, kernel, respuesta, reanudaciones>>

----------------------------------------------------------------------------
AtiendeCpu(p) ==
  \/ \E n \in Paginas : AccesoPresente(p, n) \/ AccesoConLugar(p, n) \/ AccesoSinLugar(p, n)
  \/ RelojSinPagina(p)
  \/ RelojAvanza(p)
  \/ RelojReemplaza(p)
  \/ CargaPagina(p)
  \/ leer_posicion(p)
  \/ \E v \in Valores : escribir_en_posicion(p, v)
  \/ Responde(p)

\* An access outside the memory managed, or through NULL, ends the program.
Vive == cpu.fase \notin {"sin_marcos", "sin_pagina"}

AtiendeKernel(p) ==
  /\ Vive
  /\ \/ crear_proceso(p)
     \/ suspender_proceso(p)
     \/ SuspendePagina(p)
     \/ SuspendeTermina(p)
     \/ reanudar_proceso(p)
     \/ eliminar_proceso(p)

Next == \E p \in Procesos : AtiendeCpu(p) \/ AtiendeKernel(p)

Spec == Init /\ [][Next]_vars

----------------------------------------------------------------------------
(* Properties.                                                             *)

Bit == {0, 1}

TypeOK ==
  /\ algoritmo \in Algoritmos
  /\ proceso \in [Procesos -> {"sin_crear", "residente", "suspendido", "terminado"}]
  /\ pagina \in [Procesos -> [Paginas -> [marco : Marcos \cup {SinMarco},
                   presencia : Bit, uso : Bit, modificado : Bit]]]
  /\ admin \in [Procesos -> [offset : Lugares,
                             marcos : [Lugares -> Marcos \cup {SinMarco}]]]
  /\ estado_de_marcos \in [Marcos -> Bit]
  /\ ram \in [Marcos -> Valores]
  /\ swap \in [Procesos -> [Paginas -> Valores]]
  /\ cpu \in [fase : {"libre", "acceso", "carga", "responde", "reloj", "sin_marcos",
                      "sin_pagina"},
              pid : Procesos \cup {Nadie}, pag : Paginas, marco : Marcos \cup {SinMarco},
              vuelta : Bit, i : Lugares]
  /\ kernel \in [fase : {"libre", "suspende"}, pid : Procesos \cup {Nadie},
                 pag : 0 .. CantPaginas]
  /\ respuesta \in Respuestas \cup {SinRespuesta}
  /\ reanudaciones \in 0 .. MaxReanudaciones

Presente(p, n) == pagina[p][n].presencia = 1

\* A frame holds at most one loaded page, of one process, whatever was
\* assigned, suspended, resumed or ended before (respuesta_a_pregunta_de_2do_
\* acceso and reemplazar_marco give the frames).
UnaPaginaPorMarco ==
  \A p, q \in Procesos : \A n, k \in Paginas :
    Presente(p, n) /\ Presente(q, k) /\ pagina[p][n].marco = pagina[q][k].marco
      => p = q /\ n = k

\* Replacement is local: a loaded page is in one of the frames its own process
\* was assigned (marcos_asignados) in this stay in memory.
ReemplazosLocales ==
  \A p \in Procesos : \A n \in Paginas :
    Presente(p, n) => \E i \in Lugares : admin[p].marcos[i] = pagina[p][n].marco

\* The places of the processes and the map of frames agree: a frame is in one
\* place of one process at most, and such a frame is taken in the map.
MarcosPropios ==
  \A p, q \in Procesos : \A i, j \in Lugares :
    LET m == admin[p].marcos[i] IN
      m # SinMarco =>
        /\ estado_de_marcos[m] = 0
        /\ admin[q].marcos[j] = m => p = q /\ i = j

\* A process that may be given one more frame finds one free: memory is sized
\* for the processes that are resident together, and the frames of the ones
\* suspended or ended are free again.
MarcosAlcanzan == cpu.fase # "sin_marcos"

\* The frames of the loaded pages of a process in memory are exactly those it
\* was given: a replacement loads the new page in a frame of its own process
\* and leaves no frame of it without a page. A frame may have two: line 538 of
\* retornar_pagina also answers a page that was thrown out before.
MarcosEnUso ==
  \A p \in Procesos : EnMemoria(p) =>
    {pagina[p][n].marco : n \in {k \in Paginas : Presente(p, k)}}
      = {admin[p].marcos[i] : i \in Lugares} \ {SinMarco}

\* So reemplazar_marco never follows a NULL page (MarcosEnUso implies it).
SiempreHayPagina == cpu.fase # "sin_pagina"

\* reemplazar_marco ends: neither CLOCK nor CLOCK-M turns for ever, whatever
\* the bits of the pages are when it is called.
RelojTermina == cpu.fase = "reloj" ~> cpu.fase # "reloj"

\* The places of a process have the frames of the same number. Nothing in
\* memory sees to it, and reemplazar_marco gives the place for the frame.
LugaresAlineados ==
  \A p \in Procesos : \A i \in Lugares : admin[p].marcos[i] \in {i, SinMarco}

\* The value a process would read in a page: in the frame once the page was
\* copied there, in swap otherwise.
EnRam(p, n) == Presente(p, n) /\ ~(cpu.fase = "carga" /\ cpu.pid = p /\ cpu.pag = n)

Contenido == [p \in Procesos |->
  [n \in Paginas |-> IF EnRam(p, n) THEN ram[pagina[p][n].marco] ELSE swap[p][n]]]

\* What the properties above rest on while nothing is replaced.

\* Each thread works for a process that stays in memory until it is done: the
\* CPU for one that is not being suspended.
HilosFieles ==
  /\ cpu.fase = "libre" <=> cpu.pid = Nadie
  /\ cpu.fase # "libre" => EnMemoria(cpu.pid)
  /\ kernel.fase = "libre" <=> kernel.pid = Nadie
  /\ kernel.fase = "suspende" => proceso[kernel.pid] = "residente"
  /\ cpu.fase = "responde" <=> respuesta # SinRespuesta

\* Only a resident process has pages loaded, and a suspension has none behind.
CargadasDeResidentes ==
  \A p \in Procesos : \A n \in Paginas :
    Presente(p, n) => /\ proceso[p] = "residente"
                      /\ kernel.pid = p => kernel.pag <= n
                      /\ pagina[p][n].marco # SinMarco

\* Every frame a process was given in this stay has a page of it.
LugaresConPagina ==
  \A p \in Procesos : EnMemoria(p) =>
    \A i \in Lugares : admin[p].marcos[i] # SinMarco =>
      \E n \in Paginas : Presente(p, n) /\ pagina[p][n].marco = admin[p].marcos[i]

\* The frame the CPU was given is still that of the page it asked for.
MarcoDelAcceso ==
  cpu.fase \in {"acceso", "carga"} =>
    Presente(cpu.pid, cpu.pag) /\ pagina[cpu.pid][cpu.pag].marco = cpu.marco

\* A page that is not modified is in swap as it is in its frame.
CopiaFiel ==
  \A p \in Procesos :
    /\ proceso[p] = "sin_crear" => swap[p] = SwapNuevo
    /\ \A n \in Paginas :
         EnRam(p, n) /\ pagina[p][n].modificado = 0 => swap[p][n] = ram[pagina[p][n].marco]

SinReloj == cpu.fase \notin {"reloj", "sin_pagina"}

\* With TypeOK, MarcosPropios, UnaPaginaPorMarco and ReemplazosLocales, inductive.
MemoriaEnOrden ==
  HilosFieles /\ CargadasDeResidentes /\ LugaresConPagina /\ MarcoDelAcceso /\ CopiaFiel /\ SinReloj

Terminados == {p \in Procesos : proceso[p] = "terminado"}

Ideal == INSTANCE MemoriaIdeal
           WITH contenido <- Contenido, terminados <- Terminados, respuesta <- respuesta

\* Through assignments, suspensions page by page, resumptions and ends, the
\* pages behave as if they were never moved: a read returns the last write.
CumpleIdeal == Ideal!Spec
=============================================================================
