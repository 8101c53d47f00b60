-------------------------------- MODULE Mmu --------------------------------
(***************************************************************************)
(* The CPU as the user of memory (CPU/utilsCPU.c 313-520, CPU/CPU.c): the  *)
(* translation of addresses, the TLB with its two algorithms, and the      *)
(* instructions that read and write, composed with both threads of the     *)
(* memory module.                                                          *)
(*                                                                         *)
(* Entries of the TLB name no process: the CPU empties it when a process   *)
(* leaves, after it has sent the PCB. Timestamps are kept as ranks, the    *)
(* oldest lowest. Two translations are RETARDO_MEMORIA milliseconds apart, *)
(* so the clock moves between them.                                        *)
(***************************************************************************)
EXTENDS Memoria, Sequences

CONSTANTS CantEntradasTlb,   \* cantidad_entradas_TLB
          AlgoritmosTlb,     \* the values of REEMPLAZO_TLB considered
          TamPagina,         \* tamanio_pagina
          EntradasPorTabla,  \* cant_entradas_por_tabla
          Instrucciones      \* bound: the instructions programs are made of

ASSUME TlbAssumption ==
  /\ CantEntradasTlb \in Nat \ {0}
  /\ AlgoritmosTlb # {} /\ AlgoritmosTlb \subseteq {"FIFO", "LRU"}
ASSUME InstruccionesAssumption == Instrucciones \subseteq {"READ", "WRITE", "COPY"}
ASSUME DireccionesAssumption ==
  TamPagina \in Nat \ {0} /\ EntradasPorTabla \in Nat \ {0}

VARIABLES
  algoritmo_tlb,  \* algoritmo_reemplazo_TLB
  tlb,            \* the queue TLB
  mmu             \* the process that runs and where ciclo_de_instruccion is

mmuVars == <<algoritmo_tlb, tlb, mmu>>
todas == <<vars, mmuVars>>

----------------------------------------------------------------------------
(* Addresses.                                                              *)

numero_pagina(d) == d \div TamPagina
desplazamiento_memoria(d, n) == d - n * TamPagina
entrada_tabla_1er_nivel(n) == n \div EntradasPorTabla
entrada_tabla_2do_nivel(n) == n % EntradasPorTabla

\* What obtener_direccion_fisica adds up, and the frame memory finds there.
direccion_fisica(marco, d) == marco * TamPagina + desplazamiento_memoria(d, numero_pagina(d))
MarcoDe(fisica) == fisica \div TamPagina

\* primer_acceso_a_memoria gives the table of second level, and the entry in
\* it is the page: crear_tablas_de_2do_nivel numbers them in that order.
PaginaEnTablas(i, j) == i * EntradasPorTabla + j

PaginaTraducida(n) == PaginaEnTablas(entrada_tabla_1er_nivel(n), entrada_tabla_2do_nivel(n))

\* The logical addresses of a process of that size.
Direcciones == 0 .. CantPaginas * TamPagina - 1

----------------------------------------------------------------------------
(* The TLB.                                                                *)

\* Later than every entry, whose ranks are at most CantEntradasTlb.
Ahora == CantEntradasTlb + 1

\* Ranks instead of milliseconds; FIFO does not read them.
EnRangos(t) ==
  [i \in DOMAIN t |->
     [t[i] EXCEPT !.ts = IF algoritmo_tlb = "FIFO" THEN 0
                         ELSE Cardinality({t[j].ts : j \in {k \in DOMAIN t : t[k].ts <= t[i].ts}})]]

EntradasDe(n) == {i \in DOMAIN tlb : tlb[i].pagina = n}

esta_en_TLB(n) == EntradasDe(n) # {}

\* The frame of the last entry of the page, in the order of the queue.
obtener_marco_de_TLB(n) ==
  tlb[CHOOSE i \in EntradasDe(n) : \A j \in EntradasDe(n) : j <= i].marco

\* Mutant: a hit leaves the timestamp as it was.
SinReferenciar(n) == tlb

\* Both walks over the queue give the entries of the page a new timestamp.
Referenciada(n) ==
  EnRangos([i \in DOMAIN tlb |-> IF i \in EntradasDe(n) THEN [tlb[i] EXCEPT !.ts = Ahora]
                                 ELSE tlb[i]])

\* The first of the oldest among the first k entries of the queue.
MasAntigua(k) ==
  CHOOSE i \in 1 .. k :
    \A j \in 1 .. k : tlb[i].ts < tlb[j].ts \/ (tlb[i].ts = tlb[j].ts /\ i <= j)

\* One pass over the queue: the oldest entry found so far is held apart, and
\* goes back to the queue when an older one appears. The last one is dropped.
algoritmo_LRU(nueva) ==
  Append([k \in 1 .. Len(tlb) - 1 |->
            IF MasAntigua(k + 1) = k + 1 THEN tlb[MasAntigua(k)] ELSE tlb[k + 1]], nueva)

guardar_en_TLB(n, m) ==
  LET nueva == [pagina |-> n, marco |-> m, ts |-> Ahora]
  IN EnRangos(IF Len(tlb) < CantEntradasTlb THEN Append(tlb, nueva)
              ELSE IF algoritmo_tlb = "FIFO" THEN Append(Tail(tlb), nueva)
              ELSE algoritmo_LRU(nueva))

\* The entries of a frame that was replaced become those of its new page. If
\* there is none, the page gets no entry.
actualizar_TLB(n, m) ==
  EnRangos([i \in DOMAIN tlb |-> IF tlb[i].marco = m
                                 THEN [pagina |-> n, marco |-> m, ts |-> Ahora]
                                 ELSE tlb[i]])

----------------------------------------------------------------------------
(* The CPU. mmu.fase: "ociosa" no process; "busca" about to fetch; "pide"  *)
(* waiting for a frame; "opera" waiting for memory to read or write;       *)
(* "copia" COPY has read its source; "sale" the PCB was sent and the TLB   *)
(* is not empty yet. mmu.codigo is the first half of the answer of memory, *)
(* and mmu.pag the last page translated.                                   *)

Operaciones == Instrucciones \cup {"READ", "COPY_DESTINO"}

Ociosa == [fase |-> "ociosa", pid |-> Nadie, op |-> "READ", pag |-> 0, dato |-> Cero,
           codigo |-> "ACCESO_A_2DA_TABLA"]

\* The kernel has the PCB of the process that runs until it is sent back.
EnCpu(p) == mmu.pid = p /\ mmu.fase # "sale"

MmuInit ==
  /\ Init
  /\ algoritmo_tlb \in AlgoritmosTlb
  /\ tlb = <<>>
  /\ mmu = Ociosa

\* OPERACION_ENVIO_PCB of a process that is in memory.
RecibePcb(p) ==
  /\ mmu.fase = "ociosa"
  /\ EnMemoria(p)
  /\ mmu' = [Ociosa EXCEPT !.fase = "busca", !.pid = p]
  /\ UNCHANGED <<vars, algoritmo_tlb, tlb>>

\* READ, WRITE and the source of COPY come from the fetch; the destination of
\* COPY is translated once its source was read.
OperacionesPosibles ==
  CASE mmu.fase = "busca" -> Instrucciones
    [] mmu.fase = "copia" -> {"COPY_DESTINO"}
    [] OTHER -> {}

\* obtener_direccion_fisica, the page is in the TLB: memory is not asked for
\* its frame and gets the physical address at once.
TraduceConTlb(p, op, d) ==
  LET n == numero_pagina(d)
  IN /\ mmu.pid = p
     /\ cpu.fase = "libre"
     /\ esta_en_TLB(n)
     /\ tlb' = Referenciada(n)
     /\ cpu' = [CpuLibre EXCEPT !.fase = "acceso", !.pid = p, !.pag = n,
                                !.marco = MarcoDe(direccion_fisica(obtener_marco_de_TLB(n), d))]
     /\ mmu' = [mmu EXCEPT !.fase = "opera", !.op = op, !.pag = n]
     /\ UNCHANGED <<algoritmo, proceso, pagina, admin, estado_de_marcos, ram, swap, kernel,
                    respuesta, reanudaciones, algoritmo_tlb>>

\* The page is not in the TLB and is loaded: its frame comes at once.
TraduceCargada(p, op, d) ==
  LET n == numero_pagina(d)
  IN /\ mmu.pid = p
     /\ ~esta_en_TLB(n)
     /\ AccesoPresente(p, PaginaTraducida(n))
     /\ tlb' = guardar_en_TLB(n, cpu'.marco)
     /\ mmu' = [mmu EXCEPT !.fase = "opera", !.op = op, !.pag = n,
                           !.codigo = "ACCESO_A_2DA_TABLA"]
     /\ UNCHANGED algoritmo_tlb

\* The page is not loaded: memory looks for a frame and the CPU waits.
TraducePidiendo(p, op, d) ==
  LET n == numero_pagina(d)
  IN /\ mmu.pid = p
     /\ ~esta_en_TLB(n)
     /\ AccesoConLugar(p, PaginaTraducida(n)) \/ AccesoSinLugar(p, PaginaTraducida(n))
     /\ mmu' = [mmu EXCEPT !.fase = "pide", !.op = op, !.codigo = "ACCESO_A_2DA_TABLA"]
     /\ UNCHANGED <<algoritmo_tlb, tlb>>

\* The loop of reemplazar_marco.
BuscaVictima(p) == (RelojAvanza(p) \/ RelojSinPagina(p)) /\ UNCHANGED mmuVars

\* Its end: REEMPLAZO_DE_PAGINA is sent before the page is copied.
AvisaReemplazo(p) ==
  /\ RelojReemplaza(p)
  /\ mmu' = [mmu EXCEPT !.codigo = "REEMPLAZO_DE_PAGINA"]
  /\ UNCHANGED <<algoritmo_tlb, tlb>>

\* Mutant: the answer to a replacement is taken for that of an access.
segundo_acceso_sin_actualizar(p) ==
  /\ CargaPagina(p)
  /\ tlb' = guardar_en_TLB(cpu.pag, cpu.marco)
  /\ mmu' = [mmu EXCEPT !.fase = "opera", !.pag = cpu.pag]
  /\ UNCHANGED algoritmo_tlb

\* segundo_acceso_a_memoria receives the frame, once the page was copied.
segundo_acceso_a_memoria(p) ==
  /\ CargaPagina(p)
  /\ tlb' = IF mmu.codigo = "REEMPLAZO_DE_PAGINA" THEN actualizar_TLB(cpu.pag, cpu.marco)
            ELSE guardar_en_TLB(cpu.pag, cpu.marco)
  /\ mmu' = [mmu EXCEPT !.fase = "opera", !.pag = cpu.pag]
  /\ UNCHANGED algoritmo_tlb

leer_posicion_de_memoria(p) ==
  /\ mmu.op \in {"READ", "COPY"}
  /\ leer_posicion(p)
  /\ UNCHANGED mmuVars

\* COPY writes what it read, WRITE its parameter.
escribir_en_posicion_de_memoria(p) ==
  /\ mmu.op \in {"WRITE", "COPY_DESTINO"}
  /\ \E v \in IF mmu.op = "WRITE" THEN Valores ELSE {mmu.dato} : escribir_en_posicion(p, v)
  /\ UNCHANGED mmuVars

\* The answer of memory arrives. The instruction is over but for COPY, that
\* has its destination to write.
RecibeRespuesta(p) ==
  /\ Responde(p)
  /\ mmu' = IF mmu.op = "COPY" THEN [mmu EXCEPT !.fase = "copia", !.dato = respuesta.valor]
            ELSE [Ociosa EXCEPT !.fase = "busca", !.pid = p, !.pag = mmu.pag]
  /\ UNCHANGED <<algoritmo_tlb, tlb>>

\* I_O, EXIT or the check of interrupts: the PCB is sent to the kernel.
EnviaPcb(p) ==
  /\ mmu.fase = "busca" /\ mmu.pid = p
  /\ mmu' = [mmu EXCEPT !.fase = "sale"]
  /\ UNCHANGED <<vars, algoritmo_tlb, tlb>>

\* Mutant: the TLB keeps the entries of the process that left.
conservar_tlb(p) ==
  /\ mmu.fase = "sale" /\ mmu.pid = p
  /\ mmu' = Ociosa
  /\ UNCHANGED <<vars, algoritmo_tlb, tlb>>

vaciar_tlb(p) ==
  /\ mmu.fase = "sale" /\ mmu.pid = p
  /\ tlb' = <<>>
  /\ mmu' = Ociosa
  /\ UNCHANGED <<vars, algoritmo_tlb>>

\* The kernel suspends, resumes and ends processes that are not in the CPU.
PideKernel(p) == ~EnCpu(p) /\ AtiendeKernel(p) /\ UNCHANGED mmuVars

MmuNext ==
  \E p \in Procesos :
    \/ RecibePcb(p)
    \/ \E op \in OperacionesPosibles, d \in Direcciones :
         TraduceConTlb(p, op, d) \/ TraduceCargada(p, op, d) \/ TraducePidiendo(p, op, d)
    \/ BuscaVictima(p)
    \/ AvisaReemplazo(p)
    \/ segundo_acceso_a_memoria(p)
    \/ leer_posicion_de_memoria(p)
    \/ escribir_en_posicion_de_memoria(p)
    \/ RecibeRespuesta(p)
    \/ EnviaPcb(p)
    \/ vaciar_tlb(p)
    \/ PideKernel(p)

MmuSpec == MmuInit /\ [][MmuNext]_todas

\* atender_cpu runs while it has something to do inside reemplazar_marco: the
\* loop blocks nowhere but in mutex_swap, which is always given back.
MmuSpecJusta ==
  MmuSpec /\ \A p \in Procesos : WF_todas(BuscaVictima(p) \/ AvisaReemplazo(p))

----------------------------------------------------------------------------
(* Properties.                                                             *)

Entradas == [pagina : Paginas, marco : Marcos, ts : 0 .. CantEntradasTlb]

\* Types of the composition, with a TLB that is never over its size.
MmuTypeOK ==
  /\ TypeOK
  /\ algoritmo_tlb \in AlgoritmosTlb
  /\ tlb \in Seq(Entradas) /\ Len(tlb) <= CantEntradasTlb
  /\ mmu \in [fase : {"ociosa", "busca", "pide", "opera", "copia", "sale"},
              pid : Procesos \cup {Nadie}, op : Operaciones, pag : Paginas, dato : Valores,
              codigo : {"ACCESO_A_2DA_TABLA", "REEMPLAZO_DE_PAGINA"}]

\* Whenever the CPU may look in the TLB, every entry says what the tables of
\* the process that runs say: no entry outlives a replacement, a suspension or
\* the process it was of (entries name no process).
EntradasFieles ==
  mmu.fase \in {"busca", "copia"} =>
    \A i \in DOMAIN tlb :
      /\ Presente(mmu.pid, tlb[i].pagina)
      /\ pagina[mmu.pid][tlb[i].pagina].marco = tlb[i].marco

PaginasEnTlb == {tlb[i].pagina : i \in DOMAIN tlb}

\* With LRU and room for two, storing a page never throws out the page that
\* was translated before it, however long that one has been in the queue.
UltimaPaginaQueda ==
  [][\A p \in Procesos :
       mmu.pid = p /\ mmu'.pid = p /\ algoritmo_tlb = "LRU" /\ CantEntradasTlb > 1
         /\ mmu'.fase = "opera" /\ mmu'.codigo # "REEMPLAZO_DE_PAGINA"
         /\ mmu.pag \in PaginasEnTlb
       => mmu.pag \in PaginasEnTlb']_todas
=============================================================================
