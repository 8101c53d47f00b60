---------------------------- MODULE MemoriaPruebas ----------------------------
(***************************************************************************)
(* Proofs about Memoria, for any number of processes, pages, frames and    *)
(* values, and both replacement algorithms. What holds whatever is         *)
(* replaced comes first (Fuerte, MarcosPropios). Then configurations in    *)
(* which a process has a place for each of its pages: reemplazar_marco is  *)
(* never called, and memory implements MemoriaIdeal (Ordenada). Last,      *)
(* replacement while places have the frames of the same number (ConReloj). *)
(*                                                                         *)
(* The lemmas about steps allow a TLB in front of memory (Paso, PasoFiel). *)
(***************************************************************************)
EXTENDS Memoria, TLAPS, FiniteSetTheorems, WellFoundedInduction

----------------------------------------------------------------------------
(* The operators of the code.                                              *)

\* Minimo is the least element, by well-foundedness: a set of naturals has one.
LEMMA MinimoDe == ASSUME NEW S \in SUBSET Nat, S # {}
                  PROVE  Minimo(S) \in S /\ \A y \in S : Minimo(S) <= y
<1>1. \E x \in S : \A y \in S : <<y, x>> \notin OpToRel(<, Nat)
  BY NatLessThanWellFounded, WFMin
<1>2. \A x, y \in Nat : <<y, x>> \notin OpToRel(<, Nat) => x <= y
  BY DEF OpToRel
<1> QED BY <1>1, <1>2 DEF Minimo

\* The pointer of a process stays among its places.
LEMMA SiguienteLugar == ASSUME NEW i \in Lugares PROVE Siguiente(i) \in Lugares
BY MarcosAssumption DEF Siguiente, Lugares

\* The place primer_marco_libre_del_proceso returns has no frame.
LEMMA LugarLibre ==
  ASSUME TypeOK, NEW p \in Procesos, primer_marco_libre_del_proceso(p) # SinMarco
  PROVE  /\ primer_marco_libre_del_proceso(p) \in Lugares
         /\ admin[p].marcos[primer_marco_libre_del_proceso(p)] = SinMarco
<1>1. LugaresLibres(p) \in SUBSET Nat
  BY MarcosAssumption DEF LugaresLibres, Lugares
<1>2. LugaresLibres(p) # {}
  BY DEF primer_marco_libre_del_proceso
<1>3. Minimo(LugaresLibres(p)) \in LugaresLibres(p)
  BY <1>1, <1>2, MinimoDe
<1>4. admin[p].offset \in Lugares
  BY DEF TypeOK
<1>5. \A d \in Lugares : (admin[p].offset + d) % MarcosPorProceso \in Lugares
  BY <1>4, MarcosAssumption DEF Lugares
<1> QED BY <1>2, <1>3, <1>5 DEF primer_marco_libre_del_proceso, LugaresLibres

\* The frame primer_marco_libre returns is free in the map.
LEMMA MarcoLibre ==
  ASSUME TypeOK, primer_marco_libre # SinMarco
  PROVE  primer_marco_libre \in Marcos /\ estado_de_marcos[primer_marco_libre] = 1
<1>1. MarcosLibres \in SUBSET Nat
  BY MarcosAssumption DEF MarcosLibres, Marcos
<1> QED BY <1>1, MinimoDe DEF primer_marco_libre, MarcosLibres

\* When primer_marco_libre_del_proceso finds nothing, its walk from the pointer
\* went over every place.
LEMMA SinLugarTodos ==
  ASSUME TypeOK, NEW p \in Procesos, primer_marco_libre_del_proceso(p) = SinMarco, NEW i \in Lugares
  PROVE  admin[p].marcos[i] # SinMarco
<1> DEFINE o == admin[p].offset
           M == MarcosPorProceso
<1>1. LugaresLibres(p) = {}
  <2> SUFFICES ASSUME LugaresLibres(p) # {} PROVE FALSE
    OBVIOUS
  <2>1. LugaresLibres(p) \in SUBSET Nat
    BY MarcosAssumption DEF LugaresLibres, Lugares
  <2>2. Minimo(LugaresLibres(p)) \in Lugares
    BY <2>1, MinimoDe DEF LugaresLibres
  <2>3. o \in Lugares
    BY DEF TypeOK
  <2>4. (o + Minimo(LugaresLibres(p))) % M \in 0 .. M - 1
    BY <2>2, <2>3, MarcosAssumption DEF Lugares
  <2> QED BY <2>4, MarcosAssumption DEF primer_marco_libre_del_proceso, SinMarco
<1>2. o \in 0 .. M - 1 /\ i \in 0 .. M - 1 /\ M \in Nat \ {0}
  BY MarcosAssumption DEF TypeOK, Lugares
<1>3. \E d \in 0 .. M - 1 : (o + d) % M = i
  <2> HIDE DEF o, M
  <2>1. CASE o <= i
    <3> DEFINE d == i - o
    <3>1. d \in 0 .. M - 1 /\ o + d = i
      BY <1>2, <2>1
    <3>2. i % M = i
      BY <1>2
    <3> QED BY <3>1, <3>2
  <2>2. CASE i < o
    <3> DEFINE d == i - o + M
    <3>1. d \in 0 .. M - 1 /\ o + d = i + M
      BY <1>2, <2>2
    <3>2. (i + M) % M = i
      BY <1>2
    <3> QED BY <3>1, <3>2
  <2> QED BY <1>2, <2>1, <2>2
<1> QED BY <1>1, <1>3 DEF LugaresLibres, Lugares

----------------------------------------------------------------------------
(* Steps and types.                                                        *)

\* The step the thread of the CPU takes when the TLB has the page: memory is not
\* asked for the frame. Mmu.tla takes it, with the frame its TLB says.
AccesoPorTlb(p, n, m) ==
  /\ cpu.fase = "libre"
  /\ EnMemoria(p)
  /\ cpu' = [CpuLibre EXCEPT !.fase = "acceso", !.pid = p, !.pag = n, !.marco = m]
  /\ UNCHANGED <<algoritmo, proceso, pagina, admin, estado_de_marcos, ram, swap, kernel,
                 respuesta, reanudaciones>>

\* A step of memory, of its own or with a TLB in front. What is proved of Paso
\* holds in Memoria and in Mmu.
Paso == \E p \in Procesos : \/ AtiendeCpu(p) \/ AtiendeKernel(p)
                            \/ \E n \in Paginas, m \in Marcos : AccesoPorTlb(p, n, m)

\* The types of TypeOK, with names.
Fases == {"libre", "acceso", "carga", "responde", "reloj", "sin_marcos", "sin_pagina"}
EntradaTipo == [marco : Marcos \cup {SinMarco}, presencia : Bit, uso : Bit, modificado : Bit]
AdminTipo == [offset : Lugares, marcos : [Lugares -> Marcos \cup {SinMarco}]]
CpuTipo == [fase : Fases, pid : Procesos \cup {Nadie}, pag : Paginas,
            marco : Marcos \cup {SinMarco}, vuelta : Bit, i : Lugares]
KernelTipo == [fase : {"libre", "suspende"}, pid : Procesos \cup {Nadie}, pag : 0 .. CantPaginas]

\* The bounds of the index sets.
LEMMA Numeros == /\ 0 \in Paginas /\ 0 \in Lugares /\ 0 \in Bit /\ 1 \in Bit
                 /\ Paginas \subseteq 0 .. CantPaginas
                 /\ Paginas \subseteq Nat /\ Marcos \subseteq Nat /\ Lugares \subseteq Nat
                 /\ Lugares \subseteq Marcos /\ SinMarco \notin Nat
BY PaginasAssumption, MarcosAssumption DEF Paginas, Lugares, Marcos, Bit, SinMarco

\* TypeOK with the named types.
Tipos ==
  /\ algoritmo \in Algoritmos
  /\ proceso \in [Procesos -> {"sin_crear", "residente", "suspendido", "terminado"}]
  /\ pagina \in [Procesos -> [Paginas -> EntradaTipo]]
  /\ admin \in [Procesos -> AdminTipo]
  /\ estado_de_marcos \in [Marcos -> Bit]
  /\ ram \in [Marcos -> Valores]
  /\ swap \in [Procesos -> [Paginas -> Valores]]
  /\ cpu \in CpuTipo
  /\ kernel \in KernelTipo
  /\ respuesta \in Respuestas \cup {SinRespuesta}
  /\ reanudaciones \in 0 .. MaxReanudaciones

\* Tipos is TypeOK.
LEMMA TiposSonTipos == TypeOK <=> Tipos
BY DEF TypeOK, Tipos, Fases, EntradaTipo, AdminTipo, CpuTipo, KernelTipo

\* The entries the handlers write have their type.
LEMMA EntradasTipo ==
  /\ PaginaNueva \in EntradaTipo
  /\ \A m \in Marcos : Cargada(m) \in EntradaTipo
  /\ \A d \in EntradaTipo, b \in Bit : /\ [d EXCEPT !.uso = b] \in EntradaTipo
                                      /\ [d EXCEPT !.uso = b, !.modificado = b] \in EntradaTipo
                                      /\ [d EXCEPT !.presencia = b, !.modificado = b] \in EntradaTipo
                                      /\ [d EXCEPT !.uso = b, !.modificado = b, !.presencia = b] \in EntradaTipo
BY Numeros DEF PaginaNueva, EntradaTipo, Cargada

\* The same for the state of the thread of the CPU.
LEMMA CpuTipos ==
  /\ CpuLibre \in CpuTipo
  /\ \A f \in Fases, p \in Procesos, n \in Paginas :
       [CpuLibre EXCEPT !.fase = f, !.pid = p, !.pag = n] \in CpuTipo
  /\ \A f \in Fases, p \in Procesos, n \in Paginas, m \in Marcos \cup {SinMarco} :
       [CpuLibre EXCEPT !.fase = f, !.pid = p, !.pag = n, !.marco = m] \in CpuTipo
  /\ \A c \in CpuTipo, f \in Fases : [c EXCEPT !.fase = f] \in CpuTipo
  /\ \A c \in CpuTipo, b \in Bit, i \in Lugares : [c EXCEPT !.i = i, !.vuelta = b] \in CpuTipo
  /\ \A c \in CpuTipo, f \in Fases, m \in Marcos \cup {SinMarco}, b \in Bit, i \in Lugares :
       [c EXCEPT !.fase = f, !.marco = m, !.vuelta = b, !.i = i] \in CpuTipo
<1>1. CpuLibre \in CpuTipo
  BY Numeros DEF CpuLibre, CpuTipo, Fases
<1>2. ASSUME NEW c \in CpuTipo, NEW f \in Fases PROVE [c EXCEPT !.fase = f] \in CpuTipo
  BY DEF CpuTipo
<1>3. ASSUME NEW c \in CpuTipo, NEW b \in Bit, NEW i \in Lugares
      PROVE  [c EXCEPT !.i = i, !.vuelta = b] \in CpuTipo
  BY DEF CpuTipo
<1>4. ASSUME NEW c \in CpuTipo, NEW f \in Fases, NEW p \in Procesos, NEW n \in Paginas
      PROVE  [c EXCEPT !.fase = f, !.pid = p, !.pag = n] \in CpuTipo
  BY DEF CpuTipo
<1>5. ASSUME NEW c \in CpuTipo, NEW f \in Fases, NEW p \in Procesos, NEW n \in Paginas,
             NEW m \in Marcos \cup {SinMarco}
      PROVE  [c EXCEPT !.fase = f, !.pid = p, !.pag = n, !.marco = m] \in CpuTipo
  BY DEF CpuTipo
<1>6. ASSUME NEW c \in CpuTipo, NEW f \in Fases, NEW m \in Marcos \cup {SinMarco}, NEW b \in Bit,
             NEW i \in Lugares
      PROVE  [c EXCEPT !.fase = f, !.marco = m, !.vuelta = b, !.i = i] \in CpuTipo
  BY DEF CpuTipo
<1>7. \A f \in Fases, p \in Procesos, n \in Paginas :
        [CpuLibre EXCEPT !.fase = f, !.pid = p, !.pag = n] \in CpuTipo
  BY <1>1, <1>4
<1>8. \A f \in Fases, p \in Procesos, n \in Paginas, m \in Marcos \cup {SinMarco} :
        [CpuLibre EXCEPT !.fase = f, !.pid = p, !.pag = n, !.marco = m] \in CpuTipo
  BY <1>1, <1>5
<1> QED BY <1>1, <1>2, <1>3, <1>6, <1>7, <1>8

\* The same for the administration of frames.
LEMMA AdminTipos ==
  /\ AdminNuevo \in AdminTipo
  /\ \A a \in AdminTipo, i \in Lugares, j \in Lugares, m \in Marcos \cup {SinMarco} :
       /\ [a EXCEPT !.offset = i] \in AdminTipo
       /\ [a EXCEPT !.marcos[j] = m, !.offset = i] \in AdminTipo
<1>1. AdminNuevo \in AdminTipo
  BY Numeros DEF AdminNuevo, AdminTipo
<1> QED BY <1>1 DEF AdminTipo

\* What the types say of an entry.
LEMMA DePagina ==
  ASSUME Tipos, NEW p \in Procesos, NEW n \in Paginas
  PROVE  /\ pagina[p][n] \in EntradaTipo
         /\ pagina[p][n].marco \in Marcos \cup {SinMarco} /\ pagina[p][n].presencia \in Bit
         /\ pagina[p][n].uso \in Bit /\ pagina[p][n].modificado \in Bit
BY DEF Tipos, EntradaTipo

\* What the types say of an administration.
LEMMA DeAdmin ==
  ASSUME Tipos, NEW p \in Procesos
  PROVE  /\ admin[p] \in AdminTipo /\ admin[p].offset \in Lugares
         /\ \A i \in Lugares : admin[p].marcos[i] \in Marcos \cup {SinMarco}
BY DEF Tipos, AdminTipo

\* Writing one entry keeps the type of the tables.
LEMMA PaginaPorEntrada ==
  ASSUME Tipos, NEW p \in Procesos, NEW n \in Paginas, NEW e \in EntradaTipo
  PROVE  [pagina EXCEPT ![p][n] = e] \in [Procesos -> [Paginas -> EntradaTipo]]
BY DEF Tipos

\* The page the pointer is at, when there is one.
LEMMA ApuntadaEsPagina ==
  ASSUME NEW p \in Procesos, PaginasCon(p, MarcoApuntado(p)) # {}
  PROVE  PaginaApuntada(p) \in Paginas /\ pagina[p][PaginaApuntada(p)].marco = MarcoApuntado(p)
<1>1. PaginasCon(p, MarcoApuntado(p)) \in SUBSET Nat
  BY Numeros DEF PaginasCon
<1>2. PaginaApuntada(p) \in PaginasCon(p, MarcoApuntado(p))
  BY <1>1, MinimoDe DEF PaginaApuntada, retornar_pagina
<1> QED BY <1>2 DEF PaginasCon

\* What the types say of the thread of the CPU.
LEMMA DeCpu ==
  ASSUME Tipos
  PROVE  /\ cpu \in CpuTipo
         /\ cpu.fase \in Fases /\ cpu.pag \in Paginas /\ cpu.marco \in Marcos \cup {SinMarco}
         /\ cpu.vuelta \in Bit /\ cpu.i \in Lugares /\ cpu.pid \in Procesos \cup {Nadie}
BY DEF Tipos, CpuTipo

----------------------------------------------------------------------------
(* The inductive invariant with replacement.                               *)

\* The CPU works with a frame it was given, never with SinMarco.
MarcoPedido == cpu.fase \in {"acceso", "carga"} => cpu.marco \in Marcos

\* reemplazar_marco runs only while every place of the process has a frame.
LugaresLlenos == cpu.fase = "reloj" => \A i \in Lugares : admin[cpu.pid].marcos[i] # SinMarco

\* The inductive invariant that holds with and without replacement.
Fuerte == Tipos /\ HilosFieles /\ CargadasDeResidentes /\ MarcoPedido /\ LugaresLlenos

\* Every step keeps the types: no access leaves the tables, the frames or swap.
LEMMA TiposSeConservan == Fuerte /\ Paso => Tipos'
<1> SUFFICES ASSUME Fuerte, Paso PROVE Tipos'
  OBVIOUS
<1> USE DEF Fuerte
<1> USE TiposSonTipos
<1>1. ASSUME NEW p \in Procesos, NEW n \in Paginas, AccesoPresente(p, n)
      PROVE  Tipos'
  <2>1. pagina' = [pagina EXCEPT ![p][n] = [pagina[p][n] EXCEPT !.uso = 1]]
    BY <1>1 DEF AccesoPresente
  <2>2. pagina' \in [Procesos -> [Paginas -> EntradaTipo]]
    BY <2>1, DePagina, EntradasTipo, PaginaPorEntrada, Numeros
  <2>3. cpu' \in CpuTipo
    BY <1>1, DePagina, CpuTipos DEF AccesoPresente, Fases
  <2> QED BY <1>1, <2>2, <2>3 DEF AccesoPresente, Tipos
<1>2. ASSUME NEW p \in Procesos, NEW n \in Paginas, AccesoConLugar(p, n)
      PROVE  Tipos'
  <2> DEFINE lugar == primer_marco_libre_del_proceso(p)
             m == primer_marco_libre
  <2>1. CASE m = SinMarco
    <3>1. cpu' = [CpuLibre EXCEPT !.fase = "sin_marcos", !.pid = p, !.pag = n]
      BY <1>2, <2>1 DEF AccesoConLugar
    <3>2. cpu' \in CpuTipo
      BY <3>1, CpuTipos DEF Fases
    <3> QED BY <1>2, <2>1, <3>2 DEF AccesoConLugar, Tipos
  <2>2. CASE m # SinMarco
    <3>1. lugar \in Lugares /\ m \in Marcos /\ Siguiente(lugar) \in Lugares
      BY <1>2, <2>2, LugarLibre, MarcoLibre, SiguienteLugar DEF AccesoConLugar
    <3>2. /\ pagina' = [pagina EXCEPT ![p][n] = Cargada(m)]
          /\ admin' = [admin EXCEPT ![p] = [admin[p] EXCEPT !.marcos[lugar] = m, !.offset = Siguiente(lugar)]]
          /\ estado_de_marcos' = [estado_de_marcos EXCEPT ![m] = 0]
          /\ cpu' = [CpuLibre EXCEPT !.fase = "carga", !.pid = p, !.pag = n, !.marco = m]
      BY <1>2, <2>2 DEF AccesoConLugar
    <3> HIDE DEF lugar, m
    <3>3. pagina' \in [Procesos -> [Paginas -> EntradaTipo]]
      BY <3>1, <3>2, EntradasTipo, PaginaPorEntrada
    <3>4. admin' \in [Procesos -> AdminTipo]
      BY <3>1, <3>2, DeAdmin, AdminTipos DEF Tipos
    <3>5. cpu' \in CpuTipo
      BY <3>1, <3>2, CpuTipos DEF Fases
    <3>6. estado_de_marcos' \in [Marcos -> Bit]
      BY <3>2, Numeros DEF Tipos
    <3> QED BY <1>2, <3>3, <3>4, <3>5, <3>6 DEF AccesoConLugar, Tipos
  <2> QED BY <2>1, <2>2
<1>3. ASSUME NEW p \in Procesos, NEW n \in Paginas, AccesoSinLugar(p, n)
      PROVE  Tipos'
  <2>1. cpu' \in CpuTipo
    BY <1>3, CpuTipos DEF AccesoSinLugar, Fases
  <2> QED BY <1>3, <2>1 DEF AccesoSinLugar, Tipos
<1>4. ASSUME NEW p \in Procesos, RelojSinPagina(p)
      PROVE  Tipos'
  <2>1. cpu' \in CpuTipo
    BY <1>4, DeCpu, CpuTipos DEF RelojSinPagina, Fases
  <2> QED BY <1>4, <2>1 DEF RelojSinPagina, Tipos
<1>5. ASSUME NEW p \in Procesos, RelojAvanza(p)
      PROVE  Tipos'
  <2> DEFINE v == PaginaApuntada(p)
  <2>1. v \in Paginas
    BY <1>5, ApuntadaEsPagina DEF RelojAvanza
  <2>2. pagina' = pagina \/ pagina' = [pagina EXCEPT ![p][v] = [pagina[p][v] EXCEPT !.uso = 0]]
    BY <1>5 DEF RelojAvanza
  <2> HIDE DEF v
  <2>3. pagina' \in [Procesos -> [Paginas -> EntradaTipo]]
    <3>1. pagina \in [Procesos -> [Paginas -> EntradaTipo]]
      BY DEF Tipos
    <3>2. [pagina[p][v] EXCEPT !.uso = 0] \in EntradaTipo
      BY <2>1, DePagina, EntradasTipo, Numeros
    <3>3. [pagina EXCEPT ![p][v] = [pagina[p][v] EXCEPT !.uso = 0]] \in [Procesos -> [Paginas -> EntradaTipo]]
      BY <2>1, <3>2, PaginaPorEntrada
    <3> QED BY <2>2, <3>1, <3>3
  <2>4. admin' = [admin EXCEPT ![p] = [admin[p] EXCEPT !.offset = Siguiente(admin[p].offset)]]
    BY <1>5 DEF RelojAvanza
  <2>5. admin' \in [Procesos -> AdminTipo]
    BY <2>4, DeAdmin, SiguienteLugar, AdminTipos, Numeros DEF Tipos
  <2>6. cpu' = cpu \/ \E b \in Bit, i \in Lugares : cpu' = [cpu EXCEPT !.i = i, !.vuelta = b]
    <3>1. Siguiente(cpu.i) \in Lugares /\ 1 - cpu.vuelta \in Bit /\ cpu.vuelta \in Bit
      BY DeCpu, SiguienteLugar DEF Bit
    <3> QED BY <1>5, <3>1 DEF RelojAvanza
  <2>7. cpu' \in CpuTipo
    <3>1. CASE cpu' = cpu
      BY <3>1, DeCpu
    <3>2. ASSUME NEW b \in Bit, NEW i \in Lugares, cpu' = [cpu EXCEPT !.i = i, !.vuelta = b]
          PROVE  cpu' \in CpuTipo
      BY <3>2, DeCpu, CpuTipos
    <3> QED BY <2>6, <3>1, <3>2
  <2> QED BY <1>5, <2>3, <2>5, <2>7 DEF RelojAvanza, Tipos
<1>6. ASSUME NEW p \in Procesos, RelojReemplaza(p)
      PROVE  Tipos'
  <2> DEFINE v == PaginaApuntada(p)
             m == admin[p].offset
  <2>1. v \in Paginas /\ m \in Marcos /\ m \in Lugares /\ cpu.pag \in Paginas
    BY <1>6, ApuntadaEsPagina, DeAdmin, DeCpu, Numeros DEF RelojReemplaza
  <2>2. /\ pagina' = [[pagina EXCEPT ![p][v] = [pagina[p][v] EXCEPT !.presencia = 0, !.modificado = 0]]
                         EXCEPT ![p][cpu.pag] = Cargada(m)]
        /\ admin' = [admin EXCEPT ![p] = [admin[p] EXCEPT !.offset = Siguiente(m)]]
        /\ cpu' = [cpu EXCEPT !.fase = "carga", !.marco = m, !.vuelta = 0, !.i = 0]
        /\ swap' = swap \/ swap' = [swap EXCEPT ![p][v] = ram[pagina[p][v].marco]]
    <3> HIDE DEF v
    <3>1. /\ pagina' = [pagina EXCEPT ![p][v].presencia = 0, ![p][v].modificado = 0, ![p][cpu.pag] = Cargada(m)]
          /\ admin' = [admin EXCEPT ![p].offset = Siguiente(@)]
          /\ cpu' = [cpu EXCEPT !.fase = "carga", !.marco = m, !.vuelta = 0, !.i = 0]
          /\ swap' = IF pagina[p][v].modificado = 1 THEN [swap EXCEPT ![p][v] = ram[pagina[p][v].marco]] ELSE swap
      BY <1>6 DEF RelojReemplaza, reemplazar_marco, v
    <3>2. pagina \in [Procesos -> [Paginas -> EntradaTipo]]
      BY DEF Tipos
    <3>3. pagina' = [[pagina EXCEPT ![p][v] = [pagina[p][v] EXCEPT !.presencia = 0, !.modificado = 0]]
                        EXCEPT ![p][cpu.pag] = Cargada(m)]
      BY <2>1, <3>1, <3>2 DEF EntradaTipo
    <3> QED BY <3>1, <3>3
  <2>0. UNCHANGED <<algoritmo, proceso, estado_de_marcos, ram, kernel, respuesta, reanudaciones>>
    BY <1>6 DEF RelojReemplaza
  <2> HIDE DEF v, m
  <2>3. pagina' \in [Procesos -> [Paginas -> EntradaTipo]]
    <3>1. [pagina[p][v] EXCEPT !.presencia = 0, !.modificado = 0] \in EntradaTipo
      BY <2>1, DePagina, EntradasTipo, Numeros
    <3>2. [pagina EXCEPT ![p][v] = [pagina[p][v] EXCEPT !.presencia = 0, !.modificado = 0]]
            \in [Procesos -> [Paginas -> EntradaTipo]]
      BY <2>1, <3>1, PaginaPorEntrada
    <3>3. Cargada(m) \in EntradaTipo
      BY <2>1, EntradasTipo
    <3> QED BY <2>1, <2>2, <3>2, <3>3
  <2>4. admin' \in [Procesos -> AdminTipo]
    <3>1. Siguiente(m) \in Lugares
      BY <2>1, SiguienteLugar
    <3>2. [admin[p] EXCEPT !.offset = Siguiente(m)] \in AdminTipo
      BY <3>1, DeAdmin, AdminTipos, Numeros
    <3> QED BY <2>2, <3>2 DEF Tipos
  <2>5. cpu' \in CpuTipo
    BY <2>1, <2>2, CpuTipos, Numeros DEF Fases, Tipos
  <2>6. swap' \in [Procesos -> [Paginas -> Valores]]
    <3>1. pagina[p][v].marco = MarcoApuntado(p)
      BY <1>6, ApuntadaEsPagina DEF RelojReemplaza, v
    <3>2. MarcoApuntado(p) \in Marcos
      BY <1>6, DeAdmin DEF RelojReemplaza, LugaresLlenos, MarcoApuntado
    <3>3. ram[pagina[p][v].marco] \in Valores /\ swap \in [Procesos -> [Paginas -> Valores]]
      BY <3>1, <3>2 DEF Tipos
    <3> QED BY <2>1, <2>2, <3>3
  <2> QED BY <2>0, <2>3, <2>4, <2>5, <2>6 DEF Tipos
<1>7. ASSUME NEW p \in Procesos, CargaPagina(p)
      PROVE  Tipos'
  <2>1. cpu' \in CpuTipo
    BY <1>7, DeCpu, CpuTipos DEF CargaPagina, Fases
  <2>2. ram' \in [Marcos -> Valores]
    BY <1>7, DeCpu DEF CargaPagina, Tipos
  <2> QED BY <1>7, <2>1, <2>2 DEF CargaPagina, Tipos
<1>8. ASSUME NEW p \in Procesos, leer_posicion(p)
      PROVE  Tipos'
  <2>1. cpu' \in CpuTipo
    BY <1>8, DeCpu, CpuTipos DEF leer_posicion, Prepara, Fases
  <2>2. pagina' = [pagina EXCEPT ![p][cpu.pag] = [pagina[p][cpu.pag] EXCEPT !.uso = 1]]
    BY <1>8 DEF leer_posicion
  <2>3. pagina' \in [Procesos -> [Paginas -> EntradaTipo]]
    BY <2>2, DeCpu, DePagina, EntradasTipo, PaginaPorEntrada, Numeros
  <2>4. respuesta' \in Respuestas
    <3>1. ram[cpu.marco] \in Valores
      BY <1>8 DEF leer_posicion, MarcoPedido, Tipos
    <3> QED BY <1>8, <3>1, DeCpu DEF leer_posicion, Prepara, Respuestas
  <2> QED BY <1>8, <2>1, <2>3, <2>4 DEF leer_posicion, Tipos
<1>9. ASSUME NEW p \in Procesos, NEW v \in Valores, escribir_en_posicion(p, v)
      PROVE  Tipos'
  <2>1. cpu' \in CpuTipo
    BY <1>9, DeCpu, CpuTipos DEF escribir_en_posicion, Prepara, Fases
  <2>2. pagina' = [pagina EXCEPT ![p][cpu.pag] = [pagina[p][cpu.pag] EXCEPT !.uso = 1, !.modificado = 1]]
    BY <1>9 DEF escribir_en_posicion
  <2>3. pagina' \in [Procesos -> [Paginas -> EntradaTipo]]
    BY <2>2, DeCpu, DePagina, EntradasTipo, PaginaPorEntrada, Numeros
  <2>4. respuesta' \in Respuestas
    BY <1>9, DeCpu DEF escribir_en_posicion, Prepara, Respuestas
  <2>5. ram' \in [Marcos -> Valores]
    BY <1>9 DEF escribir_en_posicion, Tipos
  <2> QED BY <1>9, <2>1, <2>3, <2>4, <2>5 DEF escribir_en_posicion, Tipos
<1>10. ASSUME NEW p \in Procesos, Responde(p)
      PROVE  Tipos'
  BY <1>10, CpuTipos DEF Responde, Tipos
<1>11. ASSUME NEW p \in Procesos, crear_proceso(p)
      PROVE  Tipos'
  BY <1>11, EntradasTipo, AdminTipos, ValoresAssumption DEF crear_proceso, Tipos, SwapNuevo
<1>12. ASSUME NEW p \in Procesos, suspender_proceso(p)
      PROVE  Tipos'
  BY <1>12, Numeros DEF suspender_proceso, Tipos, KernelTipo
<1>13. ASSUME NEW p \in Procesos, SuspendePagina(p)
      PROVE  Tipos'
  <2> DEFINE n == kernel.pag
  <2>1. n \in Paginas
    BY <1>13, PaginasAssumption DEF SuspendePagina, Tipos, KernelTipo, Paginas
  <2>2. /\ pagina' = [pagina EXCEPT ![p][n] = [pagina[p][n] EXCEPT !.uso = 0, !.modificado = 0, !.presencia = 0]]
        /\ \/ swap' = swap
           \/ HayQueVolcar(pagina[p][n]) /\ swap' = [swap EXCEPT ![p][n] = ram[pagina[p][n].marco]]
        /\ kernel' = [kernel EXCEPT !.pag = n + 1]
        /\ UNCHANGED <<algoritmo, proceso, admin, estado_de_marcos, ram, cpu, respuesta, reanudaciones>>
    <3>1. /\ pagina' = [pagina EXCEPT ![p][n].uso = 0, ![p][n].modificado = 0, ![p][n].presencia = 0]
          /\ swap' = IF HayQueVolcar(pagina[p][n]) THEN [swap EXCEPT ![p][n] = ram[pagina[p][n].marco]] ELSE swap
          /\ kernel' = [kernel EXCEPT !.pag = n + 1]
          /\ UNCHANGED <<algoritmo, proceso, admin, estado_de_marcos, ram, cpu, respuesta, reanudaciones>>
      BY <1>13 DEF SuspendePagina
    <3> HIDE DEF n
    <3>2. pagina \in [Procesos -> [Paginas -> EntradaTipo]]
      BY DEF Tipos
    <3>3. pagina' = [pagina EXCEPT ![p][n] = [pagina[p][n] EXCEPT !.uso = 0, !.modificado = 0, !.presencia = 0]]
      BY <2>1, <3>1, <3>2 DEF EntradaTipo
    <3>4. CASE HayQueVolcar(pagina[p][n])
      BY <3>1, <3>3, <3>4
    <3>5. CASE ~HayQueVolcar(pagina[p][n])
      <4>1. swap' = swap
        BY <3>1, <3>5
      <4> QED BY <3>1, <3>3, <4>1
    <3> QED BY <3>4, <3>5
  <2> HIDE DEF n
  <2>3. pagina' \in [Procesos -> [Paginas -> EntradaTipo]]
    BY <2>1, <2>2, DePagina, EntradasTipo, PaginaPorEntrada, Numeros
  <2>4. kernel' \in KernelTipo
    <3>1. n + 1 \in 0 .. CantPaginas
      BY <2>1, PaginasAssumption DEF Paginas
    <3> QED BY <2>2, <3>1 DEF Tipos, KernelTipo
  <2>5. swap' \in [Procesos -> [Paginas -> Valores]]
    <3>1. CASE swap' = swap
      BY <3>1 DEF Tipos
    <3>2. CASE HayQueVolcar(pagina[p][n]) /\ swap' = [swap EXCEPT ![p][n] = ram[pagina[p][n].marco]]
      <4>1. pagina[p][n].marco \in Marcos
        BY <2>1, <3>2, DePagina DEF HayQueVolcar, CargadasDeResidentes, Presente
      <4>2. ram[pagina[p][n].marco] \in Valores /\ swap \in [Procesos -> [Paginas -> Valores]]
        BY <4>1 DEF Tipos
      <4> QED BY <2>1, <3>2, <4>2
    <3> QED BY <2>2, <3>1, <3>2
  <2> QED BY <2>2, <2>3, <2>4, <2>5 DEF Tipos
<1>14. ASSUME NEW p \in Procesos, SuspendeTermina(p)
      PROVE  Tipos'
  BY <1>14, AdminTipos, Numeros DEF SuspendeTermina, liberar_marcos, Tipos, KernelTipo, KernelLibre
<1>15. ASSUME NEW p \in Procesos, reanudar_proceso(p)
      PROVE  Tipos'
  <2>1. reanudaciones' \in 0 .. MaxReanudaciones
    BY <1>15, ReanudacionesAssumption DEF reanudar_proceso, Tipos
  <2>2. admin' \in [Procesos -> AdminTipo]
    BY <1>15, AdminTipos DEF reanudar_proceso, Tipos
  <2> QED BY <1>15, <2>1, <2>2 DEF reanudar_proceso, Tipos
<1>16. ASSUME NEW p \in Procesos, eliminar_proceso(p)
      PROVE  Tipos'
  BY <1>16, EntradasTipo, AdminTipos, ValoresAssumption DEF eliminar_proceso, liberar_marcos, Tipos, SwapNuevo
<1>17. ASSUME NEW p \in Procesos, NEW n \in Paginas, NEW m \in Marcos, AccesoPorTlb(p, n, m)
      PROVE  Tipos'
  <2>1. cpu' \in CpuTipo
    BY <1>17, CpuTipos DEF AccesoPorTlb, Fases
  <2> QED BY <1>17, <2>1 DEF AccesoPorTlb, Tipos
<1> QED
  BY <1>1, <1>2, <1>3, <1>4, <1>5, <1>6, <1>7, <1>8, <1>9, <1>10, <1>11, <1>12, <1>13, <1>14, <1>15,
      <1>16, <1>17 DEF Paso, AtiendeCpu, AtiendeKernel

----------------------------------------------------------------------------
(* What the steps leave in the tables and the places.                      *)

\* A step that loads and throws out nothing.
MismasPaginas ==
  \A q \in Procesos : \A k \in Paginas :
    pagina'[q][k].presencia = pagina[q][k].presencia /\ pagina'[q][k].marco = pagina[q][k].marco

\* A step that gives and releases no frame.
MismosMarcos == \A q \in Procesos : \A i \in Lugares : admin'[q].marcos[i] = admin[q].marcos[i]

\* A step that destroys the administration of p.
AdminVaciado(p) ==
  \A q \in Procesos : \A i \in Lugares :
    admin'[q].marcos[i] = IF q = p THEN SinMarco ELSE admin[q].marcos[i]

\* What writing one entry leaves in the tables.
LEMMA CambiaEntrada ==
  ASSUME Tipos, NEW p \in Procesos, NEW n \in Paginas, NEW e, pagina' = [pagina EXCEPT ![p][n] = e]
  PROVE  \A q \in Procesos : \A k \in Paginas :
           pagina'[q][k] = IF q = p /\ k = n THEN e ELSE pagina[q][k]
BY DEF Tipos

\* The steps that load and throw out nothing.
LEMMA PaginasQuietas ==
  ASSUME Fuerte, NEW p \in Procesos,
         \/ \E n \in Paginas : AccesoPresente(p, n) \/ AccesoSinLugar(p, n)
         \/ \E n \in Paginas, m \in Marcos : AccesoPorTlb(p, n, m)
         \/ RelojSinPagina(p) \/ RelojAvanza(p) \/ CargaPagina(p) \/ leer_posicion(p)
         \/ (\E v \in Valores : escribir_en_posicion(p, v)) \/ Responde(p)
         \/ suspender_proceso(p) \/ SuspendeTermina(p) \/ reanudar_proceso(p)
  PROVE  MismasPaginas
<1> USE DEF Fuerte
<1>1. CASE pagina' = pagina
  BY <1>1 DEF MismasPaginas
<1>2. ASSUME NEW n \in Paginas, NEW e \in EntradaTipo, pagina' = [pagina EXCEPT ![p][n] = e],
             e.presencia = pagina[p][n].presencia, e.marco = pagina[p][n].marco
      PROVE  MismasPaginas
  BY <1>2, CambiaEntrada DEF MismasPaginas
<1>3. \A n \in Paginas, b \in Bit :
        LET d == pagina[p][n] IN
          /\ [d EXCEPT !.uso = b] \in EntradaTipo /\ [d EXCEPT !.uso = b, !.modificado = b] \in EntradaTipo
          /\ [d EXCEPT !.uso = b].presencia = d.presencia /\ [d EXCEPT !.uso = b].marco = d.marco
          /\ [d EXCEPT !.uso = b, !.modificado = b].presencia = d.presencia
          /\ [d EXCEPT !.uso = b, !.modificado = b].marco = d.marco
  BY DePagina DEF EntradaTipo
<1>4. \A n \in Paginas : pagina' = [pagina EXCEPT ![p][n] = [pagina[p][n] EXCEPT !.uso = 1]] => MismasPaginas
  BY <1>2, <1>3, Numeros
<1>5. ASSUME NEW n \in Paginas, AccesoPresente(p, n) PROVE MismasPaginas
  BY <1>4, <1>5 DEF AccesoPresente
<1>6. CASE RelojAvanza(p)
  <2>1. PaginaApuntada(p) \in Paginas
    BY <1>6, ApuntadaEsPagina DEF RelojAvanza
  <2>2. \/ pagina' = pagina
        \/ pagina' = [pagina EXCEPT ![p][PaginaApuntada(p)] = [pagina[p][PaginaApuntada(p)] EXCEPT !.uso = 0]]
    BY <1>6 DEF RelojAvanza
  <2> QED BY <1>1, <1>2, <1>3, <2>1, <2>2, Numeros
<1>7. CASE leer_posicion(p)
  <2>1. pagina' = [pagina EXCEPT ![p][cpu.pag] = [pagina[p][cpu.pag] EXCEPT !.uso = 1]]
    BY <1>7 DEF leer_posicion
  <2> QED BY <1>4, <2>1, DeCpu
<1>8. ASSUME NEW v \in Valores, escribir_en_posicion(p, v) PROVE MismasPaginas
  <2>1. pagina' = [pagina EXCEPT ![p][cpu.pag] = [pagina[p][cpu.pag] EXCEPT !.uso = 1, !.modificado = 1]]
    BY <1>8 DEF escribir_en_posicion
  <2> QED BY <1>2, <1>3, <2>1, DeCpu, Numeros
<1> QED BY <1>1, <1>5, <1>6, <1>7, <1>8 DEF AccesoSinLugar, AccesoPorTlb, RelojSinPagina, CargaPagina,
             Responde, suspender_proceso, SuspendeTermina, reanudar_proceso

\* The steps that give and release no frame.
LEMMA MarcosQuietos ==
  ASSUME Fuerte, NEW p \in Procesos,
         \/ \E n \in Paginas : AccesoPresente(p, n) \/ AccesoSinLugar(p, n)
         \/ \E n \in Paginas, m \in Marcos : AccesoPorTlb(p, n, m)
         \/ RelojSinPagina(p) \/ RelojAvanza(p) \/ RelojReemplaza(p) \/ CargaPagina(p)
         \/ leer_posicion(p) \/ (\E v \in Valores : escribir_en_posicion(p, v)) \/ Responde(p)
         \/ suspender_proceso(p) \/ SuspendePagina(p)
  PROVE  MismosMarcos
<1>1. CASE admin' = admin
  BY <1>1 DEF MismosMarcos
<1>2. CASE \E o \in Lugares : admin' = [admin EXCEPT ![p].offset = o]
  BY <1>2 DEF MismosMarcos, Fuerte, Tipos, AdminTipo
<1>3. CASE RelojAvanza(p) \/ RelojReemplaza(p)
  <2>1. admin' = [admin EXCEPT ![p].offset = Siguiente(admin[p].offset)]
    BY <1>3 DEF RelojAvanza, RelojReemplaza
  <2>2. Siguiente(admin[p].offset) \in Lugares
    BY DeAdmin, SiguienteLugar DEF Fuerte
  <2> QED BY <1>2, <2>1, <2>2
<1> QED BY <1>1, <1>3 DEF AccesoPresente, AccesoSinLugar, AccesoPorTlb, RelojSinPagina, CargaPagina,
             leer_posicion, escribir_en_posicion, Responde, suspender_proceso, SuspendePagina

\* The handlers of the kernel that leave a process without frames.
LEMMA MarcosVaciados ==
  ASSUME Fuerte, NEW p \in Procesos,
         crear_proceso(p) \/ SuspendeTermina(p) \/ reanudar_proceso(p) \/ eliminar_proceso(p)
  PROVE  AdminVaciado(p)
<1>1. admin' = [admin EXCEPT ![p] = AdminNuevo]
  BY DEF crear_proceso, SuspendeTermina, reanudar_proceso, eliminar_proceso, liberar_marcos
<1>2. \A i \in Lugares : AdminNuevo.marcos[i] = SinMarco
  BY DEF AdminNuevo
<1> HIDE DEF AdminNuevo
<1> QED BY <1>1, <1>2 DEF AdminVaciado, Fuerte, Tipos

\* A page gets the frame m, the place i of its process.
Carga(p, n, m, i) ==
  /\ m \in Marcos /\ i \in Lugares /\ estado_de_marcos[m] = 1 /\ admin[p].marcos[i] = SinMarco
  /\ EnMemoria(p) /\ ~Presente(p, n)
  /\ \A q \in Procesos : \A k \in Paginas :
       pagina'[q][k] = IF q = p /\ k = n THEN Cargada(m) ELSE pagina[q][k]
  /\ \A q \in Procesos : \A j \in Lugares :
       admin'[q].marcos[j] = IF q = p /\ j = i THEN m ELSE admin[q].marcos[j]
  /\ \A k \in Marcos : estado_de_marcos'[k] = IF k = m THEN 0 ELSE estado_de_marcos[k]
  /\ cpu'.fase = "carga" /\ cpu'.pid = p /\ cpu'.pag = n /\ cpu'.marco = m

\* respuesta_a_pregunta_de_2do_acceso with a place left: a frame is loaded, or
\* there is none.
LEMMA AccesoCarga ==
  ASSUME Fuerte, NEW p \in Procesos, NEW n \in Paginas, AccesoConLugar(p, n)
  PROVE  \/ /\ UNCHANGED <<pagina, admin, estado_de_marcos>>
            /\ cpu' = [CpuLibre EXCEPT !.fase = "sin_marcos", !.pid = p, !.pag = n]
         \/ \E m, i : Carga(p, n, m, i)
<1> USE DEF Fuerte
<1> DEFINE i == primer_marco_libre_del_proceso(p)
           m == primer_marco_libre
<1>1. CASE m = SinMarco
  BY <1>1 DEF AccesoConLugar
<1>2. CASE m # SinMarco
  <2>1. /\ i \in Lugares /\ admin[p].marcos[i] = SinMarco /\ m \in Marcos /\ estado_de_marcos[m] = 1
        /\ Siguiente(i) \in Lugares
    BY <1>2, LugarLibre, MarcoLibre, SiguienteLugar, TiposSonTipos DEF AccesoConLugar
  <2>2. /\ EnMemoria(p) /\ ~Presente(p, n)
        /\ pagina' = [pagina EXCEPT ![p][n] = Cargada(m)]
        /\ admin' = [admin EXCEPT ![p].marcos[i] = m, ![p].offset = Siguiente(i)]
        /\ estado_de_marcos' = [estado_de_marcos EXCEPT ![m] = 0]
        /\ cpu' = [CpuLibre EXCEPT !.fase = "carga", !.pid = p, !.pag = n, !.marco = m]
    BY <1>2 DEF AccesoConLugar, Presente
  <2> HIDE DEF i, m
  <2>3. \A q \in Procesos : \A k \in Paginas :
          pagina'[q][k] = IF q = p /\ k = n THEN Cargada(m) ELSE pagina[q][k]
    BY <2>2 DEF Tipos
  <2>4. \A q \in Procesos : \A j \in Lugares :
          admin'[q].marcos[j] = IF q = p /\ j = i THEN m ELSE admin[q].marcos[j]
    BY <2>1, <2>2 DEF Tipos, AdminTipo
  <2>5. \A k \in Marcos : estado_de_marcos'[k] = IF k = m THEN 0 ELSE estado_de_marcos[k]
    BY <2>2 DEF Tipos
  <2>6. cpu'.fase = "carga" /\ cpu'.pid = p /\ cpu'.pag = n /\ cpu'.marco = m
    BY <2>2 DEF CpuLibre
  <2>7. Carga(p, n, m, i)
    BY <2>1, <2>2, <2>3, <2>4, <2>5, <2>6 DEF Carga
  <2> QED BY <2>7
<1> QED BY <1>1, <1>2

\* The tables after a replacement: the page asked for is loaded, and the one that
\* is thrown out, when it is another, has lost its presence.
LEMMA PaginaReemplazada ==
  ASSUME Fuerte, NEW p \in Procesos, RelojReemplaza(p)
  PROVE  /\ PaginaApuntada(p) \in Paginas /\ cpu.pag \in Paginas
         /\ pagina'[p][cpu.pag] = Cargada(admin[p].offset)
         /\ PaginaApuntada(p) # cpu.pag =>
              pagina'[p][PaginaApuntada(p)]
                = [pagina[p][PaginaApuntada(p)] EXCEPT !.presencia = 0, !.modificado = 0]
         /\ \A q \in Procesos : \A k \in Paginas :
              q # p \/ k \notin {cpu.pag, PaginaApuntada(p)} => pagina'[q][k] = pagina[q][k]
<1> USE DEF Fuerte
<1>1. PaginaApuntada(p) \in Paginas /\ cpu.pag \in Paginas
  BY ApuntadaEsPagina, DeCpu DEF RelojReemplaza
<1>2. pagina' = [pagina EXCEPT ![p][PaginaApuntada(p)].presencia = 0, ![p][PaginaApuntada(p)].modificado = 0,
                               ![p][cpu.pag] = Cargada(admin[p].offset)]
  BY DEF RelojReemplaza, reemplazar_marco
<1>3. PICK v : v = PaginaApuntada(p)
  OBVIOUS
<1> QED BY <1>1, <1>2, <1>3 DEF Tipos, EntradaTipo

\* The tables after one page of a suspension.
LEMMA PaginaSuspendida ==
  ASSUME Fuerte, NEW p \in Procesos, SuspendePagina(p)
  PROVE  /\ kernel.pag \in Paginas
         /\ pagina'[p][kernel.pag]
              = [pagina[p][kernel.pag] EXCEPT !.uso = 0, !.modificado = 0, !.presencia = 0]
         /\ \A q \in Procesos : \A k \in Paginas :
              q # p \/ k # kernel.pag => pagina'[q][k] = pagina[q][k]
<1> USE DEF Fuerte
<1>1. kernel.pag \in Paginas
  BY PaginasAssumption DEF SuspendePagina, Tipos, KernelTipo, Paginas
<1>2. pagina' = [pagina EXCEPT ![p][kernel.pag].uso = 0, ![p][kernel.pag].modificado = 0,
                               ![p][kernel.pag].presencia = 0]
  BY DEF SuspendePagina
<1> QED BY <1>1, <1>2 DEF Tipos, EntradaTipo

\* The tables after a process is created or ends.
LEMMA PaginasNuevas ==
  ASSUME Fuerte, NEW p \in Procesos, crear_proceso(p) \/ eliminar_proceso(p)
  PROVE  \A q \in Procesos : \A k \in Paginas :
           pagina'[q][k] = IF q = p THEN PaginaNueva ELSE pagina[q][k]
BY DEF crear_proceso, eliminar_proceso, Fuerte, Tipos

----------------------------------------------------------------------------
(* Step by step.                                                           *)

\* The two threads stay apart: the kernel does not suspend or end the process the
\* CPU works for.
LEMMA HilosSeConservan == Fuerte /\ Paso => HilosFieles'
<1> SUFFICES ASSUME Fuerte, Paso PROVE HilosFieles'
  OBVIOUS
<1> USE NadieAssumption DEF Fuerte, HilosFieles
<1>1. ASSUME NEW p \in Procesos, NEW n \in Paginas, AccesoPresente(p, n)
      PROVE  HilosFieles'
  <2>1. cpu'.fase # "libre" /\ cpu'.fase # "responde" /\ cpu'.pid = p
    BY <1>1 DEF AccesoPresente, CpuLibre
  <2> QED BY <1>1, <2>1 DEF AccesoPresente, EnMemoria
<1>2. ASSUME NEW p \in Procesos, NEW n \in Paginas, AccesoConLugar(p, n)
      PROVE  HilosFieles'
  <2>1. CASE cpu' = [CpuLibre EXCEPT !.fase = "sin_marcos", !.pid = p, !.pag = n]
    <3>1. cpu'.fase = "sin_marcos" /\ cpu'.pid = p
      BY <2>1 DEF CpuLibre
    <3> QED BY <1>2, <3>1 DEF AccesoConLugar, EnMemoria
  <2>2. CASE \E m, i : Carga(p, n, m, i)
    <3>1. cpu'.fase = "carga" /\ cpu'.pid = p
      BY <2>2 DEF Carga
    <3> QED BY <1>2, <3>1 DEF AccesoConLugar, EnMemoria
  <2> QED BY <1>2, <2>1, <2>2, AccesoCarga
<1>3. ASSUME NEW p \in Procesos, NEW n \in Paginas, AccesoSinLugar(p, n)
      PROVE  HilosFieles'
  <2>1. cpu'.fase # "libre" /\ cpu'.fase # "responde" /\ cpu'.pid = p
    BY <1>3 DEF AccesoSinLugar, CpuLibre
  <2> QED BY <1>3, <2>1 DEF AccesoSinLugar, EnMemoria
<1>4. ASSUME NEW p \in Procesos, RelojSinPagina(p)
      PROVE  HilosFieles'
  <2>1. cpu'.fase = "sin_pagina" /\ cpu'.pid = cpu.pid
    BY <1>4, DeCpu DEF RelojSinPagina, CpuTipo
  <2>2. cpu.fase # "libre" /\ cpu.fase # "responde"
    BY <1>4 DEF RelojSinPagina
  <2> QED BY <1>4, <2>1, <2>2 DEF RelojSinPagina, EnMemoria
<1>5. ASSUME NEW p \in Procesos, RelojAvanza(p)
      PROVE  HilosFieles'
  <2>1. cpu'.fase = cpu.fase /\ cpu'.pid = cpu.pid
    BY <1>5, DeCpu DEF RelojAvanza, CpuTipo
  <2> QED BY <1>5, <2>1 DEF RelojAvanza, EnMemoria
<1>6. ASSUME NEW p \in Procesos, RelojReemplaza(p)
      PROVE  HilosFieles'
  <2>1. cpu'.fase = "carga" /\ cpu'.pid = cpu.pid
    BY <1>6, DeCpu DEF RelojReemplaza, CpuTipo
  <2>2. cpu.fase # "libre" /\ cpu.fase # "responde"
    BY <1>6 DEF RelojReemplaza
  <2> QED BY <1>6, <2>1, <2>2 DEF RelojReemplaza, EnMemoria
<1>7. ASSUME NEW p \in Procesos, CargaPagina(p)
      PROVE  HilosFieles'
  <2>1. cpu'.fase = "acceso" /\ cpu'.pid = cpu.pid
    BY <1>7, DeCpu DEF CargaPagina, CpuTipo
  <2>2. cpu.fase # "libre" /\ cpu.fase # "responde"
    BY <1>7 DEF CargaPagina
  <2> QED BY <1>7, <2>1, <2>2 DEF CargaPagina, EnMemoria
<1>8. ASSUME NEW p \in Procesos, leer_posicion(p)
      PROVE  HilosFieles'
  <2>1. cpu'.fase = "responde" /\ cpu'.pid = cpu.pid /\ cpu.fase = "acceso"
    BY <1>8, DeCpu DEF leer_posicion, Prepara, CpuTipo
  <2>2. respuesta' # SinRespuesta
    BY <1>8 DEF leer_posicion, Prepara, SinRespuesta
  <2> QED BY <1>8, <2>1, <2>2 DEF leer_posicion, EnMemoria
<1>9. ASSUME NEW p \in Procesos, NEW v \in Valores, escribir_en_posicion(p, v)
      PROVE  HilosFieles'
  <2>1. cpu'.fase = "responde" /\ cpu'.pid = cpu.pid /\ cpu.fase = "acceso"
    BY <1>9, DeCpu DEF escribir_en_posicion, Prepara, CpuTipo
  <2>2. respuesta' # SinRespuesta
    BY <1>9 DEF escribir_en_posicion, Prepara, SinRespuesta
  <2> QED BY <1>9, <2>1, <2>2 DEF escribir_en_posicion, EnMemoria
<1>10. ASSUME NEW p \in Procesos, Responde(p)
      PROVE  HilosFieles'
  <2>1. cpu'.fase = "libre" /\ cpu'.pid = Nadie
    BY <1>10 DEF Responde, CpuLibre
  <2> QED BY <1>10, <2>1 DEF Responde, EnMemoria
<1>11. ASSUME NEW p \in Procesos, crear_proceso(p)
      PROVE  HilosFieles'
  <2>1. cpu.fase # "libre" => proceso'[cpu.pid] = "residente"
    BY <1>11, DeCpu DEF crear_proceso, Pide, EnMemoria, Tipos
  <2>2. kernel.fase = "libre"
    BY <1>11 DEF crear_proceso, Pide
  <2> QED BY <1>11, <2>1, <2>2 DEF crear_proceso, Pide, EnMemoria
<1>12. ASSUME NEW p \in Procesos, suspender_proceso(p)
      PROVE  HilosFieles'
  <2>1. kernel'.fase = "suspende" /\ kernel'.pid = p
    BY <1>12 DEF suspender_proceso
  <2> QED BY <1>12, <2>1 DEF suspender_proceso, Pide, EnMemoria
<1>13. ASSUME NEW p \in Procesos, SuspendePagina(p)
      PROVE  HilosFieles'
  <2>1. kernel'.fase = kernel.fase /\ kernel'.pid = kernel.pid
    BY <1>13 DEF SuspendePagina, Tipos, KernelTipo
  <2> QED BY <1>13, <2>1 DEF SuspendePagina, EnMemoria
<1>14. ASSUME NEW p \in Procesos, SuspendeTermina(p)
      PROVE  HilosFieles'
  <2>1. kernel'.fase = "libre" /\ kernel'.pid = Nadie
    BY <1>14 DEF SuspendeTermina, KernelLibre
  <2>2. cpu.fase # "libre" => cpu.pid # p /\ proceso'[cpu.pid] = "residente" /\ cpu.pid # Nadie
    BY <1>14, DeCpu DEF SuspendeTermina, EnMemoria, Tipos
  <2> QED BY <1>14, <2>1, <2>2 DEF SuspendeTermina, EnMemoria
<1>15. ASSUME NEW p \in Procesos, reanudar_proceso(p)
      PROVE  HilosFieles'
  <2>1. cpu.fase # "libre" => proceso'[cpu.pid] = "residente"
    BY <1>15, DeCpu DEF reanudar_proceso, Pide, EnMemoria, Tipos
  <2>2. kernel.fase = "libre"
    BY <1>15 DEF reanudar_proceso, Pide
  <2> QED BY <1>15, <2>1, <2>2 DEF reanudar_proceso, Pide, EnMemoria
<1>16. ASSUME NEW p \in Procesos, eliminar_proceso(p)
      PROVE  HilosFieles'
  <2>1. cpu.fase # "libre" => proceso'[cpu.pid] = "residente"
    BY <1>16, DeCpu DEF eliminar_proceso, Pide, EnMemoria, Tipos
  <2>2. kernel.fase = "libre"
    BY <1>16 DEF eliminar_proceso, Pide
  <2> QED BY <1>16, <2>1, <2>2 DEF eliminar_proceso, Pide, EnMemoria
<1>17. ASSUME NEW p \in Procesos, NEW n \in Paginas, NEW m \in Marcos, AccesoPorTlb(p, n, m)
      PROVE  HilosFieles'
  <2>1. cpu'.fase # "libre" /\ cpu'.fase # "responde" /\ cpu'.pid = p
    BY <1>17 DEF AccesoPorTlb, CpuLibre
  <2> QED BY <1>17, <2>1 DEF AccesoPorTlb, EnMemoria
<1> QED
  BY <1>1, <1>2, <1>3, <1>4, <1>5, <1>6, <1>7, <1>8, <1>9, <1>10, <1>11, <1>12, <1>13, <1>14, <1>15,
      <1>16, <1>17 DEF Paso, AtiendeCpu, AtiendeKernel

\* Suspended, ended and not yet created processes have nothing loaded.
LEMMA CargadasSeConservan == Fuerte /\ Paso => CargadasDeResidentes'
<1> SUFFICES ASSUME Fuerte, Paso PROVE CargadasDeResidentes'
  OBVIOUS
<1> USE DEF Fuerte, CargadasDeResidentes, Presente
<1>1. ASSUME NEW p \in Procesos, NEW n \in Paginas, AccesoPresente(p, n)
      PROVE  CargadasDeResidentes'
  <2>1. MismasPaginas
    BY <1>1, PaginasQuietas
  <2> QED BY <1>1, <2>1 DEF AccesoPresente, MismasPaginas
<1>2. ASSUME NEW p \in Procesos, NEW n \in Paginas, AccesoConLugar(p, n)
      PROVE  CargadasDeResidentes'
  <2>1. CASE UNCHANGED pagina
    BY <1>2, <2>1 DEF AccesoConLugar
  <2>2. ASSUME NEW m, NEW i, Carga(p, n, m, i) PROVE CargadasDeResidentes'
    <3>1. Cargada(m).marco = m /\ m # SinMarco
      BY <2>2, Numeros DEF Cargada, Carga
    <3> QED BY <1>2, <2>2, <3>1 DEF AccesoConLugar, Carga, EnMemoria
  <2> QED BY <1>2, <2>1, <2>2, AccesoCarga
<1>3. ASSUME NEW p \in Procesos, NEW n \in Paginas, AccesoSinLugar(p, n)
      PROVE  CargadasDeResidentes'
  <2>1. MismasPaginas
    BY <1>3, PaginasQuietas
  <2> QED BY <1>3, <2>1 DEF AccesoSinLugar, MismasPaginas
<1>4. ASSUME NEW p \in Procesos, RelojSinPagina(p)
      PROVE  CargadasDeResidentes'
  <2>1. MismasPaginas
    BY <1>4, PaginasQuietas
  <2> QED BY <1>4, <2>1 DEF RelojSinPagina, MismasPaginas
<1>5. ASSUME NEW p \in Procesos, RelojAvanza(p)
      PROVE  CargadasDeResidentes'
  <2>1. MismasPaginas
    BY <1>5, PaginasQuietas
  <2> QED BY <1>5, <2>1 DEF RelojAvanza, MismasPaginas
<1>6. ASSUME NEW p \in Procesos, RelojReemplaza(p)
      PROVE  CargadasDeResidentes'
  <2>1. Cargada(admin[p].offset).marco = admin[p].offset /\ admin[p].offset # SinMarco
    BY DeAdmin, Numeros DEF Cargada
  <2>2. EnMemoria(p)
    BY <1>6 DEF RelojReemplaza, HilosFieles
  <2>3. \A q \in Procesos : \A k \in Paginas :
          /\ pagina'[q][k].presencia = 1 => \/ pagina[q][k].presencia = 1 \/ q = p
          /\ pagina'[q][k].presencia = 1 /\ pagina'[q][k].marco = pagina[q][k].marco
               => pagina[q][k].presencia = 1 \/ pagina'[q][k].marco # SinMarco
          /\ pagina'[q][k].presencia = 1 => pagina'[q][k].marco # SinMarco
    <3>1. ASSUME NEW q \in Procesos, NEW k \in Paginas, ~(q = p /\ k = cpu.pag)
          PROVE  pagina'[q][k].presencia = 1 => pagina'[q][k] = pagina[q][k]
      <4>1. [pagina[q][k] EXCEPT !.presencia = 0, !.modificado = 0].presencia = 0
        BY DePagina DEF EntradaTipo
      <4>2. CASE q = p /\ k = PaginaApuntada(p)
        <5>1. pagina'[q][k] = [pagina[q][k] EXCEPT !.presencia = 0, !.modificado = 0]
          BY <1>6, <3>1, <4>2, PaginaReemplazada
        <5> QED BY <4>1, <5>1
      <4>3. CASE ~(q = p /\ k = PaginaApuntada(p))
        <5>1. q # p \/ k \notin {cpu.pag, PaginaApuntada(p)}
          BY <3>1, <4>3
        <5> QED BY <1>6, <5>1, PaginaReemplazada
      <4> QED BY <4>2, <4>3
    <3>2. pagina'[p][cpu.pag] = Cargada(admin[p].offset)
      BY <1>6, PaginaReemplazada, DeCpu
    <3> QED BY <2>1, <3>1, <3>2
  <2> QED BY <1>6, <2>2, <2>3 DEF RelojReemplaza, EnMemoria
<1>7. ASSUME NEW p \in Procesos, CargaPagina(p)
      PROVE  CargadasDeResidentes'
  <2>1. MismasPaginas
    BY <1>7, PaginasQuietas
  <2> QED BY <1>7, <2>1 DEF CargaPagina, MismasPaginas
<1>8. ASSUME NEW p \in Procesos, leer_posicion(p)
      PROVE  CargadasDeResidentes'
  <2>1. MismasPaginas
    BY <1>8, PaginasQuietas
  <2> QED BY <1>8, <2>1 DEF leer_posicion, MismasPaginas
<1>9. ASSUME NEW p \in Procesos, NEW v \in Valores, escribir_en_posicion(p, v)
      PROVE  CargadasDeResidentes'
  <2>1. MismasPaginas
    BY <1>9, PaginasQuietas
  <2>2. proceso' = proceso /\ kernel' = kernel
    BY <1>9 DEF escribir_en_posicion
  <2> QED BY <2>1, <2>2 DEF MismasPaginas
<1>10. ASSUME NEW p \in Procesos, Responde(p)
      PROVE  CargadasDeResidentes'
  <2>1. MismasPaginas
    BY <1>10, PaginasQuietas
  <2> QED BY <1>10, <2>1 DEF Responde, MismasPaginas
<1>11. ASSUME NEW p \in Procesos, crear_proceso(p)
      PROVE  CargadasDeResidentes'
  <2>1. PaginaNueva.presencia = 0
    BY DEF PaginaNueva
  <2> QED BY <1>11, <2>1, PaginasNuevas DEF crear_proceso, Tipos
<1>12. ASSUME NEW p \in Procesos, suspender_proceso(p)
      PROVE  CargadasDeResidentes'
  <2>1. kernel'.pid = p /\ kernel'.pag = 0
    BY <1>12 DEF suspender_proceso
  <2> QED BY <1>12, <2>1, Numeros DEF suspender_proceso, Paginas
<1>13. ASSUME NEW p \in Procesos, SuspendePagina(p)
      PROVE  CargadasDeResidentes'
  <2> DEFINE n == kernel.pag
  <2>1. [pagina[p][n] EXCEPT !.uso = 0, !.modificado = 0, !.presencia = 0].presencia = 0 /\ n \in Paginas
    <3>1. n \in Paginas
      BY <1>13, PaginaSuspendida
    <3>2. pagina[p][n] \in EntradaTipo
      BY <3>1, DePagina
    <3> QED BY <3>1, <3>2 DEF EntradaTipo
  <2>2. \A q \in Procesos : \A k \in Paginas :
          pagina'[q][k].presencia = 1 => pagina'[q][k] = pagina[q][k] /\ (q = p => k # n)
    <3> SUFFICES ASSUME NEW q \in Procesos, NEW k \in Paginas, pagina'[q][k].presencia = 1
                 PROVE  pagina'[q][k] = pagina[q][k] /\ (q = p => k # n)
      OBVIOUS
    <3>1. pagina'[p][n] = [pagina[p][n] EXCEPT !.uso = 0, !.modificado = 0, !.presencia = 0]
      BY <1>13, PaginaSuspendida
    <3>2. ~(q = p /\ k = n)
      <4>1. pagina'[p][n].presencia = 0
        BY <2>1, <3>1
      <4> QED BY <4>1
    <3> QED BY <1>13, <3>2, PaginaSuspendida
  <2>3. kernel'.pid = kernel.pid /\ kernel'.pag = n + 1 /\ kernel.pid = p /\ proceso' = proceso
    BY <1>13 DEF SuspendePagina, Tipos, KernelTipo
  <2>4. \A k \in Paginas : n <= k /\ k # n => n + 1 <= k
    BY <2>1 DEF Paginas
  <2> QED BY <2>2, <2>3, <2>4
<1>14. ASSUME NEW p \in Procesos, SuspendeTermina(p)
      PROVE  CargadasDeResidentes'
  <2>1. MismasPaginas
    BY <1>14, PaginasQuietas
  <2>2. \A k \in Paginas : ~Presente(p, k)
    BY <1>14, PaginasAssumption DEF SuspendeTermina, Paginas, Presente
  <2>3. \A q \in Procesos : q # p => proceso'[q] = proceso[q]
    BY <1>14 DEF SuspendeTermina, Tipos
  <2>4. kernel'.pid = Nadie
    BY <1>14 DEF SuspendeTermina, KernelLibre
  <2> QED BY <2>1, <2>2, <2>3, <2>4, NadieAssumption DEF MismasPaginas, Presente
<1>15. ASSUME NEW p \in Procesos, reanudar_proceso(p)
      PROVE  CargadasDeResidentes'
  <2>1. MismasPaginas
    BY <1>15, PaginasQuietas
  <2> QED BY <1>15, <2>1 DEF reanudar_proceso, MismasPaginas, Tipos
<1>16. ASSUME NEW p \in Procesos, eliminar_proceso(p)
      PROVE  CargadasDeResidentes'
  <2>1. PaginaNueva.presencia = 0
    BY DEF PaginaNueva
  <2> QED BY <1>16, <2>1, PaginasNuevas DEF eliminar_proceso, Tipos
<1>17. ASSUME NEW p \in Procesos, NEW n \in Paginas, NEW m \in Marcos, AccesoPorTlb(p, n, m)
      PROVE  CargadasDeResidentes'
  <2>1. MismasPaginas
    BY <1>17, PaginasQuietas
  <2> QED BY <1>17, <2>1 DEF AccesoPorTlb, MismasPaginas
<1> QED
  BY <1>1, <1>2, <1>3, <1>4, <1>5, <1>6, <1>7, <1>8, <1>9, <1>10, <1>11, <1>12, <1>13, <1>14, <1>15,
      <1>16, <1>17 DEF Paso, AtiendeCpu, AtiendeKernel

\* The frame given to the CPU is a frame.
LEMMA PedidoSeConserva == Fuerte /\ Paso => MarcoPedido'
<1> SUFFICES ASSUME Fuerte, Paso PROVE MarcoPedido'
  OBVIOUS
<1> USE DEF Fuerte, MarcoPedido
<1>1. ASSUME NEW p \in Procesos, NEW n \in Paginas, AccesoPresente(p, n)
      PROVE  MarcoPedido'
  <2>1. pagina[p][n].marco \in Marcos /\ cpu'.marco = pagina[p][n].marco
    BY <1>1, DePagina DEF AccesoPresente, CpuLibre, CargadasDeResidentes, Presente
  <2> QED BY <2>1
<1>2. ASSUME NEW p \in Procesos, NEW n \in Paginas, AccesoConLugar(p, n)
      PROVE  MarcoPedido'
  <2>1. ASSUME NEW m, NEW i, Carga(p, n, m, i) PROVE MarcoPedido'
    BY <2>1 DEF Carga
  <2>2. CASE cpu' = [CpuLibre EXCEPT !.fase = "sin_marcos", !.pid = p, !.pag = n]
    <3>1. cpu'.fase = "sin_marcos"
      BY <2>2 DEF CpuLibre
    <3> QED BY <3>1
  <2> QED BY <1>2, <2>1, <2>2, AccesoCarga
<1>3. ASSUME NEW p \in Procesos, NEW n \in Paginas, AccesoSinLugar(p, n)
      PROVE  MarcoPedido'
  <2>1. cpu'.fase \notin {"acceso", "carga"}
    BY <1>3, DeCpu DEF AccesoSinLugar, CpuLibre, Prepara, CpuTipo
  <2> QED BY <2>1
<1>4. ASSUME NEW p \in Procesos, RelojSinPagina(p)
      PROVE  MarcoPedido'
  <2>1. cpu'.fase \notin {"acceso", "carga"}
    BY <1>4, DeCpu DEF RelojSinPagina, CpuLibre, Prepara, CpuTipo
  <2> QED BY <2>1
<1>5. ASSUME NEW p \in Procesos, RelojAvanza(p)
      PROVE  MarcoPedido'
  <2>1. cpu'.fase \notin {"acceso", "carga"}
    BY <1>5, DeCpu DEF RelojAvanza, CpuLibre, Prepara, CpuTipo
  <2> QED BY <2>1
<1>6. ASSUME NEW p \in Procesos, RelojReemplaza(p)
      PROVE  MarcoPedido'
  <2>1. cpu'.marco = admin[p].offset
    BY <1>6, DeCpu DEF RelojReemplaza, reemplazar_marco, CpuTipo
  <2> QED BY <2>1, DeAdmin, Numeros
<1>7. ASSUME NEW p \in Procesos, CargaPagina(p)
      PROVE  MarcoPedido'
  <2>1. cpu'.marco = cpu.marco
    BY <1>7, DeCpu DEF CargaPagina, CpuTipo
  <2> QED BY <1>7, <2>1 DEF CargaPagina
<1>8. ASSUME NEW p \in Procesos, leer_posicion(p)
      PROVE  MarcoPedido'
  <2>1. cpu'.fase \notin {"acceso", "carga"}
    BY <1>8, DeCpu DEF leer_posicion, CpuLibre, Prepara, CpuTipo
  <2> QED BY <2>1
<1>9. ASSUME NEW p \in Procesos, NEW v \in Valores, escribir_en_posicion(p, v)
      PROVE  MarcoPedido'
  <2>1. cpu'.fase \notin {"acceso", "carga"}
    BY <1>9, DeCpu DEF escribir_en_posicion, CpuLibre, Prepara, CpuTipo
  <2> QED BY <2>1
<1>10. ASSUME NEW p \in Procesos, Responde(p)
      PROVE  MarcoPedido'
  <2>1. cpu'.fase \notin {"acceso", "carga"}
    BY <1>10, DeCpu DEF Responde, CpuLibre, Prepara, CpuTipo
  <2> QED BY <2>1
<1>11. ASSUME NEW p \in Procesos, crear_proceso(p)
      PROVE  MarcoPedido'
  BY <1>11 DEF crear_proceso
<1>12. ASSUME NEW p \in Procesos, suspender_proceso(p)
      PROVE  MarcoPedido'
  BY <1>12 DEF suspender_proceso
<1>13. ASSUME NEW p \in Procesos, SuspendePagina(p)
      PROVE  MarcoPedido'
  BY <1>13 DEF SuspendePagina
<1>14. ASSUME NEW p \in Procesos, SuspendeTermina(p)
      PROVE  MarcoPedido'
  BY <1>14 DEF SuspendeTermina
<1>15. ASSUME NEW p \in Procesos, reanudar_proceso(p)
      PROVE  MarcoPedido'
  BY <1>15 DEF reanudar_proceso
<1>16. ASSUME NEW p \in Procesos, eliminar_proceso(p)
      PROVE  MarcoPedido'
  BY <1>16 DEF eliminar_proceso
<1>17. ASSUME NEW p \in Procesos, NEW n \in Paginas, NEW m \in Marcos, AccesoPorTlb(p, n, m)
      PROVE  MarcoPedido'
  <2>1. cpu'.marco = m
    BY <1>17 DEF AccesoPorTlb, CpuLibre
  <2> QED BY <2>1
<1> QED
  BY <1>1, <1>2, <1>3, <1>4, <1>5, <1>6, <1>7, <1>8, <1>9, <1>10, <1>11, <1>12, <1>13, <1>14, <1>15,
      <1>16, <1>17 DEF Paso, AtiendeCpu, AtiendeKernel

\* The clock runs over full places.
LEMMA LlenosSeConservan == Fuerte /\ Paso => LugaresLlenos'
<1> SUFFICES ASSUME Fuerte, Paso PROVE LugaresLlenos'
  OBVIOUS
<1> USE DEF Fuerte, LugaresLlenos
<1>1. ASSUME NEW p \in Procesos, NEW n \in Paginas, AccesoPresente(p, n)
      PROVE  LugaresLlenos'
  <2>1. cpu'.fase # "reloj"
    BY <1>1, DeCpu DEF AccesoPresente, CpuLibre, Prepara, CpuTipo
  <2> QED BY <2>1
<1>2. ASSUME NEW p \in Procesos, NEW n \in Paginas, AccesoConLugar(p, n)
      PROVE  LugaresLlenos'
  <2>1. cpu'.fase # "reloj"
    BY <1>2, AccesoCarga DEF Carga, CpuLibre
  <2> QED BY <2>1
<1>3. ASSUME NEW p \in Procesos, NEW n \in Paginas, AccesoSinLugar(p, n)
      PROVE  LugaresLlenos'
  <2>1. cpu'.pid = p /\ admin' = admin
    BY <1>3 DEF AccesoSinLugar, CpuLibre
  <2> QED BY <1>3, <2>1, SinLugarTodos, TiposSonTipos DEF AccesoSinLugar
<1>4. ASSUME NEW p \in Procesos, RelojSinPagina(p)
      PROVE  LugaresLlenos'
  <2>1. cpu'.fase # "reloj"
    BY <1>4, DeCpu DEF RelojSinPagina, CpuLibre, Prepara, CpuTipo
  <2> QED BY <2>1
<1>5. ASSUME NEW p \in Procesos, RelojAvanza(p)
      PROVE  LugaresLlenos'
  <2>1. cpu'.pid = cpu.pid /\ cpu.pid = p /\ cpu.fase = "reloj"
    BY <1>5, DeCpu DEF RelojAvanza, CpuTipo
  <2> QED BY <1>5, <2>1, MarcosQuietos DEF MismosMarcos
<1>6. ASSUME NEW p \in Procesos, RelojReemplaza(p)
      PROVE  LugaresLlenos'
  <2>1. cpu'.fase # "reloj"
    BY <1>6, DeCpu DEF RelojReemplaza, CpuLibre, Prepara, CpuTipo
  <2> QED BY <2>1
<1>7. ASSUME NEW p \in Procesos, CargaPagina(p)
      PROVE  LugaresLlenos'
  <2>1. cpu'.fase # "reloj"
    BY <1>7, DeCpu DEF CargaPagina, CpuLibre, Prepara, CpuTipo
  <2> QED BY <2>1
<1>8. ASSUME NEW p \in Procesos, leer_posicion(p)
      PROVE  LugaresLlenos'
  <2>1. cpu'.fase # "reloj"
    BY <1>8, DeCpu DEF leer_posicion, CpuLibre, Prepara, CpuTipo
  <2> QED BY <2>1
<1>9. ASSUME NEW p \in Procesos, NEW v \in Valores, escribir_en_posicion(p, v)
      PROVE  LugaresLlenos'
  <2>1. cpu'.fase # "reloj"
    BY <1>9, DeCpu DEF escribir_en_posicion, CpuLibre, Prepara, CpuTipo
  <2> QED BY <2>1
<1>10. ASSUME NEW p \in Procesos, Responde(p)
      PROVE  LugaresLlenos'
  <2>1. cpu'.fase # "reloj"
    BY <1>10, DeCpu DEF Responde, CpuLibre, Prepara, CpuTipo
  <2> QED BY <2>1
<1>11. ASSUME NEW p \in Procesos, crear_proceso(p)
      PROVE  LugaresLlenos'
  <2>1. cpu' = cpu /\ (cpu.fase = "reloj" => cpu.pid # p /\ cpu.pid \in Procesos)
    BY <1>11, DeCpu, NadieAssumption DEF HilosFieles, crear_proceso, Pide
  <2> QED BY <1>11, <2>1, MarcosVaciados DEF AdminVaciado
<1>12. ASSUME NEW p \in Procesos, suspender_proceso(p)
      PROVE  LugaresLlenos'
  BY <1>12 DEF suspender_proceso
<1>13. ASSUME NEW p \in Procesos, SuspendePagina(p)
      PROVE  LugaresLlenos'
  BY <1>13 DEF SuspendePagina
<1>14. ASSUME NEW p \in Procesos, SuspendeTermina(p)
      PROVE  LugaresLlenos'
  <2>1. cpu' = cpu /\ (cpu.fase = "reloj" => cpu.pid # p /\ cpu.pid \in Procesos)
    BY <1>14, DeCpu, NadieAssumption DEF HilosFieles, SuspendeTermina, EnMemoria, HilosFieles
  <2> QED BY <1>14, <2>1, MarcosVaciados DEF AdminVaciado
<1>15. ASSUME NEW p \in Procesos, reanudar_proceso(p)
      PROVE  LugaresLlenos'
  <2>1. cpu' = cpu /\ (cpu.fase = "reloj" => cpu.pid # p /\ cpu.pid \in Procesos)
    BY <1>15, DeCpu, NadieAssumption DEF HilosFieles, reanudar_proceso, Pide
  <2> QED BY <1>15, <2>1, MarcosVaciados DEF AdminVaciado
<1>16. ASSUME NEW p \in Procesos, eliminar_proceso(p)
      PROVE  LugaresLlenos'
  <2>1. cpu' = cpu /\ (cpu.fase = "reloj" => cpu.pid # p /\ cpu.pid \in Procesos)
    BY <1>16, DeCpu, NadieAssumption DEF HilosFieles, eliminar_proceso, Pide
  <2> QED BY <1>16, <2>1, MarcosVaciados DEF AdminVaciado
<1>17. ASSUME NEW p \in Procesos, NEW n \in Paginas, NEW m \in Marcos, AccesoPorTlb(p, n, m)
      PROVE  LugaresLlenos'
  <2>1. cpu'.fase # "reloj"
    BY <1>17, DeCpu DEF AccesoPorTlb, CpuLibre, Prepara, CpuTipo
  <2> QED BY <2>1
<1> QED
  BY <1>1, <1>2, <1>3, <1>4, <1>5, <1>6, <1>7, <1>8, <1>9, <1>10, <1>11, <1>12, <1>13, <1>14, <1>15,
      <1>16, <1>17 DEF Paso, AtiendeCpu, AtiendeKernel

\* Fuerte is inductive.
LEMMA FuerteSeConserva == Fuerte /\ Paso => Fuerte'
BY TiposSeConservan, HilosSeConservan, CargadasSeConservan, PedidoSeConserva, LlenosSeConservan DEF Fuerte

\* Places and map agree after every step: a frame is given only when the map has
\* it free, and no handler frees one in the map.
LEMMA PropiosSeConservan == Fuerte /\ MarcosPropios /\ Paso => MarcosPropios'
<1> SUFFICES ASSUME Fuerte /\ MarcosPropios, Paso PROVE MarcosPropios'
  OBVIOUS
<1> USE DEF Fuerte
<1>1. ASSUME NEW p \in Procesos, NEW n \in Paginas, AccesoPresente(p, n)
      PROVE  MarcosPropios'
  <2>1. estado_de_marcos' = estado_de_marcos /\ MismosMarcos
    BY <1>1, MarcosQuietos DEF AccesoPresente
  <2> QED BY <2>1 DEF MismosMarcos, MarcosPropios
<1>2. ASSUME NEW p \in Procesos, NEW n \in Paginas, AccesoConLugar(p, n)
      PROVE  MarcosPropios'
  <2>1. CASE UNCHANGED <<admin, estado_de_marcos>>
    BY <2>1 DEF MarcosPropios
  <2>2. ASSUME NEW m, NEW i, Carga(p, n, m, i) PROVE MarcosPropios'
    <3>1. \A q \in Procesos : \A j \in Lugares : admin[q].marcos[j] # m
      BY <2>2, Numeros DEF Carga, MarcosPropios
    <3>2. m # SinMarco
      BY <2>2, Numeros DEF Carga
    <3> SUFFICES ASSUME NEW q \in Procesos, NEW r \in Procesos, NEW j \in Lugares, NEW k \in Lugares,
                        admin'[q].marcos[j] # SinMarco
                 PROVE  /\ estado_de_marcos'[admin'[q].marcos[j]] = 0
                        /\ admin'[r].marcos[k] = admin'[q].marcos[j] => q = r /\ j = k
      BY DEF MarcosPropios
    <3>3. /\ admin'[q].marcos[j] = IF q = p /\ j = i THEN m ELSE admin[q].marcos[j]
          /\ admin'[r].marcos[k] = IF r = p /\ k = i THEN m ELSE admin[r].marcos[k]
      BY <2>2 DEF Carga
    <3>4. admin'[q].marcos[j] \in Marcos
      BY <2>2, <3>3, DeAdmin DEF Carga
    <3>5. estado_de_marcos'[admin'[q].marcos[j]] = 0
      <4>1. CASE q = p /\ j = i
        BY <2>2, <3>3, <4>1 DEF Carga
      <4>2. CASE ~(q = p /\ j = i)
        <5>1. estado_de_marcos[admin[q].marcos[j]] = 0
          BY <3>3, <4>2 DEF MarcosPropios
        <5> QED BY <2>2, <3>3, <3>4, <4>2, <5>1 DEF Carga
      <4> QED BY <4>1, <4>2
    <3>6. admin'[r].marcos[k] = admin'[q].marcos[j] => q = r /\ j = k
      BY <3>1, <3>3 DEF MarcosPropios
    <3> QED BY <3>5, <3>6
  <2> QED BY <1>2, <2>1, <2>2, AccesoCarga
<1>3. ASSUME NEW p \in Procesos, NEW n \in Paginas, AccesoSinLugar(p, n)
      PROVE  MarcosPropios'
  <2>1. estado_de_marcos' = estado_de_marcos /\ MismosMarcos
    BY <1>3, MarcosQuietos DEF AccesoSinLugar
  <2> QED BY <2>1 DEF MismosMarcos, MarcosPropios
<1>4. ASSUME NEW p \in Procesos, RelojSinPagina(p)
      PROVE  MarcosPropios'
  <2>1. estado_de_marcos' = estado_de_marcos /\ MismosMarcos
    BY <1>4, MarcosQuietos DEF RelojSinPagina
  <2> QED BY <2>1 DEF MismosMarcos, MarcosPropios
<1>5. ASSUME NEW p \in Procesos, RelojAvanza(p)
      PROVE  MarcosPropios'
  <2>1. estado_de_marcos' = estado_de_marcos /\ MismosMarcos
    BY <1>5, MarcosQuietos DEF RelojAvanza
  <2> QED BY <2>1 DEF MismosMarcos, MarcosPropios
<1>6. ASSUME NEW p \in Procesos, RelojReemplaza(p)
      PROVE  MarcosPropios'
  <2>1. estado_de_marcos' = estado_de_marcos /\ MismosMarcos
    BY <1>6, MarcosQuietos DEF RelojReemplaza
  <2> QED BY <2>1 DEF MismosMarcos, MarcosPropios
<1>7. ASSUME NEW p \in Procesos, CargaPagina(p)
      PROVE  MarcosPropios'
  <2>1. estado_de_marcos' = estado_de_marcos /\ MismosMarcos
    BY <1>7, MarcosQuietos DEF CargaPagina
  <2> QED BY <2>1 DEF MismosMarcos, MarcosPropios
<1>8. ASSUME NEW p \in Procesos, leer_posicion(p)
      PROVE  MarcosPropios'
  <2>1. estado_de_marcos' = estado_de_marcos /\ MismosMarcos
    BY <1>8, MarcosQuietos DEF leer_posicion
  <2> QED BY <2>1 DEF MismosMarcos, MarcosPropios
<1>9. ASSUME NEW p \in Procesos, NEW v \in Valores, escribir_en_posicion(p, v)
      PROVE  MarcosPropios'
  <2>1. estado_de_marcos' = estado_de_marcos /\ MismosMarcos
    BY <1>9, MarcosQuietos DEF escribir_en_posicion
  <2> QED BY <2>1 DEF MismosMarcos, MarcosPropios
<1>10. ASSUME NEW p \in Procesos, Responde(p)
      PROVE  MarcosPropios'
  <2>1. estado_de_marcos' = estado_de_marcos /\ MismosMarcos
    BY <1>10, MarcosQuietos DEF Responde
  <2> QED BY <2>1 DEF MismosMarcos, MarcosPropios
<1>11. ASSUME NEW p \in Procesos, crear_proceso(p)
      PROVE  MarcosPropios'
  <2>1. estado_de_marcos' = estado_de_marcos /\ AdminVaciado(p)
    BY <1>11, MarcosVaciados DEF crear_proceso, liberar_marcos
  <2> QED BY <2>1 DEF AdminVaciado, MarcosPropios
<1>12. ASSUME NEW p \in Procesos, suspender_proceso(p)
      PROVE  MarcosPropios'
  <2>1. estado_de_marcos' = estado_de_marcos /\ MismosMarcos
    BY <1>12, MarcosQuietos DEF suspender_proceso
  <2> QED BY <2>1 DEF MismosMarcos, MarcosPropios
<1>13. ASSUME NEW p \in Procesos, SuspendePagina(p)
      PROVE  MarcosPropios'
  <2>1. estado_de_marcos' = estado_de_marcos /\ MismosMarcos
    BY <1>13, MarcosQuietos DEF SuspendePagina
  <2> QED BY <2>1 DEF MismosMarcos, MarcosPropios
<1>14. ASSUME NEW p \in Procesos, SuspendeTermina(p)
      PROVE  MarcosPropios'
  <2>1. estado_de_marcos' = estado_de_marcos /\ AdminVaciado(p)
    BY <1>14, MarcosVaciados DEF SuspendeTermina, liberar_marcos
  <2> QED BY <2>1 DEF AdminVaciado, MarcosPropios
<1>15. ASSUME NEW p \in Procesos, reanudar_proceso(p)
      PROVE  MarcosPropios'
  <2>1. estado_de_marcos' = estado_de_marcos /\ AdminVaciado(p)
    BY <1>15, MarcosVaciados DEF reanudar_proceso, liberar_marcos
  <2> QED BY <2>1 DEF AdminVaciado, MarcosPropios
<1>16. ASSUME NEW p \in Procesos, eliminar_proceso(p)
      PROVE  MarcosPropios'
  <2>1. estado_de_marcos' = estado_de_marcos /\ AdminVaciado(p)
    BY <1>16, MarcosVaciados DEF eliminar_proceso, liberar_marcos
  <2> QED BY <2>1 DEF AdminVaciado, MarcosPropios
<1>17. ASSUME NEW p \in Procesos, NEW n \in Paginas, NEW m \in Marcos, AccesoPorTlb(p, n, m)
      PROVE  MarcosPropios'
  <2>1. estado_de_marcos' = estado_de_marcos /\ MismosMarcos
    BY <1>17, MarcosQuietos DEF AccesoPorTlb
  <2> QED BY <2>1 DEF MismosMarcos, MarcosPropios
<1> QED
  BY <1>1, <1>2, <1>3, <1>4, <1>5, <1>6, <1>7, <1>8, <1>9, <1>10, <1>11, <1>12, <1>13, <1>14, <1>15,
      <1>16, <1>17 DEF Paso, AtiendeCpu, AtiendeKernel

\* The state before the first message.
LEMMA EstadoInicial == Init => Fuerte /\ MarcosPropios
<1> SUFFICES ASSUME Init PROVE Fuerte /\ MarcosPropios
  OBVIOUS
<1> USE DEF Init
<1>1. cpu = CpuLibre /\ cpu.fase = "libre" /\ cpu.pid = Nadie
  BY DEF CpuLibre
<1>2. kernel.fase = "libre" /\ kernel.pid = Nadie /\ kernel \in KernelTipo
  BY Numeros DEF KernelLibre, KernelTipo
<1>3. \A p \in Procesos : \A n \in Paginas : pagina[p][n].presencia = 0
  BY DEF PaginaNueva
<1>4. \A p \in Procesos : \A i \in Lugares : admin[p].marcos[i] = SinMarco
  BY DEF AdminNuevo
<1>5. Tipos
  <2>1. /\ algoritmo \in Algoritmos
        /\ proceso \in [Procesos -> {"sin_crear", "residente", "suspendido", "terminado"}]
    OBVIOUS
  <2>2. pagina \in [Procesos -> [Paginas -> EntradaTipo]]
    BY EntradasTipo
  <2>3. admin \in [Procesos -> AdminTipo]
    BY AdminTipos
  <2>4. estado_de_marcos \in [Marcos -> Bit]
    BY Numeros
  <2>5. ram \in [Marcos -> Valores] /\ swap \in [Procesos -> [Paginas -> Valores]]
    BY ValoresAssumption DEF SwapNuevo
  <2>6. cpu \in CpuTipo /\ kernel \in KernelTipo
    BY <1>1, <1>2, CpuTipos
  <2>7. respuesta \in Respuestas \cup {SinRespuesta} /\ reanudaciones \in 0 .. MaxReanudaciones
    BY ReanudacionesAssumption
  <2> QED BY <2>1, <2>2, <2>3, <2>4, <2>5, <2>6, <2>7 DEF Tipos
<1>6. HilosFieles
  BY <1>1, <1>2 DEF HilosFieles
<1>7. CargadasDeResidentes /\ MarcoPedido /\ LugaresLlenos
  BY <1>1, <1>3 DEF CargadasDeResidentes, Presente, MarcoPedido, LugaresLlenos
<1> QED BY <1>4, <1>5, <1>6, <1>7 DEF Fuerte, MarcosPropios

\* The steps of Memoria are such steps.
LEMMA EsPaso == Next => Paso
BY DEF Next, Paso

\* Stuttering.
LEMMA SinPasoIgual == Fuerte /\ MarcosPropios /\ UNCHANGED vars => Fuerte' /\ MarcosPropios'
<1> SUFFICES ASSUME Fuerte, MarcosPropios, UNCHANGED vars PROVE Fuerte' /\ MarcosPropios'
  OBVIOUS
<1> USE DEF vars
<1>1. Tipos'
  BY DEF Fuerte, Tipos
<1>2. HilosFieles'
  BY DEF Fuerte, HilosFieles, EnMemoria
<1>3. CargadasDeResidentes' /\ MarcoPedido' /\ LugaresLlenos'
  BY DEF Fuerte, CargadasDeResidentes, Presente, MarcoPedido, LugaresLlenos
<1> QED BY <1>1, <1>2, <1>3 DEF Fuerte, MarcosPropios

\* The invariant of Memoria, whatever is replaced.
LEMMA FuerteSiempre == Spec => [](Fuerte /\ MarcosPropios)
<1>1. Fuerte /\ MarcosPropios /\ [Next]_vars => (Fuerte /\ MarcosPropios)'
  BY EsPaso, FuerteSeConserva, PropiosSeConservan, SinPasoIgual
<1> QED BY <1>1, EstadoInicial, PTL DEF Spec

\* Every index memory uses is in bounds, whatever is replaced, suspended and
\* resumed: the frame of an access, of a copy to swap and of a copy from swap, and
\* the place of the pointer (Memoria.c, atender_cpu and atender_kernel).
THEOREM TiposDeMemoria == Spec => []TypeOK
<1>1. Fuerte => TypeOK
  BY TiposSonTipos DEF Fuerte
<1> QED BY <1>1, FuerteSiempre, PTL

\* A frame is in one place of one process at most, and is taken in the map, through
\* assignments, replacements, suspensions, resumptions and ends
\* (respuesta_a_pregunta_de_2do_acceso, liberar_marcos).
THEOREM CadaMarcoDeUno == Spec => []MarcosPropios
BY FuerteSiempre, PTL

----------------------------------------------------------------------------
(* Without replacement.                                                    *)

\* A hit in a TLB that tells the truth: the CPU gets the frame the page is in.
AciertoFiel(p, n, m) == AccesoPorTlb(p, n, m) /\ Presente(p, n) /\ pagina[p][n].marco = m

\* A step of memory with such a TLB in front.
PasoFiel == \E p \in Procesos : \/ AtiendeCpu(p) \/ AtiendeKernel(p)
                                \/ \E n \in Paginas, m \in Marcos : AciertoFiel(p, n, m)

\* It is one of the steps above.
LEMMA FielEsPaso == PasoFiel => Paso
BY DEF PasoFiel, Paso, AciertoFiel

\* The process has a place for each of its pages (marcos_por_proceso against
\* tamanio_en_memoria / tam_pagina).
SinReemplazo == CantPaginas <= MarcosPorProceso

\* The inductive invariant while nothing is replaced.
Ordenada == /\ Fuerte /\ MarcosPropios /\ UnaPaginaPorMarco /\ ReemplazosLocales
            /\ LugaresConPagina /\ MarcoDelAcceso /\ CopiaFiel /\ SinReloj

\* With a place for each page, a page that is not loaded finds one: the places
\* taken have different pages of the process, and that page is in none of them.
LEMMA HayLugar ==
  ASSUME SinReemplazo, Ordenada, NEW p \in Procesos, NEW n \in Paginas, EnMemoria(p), ~Presente(p, n)
  PROVE  primer_marco_libre_del_proceso(p) # SinMarco
<1> SUFFICES ASSUME primer_marco_libre_del_proceso(p) = SinMarco PROVE FALSE
  OBVIOUS
<1>1. \A i \in Lugares : admin[p].marcos[i] # SinMarco
  BY SinLugarTodos, TiposSonTipos DEF Ordenada, Fuerte
<1>2. \A i \in Lugares : \E k \in Paginas : Presente(p, k) /\ pagina[p][k].marco = admin[p].marcos[i]
  BY <1>1 DEF Ordenada, LugaresConPagina
<1> DEFINE f == [i \in Lugares |-> CHOOSE k \in Paginas : /\ Presente(p, k)
                                                          /\ pagina[p][k].marco = admin[p].marcos[i]]
<1>3. \A i \in Lugares : /\ f[i] \in Paginas /\ Presente(p, f[i])
                         /\ pagina[p][f[i]].marco = admin[p].marcos[i]
  BY <1>2
<1> HIDE DEF f
<1>4. f \in [Lugares -> Paginas \ {n}]
  <2>1. f = [i \in Lugares |-> f[i]]
    BY DEF f
  <2>2. \A i \in Lugares : f[i] \in Paginas \ {n}
    BY <1>3
  <2> QED BY <2>1, <2>2
<1>5. \A i, j \in Lugares : f[i] = f[j] => i = j
  <2> SUFFICES ASSUME NEW i \in Lugares, NEW j \in Lugares, f[i] = f[j] PROVE i = j
    OBVIOUS
  <2>1. admin[p].marcos[i] = admin[p].marcos[j]
    BY <1>3
  <2> QED BY <1>1, <2>1 DEF Ordenada, MarcosPropios
<1>6. IsFiniteSet(Lugares) /\ Cardinality(Lugares) = MarcosPorProceso
  BY MarcosAssumption, FS_Interval DEF Lugares
<1>7. IsFiniteSet(Paginas) /\ Cardinality(Paginas) = CantPaginas
  BY PaginasAssumption, FS_Interval DEF Paginas
<1>8. IsFiniteSet(Paginas \ {n}) /\ Cardinality(Paginas \ {n}) = CantPaginas - 1
  BY <1>7, FS_RemoveElement
<1>9. Cardinality(Paginas \ {n}) < Cardinality(Lugares)
  BY <1>6, <1>8, PaginasAssumption, MarcosAssumption DEF SinReemplazo
<1>10. \E i, j \in Lugares : i # j /\ f[i] = f[j]
  BY <1>4, <1>6, <1>8, <1>9, FS_PigeonHole
<1> QED BY <1>5, <1>10

\* The steps that may be taken while no page is replaced.
Movimiento(p) ==
  \/ \E n \in Paginas : AccesoPresente(p, n) \/ AccesoConLugar(p, n)
  \/ \E n \in Paginas, m \in Marcos : AciertoFiel(p, n, m)
  \/ CargaPagina(p) \/ leer_posicion(p) \/ (\E v \in Valores : escribir_en_posicion(p, v))
  \/ Responde(p)
  \/ crear_proceso(p) \/ suspender_proceso(p) \/ SuspendePagina(p) \/ SuspendeTermina(p)
  \/ reanudar_proceso(p) \/ eliminar_proceso(p)

\* reemplazar_marco is never called.
LEMMA NadaSeReemplaza ==
  ASSUME SinReemplazo, Ordenada, PasoFiel
  PROVE  \E p \in Procesos : Movimiento(p)
<1>1. \A p \in Procesos : \A n \in Paginas : ~AccesoSinLugar(p, n)
  BY HayLugar DEF AccesoSinLugar, Presente
<1>2. \A p \in Procesos : ~RelojSinPagina(p) /\ ~RelojAvanza(p) /\ ~RelojReemplaza(p)
  BY DEF Ordenada, SinReloj, RelojSinPagina, RelojAvanza, RelojReemplaza
<1> QED BY <1>1, <1>2 DEF PasoFiel, AtiendeCpu, AtiendeKernel, Movimiento

\* A step that puts no process back in memory.
Sigue == \A q \in Procesos : EnMemoria(q)' => EnMemoria(q)

\* What a movement does to places and pages. Nothing;
Quieto == MismasPaginas /\ MismosMarcos /\ Sigue

\* or one page gets a frame;
Cargado == \E p \in Procesos : \E n \in Paginas : \E m, i : Carga(p, n, m, i) /\ Sigue

\* or one page of a suspension goes;
SePierde(p, n) ==
  /\ ~Presente(p, n)' /\ ~EnMemoria(p)' /\ MismosMarcos /\ Sigue
  /\ \A q \in Procesos : \A k \in Paginas : q # p \/ k # n => pagina'[q][k] = pagina[q][k]

\* or a process is left with neither.
SeVacia(p) ==
  /\ AdminVaciado(p)
  /\ \A k \in Paginas : ~Presente(p, k)'
  /\ \A q \in Procesos : q # p => /\ EnMemoria(q)' => EnMemoria(q)
                                  /\ \A k \in Paginas : pagina'[q][k] = pagina[q][k]

\* The steps of the thread of the CPU among them, with any TLB.
MovimientoDeCpu(p) ==
  \/ \E n \in Paginas : AccesoPresente(p, n) \/ AccesoConLugar(p, n)
  \/ \E n \in Paginas, m \in Marcos : AccesoPorTlb(p, n, m)
  \/ CargaPagina(p) \/ leer_posicion(p) \/ (\E v \in Valores : escribir_en_posicion(p, v))
  \/ Responde(p)

\* They only load.
LEMMA EfectoDeCpu ==
  ASSUME Fuerte, NEW p \in Procesos, MovimientoDeCpu(p)
  PROVE  Quieto \/ Cargado
<1> USE DEF Fuerte
<1>1. ASSUME \/ \E n \in Paginas : AccesoPresente(p, n)
             \/ \E n \in Paginas, m \in Marcos : AccesoPorTlb(p, n, m)
             \/ CargaPagina(p) \/ leer_posicion(p)
             \/ (\E v \in Valores : escribir_en_posicion(p, v)) \/ Responde(p)
      PROVE  Quieto
  <2>1. MismasPaginas /\ MismosMarcos
    BY <1>1, PaginasQuietas, MarcosQuietos
  <2>2. proceso' = proceso /\ kernel' = kernel
    BY <1>1 DEF AccesoPresente, AccesoPorTlb, CargaPagina, leer_posicion, escribir_en_posicion, Responde
  <2> QED BY <2>1, <2>2 DEF Quieto, Sigue, EnMemoria
<1>2. ASSUME NEW n \in Paginas, AccesoConLugar(p, n) PROVE Quieto \/ Cargado
  <2>1. proceso' = proceso /\ kernel' = kernel
    BY <1>2 DEF AccesoConLugar
  <2>2. Sigue
    BY <2>1 DEF Sigue, EnMemoria
  <2>3. CASE UNCHANGED <<pagina, admin>>
    BY <2>2, <2>3 DEF Quieto, MismasPaginas, MismosMarcos
  <2>4. CASE \E m, i : Carga(p, n, m, i)
    BY <2>2, <2>4 DEF Cargado
  <2> QED BY <1>2, <2>3, <2>4, AccesoCarga
<1> QED BY <1>1, <1>2 DEF MovimientoDeCpu

\* A movement does nothing else.
LEMMA EfectoDelMovimiento ==
  ASSUME Fuerte, NEW p \in Procesos, Movimiento(p)
  PROVE  \/ Quieto \/ Cargado \/ SeVacia(p)
         \/ \E n \in Paginas : SePierde(p, n)
<1> USE DEF Fuerte
<1>1. CASE MovimientoDeCpu(p)
  BY <1>1, EfectoDeCpu
<1>2. CASE suspender_proceso(p)
  <2>1. MismasPaginas /\ MismosMarcos
    BY <1>2, PaginasQuietas, MarcosQuietos
  <2>2. proceso' = proceso /\ kernel.pid = Nadie
    BY <1>2 DEF suspender_proceso, Pide, HilosFieles
  <2> QED BY <2>1, <2>2, NadieAssumption DEF Quieto, Sigue, EnMemoria
<1>3. CASE SuspendePagina(p)
  <2> PICK n \in Paginas : n = kernel.pag
    BY <1>3, PaginaSuspendida
  <2>1. /\ \A q \in Procesos : \A k \in Paginas : q # p \/ k # n => pagina'[q][k] = pagina[q][k]
        /\ pagina'[p][n] = [pagina[p][n] EXCEPT !.uso = 0, !.modificado = 0, !.presencia = 0]
    BY <1>3, PaginaSuspendida
  <2>2. pagina'[p][n].presencia = 0
    BY <2>1, DePagina DEF EntradaTipo
  <2>3. proceso' = proceso /\ kernel'.pid = kernel.pid /\ kernel.pid = p
    BY <1>3 DEF SuspendePagina, Tipos, KernelTipo
  <2>4. MismosMarcos
    BY <1>3, MarcosQuietos
  <2>5. ~Presente(p, n)' /\ ~EnMemoria(p)' /\ Sigue
    BY <2>2, <2>3 DEF Presente, EnMemoria, Sigue
  <2> QED BY <2>1, <2>4, <2>5 DEF SePierde
<1>4. CASE crear_proceso(p) \/ eliminar_proceso(p)
  <2>1. AdminVaciado(p)
    BY <1>4, MarcosVaciados
  <2>2. \A q \in Procesos : \A k \in Paginas : pagina'[q][k] = IF q = p THEN PaginaNueva ELSE pagina[q][k]
    BY <1>4, PaginasNuevas
  <2>3. kernel' = kernel /\ \A q \in Procesos : q # p => proceso'[q] = proceso[q]
    BY <1>4 DEF crear_proceso, eliminar_proceso, Tipos
  <2> QED BY <2>1, <2>2, <2>3 DEF SeVacia, Presente, PaginaNueva, EnMemoria
<1>5. CASE SuspendeTermina(p) \/ reanudar_proceso(p)
  <2>1. AdminVaciado(p) /\ pagina' = pagina
    BY <1>5, MarcosVaciados DEF SuspendeTermina, reanudar_proceso
  <2>2. \A k \in Paginas : ~Presente(p, k)
    BY <1>5, PaginasAssumption DEF SuspendeTermina, reanudar_proceso, Paginas, CargadasDeResidentes
  <2>3. /\ \A q \in Procesos : q # p => proceso'[q] = proceso[q]
        /\ \A q \in Procesos : q # p => kernel.pid # q \/ kernel'.pid = kernel.pid
    BY <1>5 DEF SuspendeTermina, reanudar_proceso, Tipos
  <2> QED BY <2>1, <2>2, <2>3 DEF SeVacia, Presente, EnMemoria
<1> QED BY <1>1, <1>2, <1>3, <1>4, <1>5 DEF Movimiento, MovimientoDeCpu, AciertoFiel

\* No loaded page is in the frame that is being given.
LEMMA MarcoNuevo ==
  ASSUME Fuerte, MarcosPropios, ReemplazosLocales,
         NEW p \in Procesos, NEW n \in Paginas, NEW m, NEW i, Carga(p, n, m, i),
         NEW q \in Procesos, NEW k \in Paginas, Presente(q, k)
  PROVE  pagina[q][k].marco # m /\ ~(q = p /\ k = n)
<1>1. PICK j \in Lugares : admin[q].marcos[j] = pagina[q][k].marco
  BY DEF ReemplazosLocales
<1>2. admin[q].marcos[j] # SinMarco
  BY <1>1 DEF Fuerte, CargadasDeResidentes
<1>3. estado_de_marcos[admin[q].marcos[j]] = 0
  BY <1>2 DEF MarcosPropios
<1> QED BY <1>1, <1>3 DEF Carga

\* Frames have one page, pages are in frames of their process, and the frames of a
\* resident process have pages, after every movement.
LEMMA MarcosPorMovimiento ==
  ASSUME Fuerte, MarcosPropios, ReemplazosLocales, LugaresConPagina, NEW p \in Procesos, Movimiento(p)
  PROVE  ReemplazosLocales' /\ LugaresConPagina' /\ (UnaPaginaPorMarco => UnaPaginaPorMarco')
<1>1. CASE Quieto
  <2>1. UnaPaginaPorMarco => UnaPaginaPorMarco'
    BY <1>1 DEF Quieto, MismasPaginas, UnaPaginaPorMarco, Presente
  <2>2. ReemplazosLocales'
    BY <1>1 DEF Quieto, MismasPaginas, MismosMarcos, ReemplazosLocales, Presente
  <2>3. LugaresConPagina'
    BY <1>1 DEF Quieto, MismasPaginas, MismosMarcos, Sigue, LugaresConPagina, Presente
  <2> QED BY <2>1, <2>2, <2>3
<1>2. CASE Cargado
  <2> PICK r \in Procesos, n \in Paginas : \E m, i : Carga(r, n, m, i) /\ Sigue
    BY <1>2 DEF Cargado
  <2> PICK m, i : Carga(r, n, m, i) /\ Sigue
    OBVIOUS
  <2>1. Cargada(m).marco = m /\ Cargada(m).presencia = 1
    BY DEF Cargada
  <2>2. \A q \in Procesos : \A k \in Paginas :
          /\ Presente(q, k)' <=> Presente(q, k) \/ (q = r /\ k = n)
          /\ q = r /\ k = n => pagina'[q][k].marco = m
          /\ Presente(q, k) => pagina'[q][k].marco = pagina[q][k].marco /\ pagina[q][k].marco # m
    BY <2>1, MarcoNuevo DEF Carga, Presente
  <2>3. \A q \in Procesos : \A j \in Lugares :
          admin'[q].marcos[j] = IF q = r /\ j = i THEN m ELSE admin[q].marcos[j]
    BY DEF Carga
  <2>4. i \in Lugares /\ admin[r].marcos[i] = SinMarco
    BY DEF Carga
  <2>5. UnaPaginaPorMarco => UnaPaginaPorMarco'
    BY <2>2 DEF UnaPaginaPorMarco
  <2>6. ReemplazosLocales'
    <3> SUFFICES ASSUME NEW q \in Procesos, NEW k \in Paginas, Presente(q, k)'
                 PROVE  \E j \in Lugares : admin'[q].marcos[j] = pagina'[q][k].marco
      BY DEF ReemplazosLocales
    <3>1. CASE q = r /\ k = n
      BY <2>2, <2>3, <2>4, <3>1
    <3>2. CASE ~(q = r /\ k = n)
      <4>1. Presente(q, k) /\ pagina'[q][k].marco = pagina[q][k].marco
        BY <2>2, <3>2
      <4>2. PICK j \in Lugares : admin[q].marcos[j] = pagina[q][k].marco
        BY <4>1 DEF ReemplazosLocales
      <4>3. ~(q = r /\ j = i)
        BY <2>4, <4>1, <4>2 DEF Fuerte, CargadasDeResidentes
      <4> QED BY <2>3, <4>1, <4>2, <4>3
    <3> QED BY <3>1, <3>2
  <2>7. LugaresConPagina'
    <3> SUFFICES ASSUME NEW q \in Procesos, EnMemoria(q)', NEW j \in Lugares, admin'[q].marcos[j] # SinMarco
                 PROVE  \E k \in Paginas : Presente(q, k)' /\ pagina'[q][k].marco = admin'[q].marcos[j]
      BY DEF LugaresConPagina
    <3>1. CASE q = r /\ j = i
      BY <2>2, <2>3, <3>1
    <3>2. CASE ~(q = r /\ j = i)
      <4>1. PICK k \in Paginas : Presente(q, k) /\ pagina[q][k].marco = admin[q].marcos[j]
        BY <2>3, <3>2 DEF LugaresConPagina, Sigue
      <4> QED BY <2>2, <2>3, <3>2, <4>1
    <3> QED BY <3>1, <3>2
  <2> QED BY <2>5, <2>6, <2>7
<1>3. ASSUME NEW n \in Paginas, SePierde(p, n)
      PROVE  ReemplazosLocales' /\ LugaresConPagina' /\ (UnaPaginaPorMarco => UnaPaginaPorMarco')
  <2>1. \A q \in Procesos : \A k \in Paginas :
          Presente(q, k)' => Presente(q, k) /\ pagina'[q][k].marco = pagina[q][k].marco
    BY <1>3 DEF SePierde, Presente
  <2>2. UnaPaginaPorMarco => UnaPaginaPorMarco'
    BY <2>1 DEF UnaPaginaPorMarco
  <2>3. ReemplazosLocales'
    BY <1>3, <2>1 DEF SePierde, MismosMarcos, ReemplazosLocales
  <2>4. \A q \in Procesos : EnMemoria(q)' =>
          q # p /\ EnMemoria(q) /\ \A k \in Paginas : pagina'[q][k] = pagina[q][k]
    BY <1>3 DEF SePierde, Sigue
  <2>5. LugaresConPagina'
    BY <1>3, <2>4 DEF SePierde, MismosMarcos, LugaresConPagina, Presente
  <2> QED BY <2>2, <2>3, <2>5
<1>4. CASE SeVacia(p)
  <2>1. \A q \in Procesos : \A k \in Paginas :
          Presente(q, k)' => q # p /\ Presente(q, k) /\ pagina'[q][k].marco = pagina[q][k].marco
    BY <1>4 DEF SeVacia, Presente
  <2>2. \A q \in Procesos : \A i \in Lugares : admin'[q].marcos[i] = IF q = p THEN SinMarco ELSE admin[q].marcos[i]
    BY <1>4 DEF SeVacia, AdminVaciado
  <2>3. UnaPaginaPorMarco => UnaPaginaPorMarco'
    BY <2>1 DEF UnaPaginaPorMarco
  <2>4. ReemplazosLocales'
    BY <2>1, <2>2 DEF ReemplazosLocales
  <2>5. \A q \in Procesos : q # p => /\ EnMemoria(q)' => EnMemoria(q)
                                     /\ \A k \in Paginas : pagina'[q][k] = pagina[q][k]
    BY <1>4 DEF SeVacia
  <2>6. LugaresConPagina'
    BY <2>2, <2>5 DEF LugaresConPagina, Presente
  <2> QED BY <2>3, <2>4, <2>6
<1> QED BY <1>1, <1>2, <1>3, <1>4, EfectoDelMovimiento

\* The page the CPU works with keeps its frame until it is done.
LEMMA AccesoSeConserva ==
  ASSUME Fuerte, MarcoDelAcceso, NEW p \in Procesos, Movimiento(p)
  PROVE  MarcoDelAcceso' /\ (SinReloj => SinReloj')
<1> USE DEF Fuerte
<1>1. ASSUME NEW n \in Paginas, AccesoPresente(p, n) PROVE MarcoDelAcceso' /\ (SinReloj => SinReloj')
  <2>1. cpu'.fase = "acceso" /\ cpu'.pid = p /\ cpu'.pag = n /\ cpu'.marco = pagina[p][n].marco
    BY <1>1 DEF AccesoPresente, CpuLibre
  <2>2. Presente(p, n) /\ MismasPaginas
    BY <1>1, PaginasQuietas DEF AccesoPresente, Presente
  <2> QED BY <2>1, <2>2 DEF MarcoDelAcceso, SinReloj, MismasPaginas, Presente
<1>2. ASSUME NEW n \in Paginas, AccesoConLugar(p, n) PROVE MarcoDelAcceso' /\ (SinReloj => SinReloj')
  <2>1. CASE cpu' = [CpuLibre EXCEPT !.fase = "sin_marcos", !.pid = p, !.pag = n]
    <3>1. cpu'.fase = "sin_marcos"
      BY <2>1 DEF CpuLibre
    <3> QED BY <3>1 DEF MarcoDelAcceso, SinReloj
  <2>2. ASSUME NEW m, NEW i, Carga(p, n, m, i) PROVE MarcoDelAcceso' /\ (SinReloj => SinReloj')
    BY <2>2 DEF Carga, Cargada, MarcoDelAcceso, SinReloj, Presente
  <2> QED BY <1>2, <2>1, <2>2, AccesoCarga
<1>3. ASSUME NEW n \in Paginas, NEW m \in Marcos, AciertoFiel(p, n, m) PROVE MarcoDelAcceso' /\ (SinReloj => SinReloj')
  <2>1. cpu'.fase = "acceso" /\ cpu'.pid = p /\ cpu'.pag = n /\ cpu'.marco = m /\ pagina' = pagina
    BY <1>3 DEF AciertoFiel, AccesoPorTlb, CpuLibre
  <2> QED BY <1>3, <2>1 DEF AciertoFiel, MarcoDelAcceso, SinReloj, Presente
<1>4. CASE CargaPagina(p)
  <2>1. /\ cpu'.fase = "acceso" /\ cpu'.pid = cpu.pid /\ cpu'.pag = cpu.pag /\ cpu'.marco = cpu.marco
        /\ pagina' = pagina /\ cpu.fase = "carga"
    BY <1>4, DeCpu DEF CargaPagina, CpuTipo
  <2> QED BY <2>1 DEF MarcoDelAcceso, SinReloj, Presente
<1>5. ASSUME leer_posicion(p) \/ (\E v \in Valores : escribir_en_posicion(p, v)) \/ Responde(p)
      PROVE  MarcoDelAcceso' /\ (SinReloj => SinReloj')
  <2>1. cpu'.fase \in {"responde", "libre"}
    BY <1>5, DeCpu DEF leer_posicion, escribir_en_posicion, Responde, Prepara, CpuTipo, CpuLibre
  <2> QED BY <2>1 DEF MarcoDelAcceso, SinReloj
<1>6. ASSUME crear_proceso(p) \/ suspender_proceso(p) \/ SuspendePagina(p) \/ SuspendeTermina(p)
               \/ reanudar_proceso(p) \/ eliminar_proceso(p)
      PROVE  MarcoDelAcceso' /\ (SinReloj => SinReloj')
  <2>1. cpu' = cpu
    BY <1>6 DEF crear_proceso, suspender_proceso, SuspendePagina, SuspendeTermina, reanudar_proceso,
                eliminar_proceso
  <2>2. cpu.fase # "libre" => cpu.pid \in Procesos /\ (cpu.pid # p \/ pagina' = pagina)
    BY <1>6, DeCpu, NadieAssumption DEF HilosFieles, EnMemoria, Pide, crear_proceso, suspender_proceso,
       SuspendePagina, SuspendeTermina, reanudar_proceso, eliminar_proceso
  <2>3. \A q \in Procesos : \A k \in Paginas : q # p => pagina'[q][k] = pagina[q][k]
    <3>1. CASE crear_proceso(p) \/ eliminar_proceso(p)
      BY <3>1, PaginasNuevas
    <3>2. CASE SuspendePagina(p)
      <4>1. \A q \in Procesos : \A k \in Paginas : q # p \/ k # kernel.pag => pagina'[q][k] = pagina[q][k]
        BY <3>2, PaginaSuspendida
      <4> QED BY <4>1
    <3>3. CASE suspender_proceso(p) \/ SuspendeTermina(p) \/ reanudar_proceso(p)
      BY <3>3 DEF suspender_proceso, SuspendeTermina, reanudar_proceso
    <3> QED BY <1>6, <3>1, <3>2, <3>3
  <2>4. cpu.pid = p => cpu.fase = "libre" \/ pagina' = pagina
    BY <2>2
  <2>5. SinReloj => SinReloj'
    BY <2>1 DEF SinReloj
  <2>6. MarcoDelAcceso'
    <3> SUFFICES ASSUME cpu.fase \in {"acceso", "carga"}
                 PROVE  /\ pagina'[cpu.pid][cpu.pag].presencia = 1
                        /\ pagina'[cpu.pid][cpu.pag].marco = cpu.marco
      BY <2>1 DEF MarcoDelAcceso, Presente
    <3>1. pagina'[cpu.pid][cpu.pag] = pagina[cpu.pid][cpu.pag]
      BY <2>2, <2>3, DeCpu
    <3> QED BY <3>1 DEF MarcoDelAcceso, Presente
  <2> QED BY <2>5, <2>6
<1> QED BY <1>1, <1>2, <1>3, <1>4, <1>5, <1>6 DEF Movimiento

----------------------------------------------------------------------------
(* The values of the pages.                                                *)

\* What a page holds.
Valor(p, n) == IF EnRam(p, n) THEN ram[pagina[p][n].marco] ELSE swap[p][n]

\* Contenido, page by page.
LEMMA ContenidoPorValor ==
  /\ Contenido = [p \in Procesos |-> [n \in Paginas |-> Valor(p, n)]]
  /\ Contenido' = [p \in Procesos |-> [n \in Paginas |-> Valor(p, n)']]
BY DEF Contenido, Valor

\* Nothing moves between a frame and swap.
MismosDatos ==
  /\ MismasPaginas /\ UNCHANGED <<ram, swap>>
  /\ \A q \in Procesos : \A k \in Paginas : /\ pagina'[q][k].modificado = pagina[q][k].modificado
                                            /\ EnRam(q, k)' <=> EnRam(q, k)

\* The movements that copy nothing.
LEMMA DatosQuietos ==
  ASSUME Ordenada, NEW p \in Procesos,
         \/ \E n \in Paginas : AccesoPresente(p, n)
         \/ \E n \in Paginas, m \in Marcos : AciertoFiel(p, n, m)
         \/ leer_posicion(p) \/ Responde(p)
         \/ suspender_proceso(p) \/ SuspendeTermina(p) \/ reanudar_proceso(p)
  PROVE  MismosDatos
<1> USE DEF Ordenada, Fuerte
<1>1. MismasPaginas
  BY PaginasQuietas DEF AciertoFiel
<1>2. UNCHANGED <<ram, swap>>
  BY DEF AccesoPresente, AciertoFiel, AccesoPorTlb, leer_posicion, Responde, suspender_proceso,
         SuspendeTermina, reanudar_proceso
<1>3. (cpu.fase # "carga" /\ cpu'.fase # "carga") \/ cpu' = cpu
  <2>1. ASSUME NEW n \in Paginas, AccesoPresente(p, n) PROVE cpu.fase # "carga" /\ cpu'.fase # "carga"
    BY <2>1 DEF AccesoPresente, CpuLibre
  <2>2. ASSUME NEW n \in Paginas, NEW m \in Marcos, AciertoFiel(p, n, m)
        PROVE  cpu.fase # "carga" /\ cpu'.fase # "carga"
    BY <2>2 DEF AciertoFiel, AccesoPorTlb, CpuLibre
  <2>3. CASE leer_posicion(p)
    BY <2>3, DeCpu DEF leer_posicion, Prepara, CpuTipo
  <2>4. CASE Responde(p)
    BY <2>4 DEF Responde, CpuLibre
  <2>5. CASE suspender_proceso(p) \/ SuspendeTermina(p) \/ reanudar_proceso(p)
    BY <2>5 DEF suspender_proceso, SuspendeTermina, reanudar_proceso
  <2> QED BY <2>1, <2>2, <2>3, <2>4, <2>5
<1>4. \A q \in Procesos : \A k \in Paginas : EnRam(q, k)' <=> EnRam(q, k)
  BY <1>1, <1>3 DEF MismasPaginas, EnRam, Presente
<1>5. ASSUME NEW n \in Paginas, pagina' = [pagina EXCEPT ![p][n].uso = 1]
      PROVE  \A q \in Procesos : \A k \in Paginas : pagina'[q][k].modificado = pagina[q][k].modificado
  BY <1>5 DEF Tipos, EntradaTipo
<1>6. \A q \in Procesos : \A k \in Paginas : pagina'[q][k].modificado = pagina[q][k].modificado
  <2>1. pagina' = pagina \/ \E n \in Paginas : pagina' = [pagina EXCEPT ![p][n].uso = 1]
    BY DeCpu DEF AccesoPresente, AciertoFiel, AccesoPorTlb, leer_posicion, Responde, suspender_proceso,
                 SuspendeTermina, reanudar_proceso
  <2> QED BY <1>5, <2>1
<1> QED BY <1>1, <1>2, <1>4, <1>6 DEF MismosDatos

\* The parts of CopiaFiel: a page that is not modified is the same in swap,
Copia == \A p \in Procesos : \A n \in Paginas :
           EnRam(p, n) /\ pagina[p][n].modificado = 0 => swap[p][n] = ram[pagina[p][n].marco]

\* and a process that was not created has nothing in swap.
SwapIntacto == \A p \in Procesos : proceso[p] = "sin_crear" => swap[p] = SwapNuevo

\* CopiaFiel by its parts.
LEMMA PartesDeCopia == /\ CopiaFiel <=> Copia /\ SwapIntacto
                       /\ CopiaFiel' <=> Copia' /\ SwapIntacto'
BY DEF CopiaFiel, Copia, SwapIntacto

\* Every page holds what it held.
MismosValores == \A q \in Procesos : \A k \in Paginas : Valor(q, k)' = Valor(q, k)

\* They change the value of no page.
LEMMA DatosMismos == MismosDatos => MismosValores /\ (Copia => Copia')
BY DEF MismosDatos, MismosValores, Valor, Copia, MismasPaginas

\* A page that is given a frame still has its value in swap.
LEMMA DatosDeCarga ==
  ASSUME Ordenada, NEW p \in Procesos, NEW n \in Paginas, AccesoConLugar(p, n)
  PROVE  MismosValores /\ Copia'
<1> USE DEF Ordenada, Fuerte
<1>1. ram' = ram /\ swap' = swap /\ cpu.fase = "libre"
  BY DEF AccesoConLugar
<1>2. CASE /\ UNCHANGED <<pagina, admin, estado_de_marcos>>
           /\ cpu' = [CpuLibre EXCEPT !.fase = "sin_marcos", !.pid = p, !.pag = n]
  <2>1. cpu'.fase = "sin_marcos"
    BY <1>2 DEF CpuLibre
  <2>2. MismosDatos
    BY <1>1, <1>2, <2>1 DEF MismosDatos, MismasPaginas, EnRam, Presente
  <2> QED BY <2>2, DatosMismos, PartesDeCopia
<1>3. ASSUME NEW m, NEW i, Carga(p, n, m, i) PROVE MismosValores /\ Copia'
  <2>1. ~Presente(p, n) /\ ~EnRam(p, n)'
    BY <1>3 DEF Carga, EnRam
  <2>2. \A q \in Procesos : \A k \in Paginas : ~(q = p /\ k = n) =>
          pagina'[q][k] = pagina[q][k] /\ (EnRam(q, k)' <=> EnRam(q, k))
    BY <1>1, <1>3 DEF Carga, EnRam, Presente
  <2>3. MismosValores
    BY <1>1, <2>1, <2>2 DEF MismosValores, Valor, EnRam
  <2>4. Copia'
    BY <1>1, <2>1, <2>2, PartesDeCopia DEF Copia
  <2> QED BY <2>3, <2>4
<1> QED BY <1>2, <1>3, AccesoCarga

\* The copy from swap to the frame does not touch the frame of another page.
LEMMA DatosDeCargaPagina ==
  ASSUME Ordenada, NEW p \in Procesos, CargaPagina(p)
  PROVE  MismosValores /\ Copia'
<1> USE DEF Ordenada, Fuerte
<1>1. /\ cpu.fase = "carga" /\ cpu.pid = p /\ cpu'.fase = "acceso" /\ cpu'.pag = cpu.pag /\ cpu.pag \in Paginas
      /\ pagina' = pagina /\ swap' = swap /\ cpu.marco \in Marcos
      /\ ram' = [ram EXCEPT ![cpu.marco] = swap[p][cpu.pag]]
  BY DeCpu DEF CargaPagina, CpuTipo, MarcoPedido
<1> PICK n \in Paginas : n = cpu.pag
  BY <1>1
<1>2. Presente(p, n) /\ pagina[p][n].marco = cpu.marco
  BY <1>1 DEF MarcoDelAcceso
<1>3. ~EnRam(p, n) /\ EnRam(p, n)'
  BY <1>1, <1>2 DEF EnRam, Presente
<1>4. \A q \in Procesos : \A k \in Paginas : ~(q = p /\ k = n) =>
        /\ EnRam(q, k)' <=> EnRam(q, k)
        /\ EnRam(q, k) => pagina[q][k].marco # cpu.marco
  BY <1>1, <1>2 DEF EnRam, Presente, UnaPaginaPorMarco
<1>5. ram'[cpu.marco] = swap[p][n]
  BY <1>1 DEF Tipos
<1>6. \A m \in Marcos : m # cpu.marco => ram'[m] = ram[m]
  <2> SUFFICES ASSUME NEW m \in Marcos, m # cpu.marco PROVE ram'[m] = ram[m]
    OBVIOUS
  <2> QED BY <1>1 DEF Tipos
<1>7. \A q \in Procesos : \A k \in Paginas : EnRam(q, k) => pagina[q][k].marco \in Marcos
  BY DePagina DEF EnRam, CargadasDeResidentes
<1>8. MismosValores
  BY <1>1, <1>2, <1>3, <1>4, <1>5, <1>6, <1>7 DEF MismosValores, Valor
<1>9. Copia'
  BY <1>1, <1>2, <1>3, <1>4, <1>5, <1>6, <1>7, PartesDeCopia DEF Copia
<1> QED BY <1>8, <1>9

\* A write changes the page of the access, and that page is then modified.
LEMMA DatosDeEscritura ==
  ASSUME Ordenada, NEW p \in Procesos, NEW v \in Valores, escribir_en_posicion(p, v)
  PROVE  /\ \A q \in Procesos : \A k \in Paginas :
              Valor(q, k)' = IF q = p /\ k = cpu.pag THEN v ELSE Valor(q, k)
         /\ Copia'
<1> USE DEF Ordenada, Fuerte
<1> PICK n \in Paginas : n = cpu.pag
  BY DeCpu
<1>1. /\ cpu.fase = "acceso" /\ cpu.pid = p /\ cpu'.fase = "responde" /\ cpu.marco \in Marcos
      /\ swap' = swap /\ ram' = [ram EXCEPT ![cpu.marco] = v]
      /\ pagina' = [pagina EXCEPT ![p][n] = [pagina[p][n] EXCEPT !.uso = 1, !.modificado = 1]]
  <2>1. /\ cpu.fase = "acceso" /\ cpu.pid = p /\ cpu' = [cpu EXCEPT !.fase = "responde"]
        /\ swap' = swap /\ ram' = [ram EXCEPT ![cpu.marco] = v]
        /\ pagina' = [pagina EXCEPT ![p][cpu.pag].uso = 1, ![p][cpu.pag].modificado = 1]
    BY DEF escribir_en_posicion, Prepara
  <2>2. pagina' = [pagina EXCEPT ![p][n] = [pagina[p][n] EXCEPT !.uso = 1, !.modificado = 1]]
    BY <2>1
  <2>3. cpu'.fase = "responde" /\ cpu.marco \in Marcos
    BY <2>1, DeCpu DEF CpuTipo, MarcoPedido
  <2> QED BY <2>1, <2>2, <2>3
<1>2. Presente(p, n) /\ pagina[p][n].marco = cpu.marco
  BY <1>1 DEF MarcoDelAcceso
<1>3. /\ pagina'[p][n].marco = cpu.marco /\ pagina'[p][n].presencia = 1 /\ pagina'[p][n].modificado = 1
      /\ \A q \in Procesos : \A k \in Paginas : ~(q = p /\ k = n) => pagina'[q][k] = pagina[q][k]
  BY <1>1, <1>2 DEF Tipos, EntradaTipo, Presente
<1>4. ram'[cpu.marco] = v /\ \A m \in Marcos : m # cpu.marco => ram'[m] = ram[m]
  BY <1>1 DEF Tipos
<1>5. EnRam(p, n)' /\ \A q \in Procesos : \A k \in Paginas : EnRam(q, k)' <=> EnRam(q, k)
  BY <1>1, <1>2, <1>3 DEF EnRam, Presente
<1>6. \A q \in Procesos : \A k \in Paginas : EnRam(q, k) =>
        pagina[q][k].marco \in Marcos /\ (~(q = p /\ k = n) => pagina[q][k].marco # cpu.marco)
  <2>1. \A q \in Procesos : \A k \in Paginas : EnRam(q, k) => pagina[q][k].marco \in Marcos
    BY DePagina DEF EnRam, CargadasDeResidentes
  <2> QED BY <1>2, <2>1 DEF EnRam, UnaPaginaPorMarco
<1>7. \A q \in Procesos : \A k \in Paginas : Valor(q, k)' = IF q = p /\ k = n THEN v ELSE Valor(q, k)
  BY <1>1, <1>3, <1>4, <1>5, <1>6 DEF Valor
<1>8. Copia'
  BY <1>1, <1>3, <1>4, <1>5, <1>6, PartesDeCopia DEF Copia
<1> QED BY <1>7, <1>8

\* A page of a suspension goes to swap with its value.
LEMMA DatosDeSuspension ==
  ASSUME Ordenada, NEW p \in Procesos, SuspendePagina(p)
  PROVE  MismosValores /\ Copia'
<1> USE DEF Ordenada, Fuerte
<1> PICK n \in Paginas : n = kernel.pag
  BY PaginaSuspendida
<1>1. /\ cpu' = cpu /\ ram' = ram /\ kernel.pid = p
      /\ swap' = IF HayQueVolcar(pagina[p][n]) THEN [swap EXCEPT ![p][n] = ram[pagina[p][n].marco]] ELSE swap
  BY DEF SuspendePagina
<1>2. /\ pagina'[p][n] = [pagina[p][n] EXCEPT !.uso = 0, !.modificado = 0, !.presencia = 0]
      /\ \A q \in Procesos : \A k \in Paginas : q # p \/ k # n => pagina'[q][k] = pagina[q][k]
  BY PaginaSuspendida
<1>3. ~EnRam(p, n)'
  <2>1. pagina'[p][n].presencia = 0
    BY <1>2, DePagina DEF EntradaTipo
  <2> QED BY <2>1 DEF EnRam, Presente
<1>4. EnRam(p, n) <=> Presente(p, n)
  <2>1. cpu.fase # "libre" => cpu.pid # p
    BY <1>1 DEF HilosFieles, EnMemoria
  <2> QED BY <2>1 DEF EnRam
<1>5. \A q \in Procesos : \A k \in Paginas : q # p \/ k # n =>
        (EnRam(q, k)' <=> EnRam(q, k)) /\ swap'[q][k] = swap[q][k]
  BY <1>1, <1>2 DEF EnRam, Presente, Tipos
<1>6. swap'[p][n] = Valor(p, n)
  <2>1. CASE HayQueVolcar(pagina[p][n])
    BY <1>1, <1>4, <2>1 DEF HayQueVolcar, Valor, Presente, Tipos
  <2>2. CASE ~HayQueVolcar(pagina[p][n])
    <3>1. swap'[p][n] = swap[p][n]
      BY <1>1, <2>2
    <3>2. Presente(p, n) => pagina[p][n].modificado = 0
      BY <2>2, DePagina DEF HayQueVolcar, Presente, Bit
    <3> QED BY <1>4, <3>1, <3>2, PartesDeCopia DEF Valor, Copia
  <2> QED BY <2>1, <2>2
<1>7. MismosValores
  BY <1>1, <1>2, <1>3, <1>5, <1>6 DEF MismosValores, Valor
<1>8. Copia'
  BY <1>1, <1>2, <1>3, <1>5, PartesDeCopia DEF Copia
<1> QED BY <1>7, <1>8

\* A process that is created or ends has its pages in an empty swap file.
LEMMA DatosNuevos ==
  ASSUME Ordenada, NEW p \in Procesos, crear_proceso(p) \/ eliminar_proceso(p)
  PROVE  /\ \A q \in Procesos : \A k \in Paginas : Valor(q, k)' = IF q = p THEN Cero ELSE Valor(q, k)
         /\ Copia'
<1> USE DEF Ordenada, Fuerte
<1>1. /\ cpu' = cpu /\ ram' = ram
      /\ \A q \in Procesos : \A k \in Paginas : swap'[q][k] = IF q = p THEN Cero ELSE swap[q][k]
  BY DEF crear_proceso, eliminar_proceso, Tipos, SwapNuevo
<1>2. \A q \in Procesos : \A k \in Paginas : pagina'[q][k] = IF q = p THEN PaginaNueva ELSE pagina[q][k]
  BY PaginasNuevas
<1>3. \A q \in Procesos : \A k \in Paginas : EnRam(q, k)' <=> q # p /\ EnRam(q, k)
  BY <1>1, <1>2 DEF EnRam, Presente, PaginaNueva
<1>4. \A q \in Procesos : \A k \in Paginas : Valor(q, k)' = IF q = p THEN Cero ELSE Valor(q, k)
  BY <1>1, <1>2, <1>3 DEF Valor
<1>5. Copia'
  BY <1>1, <1>2, <1>3, PartesDeCopia DEF Copia
<1> QED BY <1>4, <1>5

\* Nothing is written in the swap of a process before it is created.
LEMMA SwapSeConserva ==
  ASSUME Ordenada, NEW p \in Procesos, Movimiento(p)
  PROVE  SwapIntacto'
<1> USE DEF Ordenada, Fuerte
<1>0. SwapIntacto
  BY PartesDeCopia
<1>1. CASE swap' = swap /\ \A q \in Procesos : proceso'[q] = "sin_crear" => proceso[q] = "sin_crear"
  BY <1>0, <1>1 DEF SwapIntacto
<1>2. CASE SuspendePagina(p)
  <2>1. proceso[p] = "residente" /\ proceso' = proceso
    BY <1>2 DEF SuspendePagina, HilosFieles
  <2>2. \A q \in Procesos : q # p => swap'[q] = swap[q]
    BY <1>2 DEF SuspendePagina, Tipos
  <2> QED BY <1>0, <2>1, <2>2 DEF SwapIntacto
<1>3. CASE crear_proceso(p) \/ eliminar_proceso(p)
  BY <1>0, <1>3 DEF SwapIntacto, crear_proceso, eliminar_proceso, Tipos
<1>4. CASE SuspendeTermina(p) \/ reanudar_proceso(p)
  <2>1. swap' = swap /\ \A q \in Procesos : proceso'[q] = "sin_crear" => proceso[q] = "sin_crear"
    BY <1>4 DEF SuspendeTermina, reanudar_proceso, Tipos
  <2> QED BY <1>1, <2>1
<1>5. CASE swap' = swap /\ proceso' = proceso
  BY <1>1, <1>5
<1> QED BY <1>2, <1>3, <1>4, <1>5 DEF Movimiento, AccesoPresente, AccesoConLugar, AciertoFiel, AccesoPorTlb,
             CargaPagina, leer_posicion, escribir_en_posicion, Responde, suspender_proceso

\* No write that is not yet in swap is forgotten.
LEMMA CopiaSeConserva ==
  ASSUME Ordenada, NEW p \in Procesos, Movimiento(p)
  PROVE  CopiaFiel'
<1>1. Copia
  BY PartesDeCopia DEF Ordenada
<1>2. Copia'
  BY <1>1, DatosQuietos, DatosMismos, DatosDeCarga, DatosDeCargaPagina, DatosDeEscritura, DatosDeSuspension,
     DatosNuevos DEF Movimiento
<1> QED BY <1>2, SwapSeConserva, PartesDeCopia

----------------------------------------------------------------------------
(* The invariant, and the refinement.                                      *)

\* Ordenada is inductive.
LEMMA OrdenadaSeConserva == SinReemplazo /\ Ordenada /\ PasoFiel => Ordenada'
<1> SUFFICES ASSUME SinReemplazo, Ordenada, PasoFiel PROVE Ordenada'
  OBVIOUS
<1>1. PICK p \in Procesos : Movimiento(p)
  BY NadaSeReemplaza
<1>2. Fuerte' /\ MarcosPropios'
  BY FielEsPaso, FuerteSeConserva, PropiosSeConservan DEF Ordenada
<1> QED BY <1>1, <1>2, MarcosPorMovimiento, AccesoSeConserva, CopiaSeConserva DEF Ordenada

\* It holds at the start.
LEMMA OrdenadaAlEmpezar == Init => Ordenada
<1> SUFFICES ASSUME Init PROVE Ordenada
  OBVIOUS
<1>1. cpu.fase = "libre" /\ \A p \in Procesos : \A n \in Paginas : pagina[p][n].presencia = 0
  BY DEF Init, CpuLibre, PaginaNueva
<1>2. \A p \in Procesos : \A i \in Lugares : admin[p].marcos[i] = SinMarco
  BY DEF Init, AdminNuevo
<1>3. \A p \in Procesos : swap[p] = SwapNuevo
  BY DEF Init
<1> QED BY <1>1, <1>2, <1>3, EstadoInicial
     DEF Ordenada, UnaPaginaPorMarco, ReemplazosLocales, LugaresConPagina, MarcoDelAcceso, CopiaFiel,
         SinReloj,
         Presente, EnRam

\* Stuttering.
LEMMA OrdenadaSinPaso == Ordenada /\ UNCHANGED vars => Ordenada'
<1> SUFFICES ASSUME Ordenada, UNCHANGED vars PROVE Ordenada'
  OBVIOUS
<1> USE DEF Ordenada, vars
<1>1. Fuerte' /\ MarcosPropios'
  BY SinPasoIgual
<1>2. UnaPaginaPorMarco' /\ ReemplazosLocales'
  BY DEF UnaPaginaPorMarco, ReemplazosLocales, Presente
<1>3. LugaresConPagina' /\ MarcoDelAcceso' /\ SinReloj'
  BY DEF LugaresConPagina, MarcoDelAcceso, SinReloj, Presente, EnMemoria
<1>4. CopiaFiel'
  BY DEF CopiaFiel, EnRam, Presente
<1> QED BY <1>1, <1>2, <1>3, <1>4

\* The steps of Memoria are such steps.
LEMMA NextEsFiel == Next => PasoFiel
BY DEF Next, PasoFiel

\* The invariant of Memoria while nothing is replaced.
LEMMA OrdenadaSiempre == ASSUME SinReemplazo PROVE Spec => []Ordenada
<1>1. Ordenada /\ [Next]_vars => Ordenada'
  BY NextEsFiel, OrdenadaSeConserva, OrdenadaSinPaso
<1> QED BY <1>1, OrdenadaAlEmpezar, PTL DEF Spec

\* From pages to Contenido.
LEMMA MismoContenido == MismosValores => Contenido' = Contenido
BY ContenidoPorValor DEF MismosValores

\* A movement is a step of MemoriaIdeal or does not show: an access answers what
\* the page holds, a write changes that page alone, and frames and swap never show.
LEMMA PasoIdeal ==
  ASSUME Ordenada, NEW p \in Procesos, Movimiento(p)
  PROVE  [Ideal!Next]_(Ideal!vars)
<1> USE DEF Ordenada, Fuerte
<1>0. Copia
  BY PartesDeCopia
<1>1. ASSUME Contenido' = Contenido, Terminados' = Terminados, respuesta' = respuesta
      PROVE  [Ideal!Next]_(Ideal!vars)
  BY <1>1 DEF Ideal!vars
<1>2. CASE /\ proceso' = proceso /\ respuesta' = respuesta /\ MismosValores
  <2>1. Terminados' = Terminados
    BY <1>2 DEF Terminados
  <2> QED BY <1>1, <1>2, <2>1, MismoContenido
<1>3. ASSUME NEW n \in Paginas, AccesoPresente(p, n) PROVE [Ideal!Next]_(Ideal!vars)
  <2>1. MismosValores
    BY <1>3, <1>0, DatosQuietos, DatosMismos
  <2> QED BY <1>2, <1>3, <2>1 DEF AccesoPresente
<1>4. ASSUME NEW n \in Paginas, AccesoConLugar(p, n) PROVE [Ideal!Next]_(Ideal!vars)
  <2>1. MismosValores
    BY <1>4, DatosDeCarga
  <2> QED BY <1>2, <1>4, <2>1 DEF AccesoConLugar
<1>5. ASSUME NEW n \in Paginas, NEW m \in Marcos, AciertoFiel(p, n, m) PROVE [Ideal!Next]_(Ideal!vars)
  <2>1. MismosValores
    BY <1>5, <1>0, DatosQuietos, DatosMismos
  <2> QED BY <1>2, <1>5, <2>1 DEF AciertoFiel, AccesoPorTlb
<1>6. CASE CargaPagina(p)
  <2>1. MismosValores
    BY <1>6, DatosDeCargaPagina
  <2> QED BY <1>2, <1>6, <2>1 DEF CargaPagina
<1>7. CASE leer_posicion(p)
  <2> PICK n \in Paginas : n = cpu.pag
    BY DeCpu
  <2>1. Contenido' = Contenido /\ Terminados' = Terminados
    <3>1. MismosValores
      BY <1>7, <1>0, DatosQuietos, DatosMismos
    <3> QED BY <1>7, <3>1, MismoContenido DEF leer_posicion, Terminados
  <2>2. /\ respuesta' = [op |-> "lectura", pid |-> p, pag |-> n, valor |-> ram[cpu.marco]]
        /\ cpu.fase = "acceso" /\ cpu.pid = p
    BY <1>7 DEF leer_posicion, Prepara
  <2>3. Contenido[p][n] = ram[cpu.marco]
    BY <2>2 DEF Contenido, EnRam, MarcoDelAcceso
  <2>4. respuesta = SinRespuesta /\ p \notin Terminados
    BY <2>2 DEF HilosFieles, EnMemoria, Terminados
  <2>5. Ideal!Lee(p, n)
    BY <2>1, <2>2, <2>3, <2>4 DEF Ideal!Lee, Ideal!Atiende
  <2> QED BY <2>5 DEF Ideal!Next
<1>8. ASSUME NEW v \in Valores, escribir_en_posicion(p, v) PROVE [Ideal!Next]_(Ideal!vars)
  <2> PICK n \in Paginas : n = cpu.pag
    BY DeCpu
  <2>1. Contenido' = [Contenido EXCEPT ![p][n] = v]
    <3>1. \A q \in Procesos : \A k \in Paginas : Valor(q, k)' = IF q = p /\ k = n THEN v ELSE Valor(q, k)
      BY <1>8, DatosDeEscritura
    <3> QED BY <3>1, ContenidoPorValor
  <2>2. /\ respuesta' = [op |-> "escritura", pid |-> p, pag |-> n, valor |-> v]
        /\ cpu.fase = "acceso" /\ cpu.pid = p /\ proceso' = proceso
    BY <1>8 DEF escribir_en_posicion, Prepara
  <2>3. respuesta = SinRespuesta /\ p \notin Terminados /\ Terminados' = Terminados
    BY <2>2 DEF HilosFieles, EnMemoria, Terminados
  <2>4. Ideal!Escribe(p, n, v)
    BY <2>1, <2>2, <2>3 DEF Ideal!Escribe, Ideal!Atiende
  <2> QED BY <2>4 DEF Ideal!Next
<1>9. CASE Responde(p)
  <2>1. Contenido' = Contenido /\ Terminados' = Terminados
    <3>1. MismosValores
      BY <1>9, <1>0, DatosQuietos, DatosMismos
    <3> QED BY <1>9, <3>1, MismoContenido DEF Responde, Terminados
  <2>2. respuesta # SinRespuesta /\ respuesta' = SinRespuesta
    BY <1>9 DEF Responde, HilosFieles
  <2> QED BY <2>1, <2>2 DEF Ideal!Next, Ideal!Responde
<1>10. CASE crear_proceso(p)
  <2>1. respuesta' = respuesta /\ Terminados' = Terminados
    BY <1>10 DEF crear_proceso, Terminados, Tipos
  <2>2. \A k \in Paginas : Valor(p, k) = Cero
    <3>1. proceso[p] = "sin_crear" /\ swap[p] = SwapNuevo
      BY <1>10 DEF crear_proceso, CopiaFiel
    <3> QED BY <3>1 DEF Valor, EnRam, CargadasDeResidentes, SwapNuevo
  <2>3. MismosValores
    BY <1>10, <2>2, DatosNuevos DEF MismosValores
  <2> QED BY <1>1, <2>1, <2>3, MismoContenido
<1>11. CASE suspender_proceso(p)
  <2>1. MismosValores
    BY <1>11, <1>0, DatosQuietos, DatosMismos
  <2> QED BY <1>2, <1>11, <2>1 DEF suspender_proceso
<1>12. CASE SuspendePagina(p)
  <2>1. MismosValores
    BY <1>12, DatosDeSuspension
  <2> QED BY <1>2, <1>12, <2>1 DEF SuspendePagina
<1>13. CASE SuspendeTermina(p) \/ reanudar_proceso(p)
  <2>1. MismosValores
    BY <1>13, <1>0, DatosQuietos, DatosMismos
  <2>2. respuesta' = respuesta /\ Terminados' = Terminados
    BY <1>13 DEF SuspendeTermina, reanudar_proceso, HilosFieles, Terminados, Tipos
  <2> QED BY <1>1, <2>1, <2>2, MismoContenido
<1>14. CASE eliminar_proceso(p)
  <2>1. Contenido' = [Contenido EXCEPT ![p] = [n \in Paginas |-> Cero]]
    <3>1. \A q \in Procesos : \A k \in Paginas : Valor(q, k)' = IF q = p THEN Cero ELSE Valor(q, k)
      BY <1>14, DatosNuevos
    <3> QED BY <3>1, ContenidoPorValor
  <2>2. p \notin Terminados /\ Terminados' = Terminados \cup {p} /\ respuesta' = respuesta
    BY <1>14 DEF eliminar_proceso, Terminados, Tipos
  <2>3. Ideal!Elimina(p)
    BY <2>1, <2>2 DEF Ideal!Elimina, Ideal!Vacias
  <2> QED BY <2>3 DEF Ideal!Next
<1> QED BY <1>3, <1>4, <1>5, <1>6, <1>7, <1>8, <1>9, <1>10, <1>11, <1>12, <1>13, <1>14 DEF Movimiento

\* Memory starts with every page empty.
LEMMA InicioIdeal == Init => Ideal!Init
<1> SUFFICES ASSUME Init PROVE Ideal!Init
  OBVIOUS
<1>1. \A p \in Procesos : \A n \in Paginas : Contenido[p][n] = Cero
  BY DEF Init, Contenido, EnRam, Presente, PaginaNueva, SwapNuevo
<1>2. Contenido = [p \in Procesos |-> [n \in Paginas |-> Cero]]
  BY <1>1 DEF Contenido
<1>3. Terminados = {} /\ respuesta = SinRespuesta
  BY DEF Init, Terminados
<1> QED BY <1>2, <1>3 DEF Ideal!Init, Ideal!Vacias

\* Without replacement a frame holds at most one loaded page, of one process, also
\* after suspensions, which leave the frame in the entries.
THEOREM PaginasPorMarco == ASSUME SinReemplazo PROVE Spec => []UnaPaginaPorMarco
<1>1. Ordenada => UnaPaginaPorMarco
  BY DEF Ordenada
<1> QED BY <1>1, OrdenadaSiempre, PTL

\* Without replacement a loaded page is in a frame its process was assigned in this
\* stay in memory.
THEOREM CadaUnoEnSusMarcos == ASSUME SinReemplazo PROVE Spec => []ReemplazosLocales
<1>1. Ordenada => ReemplazosLocales
  BY DEF Ordenada
<1> QED BY <1>1, OrdenadaSiempre, PTL

\* Without replacement, the rest of the inductive invariant: the threads, the frame
\* the CPU was given, and the copies in swap.
THEOREM MemoriaSiempreEnOrden == ASSUME SinReemplazo PROVE Spec => []MemoriaEnOrden
<1>1. Ordenada => MemoriaEnOrden
  BY DEF Ordenada, Fuerte, MemoriaEnOrden
<1> QED BY <1>1, OrdenadaSiempre, PTL

\* Without replacement, memory implements MemoriaIdeal: a read answers the last
\* write, through loads, suspensions page by page, resumptions and ends.
THEOREM ImplementaIdeal == ASSUME SinReemplazo PROVE Spec => CumpleIdeal
<1>1. Ordenada /\ [Next]_vars => [Ideal!Next]_(Ideal!vars)
  <2> SUFFICES ASSUME Ordenada, [Next]_vars PROVE [Ideal!Next]_(Ideal!vars)
    OBVIOUS
  <2>1. CASE Next
    <3>1. PICK p \in Procesos : Movimiento(p)
      BY <2>1, NextEsFiel, NadaSeReemplaza
    <3> QED BY <3>1, PasoIdeal
  <2>2. CASE UNCHANGED vars
    <3>1. Contenido' = Contenido /\ Terminados' = Terminados /\ respuesta' = respuesta
      BY <2>2 DEF vars, Contenido, EnRam, Presente, Terminados
    <3> QED BY <3>1 DEF Ideal!vars
  <2> QED BY <2>1, <2>2
<1> QED BY <1>1, InicioIdeal, OrdenadaSiempre, PTL DEF Spec, CumpleIdeal, Ideal!Spec
----------------------------------------------------------------------------
(* With replacement, while places and frames have the same numbers.        *)

\* The page that is asked for while a victim is looked for is not loaded.
PedidoAusente == cpu.fase = "reloj" => ~Presente(cpu.pid, cpu.pag)

\* The inductive invariant then. A frame may have two loaded pages: the victim is
\* the first page that names the frame, loaded or not.
ConReloj == /\ Fuerte /\ MarcosPropios /\ ReemplazosLocales /\ LugaresConPagina /\ MarcoDelAcceso
            /\ PedidoAusente /\ SiempreHayPagina

\* The pointer is at a frame a loaded page is in.
LEMMA ApuntadoConPagina ==
  ASSUME ConReloj, NEW p \in Procesos, cpu.fase = "reloj", cpu.pid = p
  PROVE  /\ MarcoApuntado(p) \in Marcos /\ PaginasCon(p, MarcoApuntado(p)) # {}
         /\ LugaresAlineados => MarcoApuntado(p) = admin[p].offset
<1> USE DEF ConReloj, Fuerte
<1>1. admin[p].offset \in Lugares /\ admin[p].marcos[admin[p].offset] \in Marcos
  BY DeAdmin DEF LugaresLlenos
<1>2. EnMemoria(p)
  BY DEF HilosFieles
<1>3. MarcoApuntado(p) \in Marcos
  BY <1>1 DEF MarcoApuntado
<1>4. \E n \in Paginas : Presente(p, n) /\ pagina[p][n].marco = admin[p].marcos[admin[p].offset]
  <2>1. admin[p].marcos[admin[p].offset] # SinMarco
    BY <1>1 DEF LugaresLlenos
  <2> QED BY <1>1, <1>2, <2>1 DEF LugaresConPagina
<1>5. PaginasCon(p, MarcoApuntado(p)) # {}
  BY <1>4 DEF PaginasCon, MarcoApuntado
<1>6. LugaresAlineados => MarcoApuntado(p) = admin[p].offset
  BY <1>1, Numeros DEF LugaresAlineados, MarcoApuntado, SinMarco
<1> QED BY <1>3, <1>5, <1>6

\* A replacement throws the first page out of the frame of the place, and gives the
\* page that was asked for that frame.
LEMMA EfectoDelReemplazo ==
  ASSUME ConReloj, LugaresAlineados, NEW p \in Procesos, RelojReemplaza(p)
  PROVE  /\ EnMemoria(p) /\ cpu.pid = p /\ cpu.pag \in Paginas /\ ~Presente(p, cpu.pag)
         /\ admin[p].offset \in Lugares /\ admin[p].marcos[admin[p].offset] = admin[p].offset
         /\ Presente(p, cpu.pag)' /\ pagina'[p][cpu.pag].marco = admin[p].offset
         /\ cpu'.fase = "carga" /\ cpu'.pid = p /\ cpu'.pag = cpu.pag /\ cpu'.marco = admin[p].offset
         /\ \A q \in Procesos : \A k \in Paginas :
              \/ pagina'[q][k] = pagina[q][k]
              \/ q = p /\ k = cpu.pag
              \/ q = p /\ pagina[p][k].marco = admin[p].offset /\ ~Presente(p, k)'
<1> USE DEF ConReloj, Fuerte
<1>1. cpu.fase = "reloj" /\ cpu.pid = p
  BY DEF RelojReemplaza
<1>2. EnMemoria(p) /\ ~Presente(p, cpu.pag)
  BY <1>1 DEF HilosFieles, PedidoAusente
<1>3. admin[p].offset \in Lugares /\ MarcoApuntado(p) = admin[p].offset /\ PaginasCon(p, MarcoApuntado(p)) # {}
  BY <1>1, DeAdmin, ApuntadoConPagina
<1> PICK v \in Paginas, n \in Paginas : v = PaginaApuntada(p) /\ n = cpu.pag
  BY PaginaReemplazada
<1> PICK o \in Lugares : o = admin[p].offset
  BY <1>3
<1>4. /\ pagina'[p][n] = Cargada(o)
      /\ v # n => pagina'[p][v] = [pagina[p][v] EXCEPT !.presencia = 0, !.modificado = 0]
      /\ \A q \in Procesos : \A k \in Paginas : q # p \/ k \notin {n, v} => pagina'[q][k] = pagina[q][k]
  BY PaginaReemplazada
<1>5. pagina[p][v].marco = o
  BY <1>3, ApuntadaEsPagina
<1>6. v # n => pagina'[p][v].presencia = 0
  BY <1>4, DePagina DEF EntradaTipo
<1>7. pagina'[p][n].presencia = 1 /\ pagina'[p][n].marco = o
  BY <1>4 DEF Cargada
<1>8. cpu'.fase = "carga" /\ cpu'.pid = p /\ cpu'.pag = n /\ cpu'.marco = o
  BY <1>1, DeCpu DEF RelojReemplaza, reemplazar_marco, CpuTipo
<1>9. \A q \in Procesos : \A k \in Paginas :
        \/ pagina'[q][k] = pagina[q][k]
        \/ q = p /\ k = n
        \/ q = p /\ pagina[p][k].marco = o /\ pagina'[p][k].presencia # 1
  <2> SUFFICES ASSUME NEW q \in Procesos, NEW k \in Paginas, pagina'[q][k] # pagina[q][k], ~(q = p /\ k = n)
               PROVE  q = p /\ pagina[p][k].marco = o /\ pagina'[p][k].presencia # 1
    OBVIOUS
  <2>1. q = p /\ k = v /\ v # n
    BY <1>4
  <2> QED BY <1>5, <1>6, <2>1
<1>10. admin[p].marcos[o] = o
  BY <1>3 DEF MarcoApuntado
<1> QED BY <1>1, <1>2, <1>7, <1>8, <1>9, <1>10 DEF Presente

\* It keeps loaded pages in the places of their process, and a loaded page in each.
LEMMA ReemplazoSeConserva ==
  ASSUME ConReloj, LugaresAlineados, NEW p \in Procesos, RelojReemplaza(p)
  PROVE  ReemplazosLocales' /\ LugaresConPagina' /\ MarcoDelAcceso'
<1> USE DEF ConReloj
<1> PICK n \in Paginas, o \in Lugares : n = cpu.pag /\ o = admin[p].offset
  BY EfectoDelReemplazo
<1>1. /\ ~Presente(p, n) /\ admin[p].marcos[o] = o
      /\ pagina'[p][n].presencia = 1 /\ pagina'[p][n].marco = o
      /\ \A q \in Procesos : \A k \in Paginas :
           \/ pagina'[q][k] = pagina[q][k]
           \/ q = p /\ k = n
           \/ q = p /\ pagina[p][k].marco = o /\ pagina'[q][k].presencia # 1
  BY EfectoDelReemplazo DEF Presente
<1>2. \A q \in Procesos : \A i \in Lugares : admin'[q].marcos[i] = admin[q].marcos[i]
  BY MarcosQuietos DEF MismosMarcos
<1>3. proceso' = proceso /\ kernel' = kernel
  BY DEF RelojReemplaza
<1>4. ReemplazosLocales'
  <2> SUFFICES ASSUME NEW q \in Procesos, NEW k \in Paginas, pagina'[q][k].presencia = 1
               PROVE  \E i \in Lugares : admin'[q].marcos[i] = pagina'[q][k].marco
    BY DEF ReemplazosLocales, Presente
  <2>1. CASE q = p /\ k = n
    BY <1>1, <1>2, <2>1
  <2>2. CASE ~(q = p /\ k = n)
    <3>1. pagina'[q][k] = pagina[q][k]
      BY <1>1, <2>2
    <3> QED BY <1>2, <3>1 DEF ReemplazosLocales, Presente
  <2> QED BY <2>1, <2>2
<1>5. LugaresConPagina'
  <2> SUFFICES ASSUME NEW q \in Procesos, EnMemoria(q)', NEW i \in Lugares, admin'[q].marcos[i] # SinMarco
               PROVE  \E k \in Paginas : pagina'[q][k].presencia = 1 /\ pagina'[q][k].marco = admin'[q].marcos[i]
    BY DEF LugaresConPagina, Presente
  <2>1. EnMemoria(q) /\ admin[q].marcos[i] # SinMarco
    BY <1>2, <1>3 DEF EnMemoria
  <2>2. PICK k \in Paginas : Presente(q, k) /\ pagina[q][k].marco = admin[q].marcos[i]
    BY <2>1 DEF LugaresConPagina
  <2>3. CASE pagina'[q][k] = pagina[q][k]
    BY <1>2, <2>2, <2>3 DEF Presente
  <2>4. CASE q = p /\ pagina[p][k].marco = o
    BY <1>1, <1>2, <2>2, <2>4
  <2>5. ~(q = p /\ k = n)
    BY <1>1, <2>2
  <2> QED BY <1>1, <2>3, <2>4, <2>5
<1>6. MarcoDelAcceso'
  <2>1. cpu'.fase = "carga" /\ cpu'.pid = p /\ cpu'.pag = n /\ cpu'.marco = o
    BY EfectoDelReemplazo
  <2> QED BY <1>1, <2>1 DEF MarcoDelAcceso, Presente
<1> QED BY <1>4, <1>5, <1>6

\* A movement that asks for a victim does so for a page that is not loaded, and
\* no other starts to look for one.
LEMMA ConRelojSeConserva == ConReloj /\ LugaresAlineados /\ PasoFiel => ConReloj'
<1> SUFFICES ASSUME ConReloj, LugaresAlineados, PasoFiel PROVE ConReloj'
  OBVIOUS
<1> USE DEF ConReloj
<1>1. Fuerte' /\ MarcosPropios'
  BY FielEsPaso, FuerteSeConserva, PropiosSeConservan
<1>2. PICK p \in Procesos : \/ Movimiento(p) \/ \E n \in Paginas : AccesoSinLugar(p, n)
                            \/ RelojSinPagina(p) \/ RelojAvanza(p) \/ RelojReemplaza(p)
  BY DEF PasoFiel, AtiendeCpu, AtiendeKernel, Movimiento
<1>3. CASE Movimiento(p)
  <2>1. ReemplazosLocales' /\ LugaresConPagina' /\ MarcoDelAcceso'
    BY <1>3, MarcosPorMovimiento, AccesoSeConserva
  <2>2. CASE cpu.fase = "reloj"
    <3>1. cpu' = cpu /\ Vive /\ cpu.pid # p
      <4>1. crear_proceso(p) \/ suspender_proceso(p) \/ SuspendePagina(p) \/ SuspendeTermina(p)
              \/ reanudar_proceso(p) \/ eliminar_proceso(p)
        BY <1>3, <2>2 DEF Movimiento, AccesoPresente, AccesoConLugar, AciertoFiel, AccesoPorTlb, CargaPagina,
                          leer_posicion, escribir_en_posicion, Responde
      <4>2. cpu' = cpu
        BY <4>1 DEF crear_proceso, suspender_proceso, SuspendePagina, SuspendeTermina, reanudar_proceso,
                    eliminar_proceso
      <4>3. cpu.pid # p
        BY <2>2, <4>1 DEF crear_proceso, suspender_proceso, SuspendePagina, SuspendeTermina, reanudar_proceso,
                    eliminar_proceso, Pide, Fuerte, HilosFieles, EnMemoria
      <4> QED BY <2>2, <4>2, <4>3 DEF Vive
    <3> PICK q \in Procesos, k \in Paginas : q = cpu.pid /\ k = cpu.pag
      BY <2>2, DeCpu DEF Fuerte, HilosFieles
    <3>2. ~Presente(q, k) /\ q # p
      BY <2>2, <3>1 DEF PedidoAusente
    <3>3. pagina'[q][k].presencia # 1
      <4>1. CASE Quieto
        BY <3>2, <4>1 DEF Quieto, MismasPaginas, Presente
      <4>2. CASE Cargado
        BY <2>2, <3>1, <4>2 DEF Cargado, Carga
      <4>3. CASE SeVacia(p) \/ \E n \in Paginas : SePierde(p, n)
        BY <3>2, <4>3 DEF SeVacia, SePierde, Presente
      <4> QED BY <1>3, <4>1, <4>2, <4>3, EfectoDelMovimiento
    <3>4. PedidoAusente' /\ SiempreHayPagina'
      BY <2>2, <3>1, <3>3 DEF PedidoAusente, SiempreHayPagina, Presente
    <3> QED BY <1>1, <2>1, <3>4
  <2>3. CASE cpu.fase # "reloj"
    <3>1. SinReloj
      BY <2>3 DEF SinReloj, SiempreHayPagina
    <3>2. SinReloj'
      BY <1>3, <3>1, AccesoSeConserva
    <3>3. PedidoAusente' /\ SiempreHayPagina'
      BY <3>2 DEF SinReloj, PedidoAusente, SiempreHayPagina
    <3> QED BY <1>1, <2>1, <3>3
  <2> QED BY <2>2, <2>3
<1>4. ASSUME NEW n \in Paginas, AccesoSinLugar(p, n) PROVE ConReloj'
  <2>1. /\ pagina' = pagina /\ admin' = admin /\ proceso' = proceso /\ kernel' = kernel
        /\ cpu'.fase = "reloj" /\ cpu'.pid = p /\ cpu'.pag = n /\ ~Presente(p, n)
    BY <1>4 DEF AccesoSinLugar, CpuLibre, Presente
  <2>2. ReemplazosLocales' /\ LugaresConPagina'
    BY <2>1 DEF ReemplazosLocales, LugaresConPagina, Presente, EnMemoria
  <2>3. MarcoDelAcceso' /\ PedidoAusente' /\ SiempreHayPagina'
    BY <2>1 DEF MarcoDelAcceso, PedidoAusente, SiempreHayPagina, Presente
  <2> QED BY <1>1, <2>2, <2>3
<1>5. ~RelojSinPagina(p)
  BY ApuntadoConPagina DEF RelojSinPagina
<1>6. CASE RelojAvanza(p)
  <2>1. MismasPaginas /\ MismosMarcos
    BY <1>6, PaginasQuietas, MarcosQuietos
  <2>2. /\ proceso' = proceso /\ kernel' = kernel
        /\ cpu'.fase = "reloj" /\ cpu'.pid = cpu.pid /\ cpu'.pag = cpu.pag /\ cpu.fase = "reloj" /\ cpu.pid = p
    BY <1>6, DeCpu DEF RelojAvanza, CpuTipo, Fuerte
  <2>3. ReemplazosLocales' /\ LugaresConPagina'
    BY <2>1, <2>2 DEF ReemplazosLocales, LugaresConPagina, Presente, EnMemoria, MismasPaginas, MismosMarcos
  <2>4. pagina'[cpu.pid][cpu.pag].presencia # 1
    BY <2>1, <2>2, DeCpu DEF PedidoAusente, Presente, MismasPaginas, Fuerte
  <2>5. MarcoDelAcceso' /\ PedidoAusente' /\ SiempreHayPagina'
    BY <2>2, <2>4 DEF MarcoDelAcceso, PedidoAusente, SiempreHayPagina, Presente
  <2> QED BY <1>1, <2>3, <2>5
<1>7. CASE RelojReemplaza(p)
  <2>1. cpu'.fase = "carga"
    BY <1>7, EfectoDelReemplazo
  <2>2. PedidoAusente' /\ SiempreHayPagina'
    BY <2>1 DEF PedidoAusente, SiempreHayPagina
  <2> QED BY <1>1, <1>7, <2>2, ReemplazoSeConserva
<1> QED BY <1>2, <1>3, <1>4, <1>5, <1>6, <1>7

\* It holds at the start.
LEMMA ConRelojAlEmpezar == Init => ConReloj
<1> SUFFICES ASSUME Init PROVE ConReloj
  OBVIOUS
<1>1. Ordenada
  BY OrdenadaAlEmpezar
<1> QED BY <1>1 DEF Ordenada, ConReloj, SinReloj, PedidoAusente, SiempreHayPagina

\* Stuttering.
LEMMA ConRelojSinPaso == ConReloj /\ UNCHANGED vars => ConReloj'
<1> SUFFICES ASSUME ConReloj, UNCHANGED vars PROVE ConReloj'
  OBVIOUS
<1> USE DEF ConReloj, vars
<1>1. Fuerte' /\ MarcosPropios'
  BY SinPasoIgual
<1>2. ReemplazosLocales' /\ LugaresConPagina'
  BY DEF ReemplazosLocales, LugaresConPagina, Presente, EnMemoria
<1>3. MarcoDelAcceso' /\ PedidoAusente' /\ SiempreHayPagina'
  BY DEF MarcoDelAcceso, PedidoAusente, SiempreHayPagina, Presente
<1> QED BY <1>1, <1>2, <1>3

\* Loaded pages in places of their process, and one in each place.
LEMMA LosMarcosEnUso == LugaresConPagina /\ ReemplazosLocales /\ CargadasDeResidentes => MarcosEnUso
<1> SUFFICES ASSUME LugaresConPagina, ReemplazosLocales, CargadasDeResidentes,
                    NEW p \in Procesos, EnMemoria(p)
             PROVE  {pagina[p][n].marco : n \in {k \in Paginas : Presente(p, k)}}
                      = {admin[p].marcos[i] : i \in Lugares} \ {SinMarco}
  BY DEF MarcosEnUso
<1>1. ASSUME NEW n \in Paginas, Presente(p, n)
      PROVE  pagina[p][n].marco \in {admin[p].marcos[i] : i \in Lugares} \ {SinMarco}
  BY <1>1 DEF ReemplazosLocales, CargadasDeResidentes
<1>2. ASSUME NEW i \in Lugares, admin[p].marcos[i] # SinMarco
      PROVE  \E n \in Paginas : Presente(p, n) /\ pagina[p][n].marco = admin[p].marcos[i]
  BY <1>2 DEF LugaresConPagina
<1> QED BY <1>1, <1>2

\* While the places have the frames of their numbers, a replacement stays in the
\* frames of its process and leaves none of them without a page, so that
\* retornar_pagina answers some page for the frame of the pointer, loaded or not.
\* memoria_ajena shows the other case.
THEOREM RelojUsaSusMarcos == Spec /\ []LugaresAlineados => []MarcosEnUso
<1>1. ConReloj /\ LugaresAlineados /\ [Next]_vars => ConReloj'
  BY NextEsFiel, ConRelojSeConserva, ConRelojSinPaso
<1>2. ConReloj => MarcosEnUso
  BY LosMarcosEnUso DEF ConReloj, Fuerte
<1> QED BY <1>1, <1>2, ConRelojAlEmpezar, PTL DEF Spec

----------------------------------------------------------------------------
(* When they have the same numbers: one process, that is not resumed.      *)

UnSoloProceso == MaxReanudaciones = 0 /\ \A p, q \in Procesos : p = q

\* The first k places of p have the first k frames, and no other frame is taken.
Llegados(p, k) ==
  /\ \A i \in Lugares : admin[p].marcos[i] = IF i < k THEN i ELSE SinMarco
  /\ \A m \in Marcos : estado_de_marcos[m] = 1 <=> m >= k
  /\ k < MarcosPorProceso => admin[p].offset = k

\* Frames are taken in the order of the places.
PorOrden ==
  \A p \in Procesos :
    /\ proceso[p] = "sin_crear" => \A m \in Marcos : estado_de_marcos[m] = 1
    /\ proceso[p] = "residente" => \E k \in 0 .. MarcosPorProceso : Llegados(p, k)
    /\ proceso[p] # "residente" => \A i \in Lugares : admin[p].marcos[i] = SinMarco

LEMMA PorOrdenAlinea == Tipos /\ PorOrden => LugaresAlineados
<1> SUFFICES ASSUME Tipos, PorOrden, NEW p \in Procesos, NEW i \in Lugares
             PROVE  admin[p].marcos[i] \in {i, SinMarco}
  BY DEF LugaresAlineados
<1> QED BY DEF PorOrden, Llegados

\* The place and the frame that are given next have the same number.
LEMMA SiguienteEnOrden ==
  ASSUME Fuerte, NEW p \in Procesos, NEW k \in 0 .. MarcosPorProceso, Llegados(p, k),
         primer_marco_libre_del_proceso(p) # SinMarco, primer_marco_libre # SinMarco
  PROVE  k < MarcosPorProceso /\ primer_marco_libre_del_proceso(p) = k /\ primer_marco_libre = k
<1> USE DEF Fuerte
<1>1. MarcosPorProceso \in Nat \ {0} /\ Lugares \subseteq Nat /\ Marcos \subseteq Nat /\ Lugares \subseteq Marcos
  BY MarcosAssumption, Numeros
<1>2. k < MarcosPorProceso
  <2>1. PICK i \in Lugares : admin[p].marcos[i] = SinMarco
    BY LugarLibre, TiposSonTipos
  <2>2. ~(i < k)
    BY <1>1, <2>1 DEF Llegados, SinMarco
  <2> QED BY <1>1, <2>2 DEF Lugares
<1>3. k \in Lugares /\ k \in Marcos
  BY <1>1, <1>2 DEF Lugares
<1>4. admin[p].offset = k /\ admin[p].marcos[k] = SinMarco
  BY <1>2, <1>3 DEF Llegados
<1>5. (k + 0) % MarcosPorProceso = k
  BY <1>1, <1>2
<1>6. 0 \in LugaresLibres(p) /\ LugaresLibres(p) \in SUBSET Nat
  BY <1>1, <1>4, <1>5, Numeros DEF LugaresLibres
<1>7. Minimo(LugaresLibres(p)) = 0
  BY <1>6, MinimoDe
<1>8. primer_marco_libre_del_proceso(p) = k
  BY <1>4, <1>5, <1>6, <1>7 DEF primer_marco_libre_del_proceso
<1>9. k \in MarcosLibres /\ \A m \in MarcosLibres : m \in Nat /\ m >= k
  BY <1>1, <1>3 DEF MarcosLibres, Llegados
<1>10. Minimo(MarcosLibres) = k
  <2>1. Minimo(MarcosLibres) \in MarcosLibres /\ Minimo(MarcosLibres) <= k
    BY <1>9, MinimoDe
  <2>2. Minimo(MarcosLibres) \in Nat /\ Minimo(MarcosLibres) >= k /\ k \in Nat
    BY <1>1, <1>9, <2>1
  <2> QED BY <2>1, <2>2
<1>11. primer_marco_libre = k
  BY <1>9, <1>10 DEF primer_marco_libre
<1> QED BY <1>2, <1>8, <1>11

LEMMA PorOrdenSeConserva == UnSoloProceso /\ Fuerte /\ PorOrden /\ Paso => PorOrden'
<1> SUFFICES ASSUME UnSoloProceso, Fuerte, PorOrden, Paso PROVE PorOrden'
  OBVIOUS
<1> USE DEF Fuerte
<1>1. PICK p \in Procesos : AtiendeCpu(p) \/ AtiendeKernel(p) \/ \E n \in Paginas, m \in Marcos : AccesoPorTlb(p, n, m)
  BY DEF Paso
<1>2. Procesos = {p}
  BY DEF UnSoloProceso
<1>3. ASSUME admin' = admin, estado_de_marcos' = estado_de_marcos, proceso' = proceso PROVE PorOrden'
  BY <1>3 DEF PorOrden, Llegados
<1>4. ASSUME NEW n \in Paginas, AccesoConLugar(p, n) PROVE PorOrden'
  <2>1. CASE primer_marco_libre = SinMarco
    BY <1>3, <1>4, <2>1 DEF AccesoConLugar
  <2>2. CASE primer_marco_libre # SinMarco
    <3>1. proceso[p] = "residente" /\ proceso' = proceso /\ primer_marco_libre_del_proceso(p) # SinMarco
      BY <1>4 DEF AccesoConLugar, EnMemoria
    <3>2. PICK k \in 0 .. MarcosPorProceso : Llegados(p, k)
      BY <3>1 DEF PorOrden
    <3>3. k < MarcosPorProceso /\ primer_marco_libre_del_proceso(p) = k /\ primer_marco_libre = k
      BY <2>2, <3>1, <3>2, SiguienteEnOrden
    <3>4. /\ admin' = [admin EXCEPT ![p].marcos[k] = k, ![p].offset = Siguiente(k)]
          /\ estado_de_marcos' = [estado_de_marcos EXCEPT ![k] = 0]
      BY <1>4, <2>2, <3>3 DEF AccesoConLugar
    <3>5. MarcosPorProceso \in Nat \ {0} /\ Lugares \subseteq Nat /\ Marcos \subseteq Nat
      BY MarcosAssumption, Numeros
    <3>6. \A i \in Lugares : admin'[p].marcos[i] = IF i = k THEN k ELSE admin[p].marcos[i]
      BY <3>4 DEF Tipos, AdminTipo
    <3>7. admin'[p].offset = Siguiente(k)
      BY <3>4 DEF Tipos, AdminTipo
    <3>8. \A m \in Marcos : estado_de_marcos'[m] = IF m = k THEN 0 ELSE estado_de_marcos[m]
      BY <3>4 DEF Tipos
    <3>9. k + 1 \in 0 .. MarcosPorProceso
      BY <3>3, <3>5
    <3>10. \A i \in Lugares : admin'[p].marcos[i] = IF i < k + 1 THEN i ELSE SinMarco
      BY <3>2, <3>5, <3>6 DEF Llegados
    <3>11. \A m \in Marcos : estado_de_marcos'[m] = 1 <=> m >= k + 1
      BY <3>2, <3>5, <3>8 DEF Llegados
    <3>12. k + 1 < MarcosPorProceso => admin'[p].offset = k + 1
      BY <3>5, <3>7, <3>9 DEF Siguiente
    <3>13. Llegados(p, k + 1)'
      BY <3>10, <3>11, <3>12 DEF Llegados
    <3> QED BY <1>2, <3>1, <3>9, <3>13 DEF PorOrden
  <2> QED BY <2>1, <2>2
<1>5. CASE RelojAvanza(p) \/ RelojReemplaza(p)
  <2>1. /\ cpu.fase = "reloj" /\ cpu.pid = p /\ estado_de_marcos' = estado_de_marcos /\ proceso' = proceso
        /\ MismosMarcos
    BY <1>5, MarcosQuietos DEF RelojAvanza, RelojReemplaza
  <2>2. proceso[p] = "residente" /\ \A i \in Lugares : admin[p].marcos[i] # SinMarco
    BY <2>1 DEF HilosFieles, EnMemoria, LugaresLlenos
  <2>3. PICK k \in 0 .. MarcosPorProceso : Llegados(p, k)
    BY <2>2 DEF PorOrden
  <2>4. ~(k < MarcosPorProceso)
    <3> SUFFICES ASSUME k < MarcosPorProceso PROVE FALSE
      OBVIOUS
    <3>1. k \in Lugares /\ ~(k < k)
      BY MarcosAssumption DEF Lugares
    <3> QED BY <2>2, <2>3, <3>1 DEF Llegados
  <2>5. Llegados(p, k)'
    BY <2>1, <2>3, <2>4 DEF Llegados, MismosMarcos
  <2> QED BY <1>2, <2>1, <2>2, <2>5 DEF PorOrden
<1>6. CASE crear_proceso(p)
  <2>1. /\ proceso[p] = "sin_crear" /\ estado_de_marcos' = estado_de_marcos /\ proceso'[p] = "residente"
        /\ admin'[p] = AdminNuevo
    BY <1>6 DEF crear_proceso, Tipos
  <2>2. \A m \in Marcos : estado_de_marcos'[m] = 1 /\ m >= 0
    BY <2>1, Numeros DEF PorOrden
  <2>3. \A i \in Lugares : admin'[p].marcos[i] = SinMarco /\ ~(i < 0)
    <3>1. \A i \in Lugares : i \in Nat
      BY Numeros
    <3>2. \A i \in Lugares : admin'[p].marcos[i] = SinMarco
      BY <2>1 DEF AdminNuevo
    <3> QED BY <3>1, <3>2
  <2>4. admin'[p].offset = 0 /\ 0 \in 0 .. MarcosPorProceso
    BY <2>1, MarcosAssumption DEF AdminNuevo
  <2>5. Llegados(p, 0)'
    BY <2>2, <2>3, <2>4 DEF Llegados
  <2> QED BY <1>2, <2>1, <2>4, <2>5 DEF PorOrden
<1>7. CASE SuspendeTermina(p) \/ eliminar_proceso(p)
  <2>1. proceso'[p] \in {"suspendido", "terminado"} /\ AdminVaciado(p)
    BY <1>7, MarcosVaciados DEF SuspendeTermina, eliminar_proceso, Tipos
  <2> QED BY <1>2, <2>1 DEF PorOrden, AdminVaciado
<1>8. ~reanudar_proceso(p)
  BY DEF reanudar_proceso, UnSoloProceso, Tipos
<1> QED
  <2>1. CASE AtiendeCpu(p)
    BY <1>3, <1>4, <1>5, <2>1 DEF AtiendeCpu, AccesoPresente, AccesoSinLugar, RelojSinPagina, CargaPagina,
                                  leer_posicion, escribir_en_posicion, Responde
  <2>2. CASE AtiendeKernel(p)
    BY <1>3, <1>6, <1>7, <1>8, <2>2 DEF AtiendeKernel, suspender_proceso, SuspendePagina
  <2>3. CASE \E n \in Paginas, m \in Marcos : AccesoPorTlb(p, n, m)
    BY <1>3, <2>3 DEF AccesoPorTlb
  <2> QED BY <1>1, <2>1, <2>2, <2>3

\* It holds at the start, and through stuttering.
LEMMA PorOrdenAlEmpezar == Init => PorOrden
<1> SUFFICES ASSUME Init, NEW p \in Procesos
             PROVE  /\ proceso[p] = "sin_crear" /\ \A m \in Marcos : estado_de_marcos[m] = 1
                    /\ \A i \in Lugares : admin[p].marcos[i] = SinMarco
  BY DEF PorOrden
<1> QED BY DEF Init, AdminNuevo

LEMMA PorOrdenSinPaso == PorOrden /\ UNCHANGED vars => PorOrden'
BY DEF PorOrden, Llegados, vars

\* With one process that is not resumed, places and frames have the same numbers,
\* and what RelojUsaSusMarcos asks for is so.
THEOREM UnoSoloAlinea == ASSUME UnSoloProceso PROVE Spec => []LugaresAlineados
<1>1. Fuerte /\ PorOrden /\ [Next]_vars => PorOrden'
  BY EsPaso, PorOrdenSeConserva, PorOrdenSinPaso
<1>2. Fuerte /\ PorOrden => LugaresAlineados
  BY PorOrdenAlinea DEF Fuerte
<1>3. Fuerte /\ MarcosPropios => Fuerte
  OBVIOUS
<1> QED BY <1>1, <1>2, <1>3, PorOrdenAlEmpezar, FuerteSiempre, PTL DEF Spec
=============================================================================
