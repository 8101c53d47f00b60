------------------------------ MODULE MmuPruebas ------------------------------
(***************************************************************************)
(* Proofs about Mmu: the CPU, its TLB and both threads of memory together, *)
(* for any number of processes, pages, frames, entries of the TLB and      *)
(* addresses. Memory sees of the composition either steps of its own or    *)
(* accesses with a frame of the TLB, so what MemoriaPruebas shows of the   *)
(* steps Paso and PasoFiel holds here too; what is new is what the TLB     *)
(* says and the order of LRU.                                              *)
(***************************************************************************)
EXTENDS Mmu, MemoriaPruebas

----------------------------------------------------------------------------
(* The operators of the code.                                              *)

\* Division with remainder.
LEMMA CocienteYResto ==
  ASSUME NEW a \in Nat, NEW b \in Nat \ {0}
  PROVE  (a \div b) * b + (a % b) = a
OBVIOUS

\* numero_pagina gives a page of the process, and the two indices it is split
\* into name that page in the tables.
LEMMA TraduccionDePagina ==
  ASSUME NEW d \in Direcciones
  PROVE  numero_pagina(d) \in Paginas /\ PaginaTraducida(numero_pagina(d)) = numero_pagina(d)
<1> DEFINE n == numero_pagina(d)
<1>1. d \in Nat /\ TamPagina \in Nat \ {0} /\ EntradasPorTabla \in Nat \ {0} /\ CantPaginas \in Nat \ {0}
  BY DireccionesAssumption, PaginasAssumption DEF Direcciones
<1>2. d < CantPaginas * TamPagina
  BY <1>1 DEF Direcciones
<1>3. n \in Nat /\ n * TamPagina <= d
  BY <1>1 DEF numero_pagina
<1>4. n < CantPaginas
  <2> SUFFICES ASSUME CantPaginas <= n PROVE FALSE
    BY <1>1, <1>3
  <2>1. CantPaginas * TamPagina <= n * TamPagina
    BY <1>1, <1>3
  <2> QED BY <1>1, <1>2, <1>3, <2>1
<1>5. n \in Paginas
  BY <1>1, <1>3, <1>4 DEF Paginas
<1> HIDE DEF n
<1>6. (n \div EntradasPorTabla) * EntradasPorTabla + (n % EntradasPorTabla) = n
  BY <1>1, <1>3, CocienteYResto
<1>7. PaginaTraducida(n) = n
  BY <1>6 DEF PaginaTraducida, PaginaEnTablas, entrada_tabla_1er_nivel, entrada_tabla_2do_nivel
<1> QED BY <1>5, <1>7 DEF n

\* Memory finds in a physical address the frame it was made from.
LEMMA MarcoDeDireccion ==
  ASSUME NEW d \in Direcciones, NEW m \in Marcos
  PROVE  MarcoDe(direccion_fisica(m, d)) = m
<1> DEFINE r == d - (d \div TamPagina) * TamPagina
<1>1. d \in Nat /\ TamPagina \in Nat \ {0} /\ m \in Nat
  BY DireccionesAssumption, Numeros DEF Direcciones
<1>2. r \in 0 .. TamPagina - 1
  BY <1>1
<1>3. (m * TamPagina + r) \div TamPagina = m
  <2> HIDE DEF r
  <2>1. m * TamPagina \in Nat
    BY <1>1
  <2> QED BY <1>1, <1>2, <2>1
<1> QED BY <1>3 DEF MarcoDe, direccion_fisica, desplazamiento_memoria, numero_pagina

\* What an entry is before its timestamp becomes a rank.
EntradaCruda == [pagina : Paginas, marco : Marcos, ts : 0 .. Ahora]

\* EnRangos changes timestamps only, and these stay within the size of the TLB.
LEMMA RangosDeTlb ==
  ASSUME NEW t \in Seq(EntradaCruda), Len(t) <= CantEntradasTlb
  PROVE  /\ EnRangos(t) \in Seq(Entradas) /\ Len(EnRangos(t)) = Len(t)
         /\ DOMAIN EnRangos(t) = DOMAIN t
         /\ \A i \in DOMAIN t : EnRangos(t)[i].pagina = t[i].pagina /\ EnRangos(t)[i].marco = t[i].marco
<1> DEFINE D == DOMAIN t
           K(i) == {k \in D : t[k].ts <= t[i].ts}
           R(i) == {t[j].ts : j \in K(i)}
           e(i) == [t[i] EXCEPT !.ts = IF algoritmo_tlb = "FIFO" THEN 0 ELSE Cardinality(R(i))]
<1>1. D = 1 .. Len(t) /\ Len(t) \in Nat /\ \A i \in D : t[i] \in EntradaCruda
  OBVIOUS
<1>2. IsFiniteSet(D) /\ Cardinality(D) = Len(t)
  BY <1>1, FS_Interval
<1>3. \A i \in D : Cardinality(R(i)) \in 0 .. CantEntradasTlb
  <2> SUFFICES ASSUME NEW i \in D PROVE Cardinality(R(i)) \in 0 .. CantEntradasTlb
    OBVIOUS
  <2>1. IsFiniteSet(K(i)) /\ Cardinality(K(i)) <= Len(t)
    BY <1>2, FS_Subset
  <2> DEFINE f == [j \in K(i) |-> t[j].ts]
  <2>2. f \in Surjection(K(i), R(i))
    BY DEF Surjection
  <2>3. IsFiniteSet(R(i)) /\ Cardinality(R(i)) <= Cardinality(K(i))
    BY <2>1, <2>2, FS_Surjection
  <2>4. Cardinality(R(i)) \in Nat /\ Cardinality(K(i)) \in Nat
    BY <2>1, <2>3, FS_CardinalityType
  <2> QED BY <1>1, <2>1, <2>3, <2>4, TlbAssumption
<1> HIDE DEF R
<1>4. \A i \in D : e(i) \in Entradas /\ e(i).pagina = t[i].pagina /\ e(i).marco = t[i].marco
  <2> SUFFICES ASSUME NEW i \in D
               PROVE  e(i) \in Entradas /\ e(i).pagina = t[i].pagina /\ e(i).marco = t[i].marco
    OBVIOUS
  <2>1. PICK c \in 0 .. CantEntradasTlb : e(i) = [t[i] EXCEPT !.ts = c]
    <3>1. CASE algoritmo_tlb = "FIFO"
      <4>1. 0 \in 0 .. CantEntradasTlb /\ e(i) = [t[i] EXCEPT !.ts = 0]
        BY <3>1, TlbAssumption
      <4> QED BY <4>1
    <3>2. CASE algoritmo_tlb # "FIFO"
      <4>1. e(i) = [t[i] EXCEPT !.ts = Cardinality(R(i))]
        BY <3>2
      <4> QED BY <1>3, <4>1
    <3> QED BY <3>1, <3>2
  <2>2. t[i] \in EntradaCruda
    BY <1>1
  <2> QED BY <2>1, <2>2 DEF Entradas, EntradaCruda
<1>5. EnRangos(t) = [i \in D |-> e(i)]
  BY DEF EnRangos, R
<1> HIDE DEF e
<1>6. EnRangos(t) = [i \in 1 .. Len(t) |-> e(i)]
  BY <1>1, <1>5
<1>7. EnRangos(t) \in Seq(Entradas) /\ Len(EnRangos(t)) = Len(t) /\ DOMAIN EnRangos(t) = D
  BY <1>1, <1>4, <1>6
<1> QED BY <1>4, <1>5, <1>7

\* The types of the TLB.
TlbTipo == tlb \in Seq(Entradas) /\ Len(tlb) <= CantEntradasTlb

\* What they say of an entry.
LEMMA DeTlb ==
  ASSUME TlbTipo
  PROVE  /\ Len(tlb) \in Nat /\ DOMAIN tlb = 1 .. Len(tlb)
         /\ \A i \in DOMAIN tlb : /\ tlb[i] \in Entradas /\ tlb[i] \in EntradaCruda
                                  /\ tlb[i].pagina \in Paginas /\ tlb[i].marco \in Marcos
                                  /\ tlb[i].ts \in 0 .. CantEntradasTlb
<1>1. Len(tlb) \in Nat /\ DOMAIN tlb = 1 .. Len(tlb) /\ \A i \in DOMAIN tlb : tlb[i] \in Entradas
  BY DEF TlbTipo
<1>2. \A e \in Entradas : /\ e \in EntradaCruda /\ e.pagina \in Paginas
                          /\ e.marco \in Marcos /\ e.ts \in 0 .. CantEntradasTlb
  BY TlbAssumption DEF Entradas, EntradaCruda, Ahora
<1> QED BY <1>1, <1>2

\* The oldest of the first k entries is the first with the least timestamp.
LEMMA DeMasAntigua ==
  ASSUME TlbTipo, NEW k \in 1 .. Len(tlb)
  PROVE  /\ MasAntigua(k) \in 1 .. k
         /\ \A j \in 1 .. k : \/ tlb[MasAntigua(k)].ts < tlb[j].ts
                              \/ tlb[MasAntigua(k)].ts = tlb[j].ts /\ MasAntigua(k) <= j
<1> DEFINE S == {tlb[i].ts : i \in 1 .. k}
           I == {i \in 1 .. k : tlb[i].ts = Minimo(S)}
<1>1. \A i \in 1 .. k : tlb[i].ts \in Nat /\ i \in Nat
  BY DeTlb
<1>2. S \in SUBSET Nat /\ S # {}
  <2>1. 1 \in 1 .. k
    BY DeTlb
  <2> QED BY <1>1, <2>1
<1>3. Minimo(S) \in S /\ \A y \in S : Minimo(S) <= y
  BY <1>2, MinimoDe
<1>4. I \in SUBSET Nat /\ I # {}
  BY <1>1, <1>3
<1>5. Minimo(I) \in I /\ \A y \in I : Minimo(I) <= y
  BY <1>4, MinimoDe
<1> DEFINE x == Minimo(I)
<1>6. x \in 1 .. k /\ \A j \in 1 .. k : tlb[x].ts < tlb[j].ts \/ (tlb[x].ts = tlb[j].ts /\ x <= j)
  <2>1. x \in 1 .. k /\ tlb[x].ts = Minimo(S)
    BY <1>5
  <2> HIDE DEF x
  <2> SUFFICES ASSUME NEW j \in 1 .. k PROVE tlb[x].ts < tlb[j].ts \/ (tlb[x].ts = tlb[j].ts /\ x <= j)
    BY <2>1
  <2>2. tlb[x].ts <= tlb[j].ts
    BY <1>3, <2>1
  <2>3. tlb[x].ts = tlb[j].ts => x <= j
    BY <1>5, <2>1 DEF x
  <2> QED BY <1>1, <2>1, <2>2, <2>3
<1> HIDE DEF x
<1>7. \E i \in 1 .. k : \A j \in 1 .. k : tlb[i].ts < tlb[j].ts \/ (tlb[i].ts = tlb[j].ts /\ i <= j)
  BY <1>6
<1> QED BY <1>7 DEF MasAntigua

\* What a TLB says: pages and their frames.
Pares(t) == {<<t[i].pagina, t[i].marco>> : i \in DOMAIN t}

\* A queue of entries, before their timestamps become ranks.
ColaCruda(t) == t \in Seq(EntradaCruda) /\ Len(t) <= CantEntradasTlb

\* A queue of entries, as the TLB keeps it.
Cola(t) == t \in Seq(Entradas) /\ Len(t) <= CantEntradasTlb

\* Ranking the timestamps changes nothing else.
LEMMA RangosDeCola ==
  ASSUME NEW t, ColaCruda(t)
  PROVE  Cola(EnRangos(t)) /\ Pares(EnRangos(t)) = Pares(t)
BY RangosDeTlb DEF ColaCruda, Cola, Pares

\* A hit keeps the entries.
LEMMA DeReferenciada ==
  ASSUME TlbTipo, NEW n \in Paginas
  PROVE  Cola(Referenciada(n)) /\ Pares(Referenciada(n)) = Pares(tlb)
<1> DEFINE e(i) == IF i \in EntradasDe(n) THEN [tlb[i] EXCEPT !.ts = Ahora] ELSE tlb[i]
           t == [i \in DOMAIN tlb |-> e(i)]
<1>1. Ahora \in 0 .. Ahora
  BY TlbAssumption DEF Ahora
<1>2. \A i \in DOMAIN tlb : /\ e(i) \in EntradaCruda
                            /\ e(i).pagina = tlb[i].pagina /\ e(i).marco = tlb[i].marco
  BY <1>1, DeTlb DEF EntradaCruda
<1> HIDE DEF e
<1>3. t = [i \in 1 .. Len(tlb) |-> e(i)] /\ Len(tlb) \in Nat
  BY DeTlb
<1>4. ColaCruda(t) /\ DOMAIN t = DOMAIN tlb
  BY <1>2, <1>3, DeTlb DEF ColaCruda, TlbTipo
<1>5. Pares(t) = Pares(tlb)
  BY <1>2 DEF Pares
<1>6. Referenciada(n) = EnRangos(t)
  BY DEF Referenciada, e
<1> QED BY <1>4, <1>5, <1>6, RangosDeCola

\* The queue LRU leaves has one entry less of the old ones, and the new one.
LEMMA DeLru ==
  ASSUME TlbTipo, Len(tlb) > 0, NEW e \in EntradaCruda
  PROVE  /\ ColaCruda(algoritmo_LRU(e))
         /\ Pares(algoritmo_LRU(e)) \subseteq Pares(tlb) \cup {<<e.pagina, e.marco>>}
<1> DEFINE L == Len(tlb)
           s == [k \in 1 .. L - 1 |-> IF MasAntigua(k + 1) = k + 1 THEN tlb[MasAntigua(k)] ELSE tlb[k + 1]]
<1>1. L \in Nat \ {0} /\ DOMAIN tlb = 1 .. L
  BY DeTlb
<1>2. \A k \in 1 .. L - 1 : \E i \in DOMAIN tlb : s[k] = tlb[i]
  <2> SUFFICES ASSUME NEW k \in 1 .. L - 1 PROVE \E i \in DOMAIN tlb : s[k] = tlb[i]
    OBVIOUS
  <2>1. k \in 1 .. L /\ k + 1 \in 1 .. L
    BY <1>1
  <2>2. MasAntigua(k) \in 1 .. k
    BY <2>1, DeMasAntigua
  <2>3. MasAntigua(k) \in DOMAIN tlb
    BY <1>1, <2>1, <2>2
  <2> QED BY <1>1, <2>1, <2>3
<1>3. s = [k \in 1 .. L - 1 |-> s[k]]
  OBVIOUS
<1> HIDE DEF s
<1>4. \A k \in 1 .. L - 1 : s[k] \in EntradaCruda
  BY <1>2, DeTlb
<1>5. s \in Seq(EntradaCruda) /\ Len(s) = L - 1
  BY <1>1, <1>3, <1>4
<1>6. algoritmo_LRU(e) = Append(s, e)
  BY DEF algoritmo_LRU, s
<1>7. ColaCruda(Append(s, e))
  BY <1>1, <1>5 DEF ColaCruda, TlbTipo
<1>8. Pares(Append(s, e)) \subseteq Pares(tlb) \cup {<<e.pagina, e.marco>>}
  <2> SUFFICES ASSUME NEW i \in DOMAIN Append(s, e)
               PROVE  <<Append(s, e)[i].pagina, Append(s, e)[i].marco>>
                        \in Pares(tlb) \cup {<<e.pagina, e.marco>>}
    BY DEF Pares
  <2>1. DOMAIN Append(s, e) = 1 .. L
    <3>1. Append(s, e) \in Seq(EntradaCruda) /\ Len(Append(s, e)) = L
      <4>1. Append(s, e) \in Seq(EntradaCruda) /\ Len(Append(s, e)) = Len(s) + 1
        BY <1>5
      <4> QED BY <1>1, <1>5, <4>1
    <3> QED BY <3>1
  <2>2. CASE i = L
    BY <1>1, <1>5, <2>2
  <2>3. CASE i # L
    <3>1. i \in 1 .. L - 1
      <4>1. i \in 1 .. L
        BY <2>1
      <4> QED BY <1>1, <2>3, <4>1
    <3>2. Append(s, e)[i] = s[i]
      BY <1>1, <1>5, <3>1
    <3> QED BY <1>2, <3>1, <3>2 DEF Pares
  <2> QED BY <2>2, <2>3
<1> QED BY <1>6, <1>7, <1>8

\* Storing a page adds its entry, and at most takes others out.
LEMMA DeGuardar ==
  ASSUME TlbTipo, NEW n \in Paginas, NEW m \in Marcos
  PROVE  Cola(guardar_en_TLB(n, m)) /\ Pares(guardar_en_TLB(n, m)) \subseteq Pares(tlb) \cup {<<n, m>>}
<1> DEFINE nueva == [pagina |-> n, marco |-> m, ts |-> Ahora]
           t == IF Len(tlb) < CantEntradasTlb THEN Append(tlb, nueva)
                ELSE IF algoritmo_tlb = "FIFO" THEN Append(Tail(tlb), nueva)
                ELSE algoritmo_LRU(nueva)
<1>1. nueva \in EntradaCruda /\ nueva.pagina = n /\ nueva.marco = m
  BY TlbAssumption DEF EntradaCruda, Ahora
<1>2. tlb \in Seq(EntradaCruda) /\ Len(tlb) \in Nat /\ Len(tlb) <= CantEntradasTlb
  <2>1. tlb = [i \in 1 .. Len(tlb) |-> tlb[i]]
    BY DEF TlbTipo
  <2> QED BY <2>1, DeTlb DEF TlbTipo
<1>3. guardar_en_TLB(n, m) = EnRangos(t)
  BY DEF guardar_en_TLB
<1> HIDE DEF nueva
<1>4. ColaCruda(t) /\ Pares(t) \subseteq Pares(tlb) \cup {<<n, m>>}
  <2>1. CASE Len(tlb) < CantEntradasTlb
    <3>1. t = Append(tlb, nueva)
      BY <2>1
    <3> QED BY <1>1, <1>2, <2>1, <3>1, TlbAssumption DEF ColaCruda, Pares
  <2>2. CASE ~(Len(tlb) < CantEntradasTlb) /\ algoritmo_tlb = "FIFO"
    <3>1. t = Append(Tail(tlb), nueva)
      BY <2>2
    <3>2. Len(tlb) > 0
      BY <1>2, <2>2, TlbAssumption
    <3> QED BY <1>1, <1>2, <3>1, <3>2, TlbAssumption DEF ColaCruda, Pares
  <2>3. CASE ~(Len(tlb) < CantEntradasTlb) /\ algoritmo_tlb # "FIFO"
    <3>1. t = algoritmo_LRU(nueva)
      BY <2>3
    <3>2. Len(tlb) > 0
      BY <1>2, <2>3, TlbAssumption
    <3> QED BY <1>1, <3>1, <3>2, DeLru
  <2> QED BY <2>1, <2>2, <2>3
<1> HIDE DEF t
<1> QED BY <1>3, <1>4, RangosDeCola

\* An update gives the entries of one frame to a page, and keeps the others.
LEMMA DeActualizar ==
  ASSUME TlbTipo, NEW n \in Paginas, NEW m \in Marcos
  PROVE  /\ Cola(actualizar_TLB(n, m))
         /\ \A x \in Pares(actualizar_TLB(n, m)) : x = <<n, m>> \/ (x \in Pares(tlb) /\ x[2] # m)
<1> DEFINE e(i) == IF tlb[i].marco = m THEN [pagina |-> n, marco |-> m, ts |-> Ahora] ELSE tlb[i]
           t == [i \in DOMAIN tlb |-> e(i)]
<1>1. [pagina |-> n, marco |-> m, ts |-> Ahora] \in EntradaCruda
  BY TlbAssumption DEF EntradaCruda, Ahora
<1>2. \A i \in DOMAIN tlb : /\ e(i) \in EntradaCruda
                             /\ \/ <<e(i).pagina, e(i).marco>> = <<n, m>>
                                \/ e(i) = tlb[i] /\ tlb[i].marco # m
  BY <1>1, DeTlb
<1>3. actualizar_TLB(n, m) = EnRangos(t)
  BY DEF actualizar_TLB
<1> HIDE DEF e
<1>4. t = [i \in 1 .. Len(tlb) |-> e(i)] /\ Len(tlb) \in Nat
  BY DeTlb
<1>5. ColaCruda(t)
  BY <1>2, <1>4, DeTlb DEF ColaCruda, TlbTipo
<1>6. Cola(EnRangos(t)) /\ Pares(EnRangos(t)) = Pares(t)
  BY <1>5, RangosDeCola
<1>7. \A x \in Pares(t) : x = <<n, m>> \/ (x \in Pares(tlb) /\ x[2] # m)
  <2> SUFFICES ASSUME NEW i \in DOMAIN tlb
               PROVE  LET x == <<e(i).pagina, e(i).marco>> IN x = <<n, m>> \/ (x \in Pares(tlb) /\ x[2] # m)
    BY DEF Pares
  <2> QED BY <1>2 DEF Pares
<1> QED BY <1>3, <1>6, <1>7

\* A page in the TLB gives the frame of one of its entries.
LEMMA DeObtenerMarco ==
  ASSUME TlbTipo, NEW n \in Paginas, esta_en_TLB(n)
  PROVE  <<n, obtener_marco_de_TLB(n)>> \in Pares(tlb) /\ obtener_marco_de_TLB(n) \in Marcos
<1> DEFINE L == Len(tlb)
           S == {L - i : i \in EntradasDe(n)}
<1>1. \A i \in EntradasDe(n) : i \in DOMAIN tlb /\ i \in 1 .. L /\ L \in Nat /\ tlb[i].pagina = n
  BY DeTlb DEF EntradasDe
<1>2. S \in SUBSET Nat /\ S # {}
  BY <1>1 DEF esta_en_TLB
<1>3. Minimo(S) \in S /\ \A y \in S : Minimo(S) <= y
  BY <1>2, MinimoDe
<1>4. PICK x \in EntradasDe(n) : Minimo(S) = L - x
  BY <1>3
<1>5. \A j \in EntradasDe(n) : j <= x
  <2> SUFFICES ASSUME NEW j \in EntradasDe(n) PROVE j <= x
    OBVIOUS
  <2>1. L - x <= L - j
    BY <1>3, <1>4
  <2> QED BY <1>1, <2>1
<1>6. \E i \in EntradasDe(n) : /\ \A j \in EntradasDe(n) : j <= i
                               /\ obtener_marco_de_TLB(n) = tlb[i].marco
  BY <1>5 DEF obtener_marco_de_TLB
<1> QED BY <1>1, <1>6, DeTlb DEF Pares

----------------------------------------------------------------------------
(* The CPU and its TLB.                                                    *)

\* The phases of the CPU, and its record.
MmuFases == {"ociosa", "busca", "pide", "opera", "copia", "sale"}
MmuTipo == [fase : MmuFases, pid : Procesos \cup {Nadie}, op : Operaciones, pag : Paginas,
            dato : Valores, codigo : {"ACCESO_A_2DA_TABLA", "REEMPLAZO_DE_PAGINA"}]

\* MmuTypeOK without the types of memory.
MmuTipos == algoritmo_tlb \in AlgoritmosTlb /\ TlbTipo /\ mmu \in MmuTipo

\* The parts of MmuTypeOK, put together.
LEMMA MmuTiposSonTipos == Tipos /\ MmuTipos => MmuTypeOK
BY TiposSonTipos DEF MmuTipos, TlbTipo, MmuTipo, MmuFases, MmuTypeOK

\* The CPU waits for memory exactly while memory works for it; the process that
\* runs is in memory; and an idle CPU has an empty TLB.
CpuDeLaMmu ==
  /\ mmu.fase = "ociosa" <=> mmu.pid = Nadie
  /\ mmu.fase \in {"ociosa", "busca", "copia", "sale"} => cpu.fase = "libre"
  /\ mmu.fase = "pide" => cpu.fase \in {"reloj", "carga", "sin_marcos", "sin_pagina"}
  /\ mmu.fase = "opera" => cpu.fase \in {"acceso", "responde"}
  /\ cpu.fase # "libre" => cpu.pid = mmu.pid
  /\ mmu.fase \in {"busca", "copia", "pide", "opera"} => EnMemoria(mmu.pid)
  /\ mmu.fase = "ociosa" => tlb = <<>>

\* What holds whatever is replaced: memory's own invariant, the types, and the
\* agreement of both sides.
FuerteMmu == Fuerte /\ MarcosPropios /\ MmuTipos /\ CpuDeLaMmu

\* The CPU before it gets a process.
LEMMA OciosaTipo ==
  Ociosa \in MmuTipo /\ Ociosa.fase = "ociosa" /\ Ociosa.pid = Nadie /\ Ociosa.codigo = "ACCESO_A_2DA_TABLA"
BY Numeros, ValoresAssumption DEF Ociosa, MmuTipo, MmuFases, Operaciones

\* Only a CPU that runs a process translates, and what it translates is an
\* operation of memory.
LEMMA DeOperacion ==
  ASSUME CpuDeLaMmu, NEW op \in OperacionesPosibles
  PROVE  mmu.fase \in {"busca", "copia"} /\ op \in Operaciones /\ cpu.fase = "libre" /\ EnMemoria(mmu.pid)
<1>1. CASE mmu.fase = "busca"
  BY <1>1 DEF OperacionesPosibles, Operaciones, CpuDeLaMmu
<1>2. CASE mmu.fase = "copia"
  BY <1>2 DEF OperacionesPosibles, Operaciones, CpuDeLaMmu
<1>3. CASE mmu.fase \notin {"busca", "copia"}
  BY <1>3 DEF OperacionesPosibles
<1> QED BY <1>1, <1>2, <1>3

\* A translation with the TLB is an access of memory to the frame it says.
LEMMA TraduceEsAcceso ==
  ASSUME MmuTipos, CpuDeLaMmu, NEW p \in Procesos, NEW op \in OperacionesPosibles, NEW d \in Direcciones,
         TraduceConTlb(p, op, d)
  PROVE  /\ numero_pagina(d) \in Paginas
         /\ <<numero_pagina(d), obtener_marco_de_TLB(numero_pagina(d))>> \in Pares(tlb)
         /\ obtener_marco_de_TLB(numero_pagina(d)) \in Marcos
         /\ AccesoPorTlb(p, numero_pagina(d), obtener_marco_de_TLB(numero_pagina(d)))
<1> DEFINE n == numero_pagina(d)
           m == obtener_marco_de_TLB(n)
<1>1. n \in Paginas
  BY TraduccionDePagina
<1>2. esta_en_TLB(n) /\ mmu.pid = p
  BY DEF TraduceConTlb
<1>3. <<n, m>> \in Pares(tlb) /\ m \in Marcos
  BY <1>1, <1>2, DeObtenerMarco DEF MmuTipos
<1>4. MarcoDe(direccion_fisica(m, d)) = m
  BY <1>3, MarcoDeDireccion
<1>5. AccesoPorTlb(p, n, m)
  BY <1>2, <1>4, DeOperacion DEF TraduceConTlb, AccesoPorTlb
<1> QED BY <1>1, <1>3, <1>5

\* The actions of the composition.
AccionDeMmu(p) ==
  \/ RecibePcb(p) \/ EnviaPcb(p) \/ vaciar_tlb(p)
  \/ \E op \in OperacionesPosibles, d \in Direcciones :
       TraduceConTlb(p, op, d) \/ TraduceCargada(p, op, d) \/ TraducePidiendo(p, op, d)
  \/ BuscaVictima(p) \/ AvisaReemplazo(p) \/ segundo_acceso_a_memoria(p)
  \/ leer_posicion_de_memoria(p) \/ escribir_en_posicion_de_memoria(p) \/ RecibeRespuesta(p)
  \/ PideKernel(p)

\* MmuNext is one of them.
LEMMA AccionesDeMmu == MmuNext => \E p \in Procesos : AccionDeMmu(p)
BY DEF MmuNext, AccionDeMmu

\* What memory sees of them: an access, with the frame the TLB has of the page or
\* without it, or a message of the kernel about a process that is not in the CPU.
PasoDeMmu(p) ==
  \/ AtiendeCpu(p)
  \/ ~EnCpu(p) /\ AtiendeKernel(p)
  \/ mmu.pid = p /\ mmu.fase \in {"busca", "copia"}
     /\ \E n \in Paginas, m \in Marcos : AccesoPorTlb(p, n, m) /\ <<n, m>> \in Pares(tlb)

\* A step of the composition is such a step, or memory does not move.
LEMMA MmuEsPaso ==
  ASSUME FuerteMmu, NEW p \in Procesos, AccionDeMmu(p)
  PROVE  PasoDeMmu(p) \/ UNCHANGED vars
<1> USE DEF FuerteMmu
<1>2. CASE RecibePcb(p) \/ EnviaPcb(p) \/ vaciar_tlb(p)
  BY <1>2 DEF RecibePcb, EnviaPcb, vaciar_tlb
<1>3. ASSUME NEW op \in OperacionesPosibles, NEW d \in Direcciones, TraduceConTlb(p, op, d)
      PROVE  PasoDeMmu(p)
  <2>1. mmu.pid = p /\ mmu.fase \in {"busca", "copia"}
    BY <1>3, DeOperacion DEF TraduceConTlb
  <2> QED BY <1>3, <2>1, TraduceEsAcceso DEF PasoDeMmu
<1>4. ASSUME NEW op \in OperacionesPosibles, NEW d \in Direcciones,
             TraduceCargada(p, op, d) \/ TraducePidiendo(p, op, d)
      PROVE  PasoDeMmu(p)
  <2>1. PaginaTraducida(numero_pagina(d)) \in Paginas
    BY TraduccionDePagina
  <2> QED BY <1>4, <2>1 DEF TraduceCargada, TraducePidiendo, PasoDeMmu, AtiendeCpu
<1>5. CASE BuscaVictima(p) \/ AvisaReemplazo(p) \/ segundo_acceso_a_memoria(p)
             \/ leer_posicion_de_memoria(p) \/ RecibeRespuesta(p)
  BY <1>5 DEF BuscaVictima, AvisaReemplazo, segundo_acceso_a_memoria, leer_posicion_de_memoria,
              RecibeRespuesta, PasoDeMmu, AtiendeCpu
<1>6. CASE escribir_en_posicion_de_memoria(p)
  <2>1. (IF mmu.op = "WRITE" THEN Valores ELSE {mmu.dato}) \subseteq Valores
    BY DEF MmuTipos, MmuTipo
  <2> QED BY <1>6, <2>1 DEF escribir_en_posicion_de_memoria, PasoDeMmu, AtiendeCpu
<1>7. CASE PideKernel(p)
  BY <1>7 DEF PideKernel, PasoDeMmu
<1> QED BY <1>2, <1>3, <1>4, <1>5, <1>6, <1>7 DEF AccionDeMmu

\* The state of the CPU after a step of its own: of one process, that stays in
\* memory, with memory in a phase that fits.
Encaja(p) ==
  /\ algoritmo_tlb' = algoritmo_tlb /\ proceso' = proceso /\ kernel' = kernel
  /\ mmu'.pid = p /\ mmu'.fase \in MmuFases /\ cpu'.pid \in {p, Nadie}
  /\ mmu'.fase # "ociosa"
  /\ mmu'.fase \in {"busca", "copia", "sale"} => cpu'.fase = "libre"
  /\ mmu'.fase = "pide" => cpu'.fase \in {"reloj", "carga", "sin_marcos", "sin_pagina"}
  /\ mmu'.fase = "opera" => cpu'.fase \in {"acceso", "responde"}
  /\ cpu'.fase # "libre" => cpu'.pid = p

\* Such a step keeps the CPU and memory in agreement.
LEMMA EncajaConserva ==
  ASSUME NEW p \in Procesos, Encaja(p), EnMemoria(p)
  PROVE  CpuDeLaMmu'
<1>1. /\ mmu'.pid = p /\ mmu'.fase # "ociosa" /\ p # Nadie
      /\ proceso' = proceso /\ kernel' = kernel
  BY NadieAssumption DEF Encaja
<1>2. EnMemoria(mmu.pid)'
  BY <1>1 DEF EnMemoria
<1> QED BY <1>1, <1>2 DEF Encaja, CpuDeLaMmu

\* The process of an access, and the frame of a page that is loaded.
LEMMA DelAcceso ==
  ASSUME FuerteMmu, NEW p \in Procesos
  PROVE  /\ cpu.pid = p => cpu.fase # "libre" /\ mmu.pid = p /\ EnMemoria(p)
         /\ cpu.pid = p => mmu.fase \in {"pide", "opera"}
         /\ \A n \in Paginas : Presente(p, n) => pagina[p][n].marco \in Marcos
<1>1. cpu.pid = p => cpu.fase # "libre" /\ mmu.pid = p /\ EnMemoria(p)
  BY NadieAssumption DEF FuerteMmu, Fuerte, HilosFieles, CpuDeLaMmu
<1>2. cpu.pid = p => mmu.fase \in {"pide", "opera"}
  BY <1>1 DEF FuerteMmu, CpuDeLaMmu, MmuTipos, MmuTipo, MmuFases
<1>3. \A n \in Paginas : Presente(p, n) => pagina[p][n].marco \in Marcos
  BY DePagina DEF FuerteMmu, Fuerte, CargadasDeResidentes
<1> QED BY <1>1, <1>2, <1>3

\* The two threads, the CPU and its TLB keep to each other in every step.
LEMMA MmuSeConserva == FuerteMmu /\ MmuNext => MmuTipos' /\ CpuDeLaMmu'
<1> SUFFICES ASSUME FuerteMmu, MmuNext PROVE MmuTipos' /\ CpuDeLaMmu'
  OBVIOUS
<1> USE DEF FuerteMmu
<1>1. PICK p \in Procesos : AccionDeMmu(p)
  BY AccionesDeMmu
<1>2. mmu \in MmuTipo /\ cpu \in CpuTipo /\ TlbTipo /\ algoritmo_tlb \in AlgoritmosTlb
  BY DeCpu DEF Fuerte, MmuTipos
<1>3. ASSUME mmu' \in MmuTipo, Cola(tlb'), algoritmo_tlb' = algoritmo_tlb PROVE MmuTipos'
  BY <1>2, <1>3 DEF MmuTipos, TlbTipo, Cola
<1>4. Cola(tlb)
  BY <1>2 DEF TlbTipo, Cola
<1>5. CASE RecibePcb(p)
  <2>1. mmu' \in MmuTipo /\ mmu'.fase = "busca" /\ mmu'.pid = p
    BY <1>5, OciosaTipo DEF RecibePcb, MmuTipo, MmuFases
  <2>2. tlb' = tlb /\ cpu' = cpu /\ proceso' = proceso /\ kernel' = kernel /\ algoritmo_tlb' = algoritmo_tlb
        /\ EnMemoria(p) /\ cpu.fase = "libre" /\ cpu.pid = Nadie
    BY <1>5 DEF RecibePcb, vars, CpuDeLaMmu, Fuerte, HilosFieles
  <2>3. Encaja(p)
    BY <2>1, <2>2 DEF Encaja, MmuFases
  <2> QED BY <1>3, <1>4, <2>1, <2>2, <2>3, EncajaConserva
<1>6. CASE EnviaPcb(p)
  <2>1. mmu' \in MmuTipo /\ mmu'.fase = "sale" /\ mmu'.pid = p
    BY <1>2, <1>6 DEF EnviaPcb, MmuTipo, MmuFases
  <2>2. tlb' = tlb /\ cpu' = cpu /\ proceso' = proceso /\ kernel' = kernel /\ algoritmo_tlb' = algoritmo_tlb
        /\ EnMemoria(p) /\ cpu.fase = "libre" /\ cpu.pid = Nadie
    BY <1>6 DEF EnviaPcb, vars, CpuDeLaMmu, Fuerte, HilosFieles
  <2>3. Encaja(p)
    BY <2>1, <2>2 DEF Encaja, MmuFases
  <2> QED BY <1>3, <1>4, <2>1, <2>2, <2>3, EncajaConserva
<1>7. CASE vaciar_tlb(p)
  <2>1. mmu' = Ociosa /\ tlb' = <<>> /\ cpu' = cpu /\ algoritmo_tlb' = algoritmo_tlb /\ cpu.fase = "libre"
    BY <1>7 DEF vaciar_tlb, vars, CpuDeLaMmu
  <2>2. Cola(<<>>)
    BY TlbAssumption DEF Cola
  <2> QED BY <1>3, <2>1, <2>2, OciosaTipo DEF CpuDeLaMmu
<1>8. ASSUME NEW op \in OperacionesPosibles, NEW d \in Direcciones, TraduceConTlb(p, op, d)
      PROVE  MmuTipos' /\ CpuDeLaMmu'
  <2> PICK n \in Paginas : n = numero_pagina(d)
    BY TraduccionDePagina
  <2>1. op \in Operaciones /\ EnMemoria(p)
    BY <1>8, DeOperacion DEF TraduceConTlb
  <2>2. /\ mmu' = [mmu EXCEPT !.fase = "opera", !.op = op, !.pag = n]
        /\ tlb' = Referenciada(n) /\ mmu.pid = p
        /\ algoritmo_tlb' = algoritmo_tlb /\ proceso' = proceso /\ kernel' = kernel
    BY <1>8 DEF TraduceConTlb
  <2>3. mmu' \in MmuTipo /\ mmu'.fase = "opera" /\ mmu'.pid = p
    BY <1>2, <2>1, <2>2 DEF MmuTipo, MmuFases
  <2>4. cpu'.fase = "acceso" /\ cpu'.pid = p
    BY <1>8 DEF TraduceConTlb, CpuLibre
  <2>5. Encaja(p)
    BY <2>2, <2>3, <2>4 DEF Encaja, MmuFases
  <2>6. Cola(tlb')
    BY <1>2, <2>2, DeReferenciada
  <2> QED BY <1>3, <2>1, <2>2, <2>3, <2>5, <2>6, EncajaConserva
<1>9. ASSUME NEW op \in OperacionesPosibles, NEW d \in Direcciones, TraduceCargada(p, op, d)
      PROVE  MmuTipos' /\ CpuDeLaMmu'
  <2> PICK n \in Paginas : n = numero_pagina(d) /\ PaginaTraducida(numero_pagina(d)) = n
    BY TraduccionDePagina
  <2>1. op \in Operaciones
    BY DeOperacion
  <2>2. /\ mmu' = [mmu EXCEPT !.fase = "opera", !.op = op, !.pag = n, !.codigo = "ACCESO_A_2DA_TABLA"]
        /\ tlb' = guardar_en_TLB(n, cpu'.marco) /\ mmu.pid = p /\ algoritmo_tlb' = algoritmo_tlb
        /\ AccesoPresente(p, n)
    BY <1>9 DEF TraduceCargada
  <2>3. mmu' \in MmuTipo /\ mmu'.fase = "opera" /\ mmu'.pid = p
    BY <1>2, <2>1, <2>2 DEF MmuTipo, MmuFases
  <2>4. cpu'.fase = "acceso" /\ cpu'.pid = p /\ cpu'.marco = pagina[p][n].marco /\ EnMemoria(p)
        /\ proceso' = proceso /\ kernel' = kernel /\ Presente(p, n)
    BY <2>2 DEF AccesoPresente, CpuLibre, Presente
  <2>5. Encaja(p)
    BY <2>2, <2>3, <2>4 DEF Encaja, MmuFases
  <2>6. PICK m \in Marcos : m = cpu'.marco
    BY <2>4, DelAcceso
  <2>7. Cola(tlb')
    BY <1>2, <2>2, <2>6, DeGuardar
  <2> QED BY <1>3, <2>2, <2>3, <2>4, <2>5, <2>7, EncajaConserva
<1>10. ASSUME NEW op \in OperacionesPosibles, NEW d \in Direcciones, TraducePidiendo(p, op, d)
      PROVE  MmuTipos' /\ CpuDeLaMmu'
  <2> PICK n \in Paginas : n = PaginaTraducida(numero_pagina(d))
    BY TraduccionDePagina
  <2>1. op \in Operaciones
    BY DeOperacion
  <2>2. /\ mmu' = [mmu EXCEPT !.fase = "pide", !.op = op, !.codigo = "ACCESO_A_2DA_TABLA"]
        /\ tlb' = tlb /\ mmu.pid = p /\ algoritmo_tlb' = algoritmo_tlb
        /\ AccesoConLugar(p, n) \/ AccesoSinLugar(p, n)
    BY <1>10 DEF TraducePidiendo
  <2>3. mmu' \in MmuTipo /\ mmu'.fase = "pide" /\ mmu'.pid = p
    BY <1>2, <2>1, <2>2 DEF MmuTipo, MmuFases
  <2>4. cpu'.fase \in {"reloj", "carga", "sin_marcos"} /\ cpu'.pid = p /\ EnMemoria(p)
        /\ proceso' = proceso /\ kernel' = kernel
    <3>1. CASE AccesoConLugar(p, n)
      BY <3>1 DEF AccesoConLugar, CpuLibre
    <3>2. CASE AccesoSinLugar(p, n)
      BY <3>2 DEF AccesoSinLugar, CpuLibre
    <3> QED BY <2>2, <3>1, <3>2
  <2>5. Encaja(p)
    BY <2>2, <2>3, <2>4 DEF Encaja, MmuFases
  <2> QED BY <1>3, <1>4, <2>2, <2>3, <2>4, <2>5, EncajaConserva
<1>11. CASE BuscaVictima(p) \/ AvisaReemplazo(p)
  <2>1. cpu.fase = "reloj" /\ cpu.pid = p /\ tlb' = tlb /\ algoritmo_tlb' = algoritmo_tlb
        /\ proceso' = proceso /\ kernel' = kernel
    BY <1>11 DEF BuscaVictima, AvisaReemplazo, RelojAvanza, RelojSinPagina, RelojReemplaza, mmuVars
  <2>2. mmu.fase = "pide" /\ mmu.pid = p /\ EnMemoria(p)
    BY <2>1, DelAcceso DEF CpuDeLaMmu
  <2>3. mmu' \in MmuTipo /\ mmu'.fase = "pide" /\ mmu'.pid = p
    <3>1. CASE BuscaVictima(p)
      BY <1>2, <2>2, <3>1 DEF BuscaVictima, mmuVars
    <3>2. CASE AvisaReemplazo(p)
      BY <1>2, <2>2, <3>2 DEF AvisaReemplazo, MmuTipo
    <3> QED BY <1>11, <3>1, <3>2
  <2>4. cpu'.fase \in {"reloj", "carga", "sin_pagina"} /\ cpu'.pid = p
    <3>1. CASE RelojAvanza(p)
      BY <1>2, <2>1, <3>1 DEF RelojAvanza, CpuTipo
    <3>2. CASE RelojSinPagina(p)
      BY <1>2, <2>1, <3>2 DEF RelojSinPagina, CpuTipo
    <3>3. CASE RelojReemplaza(p)
      BY <1>2, <2>1, <3>3 DEF RelojReemplaza, CpuTipo
    <3> QED BY <1>11, <3>1, <3>2, <3>3 DEF BuscaVictima, AvisaReemplazo
  <2>5. Encaja(p)
    BY <2>1, <2>3, <2>4 DEF Encaja, MmuFases
  <2> QED BY <1>3, <1>4, <2>1, <2>2, <2>3, <2>5, EncajaConserva
<1>12. CASE segundo_acceso_a_memoria(p)
  <2>1. cpu.fase = "carga" /\ cpu.pid = p /\ algoritmo_tlb' = algoritmo_tlb
        /\ proceso' = proceso /\ kernel' = kernel /\ cpu' = [cpu EXCEPT !.fase = "acceso"]
    BY <1>12 DEF segundo_acceso_a_memoria, CargaPagina
  <2> PICK n \in Paginas, m \in Marcos : n = cpu.pag /\ m = cpu.marco
    BY <2>1, DeCpu DEF Fuerte, MarcoPedido
  <2>2. mmu.pid = p /\ EnMemoria(p)
    BY <2>1, DelAcceso
  <2>3. mmu' \in MmuTipo /\ mmu'.fase = "opera" /\ mmu'.pid = p
    BY <1>2, <1>12, <2>2 DEF segundo_acceso_a_memoria, MmuTipo, MmuFases
  <2>4. cpu'.fase = "acceso" /\ cpu'.pid = p
    BY <1>2, <2>1 DEF CpuTipo
  <2>5. Encaja(p)
    BY <2>1, <2>3, <2>4 DEF Encaja, MmuFases
  <2>6. Cola(tlb')
    BY <1>2, <1>12, DeGuardar, DeActualizar DEF segundo_acceso_a_memoria
  <2> QED BY <1>3, <2>1, <2>2, <2>3, <2>5, <2>6, EncajaConserva
<1>13. CASE leer_posicion_de_memoria(p) \/ escribir_en_posicion_de_memoria(p)
  <2>1. /\ cpu.fase = "acceso" /\ cpu.pid = p /\ algoritmo_tlb' = algoritmo_tlb /\ tlb' = tlb /\ mmu' = mmu
        /\ proceso' = proceso /\ kernel' = kernel /\ cpu' = [cpu EXCEPT !.fase = "responde"]
    BY <1>13 DEF leer_posicion_de_memoria, escribir_en_posicion_de_memoria,
                 leer_posicion, escribir_en_posicion, Prepara, mmuVars
  <2>2. mmu.fase = "opera" /\ mmu.pid = p /\ EnMemoria(p)
    BY <2>1, DelAcceso DEF CpuDeLaMmu
  <2>3. cpu'.fase = "responde" /\ cpu'.pid = p
    BY <1>2, <2>1 DEF CpuTipo
  <2>4. Encaja(p)
    BY <2>1, <2>2, <2>3 DEF Encaja, MmuFases
  <2> QED BY <1>2, <1>3, <1>4, <2>1, <2>2, <2>4, EncajaConserva
<1>14. CASE RecibeRespuesta(p)
  <2>1. /\ cpu.fase = "responde" /\ cpu.pid = p /\ algoritmo_tlb' = algoritmo_tlb /\ tlb' = tlb
        /\ proceso' = proceso /\ kernel' = kernel /\ cpu' = CpuLibre
    BY <1>14 DEF RecibeRespuesta, Responde
  <2>2. mmu.pid = p /\ EnMemoria(p)
    BY <2>1, DelAcceso
  <2>3. respuesta.valor \in Valores
    BY ValoresAssumption DEF Fuerte, Tipos, Respuestas, SinRespuesta
  <2>4. mmu.pag \in Paginas
    BY <1>2 DEF MmuTipo
  <2>5. mmu' \in MmuTipo /\ mmu'.fase \in {"copia", "busca"} /\ mmu'.pid = p
    <3>1. CASE mmu.op = "COPY"
      BY <1>2, <1>14, <2>2, <2>3, <3>1 DEF RecibeRespuesta, MmuTipo, MmuFases
    <3>2. CASE mmu.op # "COPY"
      BY <1>2, <1>14, <2>2, <2>4, <3>2, OciosaTipo DEF RecibeRespuesta, MmuTipo, MmuFases
    <3> QED BY <3>1, <3>2
  <2>6. cpu'.fase = "libre" /\ cpu'.pid = Nadie
    BY <2>1 DEF CpuLibre
  <2>7. Encaja(p)
    BY <2>1, <2>5, <2>6 DEF Encaja, MmuFases
  <2> QED BY <1>3, <1>4, <2>1, <2>2, <2>5, <2>7, EncajaConserva
<1>15. CASE PideKernel(p)
  <2>1. mmu' = mmu /\ tlb' = tlb /\ algoritmo_tlb' = algoritmo_tlb /\ ~EnCpu(p) /\ AtiendeKernel(p)
    BY <1>15 DEF PideKernel, mmuVars
  <2>2. cpu' = cpu
    BY <2>1 DEF AtiendeKernel, crear_proceso, suspender_proceso, SuspendePagina, SuspendeTermina,
                reanudar_proceso, eliminar_proceso
  <2>3. ASSUME mmu.fase \in {"busca", "copia", "pide", "opera"} PROVE EnMemoria(mmu.pid)'
    <3> PICK q \in Procesos : q = mmu.pid
      BY <2>3 DEF CpuDeLaMmu, MmuTipos, MmuTipo
    <3>1. q # p /\ EnMemoria(q)
      BY <2>1, <2>3 DEF EnCpu, CpuDeLaMmu
    <3>2. proceso'[q] = proceso[q] /\ (kernel'.pid = kernel.pid \/ kernel'.pid = p \/ kernel'.pid = Nadie)
      BY <2>1, <3>1 DEF AtiendeKernel, crear_proceso, suspender_proceso, SuspendePagina, SuspendeTermina,
                reanudar_proceso, eliminar_proceso, Fuerte, Tipos, KernelTipo, KernelLibre
    <3> QED BY <2>1, <3>1, <3>2, NadieAssumption DEF EnMemoria
  <2> QED BY <1>2, <1>3, <1>4, <2>1, <2>2, <2>3 DEF CpuDeLaMmu
<1> QED BY <1>1, <1>5, <1>6, <1>7, <1>8, <1>9, <1>10, <1>11, <1>12, <1>13, <1>14, <1>15 DEF AccionDeMmu

\* The composition starts with memory empty and the CPU idle.
LEMMA MmuAlEmpezar == MmuInit => FuerteMmu
<1> SUFFICES ASSUME MmuInit PROVE FuerteMmu
  OBVIOUS
<1>1. Fuerte /\ MarcosPropios
  BY EstadoInicial DEF MmuInit
<1>2. TlbTipo
  BY TlbAssumption DEF MmuInit, TlbTipo
<1>3. MmuTipos
  BY <1>2, OciosaTipo DEF MmuInit, MmuTipos
<1>4. CpuDeLaMmu
  BY OciosaTipo DEF MmuInit, Init, CpuLibre, CpuDeLaMmu
<1> QED BY <1>1, <1>3, <1>4 DEF FuerteMmu

\* A step of the CPU that memory does not see keeps what is said of memory.
LEMMA MmuPaso == FuerteMmu /\ [MmuNext]_todas => FuerteMmu'
<1> SUFFICES ASSUME FuerteMmu, [MmuNext]_todas PROVE FuerteMmu'
  OBVIOUS
<1>1. CASE MmuNext
  <2> PICK p \in Procesos : AccionDeMmu(p)
    BY <1>1, AccionesDeMmu
  <2>1. Paso \/ UNCHANGED vars
    BY MmuEsPaso DEF PasoDeMmu, Paso
  <2>2. Fuerte' /\ MarcosPropios'
    BY <2>1, FuerteSeConserva, PropiosSeConservan, SinPasoIgual DEF FuerteMmu
  <2> QED BY <1>1, <2>2, MmuSeConserva DEF FuerteMmu
<1>2. CASE UNCHANGED todas
  <2>1. Fuerte' /\ MarcosPropios'
    BY <1>2, SinPasoIgual DEF todas, FuerteMmu
  <2>2. MmuTipos'
    BY <1>2 DEF todas, mmuVars, FuerteMmu, MmuTipos, TlbTipo
  <2>3. CpuDeLaMmu'
    BY <1>2 DEF todas, vars, mmuVars, FuerteMmu, CpuDeLaMmu, EnMemoria
  <2> QED BY <2>1, <2>2, <2>3 DEF FuerteMmu
<1> QED BY <1>1, <1>2

\* The invariant of the composition, whatever is replaced.
LEMMA MmuFuerteSiempre == MmuSpec => []FuerteMmu
BY MmuAlEmpezar, MmuPaso, PTL DEF MmuSpec

\* The TLB is never over its size, and every index the CPU and memory use is in
\* bounds: the entries name pages and frames there are, also after the timestamps
\* of a replacement or of LRU (guardar_en_TLB, actualizar_TLB).
THEOREM TiposDeMmu == MmuSpec => []MmuTypeOK
<1>1. FuerteMmu => MmuTypeOK
  BY MmuTiposSonTipos DEF FuerteMmu, Fuerte
<1> QED BY <1>1, MmuFuerteSiempre, PTL

\* With the TLB in front of memory, a frame still is of one process at most
\* (atender_cpu and atender_kernel, through every order of both).
THEOREM MmuCadaMarcoDeUno == MmuSpec => []MarcosPropios
<1>1. FuerteMmu => MarcosPropios
  BY DEF FuerteMmu
<1> QED BY <1>1, MmuFuerteSiempre, PTL

----------------------------------------------------------------------------
(* What the TLB says is true.                                              *)

\* The tables of p have the page of the pair x loaded in its frame.
Verdad(p, x) == Presente(p, x[1]) /\ pagina[p][x[1]].marco = x[2]

\* REEMPLAZO_DE_PAGINA was received, and the TLB is not updated yet.
Reemplazando == mmu.fase = "pide" /\ mmu.codigo = "REEMPLAZO_DE_PAGINA"

\* All the TLB says of the process that runs is true; during a replacement, but
\* for the entries of the frame that is being replaced.
TlbFiel ==
  mmu.fase \notin {"ociosa", "sale"} =>
    /\ Reemplazando => cpu.fase = "carga"
    /\ \A x \in Pares(tlb) : Verdad(mmu.pid, x) \/ (Reemplazando /\ x[2] = cpu.marco)

\* What a step needs, so that the frame of the TLB is the one of the page.
MmuFiel == FuerteMmu /\ MarcoDelAcceso /\ PedidoAusente /\ TlbFiel

\* Memory sees accesses to the frames pages are in.
LEMMA MmuEsFiel ==
  ASSUME MmuFiel, NEW p \in Procesos, AccionDeMmu(p)
  PROVE  PasoFiel \/ UNCHANGED vars
<1>1. ASSUME NEW n \in Paginas, NEW m \in Marcos, AccesoPorTlb(p, n, m), <<n, m>> \in Pares(tlb),
             mmu.pid = p, mmu.fase \in {"busca", "copia"}
      PROVE  AciertoFiel(p, n, m)
  <2>1. Verdad(mmu.pid, <<n, m>>)
    BY <1>1 DEF MmuFiel, TlbFiel, Reemplazando
  <2> QED BY <1>1, <2>1 DEF Verdad, AciertoFiel
<1>2. PasoDeMmu(p) \/ UNCHANGED vars
  BY MmuEsPaso DEF MmuFiel
<1> QED BY <1>1, <1>2 DEF PasoDeMmu, PasoFiel

\* The pages of the process that runs stay where they are, but for replacements.
LEMMA PaginasQuedan ==
  ASSUME FuerteMmu, NEW p \in Procesos, AccionDeMmu(p), ~RelojReemplaza(p),
         mmu.fase \notin {"ociosa", "sale"}, NEW n \in Paginas, Presente(mmu.pid, n)
  PROVE  pagina'[mmu.pid][n].presencia = 1 /\ pagina'[mmu.pid][n].marco = pagina[mmu.pid][n].marco
<1> USE DEF FuerteMmu
<1> PICK q \in Procesos : q = mmu.pid
  BY DEF CpuDeLaMmu, MmuTipos, MmuTipo
<1> DEFINE Queda == pagina'[q][n].presencia = 1 /\ pagina'[q][n].marco = pagina[q][n].marco
<1>1. CASE MismasPaginas
  BY <1>1 DEF MismasPaginas, Presente
<1>2. CASE Cargado
  <2>1. PICK r \in Procesos, k \in Paginas : \E m, i : Carga(r, k, m, i)
    BY <1>2 DEF Cargado
  <2>2. pagina'[q][n] = pagina[q][n]
    BY <2>1 DEF Carga
  <2> QED BY <2>2 DEF Presente
<1>3. CASE AtiendeCpu(p) \/ \E k \in Paginas, m \in Marcos : AccesoPorTlb(p, k, m)
  <2>1. CASE (\E k \in Paginas : AccesoSinLugar(p, k)) \/ RelojSinPagina(p) \/ RelojAvanza(p)
    BY <1>1, <2>1, PaginasQuietas
  <2>2. CASE MovimientoDeCpu(p)
    BY <1>1, <1>2, <2>2, EfectoDeCpu DEF Quieto
  <2> QED BY <1>3, <2>1, <2>2 DEF AtiendeCpu, MovimientoDeCpu
<1>4. CASE ~EnCpu(p) /\ AtiendeKernel(p)
  <2>1. q # p /\ Movimiento(p)
    BY <1>4 DEF EnCpu, AtiendeKernel, Movimiento
  <2>2. CASE SeVacia(p) \/ \E k \in Paginas : SePierde(p, k)
    <3>1. pagina'[q][n] = pagina[q][n]
      BY <2>1, <2>2 DEF SeVacia, SePierde
    <3> QED BY <3>1 DEF Presente
  <2> QED BY <1>1, <1>2, <2>1, <2>2, EfectoDelMovimiento DEF Quieto
<1>5. CASE UNCHANGED vars
  BY <1>5 DEF vars, Presente
<1> QED BY <1>3, <1>4, <1>5, MmuEsPaso DEF PasoDeMmu

\* The TLB goes on telling the truth when all it says then is true now.
LEMMA SigueFiel ==
  ASSUME FuerteMmu, NEW p \in Procesos, AccionDeMmu(p), ~RelojReemplaza(p),
         mmu.fase \notin {"ociosa", "sale"}, mmu'.pid = mmu.pid, ~Reemplazando',
         \A x \in Pares(tlb') : x[1] \in Paginas /\ Verdad(mmu.pid, x)
  PROVE  TlbFiel'
<1> PICK q \in Procesos : q = mmu.pid
  BY DEF FuerteMmu, CpuDeLaMmu, MmuTipos, MmuTipo
<1>1. \A n \in Paginas : Presente(q, n) => /\ pagina'[q][n].presencia = 1
                                           /\ pagina'[q][n].marco = pagina[q][n].marco
  BY PaginasQuedan
<1>2. \A x \in Pares(tlb') : pagina'[q][x[1]].presencia = 1 /\ pagina'[q][x[1]].marco = x[2]
  BY <1>1 DEF Verdad
<1> QED BY <1>2 DEF TlbFiel, Verdad, Presente

\* What the TLB says outside a replacement.
LEMMA DiceVerdad ==
  ASSUME FuerteMmu, TlbFiel, mmu.fase \notin {"ociosa", "sale"}, ~Reemplazando
  PROVE  \A x \in Pares(tlb) : x[1] \in Paginas /\ Verdad(mmu.pid, x)
BY DeTlb DEF FuerteMmu, MmuTipos, TlbFiel, Pares

\* The pages of the entries are pages.
LEMMA ParesDePaginas == ASSUME TlbTipo PROVE \A x \in Pares(tlb) : x[1] \in Paginas
BY DeTlb DEF Pares

\* No step leaves an entry that is false: not a translation, a page that is stored,
\* a replacement, the process that leaves or one that is suspended beside it.
LEMMA TlbFielSeConserva ==
  ASSUME MmuFiel, NEW p \in Procesos, AccionDeMmu(p), RelojReemplaza(p) => ConReloj /\ LugaresAlineados
  PROVE  TlbFiel'
<1> USE DEF MmuFiel, FuerteMmu
<1>1. mmu \in MmuTipo /\ TlbTipo
  BY DEF MmuTipos
<1>a. ASSUME cpu.fase # "reloj" PROVE ~RelojReemplaza(p)
  BY <1>a DEF RelojReemplaza
<1>2. CASE RecibePcb(p)
  <2>1. tlb' = <<>> /\ mmu' = [Ociosa EXCEPT !.fase = "busca", !.pid = p]
    BY <1>2 DEF RecibePcb, CpuDeLaMmu
  <2>2. mmu'.fase = "busca"
    BY <2>1, OciosaTipo DEF MmuTipo
  <2> QED BY <2>1, <2>2 DEF TlbFiel, Pares, Reemplazando
<1>3. CASE EnviaPcb(p) \/ vaciar_tlb(p)
  <2>1. mmu'.fase \in {"sale", "ociosa"}
    BY <1>1, <1>3, OciosaTipo DEF EnviaPcb, vaciar_tlb, MmuTipo
  <2> QED BY <2>1 DEF TlbFiel
<1>4. ASSUME NEW op \in OperacionesPosibles, NEW d \in Direcciones, TraduceConTlb(p, op, d) PROVE TlbFiel'
  <2> PICK n \in Paginas : n = numero_pagina(d)
    BY TraduccionDePagina
  <2>1. mmu' = [mmu EXCEPT !.fase = "opera", !.op = op, !.pag = n] /\ tlb' = Referenciada(n)
    BY <1>4 DEF TraduceConTlb
  <2>2. mmu.fase \in {"busca", "copia"} /\ cpu.fase = "libre"
    BY DeOperacion
  <2>3. mmu'.pid = mmu.pid /\ mmu'.fase = "opera"
    BY <1>1, <2>1 DEF MmuTipo
  <2>4. Pares(tlb') = Pares(tlb)
    BY <1>1, <2>1, DeReferenciada
  <2> QED BY <1>a, <2>2, <2>3, <2>4, DiceVerdad, SigueFiel DEF Reemplazando
<1>5. ASSUME NEW op \in OperacionesPosibles, NEW d \in Direcciones, TraduceCargada(p, op, d) PROVE TlbFiel'
  <2> PICK n \in Paginas : n = numero_pagina(d) /\ PaginaTraducida(numero_pagina(d)) = n
    BY TraduccionDePagina
  <2>1. /\ mmu' = [mmu EXCEPT !.fase = "opera", !.op = op, !.pag = n, !.codigo = "ACCESO_A_2DA_TABLA"]
        /\ tlb' = guardar_en_TLB(n, cpu'.marco) /\ mmu.pid = p /\ AccesoPresente(p, n)
    BY <1>5 DEF TraduceCargada
  <2>2. mmu.fase \in {"busca", "copia"} /\ cpu.fase = "libre"
    BY DeOperacion
  <2>3. mmu'.pid = mmu.pid /\ mmu'.fase = "opera"
    BY <1>1, <2>1 DEF MmuTipo
  <2>4. cpu'.marco = pagina[p][n].marco /\ Presente(p, n)
    BY <2>1 DEF AccesoPresente, CpuLibre, Presente
  <2>5. PICK m \in Marcos : m = cpu'.marco
    BY <2>4, DelAcceso
  <2>6. Pares(tlb') \subseteq Pares(tlb) \cup {<<n, m>>}
    BY <1>1, <2>1, <2>5, DeGuardar
  <2>7. \A x \in Pares(tlb') : x[1] \in Paginas /\ Verdad(mmu.pid, x)
    <3>1. Verdad(mmu.pid, <<n, m>>)
      BY <2>1, <2>4, <2>5 DEF Verdad
    <3> QED BY <2>2, <2>6, <3>1, DiceVerdad DEF Reemplazando
  <2> QED BY <1>a, <2>2, <2>3, <2>7, SigueFiel DEF Reemplazando
<1>6. ASSUME NEW op \in OperacionesPosibles, NEW d \in Direcciones, TraducePidiendo(p, op, d) PROVE TlbFiel'
  <2>1. mmu' = [mmu EXCEPT !.fase = "pide", !.op = op, !.codigo = "ACCESO_A_2DA_TABLA"] /\ tlb' = tlb
    BY <1>6 DEF TraducePidiendo
  <2>2. mmu.fase \in {"busca", "copia"} /\ cpu.fase = "libre"
    BY DeOperacion
  <2>3. mmu'.pid = mmu.pid /\ mmu'.codigo = "ACCESO_A_2DA_TABLA"
    BY <1>1, <2>1 DEF MmuTipo
  <2> QED BY <1>a, <2>1, <2>2, <2>3, DiceVerdad, SigueFiel DEF Reemplazando
<1>7. CASE BuscaVictima(p)
  <2>1. cpu.fase = "reloj" /\ cpu.pid = p /\ mmu' = mmu /\ tlb' = tlb /\ ~RelojReemplaza(p)
    BY <1>7, DeCpu DEF BuscaVictima, RelojSinPagina, RelojAvanza, RelojReemplaza, mmuVars
  <2>2. mmu.fase \notin {"ociosa", "sale"} /\ ~Reemplazando
    BY <2>1, DelAcceso DEF TlbFiel
  <2>3. ~Reemplazando'
    BY <2>1, <2>2 DEF Reemplazando
  <2> QED BY <2>1, <2>2, <2>3, DiceVerdad, SigueFiel
<1>8. CASE AvisaReemplazo(p)
  <2>1. RelojReemplaza(p) /\ mmu' = [mmu EXCEPT !.codigo = "REEMPLAZO_DE_PAGINA"] /\ tlb' = tlb
    BY <1>8 DEF AvisaReemplazo
  <2>2. cpu.fase = "reloj" /\ cpu.pid = p
    BY <2>1 DEF RelojReemplaza
  <2>3. mmu.fase = "pide" /\ mmu.pid = p /\ ~Reemplazando
    BY <2>2, DelAcceso DEF TlbFiel, CpuDeLaMmu
  <2>4. mmu'.fase = "pide" /\ mmu'.pid = p /\ mmu'.codigo = "REEMPLAZO_DE_PAGINA"
    BY <1>1, <2>1, <2>3 DEF MmuTipo
  <2>5. \A x \in Pares(tlb) : x[1] \in Paginas /\ Verdad(p, x)
    BY <2>3, DiceVerdad
  <2>6. /\ ~Presente(p, cpu.pag) /\ cpu'.fase = "carga" /\ cpu'.marco = admin[p].offset
        /\ \A k \in Paginas : \/ pagina'[p][k] = pagina[p][k] \/ k = cpu.pag
                              \/ pagina[p][k].marco = admin[p].offset
    BY <2>1, EfectoDelReemplazo
  <2>7. \A x \in Pares(tlb) : \/ pagina'[p][x[1]].presencia = 1 /\ pagina'[p][x[1]].marco = x[2]
                              \/ x[2] = cpu'.marco
    BY <2>5, <2>6 DEF Verdad, Presente
  <2> QED BY <2>1, <2>4, <2>6, <2>7 DEF TlbFiel, Reemplazando, Verdad, Presente
<1>9. CASE segundo_acceso_a_memoria(p)
  <2>1. cpu.fase = "carga" /\ cpu.pid = p
    BY <1>9 DEF segundo_acceso_a_memoria, CargaPagina
  <2> PICK n \in Paginas, m \in Marcos : n = cpu.pag /\ m = cpu.marco
    BY <2>1, DeCpu DEF Fuerte, MarcoPedido
  <2>2. mmu.pid = p /\ mmu.fase = "pide"
    BY <2>1, DelAcceso DEF CpuDeLaMmu
  <2>3. /\ mmu' = [mmu EXCEPT !.fase = "opera", !.pag = n]
        /\ mmu.codigo = "REEMPLAZO_DE_PAGINA" => tlb' = actualizar_TLB(n, m)
        /\ mmu.codigo # "REEMPLAZO_DE_PAGINA" => tlb' = guardar_en_TLB(n, m)
    BY <1>9 DEF segundo_acceso_a_memoria
  <2>4. mmu'.pid = mmu.pid /\ mmu'.fase = "opera"
    BY <1>1, <2>3 DEF MmuTipo
  <2>5. Verdad(p, <<n, m>>)
    BY <2>1 DEF MarcoDelAcceso, Verdad
  <2>6. \A x \in Pares(tlb') : x[1] \in Paginas /\ Verdad(p, x)
    <3>1. CASE mmu.codigo = "REEMPLAZO_DE_PAGINA"
      <4>1. \A x \in Pares(tlb) : x[1] \in Paginas /\ (Verdad(p, x) \/ x[2] = m)
        BY <1>1, <2>2, ParesDePaginas DEF TlbFiel
      <4>2. \A x \in Pares(tlb') : x = <<n, m>> \/ (x \in Pares(tlb) /\ x[2] # m)
        BY <1>1, <2>3, <3>1, DeActualizar
      <4> QED BY <2>5, <4>1, <4>2
    <3>2. CASE mmu.codigo # "REEMPLAZO_DE_PAGINA"
      <4>1. \A x \in Pares(tlb) : x[1] \in Paginas /\ Verdad(p, x)
        BY <2>2, <3>2, DiceVerdad DEF Reemplazando
      <4>2. Pares(tlb') \subseteq Pares(tlb) \cup {<<n, m>>}
        BY <1>1, <2>3, <3>2, DeGuardar
      <4> QED BY <2>5, <4>1, <4>2
    <3> QED BY <3>1, <3>2
  <2> QED BY <1>a, <2>1, <2>2, <2>4, <2>6, SigueFiel DEF Reemplazando
<1>10. CASE leer_posicion_de_memoria(p) \/ escribir_en_posicion_de_memoria(p) \/ RecibeRespuesta(p)
  <2>1. cpu.fase \in {"acceso", "responde"} /\ cpu.pid = p /\ tlb' = tlb
    BY <1>10 DEF leer_posicion_de_memoria, escribir_en_posicion_de_memoria, RecibeRespuesta, leer_posicion,
                escribir_en_posicion, Responde, mmuVars
  <2>2. mmu.pid = p /\ mmu.fase = "opera"
    BY <2>1, DelAcceso DEF CpuDeLaMmu
  <2>3. mmu'.pid = mmu.pid /\ mmu'.fase # "pide"
    <3>1. CASE RecibeRespuesta(p)
      BY <1>1, <2>2, <3>1 DEF RecibeRespuesta, MmuTipo, Ociosa
    <3>2. CASE ~RecibeRespuesta(p)
      BY <1>10, <2>2, <3>2 DEF leer_posicion_de_memoria, escribir_en_posicion_de_memoria, mmuVars
    <3> QED BY <3>1, <3>2
  <2> QED BY <1>a, <2>1, <2>2, <2>3, DiceVerdad, SigueFiel DEF Reemplazando
<1>11. CASE PideKernel(p)
  <2>1. mmu' = mmu /\ tlb' = tlb /\ cpu' = cpu /\ ~RelojReemplaza(p)
    <3>1. mmu' = mmu /\ tlb' = tlb /\ AtiendeKernel(p)
      BY <1>11 DEF PideKernel, mmuVars
    <3>2. cpu' = cpu
      BY <3>1 DEF AtiendeKernel, crear_proceso, suspender_proceso, SuspendePagina, SuspendeTermina,
                  reanudar_proceso, eliminar_proceso
    <3>3. ~RelojReemplaza(p)
      <4> SUFFICES ASSUME RelojReemplaza(p) PROVE FALSE
        OBVIOUS
      <4>1. cpu.fase = "reloj" /\ cpu'.fase = "carga"
        BY DeCpu DEF RelojReemplaza, CpuTipo, Fuerte
      <4> QED BY <3>2, <4>1
    <3> QED BY <3>1, <3>2, <3>3
  <2>2. CASE mmu.fase \in {"ociosa", "sale"}
    BY <2>1, <2>2 DEF TlbFiel
  <2>3. CASE mmu.fase \notin {"ociosa", "sale"}
    <3> PICK q \in Procesos : q = mmu.pid
      BY <2>3 DEF CpuDeLaMmu, MmuTipos, MmuTipo
    <3>1. \A n \in Paginas : Presente(q, n) => /\ pagina'[q][n].presencia = 1
                                               /\ pagina'[q][n].marco = pagina[q][n].marco
      BY <2>1, <2>3, PaginasQuedan
    <3>2. \A x \in Pares(tlb) : x[1] \in Paginas /\ (Verdad(q, x) \/ (Reemplazando /\ x[2] = cpu.marco))
      BY <1>1, <2>3, ParesDePaginas DEF TlbFiel
    <3>3. \A x \in Pares(tlb) : \/ pagina'[q][x[1]].presencia = 1 /\ pagina'[q][x[1]].marco = x[2]
                                \/ Reemplazando /\ x[2] = cpu.marco
      BY <3>1, <3>2 DEF Verdad
    <3>4. Reemplazando => cpu.fase = "carga"
      BY <2>3 DEF TlbFiel
    <3>5. Reemplazando' <=> Reemplazando
      BY <2>1 DEF Reemplazando
    <3> HIDE DEF Reemplazando
    <3> QED BY <2>1, <3>3, <3>4, <3>5 DEF TlbFiel, Verdad, Presente
  <2> QED BY <2>2, <2>3
<1> QED BY <1>2, <1>3, <1>4, <1>5, <1>6, <1>7, <1>8, <1>9, <1>10, <1>11 DEF AccionDeMmu

\* Stuttering.
LEMMA TlbFielSinPaso == TlbFiel /\ UNCHANGED todas => TlbFiel'
<1> SUFFICES ASSUME TlbFiel, UNCHANGED todas PROVE TlbFiel'
  OBVIOUS
<1>1. UNCHANGED vars /\ mmu' = mmu /\ tlb' = tlb
  BY DEF todas, mmuVars
<1> QED BY <1>1 DEF TlbFiel, Pares, Presente, Verdad, Reemplazando, vars

\* At the start it says nothing.
LEMMA TlbFielAlEmpezar == MmuInit => TlbFiel
BY OciosaTipo DEF MmuInit, TlbFiel

\* What EntradasFieles asks for.
LEMMA FielEsFiel == TlbFiel => EntradasFieles
<1> SUFFICES ASSUME TlbFiel, mmu.fase \in {"busca", "copia"}, NEW i \in DOMAIN tlb
             PROVE  Presente(mmu.pid, tlb[i].pagina) /\ pagina[mmu.pid][tlb[i].pagina].marco = tlb[i].marco
  BY DEF EntradasFieles
<1>1. <<tlb[i].pagina, tlb[i].marco>> \in Pares(tlb)
  BY DEF Pares
<1> QED BY <1>1 DEF TlbFiel, Verdad, Reemplazando

----------------------------------------------------------------------------
(* The composition without replacement.                                    *)

\* The inductive invariant when nothing is replaced.
MmuOrdenada == FuerteMmu /\ Ordenada /\ TlbFiel

\* The composition keeps its invariant, and shows memory's promise.
LEMMA MmuOrdenadaPaso ==
  ASSUME SinReemplazo
  PROVE  MmuOrdenada /\ [MmuNext]_todas => MmuOrdenada' /\ [Ideal!Next]_(Ideal!vars)
<1> SUFFICES ASSUME MmuOrdenada, [MmuNext]_todas PROVE MmuOrdenada' /\ [Ideal!Next]_(Ideal!vars)
  OBVIOUS
<1>1. FuerteMmu'
  BY MmuPaso DEF MmuOrdenada
<1>2. ASSUME UNCHANGED vars PROVE Ordenada' /\ [Ideal!Next]_(Ideal!vars)
  <2>1. Contenido' = Contenido /\ Terminados' = Terminados /\ respuesta' = respuesta
    BY <1>2 DEF vars, Contenido, EnRam, Presente, Terminados
  <2> QED BY <1>2, <2>1, OrdenadaSinPaso DEF MmuOrdenada, Ideal!vars
<1>3. ASSUME PasoFiel PROVE Ordenada' /\ [Ideal!Next]_(Ideal!vars)
  <2>1. PICK p \in Procesos : Movimiento(p)
    BY <1>3, NadaSeReemplaza DEF MmuOrdenada
  <2>2. [Ideal!Next]_(Ideal!vars)
    BY <2>1, PasoIdeal DEF MmuOrdenada
  <2>3. Ordenada'
    BY <1>3, OrdenadaSeConserva DEF MmuOrdenada
  <2> QED BY <2>2, <2>3
<1>4. CASE MmuNext
  <2> PICK p \in Procesos : AccionDeMmu(p)
    BY <1>4, AccionesDeMmu
  <2>1. MmuFiel
    BY DEF MmuOrdenada, Ordenada, MmuFiel, SinReloj, PedidoAusente
  <2>2. ~RelojReemplaza(p)
    BY DEF MmuOrdenada, Ordenada, SinReloj, RelojReemplaza
  <2>3. Ordenada' /\ [Ideal!Next]_(Ideal!vars)
    BY <1>2, <1>3, <2>1, MmuEsFiel
  <2>4. TlbFiel'
    BY <2>1, <2>2, TlbFielSeConserva
  <2> QED BY <1>1, <2>3, <2>4 DEF MmuOrdenada
<1>5. CASE UNCHANGED todas
  <2>1. UNCHANGED vars
    BY <1>5 DEF todas
  <2>2. TlbFiel'
    BY <1>5, TlbFielSinPaso DEF MmuOrdenada
  <2> QED BY <1>1, <1>2, <2>1, <2>2 DEF MmuOrdenada
<1> QED BY <1>4, <1>5

\* The initial state has it, and is the initial state of MemoriaIdeal.
LEMMA MmuOrdenadaAlEmpezar == MmuInit => MmuOrdenada /\ Ideal!Init
BY MmuAlEmpezar, OrdenadaAlEmpezar, InicioIdeal, TlbFielAlEmpezar DEF MmuInit, MmuOrdenada

\* It always holds.
LEMMA MmuOrdenadaSiempre == ASSUME SinReemplazo PROVE MmuSpec => []MmuOrdenada
<1>1. MmuOrdenada /\ [MmuNext]_todas => MmuOrdenada'
  BY MmuOrdenadaPaso
<1>2. MmuInit => MmuOrdenada
  BY MmuOrdenadaAlEmpezar
<1> QED BY <1>1, <1>2, PTL DEF MmuSpec

\* Without replacement, every entry the CPU may look up says what the tables of the
\* process that runs say, though entries name no process (obtener_direccion_fisica).
THEOREM TlbDiceLaVerdad == ASSUME SinReemplazo PROVE MmuSpec => []EntradasFieles
<1>1. MmuOrdenada => EntradasFieles
  BY FielEsFiel DEF MmuOrdenada
<1> QED BY <1>1, MmuOrdenadaSiempre, PTL

\* Without replacement, a frame holds one loaded page at most, with the CPU in front
\* of memory (atender_cpu, suspender_proceso).
THEOREM MmuPaginasPorMarco == ASSUME SinReemplazo PROVE MmuSpec => []UnaPaginaPorMarco
<1>1. MmuOrdenada => UnaPaginaPorMarco
  BY DEF MmuOrdenada, Ordenada
<1> QED BY <1>1, MmuOrdenadaSiempre, PTL

\* Without replacement, a loaded page is in a frame assigned to its process in this
\* stay, with the CPU in front of memory.
THEOREM MmuEnSusMarcos == ASSUME SinReemplazo PROVE MmuSpec => []ReemplazosLocales
<1>1. MmuOrdenada => ReemplazosLocales
  BY DEF MmuOrdenada, Ordenada
<1> QED BY <1>1, MmuOrdenadaSiempre, PTL

\* Without replacement, the frame a translation ends with, from the TLB or from
\* memory, is the one of the page, and pages out of memory are whole in swap.
THEOREM MmuEnOrden == ASSUME SinReemplazo PROVE MmuSpec => []MemoriaEnOrden
<1>1. MmuOrdenada => MemoriaEnOrden
  BY DEF MmuOrdenada, Ordenada, Fuerte, MemoriaEnOrden
<1> QED BY <1>1, MmuOrdenadaSiempre, PTL

\* Without replacement, what the instructions of programs read, through the TLB or
\* not, is what was last written to the page (leer_posicion_de_memoria,
\* escribir_en_posicion_de_memoria).
THEOREM MmuImplementaIdeal == ASSUME SinReemplazo PROVE MmuSpec => CumpleIdeal
<1>1. MmuOrdenada /\ [MmuNext]_todas => [Ideal!Next]_(Ideal!vars)
  BY MmuOrdenadaPaso
<1>2. MmuInit => Ideal!Init
  BY MmuOrdenadaAlEmpezar
<1> QED BY <1>1, <1>2, MmuOrdenadaSiempre, PTL DEF MmuSpec, CumpleIdeal, Ideal!Spec

----------------------------------------------------------------------------
(* The composition with replacement.                                       *)

\* The inductive invariant with replacements, while places and frames are aligned.
MmuReloj == FuerteMmu /\ ConReloj /\ TlbFiel

\* A step keeps it.
LEMMA MmuRelojPaso == MmuReloj /\ LugaresAlineados /\ [MmuNext]_todas => MmuReloj'
<1> SUFFICES ASSUME MmuReloj, LugaresAlineados, [MmuNext]_todas PROVE MmuReloj'
  OBVIOUS
<1>1. FuerteMmu'
  BY MmuPaso DEF MmuReloj
<1>2. CASE MmuNext
  <2> PICK p \in Procesos : AccionDeMmu(p)
    BY <1>2, AccionesDeMmu
  <2>1. MmuFiel
    BY DEF MmuReloj, ConReloj, MmuFiel
  <2>2. ConReloj'
    BY <2>1, MmuEsFiel, ConRelojSeConserva, ConRelojSinPaso DEF MmuReloj
  <2>3. TlbFiel'
    BY <2>1, TlbFielSeConserva DEF MmuReloj
  <2> QED BY <1>1, <2>2, <2>3 DEF MmuReloj
<1>3. CASE UNCHANGED todas
  <2>1. UNCHANGED vars
    BY <1>3 DEF todas
  <2> QED BY <1>1, <1>3, <2>1, TlbFielSinPaso, ConRelojSinPaso DEF MmuReloj
<1> QED BY <1>2, <1>3

\* The initial state has it.
LEMMA MmuRelojAlEmpezar == MmuInit => MmuReloj
BY MmuAlEmpezar, ConRelojAlEmpezar, TlbFielAlEmpezar DEF MmuInit, MmuReloj

\* It always holds.
LEMMA MmuRelojSiempre == MmuSpec /\ []LugaresAlineados => []MmuReloj
BY MmuRelojPaso, MmuRelojAlEmpezar, PTL DEF MmuSpec

\* With replacement, while places have the frames of their numbers, no entry of the
\* TLB outlives the page it was of: a replacement renames the entries of its frame
\* before the CPU looks in the TLB again (actualizar_TLB).
THEOREM TlbTrasReemplazos == MmuSpec /\ []LugaresAlineados => []EntradasFieles
<1>1. MmuReloj => EntradasFieles
  BY FielEsFiel DEF MmuReloj
<1> QED BY <1>1, MmuRelojSiempre, PTL

\* Under the same condition, the loaded pages of a process in memory are in all its
\* frames and in no other, whatever the CPU replaces (reemplazar_marco).
THEOREM MmuUsaSusMarcos == MmuSpec /\ []LugaresAlineados => []MarcosEnUso
<1>1. MmuReloj => MarcosEnUso
  BY LosMarcosEnUso DEF MmuReloj, ConReloj, Fuerte
<1> QED BY <1>1, MmuRelojSiempre, PTL

\* Under the same condition, pages are replaced in frames of their own process.
THEOREM MmuReemplazaLoSuyo == MmuSpec /\ []LugaresAlineados => []ReemplazosLocales
<1>1. MmuReloj => ReemplazosLocales
  BY DEF MmuReloj, ConReloj
<1> QED BY <1>1, MmuRelojSiempre, PTL

\* One process that is not resumed keeps places and frames aligned.
THEOREM MmuUnoSoloAlinea == ASSUME UnSoloProceso PROVE MmuSpec => []LugaresAlineados
<1>1. FuerteMmu /\ PorOrden /\ [MmuNext]_todas => PorOrden'
  <2> SUFFICES ASSUME FuerteMmu, PorOrden, [MmuNext]_todas PROVE PorOrden'
    OBVIOUS
  <2>1. CASE MmuNext
    <3> PICK p \in Procesos : AccionDeMmu(p)
      BY <2>1, AccionesDeMmu
    <3>1. Paso \/ UNCHANGED vars
      BY MmuEsPaso DEF PasoDeMmu, Paso
    <3> QED BY <3>1, PorOrdenSeConserva, PorOrdenSinPaso DEF FuerteMmu
  <2>2. CASE UNCHANGED todas
    BY <2>2, PorOrdenSinPaso DEF todas
  <2> QED BY <2>1, <2>2
<1>2. FuerteMmu /\ PorOrden => LugaresAlineados
  BY PorOrdenAlinea DEF FuerteMmu, Fuerte
<1>3. MmuInit => PorOrden
  BY PorOrdenAlEmpezar DEF MmuInit
<1> QED BY <1>1, <1>2, <1>3, MmuFuerteSiempre, PTL DEF MmuSpec

\* One process that is not resumed: a replacement uses its frames, all of them, and
\* leaves no entry in the TLB that is false.
THEOREM UnoSoloConTlb == ASSUME UnSoloProceso PROVE MmuSpec => [](MarcosEnUso /\ EntradasFieles)
BY MmuUnoSoloAlinea, MmuUsaSusMarcos, TlbTrasReemplazos, PTL

----------------------------------------------------------------------------
(* LRU.                                                                    *)

\* Ranks keep the order of the timestamps.
LEMMA RangosOrdenan ==
  ASSUME NEW t, ColaCruda(t), algoritmo_tlb # "FIFO",
         NEW i \in DOMAIN t, NEW j \in DOMAIN t, t[i].ts < t[j].ts
  PROVE  EnRangos(t)[i].ts < EnRangos(t)[j].ts
<1> DEFINE D == DOMAIN t
           R(k) == {t[l].ts : l \in {h \in D : t[h].ts <= t[k].ts}}
           T == {t[l].ts : l \in D}
<1>1. D = 1 .. Len(t) /\ Len(t) \in Nat /\ \A k \in D : t[k] \in EntradaCruda /\ t[k].ts \in Nat
  <2>1. D = 1 .. Len(t) /\ Len(t) \in Nat /\ \A k \in D : t[k] \in EntradaCruda
    BY DEF ColaCruda
  <2>2. Ahora \in Nat
    BY TlbAssumption DEF Ahora
  <2>3. \A c \in EntradaCruda : c.ts \in Nat
    BY <2>2 DEF EntradaCruda
  <2> QED BY <2>1, <2>3
<1>2. IsFiniteSet(T)
  <2>1. IsFiniteSet(D)
    BY <1>1, FS_Interval
  <2> DEFINE f == [l \in D |-> t[l].ts]
  <2>2. f \in Surjection(D, T)
    BY DEF Surjection
  <2> QED BY <2>1, <2>2, FS_Surjection
<1>3. R(j) \subseteq T /\ R(i) \subseteq R(j) /\ t[j].ts \in R(j) /\ t[j].ts \notin R(i)
  BY <1>1
<1>4. \A k \in D : EnRangos(t)[k].ts = Cardinality(R(k))
  <2> SUFFICES ASSUME NEW k \in D PROVE EnRangos(t)[k].ts = Cardinality(R(k))
    OBVIOUS
  <2>1. EnRangos(t)[k] = [t[k] EXCEPT !.ts = Cardinality(R(k))]
    BY DEF EnRangos
  <2> HIDE DEF R
  <2>2. \A c : [t[k] EXCEPT !.ts = c].ts = c
    BY <1>1 DEF EntradaCruda
  <2> QED BY <2>1, <2>2
<1> HIDE DEF R, T
<1>5. IsFiniteSet(R(j)) /\ IsFiniteSet(R(i)) /\ Cardinality(R(i)) <= Cardinality(R(j))
      /\ (Cardinality(R(i)) = Cardinality(R(j)) => R(i) = R(j))
  <2>1. IsFiniteSet(R(j))
    BY <1>2, <1>3, FS_Subset
  <2> QED BY <1>3, <2>1, FS_Subset
<1>6. Cardinality(R(i)) \in Nat /\ Cardinality(R(j)) \in Nat
  BY <1>5, FS_CardinalityType
<1> QED BY <1>3, <1>4, <1>5, <1>6

\* The pages of a queue, and that the page n was used last among them.
PaginasDe(t) == {t[i].pagina : i \in DOMAIN t}
Reciente(n, t) ==
  \A i \in DOMAIN t : t[i].pagina = n \/ \E j \in DOMAIN t : t[j].pagina = n /\ t[i].ts < t[j].ts

\* The pages of a queue are those of its pairs.
LEMMA PaginasDePares == \A t : PaginasDe(t) = {x[1] : x \in Pares(t)}
<1> SUFFICES ASSUME NEW t PROVE PaginasDe(t) = {x[1] : x \in Pares(t)}
  OBVIOUS
<1>1. \A i \in DOMAIN t : /\ <<t[i].pagina, t[i].marco>> \in Pares(t)
                          /\ <<t[i].pagina, t[i].marco>>[1] = t[i].pagina
  BY DEF Pares
<1>2. PaginasDe(t) \subseteq {x[1] : x \in Pares(t)}
  BY <1>1 DEF PaginasDe
<1>3. {x[1] : x \in Pares(t)} \subseteq PaginasDe(t)
  BY DEF PaginasDe, Pares
<1> QED BY <1>2, <1>3

\* Ranking the timestamps keeps the page used last.
LEMMA RangosRecientes ==
  ASSUME NEW t, ColaCruda(t), algoritmo_tlb # "FIFO", NEW n, Reciente(n, t)
  PROVE  Reciente(n, EnRangos(t)) /\ PaginasDe(EnRangos(t)) = PaginasDe(t)
<1>1. DOMAIN EnRangos(t) = DOMAIN t /\ \A i \in DOMAIN t : EnRangos(t)[i].pagina = t[i].pagina
  BY RangosDeTlb DEF ColaCruda
<1>2. Reciente(n, EnRangos(t))
  BY <1>1, RangosOrdenan DEF Reciente
<1> QED BY <1>1, <1>2 DEF PaginasDe

\* The timestamp of now is later than those of the TLB.
LEMMA AhoraEsUltimo == ASSUME TlbTipo PROVE \A i \in DOMAIN tlb : tlb[i].ts < Ahora
BY DeTlb, TlbAssumption DEF Ahora

\* A hit makes its page the last one used.
LEMMA AciertoReciente ==
  ASSUME TlbTipo, algoritmo_tlb # "FIFO", NEW n \in Paginas, esta_en_TLB(n)
  PROVE  Reciente(n, Referenciada(n))
<1> DEFINE e(i) == IF i \in EntradasDe(n) THEN [tlb[i] EXCEPT !.ts = Ahora] ELSE tlb[i]
           t == [i \in DOMAIN tlb |-> e(i)]
<1>1. Ahora \in 0 .. Ahora
  BY TlbAssumption DEF Ahora
<1>2. \A i \in DOMAIN tlb : /\ e(i) \in EntradaCruda /\ e(i).pagina = tlb[i].pagina
                            /\ e(i).ts = IF tlb[i].pagina = n THEN Ahora ELSE tlb[i].ts
  BY <1>1, DeTlb DEF EntradaCruda, EntradasDe
<1>3. PICK j \in DOMAIN tlb : tlb[j].pagina = n
  BY DEF esta_en_TLB, EntradasDe
<1> HIDE DEF e
<1>4. t = [i \in 1 .. Len(tlb) |-> e(i)] /\ Len(tlb) \in Nat
  BY DeTlb
<1>5. ColaCruda(t) /\ DOMAIN t = DOMAIN tlb
  BY <1>2, <1>4, DeTlb DEF ColaCruda, TlbTipo
<1>6. Reciente(n, t)
  <2> SUFFICES ASSUME NEW i \in DOMAIN tlb, tlb[i].pagina # n PROVE e(i).ts < e(j).ts /\ e(j).pagina = n
    BY <1>2, <1>5 DEF Reciente
  <2> QED BY <1>2, <1>3, AhoraEsUltimo
<1>7. Referenciada(n) = EnRangos(t)
  BY DEF Referenciada, e
<1> QED BY <1>5, <1>6, <1>7, RangosRecientes

\* So does an update, if the page had no entry before and gets one.
LEMMA ActualizarReciente ==
  ASSUME TlbTipo, algoritmo_tlb # "FIFO", NEW n \in Paginas, NEW m \in Marcos, ~esta_en_TLB(n),
         n \in PaginasDe(actualizar_TLB(n, m))
  PROVE  Reciente(n, actualizar_TLB(n, m))
<1> DEFINE e(i) == IF tlb[i].marco = m THEN [pagina |-> n, marco |-> m, ts |-> Ahora] ELSE tlb[i]
           t == [i \in DOMAIN tlb |-> e(i)]
<1>1. [pagina |-> n, marco |-> m, ts |-> Ahora] \in EntradaCruda
  BY TlbAssumption DEF EntradaCruda, Ahora
<1>2. \A i \in DOMAIN tlb : e(i) \in EntradaCruda /\ \/ e(i).pagina = n /\ e(i).ts = Ahora
                                                     \/ e(i) = tlb[i] /\ tlb[i].pagina # n
  BY <1>1, DeTlb DEF esta_en_TLB, EntradasDe
<1>3. actualizar_TLB(n, m) = EnRangos(t)
  BY DEF actualizar_TLB
<1> HIDE DEF e
<1>4. t = [i \in 1 .. Len(tlb) |-> e(i)] /\ Len(tlb) \in Nat
  BY DeTlb
<1>5. ColaCruda(t) /\ DOMAIN t = DOMAIN tlb
  BY <1>2, <1>4, DeTlb DEF ColaCruda, TlbTipo
<1>6. DOMAIN EnRangos(t) = DOMAIN t /\ \A i \in DOMAIN t : EnRangos(t)[i].pagina = t[i].pagina
  BY <1>5, RangosDeTlb DEF ColaCruda
<1>7. PICK j \in DOMAIN tlb : e(j).pagina = n
  BY <1>3, <1>5, <1>6 DEF PaginasDe
<1>8. Reciente(n, t)
  <2> SUFFICES ASSUME NEW i \in DOMAIN tlb, e(i).pagina # n PROVE e(i).ts < e(j).ts
    BY <1>5, <1>7 DEF Reciente
  <2> QED BY <1>2, <1>7, AhoraEsUltimo
<1> QED BY <1>3, <1>5, <1>8, RangosRecientes

\* The entry held apart by algoritmo_LRU stays the oldest, or the next one is.
LEMMA MasAntiguaSigue ==
  ASSUME TlbTipo, NEW k \in 1 .. Len(tlb) - 1
  PROVE  MasAntigua(k + 1) \in {MasAntigua(k), k + 1}
<1>1. k \in 1 .. Len(tlb) /\ k + 1 \in 1 .. Len(tlb) /\ Len(tlb) \in Nat
  BY DeTlb
<1> PICK a \in 1 .. k, b \in 1 .. k + 1 : a = MasAntigua(k) /\ b = MasAntigua(k + 1)
  BY <1>1, DeMasAntigua
<1>2. \A j \in 1 .. k : tlb[a].ts < tlb[j].ts \/ (tlb[a].ts = tlb[j].ts /\ a <= j)
  BY <1>1, DeMasAntigua
<1>3. \A j \in 1 .. k + 1 : tlb[b].ts < tlb[j].ts \/ (tlb[b].ts = tlb[j].ts /\ b <= j)
  BY <1>1, DeMasAntigua
<1>4. \A j \in 1 .. k + 1 : tlb[j].ts \in Nat
  BY <1>1, DeTlb
<1>5. CASE b \in 1 .. k
  <2>1. a \in 1 .. k + 1
    BY <1>1, <1>2
  <2>2. tlb[b].ts < tlb[a].ts \/ (tlb[b].ts = tlb[a].ts /\ b <= a)
    BY <1>1, <1>3, <2>1
  <2>3. tlb[a].ts < tlb[b].ts \/ (tlb[a].ts = tlb[b].ts /\ a <= b)
    BY <1>1, <1>2, <1>5
  <2>4. tlb[a].ts \in Nat /\ tlb[b].ts \in Nat /\ a \in Nat /\ b \in Nat
    BY <1>2, <1>3, <1>4, <2>1
  <2> QED BY <2>2, <2>3, <2>4
<1> QED BY <1>1, <1>5

\* algoritmo_LRU puts the new entry last, keeps every entry but the oldest, and adds
\* no other.
LEMMA LruSacaLaMasAntigua ==
  ASSUME TlbTipo, Len(tlb) > 0, NEW e \in EntradaCruda
  PROVE  LET t == algoritmo_LRU(e) IN
           /\ DOMAIN t = DOMAIN tlb /\ t[Len(tlb)] = e
           /\ \A k \in DOMAIN tlb : k = Len(tlb) \/ \E i \in DOMAIN tlb : t[k] = tlb[i]
           /\ \A i \in DOMAIN tlb : i = MasAntigua(Len(tlb)) \/ \E k \in DOMAIN tlb : t[k] = tlb[i]
<1>0. Len(tlb) \in Nat \ {0}
  BY DeTlb
<1> PICK L \in Nat \ {0} : L = Len(tlb)
  BY <1>0
<1> DEFINE s == [k \in 1 .. L - 1 |-> IF MasAntigua(k + 1) = k + 1 THEN tlb[MasAntigua(k)] ELSE tlb[k + 1]]
           t == algoritmo_LRU(e)
<1>1. DOMAIN tlb = 1 .. L
  BY DeTlb
<1>2. t = Append(s, e)
  BY DEF algoritmo_LRU
<1>3. \A k \in 1 .. L - 1 : s[k] = IF MasAntigua(k + 1) = k + 1 THEN tlb[MasAntigua(k)] ELSE tlb[k + 1]
  OBVIOUS
<1>4. \A k \in 1 .. L - 1 : \E i \in DOMAIN tlb : s[k] = tlb[i]
  <2> SUFFICES ASSUME NEW k \in 1 .. L - 1 PROVE \E i \in DOMAIN tlb : s[k] = tlb[i]
    OBVIOUS
  <2>1. k \in 1 .. L /\ k + 1 \in 1 .. L
    BY <1>1
  <2>2. MasAntigua(k) \in 1 .. k
    BY <2>1, DeMasAntigua
  <2>3. MasAntigua(k) \in DOMAIN tlb
    BY <1>1, <2>1, <2>2
  <2> QED BY <1>1, <1>3, <2>1, <2>3
<1>5. s = [k \in 1 .. L - 1 |-> s[k]]
  OBVIOUS
<1> HIDE DEF s, t
<1>6. s \in Seq(EntradaCruda) /\ Len(s) = L - 1
  BY <1>1, <1>4, <1>5, DeTlb
<1>7. DOMAIN t = 1 .. L /\ t[L] = e /\ \A k \in 1 .. L - 1 : t[k] = s[k]
  <2>1. Append(s, e) \in Seq(EntradaCruda) /\ Len(Append(s, e)) = Len(s) + 1
    BY <1>6
  <2>2. Len(t) = L /\ t \in Seq(EntradaCruda)
    BY <1>1, <1>2, <1>6, <2>1
  <2>3. t[L] = e
    BY <1>1, <1>2, <1>6
  <2>4. \A k \in 1 .. L - 1 : t[k] = s[k]
    BY <1>1, <1>2, <1>6
  <2> QED BY <2>2, <2>3, <2>4
<1>8. ASSUME NEW i \in 1 .. L, i # MasAntigua(L) PROVE \E k \in 1 .. L - 1 : s[k] = tlb[i]
  <2>1. CASE MasAntigua(i) # i
    <3>1. i - 1 \in 1 .. L - 1
      <4>1. MasAntigua(i) \in 1 .. i
        BY <1>1, DeMasAntigua
      <4>2. i # 1
        BY <2>1, <4>1
      <4> QED BY <1>1, <4>2
    <3>2. (i - 1) + 1 = i
      BY <1>1
    <3>3. s[i - 1] = tlb[i]
      BY <1>3, <2>1, <3>1, <3>2
    <3> QED BY <3>1, <3>3
  <2>2. CASE MasAntigua(i) = i
    <3> DEFINE S == {k \in 1 .. L : i < k /\ MasAntigua(k) # i}
    <3>1. L \in S /\ S \in SUBSET Nat
      <4>1. L # i /\ L \in 1 .. L /\ S \in SUBSET Nat
        BY <1>1, <1>8, <2>2
      <4>2. i < L
        BY <1>1, <4>1
      <4> QED BY <1>8, <4>1, <4>2
    <3>2. Minimo(S) \in S /\ \A y \in S : Minimo(S) <= y
      BY <3>1, MinimoDe
    <3>3. PICK k \in 1 .. L : k = Minimo(S) /\ i < k /\ MasAntigua(k) # i
      BY <3>2
    <3>4. k - 1 \in 1 .. L - 1 /\ (k - 1) + 1 = k /\ k - 1 \in 1 .. L
      BY <1>1, <3>3
    <3>5. MasAntigua(k - 1) = i
      <4>1. CASE k - 1 = i
        BY <2>2, <4>1
      <4>2. CASE k - 1 # i
        <5>1. k - 1 \notin S
          BY <3>2, <3>3, <3>4
        <5>2. i < k - 1
          BY <1>1, <3>3, <4>2
        <5> QED BY <3>4, <5>1, <5>2
      <4> QED BY <4>1, <4>2
    <3>6. MasAntigua(k) = k
      <4>1. MasAntigua((k - 1) + 1) \in {MasAntigua(k - 1), (k - 1) + 1}
        BY <3>4, MasAntiguaSigue
      <4> QED BY <3>3, <3>4, <3>5, <4>1
    <3>7. s[k - 1] = tlb[i]
      BY <1>3, <3>4, <3>5, <3>6
    <3> QED BY <3>4, <3>7
  <2> QED BY <2>1, <2>2
<1>9. \A k \in DOMAIN tlb : k = L \/ \E i \in DOMAIN tlb : t[k] = tlb[i]
  <2> SUFFICES ASSUME NEW k \in 1 .. L, k # L PROVE \E i \in DOMAIN tlb : t[k] = tlb[i]
    BY <1>1
  <2>1. k \in 1 .. L - 1
    BY <1>1
  <2> QED BY <1>4, <1>7, <2>1
<1>10. \A i \in DOMAIN tlb : i = MasAntigua(L) \/ \E k \in DOMAIN tlb : t[k] = tlb[i]
  <2> SUFFICES ASSUME NEW i \in 1 .. L, i # MasAntigua(L) PROVE \E k \in 1 .. L : t[k] = tlb[i]
    BY <1>1
  <2>1. PICK k \in 1 .. L - 1 : s[k] = tlb[i]
    BY <1>8
  <2>2. k \in 1 .. L
    BY <1>1
  <2> QED BY <1>7, <2>1, <2>2
<1> QED BY <1>1, <1>7, <1>9, <1>10 DEF t

\* The queue guardar_en_TLB leaves before its timestamps become ranks.
ColaGuardada(nueva) ==
  IF Len(tlb) < CantEntradasTlb THEN Append(tlb, nueva) ELSE algoritmo_LRU(nueva)

\* It has the new entry, and all its others are entries of the TLB.
LEMMA DeColaGuardada ==
  ASSUME TlbTipo, NEW e \in EntradaCruda
  PROVE  LET t == ColaGuardada(e) IN
           /\ ColaCruda(t)
           /\ \E k \in DOMAIN t : /\ t[k] = e
                                  /\ \A i \in DOMAIN t : i = k \/ \E j \in DOMAIN tlb : t[i] = tlb[j]
           /\ \A j \in DOMAIN tlb : \/ \E i \in DOMAIN t : t[i] = tlb[j]
                                    \/ Len(tlb) = CantEntradasTlb /\ j = MasAntigua(Len(tlb))
<1> DEFINE t == ColaGuardada(e)
<1>1. /\ tlb \in Seq(EntradaCruda) /\ Len(tlb) \in Nat
      /\ Len(tlb) <= CantEntradasTlb /\ CantEntradasTlb \in Nat \ {0}
  <2>1. tlb = [i \in 1 .. Len(tlb) |-> tlb[i]]
    BY DEF TlbTipo
  <2> QED BY <2>1, DeTlb, TlbAssumption DEF TlbTipo
<1>2. CASE Len(tlb) < CantEntradasTlb
  <2>1. t = Append(tlb, e)
    BY <1>2 DEF ColaGuardada
  <2> HIDE DEF t
  <2>2. ColaCruda(t) /\ Len(t) = Len(tlb) + 1 /\ DOMAIN t = 1 .. Len(tlb) + 1
    BY <1>1, <1>2, <2>1 DEF ColaCruda
  <2>3. t[Len(tlb) + 1] = e /\ \A i \in 1 .. Len(tlb) : t[i] = tlb[i]
    BY <1>1, <2>1
  <2>4. DOMAIN tlb = 1 .. Len(tlb) /\ Len(tlb) + 1 \in DOMAIN t
        /\ \A i \in DOMAIN t : i = Len(tlb) + 1 \/ i \in DOMAIN tlb
    BY <1>1, <2>2
  <2>5. \A i \in DOMAIN tlb : i \in DOMAIN t
    BY <1>1, <2>2
  <2> QED BY <2>2, <2>3, <2>4, <2>5 DEF t
<1>3. CASE ~(Len(tlb) < CantEntradasTlb)
  <2>1. t = algoritmo_LRU(e) /\ Len(tlb) > 0 /\ Len(tlb) = CantEntradasTlb
    BY <1>1, <1>3 DEF ColaGuardada
  <2>2. ColaCruda(t)
    BY <2>1, DeLru
  <2>3. Len(tlb) \in DOMAIN tlb
    BY <1>1, <2>1
  <2> QED BY <2>1, <2>2, <2>3, LruSacaLaMasAntigua
<1> QED BY <1>2, <1>3

\* Storing a page makes it the last one used, and throws out only one entry: with
\* room for two, never the last of the page used before.
LEMMA GuardarReciente ==
  ASSUME TlbTipo, algoritmo_tlb # "FIFO", NEW n \in Paginas, NEW m \in Marcos
  PROVE  /\ Reciente(n, guardar_en_TLB(n, m))
         /\ CantEntradasTlb > 1 =>
              \A u \in PaginasDe(tlb) : Reciente(u, tlb) => u \in PaginasDe(guardar_en_TLB(n, m))
<1> DEFINE e == [pagina |-> n, marco |-> m, ts |-> Ahora]
           t == ColaGuardada(e)
           L == Len(tlb)
<1>1. e \in EntradaCruda /\ e.pagina = n /\ e.ts = Ahora
  BY TlbAssumption DEF EntradaCruda, Ahora
<1>2. guardar_en_TLB(n, m) = EnRangos(t)
  BY DEF guardar_en_TLB, ColaGuardada
<1> HIDE DEF e
<1>3. /\ ColaCruda(t)
      /\ \E k \in DOMAIN t : /\ t[k] = e
                             /\ \A i \in DOMAIN t : i = k \/ \E j \in DOMAIN tlb : t[i] = tlb[j]
      /\ \A j \in DOMAIN tlb : \/ \E i \in DOMAIN t : t[i] = tlb[j]
                               \/ L = CantEntradasTlb /\ j = MasAntigua(L)
  BY <1>1, DeColaGuardada
<1> HIDE DEF t
<1>4. Reciente(n, t)
  BY <1>1, <1>3, AhoraEsUltimo DEF Reciente
<1>5. Reciente(n, EnRangos(t)) /\ PaginasDe(EnRangos(t)) = PaginasDe(t)
  BY <1>3, <1>4, RangosRecientes
<1>6. ASSUME CantEntradasTlb > 1, NEW u \in PaginasDe(tlb), Reciente(u, tlb) PROVE u \in PaginasDe(t)
  <2>1. \E j \in DOMAIN tlb : tlb[j].pagina = u /\ ~(L = CantEntradasTlb /\ j = MasAntigua(L))
    <3>1. PICK j \in DOMAIN tlb : tlb[j].pagina = u
      BY DEF PaginasDe
    <3>2. CASE L = CantEntradasTlb /\ j = MasAntigua(L)
      <4>1. L \in Nat /\ L > 1 /\ DOMAIN tlb = 1 .. L /\ L \in 1 .. L
        BY <1>6, <3>2, DeTlb
      <4>2. \A i \in 1 .. L : tlb[j].ts < tlb[i].ts \/ (tlb[j].ts = tlb[i].ts /\ j <= i)
        BY <3>2, <4>1, DeMasAntigua
      <4>3. PICK i \in 1 .. L : i # j
        <5>1. 1 \in 1 .. L /\ 2 \in 1 .. L
          BY <4>1
        <5> QED BY <5>1
      <4>4. CASE tlb[i].pagina = u
        BY <3>2, <4>1, <4>3, <4>4
      <4>5. CASE tlb[i].pagina # u
        <5>1. PICK k \in DOMAIN tlb : tlb[k].pagina = u /\ tlb[i].ts < tlb[k].ts
          BY <1>6, <4>1, <4>3, <4>5 DEF Reciente
        <5>2. k # j
          BY <4>1, <4>2, <5>1, DeTlb
        <5> QED BY <3>2, <5>1, <5>2
      <4> QED BY <4>4, <4>5
    <3> QED BY <3>1, <3>2
  <2>2. PICK j \in DOMAIN tlb : tlb[j].pagina = u /\ ~(L = CantEntradasTlb /\ j = MasAntigua(L))
    BY <2>1
  <2>3. PICK i \in DOMAIN t : t[i] = tlb[j]
    BY <1>3, <2>2
  <2> QED BY <2>2, <2>3 DEF PaginasDe
<1> QED BY <1>2, <1>5, <1>6

\* What LRU keeps: if the page translated last is in the TLB it is the one used last
\* of all; and the page memory is asked for is not in the TLB.
Ultima ==
  algoritmo_tlb # "FIFO" =>
    /\ mmu.pag \in PaginasDe(tlb) => Reciente(mmu.pag, tlb)
    /\ mmu.fase = "pide" => ~esta_en_TLB(cpu.pag)

\* The property of one step.
Queda == \A p \in Procesos :
           mmu.pid = p /\ mmu'.pid = p /\ algoritmo_tlb = "LRU" /\ CantEntradasTlb > 1
             /\ mmu'.fase = "opera" /\ mmu'.codigo # "REEMPLAZO_DE_PAGINA"
             /\ mmu.pag \in PaginasEnTlb
           => mmu.pag \in PaginasEnTlb'

\* Every step keeps Ultima, and the page translated last.
LEMMA UltimaQueda ==
  ASSUME FuerteMmu, Ultima, NEW p \in Procesos, AccionDeMmu(p)
  PROVE  Ultima' /\ Queda
<1> USE DEF FuerteMmu
<1>1. mmu \in MmuTipo /\ TlbTipo /\ mmu.pag \in Paginas
  BY DEF MmuTipos, MmuTipo
<1>2. ASSUME tlb' = tlb PROVE PaginasEnTlb' = PaginasEnTlb
  BY <1>2 DEF PaginasEnTlb
<1>3. ASSUME tlb' = tlb, algoritmo_tlb' = algoritmo_tlb, mmu'.pag = mmu.pag,
             mmu'.fase = "pide" => mmu.fase = "pide" /\ cpu'.pag = cpu.pag
      PROVE  Ultima' /\ Queda
  <2>1. Queda
    BY <1>2, <1>3 DEF Queda
  <2>2. mmu'.fase = "pide" => (esta_en_TLB(cpu.pag)' <=> esta_en_TLB(cpu.pag))
    BY <1>3 DEF esta_en_TLB, EntradasDe
  <2> QED BY <1>3, <2>1, <2>2 DEF Ultima, PaginasDe, Reciente
<1>4. ASSUME algoritmo_tlb' = algoritmo_tlb, mmu'.fase # "pide",
             algoritmo_tlb # "FIFO" /\ mmu'.pag \in PaginasDe(tlb') => Reciente(mmu'.pag, tlb'), Queda
      PROVE  Ultima' /\ Queda
  BY <1>4 DEF Ultima, PaginasDe, Reciente
<1>5. PaginasEnTlb = PaginasDe(tlb) /\ PaginasEnTlb' = PaginasDe(tlb')
  BY DEF PaginasEnTlb, PaginasDe
<1>6. CASE RecibePcb(p)
  <2>1. tlb = <<>> /\ tlb' = tlb /\ mmu' = [Ociosa EXCEPT !.fase = "busca", !.pid = p]
        /\ algoritmo_tlb' = algoritmo_tlb
    BY <1>6 DEF RecibePcb, CpuDeLaMmu
  <2>2. mmu'.fase = "busca"
    BY <2>1, OciosaTipo DEF MmuTipo
  <2>3. Queda
    BY <2>2 DEF Queda
  <2>4. PaginasDe(tlb') = {}
    BY <2>1 DEF PaginasDe
  <2> QED BY <1>4, <2>1, <2>2, <2>3, <2>4
<1>7. CASE EnviaPcb(p)
  <2>1. mmu' = [mmu EXCEPT !.fase = "sale"] /\ tlb' = tlb /\ algoritmo_tlb' = algoritmo_tlb
    BY <1>7 DEF EnviaPcb
  <2>2. mmu'.fase = "sale" /\ mmu'.pag = mmu.pag
    BY <1>1, <2>1 DEF MmuTipo
  <2> QED BY <1>3, <2>1, <2>2
<1>8. CASE vaciar_tlb(p)
  <2>1. tlb' = <<>> /\ mmu' = Ociosa /\ algoritmo_tlb' = algoritmo_tlb
    BY <1>8 DEF vaciar_tlb
  <2>2. mmu'.fase = "ociosa" /\ PaginasDe(tlb') = {}
    BY <2>1, OciosaTipo DEF PaginasDe
  <2>3. Queda
    BY <2>2 DEF Queda
  <2> QED BY <1>4, <2>1, <2>2, <2>3
<1>9. ASSUME NEW op \in OperacionesPosibles, NEW d \in Direcciones, TraduceConTlb(p, op, d)
      PROVE  Ultima' /\ Queda
  <2> PICK n \in Paginas : n = numero_pagina(d)
    BY TraduccionDePagina
  <2>1. mmu' = [mmu EXCEPT !.fase = "opera", !.op = op, !.pag = n] /\ tlb' = Referenciada(n)
        /\ algoritmo_tlb' = algoritmo_tlb /\ esta_en_TLB(n)
    BY <1>9 DEF TraduceConTlb
  <2>2. mmu'.fase = "opera" /\ mmu'.pag = n
    BY <1>1, <2>1 DEF MmuTipo
  <2>3. algoritmo_tlb # "FIFO" => Reciente(n, tlb')
    BY <1>1, <2>1, AciertoReciente
  <2>4. PaginasDe(tlb') = PaginasDe(tlb)
    BY <1>1, <2>1, DeReferenciada, PaginasDePares
  <2>5. Queda
    BY <1>5, <2>4 DEF Queda
  <2> QED BY <1>4, <2>1, <2>2, <2>3, <2>5
<1>10. ASSUME NEW op \in OperacionesPosibles, NEW d \in Direcciones, TraduceCargada(p, op, d)
      PROVE  Ultima' /\ Queda
  <2> PICK n \in Paginas : n = numero_pagina(d) /\ PaginaTraducida(numero_pagina(d)) = n
    BY TraduccionDePagina
  <2>1. /\ mmu' = [mmu EXCEPT !.fase = "opera", !.op = op, !.pag = n, !.codigo = "ACCESO_A_2DA_TABLA"]
        /\ tlb' = guardar_en_TLB(n, cpu'.marco) /\ algoritmo_tlb' = algoritmo_tlb /\ AccesoPresente(p, n)
    BY <1>10 DEF TraduceCargada
  <2>2. mmu'.fase = "opera" /\ mmu'.pag = n
    BY <1>1, <2>1 DEF MmuTipo
  <2>3. cpu'.marco = pagina[p][n].marco /\ Presente(p, n)
    BY <2>1 DEF AccesoPresente, CpuLibre, Presente
  <2>4. PICK m \in Marcos : m = cpu'.marco
    BY <2>3, DelAcceso
  <2>5. algoritmo_tlb # "FIFO" => Reciente(n, tlb')
    BY <1>1, <2>1, <2>4, GuardarReciente
  <2>6. Queda
    <3> SUFFICES ASSUME algoritmo_tlb = "LRU", CantEntradasTlb > 1, mmu.pag \in PaginasDe(tlb)
                 PROVE  mmu.pag \in PaginasDe(tlb')
      BY <1>5 DEF Queda
    <3>1. Reciente(mmu.pag, tlb) /\ algoritmo_tlb # "FIFO"
      BY DEF Ultima
    <3> QED BY <1>1, <2>1, <2>4, <3>1, GuardarReciente
  <2> QED BY <1>4, <2>1, <2>2, <2>5, <2>6
<1>11. ASSUME NEW op \in OperacionesPosibles, NEW d \in Direcciones, TraducePidiendo(p, op, d)
      PROVE  Ultima' /\ Queda
  <2> PICK n \in Paginas : n = numero_pagina(d) /\ PaginaTraducida(numero_pagina(d)) = n
    BY TraduccionDePagina
  <2>1. /\ mmu' = [mmu EXCEPT !.fase = "pide", !.op = op, !.codigo = "ACCESO_A_2DA_TABLA"]
        /\ tlb' = tlb /\ algoritmo_tlb' = algoritmo_tlb /\ ~esta_en_TLB(n)
        /\ AccesoConLugar(p, n) \/ AccesoSinLugar(p, n)
    BY <1>11 DEF TraducePidiendo
  <2>2. mmu'.fase = "pide" /\ mmu'.pag = mmu.pag
    BY <1>1, <2>1 DEF MmuTipo
  <2>3. cpu'.pag = n
    <3>1. CASE AccesoConLugar(p, n)
      BY <3>1 DEF AccesoConLugar, CpuLibre
    <3>2. CASE AccesoSinLugar(p, n)
      BY <3>2 DEF AccesoSinLugar, CpuLibre
    <3> QED BY <2>1, <3>1, <3>2
  <2>4. ~esta_en_TLB(cpu.pag)'
    BY <2>1, <2>3 DEF esta_en_TLB, EntradasDe
  <2>5. Queda
    BY <2>2 DEF Queda
  <2> QED BY <2>1, <2>2, <2>4, <2>5 DEF Ultima, PaginasDe, Reciente
<1>12. CASE BuscaVictima(p) \/ AvisaReemplazo(p)
  <2>1. cpu.fase = "reloj" /\ cpu.pid = p /\ tlb' = tlb /\ algoritmo_tlb' = algoritmo_tlb
    BY <1>12 DEF BuscaVictima, AvisaReemplazo, RelojAvanza, RelojSinPagina, RelojReemplaza, mmuVars
  <2>2. mmu.fase = "pide"
    BY <2>1, DelAcceso DEF CpuDeLaMmu
  <2>3. mmu'.pag = mmu.pag
    BY <1>1, <1>12 DEF BuscaVictima, AvisaReemplazo, mmuVars, MmuTipo
  <2>4. cpu'.pag = cpu.pag
    <3>1. cpu \in CpuTipo
      BY DeCpu DEF Fuerte
    <3>2. CASE RelojAvanza(p)
      BY <3>1, <3>2 DEF RelojAvanza, CpuTipo
    <3>3. CASE RelojSinPagina(p)
      BY <3>1, <3>3 DEF RelojSinPagina, CpuTipo
    <3>4. CASE RelojReemplaza(p)
      BY <3>1, <3>4 DEF RelojReemplaza, CpuTipo
    <3> QED BY <1>12, <3>2, <3>3, <3>4 DEF BuscaVictima, AvisaReemplazo
  <2> QED BY <1>3, <2>1, <2>2, <2>3, <2>4
<1>13. CASE segundo_acceso_a_memoria(p)
  <2>1. cpu.fase = "carga" /\ cpu.pid = p /\ algoritmo_tlb' = algoritmo_tlb
    BY <1>13 DEF segundo_acceso_a_memoria, CargaPagina
  <2> PICK n \in Paginas, m \in Marcos : n = cpu.pag /\ m = cpu.marco
    BY <2>1, DeCpu DEF Fuerte, MarcoPedido
  <2>2. mmu.fase = "pide"
    BY <2>1, DelAcceso DEF CpuDeLaMmu
  <2>3. /\ mmu' = [mmu EXCEPT !.fase = "opera", !.pag = n]
        /\ mmu.codigo = "REEMPLAZO_DE_PAGINA" => tlb' = actualizar_TLB(n, m)
        /\ mmu.codigo # "REEMPLAZO_DE_PAGINA" => tlb' = guardar_en_TLB(n, m)
    BY <1>13 DEF segundo_acceso_a_memoria
  <2>4. mmu'.fase = "opera" /\ mmu'.pag = n /\ mmu'.codigo = mmu.codigo
    BY <1>1, <2>3 DEF MmuTipo
  <2>5. algoritmo_tlb # "FIFO" /\ n \in PaginasDe(tlb') => Reciente(n, tlb')
    <3> SUFFICES ASSUME algoritmo_tlb # "FIFO", n \in PaginasDe(tlb') PROVE Reciente(n, tlb')
      OBVIOUS
    <3>1. ~esta_en_TLB(n)
      BY <2>2 DEF Ultima
    <3>2. CASE mmu.codigo = "REEMPLAZO_DE_PAGINA"
      BY <1>1, <2>3, <3>1, <3>2, ActualizarReciente
    <3>3. CASE mmu.codigo # "REEMPLAZO_DE_PAGINA"
      BY <1>1, <2>3, <3>3, GuardarReciente
    <3> QED BY <3>2, <3>3
  <2>6. Queda
    <3> SUFFICES ASSUME algoritmo_tlb = "LRU", CantEntradasTlb > 1, mmu.pag \in PaginasDe(tlb),
                        mmu.codigo # "REEMPLAZO_DE_PAGINA"
                 PROVE  mmu.pag \in PaginasDe(tlb')
      BY <1>5, <2>4 DEF Queda
    <3>1. Reciente(mmu.pag, tlb) /\ algoritmo_tlb # "FIFO"
      BY DEF Ultima
    <3> QED BY <1>1, <2>3, <3>1, GuardarReciente
  <2> QED BY <1>4, <2>1, <2>4, <2>5, <2>6
<1>14. CASE leer_posicion_de_memoria(p) \/ escribir_en_posicion_de_memoria(p)
  <2>1. cpu.fase = "acceso" /\ cpu.pid = p /\ algoritmo_tlb' = algoritmo_tlb /\ tlb' = tlb /\ mmu' = mmu
    BY <1>14 DEF leer_posicion_de_memoria, escribir_en_posicion_de_memoria,
                 leer_posicion, escribir_en_posicion, mmuVars
  <2>2. mmu.fase # "pide"
    BY <2>1, DelAcceso DEF CpuDeLaMmu
  <2> QED BY <1>3, <2>1, <2>2
<1>15. CASE RecibeRespuesta(p)
  <2>1. tlb' = tlb /\ algoritmo_tlb' = algoritmo_tlb
    BY <1>15 DEF RecibeRespuesta
  <2>2. mmu'.fase # "pide" /\ mmu'.pag = mmu.pag
    <3>1. CASE mmu.op = "COPY"
      BY <1>1, <1>15, <3>1 DEF RecibeRespuesta, MmuTipo
    <3>2. CASE mmu.op # "COPY"
      BY <1>1, <1>15, <3>2, OciosaTipo DEF RecibeRespuesta, MmuTipo
    <3> QED BY <3>1, <3>2
  <2> QED BY <1>3, <2>1, <2>2
<1>16. CASE PideKernel(p)
  <2>1. mmu' = mmu /\ tlb' = tlb /\ algoritmo_tlb' = algoritmo_tlb /\ AtiendeKernel(p)
    BY <1>16 DEF PideKernel, mmuVars
  <2>2. cpu' = cpu
    BY <2>1 DEF AtiendeKernel, crear_proceso, suspender_proceso, SuspendePagina, SuspendeTermina,
                reanudar_proceso, eliminar_proceso
  <2> QED BY <1>3, <2>1, <2>2
<1> QED BY <1>6, <1>7, <1>8, <1>9, <1>10, <1>11, <1>12, <1>13, <1>14, <1>15, <1>16 DEF AccionDeMmu

\* With LRU and room for two, storing a page never throws out the page that was
\* translated before it.
THEOREM LaUltimaQueda == MmuSpec => UltimaPaginaQueda
<1>1. FuerteMmu /\ Ultima /\ [MmuNext]_todas => Ultima' /\ [Queda]_todas
  <2> SUFFICES ASSUME FuerteMmu, Ultima, [MmuNext]_todas PROVE Ultima' /\ [Queda]_todas
    OBVIOUS
  <2>1. CASE MmuNext
    BY <2>1, AccionesDeMmu, UltimaQueda
  <2>2. CASE UNCHANGED todas
    <3>1. algoritmo_tlb' = algoritmo_tlb /\ tlb' = tlb /\ mmu' = mmu /\ cpu' = cpu
      BY <2>2 DEF todas, vars, mmuVars
    <3>2. Ultima'
      BY <3>1 DEF Ultima, PaginasDe, Reciente, esta_en_TLB, EntradasDe
    <3> QED BY <2>2, <3>2
  <2> QED BY <2>1, <2>2
<1>2. MmuInit => Ultima
  <2> SUFFICES ASSUME MmuInit PROVE Ultima
    OBVIOUS
  <2>1. PaginasDe(tlb) = {} /\ mmu.fase = "ociosa"
    BY OciosaTipo DEF MmuInit, PaginasDe
  <2> QED BY <2>1 DEF Ultima
<1> QED BY <1>1, <1>2, MmuFuerteSiempre, PTL DEF MmuSpec, UltimaPaginaQueda, Queda
=============================================================================
