--------------------------- MODULE ConsolasPruebas ---------------------------
(***************************************************************************)
(* The journey of a program, proved for any number of consoles, any files  *)
(* and any times: with consoles started one after the other, what the CPU  *)
(* executes for a console is the program of its file, a PCB comes back     *)
(* from the CPU as it went, and a console is told the end of its own       *)
(* process, once.                                                          *)
(***************************************************************************)
EXTENDS Consolas, SerializacionPruebas, FiniteSetTheorems

----------------------------------------------------------------------------
(* Parsing.                                                                *)

\* A known operation has its place in the enumeration as its code.
LEMMA Codigos ==
  /\ \A n \in Conocidas : Codigo(n) \in 0 .. 5 /\ operaciones[Codigo(n) + 1] = n
  /\ DOMAIN operaciones = 1 .. 6
  /\ {"NO_OP", "I/O", "READ", "WRITE", "COPY", "EXIT"} \subseteq Conocidas
<1>1. DOMAIN operaciones = 1 .. 6
  BY DEF operaciones
<1>2. ASSUME NEW n \in Conocidas PROVE Codigo(n) \in 0 .. 5 /\ operaciones[Codigo(n) + 1] = n
  <2> DEFINE i == CHOOSE i \in DOMAIN operaciones : operaciones[i] = n
  <2>1. \E j \in DOMAIN operaciones : operaciones[j] = n
    BY DEF Conocidas
  <2>2. i \in DOMAIN operaciones /\ operaciones[i] = n
    BY <2>1
  <2>3. Codigo(n) = i - 1
    BY DEF Codigo
  <2> HIDE DEF i
  <2>4. i \in 1 .. 6 /\ Codigo(n) + 1 = i
    BY <1>1, <2>2, <2>3
  <2> QED BY <2>2, <2>3, <2>4
<1>3. /\ operaciones[1] = "NO_OP" /\ operaciones[2] = "I/O" /\ operaciones[3] = "READ"
      /\ operaciones[4] = "WRITE" /\ operaciones[5] = "COPY" /\ operaciones[6] = "EXIT"
  BY DEF operaciones
<1>4. {"NO_OP", "I/O", "READ", "WRITE", "COPY", "EXIT"} \subseteq Conocidas
  BY <1>1, <1>3 DEF Conocidas
<1> QED BY <1>1, <1>2, <1>4

\* The lines of the file that a line becomes in the reference.
LineasDe(linea) ==
  IF linea.nombre = "NO_OP"
  THEN [k \in 1 .. linea.numeros[1] |-> [nombre |-> "NO_OP", numeros |-> <<>>]]
  ELSE <<linea>>

Lineas == [nombre : STRING, numeros : Seq(Palabra)]

\* The instructions of a line, against the lines of the reference.
LEMMA UnaLinea ==
  ASSUME NEW linea \in Lineas,
         linea.nombre \in Conocidas => Len(linea.numeros) >= Operandos(linea.nombre)
  PROVE  LET s == agregar_una_instruccion(linea)
             t == LineasDe(linea)
         IN /\ s \in Seq(Instrucciones) /\ t \in Seq(Lineas) /\ Len(s) = Len(t)
            /\ \A j \in 1 .. Len(s) :
                 /\ s[j].cod_op # ERROR_OP_DESCONOCIDA => EnTexto(s[j]) = t[j]
                 /\ s[j].cod_op = Codigo("I/O") => Len(s[j].parametros) >= 1
<1> DEFINE n == linea.nombre
           p == linea.numeros
           c == convertir_instruccion(n)
           s == agregar_una_instruccion(linea)
           t == LineasDe(linea)
<1>1. n \in STRING /\ p \in Seq(Palabra) /\ linea = [nombre |-> n, numeros |-> p]
  BY DEF Lineas
<1>2. n \in Conocidas => c = Codigo(n)
  BY DEF convertir_instruccion, Conocidas
<1>3. n \notin Conocidas => c = ERROR_OP_DESCONOCIDA
  BY DEF convertir_instruccion, Conocidas
<1>4. ERROR_OP_DESCONOCIDA \in Palabra /\ ERROR_OP_DESCONOCIDA > 100 /\ 0 .. 5 \subseteq Palabra
  BY BasePalabraAssumption DEF ERROR_OP_DESCONOCIDA, Palabra
<1>5. c \in Palabra
  BY <1>2, <1>3, <1>4, Codigos
<1>6. c = Codigo("NO_OP") <=> n = "NO_OP"
  <2>1. Codigo("NO_OP") \in 0 .. 5 /\ operaciones[Codigo("NO_OP") + 1] = "NO_OP"
    BY Codigos
  <2>2. CASE n \in Conocidas
    <3>1. operaciones[c + 1] = n
      BY <1>2, <2>2, Codigos
    <3> QED BY <1>2, <2>1, <2>2, <3>1
  <2>3. CASE n \notin Conocidas
    <3>1. n # "NO_OP"
      BY <2>3, Codigos
    <3> QED BY <1>3, <1>4, <2>1, <2>3, <3>1
  <2> QED BY <2>2, <2>3
<1> HIDE DEF c
<1>7. CASE n = "NO_OP"
  <2> DEFINE k == p[1]
             ins == [cod_op |-> c, parametros |-> <<>>]
             lin == [nombre |-> "NO_OP", numeros |-> <<>>]
  <2>1. Len(p) >= 1
    BY <1>7, Codigos DEF Operandos
  <2>2. k \in Nat
    BY <1>1, <2>1, Numeros
  <2>3. s = [i \in 1 .. k |-> ins]
    BY <1>6, <1>7 DEF agregar_una_instruccion, c
  <2>4. t = [i \in 1 .. k |-> lin]
    BY <1>7 DEF LineasDe
  <2>5. ins \in Instrucciones /\ lin \in Lineas
    <3>1. <<>> \in Seq(Palabra)
      BY EmptySeq
    <3>2. ins \in Instrucciones
      BY <1>5, <3>1 DEF Instrucciones
    <3>3. lin \in Lineas
      BY <1>1, <1>7, <3>1 DEF Lineas
    <3> QED BY <3>2, <3>3
  <2>6. c = Codigo("NO_OP") /\ operaciones[c + 1] = "NO_OP" /\ EnTexto(ins) = lin
    BY <1>6, <1>7, Codigos DEF EnTexto
  <2>7. c # Codigo("I/O")
    BY <2>6, Codigos
  <2> HIDE DEF s, t, k, ins, lin
  <2>8. /\ s \in Seq(Instrucciones) /\ t \in Seq(Lineas) /\ Len(s) = k /\ Len(t) = k
        /\ \A j \in 1 .. k : s[j] = ins /\ t[j] = lin
    BY <2>2, <2>3, <2>4, <2>5
  <2>9. ins.cod_op = c
    BY DEF ins
  <2> QED BY <2>6, <2>7, <2>8, <2>9 DEF s, t
<1>8. CASE n # "NO_OP"
  <2> DEFINE ins == [cod_op |-> c, parametros |-> p]
  <2>1. s = <<ins>> /\ t = <<linea>>
    BY <1>6, <1>8 DEF agregar_una_instruccion, LineasDe, c
  <2>2. ins \in Instrucciones
    BY <1>1, <1>5 DEF Instrucciones
  <2>3. c # ERROR_OP_DESCONOCIDA => EnTexto(ins) = linea
    <3>1. SUFFICES ASSUME c # ERROR_OP_DESCONOCIDA PROVE EnTexto(ins) = linea
      OBVIOUS
    <3>2. n \in Conocidas /\ operaciones[c + 1] = n
      BY <1>2, <1>3, <3>1, Codigos
    <3> QED BY <1>1, <3>2 DEF EnTexto
  <2>4. c = Codigo("I/O") => Len(p) >= 1
    <3>1. SUFFICES ASSUME c = Codigo("I/O") PROVE Len(p) >= 1
      OBVIOUS
    <3>2. c \in 0 .. 5 /\ operaciones[c + 1] = "I/O"
      BY <3>1, Codigos
    <3>3. n \in Conocidas
      BY <1>3, <1>4, <3>2
    <3>4. n = "I/O"
      BY <1>2, <3>2, <3>3, Codigos
    <3> QED BY <3>3, <3>4 DEF Operandos
  <2>5. ins.cod_op = c /\ ins.parametros = p
    OBVIOUS
  <2> HIDE DEF s, t, ins
  <2>6. /\ s \in Seq(Instrucciones) /\ t \in Seq(Lineas) /\ Len(s) = 1 /\ Len(t) = 1
        /\ s[1] = ins /\ t[1] = linea
    BY <2>1, <2>2
  <2> QED BY <2>3, <2>4, <2>5, <2>6 DEF s, t
<1> QED BY <1>7, <1>8

\* The list that the console makes of a file, against the reference.
LEMMA Parseo ==
  ASSUME NEW a \in Archivos
  PROVE  LET lista == agregar_instrucciones(a)
         IN /\ lista \in Seq(Instrucciones)
            /\ Desplegado(a) \in Seq(Lineas) /\ Len(Desplegado(a)) = Len(lista)
            /\ \A k \in 1 .. Len(lista) :
                 /\ lista[k].cod_op # ERROR_OP_DESCONOCIDA => EnTexto(lista[k]) = Desplegado(a)[k]
                 /\ lista[k].cod_op = Codigo("I/O") => Len(lista[k].parametros) >= 1
<1> DEFINE n == Len(a)
           ss == [i \in DOMAIN a |-> agregar_una_instruccion(a[i])]
           tt == [i \in DOMAIN a |-> LineasDe(a[i])]
<1>1. a \in Seq(Lineas) /\ n \in Nat /\ DOMAIN a = 1 .. n
  <2>1. a \in Seq(Lineas)
    BY ArchivosAssumption DEF Lineas
  <2> QED BY <2>1, LenProperties
<1>2. ASSUME NEW i \in 1 .. n
      PROVE  /\ a[i] \in Lineas
             /\ a[i].nombre \in Conocidas => Len(a[i].numeros) >= Operandos(a[i].nombre)
  BY <1>1, ArchivosAssumption
<1>3. \A i \in 1 .. n :
        /\ ss[i] \in Seq(Instrucciones) /\ tt[i] \in Seq(Lineas) /\ Len(ss[i]) = Len(tt[i])
        /\ \A j \in 1 .. Len(ss[i]) :
             /\ ss[i][j].cod_op # ERROR_OP_DESCONOCIDA => EnTexto(ss[i][j]) = tt[i][j]
             /\ ss[i][j].cod_op = Codigo("I/O") => Len(ss[i][j].parametros) >= 1
  BY <1>1, <1>2, UnaLinea
<1>4. agregar_instrucciones(a) = FlattenSeq(ss) /\ Desplegado(a) = FlattenSeq(tt)
  BY DEF agregar_instrucciones, Desplegado, LineasDe
<1>5. ss = [i \in 1 .. n |-> ss[i]] /\ tt = [i \in 1 .. n |-> tt[i]]
  BY <1>1
<1> HIDE DEF ss, tt, n
<1>6. ss \in Seq(Seq(Instrucciones)) /\ tt \in Seq(Seq(Lineas)) /\ Len(ss) = n /\ Len(tt) = n
  <2>1. ss \in [1 .. n -> Seq(Instrucciones)] /\ tt \in [1 .. n -> Seq(Lineas)]
    BY <1>3, <1>5
  <2> QED BY <1>1, <2>1
<1> DEFINE L == FlattenSeq(ss)
           D == FlattenSeq(tt)
<1>7. /\ L \in Seq(Instrucciones) /\ D \in Seq(Lineas) /\ Len(L) = Len(D)
      /\ \A k \in 1 .. Len(L) : Juntos(L[k], D[k], ss, tt)
  <2>1. \A i \in 1 .. Len(ss) : Len(ss[i]) = Len(tt[i])
    BY <1>3, <1>6
  <2>2. Len(ss) = Len(tt)
    BY <1>6
  <2>3. ss \in Seq(Seq(Instrucciones)) /\ tt \in Seq(Seq(Lineas))
    BY <1>6
  <2> HIDE DEF L, D
  <2>4. /\ FlattenSeq(ss) \in Seq(Instrucciones) /\ FlattenSeq(tt) \in Seq(Lineas)
        /\ Len(FlattenSeq(ss)) = Len(FlattenSeq(tt))
        /\ \A k \in 1 .. Len(FlattenSeq(ss)) : Juntos(FlattenSeq(ss)[k], FlattenSeq(tt)[k], ss, tt)
    BY <2>1, <2>2, <2>3, Paralelas
  <2> QED BY <2>4 DEF L, D
<1> HIDE DEF L, D
<1>8. \A k \in 1 .. Len(L) :
        /\ L[k].cod_op # ERROR_OP_DESCONOCIDA => EnTexto(L[k]) = D[k]
        /\ L[k].cod_op = Codigo("I/O") => Len(L[k].parametros) >= 1
  <2> SUFFICES ASSUME NEW k \in 1 .. Len(L)
               PROVE  /\ L[k].cod_op # ERROR_OP_DESCONOCIDA => EnTexto(L[k]) = D[k]
                      /\ L[k].cod_op = Codigo("I/O") => Len(L[k].parametros) >= 1
    OBVIOUS
  <2>1. PICK i \in 1 .. n : \E j \in 1 .. Len(ss[i]) : L[k] = ss[i][j] /\ D[k] = tt[i][j]
    BY <1>6, <1>7 DEF Juntos
  <2>2. PICK j \in 1 .. Len(ss[i]) : L[k] = ss[i][j] /\ D[k] = tt[i][j]
    BY <2>1
  <2>3. /\ ss[i][j].cod_op # ERROR_OP_DESCONOCIDA => EnTexto(ss[i][j]) = tt[i][j]
        /\ ss[i][j].cod_op = Codigo("I/O") => Len(ss[i][j].parametros) >= 1
    BY <1>3
  <2> QED BY <2>2, <2>3
<1> QED BY <1>4, <1>7, <1>8 DEF L, D

\* The bounds that the size of a program puts on its words and instructions.
LEMMA Cabe ==
  ASSUME NEW a \in Archivos
  PROVE  LET lista == agregar_instrucciones(a)
             n == Len(EnPalabras(lista))
         IN /\ lista \in Seq(Instrucciones) /\ EnPalabras(lista) \in Seq(Palabra)
            /\ n \in Nat /\ Ancho * n \in Palabra /\ Ancho + Ancho * n \in Palabra
            /\ 6 * Ancho + Ancho * n + 3 * Largo \in Palabra
            /\ \A k \in 0 .. Len(lista) : k \in Palabra
            /\ serializar_instrucciones(lista, 0).size = Ancho + Ancho * n
<1> DEFINE lista == agregar_instrucciones(a)
           n == Len(EnPalabras(lista))
<1>1. lista \in Seq(Instrucciones) /\ Len(lista) \in Nat
  BY Parseo
<1>2. n \in Nat /\ 2 * Len(lista) <= n
  BY <1>1, LargoEnPalabras
<1>3. 6 * Ancho + Ancho * n + 3 * Largo \in Palabra
  BY ArchivosAssumption
<1> HIDE DEF n
<1>4. Ancho * n \in Palabra /\ Ancho + Ancho * n \in Palabra
      /\ \A k \in 0 .. Len(lista) : k \in Palabra
  <2> HIDE DEF lista
  <2> QED BY <1>1, <1>2, <1>3, BasePalabraAssumption DEF Palabra, Ancho, Largo
<1>5. EnPalabras(lista) \in Seq(Palabra)
  BY <1>1, <1>4, SonPalabras DEF n
<1>6. serializar_instrucciones(lista, 0).size = Ancho + Ancho * n
  BY <1>1, SizeExacto DEF n
<1> QED BY <1>1, <1>2, <1>3, <1>4, <1>5, <1>6 DEF n

----------------------------------------------------------------------------
(* Sequences of PCBs.                                                      *)

\* The pids of a queue, and a queue in which each is once.
PidsDe(s) == {x.pid : x \in ToSet(s)}
Distintos(s) == \A i, j \in DOMAIN s : s[i].pid = s[j].pid => i = j

----------------------------------------------------------------------------
(* The invariant.                                                          *)

\* The program of a console as the console, the kernel and its message have it.
Lista(c) == agregar_instrucciones(archivo[c])
Programa(c) == EnPalabras(Lista(c))
Mensaje(c) == <<TamanioDe[c]>> \o Programa(c)
TamanioMensaje(c) == Ancho + Ancho * Len(Programa(c))

\* Its PCB exists; it was told the end.
Cargada(c) == hilo[c].fase = "termino"
Avisada(c) == haciaConsola[c] # <<>> \/ consola[c] = "terminada"

\* Once the program is sent, the thread and the words that it has not received.
EnEspera(c) ==
  /\ consola[c] = "espera"
  /\ \/ /\ \/ hilo[c].fase = "operacion"
           \/ hilo[c].fase = "recv operacion" /\ hilo[c].fd = c
        /\ haciaKernel[c] = <<OPERACION_ENVIO_INSTRUCCIONES, TamanioMensaje(c)>> \o Mensaje(c)
     \/ /\ \/ hilo[c].fase = "buffer"
           \/ hilo[c].fase = "recv size" /\ hilo[c].fd = c
        /\ haciaKernel[c] = <<TamanioMensaje(c)>> \o Mensaje(c)
     \/ /\ hilo[c].fase = "recv stream" /\ hilo[c].fd = c /\ hilo[c].size = TamanioMensaje(c)
        /\ haciaKernel[c] = Mensaje(c)
     \/ /\ hilo[c].fase = "crear" /\ hilo[c].fd = c /\ hilo[c].size = TamanioMensaje(c)
        /\ hilo[c].stream = Mensaje(c)
        /\ haciaKernel[c] = <<>>
     \/ hilo[c].fase = "termino" /\ haciaKernel[c] = <<>>

\* A console and the thread that serves it.
Conexion(c) ==
  \/ /\ consola[c] \in {"sin conectar", "conectada"} /\ hilo[c].fase = "no"
     /\ haciaKernel[c] = <<>>
  \/ /\ consola[c] = "aceptada" /\ haciaKernel[c] = <<>>
     /\ \/ hilo[c].fase = "operacion"
        \/ hilo[c].fase = "recv operacion" /\ hilo[c].fd = c
  \/ EnEspera(c)
  \/ consola[c] = "terminada" /\ hilo[c].fase = "termino" /\ haciaKernel[c] = <<>>

\* Threads and consoles, one console at a time; cliente_fd is the one served.
Fases == {"no", "operacion", "recv operacion", "buffer", "recv size", "recv stream", "crear",
          "termino"}
Hilos == [fase : Fases, fd : Conectables \cup {0}, size : Palabra, stream : Seq(Palabra)]
Tipos ==
  /\ vivo \in BOOLEAN
  /\ archivo \in [Conectables -> Archivos]
  /\ consola \in [Conectables -> {"sin conectar", "conectada", "aceptada", "espera", "terminada"}]
  /\ haciaKernel \in [Conectables -> Seq(Palabra)]
  /\ hilo \in [Conectables -> Hilos]
  /\ cliente_fd \in Conectables \cup {0}
DeAUna ==
  /\ \A c \in Conectables : hilo[c].fase \notin {"no", "termino"} => cliente_fd = c
  /\ \A c, d \in Conectables : c = d \/ Admitida(c) \/ Admitida(d)
Admision == Tipos /\ DeAUna /\ \A c \in Conectables : Conexion(c)

\* Each process has a console of its own, whose program was received.
Pids == 0 .. proximo_pid - 1
Duenios ==
  /\ proximo_pid \in Nat
  /\ duenio \in [Pids -> Conectables]
  /\ \A p \in Pids : Cargada(duenio[p])
  /\ \A p, q \in Pids : duenio[p] = duenio[q] => p = q

\* What was executed for a console is a prefix of its list.
HistoriaDe(c) ==
  /\ Len(ejecutadas[c]) <= Len(Lista(c))
  /\ \A k \in 1 .. Len(ejecutadas[c]) :
       ejecutadas[c][k] = Lista(c)[k] /\ Lista(c)[k].cod_op # ERROR_OP_DESCONOCIDA
  /\ ejecutadas[c] # <<>> => Cargada(c)
Historia ==
  /\ ejecutadas \in [Conectables -> Seq(Instrucciones)]
  /\ \A c \in Conectables : HistoriaDe(c)

\* The notice of the end, of which there is one at most, comes after EXIT.
LlegoAExit(c) ==
  ejecutadas[c] # <<>> /\ ejecutadas[c][Len(ejecutadas[c])].cod_op = Codigo("EXIT")
Avisos ==
  /\ haciaConsola \in [Conectables -> Seq(Palabra)]
  /\ \A c \in Conectables :
       /\ haciaConsola[c] = <<>> \/ (Len(haciaConsola[c]) = 1 /\ consola[c] # "terminada")
       /\ Avisada(c) => LlegoAExit(c)

\* The PCB of console c after n instructions.
DeConsola(pcb, c, n) ==
  /\ pcb \in PcbsPlanos
  /\ pcb.socket_consola = c
  /\ pcb.instrucciones = Programa(c)
  /\ pcb.tamanio_stream_instrucciones = Ancho * Len(Programa(c))
  /\ pcb.timestamp_inicio_exe = 0
  /\ pcb.program_counter = n

\* A PCB that says how far its process is, which has not ended.
AlDia(pcb) ==
  /\ pcb.pid \in Pids
  /\ DeConsola(pcb, duenio[pcb.pid], Len(ejecutadas[duenio[pcb.pid]]))
  /\ ~Avisada(duenio[pcb.pid])

\* Queues of PCBs, each process in one place of one of them at most.
NombresColas == {"nuevos", "susReady", "ready", "io"}
Encoladas(k) == UNION {PidsDe(k[q]) : q \in NombresColas}
TipoColas == [nuevos : Seq(PcbsPlanos), susReady : Seq(PcbsPlanos), ready : Seq(PcbsPlanos),
              io : Seq(PcbsPlanos)]
BuenasColas(k) ==
  /\ k \in TipoColas
  /\ \A q \in NombresColas : Distintos(k[q])
  /\ \A q, r \in NombresColas : q # r => PidsDe(k[q]) \cap PidsDe(k[r]) = {}
Colas ==
  /\ BuenasColas(colas)
  /\ \A q \in NombresColas : \A x \in ToSet(colas[q]) : AlDia(x)
  /\ tablas \in Nat /\ tablas + Len(colas.nuevos) = proximo_pid

\* The PCB that was dispatched, with the program counter of now.
Vuelta(p) == [despachado[p] EXCEPT !.program_counter = Len(ejecutadas[duenio[p]])]
EnIo ==
  \A x \in ToSet(colas.io) :
    x.pid \in DOMAIN despachado /\ x = [Vuelta(x.pid) EXCEPT !.real_actual = x.real_actual]

\* One process at most is dispatched, and the next one only when it is back
\* and, if it came for I/O, marked.
Reposo == despacho = <<>> /\ retorno = <<>> /\ cpu = CpuLibre
EstadosIo ==
  /\ recibe \in [fase : {"recv", "marcar"}, pid : Nat]
  /\ process_state \in [DOMAIN process_state -> {"blocked", "suspended ready"}]
Ficha ==
  /\ EstadosIo
  /\ corto \in 0 .. 1 /\ inicio \in 0 .. 1 /\ corto + inicio <= 1
  /\ corto + inicio = 1 => Reposo
  /\ recibe.fase = "marcar" => corto + inicio = 0 /\ Reposo

\* That process is in a packet to the CPU, in the CPU, or in a packet back.
Yendo(p) ==
  /\ despacho = empaquetar(serializar_header(Vuelta(p)), OPERACION_ENVIO_PCB)
  /\ retorno = <<>> /\ cpu = CpuLibre
EnCpu(p) ==
  /\ despacho = <<>> /\ retorno = <<>>
  /\ cpu \in [fase : {"corre", "caida"}, i : Nat,
              pcb : {[Vuelta(p) EXCEPT !.instrucciones = Lista(duenio[p])]}]
  /\ cpu.i >= Len(ejecutadas[duenio[p]])
Volviendo(p) ==
  /\ despacho = <<>> /\ cpu = CpuLibre
  /\ \/ /\ retorno = empaquetar(serializar_header(Vuelta(p)), OPERACION_EXIT)
        /\ LlegoAExit(duenio[p])
     \/ \E t \in Palabra : retorno = empaquetar_i_o(serializar_header(Vuelta(p)), OPERACION_IO, t)
EnVuelo(p) ==
  /\ despachado[p] \in PcbsPlanos /\ despachado[p].pid = p
  /\ AlDia(Vuelta(p))
  /\ p \notin Encoladas(colas)
  /\ Yendo(p) \/ EnCpu(p) \/ Volviendo(p)
Vuelo ==
  /\ DOMAIN despachado \subseteq Pids
  /\ Reposo \/ \E p \in DOMAIN despachado : EnVuelo(p)

IndInv == Admision /\ Duenios /\ Historia /\ Avisos /\ Colas /\ EnIo /\ Ficha /\ Vuelo

----------------------------------------------------------------------------
(* Queues under Append, Tail and RemoveAt.                                 *)

\* The first words of a packet, one by one.
LEMMA Cabezas ==
  ASSUME NEW t \in Seq(Palabra), NEW x \in Palabra, NEW y \in Palabra
  PROVE  /\ <<x>> \o t \in Seq(Palabra) /\ <<x>> \o t # <<>>
         /\ Head(<<x>> \o t) = x /\ Tail(<<x>> \o t) = t
         /\ <<x, y>> \o t \in Seq(Palabra) /\ <<x, y>> \o t # <<>>
         /\ Head(<<x, y>> \o t) = x /\ Tail(<<x, y>> \o t) = <<y>> \o t
         /\ Len(<<x>> \o t) = 1 + Len(t) /\ (<<x>> \o t)[1] = x
<1>1. /\ <<x>> \o t \in Seq(Palabra) /\ Len(<<x>> \o t) = 1 + Len(t)
      /\ \A i \in 1 .. Len(<<x>>) + Len(t) :
           (<<x>> \o t)[i] = IF i <= 1 THEN x ELSE t[i - 1]
  OBVIOUS
<1>2. /\ <<y>> \o t \in Seq(Palabra) /\ Len(<<y>> \o t) = 1 + Len(t)
      /\ \A i \in 1 .. Len(<<y>>) + Len(t) :
           (<<y>> \o t)[i] = IF i <= 1 THEN y ELSE t[i - 1]
  OBVIOUS
<1>3. /\ <<x, y>> \o t \in Seq(Palabra) /\ Len(<<x, y>> \o t) = 2 + Len(t)
      /\ \A i \in 1 .. Len(<<x, y>>) + Len(t) :
           (<<x, y>> \o t)[i] = IF i <= 1 THEN x ELSE IF i = 2 THEN y ELSE t[i - 2]
  OBVIOUS
<1>4. Len(t) \in Nat
  OBVIOUS
<1>5. <<x>> \o t # <<>> /\ Head(<<x>> \o t) = x /\ Tail(<<x>> \o t) = t
  BY <1>1, <1>4
<1>6. <<x, y>> \o t # <<>> /\ Head(<<x, y>> \o t) = x
  BY <1>3, <1>4
<1>7. Tail(<<x, y>> \o t) = <<y>> \o t
  BY <1>2, <1>3, <1>4
<1>8. (<<x>> \o t)[1] = x
  BY <1>1, <1>4
<1> QED BY <1>1, <1>3, <1>5, <1>6, <1>7, <1>8

\* A PCB at the end of a queue.
LEMMA AlFinal ==
  ASSUME NEW s \in Seq(PcbsPlanos), NEW y \in PcbsPlanos
  PROVE  /\ Append(s, y) \in Seq(PcbsPlanos)
         /\ ToSet(Append(s, y)) = ToSet(s) \cup {y}
         /\ PidsDe(Append(s, y)) = PidsDe(s) \cup {y.pid}
         /\ Len(Append(s, y)) = Len(s) + 1
         /\ Distintos(s) /\ y.pid \notin PidsDe(s) => Distintos(Append(s, y))
<1> DEFINE n == Len(s)
           t == Append(s, y)
<1>1. /\ n \in Nat /\ t \in Seq(PcbsPlanos) /\ Len(t) = n + 1
      /\ DOMAIN s = 1 .. n /\ DOMAIN t = 1 .. n + 1
      /\ \A i \in 1 .. n : t[i] = s[i]
      /\ t[n + 1] = y
  OBVIOUS
<1> HIDE DEF n, t
<1>2. ToSet(t) = ToSet(s) \cup {y}
  BY <1>1 DEF ToSet
<1>3. PidsDe(t) = PidsDe(s) \cup {y.pid}
  BY <1>2 DEF PidsDe
<1>4. ASSUME Distintos(s), y.pid \notin PidsDe(s) PROVE Distintos(t)
  <2>1. \A i \in 1 .. n : s[i].pid # y.pid
    BY <1>1, <1>4 DEF PidsDe, ToSet
  <2>2. \A i, j \in 1 .. n : s[i].pid = s[j].pid => i = j
    BY <1>1, <1>4 DEF Distintos
  <2>3. \A i \in 1 .. n + 1 : i \in 1 .. n \/ i = n + 1
    BY <1>1
  <2>4. \A i, j \in 1 .. n + 1 : t[i].pid = t[j].pid => i = j
    BY <1>1, <2>1, <2>2, <2>3
  <2> QED BY <1>1, <2>4 DEF Distintos
<1> QED BY <1>1, <1>2, <1>3, <1>4 DEF t, n

\* A queue without the PCB at one of its places.
EsSin(t, s, i) == t = RemoveAt(s, i) \/ (t = Tail(s) /\ i = 1)

\* It has the others.
LEMMA SinUno ==
  ASSUME NEW s \in Seq(PcbsPlanos), NEW i \in DOMAIN s, NEW t, EsSin(t, s, i)
  PROVE  /\ t \in Seq(PcbsPlanos) /\ ToSet(t) \subseteq ToSet(s) /\ Len(t) = Len(s) - 1
         /\ PidsDe(t) \subseteq PidsDe(s)
         /\ s[i] \in ToSet(s) /\ s[i] \in PcbsPlanos /\ s[i].pid \in PidsDe(s)
         /\ Distintos(s) => Distintos(t) /\ s[i].pid \notin PidsDe(t)
<1> DEFINE n == Len(s)
           de(k) == IF k < i THEN k ELSE k + 1
<1>1. n \in Nat /\ DOMAIN s = 1 .. n /\ i \in 1 .. n /\ n >= 1 /\ n - 1 \in Nat
  OBVIOUS
<1>2. /\ t \in Seq(PcbsPlanos) /\ Len(t) = n - 1
      /\ \A k \in 1 .. n - 1 : t[k] = s[de(k)]
  <2>1. CASE t = Tail(s) /\ i = 1
    BY <1>1, <2>1
  <2>2. CASE t = RemoveAt(s, i)
    <3> DEFINE a == SubSeq(s, 1, i - 1)
               b == SubSeq(s, i + 1, n)
    <3>1. /\ a \in Seq(PcbsPlanos) /\ Len(a) = i - 1 /\ \A k \in 1 .. i - 1 : a[k] = s[k]
      BY <1>1
    <3>2. /\ b \in Seq(PcbsPlanos) /\ Len(b) = n - i /\ \A k \in 1 .. n - i : b[k] = s[i + k]
      <4>1. i + 1 \in 1 .. n + 1 /\ n \in i .. n /\ n - (i + 1) + 1 = n - i
        BY <1>1
      <4>2. \A k \in 1 .. n - i : i + 1 + k - 1 = i + k
        BY <1>1
      <4> DEFINE m == i + 1
      <4>3. m \in Int /\ n \in Int /\ \A j \in m .. n : s[j] \in PcbsPlanos
        BY <1>1
      <4> HIDE DEF m
      <4>4. /\ SubSeq(s, m, n) \in Seq(PcbsPlanos)
            /\ Len(SubSeq(s, m, n)) = IF m <= n THEN n - m + 1 ELSE 0
            /\ \A k \in 1 .. n - m + 1 : SubSeq(s, m, n)[k] = s[m + k - 1]
        BY <4>3, SubSeqProperties
      <4>5. IF m <= n THEN n - m + 1 = n - i ELSE 0 = n - i
        BY <1>1 DEF m
      <4> QED BY <1>1, <4>1, <4>2, <4>4, <4>5 DEF m
    <3>3. t = a \o b
      BY <2>2 DEF RemoveAt
    <3> HIDE DEF a, b
    <3>4. /\ a \o b \in Seq(PcbsPlanos) /\ Len(a \o b) = Len(a) + Len(b)
          /\ \A k \in 1 .. Len(a) + Len(b) :
               (a \o b)[k] = IF k <= Len(a) THEN a[k] ELSE b[k - Len(a)]
      BY <3>1, <3>2, ConcatProperties
    <3>5. Len(a) + Len(b) = n - 1
      BY <1>1, <3>1, <3>2
    <3>6. ASSUME NEW k \in 1 .. n - 1 PROVE (a \o b)[k] = s[de(k)]
      <4>1. CASE k < i
        <5>1. k \in 1 .. i - 1 /\ k <= Len(a)
          BY <1>1, <3>1, <4>1
        <5> QED BY <3>1, <3>4, <3>5, <4>1, <5>1
      <4>2. CASE ~(k < i)
        <5>1. k - (i - 1) \in 1 .. n - i /\ ~(k <= Len(a)) /\ i + (k - (i - 1)) = k + 1
          BY <1>1, <3>1, <4>2
        <5>2. (a \o b)[k] = b[k - (i - 1)]
          BY <3>1, <3>4, <3>5, <5>1
        <5> QED BY <3>2, <4>2, <5>1, <5>2
      <4> QED BY <4>1, <4>2
    <3> QED BY <3>3, <3>4, <3>5, <3>6
  <2> QED BY <2>1, <2>2 DEF EsSin
<1>3. /\ \A k \in 1 .. n - 1 : de(k) \in 1 .. n /\ de(k) # i
      /\ \A k, l \in 1 .. n - 1 : de(k) = de(l) => k = l
  BY <1>1
<1>4. DOMAIN t = 1 .. n - 1
  BY <1>1, <1>2
<1> HIDE DEF n, de
<1>5. ToSet(t) \subseteq ToSet(s)
  BY <1>1, <1>2, <1>3, <1>4 DEF ToSet
<1>6. s[i] \in ToSet(s) /\ s[i] \in PcbsPlanos /\ s[i].pid \in PidsDe(s)
  BY <1>1 DEF ToSet, PidsDe
<1>7. ASSUME Distintos(s) PROVE Distintos(t) /\ s[i].pid \notin PidsDe(t)
  <2>1. \A k, l \in 1 .. n : s[k].pid = s[l].pid => k = l
    BY <1>1, <1>7 DEF Distintos
  <2>2. Distintos(t)
    BY <1>2, <1>3, <1>4, <2>1 DEF Distintos
  <2>3. s[i].pid \notin PidsDe(t)
    BY <1>1, <1>2, <1>3, <1>4, <2>1 DEF PidsDe, ToSet
  <2> QED BY <2>2, <2>3
<1> QED BY <1>2, <1>5, <1>6, <1>7 DEF n, PidsDe

\* One of the queues changes.
Cambia(nuevas, k, q, t) ==
  /\ nuevas \in TipoColas /\ nuevas[q] = t
  /\ \A r \in NombresColas \ {q} : nuevas[r] = k[r]

\* It loses one of its PCBs.
LEMMA Saca ==
  ASSUME NEW k, BuenasColas(k), NEW q \in NombresColas, NEW i \in DOMAIN k[q], NEW t,
         EsSin(t, k[q], i), NEW nuevas, Cambia(nuevas, k, q, t)
  PROVE  /\ BuenasColas(nuevas)
         /\ k[q][i] \in PcbsPlanos /\ k[q][i] \in ToSet(k[q])
         /\ Encoladas(nuevas) \subseteq Encoladas(k)
         /\ k[q][i].pid \in Encoladas(k) /\ k[q][i].pid \notin Encoladas(nuevas)
         /\ \A r \in NombresColas : ToSet(nuevas[r]) \subseteq ToSet(k[r])
         /\ Len(t) = Len(k[q]) - 1
<1> DEFINE x == k[q][i]
<1>1. k[q] \in Seq(PcbsPlanos)
  BY DEF BuenasColas, NombresColas, TipoColas
<1>2. /\ t \in Seq(PcbsPlanos) /\ ToSet(t) \subseteq ToSet(k[q]) /\ Len(t) = Len(k[q]) - 1
      /\ PidsDe(t) \subseteq PidsDe(k[q])
      /\ x \in ToSet(k[q]) /\ x \in PcbsPlanos /\ x.pid \in PidsDe(k[q])
      /\ Distintos(t) /\ x.pid \notin PidsDe(t)
  <2>1. Distintos(k[q])
    BY DEF BuenasColas
  <2> QED BY <1>1, <2>1, SinUno
<1>3. nuevas[q] = t /\ \A r \in NombresColas : r # q => nuevas[r] = k[r]
  BY DEF Cambia
<1> HIDE DEF x
<1>4. \A r \in NombresColas : /\ ToSet(nuevas[r]) \subseteq ToSet(k[r])
                              /\ PidsDe(nuevas[r]) \subseteq PidsDe(k[r])
  BY <1>2, <1>3
<1>5. \A r \in NombresColas : Distintos(nuevas[r])
  BY <1>2, <1>3 DEF BuenasColas
<1>6. \A r, s \in NombresColas : r # s => PidsDe(nuevas[r]) \cap PidsDe(nuevas[s]) = {}
  BY <1>4 DEF BuenasColas
<1>7. x.pid \in Encoladas(k) /\ Encoladas(nuevas) \subseteq Encoladas(k)
  BY <1>2, <1>4 DEF Encoladas
<1>8. x.pid \notin Encoladas(nuevas)
  <2>1. ASSUME NEW r \in NombresColas PROVE x.pid \notin PidsDe(nuevas[r])
    BY <1>2, <1>3 DEF BuenasColas
  <2> QED BY <2>1 DEF Encoladas
<1>9. BuenasColas(nuevas)
  BY <1>5, <1>6 DEF BuenasColas, Cambia
<1> QED BY <1>2, <1>4, <1>7, <1>8, <1>9 DEF x

\* It gets one PCB of a process that is in none.
LEMMA Pone ==
  ASSUME NEW k, BuenasColas(k), NEW q \in NombresColas, NEW y \in PcbsPlanos,
         y.pid \notin Encoladas(k), NEW nuevas, Cambia(nuevas, k, q, Append(k[q], y))
  PROVE  /\ BuenasColas(nuevas)
         /\ Encoladas(nuevas) = Encoladas(k) \cup {y.pid}
         /\ \A z \in NombresColas : \A x \in ToSet(nuevas[z]) : x \in ToSet(k[z]) \/ (z = q /\ x = y)
         /\ Len(nuevas[q]) = Len(k[q]) + 1
<1> DEFINE t == Append(k[q], y)
<1>1. k[q] \in Seq(PcbsPlanos) /\ Distintos(k[q])
  BY DEF BuenasColas, NombresColas, TipoColas
<1>2. \A r \in NombresColas : y.pid \notin PidsDe(k[r])
  BY DEF Encoladas
<1>3. /\ t \in Seq(PcbsPlanos) /\ ToSet(t) = ToSet(k[q]) \cup {y} /\ Len(t) = Len(k[q]) + 1
      /\ PidsDe(t) = PidsDe(k[q]) \cup {y.pid} /\ Distintos(t)
  BY <1>1, <1>2, AlFinal
<1>4. nuevas[q] = t /\ \A r \in NombresColas : r # q => nuevas[r] = k[r]
  BY DEF Cambia
<1> HIDE DEF t
<1>5. \A r \in NombresColas : Distintos(nuevas[r])
  BY <1>3, <1>4 DEF BuenasColas
<1>6. ASSUME NEW r \in NombresColas, NEW s \in NombresColas, r # s
      PROVE  PidsDe(nuevas[r]) \cap PidsDe(nuevas[s]) = {}
  <2>1. PidsDe(k[r]) \cap PidsDe(k[s]) = {}
    BY <1>6 DEF BuenasColas
  <2>2. CASE r = q
    BY <1>2, <1>3, <1>4, <1>6, <2>1, <2>2
  <2>3. CASE s = q
    BY <1>2, <1>3, <1>4, <1>6, <2>1, <2>3
  <2>4. CASE r # q /\ s # q
    BY <1>4, <2>1, <2>4
  <2> QED BY <2>2, <2>3, <2>4
<1>7. Encoladas(nuevas) = Encoladas(k) \cup {y.pid}
  BY <1>3, <1>4 DEF Encoladas
<1>8. BuenasColas(nuevas)
  BY <1>5, <1>6 DEF BuenasColas, Cambia
<1>9. \A z \in NombresColas : \A x \in ToSet(nuevas[z]) : x \in ToSet(k[z]) \/ (z = q /\ x = y)
  BY <1>3, <1>4
<1> QED BY <1>3, <1>4, <1>7, <1>8, <1>9

----------------------------------------------------------------------------
(* The program of a console, in words.                                     *)

\* What the console sends, and what the kernel makes of it.
LEMMA Envio ==
  ASSUME Tipos, NEW c \in Conectables
  PROVE  /\ Lista(c) \in Seq(Instrucciones) /\ Programa(c) \in Seq(Palabra)
         /\ Ancho * Len(Programa(c)) \in Palabra
         /\ 6 * Ancho + Ancho * Len(Programa(c)) + 3 * Largo \in Palabra
         /\ \A k \in 0 .. Len(Lista(c)) : k \in Palabra
         /\ Mensaje(c) \in Seq(Palabra) /\ Len(Mensaje(c)) = 1 + Len(Programa(c))
         /\ TamanioMensaje(c) \in Palabra /\ TamanioMensaje(c) >= Ancho
         /\ Palabras(TamanioMensaje(c)) = Len(Mensaje(c))
         /\ serializar_instrucciones(Lista(c), TamanioDe[c])
              = [size |-> TamanioMensaje(c), stream |-> Mensaje(c)]
         /\ empaquetar([size |-> TamanioMensaje(c), stream |-> Mensaje(c)],
                       OPERACION_ENVIO_INSTRUCCIONES)
              = <<OPERACION_ENVIO_INSTRUCCIONES, TamanioMensaje(c)>> \o Mensaje(c)
         /\ recibir_buffer(<<TamanioMensaje(c)>> \o Mensaje(c))
              = [size |-> TamanioMensaje(c), stream |-> Mensaje(c), resto |-> <<>>]
<1> DEFINE l == Lista(c)
           t == Programa(c)
           m == Mensaje(c)
           z == TamanioMensaje(c)
<1>1. archivo[c] \in Archivos /\ TamanioDe[c] \in Palabra
  BY ConectablesAssumption DEF Tipos
<1>2. /\ l \in Seq(Instrucciones) /\ t \in Seq(Palabra)
      /\ Len(t) \in Nat /\ Ancho * Len(t) \in Palabra /\ Ancho + Ancho * Len(t) \in Palabra
      /\ 6 * Ancho + Ancho * Len(t) + 3 * Largo \in Palabra
      /\ \A k \in 0 .. Len(l) : k \in Palabra
      /\ serializar_instrucciones(l, 0).size = Ancho + Ancho * Len(t)
  BY <1>1, Cabe DEF Lista, Programa
<1>3. serializar_instrucciones(l, TamanioDe[c]) = [size |-> z, stream |-> m]
  <2>1. serializar_instrucciones(l, TamanioDe[c]).size = Ancho + Ancho * Len(t)
    BY <1>2, SizeExacto DEF Programa
  <2> QED BY <2>1 DEF serializar_instrucciones, Mensaje, TamanioMensaje, Programa
<1>4. z = Ancho + Ancho * Len(t) /\ m = <<TamanioDe[c]>> \o t
  BY DEF TamanioMensaje, Mensaje
<1> HIDE DEF l, t, m, z
<1>5. m \in Seq(Palabra) /\ Len(m) = 1 + Len(t)
  BY <1>1, <1>2, <1>4, Cabezas
<1>6. z = Ancho * Len(m) /\ z \in Palabra /\ z >= Ancho
  BY <1>2, <1>4, <1>5 DEF Ancho
<1>7. Palabras(z) = Len(m)
  <2>1. Len(m) \in Nat
    BY <1>5
  <2> QED BY <1>6, <2>1, Numeros
<1>8. OPERACION_ENVIO_INSTRUCCIONES \in Palabra
  BY BasePalabraAssumption DEF OPERACION_ENVIO_INSTRUCCIONES, Palabra
<1>9. /\ empaquetar([size |-> z, stream |-> m], OPERACION_ENVIO_INSTRUCCIONES)
           = <<OPERACION_ENVIO_INSTRUCCIONES, z>> \o m
      /\ recibir_buffer(<<z>> \o m) = [size |-> z, stream |-> m, resto |-> <<>>]
  BY <1>5, <1>6, <1>8, PaqueteVuelve
<1> QED BY <1>2, <1>3, <1>5, <1>6, <1>7, <1>9 DEF l, t, m, z

\* The PCB that the kernel makes of it.
LEMMA Cabecera ==
  ASSUME Tipos, NEW c \in Conectables, NEW p \in Palabra
  PROVE  LET pcb == [crear_header(p, TamanioMensaje(c), Mensaje(c), EstimacionInicial)
                       EXCEPT !.socket_consola = c]
         IN pcb.pid = p /\ DeConsola(pcb, c, 0)
<1> DEFINE t == Programa(c)
           m == Mensaje(c)
           z == TamanioMensaje(c)
           h == crear_header(p, z, m, EstimacionInicial)
<1>1. /\ t \in Seq(Palabra) /\ Ancho * Len(t) \in Palabra /\ Len(t) \in Nat
      /\ m \in Seq(Palabra) /\ Len(m) = 1 + Len(t) /\ TamanioDe[c] \in Palabra
      /\ c \in Palabra /\ EstimacionInicial \in Longs /\ 0 \in Longs /\ 0 \in Palabra
  <2>1. 0 \in Palabra /\ 0 \in Longs
    <3>1. \A x \in Nat : x > 0 => 0 <= x * x - 1
      BY SMT
    <3> QED BY <3>1, BasePalabraAssumption DEF Palabra, Longs
  <2>2. EstimacionInicial \in Longs
    BY TiempoAssumption, Zenon DEF Longs
  <2>3. TamanioDe[c] \in Palabra /\ c \in Palabra
    BY ConectablesAssumption
  <2>4. /\ t \in Seq(Palabra) /\ Ancho * Len(t) \in Palabra
        /\ m \in Seq(Palabra) /\ Len(m) = 1 + Len(t)
    BY Envio
  <2>5. Len(t) \in Nat
    BY <2>4, LenProperties
  <2> HIDE DEF t, m
  <2> QED BY <2>1, <2>2, <2>3, <2>4, <2>5
<1>2. z = Ancho + Ancho * Len(t) /\ m = <<TamanioDe[c]>> \o t
  BY DEF TamanioMensaje, Mensaje
<1> HIDE DEF t, m, z
<1>3. uint32(z - Ancho) = Ancho * Len(t)
  <2>1. z - Ancho = Ancho * Len(t)
    BY <1>1, <1>2 DEF Ancho
  <2> DEFINE w == Ancho * Len(t)
  <2>2. w \in 0 .. BasePalabra - 1 /\ BasePalabra \in Nat /\ BasePalabra > 128
    BY <1>1, BasePalabraAssumption DEF Palabra
  <2> HIDE DEF w
  <2>3. w % BasePalabra = w
    BY <2>2
  <2> QED BY <2>1, <2>3 DEF w, uint32
<1>4. m[1] = TamanioDe[c]
  BY <1>1, <1>2, Cabezas
<1>5. SubSeq(m, 2, 1 + Len(t)) = t
  <2>1. Tail(m) = t /\ m # <<>>
    BY <1>1, <1>2, Cabezas
  <2>2. \A j \in 1 .. Len(t) : m[1 + j] = t[j]
    BY <1>1, <2>1
  <2>3. 1 + 1 = 2
    OBVIOUS
  <2>4. SubSeq(m, 1 + 1, 1 + Len(t)) = t
    BY <1>1, <2>2, TrozoIgual
  <2> QED BY <2>3, <2>4
<1>6. Palabras(Ancho * Len(t)) = Len(t)
  BY <1>1, Numeros
<1>7. h = [pid |-> p, tamanio_en_memoria |-> TamanioDe[c],
           tamanio_stream_instrucciones |-> Ancho * Len(t), instrucciones |-> t,
           program_counter |-> 0, tabla_paginas |-> 0,
           estimacion_siguiente |-> EstimacionInicial, timestamp_inicio_exe |-> 0,
           real_actual |-> 0, socket_consola |-> 0]
  BY <1>3, <1>4, <1>5, <1>6 DEF crear_header
<1> HIDE DEF h
<1> DEFINE pcb == [h EXCEPT !.socket_consola = c]
<1>8. pcb = [pid |-> p, tamanio_en_memoria |-> TamanioDe[c],
             tamanio_stream_instrucciones |-> Ancho * Len(t), instrucciones |-> t,
             program_counter |-> 0, tabla_paginas |-> 0,
             estimacion_siguiente |-> EstimacionInicial, timestamp_inicio_exe |-> 0,
             real_actual |-> 0, socket_consola |-> c]
  BY <1>7
<1> HIDE DEF pcb
<1>9. pcb \in PcbsPlanos
  BY <1>1, <1>8 DEF PcbsPlanos
<1>10. pcb.pid = p /\ DeConsola(pcb, c, 0)
  BY <1>8, <1>9 DEF DeConsola, t
<1> QED BY <1>10 DEF pcb, h, m, z

\* Such a PCB announces its size, and goes to the CPU and back as it is.
LEMMA ViajeDePcb ==
  ASSUME Tipos, NEW c \in Conectables, NEW n, NEW pcb, DeConsola(pcb, c, n)
  PROVE  LET b == serializar_header(pcb)
             enCpu == [pcb EXCEPT !.instrucciones = Lista(c)]
         IN /\ pcb \in PcbsExactos
            /\ recibir_pcb(b.stream) = pcb
            /\ recibir_pcb_cpu(b.stream) = enCpu
            /\ serializar_header_cpu(enCpu) = b
<1>1. /\ pcb \in PcbsPlanos /\ pcb.instrucciones = EnPalabras(Lista(c))
      /\ pcb.tamanio_stream_instrucciones = Ancho * Len(pcb.instrucciones)
  BY DEF DeConsola, Programa
<1>2. Lista(c) \in Seq(Instrucciones) /\ TamanioPcb(pcb) \in Palabra
  BY <1>1, Envio DEF TamanioPcb, Programa
<1>3. pcb \in PcbsExactos
  BY <1>1, <1>2 DEF PcbsExactos
<1> DEFINE b == serializar_header(pcb)
           t == b.stream
           enCpu == [pcb EXCEPT !.instrucciones = Lista(c)]
<1>4. recibir_pcb(t) = pcb
  BY <1>3, PcbVuelve
<1>5. recibir_pcb_cpu(t) = enCpu /\ serializar_header_cpu(enCpu) = b
  BY <1>1, <1>2, <1>3, PcbEnLaCpu
<1> QED BY <1>3, <1>4, <1>5

\* Its packet opens with its operation, and holds nothing else.
LEMMA PaqueteDePcb ==
  ASSUME Tipos, NEW c \in Conectables, NEW n, NEW pcb, DeConsola(pcb, c, n), NEW op \in Palabra
  PROVE  LET b == serializar_header(pcb)
             s == empaquetar(b, op)
         IN /\ s # <<>> /\ s \in Seq(Palabra) /\ Head(s) = op
            /\ recibir_buffer(Tail(s)).stream = b.stream
            /\ recibir_buffer(Tail(s)).resto = <<>>
<1> DEFINE b == serializar_header(pcb)
           t == b.stream
           z == Ancho * Len(t)
<1>1. b = [size |-> z, stream |-> t] /\ t \in Seq(Palabra) /\ z \in Palabra
  BY ViajeDePcb, StreamDePcb
<1>2. z = Ancho * Len(t)
  OBVIOUS
<1> HIDE DEF b, t, z
<1>3. /\ empaquetar(b, op) = <<op, z>> \o t
      /\ recibir_buffer(<<z>> \o t) = [size |-> z, stream |-> t, resto |-> <<>>]
  BY <1>1, <1>2, PaqueteVuelve
<1>4. /\ <<op, z>> \o t \in Seq(Palabra) /\ <<op, z>> \o t # <<>>
      /\ Head(<<op, z>> \o t) = op /\ Tail(<<op, z>> \o t) = <<z>> \o t
  BY <1>1, Cabezas
<1>5. recibir_buffer(Tail(empaquetar(b, op))) = [size |-> z, stream |-> t, resto |-> <<>>]
  BY <1>3, <1>4, Zenon
<1>6. empaquetar(b, op) # <<>> /\ empaquetar(b, op) \in Seq(Palabra) /\ Head(empaquetar(b, op)) = op
  BY <1>3, <1>4, Zenon
<1> QED BY <1>5, <1>6 DEF b, t

\* So does the one with the time of its I/O, after two words.
LEMMA PaqueteDeIo ==
  ASSUME Tipos, NEW c \in Conectables, NEW n, NEW pcb, DeConsola(pcb, c, n), NEW op \in Palabra,
         NEW u \in Palabra
  PROVE  LET b == serializar_header(pcb)
             s == empaquetar_i_o(b, op, u)
         IN /\ s # <<>> /\ s \in Seq(Palabra) /\ Head(s) = op
            /\ recibir_buffer(SubSeq(s, 3, Len(s))).stream = b.stream
            /\ recibir_buffer(SubSeq(s, 3, Len(s))).resto = <<>>
<1> DEFINE b == serializar_header(pcb)
           t == b.stream
           z == Ancho * Len(t)
<1>1. b = [size |-> z, stream |-> t] /\ t \in Seq(Palabra) /\ z \in Palabra
  BY ViajeDePcb, StreamDePcb
<1>2. z = Ancho * Len(t)
  OBVIOUS
<1> HIDE DEF b, t, z
<1> DEFINE s == empaquetar_i_o(b, op, u)
<1>3. /\ s = <<op, u, z>> \o t
      /\ recibir_buffer(<<z>> \o t) = [size |-> z, stream |-> t, resto |-> <<>>]
  BY <1>1, <1>2, PaqueteVuelve
<1> HIDE DEF s
<1>4. Len(t) \in Nat /\ <<z>> \o t \in Seq(Palabra) /\ Len(<<z>> \o t) = 1 + Len(t)
      /\ (<<z>> \o t)[1] = z /\ \A j \in 2 .. 1 + Len(t) : (<<z>> \o t)[j] = t[j - 1]
  BY <1>1
<1>5. /\ s \in Seq(Palabra) /\ Len(s) = 3 + Len(t) /\ s[1] = op /\ s[3] = z
      /\ \A j \in 4 .. 3 + Len(t) : s[j] = t[j - 3]
  BY <1>1, <1>3
<1>6. s # <<>> /\ Head(s) = op
  BY <1>4, <1>5
<1>7. SubSeq(s, 3, Len(s)) = <<z>> \o t
  <2> DEFINE r == <<z>> \o t
  <2>1. r \in Seq(Palabra) /\ Len(r) = 1 + Len(t) /\ 2 + Len(r) = Len(s)
    BY <1>4, <1>5
  <2>2. ASSUME NEW j \in 1 .. Len(r) PROVE s[2 + j] = r[j]
    <3>1. CASE j = 1
      BY <1>4, <1>5, <3>1
    <3>2. CASE j # 1
      <4>1. j \in 2 .. 1 + Len(t) /\ 2 + j \in 4 .. 3 + Len(t) /\ (2 + j) - 3 = j - 1
        BY <1>4, <2>1, <3>2
      <4> QED BY <1>4, <1>5, <4>1
    <3> QED BY <3>1, <3>2
  <2> HIDE DEF r
  <2>3. SubSeq(s, 2 + 1, 2 + Len(r)) = r
    BY <2>1, <2>2, TrozoIgual
  <2> QED BY <2>1, <2>3 DEF r
<1>8. recibir_buffer(SubSeq(s, 3, Len(s))) = [size |-> z, stream |-> t, resto |-> <<>>]
  BY <1>3, <1>7, Zenon
<1>9. /\ recibir_buffer(SubSeq(s, 3, Len(s))).stream = t
      /\ recibir_buffer(SubSeq(s, 3, Len(s))).resto = <<>>
  BY <1>8
<1> QED BY <1>5, <1>6, <1>9 DEF s, b, t

----------------------------------------------------------------------------
(* Parts of the invariant that a step leaves alone.                        *)

\* The files do not change.
LEMMA Fijos ==
  ASSUME archivo' = archivo
  PROVE  /\ \A c \in Conectables : /\ Lista(c)' = Lista(c) /\ Programa(c)' = Programa(c)
                                   /\ Mensaje(c)' = Mensaje(c)
                                   /\ TamanioMensaje(c)' = TamanioMensaje(c)
         /\ \A c, pcb, n : DeConsola(pcb, c, n) => DeConsola(pcb, c, n)'
<1>1. \A c : Lista(c)' = Lista(c)
  BY DEF Lista
<1>2. \A c : Programa(c)' = Programa(c)
  BY <1>1 DEF Programa
<1>3. \A c : Mensaje(c)' = Mensaje(c) /\ TamanioMensaje(c)' = TamanioMensaje(c)
  BY <1>2 DEF Mensaje, TamanioMensaje
<1>4. \A c, pcb, n : DeConsola(pcb, c, n) => DeConsola(pcb, c, n)'
  BY <1>2 DEF DeConsola
<1> QED BY <1>1, <1>2, <1>3, <1>4

\* The state of the consoles and their threads.
LEMMA AdmisionFirme ==
  ASSUME Admision, UNCHANGED <<archivo, consola, haciaKernel, cliente_fd, hilo>>,
         vivo' = vivo \/ vivo' = FALSE
  PROVE  Admision'
<1>1. Tipos' /\ DeAUna'
  BY DEF Admision, Tipos, DeAUna, Admitida
<1>2. ASSUME NEW c \in Conectables PROVE Conexion(c)'
  <2>1. Conexion(c)
    BY DEF Admision
  <2>2. Mensaje(c)' = Mensaje(c) /\ TamanioMensaje(c)' = TamanioMensaje(c)
    BY Fijos
  <2> QED BY <2>1, <2>2 DEF Conexion, EnEspera
<1> QED BY <1>1, <1>2 DEF Admision

\* The owners, while no program that was received is forgotten.
LEMMA DueniosFirme ==
  ASSUME Duenios, UNCHANGED <<proximo_pid, duenio>>,
         \A c \in Conectables : Cargada(c) => Cargada(c)'
  PROVE  Duenios'
<1> HIDE DEF Cargada
<1>1. ASSUME NEW p \in Pids PROVE Cargada(duenio[p])'
  <2>1. duenio[p] \in Conectables /\ Cargada(duenio[p])
    BY DEF Duenios
  <2>2. Cargada(duenio[p])' <=> hilo'[duenio[p]].fase = "termino"
    BY DEF Cargada
  <2>3. hilo'[duenio[p]].fase = "termino"
    BY <2>1 DEF Cargada
  <2> QED BY <2>2, <2>3
<1> QED BY <1>1 DEF Duenios, Pids, Cargada

\* What was executed.
LEMMA HistoriaFirme ==
  ASSUME Historia, UNCHANGED <<archivo, ejecutadas>>,
         \A c \in Conectables : Cargada(c) => Cargada(c)'
  PROVE  Historia'
<1>1. ASSUME NEW c \in Conectables PROVE HistoriaDe(c)'
  <2>1. HistoriaDe(c) /\ Lista(c)' = Lista(c)
    BY Fijos DEF Historia
  <2> HIDE DEF Cargada
  <2> QED BY <2>1 DEF HistoriaDe
<1> QED BY <1>1 DEF Historia

\* The notices of the end.
LEMMA AvisosFirmes ==
  ASSUME Avisos, UNCHANGED <<haciaConsola, ejecutadas>>,
         \A c \in Conectables : consola'[c] = "terminada" <=> consola[c] = "terminada"
  PROVE  /\ Avisos'
         /\ \A c \in Conectables : Avisada(c)' => Avisada(c)
<1>1. \A c \in Conectables : Avisada(c)' => Avisada(c)
  BY DEF Avisada
<1>2. \A c \in Conectables : LlegoAExit(c)' <=> LlegoAExit(c)
  BY DEF LlegoAExit
<1> QED BY <1>1, <1>2 DEF Avisos

\* A PCB is up to date while its process, its console and what was executed
\* for it are what they were.
LEMMA SigueAlDia ==
  ASSUME Duenios, NEW x, AlDia(x), archivo' = archivo, Pids \subseteq Pids',
         duenio'[x.pid] = duenio[x.pid],
         ejecutadas'[duenio[x.pid]] = ejecutadas[duenio[x.pid]],
         Avisada(duenio[x.pid])' => Avisada(duenio[x.pid])
  PROVE  AlDia(x)'
<1> DEFINE c == duenio[x.pid]
           n == Len(ejecutadas[c])
<1>1. x.pid \in Pids /\ DeConsola(x, c, n) /\ ~Avisada(c)
  BY DEF AlDia
<1>2. PICK d : d = c
  OBVIOUS
<1>3. PICK m : m = n
  OBVIOUS
<1>4. x.pid \in Pids' /\ duenio'[x.pid] = d /\ Len(ejecutadas'[d]) = m
  BY <1>1, <1>2, <1>3
<1>5. DeConsola(x, d, m)'
  BY <1>1, <1>2, <1>3, Fijos
<1>6. ~(Avisada(duenio[x.pid])')
  BY <1>1
<1>7. ~(haciaConsola'[d] # <<>> \/ consola'[d] = "terminada")
  BY <1>2, <1>4, <1>6 DEF Avisada
<1> QED BY <1>4, <1>5, <1>7 DEF AlDia, Avisada

\* Steps that execute nothing and tell no end; and dispatch nothing either.
Callado ==
  /\ UNCHANGED <<archivo, ejecutadas>>
  /\ Pids \subseteq Pids'
  /\ \A p \in Pids : duenio'[p] = duenio[p]
  /\ \A c \in Conectables : Avisada(c)' => Avisada(c)
Tranquilo == Callado /\ despachado' = despachado

\* They leave up to date the PCBs that were, and what was dispatched.
LEMMA TodosAlDia ==
  ASSUME Duenios, Callado
  PROVE  /\ \A x : AlDia(x) => AlDia(x)'
         /\ Tranquilo => \A p \in Pids : Vuelta(p)' = Vuelta(p)
<1>1. ASSUME NEW x, AlDia(x) PROVE AlDia(x)'
  <2>1. x.pid \in Pids
    BY <1>1 DEF AlDia
  <2>2. PICK d \in Conectables : d = duenio[x.pid]
    BY <2>1 DEF Duenios
  <2>3. duenio'[x.pid] = d
    BY <2>1, <2>2 DEF Callado
  <2>4. Avisada(d)' => Avisada(d)
    BY <2>2 DEF Callado
  <2>5. (Avisada(duenio[x.pid]))' => Avisada(duenio[x.pid])
    BY <2>2, <2>3, <2>4 DEF Avisada
  <2>6. ejecutadas'[duenio[x.pid]] = ejecutadas[duenio[x.pid]] /\ archivo' = archivo
    BY DEF Callado
  <2> QED BY <1>1, <2>2, <2>3, <2>5, <2>6, SigueAlDia DEF Callado
<1>2. ASSUME Tranquilo, NEW p \in Pids PROVE Vuelta(p)' = Vuelta(p)
  BY <1>2 DEF Vuelta, Tranquilo, Callado
<1> QED BY <1>1, <1>2

\* The process in the CPU or on its way, while it is put in no queue.
LEMMA VueloFirme ==
  ASSUME Duenios, Vuelo, Tranquilo, UNCHANGED cpuVars,
         Encoladas(colas)' \cap Pids \subseteq Encoladas(colas)
  PROVE  Vuelo'
<1>1. DOMAIN despachado' \subseteq Pids'
  BY DEF Vuelo, Tranquilo, Callado
<1>2. CASE Reposo
  <2>1. Reposo'
    BY <1>2 DEF Reposo, cpuVars
  <2> QED BY <1>1, <2>1 DEF Vuelo
<1>3. CASE \E p \in DOMAIN despachado : EnVuelo(p)
  <2>1. PICK p \in DOMAIN despachado : EnVuelo(p)
    BY <1>3
  <2>2. PICK d \in Conectables : d = duenio[p]
    BY DEF Vuelo, Duenios
  <2>3. p \in Pids /\ duenio'[p] = d /\ Vuelta(p)' = Vuelta(p)
    BY <2>2, TodosAlDia DEF Vuelo, Tranquilo, Callado
  <2>4. PICK v : v = Vuelta(p)
    OBVIOUS
  <2>5. AlDia(v) /\ AlDia(v)'
    BY <2>1, <2>4, TodosAlDia DEF EnVuelo, Tranquilo
  <2>6. AlDia(Vuelta(p))'
    BY <2>3, <2>4, <2>5 DEF AlDia
  <2>7. p \notin Encoladas(colas)'
    BY <2>1, <2>3 DEF EnVuelo
  <2>8. /\ despachado'[p] \in PcbsPlanos /\ despachado'[p].pid = p
        /\ p \in DOMAIN despachado'
    BY <2>1 DEF EnVuelo, Tranquilo, Callado
  <2>9. /\ Yendo(p) => Yendo(p)'
        /\ Volviendo(p) => Volviendo(p)'
    BY <2>2, <2>3 DEF Yendo, Volviendo, LlegoAExit, Tranquilo, Callado, cpuVars
  <2>10. EnCpu(p) => EnCpu(p)'
    <3>1. Lista(d)' = Lista(d)
      BY Fijos DEF Tranquilo, Callado
    <3>2. Lista(duenio[p]) = Lista(d) /\ (Lista(duenio[p]))' = Lista(d)
      BY <2>2, <2>3, <3>1 DEF Lista
    <3>3. UNCHANGED <<cpu, despacho, retorno, ejecutadas>>
      BY DEF Tranquilo, Callado, cpuVars
    <3> HIDE DEF Lista
    <3> QED BY <2>2, <2>3, <3>2, <3>3 DEF EnCpu
  <2>11. EnVuelo(p)'
    BY <2>1, <2>6, <2>7, <2>8, <2>9, <2>10 DEF EnVuelo
  <2> QED BY <1>1, <2>8, <2>11 DEF Vuelo
<1> QED BY <1>2, <1>3 DEF Vuelo

\* The PCBs that wait for the device, while no other comes.
LEMMA EnIoFirme ==
  ASSUME Colas, Duenios, EnIo, Tranquilo, ToSet(colas.io)' \subseteq ToSet(colas.io)
  PROVE  EnIo'
<1> SUFFICES ASSUME NEW x \in ToSet(colas.io)'
             PROVE  /\ x.pid \in DOMAIN despachado'
                    /\ x = [Vuelta(x.pid)' EXCEPT !.real_actual = x.real_actual]
  BY DEF EnIo, Vuelta
<1>1. x \in ToSet(colas.io)
  OBVIOUS
<1>2. x.pid \in Pids
  BY <1>1 DEF Colas, NombresColas, AlDia
<1>3. Vuelta(x.pid)' = Vuelta(x.pid)
  BY <1>2, TodosAlDia DEF Tranquilo
<1>4. x.pid \in DOMAIN despachado /\ x = [Vuelta(x.pid) EXCEPT !.real_actual = x.real_actual]
  BY <1>1 DEF EnIo
<1>5. despachado' = despachado
  BY DEF Tranquilo, Callado
<1> QED BY <1>3, <1>4, <1>5

\* Everything but the consoles, the owners and the notices, when the queues
\* and the CPU do not change.
LEMMA RestoFirme ==
  ASSUME Duenios, Colas, EnIo, Ficha, Vuelo, Tranquilo,
         UNCHANGED <<proximo_pid, planVars, ioVars, cpuVars>>
  PROVE  Colas' /\ EnIo' /\ Ficha' /\ Vuelo'
<1>1. UNCHANGED <<colas, corto, inicio, tablas, process_state, recibe, despacho, retorno, cpu>>
  BY DEF planVars, ioVars, cpuVars
<1>2. Ficha'
  BY <1>1 DEF Ficha, EstadosIo, Reposo
<1>3. EnIo' /\ Vuelo'
  BY <1>1, EnIoFirme, VueloFirme
<1>4. Colas'
  <2>1. ASSUME NEW q \in NombresColas, NEW x \in ToSet(colas[q]) PROVE AlDia(x)'
    BY TodosAlDia DEF Colas, Tranquilo
  <2> QED BY <1>1, <2>1 DEF Colas
<1> QED BY <1>2, <1>3, <1>4

----------------------------------------------------------------------------
(* The consoles and the threads that serve them.                           *)

\* One console moves, and it is the only one that is being served.
LEMMA UnaSola ==
  ASSUME Admision, NEW c \in Conectables, Tipos', archivo' = archivo,
         \A d \in Conectables \ {c} : /\ consola'[d] = consola[d] /\ hilo'[d] = hilo[d]
                                      /\ haciaKernel'[d] = haciaKernel[d]
                                      /\ Admitida(d),
         Conexion(c)',
         hilo'[c].fase \notin {"no", "termino"} => cliente_fd' = c
  PROVE  Admision'
<1>1. ASSUME NEW d \in Conectables, d # c PROVE Conexion(d)'
  <2>1. Conexion(d) /\ Mensaje(d)' = Mensaje(d) /\ TamanioMensaje(d)' = TamanioMensaje(d)
    BY Fijos DEF Admision
  <2>2. consola'[d] = consola[d] /\ hilo'[d] = hilo[d] /\ haciaKernel'[d] = haciaKernel[d]
    BY <1>1
  <2> QED BY <2>1, <2>2 DEF Conexion, EnEspera
<1>2. ASSUME NEW d \in Conectables, d # c
      PROVE  Admitida(d)' /\ hilo'[d].fase \in {"no", "termino"}
  <2>1. Admitida(d) /\ Conexion(d)
    BY <1>2 DEF Admision
  <2>2. consola'[d] = consola[d] /\ hilo'[d] = hilo[d]
    BY <1>2
  <2> QED BY <2>1, <2>2 DEF Admitida, Conexion, EnEspera
<1>3. DeAUna'
  <2>1. \A d \in Conectables : hilo'[d].fase \notin {"no", "termino"} => cliente_fd' = d
    BY <1>2
  <2>2. \A d, e \in Conectables : d = e \/ Admitida(d)' \/ Admitida(e)'
    BY <1>2
  <2> QED BY <2>1, <2>2 DEF DeAUna
<1>4. \A d \in Conectables : Conexion(d)'
  BY <1>1
<1> QED BY <1>3, <1>4 DEF Admision

\* A console that is not admitted is the only one.
LEMMA LasDemas ==
  ASSUME Admision, NEW c \in Conectables, ~Admitida(c)
  PROVE  \A d \in Conectables \ {c} : Admitida(d)
BY DEF Admision, DeAUna

\* A thread that has not ended serves the console of cliente_fd.
LEMMA ElServido ==
  ASSUME Admision, NEW h \in Conectables, hilo[h].fase \notin {"no", "termino"}
  PROVE  cliente_fd = h /\ ~Admitida(h) /\ Conexion(h)
BY DEF Admision, DeAUna, Conexion, EnEspera, Admitida

\* The parts of a step of one thread that are common to all.
LEMMA PasoDeHilo ==
  ASSUME Admision, NEW h \in Conectables, hilo[h].fase \notin {"no", "termino"},
         NEW x \in Hilos, NEW w \in Seq(Palabra),
         hilo' = [hilo EXCEPT ![h] = x], haciaKernel' = [haciaKernel EXCEPT ![h] = w],
         UNCHANGED <<archivo, consola, cliente_fd, vivo>>,
         Conexion(h)'
  PROVE  Admision'
<1>1. cliente_fd = h /\ ~Admitida(h)
  BY ElServido
<1>2. Tipos'
  BY DEF Admision, Tipos
<1>3. \A d \in Conectables \ {h} : hilo'[d] = hilo[d] /\ haciaKernel'[d] = haciaKernel[d]
  BY DEF Admision, Tipos
<1> QED BY <1>1, <1>2, <1>3, LasDemas, UnaSola

\* The console connects when all are admitted.
LEMMA ConectaAdmision ==
  ASSUME Admision, NEW c \in Conectables, Conecta(c), \A d \in Conectables : Admitida(d)
  PROVE  Admision'
<1>1. consola[c] = "sin conectar" /\ consola' = [consola EXCEPT ![c] = "conectada"]
  BY DEF Conecta, Pasa
<1>2. UNCHANGED <<archivo, haciaKernel, cliente_fd, hilo, vivo>>
  BY DEF Conecta, admision
<1>3. Tipos'
  BY <1>1, <1>2 DEF Admision, Tipos
<1>4. Conexion(c) /\ consola'[c] = "conectada"
  BY <1>1 DEF Admision, Tipos
<1>5. Conexion(c)' /\ hilo'[c].fase = "no"
  BY <1>1, <1>2, <1>4 DEF Conexion, EnEspera
<1>6. \A d \in Conectables \ {c} : consola'[d] = consola[d]
  BY <1>1 DEF Admision, Tipos
<1> QED BY <1>2, <1>3, <1>5, <1>6, UnaSola

\* The kernel accepts it.
LEMMA AceptaAdmision ==
  ASSUME Admision, NEW c \in Conectables, Acepta(c)
  PROVE  Admision'
<1>1. /\ consola[c] = "conectada" /\ consola' = [consola EXCEPT ![c] = "aceptada"]
      /\ cliente_fd' = c /\ hilo' = [hilo EXCEPT ![c].fase = "operacion"]
      /\ UNCHANGED <<archivo, haciaKernel, vivo>>
  BY DEF Acepta, Pasa
<1>2. Conexion(c) /\ Tipos
  BY DEF Admision
<1>3. hilo[c].fase = "no" /\ haciaKernel[c] = <<>>
  BY <1>1, <1>2 DEF Conexion, EnEspera
<1>4. hilo[c] \in Hilos
  BY <1>2 DEF Tipos
<1>5. hilo'[c] = [hilo[c] EXCEPT !.fase = "operacion"] /\ hilo'[c] \in Hilos
      /\ hilo'[c].fase = "operacion"
  <2>1. hilo'[c] = [hilo[c] EXCEPT !.fase = "operacion"]
    BY <1>1, <1>2 DEF Tipos
  <2> QED BY <1>4, <2>1 DEF Hilos, Fases
<1>6. \A d \in Conectables \ {c} : consola'[d] = consola[d] /\ hilo'[d] = hilo[d]
  BY <1>1, <1>2 DEF Tipos
<1>7. hilo' \in [Conectables -> Hilos]
  BY <1>1, <1>2, <1>5, <1>6 DEF Tipos
<1>8. Tipos' /\ consola'[c] = "aceptada"
  BY <1>1, <1>2, <1>7 DEF Tipos
<1>9. Conexion(c)'
  BY <1>1, <1>3, <1>5, <1>8 DEF Conexion
<1>10. ~Admitida(c)
  BY <1>1, <1>3 DEF Admitida
<1> QED BY <1>1, <1>6, <1>8, <1>9, <1>10, LasDemas, UnaSola

\* It sends its program.
LEMMA EnviaAdmision ==
  ASSUME Admision, NEW c \in Conectables, EnviaPrograma(c)
  PROVE  Admision'
<1>1. /\ consola[c] = "aceptada" /\ consola' = [consola EXCEPT ![c] = "espera"]
      /\ UNCHANGED <<archivo, cliente_fd, hilo, vivo>>
  BY DEF EnviaPrograma, Pasa, admision
<1>2. Conexion(c) /\ Tipos
  BY DEF Admision
<1>3. /\ haciaKernel[c] = <<>>
      /\ hilo[c].fase = "operacion" \/ (hilo[c].fase = "recv operacion" /\ hilo[c].fd = c)
  BY <1>1, <1>2 DEF Conexion, EnEspera
<1> DEFINE w == <<OPERACION_ENVIO_INSTRUCCIONES, TamanioMensaje(c)>> \o Mensaje(c)
<1>4. haciaKernel' = [haciaKernel EXCEPT ![c] = haciaKernel[c] \o
        empaquetar(serializar_instrucciones(Lista(c), TamanioDe[c]), OPERACION_ENVIO_INSTRUCCIONES)]
  BY DEF EnviaPrograma, Lista
<1>5. w \in Seq(Palabra)
  <2>1. OPERACION_ENVIO_INSTRUCCIONES \in Palabra
    BY BasePalabraAssumption DEF OPERACION_ENVIO_INSTRUCCIONES, Palabra
  <2> QED BY <1>2, <2>1, Envio, Cabezas
<1>6. empaquetar(serializar_instrucciones(Lista(c), TamanioDe[c]), OPERACION_ENVIO_INSTRUCCIONES) = w
  BY <1>2, Envio
<1> HIDE DEF w
<1>7. haciaKernel' = [haciaKernel EXCEPT ![c] = w]
  <2>1. <<>> \o w = w
    BY <1>5
  <2>2. haciaKernel[c] \o empaquetar(serializar_instrucciones(Lista(c), TamanioDe[c]),
                                     OPERACION_ENVIO_INSTRUCCIONES) = w
    BY <1>3, <1>6, <2>1, Zenon
  <2> QED BY <1>4, <2>2, Zenon
<1>8. Tipos'
  BY <1>1, <1>2, <1>5, <1>7 DEF Tipos
<1>9. consola'[c] = "espera" /\ haciaKernel'[c] = w
  BY <1>1, <1>2, <1>7 DEF Tipos
<1>10. Conexion(c)'
  <2>1. Mensaje(c)' = Mensaje(c) /\ TamanioMensaje(c)' = TamanioMensaje(c)
    BY <1>1, Fijos
  <2>2. haciaKernel'[c] = <<OPERACION_ENVIO_INSTRUCCIONES, TamanioMensaje(c)'>> \o Mensaje(c)'
    BY <1>9, <2>1 DEF w
  <2> QED BY <1>1, <1>3, <1>9, <2>2 DEF Conexion, EnEspera
<1>11. hilo[c].fase \notin {"no", "termino"}
  BY <1>3
<1>12. cliente_fd = c /\ ~Admitida(c)
  BY <1>11, ElServido
<1>13. \A d \in Conectables \ {c} : consola'[d] = consola[d] /\ haciaKernel'[d] = haciaKernel[d]
  BY <1>1, <1>2, <1>7 DEF Tipos
<1> QED BY <1>1, <1>8, <1>10, <1>12, <1>13, LasDemas, UnaSola

\* A thread reads cliente_fd, which is its own console.
LEMMA LeeFdAdmision ==
  ASSUME Admision, NEW h \in Conectables, LeeFdOperacion(h) \/ LeeFdBuffer(h)
  PROVE  Admision'
<1>1. /\ hilo[h].fase = "operacion" \/ hilo[h].fase = "buffer"
      /\ hilo' = [hilo EXCEPT ![h].fase = IF hilo[h].fase = "operacion" THEN "recv operacion"
                                                                        ELSE "recv size",
                              ![h].fd = cliente_fd]
      /\ UNCHANGED <<archivo, consola, haciaKernel, cliente_fd, vivo>>
  <2>1. CASE LeeFdOperacion(h)
    BY <2>1 DEF LeeFdOperacion, LeeFd, consolaVars
  <2>2. CASE LeeFdBuffer(h)
    BY <2>2 DEF LeeFdBuffer, LeeFd, consolaVars
  <2> QED BY <2>1, <2>2
<1>2. cliente_fd = h /\ Conexion(h) /\ Tipos /\ hilo[h] \in Hilos /\ haciaKernel[h] \in Seq(Palabra)
  BY <1>1, ElServido DEF Admision, Tipos
<1> DEFINE f == IF hilo[h].fase = "operacion" THEN "recv operacion" ELSE "recv size"
           x == [hilo[h] EXCEPT !.fase = f, !.fd = h]
<1>3. f \in Fases
  BY DEF Fases
<1>4. x \in Hilos /\ x.fase = f /\ x.fd = h
  <2> HIDE DEF f
  <2> QED BY <1>2, <1>3 DEF Hilos
<1>5. hilo' = [hilo EXCEPT ![h] = x]
  BY <1>1, <1>2 DEF Tipos
<1> HIDE DEF x
<1>6. hilo'[h] = x
  BY <1>2, <1>5 DEF Tipos
<1>7. haciaKernel' = [haciaKernel EXCEPT ![h] = haciaKernel[h]]
  BY <1>1, <1>2 DEF Tipos
<1>8. Conexion(h)'
  <2>1. Mensaje(h)' = Mensaje(h) /\ TamanioMensaje(h)' = TamanioMensaje(h)
    BY <1>1, Fijos
  <2> QED BY <1>1, <1>2, <1>4, <1>6, <2>1 DEF Conexion, EnEspera
<1> QED BY <1>1, <1>2, <1>4, <1>5, <1>7, <1>8, PasoDeHilo

\* What a thread that receives finds on its connection.
LEMMA LoQueHay ==
  ASSUME Admision, NEW h \in Conectables,
         hilo[h].fase \in {"recv operacion", "recv size", "recv stream", "crear"}
  PROVE  /\ hilo[h].fd = h /\ cliente_fd = h
         /\ \/ hilo[h].fase = "recv operacion" /\ consola[h] = "aceptada" /\ haciaKernel[h] = <<>>
            \/ /\ consola[h] = "espera"
               /\ hilo[h].fase = "recv operacion" =>
                    haciaKernel[h] = <<OPERACION_ENVIO_INSTRUCCIONES, TamanioMensaje(h)>> \o Mensaje(h)
               /\ hilo[h].fase = "recv size" => haciaKernel[h] = <<TamanioMensaje(h)>> \o Mensaje(h)
               /\ hilo[h].fase \in {"recv stream", "crear"} => hilo[h].size = TamanioMensaje(h)
               /\ hilo[h].fase = "recv stream" => haciaKernel[h] = Mensaje(h)
               /\ hilo[h].fase = "crear" => hilo[h].stream = Mensaje(h) /\ haciaKernel[h] = <<>>
<1>1. Conexion(h) /\ cliente_fd = h
  BY ElServido
<1> HIDE DEF Mensaje, TamanioMensaje
<1> QED BY <1>1 DEF Conexion, EnEspera

\* It receives the operation, which is that of a program.
LEMMA OperacionAdmision ==
  ASSUME Admision, NEW h \in Conectables, recibir_operacion(h)
  PROVE  Admision' /\ ~Cargada(h)'
<1>1. hilo[h].fase = "recv operacion" /\ UNCHANGED <<archivo, consola, cliente_fd, vivo>>
  BY DEF recibir_operacion
<1>2. Tipos /\ hilo[h] \in Hilos /\ hilo[h].fd = h /\ cliente_fd = h
  BY <1>1, LoQueHay DEF Admision, Tipos
<1>3. /\ haciaKernel[h] # <<>> \/ consola[h] = "terminada"
      /\ hilo' = [hilo EXCEPT ![h].fase =
           IF haciaKernel[h] # <<>> /\ Head(haciaKernel[h]) = OPERACION_ENVIO_INSTRUCCIONES
           THEN "buffer" ELSE "termino"]
      /\ haciaKernel' = [haciaKernel EXCEPT ![h] =
           IF haciaKernel[h] = <<>> THEN haciaKernel[h] ELSE Tail(haciaKernel[h])]
  BY <1>2 DEF recibir_operacion
<1> DEFINE w == <<TamanioMensaje(h)>> \o Mensaje(h)
<1>4. /\ consola[h] = "espera"
      /\ haciaKernel[h] = <<OPERACION_ENVIO_INSTRUCCIONES, TamanioMensaje(h)>> \o Mensaje(h)
  BY <1>1, <1>3, LoQueHay
<1>5. /\ haciaKernel[h] # <<>> /\ Head(haciaKernel[h]) = OPERACION_ENVIO_INSTRUCCIONES
      /\ Tail(haciaKernel[h]) = w /\ w \in Seq(Palabra)
  <2> DEFINE m == Mensaje(h)
             z == TamanioMensaje(h)
             op == OPERACION_ENVIO_INSTRUCCIONES
  <2>1. op \in Palabra
    BY BasePalabraAssumption DEF OPERACION_ENVIO_INSTRUCCIONES, Palabra
  <2>2. m \in Seq(Palabra) /\ z \in Palabra
    BY <1>2, Envio
  <2>3. haciaKernel[h] = <<op, z>> \o m /\ w = <<z>> \o m
    BY <1>4
  <2> HIDE DEF m, z, w, op
  <2>4. /\ <<op, z>> \o m # <<>> /\ Head(<<op, z>> \o m) = op
        /\ Tail(<<op, z>> \o m) = <<z>> \o m /\ <<z>> \o m \in Seq(Palabra)
    BY <2>1, <2>2, Cabezas
  <2>5. haciaKernel[h] # <<>> /\ Head(haciaKernel[h]) = op /\ Tail(haciaKernel[h]) = w
        /\ w \in Seq(Palabra)
    BY <2>3, <2>4, Zenon
  <2> QED BY <2>5 DEF op
<1> DEFINE x == [hilo[h] EXCEPT !.fase = "buffer"]
<1>6. x \in Hilos /\ x.fase = "buffer"
  BY <1>2 DEF Hilos, Fases
<1> HIDE DEF w
<1>7. hilo' = [hilo EXCEPT ![h] = x] /\ haciaKernel' = [haciaKernel EXCEPT ![h] = w]
  BY <1>2, <1>3, <1>5 DEF Tipos
<1> HIDE DEF x
<1>8. hilo'[h] = x /\ haciaKernel'[h] = w
  BY <1>2, <1>7 DEF Tipos
<1>9. Conexion(h)'
  <2>1. Mensaje(h)' = Mensaje(h) /\ TamanioMensaje(h)' = TamanioMensaje(h)
    BY <1>1, Fijos
  <2>2. haciaKernel'[h] = <<TamanioMensaje(h)'>> \o Mensaje(h)'
    BY <1>8, <2>1 DEF w
  <2> QED BY <1>1, <1>4, <1>6, <1>8, <2>2 DEF Conexion, EnEspera
<1>10. Admision'
  BY <1>1, <1>5, <1>6, <1>7, <1>9, PasoDeHilo
<1> QED BY <1>6, <1>8, <1>10 DEF Cargada

\* It receives the size.
LEMMA SizeAdmision ==
  ASSUME Admision, NEW h \in Conectables, RecibeSize(h)
  PROVE  Admision'
<1>1. hilo[h].fase = "recv size" /\ UNCHANGED <<archivo, consola, cliente_fd, vivo>>
  BY DEF RecibeSize
<1>2. Tipos /\ hilo[h] \in Hilos /\ hilo[h].fd = h
  BY <1>1, LoQueHay DEF Admision, Tipos
<1>3. /\ hilo' = [hilo EXCEPT ![h].fase = "recv stream", ![h].size = Head(haciaKernel[h])]
      /\ haciaKernel' = [haciaKernel EXCEPT ![h] = Tail(haciaKernel[h])]
  BY <1>2 DEF RecibeSize
<1> DEFINE m == Mensaje(h)
           z == TamanioMensaje(h)
<1>4. consola[h] = "espera" /\ haciaKernel[h] = <<z>> \o m
  BY <1>1, LoQueHay
<1>5. z \in Palabra /\ m \in Seq(Palabra)
  BY <1>2, Envio
<1> HIDE DEF m, z
<1>10. Head(<<z>> \o m) = z /\ Tail(<<z>> \o m) = m
  BY <1>5, Cabezas
<1>11. Head(haciaKernel[h]) = z /\ Tail(haciaKernel[h]) = m
  BY <1>4, <1>10, Zenon
<1> DEFINE x == [hilo[h] EXCEPT !.fase = "recv stream", !.size = z]
<1>6. x \in Hilos /\ x.fase = "recv stream" /\ x.size = z /\ x.fd = h
  BY <1>2, <1>5 DEF Hilos, Fases
<1>7. hilo' = [hilo EXCEPT ![h] = x] /\ haciaKernel' = [haciaKernel EXCEPT ![h] = m]
  BY <1>2, <1>3, <1>11 DEF Tipos
<1> HIDE DEF x
<1>8. hilo'[h] = x /\ haciaKernel'[h] = m
  BY <1>2, <1>7 DEF Tipos
<1>9. Conexion(h)'
  <2>1. m = Mensaje(h)' /\ z = TamanioMensaje(h)'
    BY <1>1, Fijos DEF m, z
  <2> QED BY <1>1, <1>4, <1>6, <1>8, <2>1 DEF Conexion, EnEspera
<1> QED BY <1>1, <1>5, <1>6, <1>7, <1>9, PasoDeHilo

\* It receives the stream, the whole message of its console.
LEMMA StreamAdmision ==
  ASSUME Admision, NEW h \in Conectables, RecibeStream(h)
  PROVE  Admision'
<1>1. hilo[h].fase = "recv stream" /\ UNCHANGED <<archivo, consola, cliente_fd, vivo>>
  BY DEF RecibeStream
<1>2. Tipos /\ hilo[h] \in Hilos /\ hilo[h].fd = h
  BY <1>1, LoQueHay DEF Admision, Tipos
<1> DEFINE m == Mensaje(h)
           z == TamanioMensaje(h)
<1>3. consola[h] = "espera" /\ haciaKernel[h] = m /\ hilo[h].size = z
  BY <1>1, LoQueHay
<1>4. /\ hilo' = [hilo EXCEPT ![h].fase = "crear", ![h].stream = recibir_buffer(<<z>> \o m).stream]
      /\ haciaKernel' = [haciaKernel EXCEPT ![h] = recibir_buffer(<<z>> \o m).resto]
  BY <1>2, <1>3 DEF RecibeStream
<1>5. recibir_buffer(<<z>> \o m).stream = m /\ recibir_buffer(<<z>> \o m).resto = <<>>
      /\ m \in Seq(Palabra)
  <2>1. recibir_buffer(<<z>> \o m) = [size |-> z, stream |-> m, resto |-> <<>>] /\ m \in Seq(Palabra)
    BY <1>2, Envio
  <2> HIDE DEF m, z
  <2> QED BY <2>1
<1> HIDE DEF m, z
<1> DEFINE x == [hilo[h] EXCEPT !.fase = "crear", !.stream = m]
<1>6. x \in Hilos /\ x.fase = "crear" /\ x.size = z /\ x.fd = h /\ x.stream = m
  BY <1>2, <1>3, <1>5 DEF Hilos, Fases
<1>7. hilo' = [hilo EXCEPT ![h] = x] /\ haciaKernel' = [haciaKernel EXCEPT ![h] = <<>>]
  BY <1>2, <1>4, <1>5 DEF Tipos
<1> HIDE DEF x
<1>8. hilo'[h] = x /\ haciaKernel'[h] = <<>>
  BY <1>2, <1>7 DEF Tipos
<1>9. Conexion(h)'
  <2>1. m = Mensaje(h)' /\ z = TamanioMensaje(h)'
    BY <1>1, Fijos DEF m, z
  <2> QED BY <1>1, <1>3, <1>6, <1>8, <2>1 DEF Conexion, EnEspera
<1>10. <<>> \in Seq(Palabra)
  BY EmptySeq
<1> QED BY <1>1, <1>6, <1>7, <1>9, <1>10, PasoDeHilo

\* A step of these leaves the rest of the invariant alone.
LEMMA PasoDeAdmision ==
  ASSUME IndInv, NEW c \in Conectables,
         \/ Conecta(c) /\ \A d \in Conectables : Admitida(d)
         \/ Acepta(c) \/ EnviaPrograma(c)
         \/ LeeFdOperacion(c) \/ recibir_operacion(c) \/ LeeFdBuffer(c) \/ RecibeSize(c)
         \/ RecibeStream(c)
  PROVE  IndInv'
<1>1. Tipos /\ hilo \in [Conectables -> Hilos]
  BY DEF IndInv, Admision, Tipos
<1>2. /\ Admision'
      /\ UNCHANGED <<archivo, haciaConsola, proximo_pid, planVars, ioVars, cpuVars, historia>>
      /\ hilo[c].fase # "termino" \/ hilo' = hilo
      /\ \A d \in Conectables \ {c} : hilo'[d] = hilo[d]
      /\ \A d \in Conectables : consola'[d] = "terminada" <=> consola[d] = "terminada"
  <2>1. CASE Conecta(c) /\ \A d \in Conectables : Admitida(d)
    BY <1>1, <2>1, ConectaAdmision DEF IndInv, Conecta, Pasa, Tipos, admision
  <2>2. CASE Acepta(c)
    <3>1. Conexion(c) /\ consola[c] = "conectada"
      BY <2>2 DEF IndInv, Admision, Acepta, Pasa
    <3>2. hilo[c].fase = "no"
      BY <3>1 DEF Conexion, EnEspera
    <3> QED BY <1>1, <2>2, <3>2, AceptaAdmision DEF IndInv, Acepta, Pasa, Tipos
  <2>3. CASE EnviaPrograma(c)
    BY <1>1, <2>3, EnviaAdmision DEF IndInv, EnviaPrograma, Pasa, Tipos, admision
  <2>4. CASE LeeFdOperacion(c)
    <3>1. LeeFd(c, "operacion", "recv operacion")
      BY <2>4 DEF LeeFdOperacion
    <3> QED BY <1>1, <2>4, <3>1, LeeFdAdmision DEF IndInv, LeeFd, Tipos, consolaVars
  <2>5. CASE LeeFdBuffer(c)
    <3>1. LeeFd(c, "buffer", "recv size")
      BY <2>5 DEF LeeFdBuffer
    <3> QED BY <1>1, <2>5, <3>1, LeeFdAdmision DEF IndInv, LeeFd, Tipos, consolaVars
  <2>6. CASE recibir_operacion(c)
    BY <1>1, <2>6, OperacionAdmision DEF IndInv, recibir_operacion, Tipos
  <2>7. CASE RecibeSize(c)
    BY <1>1, <2>7, SizeAdmision DEF IndInv, RecibeSize, Tipos
  <2>8. CASE RecibeStream(c)
    BY <1>1, <2>8, StreamAdmision DEF IndInv, RecibeStream, Tipos
  <2> QED BY <2>1, <2>2, <2>3, <2>4, <2>5, <2>6, <2>7, <2>8
<1>3. \A d \in Conectables : Cargada(d) => Cargada(d)'
  BY <1>2 DEF Cargada
<1>4. UNCHANGED <<duenio, ejecutadas, despachado>>
  BY <1>2 DEF historia
<1>5. Duenios' /\ Historia'
  BY <1>2, <1>3, <1>4, DueniosFirme, HistoriaFirme DEF IndInv
<1>6. Avisos' /\ \A d \in Conectables : Avisada(d)' => Avisada(d)
  BY <1>2, <1>4, AvisosFirmes DEF IndInv
<1>7. Tranquilo
  BY <1>2, <1>4, <1>6 DEF Tranquilo, Callado, Pids
<1>8. Colas' /\ EnIo' /\ Ficha' /\ Vuelo'
  BY <1>2, <1>7, RestoFirme DEF IndInv
<1> QED BY <1>2, <1>5, <1>6, <1>8 DEF IndInv

\* The console ends when it was told so.
LEMMA PasoRecibeResultado ==
  ASSUME IndInv, NEW c \in Conectables, RecibeResultado(c)
  PROVE  IndInv'
<1>1. /\ haciaConsola[c] # <<>> /\ consola[c] = "espera"
      /\ consola' = [consola EXCEPT ![c] = "terminada"]
      /\ haciaConsola' = [haciaConsola EXCEPT ![c] = Tail(haciaConsola[c])]
      /\ UNCHANGED <<archivo, haciaKernel, cliente_fd, hilo, vivo, proximo_pid, planVars, ioVars,
                     cpuVars, duenio, ejecutadas, despachado>>
  BY DEF RecibeResultado, Pasa, admision, historia
<1>2. /\ Tipos /\ Conexion(c) /\ Historia /\ HistoriaDe(c)
      /\ haciaConsola \in [Conectables -> Seq(Palabra)]
      /\ \A d \in Conectables :
           /\ haciaConsola[d] = <<>> \/ (Len(haciaConsola[d]) = 1 /\ consola[d] # "terminada")
           /\ Avisada(d) => LlegoAExit(d)
  BY DEF IndInv, Admision, Historia, Avisos
<1>3. Avisada(c) /\ LlegoAExit(c) /\ Len(haciaConsola[c]) = 1
  BY <1>1, <1>2 DEF Avisada
<1>4. hilo[c].fase = "termino" /\ haciaKernel[c] = <<>>
  <2>1. Cargada(c)
    BY <1>2, <1>3 DEF LlegoAExit, HistoriaDe
  <2> QED BY <1>1, <1>2, <2>1 DEF Cargada, Conexion, EnEspera
<1>5. consola'[c] = "terminada" /\ \A d \in Conectables \ {c} : consola'[d] = consola[d]
  BY <1>1, <1>2 DEF Tipos
<1>6. Tail(haciaConsola[c]) = <<>> /\ haciaConsola'[c] = <<>>
      /\ \A d \in Conectables \ {c} : haciaConsola'[d] = haciaConsola[d]
  <2>1. haciaConsola[c] \in Seq(Palabra)
    BY <1>2
  <2>2. Tail(haciaConsola[c]) = <<>>
    <3> DEFINE s == haciaConsola[c]
    <3>1. s \in Seq(Palabra) /\ Len(s) = 1
      BY <1>3, <2>1
    <3> HIDE DEF s
    <3>2. s # <<>>
      BY <3>1, EmptySeq
    <3>3. Tail(s) \in Seq(Palabra) /\ Len(Tail(s)) = 0
      BY <3>1, <3>2
    <3>4. Tail(s) = <<>>
      BY <3>3, EmptySeq
    <3> QED BY <3>4 DEF s
  <2> QED BY <1>1, <1>2, <2>2
<1>7. Admision'
  <2>1. Tipos'
    BY <1>1, <1>2 DEF Tipos
  <2>2. \A d \in Conectables : Admitida(d) => Admitida(d)'
    BY <1>1, <1>4, <1>5 DEF Admitida
  <2>3. DeAUna'
    BY <1>1, <2>2 DEF IndInv, Admision, DeAUna
  <2>4. ASSUME NEW d \in Conectables PROVE Conexion(d)'
    <3>1. Conexion(d) /\ Mensaje(d)' = Mensaje(d) /\ TamanioMensaje(d)' = TamanioMensaje(d)
      BY <1>1, Fijos DEF IndInv, Admision
    <3>2. CASE d = c
      BY <1>1, <1>4, <1>5, <3>2 DEF Conexion
    <3>3. CASE d # c
      BY <1>1, <1>5, <3>1, <3>3 DEF Conexion, EnEspera
    <3> QED BY <3>2, <3>3
  <2> QED BY <2>1, <2>3, <2>4 DEF Admision
<1>8. \A d \in Conectables : Cargada(d) => Cargada(d)'
  BY <1>1 DEF Cargada
<1>9. Duenios' /\ Historia'
  BY <1>1, <1>8, DueniosFirme, HistoriaFirme DEF IndInv
<1>10. \A d \in Conectables : Avisada(d)' <=> Avisada(d)
  <2>1. ASSUME NEW d \in Conectables, d # c PROVE Avisada(d)' <=> Avisada(d)
    BY <1>5, <1>6, <2>1 DEF Avisada
  <2> QED BY <1>3, <1>5, <2>1 DEF Avisada
<1>11. Avisos'
  <2>1. haciaConsola' \in [Conectables -> Seq(Palabra)]
    <3>1. <<>> \in Seq(Palabra)
      BY EmptySeq
    <3> QED BY <1>1, <1>2, <1>6, <3>1
  <2>2. \A d \in Conectables : LlegoAExit(d)' <=> LlegoAExit(d)
    BY <1>1 DEF LlegoAExit
  <2>3. ASSUME NEW d \in Conectables
        PROVE  haciaConsola'[d] = <<>> \/ (Len(haciaConsola'[d]) = 1 /\ consola'[d] # "terminada")
    BY <1>2, <1>5, <1>6
  <2>4. ASSUME NEW d \in Conectables PROVE Avisada(d)' => LlegoAExit(d)'
    BY <1>2, <1>10, <2>2
  <2> QED BY <2>1, <2>3, <2>4 DEF Avisos
<1>12. Tranquilo
  BY <1>1, <1>10 DEF Tranquilo, Callado, Pids
<1>13. Colas' /\ EnIo' /\ Ficha' /\ Vuelo'
  BY <1>1, <1>12, RestoFirme DEF IndInv
<1> QED BY <1>7, <1>9, <1>11, <1>13 DEF IndInv

\* There are fewer consoles than words, and no more processes than consoles.
LEMMA CabenPids ==
  ASSUME NEW n \in Nat, NEW f \in [0 .. n - 1 -> Conectables],
         \A p, q \in 0 .. n - 1 : f[p] = f[q] => p = q
  PROVE  n <= BasePalabra - 1
<1> DEFINE b == BasePalabra - 1
           m == n - 1
<1>1. b \in Nat /\ m \in Int /\ m + 1 = n
  BY BasePalabraAssumption
<1>2. Conectables \subseteq 1 .. b
  BY ConectablesAssumption, BasePalabraAssumption DEF Palabra
<1>3. f \in [0 .. m -> 1 .. b] /\ \A p, q \in 0 .. m : f[p] = f[q] => p = q
  BY <1>2
<1> HIDE DEF b, m
<1>4. f \in Injection(0 .. m, 1 .. b)
  BY <1>3 DEF Injection, IsInjective
<1>5. IsFiniteSet(1 .. b) /\ Cardinality(1 .. b) = IF 1 > b THEN 0 ELSE b - 1 + 1
  BY <1>1, FS_Interval
<1>6. Cardinality(0 .. m) = IF 0 > m THEN 0 ELSE m - 0 + 1
  BY <1>1, FS_Interval
<1>7. Cardinality(0 .. m) <= Cardinality(1 .. b)
  BY <1>4, <1>5, FS_Injection
<1>8. Cardinality(1 .. b) = b /\ Cardinality(0 .. m) = n
  BY <1>1, <1>5, <1>6
<1> QED BY <1>7, <1>8 DEF b

\* The next process has its number too.
LEMMA HayPids ==
  ASSUME Tipos, Duenios, NEW h \in Conectables, ~Cargada(h)
  PROVE  proximo_pid \in Palabra /\ h \notin {duenio[p] : p \in Pids}
<1> DEFINE n == proximo_pid
           f == [p \in 0 .. n |-> IF p = n THEN h ELSE duenio[p]]
<1>1. n \in Nat /\ duenio \in [0 .. n - 1 -> Conectables]
      /\ \A p, q \in 0 .. n - 1 : duenio[p] = duenio[q] => p = q
  BY DEF Duenios, Pids
<1>2. \A p \in Pids : duenio[p] # h
  BY DEF Duenios
<1>3. \A p \in 0 .. n : p = n \/ p \in 0 .. n - 1
  BY <1>1
<1>4. f \in [0 .. n -> Conectables]
  BY <1>1, <1>3
<1>5. \A p, q \in 0 .. n : f[p] = f[q] => p = q
  BY <1>1, <1>2, <1>3 DEF Pids
<1> DEFINE m == n + 1
<1>6. m \in Nat /\ m - 1 = n
  BY <1>1
<1> HIDE DEF f, n, m
<1>7. m <= BasePalabra - 1
  BY <1>4, <1>5, <1>6, CabenPids
<1>8. n + 1 <= BasePalabra - 1 /\ n \in Nat
  BY <1>1, <1>7 DEF m
<1> QED BY <1>2, <1>8, BasePalabraAssumption DEF n, Palabra

\* The thread makes the PCB of its console.
LEMMA PasoCreaPcb ==
  ASSUME IndInv, NEW h \in Conectables, CreaPcb(h)
  PROVE  IndInv'
<1> DEFINE x == [SinHilo EXCEPT !.fase = "termino"]
<1>a. PICK pp : pp = proximo_pid
  OBVIOUS
<1>b. PICK y : y = [crear_header(pp, TamanioMensaje(h), Mensaje(h), EstimacionInicial)
                      EXCEPT !.socket_consola = h]
  OBVIOUS
<1>1. /\ Tipos /\ Duenios /\ Colas /\ Historia /\ EnIo /\ Vuelo /\ hilo[h].fase = "crear"
      /\ hilo[h].fd = h /\ cliente_fd = h
      /\ consola[h] = "espera" /\ haciaKernel[h] = <<>>
      /\ hilo[h].size = TamanioMensaje(h) /\ hilo[h].stream = Mensaje(h)
      /\ TamanioMensaje(h) >= Ancho
  <2>1. Admision /\ hilo[h].fase = "crear"
    BY DEF IndInv, CreaPcb
  <2> HIDE DEF TamanioMensaje, Mensaje
  <2>2. Tipos
    BY <2>1 DEF Admision
  <2>3. TamanioMensaje(h) >= Ancho
    BY <2>2, Envio
  <2> QED BY <2>1, <2>2, <2>3, LoQueHay DEF IndInv
<1>2. /\ hilo' = [hilo EXCEPT ![h] = x]
      /\ colas' = [colas EXCEPT !.nuevos = Append(colas.nuevos, y)]
      /\ proximo_pid' = pp + 1 /\ duenio' = Anota(duenio, pp, h)
      /\ UNCHANGED <<archivo, consola, haciaKernel, haciaConsola, cliente_fd, vivo, corto, inicio,
                     tablas, ioVars, cpuVars, ejecutadas, despachado>>
  BY <1>a, <1>b, <1>1 DEF CreaPcb, consolaVars
<1>3. x \in Hilos /\ x.fase = "termino"
  <2>1. 0 \in Palabra /\ <<>> \in Seq(Palabra)
    BY BasePalabraAssumption, EmptySeq DEF Palabra
  <2> QED BY <2>1 DEF Hilos, Fases, SinHilo
<1> HIDE DEF x
<1>4. hilo'[h] = x /\ \A d \in Conectables \ {h} : hilo'[d] = hilo[d]
  BY <1>1, <1>2 DEF Tipos
<1>5. Admision'
  <2>1. Conexion(h)'
    BY <1>1, <1>2, <1>3, <1>4 DEF Conexion, EnEspera
  <2>2. haciaKernel[h] \in Seq(Palabra) /\ haciaKernel' = [haciaKernel EXCEPT ![h] = haciaKernel[h]]
    BY <1>1, <1>2 DEF Tipos
  <2> QED BY <1>1, <1>2, <1>3, <2>1, <2>2, PasoDeHilo DEF IndInv
<1>6. Cargada(h)' /\ ~Cargada(h) /\ \A d \in Conectables : Cargada(d) => Cargada(d)'
  BY <1>1, <1>3, <1>4 DEF Cargada
<1>7. pp \in Palabra /\ pp \in Nat /\ h \notin {duenio[p] : p \in Pids}
  BY <1>a, <1>1, <1>6, HayPids DEF Duenios
<1>8. /\ DOMAIN duenio = 0 .. pp - 1 /\ Pids = 0 .. pp - 1 /\ Pids' = 0 .. pp
      /\ \A p \in 0 .. pp : p = pp \/ p \in 0 .. pp - 1
      /\ pp \notin Pids /\ Pids \subseteq Pids'
  BY <1>a, <1>1, <1>2, <1>7 DEF Duenios, Pids
<1>9. /\ duenio'[pp] = h /\ DOMAIN duenio' = Pids'
      /\ \A p \in Pids : duenio'[p] = duenio[p]
      /\ duenio' = [p \in Pids' |-> IF p = pp THEN h ELSE duenio[p]]
  <2>1. duenio' = [p \in DOMAIN duenio \cup {pp} |-> IF p = pp THEN h ELSE duenio[p]]
    BY <1>2 DEF Anota
  <2>2. DOMAIN duenio \cup {pp} = Pids'
    BY <1>7, <1>8
  <2> QED BY <1>8, <2>1, <2>2
<1>10. Duenios'
  <2>1. \A p \in Pids' : p = pp \/ p \in Pids
    BY <1>8
  <2>2. \A p \in Pids : duenio[p] \in Conectables /\ duenio[p] # h /\ Cargada(duenio[p])
    BY <1>1, <1>7 DEF Duenios
  <2>3. \A p \in Pids' : duenio'[p] \in Conectables
    BY <1>9, <2>1, <2>2
  <2>4. ASSUME NEW p \in Pids' PROVE hilo'[duenio'[p]].fase = "termino"
    <3>1. CASE p = pp
      BY <1>3, <1>4, <1>9, <3>1
    <3>2. CASE p \in Pids
      BY <1>4, <1>9, <2>2, <3>2 DEF Cargada
    <3> QED BY <2>1, <3>1, <3>2
  <2>5. \A p, q \in Pids' : duenio'[p] = duenio'[q] => p = q
    BY <1>1, <1>9, <2>1, <2>2 DEF Duenios
  <2>6. proximo_pid' \in Nat
    BY <1>2, <1>7
  <2>7. duenio' \in [Pids' -> Conectables]
    <3>1. \A p \in Pids' : (IF p = pp THEN h ELSE duenio[p]) \in Conectables
      BY <2>1, <2>2
    <3> QED BY <1>9, <3>1, Zenon
  <2> QED BY <2>4, <2>5, <2>6, <2>7 DEF Duenios, Cargada
<1>11. Historia'
  BY <1>1, <1>2, <1>6, HistoriaFirme
<1>12. Avisos' /\ \A d \in Conectables : Avisada(d)' => Avisada(d)
  BY <1>2, AvisosFirmes DEF IndInv
<1>13. Tranquilo
  BY <1>2, <1>8, <1>9, <1>12 DEF Tranquilo, Callado
<1>14. y \in PcbsPlanos /\ y.pid = pp /\ DeConsola(y, h, 0)
  <2>1. y.pid = pp /\ DeConsola(y, h, 0)
    BY <1>b, <1>1, <1>7, Cabecera
  <2> QED BY <2>1 DEF DeConsola
<1>15. ejecutadas[h] = <<>> /\ ~Avisada(h)
  <2>1. ejecutadas[h] = <<>>
    BY <1>1, <1>6 DEF Historia, HistoriaDe
  <2> QED BY <2>1 DEF IndInv, Avisos, LlegoAExit
<1>16. AlDia(y)'
  <2>1. Len(ejecutadas'[h]) = 0 /\ pp \in Pids'
    BY <1>2, <1>7, <1>8, <1>15
  <2>2. DeConsola(y, h, 0)'
    BY <1>2, <1>14, Fijos
  <2>3. ~(haciaConsola'[h] # <<>> \/ consola'[h] = "terminada")
    BY <1>2, <1>15 DEF Avisada
  <2> QED BY <1>9, <1>14, <2>1, <2>2, <2>3 DEF AlDia, Avisada
<1>17. y.pid \notin Encoladas(colas)
  <2>1. \A q \in NombresColas : \A z \in ToSet(colas[q]) : z.pid \in Pids
    BY <1>1 DEF Colas, AlDia
  <2> QED BY <1>8, <1>14, <2>1 DEF Encoladas, PidsDe
<1>18. /\ BuenasColas(colas')
       /\ Encoladas(colas') = Encoladas(colas) \cup {pp}
       /\ \A z \in NombresColas : \A u \in ToSet(colas'[z]) :
            u \in ToSet(colas[z]) \/ (z = "nuevos" /\ u = y)
       /\ Len(colas'.nuevos) = Len(colas.nuevos) + 1
  <2>1. BuenasColas(colas) /\ "nuevos" \in NombresColas
    BY <1>1 DEF Colas, NombresColas
  <2> DEFINE q == "nuevos"
  <2>2. Cambia(colas', colas, q, Append(colas[q], y))
    <3>1. Append(colas.nuevos, y) \in Seq(PcbsPlanos)
      BY <1>14, <2>1, AlFinal DEF BuenasColas, TipoColas
    <3> QED BY <1>2, <2>1, <3>1 DEF BuenasColas, TipoColas, Cambia, NombresColas
  <2>3. q \in NombresColas /\ colas[q] = colas.nuevos /\ colas'[q] = colas'.nuevos
    BY <2>1
  <2>4. /\ BuenasColas(colas')
        /\ Encoladas(colas') = Encoladas(colas) \cup {y.pid}
        /\ \A z \in NombresColas : \A u \in ToSet(colas'[z]) :
             u \in ToSet(colas[z]) \/ (z = q /\ u = y)
        /\ Len(colas'[q]) = Len(colas[q]) + 1
    <3> HIDE DEF q
    <3> QED BY <1>14, <1>17, <2>1, <2>2, <2>3, Pone
  <2> QED BY <1>14, <2>3, <2>4
<1>19. Colas'
  <2>1. ASSUME NEW q \in NombresColas, NEW z \in ToSet(colas'[q]) PROVE AlDia(z)'
    <3>1. z = y \/ z \in ToSet(colas[q])
      BY <1>18
    <3> QED BY <1>1, <1>13, <1>16, <3>1, TodosAlDia DEF Colas, Tranquilo
  <2>2. tablas' \in Nat /\ tablas' + Len(colas'.nuevos) = proximo_pid'
    <3>1. colas.nuevos \in Seq(PcbsPlanos)
      BY <1>1 DEF Colas, BuenasColas, TipoColas
    <3>2. Len(colas.nuevos) \in Nat
      BY <3>1
    <3> QED BY <1>a, <1>1, <1>2, <1>18, <3>2 DEF Colas
  <2> QED BY <1>18, <2>1, <2>2 DEF Colas
<1>20. EnIo'
  <2>1. ToSet(colas'.io) \subseteq ToSet(colas.io)
    BY <1>18 DEF NombresColas
  <2> QED BY <1>1, <1>13, <2>1, EnIoFirme
<1>21. Vuelo'
  BY <1>1, <1>2, <1>8, <1>13, <1>18, VueloFirme
<1>22. Ficha'
  BY <1>2 DEF IndInv, Ficha, EstadosIo, Reposo, ioVars, cpuVars
<1> QED BY <1>5, <1>10, <1>11, <1>12, <1>19, <1>20, <1>21, <1>22 DEF IndInv

----------------------------------------------------------------------------
(* The schedulers and the device.                                          *)

\* A PCB goes from a queue to another.
Traslado(nuevas, k, q, t, r, y) ==
  /\ nuevas \in TipoColas /\ nuevas[q] = t /\ nuevas[r] = Append(k[r], y)
  /\ \A z \in NombresColas \ {q, r} : nuevas[z] = k[z]

\* Each process is still in one place.
LEMMA Mueve ==
  ASSUME NEW k, BuenasColas(k), NEW q \in NombresColas, NEW r \in NombresColas, q # r,
         NEW i \in DOMAIN k[q], NEW t, EsSin(t, k[q], i),
         NEW y \in PcbsPlanos, y.pid = k[q][i].pid,
         NEW nuevas, Traslado(nuevas, k, q, t, r, y)
  PROVE  /\ BuenasColas(nuevas)
         /\ Encoladas(nuevas) \subseteq Encoladas(k)
         /\ \A z \in NombresColas : \A x \in ToSet(nuevas[z]) : x \in ToSet(k[z]) \/ (z = r /\ x = y)
         /\ Len(t) = Len(k[q]) - 1
<1>1. PICK m : Cambia(m, k, q, t)
  <2>1. k \in TipoColas /\ t \in Seq(PcbsPlanos)
    BY DEF BuenasColas, Traslado, TipoColas, NombresColas
  <2>2. Cambia([k EXCEPT ![q] = t], k, q, t)
    BY <2>1 DEF Cambia, TipoColas, NombresColas
  <2> QED BY <2>2
<1>2. /\ BuenasColas(m) /\ Encoladas(m) \subseteq Encoladas(k)
      /\ k[q][i].pid \in Encoladas(k) /\ k[q][i].pid \notin Encoladas(m)
      /\ \A z \in NombresColas : ToSet(m[z]) \subseteq ToSet(k[z])
      /\ Len(t) = Len(k[q]) - 1
  BY <1>1, Saca
<1>3. Cambia(nuevas, m, r, Append(m[r], y))
  BY <1>1 DEF Cambia, Traslado
<1>4. /\ BuenasColas(nuevas) /\ Encoladas(nuevas) = Encoladas(m) \cup {y.pid}
      /\ \A z \in NombresColas : \A x \in ToSet(nuevas[z]) : x \in ToSet(m[z]) \/ (z = r /\ x = y)
  <2>1. y.pid \notin Encoladas(m) /\ BuenasColas(m)
    BY <1>2
  <2> QED BY <1>3, <2>1, Pone
<1>5. Encoladas(nuevas) \subseteq Encoladas(k)
  BY <1>2, <1>4
<1>6. \A z \in NombresColas : \A x \in ToSet(nuevas[z]) : x \in ToSet(k[z]) \/ (z = r /\ x = y)
  BY <1>2, <1>4
<1> QED BY <1>2, <1>4, <1>5, <1>6

\* The rest of the invariant, when what changes is a queue but that of the
\* device gets none.
LEMMA PasoDeColas ==
  ASSUME IndInv, NEW q \in NombresColas, NEW r \in {"ready", "susReady"}, q # r,
         NEW i \in DOMAIN colas[q], NEW t, EsSin(t, colas[q], i),
         NEW y, AlDia(y), y.pid = colas[q][i].pid,
         Traslado(colas', colas, q, t, r, y),
         tablas' = IF q = "nuevos" THEN tablas + 1 ELSE tablas,
         UNCHANGED <<consolaVars, admision, vivo, cpuVars, historia>>,
         Ficha'
  PROVE  IndInv'
<1>1. /\ UNCHANGED <<archivo, consola, haciaKernel, haciaConsola, cliente_fd, hilo, vivo, proximo_pid,
                     despacho, retorno, cpu, duenio, ejecutadas, despachado>>
      /\ BuenasColas(colas) /\ r \in NombresColas
      /\ Duenios /\ Colas /\ EnIo /\ Vuelo
  BY DEF consolaVars, admision, cpuVars, historia, IndInv, Colas, NombresColas
<1>2. Admision' /\ Duenios' /\ Historia' /\ Avisos' /\ \A c \in Conectables : Avisada(c)' => Avisada(c)
  <2>1. \A c \in Conectables : Cargada(c) => Cargada(c)'
    BY <1>1 DEF Cargada
  <2>2. \A c \in Conectables : consola'[c] = "terminada" <=> consola[c] = "terminada"
    BY <1>1
  <2> QED BY <1>1, <2>1, <2>2, AdmisionFirme, DueniosFirme, HistoriaFirme, AvisosFirmes DEF IndInv
<1>3. Tranquilo
  BY <1>1, <1>2 DEF Tranquilo, Callado, Pids
<1>4. y \in PcbsPlanos
  BY DEF AlDia, DeConsola
<1>5. /\ BuenasColas(colas') /\ Encoladas(colas') \subseteq Encoladas(colas)
      /\ \A z \in NombresColas : \A x \in ToSet(colas'[z]) : x \in ToSet(colas[z]) \/ (z = r /\ x = y)
      /\ Len(t) = Len(colas[q]) - 1
  <2>1. BuenasColas(colas) /\ r \in NombresColas
    BY <1>1
  <2>2. BuenasColas(colas') /\ Encoladas(colas') \subseteq Encoladas(colas)
    BY <1>4, <2>1, Mueve
  <2>3. \A z \in NombresColas : \A x \in ToSet(colas'[z]) : x \in ToSet(colas[z]) \/ (z = r /\ x = y)
    BY <1>4, <2>1, Mueve
  <2>4. Len(t) = Len(colas[q]) - 1
    BY <1>4, <2>1, Mueve
  <2> QED BY <2>2, <2>3, <2>4
<1>6. Colas'
  <2>1. ASSUME NEW z \in NombresColas, NEW x \in ToSet(colas'[z]) PROVE AlDia(x)'
    <3>1. x = y \/ x \in ToSet(colas[z])
      BY <1>5
    <3> QED BY <1>1, <1>3, <3>1, TodosAlDia DEF Colas, Tranquilo
  <2>2. tablas' \in Nat /\ tablas' + Len(colas'.nuevos) = proximo_pid'
    <3>1. colas.nuevos \in Seq(PcbsPlanos) /\ Len(colas.nuevos) \in Nat
      <4>1. colas.nuevos \in Seq(PcbsPlanos)
        BY <1>1 DEF BuenasColas, TipoColas
      <4> QED BY <4>1
    <3>2. CASE q = "nuevos"
      <4>1. colas'.nuevos = t /\ Len(t) = Len(colas.nuevos) - 1 /\ tablas' = tablas + 1
        BY <1>5, <3>2 DEF Traslado
      <4>2. tablas \in Nat /\ tablas + Len(colas.nuevos) = proximo_pid /\ proximo_pid' = proximo_pid
        BY <1>1 DEF Colas
      <4>3. tablas' \in Nat /\ tablas' + Len(t) = proximo_pid'
        <5>1. \A a, b, n \in Nat : a + b = n => a + 1 \in Nat /\ (a + 1) + (b - 1) = n
          OBVIOUS
        <5>2. proximo_pid \in Nat
          BY <1>1 DEF Duenios
        <5> DEFINE n == Len(colas.nuevos)
        <5>3. n \in Nat /\ tablas \in Nat /\ tablas + n = proximo_pid
          BY <3>1, <4>2
        <5>4. Len(t) = n - 1
          BY <4>1
        <5> HIDE DEF n
        <5>5. tablas + 1 \in Nat /\ (tablas + 1) + (n - 1) = proximo_pid
          BY <5>1, <5>2, <5>3
        <5> QED BY <4>1, <4>2, <5>4, <5>5
      <4> QED BY <4>1, <4>3
    <3>3. CASE q # "nuevos"
      <4>1. colas'.nuevos = colas.nuevos
        BY <3>3 DEF NombresColas, Traslado
      <4> QED BY <1>1, <3>1, <3>3, <4>1 DEF Colas
    <3> QED BY <3>2, <3>3
  <2> QED BY <1>5, <2>1, <2>2 DEF Colas
<1>7. EnIo'
  <2>1. ToSet(colas'.io) \subseteq ToSet(colas.io)
    BY <1>5 DEF NombresColas
  <2> QED BY <1>1, <1>3, <2>1, EnIoFirme
<1>8. Vuelo'
  <2>1. UNCHANGED cpuVars
    OBVIOUS
  <2> QED BY <1>1, <1>3, <1>5, <2>1, VueloFirme
<1> QED BY <1>2, <1>6, <1>7, <1>8 DEF IndInv

\* The first of a queue.
LEMMA Primero ==
  ASSUME Colas, NEW q \in NombresColas, colas[q] # <<>>
  PROVE  /\ 1 \in DOMAIN colas[q] /\ Head(colas[q]) = colas[q][1]
         /\ Head(colas[q]) \in ToSet(colas[q]) /\ AlDia(Head(colas[q]))
         /\ Head(colas[q]).pid \in Encoladas(colas)
<1>1. colas[q] \in Seq(PcbsPlanos)
  BY DEF Colas, BuenasColas, NombresColas, TipoColas
<1>2. 1 \in DOMAIN colas[q] /\ Head(colas[q]) = colas[q][1]
  BY <1>1
<1>3. Head(colas[q]) \in ToSet(colas[q])
  BY <1>2 DEF ToSet
<1> QED BY <1>2, <1>3 DEF Colas, Encoladas, PidsDe

\* A process that was suspended is ready again.
LEMMA PasoReanuda ==
  ASSUME IndInv, Reanuda
  PROVE  IndInv'
<1> DEFINE q == "susReady"
           r == "ready"
<1>1. PICK y, t : y = Head(colas[q]) /\ t = Tail(colas[q])
  OBVIOUS
<1>2. Colas /\ Ficha /\ q \in NombresColas /\ r \in {"ready", "susReady"} /\ q # r /\ colas \in TipoColas
  BY DEF IndInv, NombresColas, Colas, BuenasColas
<1>3. /\ colas[q] # <<>> /\ colas' = [colas EXCEPT !.susReady = t, !.ready = Append(colas.ready, y)]
      /\ UNCHANGED <<consolaVars, admision, vivo, ioVars, cpuVars, historia, corto, inicio, tablas>>
  BY <1>1 DEF Reanuda
<1>4. Ficha'
  BY <1>2, <1>3 DEF Ficha, EstadosIo, Reposo, ioVars, cpuVars
<1>5. tablas' = IF q = "nuevos" THEN tablas + 1 ELSE tablas
  BY <1>3
<1>6. AlDia(y) /\ y.pid = colas[q][1].pid /\ 1 \in DOMAIN colas[q]
  BY <1>1, <1>2, <1>3, Primero
<1>7. t \in Seq(PcbsPlanos) /\ Append(colas[r], y) \in Seq(PcbsPlanos)
  <2>1. colas[q] \in Seq(PcbsPlanos) /\ colas[r] \in Seq(PcbsPlanos)
    BY <1>2 DEF TipoColas
  <2>2. y \in PcbsPlanos
    BY <1>6 DEF AlDia, DeConsola
  <2> QED BY <1>1, <1>3, <2>1, <2>2
<1>8. Traslado(colas', colas, q, t, r, y)
  BY <1>2, <1>3, <1>7 DEF TipoColas, Traslado, NombresColas
<1>9. EsSin(t, colas[q], 1)
  BY <1>1 DEF EsSin
<1> HIDE DEF q, r
<1> QED BY <1>2, <1>3, <1>4, <1>5, <1>6, <1>8, <1>9, PasoDeColas

\* A PCB with other values in the fields that the schedulers change.
Retocado(y, x) ==
  /\ y \in PcbsPlanos /\ y.pid = x.pid /\ y.socket_consola = x.socket_consola
  /\ y.instrucciones = x.instrucciones
  /\ y.tamanio_stream_instrucciones = x.tamanio_stream_instrucciones
  /\ y.timestamp_inicio_exe = x.timestamp_inicio_exe /\ y.program_counter = x.program_counter

\* It is as up to date as it was.
LEMMA Retoques ==
  ASSUME NEW x, AlDia(x), NEW y, Retocado(y, x)
  PROVE  AlDia(y) /\ y.pid = x.pid
<1>1. y.pid = x.pid
  BY DEF Retocado
<1>2. ASSUME NEW c, NEW n, DeConsola(x, c, n) PROVE DeConsola(y, c, n)
  BY <1>2 DEF DeConsola, Retocado
<1> QED BY <1>1, <1>2 DEF AlDia

\* The operands of a step between queues.
LEMMA Colocado ==
  ASSUME Colas, NEW q \in NombresColas, NEW r \in NombresColas, q # r, NEW i \in DOMAIN colas[q],
         NEW t, EsSin(t, colas[q], i), NEW y, AlDia(y)
  PROVE  /\ colas[q][i] \in ToSet(colas[q]) /\ AlDia(colas[q][i])
         /\ t \in Seq(PcbsPlanos) /\ Append(colas[r], y) \in Seq(PcbsPlanos)
<1>1. colas[q] \in Seq(PcbsPlanos) /\ colas[r] \in Seq(PcbsPlanos)
  BY DEF Colas, BuenasColas, TipoColas, NombresColas
<1>2. y \in PcbsPlanos
  BY DEF AlDia, DeConsola
<1>3. colas[q][i] \in ToSet(colas[q])
  BY DEF ToSet
<1>4. AlDia(colas[q][i])
  BY <1>3 DEF Colas
<1>5. t \in Seq(PcbsPlanos)
  BY <1>1, SinUno
<1>6. Append(colas[r], y) \in Seq(PcbsPlanos)
  BY <1>1, <1>2, AlFinal
<1> QED BY <1>3, <1>4, <1>5, <1>6

\* A new process is ready, with the table that memory gave it.
LEMMA PasoPasaAReady ==
  ASSUME IndInv, PasaAReady
  PROVE  IndInv'
<1> DEFINE q == "nuevos"
           r == "ready"
<1>1. PICK x, t : x = Head(colas[q]) /\ t = Tail(colas[q])
  OBVIOUS
<1>2. PICK y : y = [x EXCEPT !.tabla_paginas = tablas]
  OBVIOUS
<1>3. /\ Colas /\ Duenios /\ Ficha /\ q \in NombresColas /\ r \in {"ready", "susReady"}
      /\ r \in NombresColas /\ q # r /\ colas \in TipoColas
  BY DEF IndInv, NombresColas, Colas, BuenasColas
<1>4. /\ colas[q] # <<>> /\ colas' = [colas EXCEPT !.nuevos = t, !.ready = Append(colas.ready, y)]
      /\ tablas' = tablas + 1 /\ corto' = corto + inicio /\ inicio' = 0
      /\ UNCHANGED <<consolaVars, admision, vivo, ioVars, cpuVars, historia>>
  BY <1>1, <1>2 DEF PasaAReady
<1>5. Ficha'
  <2>1. UNCHANGED <<despacho, retorno, cpu, recibe, process_state>>
    BY <1>4 DEF ioVars, cpuVars
  <2>2. EstadosIo' /\ (Reposo => Reposo')
    BY <1>3, <2>1 DEF Ficha, EstadosIo, Reposo
  <2> QED BY <1>3, <1>4, <2>1, <2>2 DEF Ficha
<1>6. tablas' = IF q = "nuevos" THEN tablas + 1 ELSE tablas
  BY <1>4
<1>7. AlDia(x) /\ x = colas[q][1] /\ 1 \in DOMAIN colas[q]
  BY <1>1, <1>3, <1>4, Primero
<1>8. tablas \in Palabra
  <2>1. colas.nuevos \in Seq(PcbsPlanos) /\ colas.nuevos # <<>>
    BY <1>3, <1>4 DEF TipoColas
  <2>2. Len(colas.nuevos) \in Nat /\ Len(colas.nuevos) > 0
    BY <2>1
  <2>3. tablas \in Nat /\ tablas + Len(colas.nuevos) = proximo_pid
    BY <1>3 DEF Colas
  <2>4. proximo_pid <= BasePalabra - 1 /\ proximo_pid \in Nat
    BY <1>3, CabenPids DEF Duenios, Pids
  <2> DEFINE n == Len(colas.nuevos)
  <2> HIDE DEF n
  <2>5. n \in Nat /\ n > 0 /\ tablas + n = proximo_pid
    BY <2>2, <2>3 DEF n
  <2> QED BY <2>3, <2>4, <2>5, BasePalabraAssumption DEF Palabra
<1>9. AlDia(y) /\ y.pid = colas[q][1].pid
  <2>1. x \in PcbsPlanos
    BY <1>7 DEF AlDia, DeConsola
  <2>2. Retocado(y, x)
    BY <1>2, <1>8, <2>1 DEF PcbsPlanos, Retocado
  <2> QED BY <1>7, <2>2, Retoques
<1>10. EsSin(t, colas[q], 1)
  BY <1>1 DEF EsSin
<1>11. t \in Seq(PcbsPlanos) /\ Append(colas[r], y) \in Seq(PcbsPlanos)
  BY <1>3, <1>7, <1>9, <1>10, Colocado
<1>12. Traslado(colas', colas, q, t, r, y)
  BY <1>3, <1>4, <1>11 DEF TipoColas, Traslado, NombresColas
<1> HIDE DEF q, r
<1> QED BY <1>3, <1>4, <1>5, <1>6, <1>7, <1>9, <1>10, <1>12, PasoDeColas

\* The estimation is a mean of times, so it is a time.
LEMMA Estimacion ==
  ASSUME NEW pcb, AlDia(pcb)
  PROVE  hacer_cuenta_srt(pcb).pid = pcb.pid /\ AlDia(hacer_cuenta_srt(pcb))
<1> DEFINE m == BasePalabra * BasePalabra - 1
           r == pcb.real_actual
           e == pcb.estimacion_siguiente
           v == (r * AlfaNum + e * (AlfaDen - AlfaNum)) \div AlfaDen
<1>1. pcb \in PcbsPlanos
  BY DEF AlDia, DeConsola
<1>2. r \in Longs /\ e \in Longs
  BY <1>1 DEF PcbsPlanos
<1>3. Longs = 0 .. m
  BY DEF Longs
<1>4. m \in Nat
  <2>1. \A x \in Nat : x > 0 => x * x - 1 \in Nat
    BY SMT
  <2> QED BY <2>1, BasePalabraAssumption
<1> HIDE DEF m, r, e
<1>5. v \in Longs
  BY <1>2, <1>3, <1>4, TiempoAssumption, Media
<1>6. hacer_cuenta_srt(pcb) = [pcb EXCEPT !.estimacion_siguiente = v, !.real_actual = 0]
  BY DEF hacer_cuenta_srt, r, e
<1> HIDE DEF v
<1>7. 0 \in Longs
  BY <1>3, <1>4
<1>8. Retocado(hacer_cuenta_srt(pcb), pcb)
  BY <1>1, <1>5, <1>6, <1>7 DEF PcbsPlanos, Retocado
<1> QED BY <1>8, Retoques

\* An entry of process_state.
LEMMA Anotado ==
  ASSUME NEW f, NEW x, NEW y \in {"blocked", "suspended ready"},
         f \in [DOMAIN f -> {"blocked", "suspended ready"}]
  PROVE  Anota(f, x, y) \in [DOMAIN Anota(f, x, y) -> {"blocked", "suspended ready"}]
BY DEF Anota

\* The device serves a process.
LEMMA PasoRealizarIo ==
  ASSUME IndInv, realizar_io
  PROVE  IndInv'
<1> DEFINE q == "io"
<1>1. Colas /\ Ficha /\ q \in NombresColas /\ colas \in TipoColas
  BY DEF IndInv, NombresColas, Colas, BuenasColas
<1>2. PICK i \in DOMAIN colas.io :
        LET pcb == colas.io[i]
            resto == [colas EXCEPT !.io = RemoveAt(colas.io, i)]
        IN /\ pcb.pid \in DOMAIN process_state
           /\ \/ /\ colas' = [resto EXCEPT !.ready = Append(resto.ready, hacer_cuenta_srt(pcb))]
                 /\ UNCHANGED process_state
              \/ /\ colas' = [resto EXCEPT !.susReady = Append(resto.susReady, pcb)]
                 /\ process_state' = Anota(process_state, pcb.pid, "suspended ready")
  BY DEF realizar_io
<1>3. PICK x, t : x = colas[q][i] /\ t = RemoveAt(colas[q], i)
  OBVIOUS
<1>4. EsSin(t, colas[q], i) /\ i \in DOMAIN colas[q]
  BY <1>3 DEF EsSin
<1>5. AlDia(x)
  <2>1. x \in ToSet(colas[q])
    BY <1>3, <1>4 DEF ToSet
  <2> QED BY <1>1, <2>1 DEF Colas
<1>6. UNCHANGED <<consolaVars, admision, vivo, corto, inicio, tablas, recibe, cpuVars, historia>>
  BY DEF realizar_io
<1>7. Ficha'
  <2>1. process_state' \in [DOMAIN process_state' -> {"blocked", "suspended ready"}]
    <3>1. process_state \in [DOMAIN process_state -> {"blocked", "suspended ready"}]
      BY <1>1 DEF Ficha, EstadosIo
    <3>2. process_state' = process_state \/ process_state' = Anota(process_state, x.pid, "suspended ready")
      BY <1>2, <1>3
    <3> QED BY <3>1, <3>2, Anotado
  <2>2. EstadosIo'
    BY <1>1, <1>6, <2>1 DEF Ficha, EstadosIo
  <2> QED BY <1>1, <1>6, <2>2 DEF Ficha, Reposo, cpuVars
<1>8. tablas' = IF q = "nuevos" THEN tablas + 1 ELSE tablas
  BY <1>6
<1>r. PICK r \in {"ready", "susReady"} : \E y :
        /\ y = x \/ y = hacer_cuenta_srt(x)
        /\ colas' = [[colas EXCEPT !.io = t] EXCEPT ![r] = Append(colas[r], y)]
  <2> DEFINE resto == [colas EXCEPT !.io = t]
  <2>1. resto.ready = colas.ready /\ resto.susReady = colas.susReady
    BY <1>1 DEF TipoColas
  <2>2. \/ colas' = [resto EXCEPT !.ready = Append(resto.ready, hacer_cuenta_srt(x))]
        \/ colas' = [resto EXCEPT !.susReady = Append(resto.susReady, x)]
    BY <1>2, <1>3
  <2>3. CASE colas' = [resto EXCEPT !.ready = Append(resto.ready, hacer_cuenta_srt(x))]
    BY <2>1, <2>3
  <2>4. CASE colas' = [resto EXCEPT !.susReady = Append(resto.susReady, x)]
    BY <2>1, <2>4
  <2> QED BY <2>2, <2>3, <2>4
<1>9. PICK y : /\ y = x \/ y = hacer_cuenta_srt(x)
               /\ colas' = [[colas EXCEPT !.io = t] EXCEPT ![r] = Append(colas[r], y)]
  BY <1>r
<1>10. AlDia(y) /\ y.pid = colas[q][i].pid
  BY <1>3, <1>5, <1>9, Estimacion
<1>11. r \in NombresColas /\ q # r
  BY DEF NombresColas
<1>12. t \in Seq(PcbsPlanos) /\ Append(colas[r], y) \in Seq(PcbsPlanos)
  BY <1>1, <1>4, <1>10, <1>11, Colocado
<1>13. Traslado(colas', colas, q, t, r, y)
  BY <1>1, <1>9, <1>12 DEF TipoColas, Traslado, NombresColas
<1> HIDE DEF q
<1> QED BY <1>1, <1>4, <1>6, <1>7, <1>8, <1>10, <1>11, <1>13, PasoDeColas

\* A step of the kernel or the CPU that executes nothing.
LEMMA ConsolasFirmes ==
  ASSUME IndInv, UNCHANGED <<consolaVars, admision, duenio, ejecutadas>>,
         vivo' = vivo \/ vivo' = FALSE
  PROVE  Admision' /\ Duenios' /\ Historia' /\ Avisos' /\ Callado
<1>1. UNCHANGED <<archivo, consola, haciaKernel, haciaConsola, cliente_fd, hilo, proximo_pid,
                  duenio, ejecutadas>>
  BY DEF consolaVars, admision
<1>2. \A c \in Conectables : Cargada(c) => Cargada(c)'
  BY <1>1 DEF Cargada
<1>3. \A c \in Conectables : consola'[c] = "terminada" <=> consola[c] = "terminada"
  BY <1>1
<1>4. Admision' /\ Duenios' /\ Historia'
  BY <1>1, <1>2, AdmisionFirme, DueniosFirme, HistoriaFirme DEF IndInv
<1>5. Avisos' /\ \A c \in Conectables : Avisada(c)' => Avisada(c)
  BY <1>1, <1>3, AvisosFirmes DEF IndInv
<1> QED BY <1>1, <1>4, <1>5 DEF Callado, Pids

\* The first process that is ready is sent to the CPU.
LEMMA PasoPasaARunning ==
  ASSUME IndInv, PasaARunning
  PROVE  IndInv'
<1> DEFINE q == "ready"
<1>1. PICK x, t, p : x = Head(colas[q]) /\ t = Tail(colas[q]) /\ p = x.pid
  OBVIOUS
<1>2. /\ Colas /\ Duenios /\ Vuelo /\ EnIo /\ Ficha /\ q \in NombresColas /\ colas \in TipoColas
      /\ BuenasColas(colas) /\ Tipos
  BY DEF IndInv, NombresColas, Colas, BuenasColas, Admision
<1>3. /\ corto > 0 /\ colas[q] # <<>> /\ corto' = corto - 1
      /\ colas' = [colas EXCEPT !.ready = t]
      /\ despacho' = despacho \o empaquetar(serializar_header(x), OPERACION_ENVIO_PCB)
      /\ despachado' = Anota(despachado, p, x)
      /\ UNCHANGED <<consolaVars, admision, vivo, inicio, tablas, ioVars, retorno, cpu, duenio,
                     ejecutadas>>
  BY <1>1 DEF PasaARunning
<1>4. corto = 1 /\ inicio = 0 /\ recibe.fase # "marcar" /\ Reposo
  BY <1>2, <1>3 DEF Ficha
<1>5. Admision' /\ Duenios' /\ Historia' /\ Avisos' /\ Callado
  BY <1>3, ConsolasFirmes
<1>6. AlDia(x) /\ x = colas[q][1] /\ 1 \in DOMAIN colas[q]
  BY <1>1, <1>2, <1>3, Primero
<1>7. PICK d, n : d = duenio[p] /\ n = Len(ejecutadas[d])
  OBVIOUS
<1>8. /\ p \in Pids /\ d \in Conectables /\ DeConsola(x, d, n) /\ x \in PcbsPlanos
      /\ x.program_counter = n
  BY <1>1, <1>2, <1>6, <1>7 DEF AlDia, DeConsola, Duenios
<1>9. Ficha'
  <2>1. EstadosIo' /\ recibe' = recibe
    BY <1>2, <1>3 DEF Ficha, EstadosIo, ioVars
  <2> QED BY <1>2, <1>3, <1>4, <2>1 DEF Ficha
<1>10. EsSin(t, colas[q], 1)
  BY <1>1 DEF EsSin
<1>11. Cambia(colas', colas, q, t)
  <2>1. t \in Seq(PcbsPlanos)
    BY <1>2, <1>6, <1>8, <1>10, SinUno DEF TipoColas
  <2> QED BY <1>2, <1>3, <2>1 DEF TipoColas, Cambia, NombresColas
<1>12. /\ BuenasColas(colas') /\ p \notin Encoladas(colas')
       /\ \A r \in NombresColas : ToSet(colas'[r]) \subseteq ToSet(colas[r])
  <2> HIDE DEF q
  <2> QED BY <1>1, <1>2, <1>6, <1>10, <1>11, Saca
<1>13. \A z : AlDia(z) => AlDia(z)'
  BY <1>2, <1>5, TodosAlDia
<1>14. Colas'
  <2>1. ASSUME NEW r \in NombresColas, NEW z \in ToSet(colas'[r]) PROVE AlDia(z)'
    <3>1. z \in ToSet(colas[r])
      BY <1>12
    <3> QED BY <1>2, <1>13, <3>1 DEF Colas
  <2>2. colas'.nuevos = colas.nuevos
    BY <1>11 DEF Cambia, NombresColas
  <2> QED BY <1>2, <1>3, <1>12, <2>1, <2>2 DEF Colas, admision
<1>15. /\ despachado'[p] = x /\ DOMAIN despachado' = DOMAIN despachado \cup {p}
       /\ \A z \in DOMAIN despachado : z # p => despachado'[z] = despachado[z]
  BY <1>3 DEF Anota
<1>16. EnIo'
  <2> SUFFICES ASSUME NEW z \in ToSet(colas'.io)
               PROVE  /\ z.pid \in DOMAIN despachado'
                      /\ z = [Vuelta(z.pid)' EXCEPT !.real_actual = z.real_actual]
    BY DEF EnIo, Vuelta
  <2>1. z \in ToSet(colas.io) /\ z.pid \in Encoladas(colas')
    BY <1>12 DEF NombresColas, Encoladas, PidsDe
  <2>2. z.pid # p
    BY <1>12, <2>1
  <2>3. z.pid \in DOMAIN despachado /\ z = [Vuelta(z.pid) EXCEPT !.real_actual = z.real_actual]
    BY <1>2, <2>1 DEF EnIo
  <2>4. Vuelta(z.pid)' = Vuelta(z.pid)
    BY <1>3, <1>15, <2>2, <2>3 DEF Vuelta
  <2> QED BY <1>15, <2>3, <2>4
<1>17. Vuelta(p)' = x /\ duenio' = duenio /\ ejecutadas' = ejecutadas
  <2>1. x = [x EXCEPT !.program_counter = n]
    BY <1>8 DEF PcbsPlanos
  <2> QED BY <1>3, <1>7, <1>15, <2>1 DEF Vuelta
<1>18. Yendo(p)'
  <2> DEFINE e == empaquetar(serializar_header(x), OPERACION_ENVIO_PCB)
  <2>1. OPERACION_ENVIO_PCB \in Palabra
    BY BasePalabraAssumption DEF OPERACION_ENVIO_PCB, Palabra
  <2>2. e \in Seq(Palabra)
    BY <1>2, <1>8, <2>1, PaqueteDePcb
  <2>3. despacho' = <<>> \o e /\ retorno' = <<>> /\ cpu' = CpuLibre
    BY <1>3, <1>4 DEF Reposo
  <2> HIDE DEF e
  <2>4. despacho' = e
    BY <2>2, <2>3
  <2> QED BY <1>17, <2>3, <2>4 DEF Yendo, e
<1>19. EnVuelo(p)'
  <2>1. AlDia(x)'
    BY <1>6, <1>13
  <2>2. AlDia(Vuelta(p))'
    BY <1>17, <2>1 DEF AlDia
  <2> QED BY <1>1, <1>8, <1>12, <1>15, <1>18, <2>2 DEF EnVuelo
<1>20. Vuelo'
  <2>1. Pids' = Pids
    BY <1>3 DEF admision, Pids
  <2> QED BY <1>2, <1>8, <1>15, <1>19, <2>1 DEF Vuelo
<1> QED BY <1>5, <1>9, <1>14, <1>16, <1>20 DEF IndInv

----------------------------------------------------------------------------
(* The CPU.                                                                *)

\* A process that is dispatched, with its console, how far it is, and its PCB.
Despachado(p, d, n, v) ==
  /\ p \in DOMAIN despachado /\ EnVuelo(p)
  /\ d = duenio[p] /\ n = Len(ejecutadas[d]) /\ v = Vuelta(p)

\* What is known of it.
LEMMA LoDespachado ==
  ASSUME IndInv, ~Reposo, NEW p, NEW d, NEW n, NEW v, Despachado(p, d, n, v)
  PROVE  /\ p \in Pids /\ d \in Conectables /\ n \in Nat /\ v \in PcbsPlanos
         /\ DeConsola(v, d, n) /\ v.pid = p
         /\ ~Avisada(d) /\ Cargada(d)
         /\ corto = 0 /\ inicio = 0 /\ recibe.fase = "recv"
         /\ \A q \in NombresColas : \A x \in ToSet(colas[q]) :
              x.pid \in Pids /\ x.pid # p /\ duenio[x.pid] # d /\ duenio[x.pid] \in Conectables
<1>1. Vuelo /\ Duenios /\ Colas /\ Ficha /\ Historia
  BY DEF IndInv
<1>2. p \in DOMAIN despachado /\ EnVuelo(p)
  BY DEF Despachado
<1>3. d = duenio[p] /\ n = Len(ejecutadas[d]) /\ v = Vuelta(p)
  BY DEF Despachado
<1>4. v.pid = p /\ p \in Pids
  <2>1. despachado[p] \in PcbsPlanos /\ despachado[p].pid = p
    BY <1>2 DEF EnVuelo
  <2>2. v = [despachado[p] EXCEPT !.program_counter = n]
    BY <1>3 DEF Vuelta
  <2> QED BY <1>1, <1>2, <2>1, <2>2 DEF PcbsPlanos, Vuelo
<1>5. DeConsola(v, d, n) /\ v \in PcbsPlanos /\ ~Avisada(d)
  <2>1. AlDia(v)
    BY <1>2, <1>3 DEF EnVuelo
  <2> QED BY <1>3, <1>4, <2>1 DEF AlDia, DeConsola
<1>6. d \in Conectables /\ Cargada(d)
  BY <1>1, <1>3, <1>4 DEF Duenios
<1>7. n \in Nat
  <2>1. ejecutadas[d] \in Seq(Instrucciones)
    BY <1>1, <1>6 DEF Historia
  <2> QED BY <1>3, <2>1
<1>8. corto = 0 /\ inicio = 0 /\ recibe.fase = "recv"
  <2>1. recibe.fase \in {"recv", "marcar"}
    BY <1>1 DEF Ficha, EstadosIo
  <2> QED BY <1>1, <2>1 DEF Ficha
<1>9. ASSUME NEW q \in NombresColas, NEW x \in ToSet(colas[q])
      PROVE  x.pid \in Pids /\ x.pid # p /\ duenio[x.pid] # d /\ duenio[x.pid] \in Conectables
  <2>1. x.pid \in Pids
    BY <1>1 DEF Colas, AlDia
  <2>2. x.pid \in Encoladas(colas)
    BY DEF Encoladas, PidsDe
  <2>3. x.pid # p
    BY <1>2, <2>2 DEF EnVuelo
  <2> QED BY <1>1, <1>3, <1>4, <2>1, <2>3 DEF Duenios
<1> QED BY <1>4, <1>5, <1>6, <1>7, <1>8, <1>9

\* While there is something in the CPU or on its way, there is one.
LEMMA ElDespachado ==
  ASSUME IndInv, ~Reposo
  PROVE  \E p \in Pids, d \in Conectables, n \in Nat, v \in PcbsPlanos :
           Despachado(p, d, n, v) /\ DeConsola(v, d, n) /\ v.pid = p
<1>1. PICK p \in DOMAIN despachado : EnVuelo(p)
  BY DEF IndInv, Vuelo
<1>2. PICK d, n, v : d = duenio[p] /\ n = Len(ejecutadas[d]) /\ v = Vuelta(p)
  OBVIOUS
<1>3. Despachado(p, d, n, v)
  BY <1>1, <1>2 DEF Despachado
<1> QED BY <1>3, LoDespachado

\* A step that takes the process further on its way, or leaves none there.
LEMMA PasoDeViaje ==
  ASSUME IndInv, ~Reposo, UNCHANGED <<consolaVars, admision, vivo, planVars, ioVars, historia>>,
         \/ Reposo'
         \/ \E p \in DOMAIN despachado : EnVuelo(p) /\ (Yendo(p)' \/ EnCpu(p)' \/ Volviendo(p)')
  PROVE  IndInv'
<1>1. /\ UNCHANGED <<duenio, ejecutadas, despachado, colas, corto, inicio, tablas, proximo_pid,
                     process_state, recibe>>
      /\ Duenios /\ Colas /\ EnIo /\ Ficha /\ Vuelo
  BY DEF historia, planVars, ioVars, admision, IndInv
<1>2. Admision' /\ Duenios' /\ Historia' /\ Avisos' /\ Callado
  BY <1>1, ConsolasFirmes
<1>3. Tranquilo
  BY <1>1, <1>2 DEF Tranquilo
<1>4. Colas'
  <2>1. ASSUME NEW q \in NombresColas, NEW x \in ToSet(colas[q]) PROVE AlDia(x)'
    BY <1>1, <1>2, TodosAlDia DEF Colas
  <2> QED BY <1>1, <2>1 DEF Colas
<1>5. EnIo'
  BY <1>1, <1>3, EnIoFirme
<1>6. Ficha'
  BY <1>1 DEF Ficha, EstadosIo
<1>7. Vuelo'
  <2>1. Pids' = Pids /\ DOMAIN despachado' \subseteq Pids'
    BY <1>1 DEF Pids, Vuelo
  <2>2. CASE Reposo'
    BY <2>1, <2>2 DEF Vuelo
  <2>3. CASE \E p \in DOMAIN despachado : EnVuelo(p) /\ (Yendo(p)' \/ EnCpu(p)' \/ Volviendo(p)')
    <3>1. PICK p \in DOMAIN despachado :
                 EnVuelo(p) /\ (Yendo(p)' \/ EnCpu(p)' \/ Volviendo(p)')
      BY <2>3
    <3>2. PICK v : v = Vuelta(p)
      OBVIOUS
    <3>3. p \in Pids /\ AlDia(v)
      BY <1>1, <3>1, <3>2 DEF EnVuelo, Vuelo
    <3>4. Vuelta(p)' = v
      BY <1>1, <1>2, <1>3, <3>2, <3>3, TodosAlDia
    <3>5. AlDia(v)'
      BY <1>1, <1>2, <3>3, TodosAlDia
    <3>6. AlDia(Vuelta(p))'
      BY <3>4, <3>5 DEF AlDia
    <3>7. EnVuelo(p)'
      BY <1>1, <3>1, <3>6 DEF EnVuelo
    <3> QED BY <1>1, <2>1, <3>1, <3>7 DEF Vuelo
  <2> QED BY <2>2, <2>3
<1> QED BY <1>2, <1>4, <1>5, <1>6, <1>7 DEF IndInv

\* The PCB reaches the CPU as it was sent, with its instructions decoded.
LEMMA PasoRecibePcb ==
  ASSUME IndInv, RecibePcb
  PROVE  IndInv'
<1>1. /\ despacho # <<>>
      /\ UNCHANGED <<consolaVars, admision, vivo, planVars, ioVars, retorno, historia>>
  BY DEF RecibePcb
<1>2. ~Reposo
  BY <1>1 DEF Reposo
<1>3. PICK p \in Pids, d \in Conectables, n \in Nat, v \in PcbsPlanos :
        Despachado(p, d, n, v) /\ DeConsola(v, d, n)
  BY <1>2, ElDespachado
<1>4. /\ Yendo(p) /\ v = Vuelta(p) /\ d = duenio[p] /\ n = Len(ejecutadas[d])
      /\ p \in DOMAIN despachado /\ EnVuelo(p)
  BY <1>1, <1>3 DEF Despachado, EnVuelo, EnCpu, Volviendo
<1> DEFINE e == empaquetar(serializar_header(v), OPERACION_ENVIO_PCB)
           b == serializar_header(v)
           enCpu == [v EXCEPT !.instrucciones = Lista(d)]
<1>5. OPERACION_ENVIO_PCB \in Palabra
  BY BasePalabraAssumption DEF OPERACION_ENVIO_PCB, Palabra
<1>6. Tipos
  BY DEF IndInv, Admision
<1>7. /\ recibir_buffer(Tail(e)).stream = b.stream /\ recibir_buffer(Tail(e)).resto = <<>>
      /\ recibir_pcb_cpu(b.stream) = enCpu
  BY <1>3, <1>5, <1>6, ViajeDePcb, PaqueteDePcb
<1>8. despacho = e /\ retorno = <<>>
  BY <1>4 DEF Yendo
<1> HIDE DEF e, b
<1>9. PICK pcb : /\ pcb = recibir_pcb_cpu(recibir_buffer(Tail(e)).stream)
                 /\ cpu' = [fase |-> "corre", i |-> pcb.program_counter, pcb |-> pcb]
                 /\ despacho' = recibir_buffer(Tail(e)).resto
  BY <1>8 DEF RecibePcb
<1>10. pcb = enCpu /\ despacho' = <<>> /\ retorno' = <<>>
  BY <1>1, <1>7, <1>8, <1>9, Zenon
<1>11. pcb.program_counter = n
  BY <1>3, <1>10 DEF DeConsola, PcbsPlanos
<1>12. /\ duenio'[p] = d /\ Vuelta(p)' = v /\ Lista(d)' = Lista(d) /\ Len(ejecutadas'[d]) = n
  BY <1>1, <1>4 DEF Vuelta, Lista, historia, consolaVars
<1>13. Lista(duenio[p])' = Lista(d)
  BY <1>12 DEF Lista
<1>14. EnCpu(p)'
  <2> HIDE DEF Lista
  <2>1. cpu' = [fase |-> "corre", i |-> n, pcb |-> enCpu]
    BY <1>9, <1>10, <1>11
  <2> QED BY <1>10, <1>12, <1>13, <2>1 DEF EnCpu
<1> QED BY <1>1, <1>2, <1>4, <1>14, PasoDeViaje

\* What is in the CPU is the program of the console, from where it was left.
LEMMA EnEjecucion ==
  ASSUME IndInv, cpu.fase = "corre"
  PROVE  \E p \in Pids, d \in Conectables, n \in Nat, v \in PcbsPlanos :
           /\ Despachado(p, d, n, v) /\ DeConsola(v, d, n) /\ v.pid = p
           /\ Lista(d) \in Seq(Instrucciones)
           /\ EnCpu(p) /\ cpu.pcb = [v EXCEPT !.instrucciones = Lista(d)]
           /\ cpu.pcb.instrucciones = Lista(d) /\ cpu.pcb.program_counter = n /\ cpu.pcb.pid = p
           /\ cpu.i \in Nat /\ cpu.i >= n
           /\ despacho = <<>> /\ retorno = <<>>
           /\ cpu = [fase |-> "corre", i |-> cpu.i, pcb |-> cpu.pcb]
<1>1. ~Reposo
  BY DEF Reposo, CpuLibre
<1>2. PICK p \in Pids, d \in Conectables, n \in Nat, v \in PcbsPlanos :
        Despachado(p, d, n, v) /\ DeConsola(v, d, n) /\ v.pid = p
  BY <1>1, ElDespachado
<1>3. EnCpu(p) /\ v = Vuelta(p) /\ d = duenio[p] /\ n = Len(ejecutadas[d])
  BY <1>2 DEF Despachado, EnVuelo, Yendo, Volviendo, CpuLibre
<1>4. Lista(d) \in Seq(Instrucciones)
  BY Envio DEF IndInv, Admision
<1> HIDE DEF Lista
<1>5. /\ cpu.pcb = [v EXCEPT !.instrucciones = Lista(d)] /\ cpu.i \in Nat /\ cpu.i >= n
      /\ despacho = <<>> /\ retorno = <<>>
      /\ cpu = [fase |-> "corre", i |-> cpu.i, pcb |-> cpu.pcb]
  BY <1>3 DEF EnCpu
<1>6. /\ cpu.pcb.instrucciones = Lista(d) /\ cpu.pcb.program_counter = n /\ cpu.pcb.pid = p
  BY <1>2, <1>5 DEF PcbsPlanos, DeConsola
<1> QED BY <1>2, <1>3, <1>4, <1>5, <1>6

\* The CPU leaves the loop with nothing sent, goes on, or crashes.
LEMMA PasoSinExit ==
  ASSUME IndInv, TerminaSinExit \/ EjecutaDesconocida
  PROVE  IndInv'
<1>1. /\ cpu.fase = "corre"
      /\ UNCHANGED <<consolaVars, admision, vivo, planVars, ioVars, despacho, retorno, historia>>
  BY DEF TerminaSinExit, EjecutaDesconocida, EnCiclo
<1>2. ~Reposo
  BY <1>1 DEF Reposo, CpuLibre
<1>3. PICK p \in Pids, d \in Conectables, n \in Nat, v \in PcbsPlanos :
           /\ Despachado(p, d, n, v) /\ EnCpu(p)
           /\ cpu.pcb = [v EXCEPT !.instrucciones = Lista(d)] /\ cpu.i \in Nat /\ cpu.i >= n
           /\ despacho = <<>> /\ retorno = <<>>
           /\ cpu = [fase |-> "corre", i |-> cpu.i, pcb |-> cpu.pcb]
  BY <1>1, EnEjecucion
<1>4. PICK i, m : i = cpu.i /\ m = cpu.pcb
  OBVIOUS
<1>5. cpu' = CpuLibre \/ \E f \in {"corre", "caida"}, j \in {i, i + 1} :
                            cpu' = [fase |-> f, i |-> j, pcb |-> m]
  <2>1. cpu' = CpuLibre \/ cpu' = [cpu EXCEPT !.fase = "caida"] \/ cpu' = [cpu EXCEPT !.i = i + 1]
    BY <1>4 DEF TerminaSinExit, EjecutaDesconocida
  <2>2. CASE cpu' = [cpu EXCEPT !.fase = "caida"]
    <3>1. cpu' = [fase |-> "caida", i |-> i, pcb |-> m]
      BY <1>3, <1>4, <2>2
    <3> QED BY <3>1
  <2>3. CASE cpu' = [cpu EXCEPT !.i = i + 1]
    <3>1. cpu' = [fase |-> "corre", i |-> i + 1, pcb |-> m]
      BY <1>3, <1>4, <2>3
    <3> QED BY <3>1
  <2> QED BY <2>1, <2>2, <2>3
<1>6. CASE cpu' = CpuLibre
  <2>1. Reposo'
    BY <1>1, <1>3, <1>6 DEF Reposo
  <2> QED BY <1>1, <1>2, <2>1, PasoDeViaje
<1>7. CASE \E f \in {"corre", "caida"}, j \in {i, i + 1} : cpu' = [fase |-> f, i |-> j, pcb |-> m]
  <2>1. PICK f \in {"corre", "caida"}, j \in {i, i + 1} : cpu' = [fase |-> f, i |-> j, pcb |-> m]
    BY <1>7
  <2>2. j \in Nat /\ j >= n
    BY <1>3, <1>4
  <2>3. /\ p \in DOMAIN despachado /\ EnVuelo(p)
        /\ d = duenio[p] /\ n = Len(ejecutadas[d]) /\ v = Vuelta(p)
    BY <1>3 DEF Despachado
  <2>4. /\ duenio'[p] = d /\ Vuelta(p)' = v /\ Len(ejecutadas'[d]) = n
        /\ Lista(duenio[p])' = Lista(d)
    BY <1>1, <2>3 DEF Vuelta, Lista, historia, consolaVars
  <2> HIDE DEF Lista
  <2>5. m = [v EXCEPT !.instrucciones = Lista(d)]
    BY <1>3, <1>4
  <2>6. EnCpu(p)'
    BY <1>1, <1>3, <2>1, <2>2, <2>4, <2>5 DEF EnCpu
  <2> QED BY <1>1, <1>2, <2>3, <2>6, PasoDeViaje
<1> QED BY <1>5, <1>6, <1>7

\* An instruction is executed: the process of the console is one further.
LEMMA PasoDeInstruccion ==
  ASSUME IndInv, NEW codigos, EnCiclo(codigos), ERROR_OP_DESCONOCIDA \notin codigos, Ejecuta,
         UNCHANGED <<consolaVars, admision, vivo, planVars, ioVars, duenio, despachado>>,
         NEW p \in Pids, NEW d \in Conectables, NEW n \in Nat, NEW v \in PcbsPlanos,
         Despachado(p, d, n, v), cpu.pcb.instrucciones = Lista(d), cpu.pcb.program_counter = n,
         cpu.pcb.pid = p, cpu.i >= n, cpu.i \in Nat,
         NEW w, w = [v EXCEPT !.program_counter = n + 1]
  PROVE  /\ n + 1 \in 1 .. Len(Lista(d)) /\ Instruccion = Lista(d)[n + 1]
         /\ Lista(d)[n + 1].cod_op \in codigos
         /\ Len(ejecutadas'[d]) = n + 1 /\ ejecutadas'[d][n + 1] = Lista(d)[n + 1]
         /\ duenio'[p] = d /\ Lista(duenio[p])' = Lista(d)
         /\ Vuelta(p)' = w /\ DeConsola(w, d, n + 1) /\ DeConsola(w, d, n + 1)'
         /\ EnCpu(p)' \/ Volviendo(p)' => IndInv'
<1> DEFINE l == Lista(d)
           s == ejecutadas[d]
<1>1. /\ UNCHANGED <<archivo, consola, haciaKernel, haciaConsola, cliente_fd, hilo, vivo, proximo_pid,
                     colas, corto, inicio, tablas, process_state, recibe, duenio, despachado>>
      /\ cpu.fase = "corre" /\ cpu.i < Len(l) /\ Instruccion.cod_op \in codigos
      /\ Instruccion = l[n + 1] /\ d = duenio[p] /\ n = Len(s) /\ v = Vuelta(p)
      /\ EnVuelo(p) /\ p \in DOMAIN despachado
      /\ ejecutadas' = [ejecutadas EXCEPT ![d] = Append(s, l[n + 1])]
  BY DEF consolaVars, admision, planVars, ioVars, EnCiclo, Ejecuta, Despachado, Instruccion
<1>2. /\ Tipos /\ Admision /\ Duenios /\ Historia /\ Avisos /\ Colas /\ EnIo /\ Ficha /\ Vuelo
  BY DEF IndInv, Admision
<1>3. l \in Seq(Instrucciones) /\ \A k \in 0 .. Len(l) : k \in Palabra
  BY <1>2, Envio
<1>4. ~Reposo
  BY <1>1 DEF Reposo, CpuLibre
<1>5. /\ DeConsola(v, d, n) /\ v.pid = p /\ ~Avisada(d) /\ Cargada(d)
      /\ corto = 0 /\ inicio = 0 /\ recibe.fase = "recv"
      /\ \A q \in NombresColas : \A x \in ToSet(colas[q]) :
           x.pid \in Pids /\ x.pid # p /\ duenio[x.pid] # d /\ duenio[x.pid] \in Conectables
  BY <1>4, LoDespachado
<1> HIDE DEF l, s
<1>6. n + 1 \in 1 .. Len(l) /\ n + 1 \in Palabra /\ l[n + 1] \in Instrucciones
  <2>1. Len(l) \in Nat /\ n + 1 <= Len(l)
    BY <1>1, <1>3
  <2>2. n + 1 \in 0 .. Len(l) /\ n + 1 \in 1 .. Len(l)
    BY <2>1
  <2> QED BY <1>3, <2>2
<1>7. s \in Seq(Instrucciones) /\ ejecutadas \in [Conectables -> Seq(Instrucciones)]
  BY <1>2 DEF Historia, s
<1>8. /\ ejecutadas'[d] = Append(s, l[n + 1]) /\ Append(s, l[n + 1]) \in Seq(Instrucciones)
      /\ Len(ejecutadas'[d]) = n + 1 /\ ejecutadas'[d][n + 1] = l[n + 1]
      /\ \A k \in 1 .. n : ejecutadas'[d][k] = s[k]
      /\ \A c \in Conectables : c # d => ejecutadas'[c] = ejecutadas[c]
      /\ ejecutadas' \in [Conectables -> Seq(Instrucciones)]
  BY <1>1, <1>6, <1>7
<1>9. w \in PcbsPlanos /\ w.pid = p /\ DeConsola(w, d, n + 1)
  <2>1. /\ w \in PcbsPlanos /\ w.pid = v.pid /\ w.socket_consola = v.socket_consola
        /\ w.instrucciones = v.instrucciones /\ w.program_counter = n + 1
        /\ w.tamanio_stream_instrucciones = v.tamanio_stream_instrucciones
        /\ w.timestamp_inicio_exe = v.timestamp_inicio_exe
    BY <1>6 DEF PcbsPlanos
  <2> QED BY <1>5, <2>1 DEF DeConsola
<1>10. DeConsola(w, d, n + 1)'
  BY <1>1, <1>9, Fijos
<1>11. Vuelta(p)' = w
  <2>1. despachado[p] \in PcbsPlanos
    BY <1>1 DEF EnVuelo
  <2>2. v = [despachado[p] EXCEPT !.program_counter = n]
    BY <1>1 DEF Vuelta, s
  <2>3. w = [despachado[p] EXCEPT !.program_counter = n + 1]
    BY <2>1, <2>2 DEF PcbsPlanos
  <2> QED BY <1>1, <1>8, <2>3 DEF Vuelta
<1>12. Lista(duenio[p])' = l /\ \A c \in Conectables : Lista(c)' = Lista(c)
  BY <1>1 DEF Lista, l
<1>13. ASSUME EnCpu(p)' \/ Volviendo(p)' PROVE IndInv'
  <2>1. Admision' /\ Duenios'
    <3>1. \A c \in Conectables : Cargada(c) => Cargada(c)'
      BY <1>1 DEF Cargada
    <3> QED BY <1>1, <1>2, <3>1, AdmisionFirme, DueniosFirme
  <2>2. Historia'
    <3>1. ASSUME NEW c \in Conectables PROVE HistoriaDe(c)'
      <4>1. HistoriaDe(c) /\ Lista(c)' = Lista(c) /\ (Cargada(c) => Cargada(c)')
        BY <1>1, <1>2, <1>12 DEF Historia, Cargada
      <4>2. CASE c # d
        <5> HIDE DEF Cargada
        <5> QED BY <1>8, <4>1, <4>2 DEF HistoriaDe
      <4>3. CASE c = d
        <5>1. Len(ejecutadas'[d]) <= Len(l)
          BY <1>3, <1>6, <1>8
        <5>2. ASSUME NEW k \in 1 .. Len(ejecutadas'[d])
              PROVE  ejecutadas'[d][k] = l[k] /\ l[k].cod_op # ERROR_OP_DESCONOCIDA
          <6>1. CASE k = n + 1
            BY <1>1, <1>8, <6>1
          <6>2. CASE k # n + 1
            <7>1. k \in 1 .. n
              BY <1>8, <6>2
            <7>2. s[k] = l[k] /\ l[k].cod_op # ERROR_OP_DESCONOCIDA
              BY <1>1, <4>1, <4>3, <7>1 DEF HistoriaDe, s, l
            <7> QED BY <1>8, <7>1, <7>2
          <6> QED BY <6>1, <6>2
        <5>3. Cargada(c)' /\ Lista(c)' = l
          BY <1>5, <4>1, <4>3 DEF l
        <5> HIDE DEF Cargada
        <5> QED BY <4>3, <5>1, <5>2, <5>3 DEF HistoriaDe
      <4> QED BY <4>2, <4>3
    <3> QED BY <1>8, <3>1 DEF Historia
  <2>3. \A c \in Conectables : Avisada(c)' <=> Avisada(c)
    BY <1>1 DEF Avisada
  <2>4. Avisos'
    <3>1. ASSUME NEW c \in Conectables, Avisada(c)' PROVE LlegoAExit(c)'
      <4>1. Avisada(c) /\ c # d
        BY <1>5, <2>3, <3>1
      <4>2. LlegoAExit(c) /\ ejecutadas'[c] = ejecutadas[c]
        BY <1>2, <1>8, <4>1 DEF Avisos
      <4> QED BY <4>2 DEF LlegoAExit
    <3> QED BY <1>1, <1>2, <3>1 DEF Avisos
  <2>5. ASSUME NEW q \in NombresColas, NEW x \in ToSet(colas[q])
        PROVE  AlDia(x)' /\ Vuelta(x.pid)' = Vuelta(x.pid)
    <3>1. AlDia(x) /\ x.pid \in Pids /\ duenio[x.pid] # d /\ duenio[x.pid] \in Conectables
      BY <1>2, <1>5 DEF Colas
    <3>2. PICK c \in Conectables : c = duenio[x.pid] /\ c # d
      BY <3>1
    <3>3. ejecutadas'[c] = ejecutadas[c] /\ duenio'[x.pid] = c /\ despachado' = despachado
      BY <1>1, <1>8, <3>2
    <3>4. Pids \subseteq Pids' /\ archivo' = archivo
      BY <1>1 DEF Pids
    <3>5. (Avisada(duenio[x.pid]))' => Avisada(duenio[x.pid])
      BY <1>1 DEF Avisada
    <3>6. AlDia(x)'
      BY <1>1, <1>2, <3>1, <3>2, <3>3, <3>4, <3>5, SigueAlDia
    <3>7. Vuelta(x.pid)' = Vuelta(x.pid)
      BY <3>2, <3>3 DEF Vuelta
    <3> QED BY <3>6, <3>7
  <2>6. Colas'
    BY <1>1, <1>2, <2>5 DEF Colas
  <2>7. EnIo'
    <3> SUFFICES ASSUME NEW x \in ToSet(colas.io)
                 PROVE  /\ x.pid \in DOMAIN despachado'
                        /\ x = [Vuelta(x.pid)' EXCEPT !.real_actual = x.real_actual]
      BY <1>1 DEF EnIo, Vuelta
    <3>1. Vuelta(x.pid)' = Vuelta(x.pid)
      BY <2>5 DEF NombresColas
    <3>2. x.pid \in DOMAIN despachado /\ x = [Vuelta(x.pid) EXCEPT !.real_actual = x.real_actual]
      BY <1>2 DEF EnIo
    <3> QED BY <1>1, <3>1, <3>2
  <2>8. Ficha'
    <3>1. EstadosIo'
      BY <1>1, <1>2 DEF Ficha, EstadosIo
    <3> QED BY <1>1, <1>2, <1>5, <3>1 DEF Ficha
  <2>9. EnVuelo(p)'
    <3>1. AlDia(w)'
      <4>1. ~(Avisada(d)') /\ w.pid \in Pids' /\ duenio'[w.pid] = d
        BY <1>1, <1>5, <1>9, <2>3 DEF Pids
      <4>2. ~(haciaConsola'[d] # <<>> \/ consola'[d] = "terminada")
        BY <4>1 DEF Avisada
      <4> QED BY <1>8, <1>10, <4>1, <4>2 DEF AlDia, Avisada
    <3>2. AlDia(Vuelta(p))'
      BY <1>11, <3>1 DEF AlDia
    <3>3. p \notin Encoladas(colas)' /\ despachado'[p] \in PcbsPlanos /\ despachado'[p].pid = p
      BY <1>1 DEF EnVuelo
    <3> QED BY <1>13, <3>2, <3>3 DEF EnVuelo
  <2>10. Vuelo'
    BY <1>1, <1>2, <2>9 DEF Vuelo, Pids
  <2> QED BY <2>1, <2>2, <2>4, <2>6, <2>7, <2>8, <2>10 DEF IndInv
<1> QED BY <1>1, <1>6, <1>8, <1>9, <1>10, <1>11, <1>12, <1>13 DEF l

\* What stays in the CPU, or goes back with its operation.
LEMMA PasoEjecuta ==
  ASSUME IndInv, EjecutaComun \/ EjecutaIo \/ EjecutaExit
  PROVE  IndInv'
<1>1. /\ cpu.fase = "corre" /\ Ejecuta
      /\ UNCHANGED <<consolaVars, admision, vivo, planVars, ioVars, despacho, duenio, despachado>>
      /\ Tipos
  BY DEF EjecutaComun, EjecutaIo, EjecutaExit, EnCiclo, IndInv, Admision
<1>2. PICK p \in Pids, d \in Conectables, n \in Nat, v \in PcbsPlanos :
           /\ Despachado(p, d, n, v) /\ DeConsola(v, d, n) /\ v.pid = p
           /\ Lista(d) \in Seq(Instrucciones)
           /\ EnCpu(p) /\ cpu.pcb = [v EXCEPT !.instrucciones = Lista(d)]
           /\ cpu.pcb.instrucciones = Lista(d) /\ cpu.pcb.program_counter = n /\ cpu.pcb.pid = p
           /\ cpu.i \in Nat /\ cpu.i >= n
           /\ despacho = <<>> /\ retorno = <<>>
           /\ cpu = [fase |-> "corre", i |-> cpu.i, pcb |-> cpu.pcb]
  BY <1>1, EnEjecucion
<1>3. PICK w, enCpu : /\ w = [v EXCEPT !.program_counter = n + 1]
                      /\ enCpu = [w EXCEPT !.instrucciones = Lista(d)]
  OBVIOUS
<1>4. PICK i, m : i = cpu.i /\ m = cpu.pcb
  OBVIOUS
<1> HIDE DEF Lista
<1>5. [cpu.pcb EXCEPT !.program_counter = cpu.pcb.program_counter + 1] = enCpu
  BY <1>2, <1>3 DEF PcbsPlanos
<1>6. \A nom \in {"NO_OP", "READ", "WRITE", "COPY", "I/O", "EXIT"} :
        Codigo(nom) # ERROR_OP_DESCONOCIDA
  <2>1. \A nom \in {"NO_OP", "READ", "WRITE", "COPY", "I/O", "EXIT"} : Codigo(nom) \in 0 .. 5
    BY Codigos
  <2> QED BY <2>1, BasePalabraAssumption DEF ERROR_OP_DESCONOCIDA
<1>7. PICK codigos : /\ EnCiclo(codigos) /\ ERROR_OP_DESCONOCIDA \notin codigos
                     /\ \/ EjecutaComun
                        \/ EjecutaIo /\ codigos = {Codigo("I/O")}
                        \/ EjecutaExit /\ codigos = {Codigo("EXIT")}
  <2>1. CASE EjecutaComun
    <3>1. EnCiclo({Codigo(nom) : nom \in {"NO_OP", "READ", "WRITE", "COPY"}})
      BY <2>1 DEF EjecutaComun
    <3>2. ERROR_OP_DESCONOCIDA \notin {Codigo(nom) : nom \in {"NO_OP", "READ", "WRITE", "COPY"}}
      BY <1>6
    <3> QED BY <2>1, <3>1, <3>2
  <2>2. CASE EjecutaIo
    <3>1. EnCiclo({Codigo("I/O")})
      BY <2>2 DEF EjecutaIo
    <3> QED BY <1>6, <2>2, <3>1
  <2>3. CASE EjecutaExit
    <3>1. EnCiclo({Codigo("EXIT")})
      BY <2>3 DEF EjecutaExit
    <3> QED BY <1>6, <2>3, <3>1
  <2> QED BY <2>1, <2>2, <2>3
<1>8. /\ n + 1 \in 1 .. Len(Lista(d)) /\ Instruccion = Lista(d)[n + 1]
      /\ Lista(d)[n + 1].cod_op \in codigos
      /\ Len(ejecutadas'[d]) = n + 1 /\ ejecutadas'[d][n + 1] = Lista(d)[n + 1]
      /\ duenio'[p] = d /\ Lista(duenio[p])' = Lista(d)
      /\ Vuelta(p)' = w /\ DeConsola(w, d, n + 1)
      /\ EnCpu(p)' \/ Volviendo(p)' => IndInv'
  <2>1. UNCHANGED <<consolaVars, admision, vivo, planVars, ioVars, duenio, despachado>>
    BY <1>1
  <2>2. /\ n + 1 \in 1 .. Len(Lista(d)) /\ Instruccion = Lista(d)[n + 1]
        /\ Lista(d)[n + 1].cod_op \in codigos
        /\ Len(ejecutadas'[d]) = n + 1 /\ ejecutadas'[d][n + 1] = Lista(d)[n + 1]
        /\ duenio'[p] = d
    BY <1>1, <1>2, <1>3, <1>7, <2>1, PasoDeInstruccion
  <2>3. /\ Lista(duenio[p])' = Lista(d)
        /\ Vuelta(p)' = w /\ DeConsola(w, d, n + 1)
        /\ EnCpu(p)' \/ Volviendo(p)' => IndInv'
    BY <1>1, <1>2, <1>3, <1>7, <2>1, PasoDeInstruccion
  <2> QED BY <2>2, <2>3
<1>9. despacho' = <<>>
  BY <1>1, <1>2
<1>10. CASE EjecutaComun
  <2>1. cpu' = [cpu EXCEPT !.i = i + 1, !.pcb.program_counter = cpu.pcb.program_counter + 1]
        /\ retorno' = <<>>
    BY <1>2, <1>4, <1>10 DEF EjecutaComun
  <2>2. cpu' = [fase |-> "corre", i |-> i + 1, pcb |-> enCpu]
    <3>1. cpu' = [cpu EXCEPT !.i = i + 1,
                    !.pcb = [cpu.pcb EXCEPT !.program_counter = cpu.pcb.program_counter + 1]]
      BY <2>1
    <3>2. cpu' = [cpu EXCEPT !.i = i + 1, !.pcb = enCpu]
      BY <1>5, <3>1, Zenon
    <3>3. cpu = [fase |-> "corre", i |-> i, pcb |-> m] /\ i \in Nat
      BY <1>2, <1>4
    <3> QED BY <3>2, <3>3
  <2>3. i + 1 \in Nat /\ i + 1 >= n + 1
    BY <1>2, <1>4
  <2>4. EnCpu(p)'
    BY <1>3, <1>8, <1>9, <2>1, <2>2, <2>3 DEF EnCpu
  <2> QED BY <1>8, <2>4
<1> DEFINE b == serializar_header(w)
<1>11. serializar_header_cpu([cpu.pcb EXCEPT !.program_counter = cpu.pcb.program_counter + 1]) = b
       /\ \A op \in Palabra : empaquetar(b, op) \in Seq(Palabra)
       /\ \A o, u \in Palabra : empaquetar_i_o(b, o, u) \in Seq(Palabra)
  <2>1. serializar_header_cpu(enCpu) = b
    <3>1. serializar_header_cpu([w EXCEPT !.instrucciones = Lista(d)]) = b
      BY <1>1, <1>8, ViajeDePcb
    <3> QED BY <1>3, <3>1, Zenon
  <2>2. \A op \in Palabra : empaquetar(b, op) \in Seq(Palabra)
    BY <1>1, <1>8, PaqueteDePcb
  <2>3. \A op, u \in Palabra : empaquetar_i_o(b, op, u) \in Seq(Palabra)
    BY <1>1, <1>8, PaqueteDeIo
  <2>4. serializar_header_cpu([cpu.pcb EXCEPT !.program_counter = cpu.pcb.program_counter + 1])
          = serializar_header_cpu(enCpu)
    BY <1>5, Zenon
  <2> QED BY <2>1, <2>2, <2>3, <2>4
<1>12. OPERACION_IO \in Palabra /\ OPERACION_EXIT \in Palabra
  BY BasePalabraAssumption DEF OPERACION_IO, OPERACION_EXIT, Palabra
<1>13. CASE EjecutaIo /\ codigos = {Codigo("I/O")}
  <2>1. Instruccion.parametros[1] \in Palabra
    <3>1. Lista(d)[n + 1] \in Instrucciones /\ Len(Lista(d)[n + 1].parametros) >= 1
      <4>1. Lista(d)[n + 1].cod_op = Codigo("I/O") /\ archivo[d] \in Archivos
        BY <1>1, <1>8, <1>13 DEF Tipos
      <4>2. \A k \in 1 .. Len(Lista(d)) : Lista(d)[k].cod_op = Codigo("I/O")
                                            => Len(Lista(d)[k].parametros) >= 1
        BY <4>1, Parseo DEF Lista
      <4> QED BY <1>2, <1>8, <4>1, <4>2
    <3>2. Lista(d)[n + 1].parametros \in Seq(Palabra)
      BY <3>1 DEF Instrucciones
    <3>3. Lista(d)[n + 1].parametros[1] \in Palabra
      BY <3>1, <3>2
    <3> QED BY <1>8, <3>3
  <2>2. PICK u \in Palabra : u = Instruccion.parametros[1]
    BY <2>1
  <2>3. retorno' = <<>> \o empaquetar_i_o(b, OPERACION_IO, u) /\ cpu' = CpuLibre
    <3> HIDE DEF b
    <3> QED BY <1>2, <1>11, <1>13, <2>2 DEF EjecutaIo
  <2> HIDE DEF b
  <2>4. retorno' = empaquetar_i_o(b, OPERACION_IO, u)
    BY <1>11, <1>12, <2>3
  <2>5. Volviendo(p)'
    BY <1>8, <1>9, <2>3, <2>4 DEF Volviendo, b
  <2> QED BY <1>8, <2>5
<1>14. CASE EjecutaExit /\ codigos = {Codigo("EXIT")}
  <2>1. retorno' = <<>> \o empaquetar(b, OPERACION_EXIT) /\ cpu' = CpuLibre
    <3> HIDE DEF b
    <3> QED BY <1>2, <1>11, <1>14 DEF EjecutaExit
  <2> HIDE DEF b
  <2>2. retorno' = empaquetar(b, OPERACION_EXIT)
    BY <1>11, <1>12, <2>1
  <2>3. ejecutadas'[d] # <<>> /\ ejecutadas'[d][Len(ejecutadas'[d])].cod_op = Codigo("EXIT")
    BY <1>8, <1>14
  <2>4. LlegoAExit(duenio[p])'
    BY <1>8, <2>3 DEF LlegoAExit
  <2>5. Volviendo(p)'
    BY <1>8, <1>9, <2>1, <2>2, <2>4 DEF Volviendo, b
  <2> QED BY <1>8, <2>5
<1> QED BY <1>7, <1>10, <1>13, <1>14

----------------------------------------------------------------------------
(* The processes that come back.                                           *)

\* A process comes back for I/O and waits for the device.
LEMMA PasoRecibeIo ==
  ASSUME IndInv, RecibeIo
  PROVE  IndInv'
<1> DEFINE q == "io"
<1>1. /\ retorno # <<>> /\ Head(retorno) = OPERACION_IO
      /\ UNCHANGED <<consolaVars, admision, vivo, corto, inicio, tablas, process_state, despacho, cpu,
                     historia>>
  BY DEF RecibeIo
<1>2. /\ Tipos /\ Duenios /\ Colas /\ EnIo /\ Vuelo /\ Ficha /\ BuenasColas(colas)
      /\ colas \in TipoColas /\ q \in NombresColas
  BY DEF IndInv, Admision, Colas, BuenasColas, NombresColas
<1>3. ~Reposo
  BY <1>1 DEF Reposo
<1>4. PICK p \in Pids, d \in Conectables, n \in Nat, v \in PcbsPlanos :
        Despachado(p, d, n, v) /\ DeConsola(v, d, n) /\ v.pid = p
  BY <1>3, ElDespachado
<1>5. /\ EnVuelo(p) /\ p \in DOMAIN despachado /\ d = duenio[p] /\ n = Len(ejecutadas[d])
      /\ v = Vuelta(p) /\ Volviendo(p) /\ corto = 0 /\ inicio = 0 /\ p \in Nat /\ p \notin Encoladas(colas)
  <2>1. Pids \subseteq Nat
    BY <1>2 DEF Duenios, Pids
  <2> QED BY <1>1, <1>3, <1>4, <2>1, LoDespachado DEF Despachado, EnVuelo, Yendo, EnCpu
<1>6. OPERACION_IO \in Palabra /\ OPERACION_EXIT \in Palabra /\ OPERACION_IO # OPERACION_EXIT
  BY BasePalabraAssumption DEF OPERACION_IO, OPERACION_EXIT, Palabra
<1> DEFINE b == serializar_header(v)
<1>7. PICK u \in Palabra : retorno = empaquetar_i_o(b, OPERACION_IO, u)
  <2>1. Head(empaquetar(b, OPERACION_EXIT)) = OPERACION_EXIT
    BY <1>2, <1>4, <1>6, PaqueteDePcb
  <2> HIDE DEF b
  <2>2. retorno # empaquetar(b, OPERACION_EXIT)
    BY <1>1, <1>6, <2>1
  <2> QED BY <1>5, <2>2 DEF Volviendo, b
<1>8. /\ recibir_buffer(SubSeq(retorno, 3, Len(retorno))).stream = b.stream
      /\ recibir_buffer(SubSeq(retorno, 3, Len(retorno))).resto = <<>>
      /\ recibir_pcb(b.stream) = v
  <2>1. LET s == empaquetar_i_o(b, OPERACION_IO, u)
        IN /\ recibir_buffer(SubSeq(s, 3, Len(s))).stream = b.stream
           /\ recibir_buffer(SubSeq(s, 3, Len(s))).resto = <<>>
    BY <1>2, <1>4, <1>6, PaqueteDeIo
  <2>2. recibir_pcb(b.stream) = v
    BY <1>2, <1>4, ViajeDePcb
  <2> HIDE DEF b
  <2> QED BY <1>7, <2>1, <2>2, Zenon
<1> HIDE DEF b
<1>p. PICK pcb : pcb = recibir_pcb(recibir_buffer(SubSeq(retorno, 3, Len(retorno))).stream)
  OBVIOUS
<1>9. PICK ahora \in Horas :
         /\ colas' = [colas EXCEPT !.io =
                        Append(colas.io, [pcb EXCEPT !.real_actual = ahora - pcb.timestamp_inicio_exe])]
         /\ recibe' = [fase |-> "marcar", pid |-> pcb.pid]
         /\ retorno' = recibir_buffer(SubSeq(retorno, 3, Len(retorno))).resto
  BY <1>p DEF RecibeIo
<1>10. pcb = v /\ retorno' = <<>>
  BY <1>p, <1>8, <1>9, Zenon
<1>11. PICK r, y : r = ahora - pcb.timestamp_inicio_exe /\ y = [v EXCEPT !.real_actual = r]
  OBVIOUS
<1>12. r \in Longs
  <2>1. v.timestamp_inicio_exe = 0
    BY <1>4 DEF DeConsola
  <2>2. ahora \in Longs
    BY TiempoAssumption, Zenon DEF Longs
  <2>3. r = ahora - 0 /\ ahora \in Int
    <3>1. Longs = 0 .. BasePalabra * BasePalabra - 1
      BY DEF Longs
    <3>2. BasePalabra * BasePalabra - 1 \in Int
      BY BasePalabraAssumption, SMT
    <3> QED BY <1>10, <1>11, <2>1, <2>2, <3>1, <3>2
  <2> QED BY <2>2, <2>3
<1>13. /\ y \in PcbsPlanos /\ y.pid = p /\ Retocado(y, v)
       /\ y = [v EXCEPT !.real_actual = y.real_actual]
  BY <1>4, <1>11, <1>12 DEF PcbsPlanos, Retocado
<1>14. AlDia(v)
  BY <1>5 DEF EnVuelo
<1>15. AlDia(y)
  BY <1>13, <1>14, Retoques
<1>16. Admision' /\ Duenios' /\ Historia' /\ Avisos' /\ Callado
  <2>1. UNCHANGED <<consolaVars, admision, vivo, duenio, ejecutadas>>
    BY <1>1 DEF historia
  <2> QED BY <2>1, ConsolasFirmes
<1>17. colas' = [colas EXCEPT !.io = Append(colas.io, y)]
  <2>1. colas' = [colas EXCEPT !.io = Append(colas.io, [pcb EXCEPT !.real_actual = r])]
    BY <1>9, <1>11
  <2>2. y = [pcb EXCEPT !.real_actual = r]
    BY <1>10, <1>11
  <2> QED BY <2>1, <2>2
<1>18. Cambia(colas', colas, q, Append(colas[q], y))
  <2>1. Append(colas.io, y) \in Seq(PcbsPlanos)
    BY <1>2, <1>13, AlFinal DEF TipoColas
  <2> QED BY <1>2, <1>17, <2>1 DEF TipoColas, Cambia, NombresColas
<1>19. /\ BuenasColas(colas')
       /\ \A z \in NombresColas : \A x \in ToSet(colas'[z]) : x \in ToSet(colas[z]) \/ (z = q /\ x = y)
  <2>1. y.pid \notin Encoladas(colas)
    BY <1>5, <1>13
  <2> HIDE DEF q
  <2> QED BY <1>2, <1>13, <1>18, <2>1, Pone
<1>20. Colas'
  <2>1. ASSUME NEW z \in NombresColas, NEW x \in ToSet(colas'[z]) PROVE AlDia(x)'
    <3>1. AlDia(x)
      BY <1>2, <1>15, <1>19 DEF Colas
    <3> QED BY <1>2, <1>16, <3>1, TodosAlDia
  <2>2. colas'.nuevos = colas.nuevos
    BY <1>18 DEF Cambia, NombresColas
  <2> QED BY <1>1, <1>2, <1>19, <2>1, <2>2 DEF Colas, admision
<1>21. EnIo'
  <2> SUFFICES ASSUME NEW x \in ToSet(colas'.io)
               PROVE  /\ x.pid \in DOMAIN despachado'
                      /\ x = [Vuelta(x.pid)' EXCEPT !.real_actual = x.real_actual]
    BY DEF EnIo, Vuelta
  <2>1. Vuelta(x.pid)' = Vuelta(x.pid) /\ despachado' = despachado
    BY <1>1 DEF historia, Vuelta
  <2>2. x \in ToSet(colas.io) \/ x = y
    BY <1>19 DEF NombresColas
  <2>3. CASE x = y
    BY <1>5, <1>13, <2>1, <2>3
  <2>4. CASE x \in ToSet(colas.io)
    BY <1>2, <2>1, <2>4 DEF EnIo
  <2> QED BY <2>2, <2>3, <2>4
<1>22. Reposo'
  BY <1>1, <1>5, <1>10 DEF Volviendo, Reposo
<1>23. Ficha' /\ Vuelo'
  <2>1. DOMAIN despachado' \subseteq Pids'
    BY <1>1, <1>2 DEF historia, admision, Pids, Vuelo
  <2>2. recibe' = [fase |-> "marcar", pid |-> p]
    BY <1>4, <1>9, <1>10
  <2>3. EstadosIo'
    BY <1>1, <1>2, <1>5, <2>2 DEF Ficha, EstadosIo
  <2>4. Ficha'
    BY <1>1, <1>2, <1>5, <1>22, <2>3 DEF Ficha
  <2> QED BY <1>22, <2>1, <2>4 DEF Vuelo
<1> QED BY <1>16, <1>20, <1>21, <1>23 DEF IndInv

\* A process comes back for the last time: its console is told.
LEMMA PasoRecibeExit ==
  ASSUME IndInv, RecibeExit
  PROVE  IndInv'
<1>1. /\ retorno # <<>> /\ Head(retorno) = OPERACION_EXIT /\ corto' = corto + 1
      /\ UNCHANGED <<archivo, consola, haciaKernel, cliente_fd, hilo, proximo_pid, vivo, colas, inicio,
                     tablas, ioVars, despacho, cpu, duenio, ejecutadas, despachado>>
  BY DEF RecibeExit, admision, historia
<1>2. /\ Tipos /\ Admision /\ Duenios /\ Historia /\ Avisos /\ Colas /\ EnIo /\ Vuelo /\ Ficha
  BY DEF IndInv, Admision
<1>3. ~Reposo
  BY <1>1 DEF Reposo
<1>4. PICK p \in Pids, d \in Conectables, n \in Nat, v \in PcbsPlanos :
        Despachado(p, d, n, v) /\ DeConsola(v, d, n) /\ v.pid = p
  BY <1>3, ElDespachado
<1>5. /\ EnVuelo(p) /\ d = duenio[p] /\ v = Vuelta(p) /\ Volviendo(p)
      /\ corto = 0 /\ inicio = 0 /\ recibe.fase = "recv" /\ ~Avisada(d)
      /\ \A q \in NombresColas : \A x \in ToSet(colas[q]) :
           x.pid \in Pids /\ duenio[x.pid] # d /\ duenio[x.pid] \in Conectables
  BY <1>1, <1>3, <1>4, LoDespachado DEF Despachado, EnVuelo, Yendo, EnCpu
<1>6. OPERACION_IO \in Palabra /\ OPERACION_EXIT \in Palabra /\ OPERACION_IO # OPERACION_EXIT
  BY BasePalabraAssumption DEF OPERACION_IO, OPERACION_EXIT, Palabra
<1> DEFINE b == serializar_header(v)
<1>7. retorno = empaquetar(b, OPERACION_EXIT) /\ LlegoAExit(d)
  <2>1. \A u \in Palabra : Head(empaquetar_i_o(b, OPERACION_IO, u)) = OPERACION_IO
    BY <1>2, <1>4, <1>6, PaqueteDeIo
  <2> HIDE DEF b
  <2>2. \A u \in Palabra : retorno # empaquetar_i_o(b, OPERACION_IO, u)
    BY <1>1, <1>6, <2>1
  <2> QED BY <1>5, <2>2 DEF Volviendo, b
<1>8. /\ recibir_buffer(Tail(retorno)).stream = b.stream /\ recibir_buffer(Tail(retorno)).resto = <<>>
      /\ recibir_pcb(b.stream) = v
  <2>1. /\ recibir_buffer(Tail(empaquetar(b, OPERACION_EXIT))).stream = b.stream
        /\ recibir_buffer(Tail(empaquetar(b, OPERACION_EXIT))).resto = <<>>
    BY <1>2, <1>4, <1>6, PaqueteDePcb
  <2>2. recibir_pcb(b.stream) = v
    BY <1>2, <1>4, ViajeDePcb
  <2> HIDE DEF b
  <2> QED BY <1>7, <2>1, <2>2, Zenon
<1> HIDE DEF b
<1>9. PICK c, m : /\ c = recibir_pcb(recibir_buffer(Tail(retorno)).stream).socket_consola
                  /\ m = Append(haciaConsola[c], PROCESO_FINALIZADO)
                  /\ haciaConsola' = [haciaConsola EXCEPT ![c] = m]
                  /\ retorno' = recibir_buffer(Tail(retorno)).resto
  BY DEF RecibeExit
<1>10. c = d /\ retorno' = <<>>
  <2>1. recibir_pcb(recibir_buffer(Tail(retorno)).stream) = v /\ retorno' = <<>>
    BY <1>8, <1>9, Zenon
  <2>2. v.socket_consola = d
    BY <1>4 DEF DeConsola
  <2> QED BY <1>9, <2>1, <2>2, Zenon
<1>11. haciaConsola[d] = <<>> /\ consola[d] # "terminada"
  BY <1>5 DEF Avisada
<1>12. m \in Seq(Palabra) /\ Len(m) = 1 /\ m # <<>>
  <2>1. PROCESO_FINALIZADO \in Palabra
    BY BasePalabraAssumption DEF PROCESO_FINALIZADO, Palabra
  <2>2. m = Append(<<>>, PROCESO_FINALIZADO)
    BY <1>9, <1>10, <1>11
  <2> QED BY <2>1, <2>2
<1>13. /\ haciaConsola' \in [Conectables -> Seq(Palabra)] /\ haciaConsola'[d] = m
       /\ \A e \in Conectables : e # d => haciaConsola'[e] = haciaConsola[e]
  BY <1>2, <1>9, <1>10, <1>12 DEF Avisos
<1>14. Admision' /\ Duenios' /\ Historia'
  <2>1. \A e \in Conectables : Cargada(e) => Cargada(e)'
    BY <1>1 DEF Cargada
  <2> QED BY <1>1, <1>2, <2>1, AdmisionFirme, DueniosFirme, HistoriaFirme
<1>15. \A e \in Conectables : (LlegoAExit(e)' <=> LlegoAExit(e)) /\ (e # d => (Avisada(e)' <=> Avisada(e)))
  BY <1>1, <1>13 DEF LlegoAExit, Avisada
<1>16. Avisos'
  <2>1. ASSUME NEW e \in Conectables
        PROVE  /\ haciaConsola'[e] = <<>> \/ (Len(haciaConsola'[e]) = 1 /\ consola'[e] # "terminada")
               /\ Avisada(e)' => LlegoAExit(e)'
    <3>1. CASE e = d
      BY <1>1, <1>7, <1>11, <1>12, <1>13, <1>15, <3>1
    <3>2. CASE e # d
      BY <1>1, <1>2, <1>13, <1>15, <3>2 DEF Avisos
    <3> QED BY <3>1, <3>2
  <2> QED BY <1>13, <2>1 DEF Avisos
<1>17. Colas'
  <2>1. ASSUME NEW q \in NombresColas, NEW x \in ToSet(colas[q]) PROVE AlDia(x)'
    <3>1. AlDia(x) /\ x.pid \in Pids
      BY <1>2, <1>5 DEF Colas
    <3>2. PICK e \in Conectables : e = duenio[x.pid] /\ e # d
      BY <1>5
    <3>3. haciaConsola'[e] = haciaConsola[e] /\ duenio'[x.pid] = e /\ consola' = consola
      BY <1>1, <1>13, <3>2
    <3>4. (Avisada(duenio[x.pid]))' => Avisada(duenio[x.pid])
      BY <3>2, <3>3 DEF Avisada
    <3>5. Pids \subseteq Pids' /\ ejecutadas' = ejecutadas /\ duenio' = duenio /\ archivo' = archivo
      BY <1>1 DEF Pids
    <3> QED BY <1>2, <3>1, <3>4, <3>5, SigueAlDia
  <2> QED BY <1>1, <1>2, <2>1 DEF Colas
<1>18. EnIo'
  BY <1>1, <1>2 DEF EnIo, Vuelta
<1>19. Reposo'
  BY <1>1, <1>5, <1>10 DEF Volviendo, Reposo
<1>20. Ficha' /\ Vuelo'
  <2>1. EstadosIo'
    BY <1>1, <1>2 DEF Ficha, EstadosIo, ioVars
  <2>2. recibe' = recibe
    BY <1>1 DEF ioVars
  <2>3. Ficha'
    BY <1>1, <1>2, <1>5, <1>19, <2>1, <2>2 DEF Ficha
  <2> QED BY <1>1, <1>2, <1>19, <2>3 DEF Vuelo, Pids
<1> QED BY <1>14, <1>16, <1>17, <1>18, <1>20 DEF IndInv

\* A process that came for I/O gets its entry of process_state.
LEMMA PasoMarca ==
  ASSUME IndInv, Marca
  PROVE  IndInv'
<1>1. /\ recibe.fase = "marcar" /\ recibe' = RecibeLibre /\ corto' = corto + 1
      /\ process_state' = Anota(process_state, recibe.pid, "blocked")
      /\ UNCHANGED <<consolaVars, admision, vivo, colas, inicio, tablas, despacho, retorno, cpu,
                     proximo_pid, duenio, ejecutadas, despachado>>
  BY DEF Marca, cpuVars, historia, admision
<1>2. /\ Duenios /\ Colas /\ EnIo /\ Vuelo /\ Ficha
  BY DEF IndInv
<1>3. Admision' /\ Duenios' /\ Historia' /\ Avisos' /\ Callado
  BY <1>1, ConsolasFirmes
<1>4. Tranquilo
  BY <1>1, <1>3 DEF Tranquilo
<1>5. Ficha'
  <2>1. corto = 0 /\ inicio = 0 /\ Reposo
    BY <1>1, <1>2 DEF Ficha
  <2>2. process_state' \in [DOMAIN process_state' -> {"blocked", "suspended ready"}]
    BY <1>1, <1>2, Anotado DEF Ficha, EstadosIo
  <2>3. EstadosIo' /\ recibe'.fase = "recv"
    BY <1>1, <2>2 DEF EstadosIo, RecibeLibre
  <2> QED BY <1>1, <2>1, <2>3 DEF Ficha, Reposo
<1>6. Colas'
  <2>1. ASSUME NEW q \in NombresColas, NEW x \in ToSet(colas[q]) PROVE AlDia(x)'
    BY <1>2, <1>3, TodosAlDia DEF Colas
  <2> QED BY <1>1, <1>2, <2>1 DEF Colas
<1>7. EnIo' /\ Vuelo'
  BY <1>1, <1>2, <1>4, EnIoFirme, VueloFirme DEF cpuVars
<1> QED BY <1>3, <1>5, <1>6, <1>7 DEF IndInv

\* Nothing changes, but that the kernel may crash.
LEMMA PasoQuieto ==
  ASSUME IndInv, UNCHANGED <<consolaVars, admision, planVars, ioVars, cpuVars, historia>>,
         vivo' = vivo \/ vivo' = FALSE
  PROVE  IndInv'
<1>1. UNCHANGED <<duenio, ejecutadas, despachado, proximo_pid>>
  BY DEF historia, admision
<1>2. Admision' /\ Duenios' /\ Historia' /\ Avisos' /\ Callado
  BY <1>1, ConsolasFirmes
<1>3. Tranquilo
  BY <1>1, <1>2 DEF Tranquilo
<1>4. Colas' /\ EnIo' /\ Ficha' /\ Vuelo'
  BY <1>1, <1>3, RestoFirme DEF IndInv
<1> QED BY <1>2, <1>4 DEF IndInv

----------------------------------------------------------------------------
(* The invariant holds.                                                    *)

\* In the initial states.
LEMMA Inicio ==
  ASSUME Init
  PROVE  IndInv
<1>1. /\ archivo \in [Conectables -> Archivos]
      /\ consola = [c \in Conectables |-> "sin conectar"]
      /\ haciaKernel = [c \in Conectables |-> <<>>] /\ haciaConsola = [c \in Conectables |-> <<>>]
      /\ cliente_fd = 0 /\ hilo = [c \in Conectables |-> SinHilo] /\ vivo = TRUE /\ proximo_pid = 0
      /\ colas = [nuevos |-> <<>>, susReady |-> <<>>, ready |-> <<>>, io |-> <<>>]
      /\ corto = 0 /\ inicio = 1 /\ tablas = 0 /\ process_state = <<>> /\ recibe = RecibeLibre
      /\ despacho = <<>> /\ retorno = <<>> /\ cpu = CpuLibre
      /\ duenio = <<>> /\ ejecutadas = [c \in Conectables |-> <<>>] /\ despachado = <<>>
  BY DEF Init
<1>2. /\ <<>> \in Seq(Palabra) /\ <<>> \in Seq(PcbsPlanos) /\ <<>> \in Seq(Instrucciones)
      /\ Len(<<>>) = 0 /\ DOMAIN <<>> = {} /\ ToSet(<<>>) = {}
  BY EmptySeq DEF ToSet
<1>3. SinHilo \in Hilos /\ SinHilo.fase = "no"
  <2>1. 0 \in Palabra
    BY BasePalabraAssumption DEF Palabra
  <2> QED BY <1>2, <2>1 DEF Hilos, Fases, SinHilo
<1>4. Admision
  <2>1. Tipos
    BY <1>1, <1>2, <1>3 DEF Tipos
  <2>2. DeAUna
    BY <1>1, <1>3 DEF DeAUna, Admitida
  <2>3. \A c \in Conectables : Conexion(c)
    BY <1>1, <1>3 DEF Conexion
  <2> QED BY <2>1, <2>2, <2>3 DEF Admision
<1>5. Pids = {} /\ 1 .. 0 = {}
  <2>1. proximo_pid = 0
    BY <1>1
  <2> QED BY <2>1 DEF Pids
<1>6. Duenios
  <2>1. duenio \in [Pids -> Conectables]
    <3>1. <<>> \in Seq(Conectables)
      BY EmptySeq
    <3>2. <<>> \in [1 .. 0 -> Conectables]
      BY <1>2, <3>1, LenProperties
    <3> QED BY <1>1, <1>5, <3>2
  <2>2. proximo_pid \in Nat
    BY <1>1
  <2> QED BY <1>5, <2>1, <2>2 DEF Duenios
<1>7. Historia
  <2>1. ASSUME NEW c \in Conectables PROVE HistoriaDe(c)
    <3>1. Lista(c) \in Seq(Instrucciones)
      BY <1>4, Envio DEF Admision
    <3>2. Len(Lista(c)) \in Nat
      BY <3>1
    <3> HIDE DEF Lista
    <3>3. ejecutadas[c] = <<>> /\ Len(ejecutadas[c]) = 0
      BY <1>1, <1>2
    <3> QED BY <1>5, <3>2, <3>3 DEF HistoriaDe
  <2> QED BY <1>1, <1>2, <2>1 DEF Historia
<1>8. Avisos
  BY <1>1, <1>2 DEF Avisos, Avisada
<1>c. colas = [nuevos |-> <<>>, susReady |-> <<>>, ready |-> <<>>, io |-> <<>>]
  BY <1>1
<1>9. \A q \in NombresColas : colas[q] = <<>> /\ ToSet(colas[q]) = {}
  BY <1>2, <1>c DEF NombresColas
<1>10. Colas
  <2>1. \A q \in NombresColas : PidsDe(colas[q]) = {} /\ Distintos(colas[q])
    BY <1>2, <1>9 DEF PidsDe, Distintos
  <2>2. colas \in TipoColas
    BY <1>2, <1>c DEF TipoColas
  <2>3. BuenasColas(colas)
    BY <2>1, <2>2 DEF BuenasColas
  <2>4. tablas \in Nat /\ tablas + Len(colas.nuevos) = proximo_pid
    <3>1. tablas = 0 /\ proximo_pid = 0 /\ colas.nuevos = <<>>
      BY <1>1
    <3> QED BY <1>2, <3>1
  <2> QED BY <1>9, <2>3, <2>4 DEF Colas
<1>11. EnIo
  BY <1>9 DEF EnIo, NombresColas
<1>12. Reposo /\ Ficha
  <2>1. Reposo
    BY <1>1 DEF Reposo
  <2>2. corto = 0 /\ inicio = 1 /\ recibe = RecibeLibre
    BY <1>1
  <2>3. process_state \in [DOMAIN process_state -> {"blocked", "suspended ready"}]
    <3>1. <<>> \in Seq({"blocked"})
      BY EmptySeq
    <3>2. <<>> \in [1 .. 0 -> {"blocked", "suspended ready"}]
      BY <1>2, <1>5, <3>1, LenProperties
    <3>3. process_state = <<>>
      BY <1>1
    <3> QED BY <1>2, <1>5, <3>2, <3>3
  <2>4. EstadosIo /\ recibe.fase = "recv"
    BY <2>2, <2>3 DEF EstadosIo, RecibeLibre
  <2> QED BY <2>1, <2>2, <2>4 DEF Ficha
<1>13. Vuelo
  BY <1>1, <1>2, <1>12 DEF Vuelo
<1> QED BY <1>4, <1>6, <1>7, <1>8, <1>10, <1>11, <1>12, <1>13 DEF IndInv

\* In the next ones.
LEMMA Paso ==
  ASSUME IndInv, [NextDeAUna]_vars
  PROVE  IndInv'
<1>1. CASE UNCHANGED vars
  BY <1>1, PasoQuieto DEF vars
<1>2. CASE Sistema
  <2>1. ASSUME NEW c \in Conectables, Servida(c) PROVE IndInv'
    BY <2>1, PasoDeAdmision, PasoRecibeResultado, PasoCreaPcb DEF Servida, Recibiendo
  <2>2. ASSUME Cpu PROVE IndInv'
    BY <2>2, PasoRecibePcb, PasoEjecuta, PasoSinExit DEF Cpu
  <2>3. ASSUME RecibeDeCpu PROVE IndInv'
    BY <2>3, PasoRecibeIo, PasoMarca, PasoRecibeExit DEF RecibeDeCpu
  <2>4. ASSUME CaeSinEstado PROVE IndInv'
    BY <2>4, PasoQuieto DEF CaeSinEstado
  <2> QED BY <1>2, <2>1, <2>2, <2>3, <2>4, PasoReanuda, PasoPasaAReady, PasoPasaARunning, PasoRealizarIo
          DEF Sistema
<1>3. CASE \E c \in Conectables : Conecta(c) /\ \A d \in Conectables : Admitida(d)
  BY <1>3, PasoDeAdmision
<1> QED BY <1>1, <1>2, <1>3 DEF NextDeAUna

\* Consoles started one after the other: each program is received whole, a
\* PCB is in one place, and it says how far its process is.
THEOREM RecorridoInvariante == SpecDeAUna => []IndInv
<1>1. Init => IndInv
  BY Inicio
<1>2. IndInv /\ [NextDeAUna]_vars => IndInv'
  BY Paso
<1> QED BY <1>1, <1>2, PTL DEF SpecDeAUna

----------------------------------------------------------------------------
(* The properties.                                                         *)

\* What was executed for a console, as a prefix of the reference.
LEMMA EsFiel ==
  ASSUME IndInv
  PROVE  EjecucionFiel
<1> SUFFICES ASSUME NEW c \in Conectables
             PROVE  IsPrefix([i \in DOMAIN ejecutadas[c] |-> EnTexto(ejecutadas[c][i])],
                             Desplegado(archivo[c]))
  BY DEF EjecucionFiel
<1> DEFINE e == ejecutadas[c]
           l == Lista(c)
           t == [i \in DOMAIN e |-> EnTexto(e[i])]
           r == Desplegado(archivo[c])
<1>1. /\ archivo[c] \in Archivos /\ HistoriaDe(c) /\ e \in Seq(Instrucciones)
  BY DEF IndInv, Admision, Tipos, Historia
<1>2. /\ l \in Seq(Instrucciones) /\ r \in Seq(Lineas) /\ Len(r) = Len(l)
      /\ \A k \in 1 .. Len(l) : l[k].cod_op # ERROR_OP_DESCONOCIDA => EnTexto(l[k]) = r[k]
  BY <1>1, Parseo DEF Lista
<1>3. /\ Len(e) <= Len(l)
      /\ \A k \in 1 .. Len(e) : e[k] = l[k] /\ l[k].cod_op # ERROR_OP_DESCONOCIDA
  BY <1>1 DEF HistoriaDe
<1> HIDE DEF e, l, r
<1>4. DOMAIN e = 1 .. Len(e) /\ Len(e) \in Nat /\ Len(l) \in Nat
  BY <1>1, <1>2
<1>5. ASSUME NEW k \in 1 .. Len(e) PROVE t[k] = r[k] /\ r[k] \in Lineas
  <2>1. k \in 1 .. Len(l) /\ k \in 1 .. Len(r) /\ k \in DOMAIN e
    BY <1>2, <1>3, <1>4
  <2>2. e[k] = l[k] /\ EnTexto(l[k]) = r[k]
    BY <1>2, <1>3, <2>1
  <2>3. t[k] = EnTexto(e[k])
    BY <2>1
  <2> QED BY <1>2, <2>1, <2>2, <2>3
<1>6. DOMAIN t = 1 .. Len(e)
  BY <1>4
<1>t. t = [i \in 1 .. Len(e) |-> t[i]]
  BY <1>4
<1> HIDE DEF t
<1>7. t \in Seq(Lineas) /\ Len(t) = Len(e)
  <2>1. \A k \in 1 .. Len(e) : t[k] \in Lineas
    BY <1>5
  <2> QED BY <1>4, <1>t, <2>1
<1>8. SubSeq(r, 0 + 1, 0 + Len(t)) = t
  <2>1. 0 \in Nat /\ 0 + Len(t) <= Len(r) /\ \A k \in 1 .. Len(t) : r[0 + k] = t[k]
    BY <1>2, <1>3, <1>4, <1>5, <1>7
  <2> QED BY <1>2, <1>7, <2>1, TrozoIgual
<1>9. SubSeq(t, 1, Len(t)) = t /\ SubSeq(r, 1, Len(t)) = t /\ Len(t) <= Len(r)
  BY <1>2, <1>3, <1>4, <1>7, <1>8
<1>10. IsPrefix(t, r)
  BY <1>9 DEF IsPrefix
<1> QED BY <1>10 DEF t, e, r

\* A PCB in the queue of the device.
LEMMA VuelveIgual ==
  ASSUME IndInv
  PROVE  PcbVuelveIgual
<1> SUFFICES ASSUME NEW i \in DOMAIN colas.io, NEW pcb, pcb = colas.io[i]
             PROVE  pcb = [despachado[pcb.pid] EXCEPT
                             !.program_counter = Len(ejecutadas[duenio[pcb.pid]]),
                             !.real_actual = pcb.real_actual]
  BY DEF PcbVuelveIgual
<1>1. pcb \in ToSet(colas.io)
  BY DEF ToSet
<1>2. pcb = [Vuelta(pcb.pid) EXCEPT !.real_actual = pcb.real_actual]
  BY <1>1 DEF IndInv, EnIo
<1> QED BY <1>2 DEF Vuelta

\* The notices of the end.
LEMMA AvisaALaSuya ==
  ASSUME IndInv
  PROVE  AvisoALaSuya
<1> SUFFICES ASSUME NEW c \in Conectables
             PROVE  /\ Len(haciaConsola[c]) + (IF consola[c] = "terminada" THEN 1 ELSE 0) <= 1
                    /\ haciaConsola[c] # <<>> \/ consola[c] = "terminada"
                         => ejecutadas[c] # <<>> /\ EnTexto(Last(ejecutadas[c])).nombre = "EXIT"
  BY DEF AvisoALaSuya
<1>1. Avisos
  BY DEF IndInv
<1>2. haciaConsola[c] = <<>> \/ (Len(haciaConsola[c]) = 1 /\ consola[c] # "terminada")
  BY <1>1 DEF Avisos
<1>3. Len(haciaConsola[c]) + (IF consola[c] = "terminada" THEN 1 ELSE 0) <= 1
  <2>1. CASE haciaConsola[c] = <<>>
    <3>1. Len(haciaConsola[c]) = 0
      BY <2>1, EmptySeq
    <3> QED BY <3>1
  <2>2. CASE Len(haciaConsola[c]) = 1 /\ consola[c] # "terminada"
    BY <2>2
  <2> QED BY <1>2, <2>1, <2>2
<1>4. ASSUME Avisada(c)
      PROVE  ejecutadas[c] # <<>> /\ EnTexto(Last(ejecutadas[c])).nombre = "EXIT"
  <2>1. ejecutadas[c] # <<>> /\ ejecutadas[c][Len(ejecutadas[c])].cod_op = Codigo("EXIT")
    BY <1>1, <1>4 DEF Avisos, LlegoAExit
  <2>2. Last(ejecutadas[c]).cod_op = Codigo("EXIT")
    BY <2>1 DEF Last
  <2>3. operaciones[Codigo("EXIT") + 1] = "EXIT"
    BY Codigos
  <2> QED BY <2>1, <2>2, <2>3 DEF EnTexto
<1> QED BY <1>3, <1>4 DEF Avisada

\* The words on the connections of the CPU; in one place of three at most.
LEMMA Palabreo ==
  ASSUME IndInv
  PROVE  /\ despacho \in Seq(Palabra) /\ retorno \in Seq(Palabra)
         /\ cpu.fase \in {"libre", "corre", "caida"}
         /\ Reposo \/ \E k \in {1, 2, 4} : /\ despacho # <<>> => k = 1
                                           /\ retorno # <<>> => k = 2
                                           /\ cpu.fase # "libre" => k = 4
<1>1. <<>> \in Seq(Palabra)
  BY EmptySeq
<1>2. CASE Reposo
  BY <1>1, <1>2 DEF Reposo, CpuLibre
<1>3. CASE ~Reposo
  <2>1. PICK p \in Pids, d \in Conectables, n \in Nat, v \in PcbsPlanos :
          Despachado(p, d, n, v) /\ DeConsola(v, d, n)
    BY <1>3, ElDespachado
  <2>2. (Yendo(p) \/ EnCpu(p) \/ Volviendo(p)) /\ v = Vuelta(p) /\ Tipos
    BY <2>1 DEF Despachado, EnVuelo, IndInv, Admision
  <2>3. OPERACION_ENVIO_PCB \in Palabra /\ OPERACION_IO \in Palabra /\ OPERACION_EXIT \in Palabra
    BY BasePalabraAssumption DEF OPERACION_ENVIO_PCB, OPERACION_IO, OPERACION_EXIT, Palabra
  <2>4. CASE Yendo(p)
    <3>1. despacho \in Seq(Palabra)
      BY <2>1, <2>2, <2>3, <2>4, PaqueteDePcb DEF Yendo
    <3> QED BY <1>1, <2>4, <3>1 DEF Yendo, CpuLibre
  <2>5. CASE EnCpu(p)
    <3>1. despacho = <<>> /\ retorno = <<>> /\ cpu.fase \in {"corre", "caida"}
      BY <2>5 DEF EnCpu
    <3> QED BY <1>1, <3>1
  <2>6. CASE Volviendo(p)
    <3>1. retorno \in Seq(Palabra)
      <4>1. empaquetar(serializar_header(v), OPERACION_EXIT) \in Seq(Palabra)
        BY <2>1, <2>2, <2>3, PaqueteDePcb
      <4>2. \A u \in Palabra : empaquetar_i_o(serializar_header(v), OPERACION_IO, u) \in Seq(Palabra)
        BY <2>1, <2>2, <2>3, PaqueteDeIo
      <4> QED BY <2>2, <2>6, <4>1, <4>2 DEF Volviendo
    <3> QED BY <1>1, <2>6, <3>1 DEF Volviendo, CpuLibre
  <2> QED BY <2>2, <2>4, <2>5, <2>6
<1> QED BY <1>2, <1>3

\* A set with one of four at most, and the tokens of the dispatch.
LEMMA UnaFicha ==
  ASSUME IndInv
  PROVE  corto + inicio + Cardinality({x \in {1, 2, 3, 4} : CASE x = 1 -> despacho # <<>>
                                                              [] x = 2 -> retorno # <<>>
                                                              [] x = 3 -> recibe.fase # "recv"
                                                              [] OTHER -> cpu.fase # "libre"}) <= 1
<1> DEFINE O == {x \in {1, 2, 3, 4} : CASE x = 1 -> despacho # <<>>
                                        [] x = 2 -> retorno # <<>>
                                        [] x = 3 -> recibe.fase # "recv"
                                        [] OTHER -> cpu.fase # "libre"}
<1>1. /\ 1 \in O => despacho # <<>>
      /\ 2 \in O => retorno # <<>>
      /\ 3 \in O => recibe.fase # "recv"
      /\ 4 \in O => cpu.fase # "libre"
      /\ O \subseteq {1, 2, 3, 4}
  OBVIOUS
<1> HIDE DEF O
<1>2. Ficha
  BY DEF IndInv
<1>3. /\ corto + inicio \in Nat /\ corto + inicio <= 1
      /\ corto + inicio = 1 => Reposo
      /\ recibe.fase # "recv" => corto + inicio = 0 /\ Reposo
  <2>1. recibe.fase \in {"recv", "marcar"}
    BY <1>2 DEF Ficha, EstadosIo
  <2> QED BY <1>2, <2>1 DEF Ficha
<1>4. ASSUME NEW k, O \subseteq {k} PROVE Cardinality(O) \in Nat /\ Cardinality(O) <= 1
  <2>1. O \in SUBSET {k}
    BY <1>4
  <2>2. IsFiniteSet({k}) /\ Cardinality({k}) = 1
    BY FS_Singleton
  <2>3. IsFiniteSet(O) /\ Cardinality(O) <= 1
    BY <2>1, <2>2, FS_Subset
  <2> QED BY <2>3, FS_CardinalityType
<1>5. CASE recibe.fase # "recv"
  <2>1. O \subseteq {3}
    BY <1>1, <1>3, <1>5 DEF Reposo, CpuLibre
  <2>2. corto + inicio = 0
    BY <1>3, <1>5
  <2>3. Cardinality(O) \in Nat /\ Cardinality(O) <= 1
    BY <1>4, <2>1
  <2> QED BY <2>2, <2>3 DEF O
<1>6. CASE Reposo /\ recibe.fase = "recv"
  <2>1. O = {}
    BY <1>1, <1>3, <1>6 DEF Reposo, CpuLibre
  <2>2. Cardinality(O) = 0
    BY <2>1, FS_EmptySet
  <2> QED BY <1>3, <1>6, <2>2 DEF O
<1>7. CASE ~Reposo
  <2>1. PICK k \in {1, 2, 4} : /\ despacho # <<>> => k = 1
                               /\ retorno # <<>> => k = 2
                               /\ cpu.fase # "libre" => k = 4
    BY <1>7, Palabreo
  <2>2. corto + inicio = 0 /\ recibe.fase = "recv"
    BY <1>3, <1>7
  <2>3. O \subseteq {k}
    BY <1>1, <1>3, <2>1, <2>2
  <2>4. Cardinality(O) \in Nat /\ Cardinality(O) <= 1
    BY <1>4, <2>3
  <2> QED BY <2>2, <2>4 DEF O
<1> QED BY <1>3, <1>5, <1>6, <1>7

\* A PCB of a queue.
LEMMA PcbDeCola ==
  ASSUME IndInv, NEW q \in NombresColas, NEW i \in DOMAIN colas[q]
  PROVE  /\ colas[q][i] \in Pcbs
         /\ Len(colas[q][i].instrucciones) = Palabras(colas[q][i].tamanio_stream_instrucciones)
<1>1. PICK x : x = colas[q][i]
  OBVIOUS
<1>2. AlDia(x)
  <2>1. x \in ToSet(colas[q])
    BY <1>1 DEF ToSet
  <2> QED BY <2>1 DEF IndInv, Colas
<1>3. PICK c, n : c = duenio[x.pid] /\ n = Len(ejecutadas[c])
  OBVIOUS
<1>4. c \in Conectables /\ DeConsola(x, c, n) /\ Tipos
  BY <1>2, <1>3 DEF AlDia, IndInv, Duenios, Admision
<1>5. Palabra \subseteq Nat /\ Longs \subseteq Nat
  <2>1. Longs = 0 .. BasePalabra * BasePalabra - 1
    BY DEF Longs
  <2> QED BY <2>1 DEF Palabra
<1>6. x \in Pcbs
  BY <1>4, <1>5 DEF DeConsola, PcbsPlanos, Pcbs
<1>7. Len(x.instrucciones) = Palabras(x.tamanio_stream_instrucciones)
  <2>1. Programa(c) \in Seq(Palabra)
    BY <1>4, Envio
  <2> DEFINE m == Len(Programa(c))
  <2>2. m \in Nat
    BY <2>1
  <2> HIDE DEF m
  <2>3. Palabras(Ancho * m) = m
    BY <2>2, Numeros
  <2> QED BY <1>4, <2>3 DEF DeConsola, m
<1> QED BY <1>1, <1>6, <1>7

\* Types.
LEMMA TiposDelRecorrido ==
  ASSUME IndInv
  PROVE  TypeOK
<1>1. Admision /\ Avisos
  BY DEF IndInv
<1>2. /\ consola \in [Conectables -> {"sin conectar", "conectada", "aceptada", "espera", "terminada"}]
      /\ \A c \in Conectables : haciaKernel[c] \in Seq(Palabra) /\ haciaConsola[c] \in Seq(Palabra)
      /\ cliente_fd \in Conectables \cup {0}
      /\ vivo \in BOOLEAN
  BY <1>1 DEF Admision, Tipos, Avisos
<1>3. hilo \in [Conectables -> [fase : {"no", "operacion", "recv operacion", "buffer", "recv size",
                                        "recv stream", "crear", "termino"},
                                fd : Conectables \cup {0}, size : Palabra, stream : Seq(Palabra)]]
  BY <1>1 DEF Admision, Tipos, Hilos, Fases
<1>4. DOMAIN colas = NombresColas
  BY DEF IndInv, Colas, BuenasColas, TipoColas, NombresColas
<1>5. \A q \in DOMAIN colas : \A i \in DOMAIN colas[q] :
        /\ colas[q][i] \in Pcbs
        /\ Len(colas[q][i].instrucciones) = Palabras(colas[q][i].tamanio_stream_instrucciones)
  BY <1>4, PcbDeCola
<1>6. /\ process_state \in [DOMAIN process_state -> {"blocked", "suspended ready"}]
      /\ recibe \in [fase : {"recv", "marcar"}, pid : Nat]
  BY DEF IndInv, Ficha, EstadosIo
<1> QED BY <1>2, <1>3, <1>5, <1>6, Palabreo, UnaFicha DEF TypeOK

\* With consoles started one after the other, what the CPU executes for a
\* console is the program of its file, from its first line on.
THEOREM SeEjecutaElPrograma == SpecDeAUna => []EjecucionFiel
<1>1. IndInv => EjecucionFiel
  BY EsFiel
<1> QED BY <1>1, RecorridoInvariante, PTL

\* A PCB comes back from the CPU as it went, but for its program counter.
THEOREM ElPcbVuelveIgual == SpecDeAUna => []PcbVuelveIgual
<1>1. IndInv => PcbVuelveIgual
  BY VuelveIgual
<1> QED BY <1>1, RecorridoInvariante, PTL

\* A console is told the end of its own process, after its EXIT, and once.
THEOREM SeAvisaALaSuya == SpecDeAUna => []AvisoALaSuya
<1>1. IndInv => AvisoALaSuya
  BY AvisaALaSuya
<1> QED BY <1>1, RecorridoInvariante, PTL

\* Every variable has its type, a PCB the size it announces, and one process
\* at most is in the CPU or on its way.
THEOREM TiposDeConsolas == SpecDeAUna => []TypeOK
<1>1. IndInv => TypeOK
  BY TiposDelRecorrido
<1> QED BY <1>1, RecorridoInvariante, PTL
=============================================================================
