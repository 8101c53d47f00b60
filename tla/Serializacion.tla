--------------------------- MODULE Serializacion ---------------------------
(***************************************************************************)
(* What travels between console, kernel and CPU, as each of the three      *)
(* programs writes it and reads it (consola/utilsConsola.c,                *)
(* Kernel/utilsKernel.c, CPU/utilsCPU.c). The kernel keeps the             *)
(* instructions as the bytes it received and the CPU as a list, so the     *)
(* layout of a PCB exists twice.                                           *)
(*                                                                         *)
(* A stream is a sequence of words of 4 bytes. Sizes are in bytes, as in   *)
(* the code. Words are below BasePalabra, which stands for 2^32, and a     *)
(* long takes two words.                                                   *)
(***************************************************************************)
EXTENDS Integers, Sequences, SequencesExt

CONSTANT BasePalabra

ASSUME BasePalabraAssumption == BasePalabra \in Nat /\ BasePalabra > 128

Ancho == 4                             \* sizeof(uint32_t)
Largo == 8                             \* sizeof(long)
Palabra == 0 .. BasePalabra - 1
uint32(n) == n % BasePalabra
Palabras(bytes) == bytes \div Ancho

\* A long in memory, the low word first.
DeLong(v) == <<v % BasePalabra, v \div BasePalabra>>
ALong(baja, alta) == baja + BasePalabra * alta

OPERACION_ENVIO_INSTRUCCIONES == 0
OPERACION_ENVIO_PCB == 1
OPERACION_IO == 2
OPERACION_EXIT == 3
PROCESO_FINALIZADO == 101

\* enum operaciones, the same in console and CPU, from 0 on.
operaciones == <<"NO_OP", "I/O", "READ", "WRITE", "COPY", "EXIT">>
Codigo(nombre) == (CHOOSE i \in DOMAIN operaciones : operaciones[i] = nombre) - 1
ERROR_OP_DESCONOCIDA == BasePalabra - 2

----------------------------------------------------------------------------
(* The console. A line of the file is its first word and its numbers.      *)

convertir_instruccion(nombre) ==
  IF \E i \in DOMAIN operaciones : operaciones[i] = nombre
  THEN Codigo(nombre) ELSE ERROR_OP_DESCONOCIDA

\* "NO_OP k" becomes k instructions without parameters.
agregar_una_instruccion(linea) ==
  LET cod_op == convertir_instruccion(linea.nombre)
  IN IF cod_op = Codigo("NO_OP")
     THEN [i \in 1 .. linea.numeros[1] |-> [cod_op |-> cod_op, parametros |-> <<>>]]
     ELSE <<[cod_op |-> cod_op, parametros |-> linea.numeros]>>

agregar_instrucciones(lineas) ==
  FlattenSeq([i \in DOMAIN lineas |-> agregar_una_instruccion(lineas[i])])

tam_param(ins) == Ancho * Len(ins.parametros)

serializar_instruccion(ins) == <<ins.cod_op, tam_param(ins)>> \o ins.parametros

EnPalabras(lista) == FlattenSeq([i \in DOMAIN lista |-> serializar_instruccion(lista[i])])

\* The size grows with each instruction that serializar_instruccion adds.
serializar_instrucciones(lista, tamanio_en_memoria) ==
  LET hasta[i \in 0 .. Len(lista)] ==
        IF i = 0 THEN Ancho ELSE hasta[i - 1] + 2 * Ancho + tam_param(lista[i])
  IN [size |-> hasta[Len(lista)],
      stream |-> <<tamanio_en_memoria>> \o EnPalabras(lista)]

----------------------------------------------------------------------------
(* Packets.                                                                *)

empaquetar(buffer, codigo) ==
  <<codigo, buffer.size>> \o SubSeq(buffer.stream, 1, Palabras(buffer.size))

empaquetar_i_o(buffer, codigo, tiempo_bloqueo) ==
  <<codigo, tiempo_bloqueo, buffer.size>> \o SubSeq(buffer.stream, 1, Palabras(buffer.size))

\* recv of the size and of as many bytes: what is read and what is left.
recibir_buffer(palabras) ==
  [size |-> Head(palabras),
   stream |-> SubSeq(palabras, 2, 1 + Palabras(Head(palabras))),
   resto |-> SubSeq(palabras, 2 + Palabras(Head(palabras)), Len(palabras))]

----------------------------------------------------------------------------
(* The PCB in the kernel, where pcb.instrucciones is a stream.             *)

crear_header(pid, size, stream, estimacion_inicial) ==
  LET tamanio == uint32(size - Ancho)
  IN [pid |-> pid,
      tamanio_en_memoria |-> stream[1],
      tamanio_stream_instrucciones |-> tamanio,
      instrucciones |-> SubSeq(stream, 2, 1 + Palabras(tamanio)),
      program_counter |-> 0,
      tabla_paginas |-> 0,
      estimacion_siguiente |-> estimacion_inicial,
      timestamp_inicio_exe |-> 0,
      real_actual |-> 0,
      socket_consola |-> 0]

\* What precedes and what follows the instructions; both programs agree.
Encabezado(pcb) == <<pcb.pid, pcb.tamanio_en_memoria, pcb.tamanio_stream_instrucciones>>

Cola(pcb) ==
  <<pcb.program_counter, pcb.tabla_paginas>> \o DeLong(pcb.estimacion_siguiente)
    \o DeLong(pcb.timestamp_inicio_exe) \o DeLong(pcb.real_actual) \o <<pcb.socket_consola>>

TamanioPcb(pcb) == 6 * Ancho + pcb.tamanio_stream_instrucciones + 3 * Largo

serializar_header(pcb) ==
  [size |-> TamanioPcb(pcb),
   stream |-> Encabezado(pcb)
                \o SubSeq(pcb.instrucciones, 1, Palabras(pcb.tamanio_stream_instrucciones))
                \o Cola(pcb)]

\* The fields of a PCB whose instructions end at word fin of the stream.
DesdeStream(s, instrucciones, fin) ==
  [pid |-> s[1], tamanio_en_memoria |-> s[2], tamanio_stream_instrucciones |-> s[3],
   instrucciones |-> instrucciones,
   program_counter |-> s[fin + 1],
   tabla_paginas |-> s[fin + 2],
   estimacion_siguiente |-> ALong(s[fin + 3], s[fin + 4]),
   timestamp_inicio_exe |-> ALong(s[fin + 5], s[fin + 6]),
   real_actual |-> ALong(s[fin + 7], s[fin + 8]),
   socket_consola |-> s[fin + 9]]

recibir_pcb(s) ==
  LET fin == 3 + Palabras(s[3])
  IN DesdeStream(s, SubSeq(s, 4, fin), fin)

----------------------------------------------------------------------------
(* The PCB in the CPU, where pcb.instrucciones is a list.                  *)

\* One turn of the loop of recibir_pcb, with its offset_instrucciones and its
\* list: instructions are read until they take the bytes the PCB announces.
LeeUna(s, bytes, v) ==
  LET w == Palabras(v.offset)
      n == s[w + 2]
  IN IF v.offset >= bytes THEN v
     ELSE [offset |-> v.offset + 2 * Ancho + n,
           lista |-> Append(v.lista, [cod_op |-> s[w + 1],
                                      parametros |-> SubSeq(s, w + 3, w + 2 + Palabras(n))])]

\* There are no more turns than bytes; each goes on from the one before it.
LeeInstrucciones(s, bytes) ==
  LET tras[k \in 0 .. bytes] ==
        IF k = 0 THEN [offset |-> 0, lista |-> <<>>]
        ELSE CHOOSE t \in {LeeUna(s, bytes, v) : v \in {tras[k - 1]}} : TRUE
  IN tras[bytes].lista

recibir_pcb_cpu(s) ==
  LET fin == 3 + Palabras(s[3])
  IN DesdeStream(s, LeeInstrucciones(SubSeq(s, 4, fin), s[3]), fin)

\* Mutant: the two longs of the estimation and of the start are swapped.
serializar_header_cpu_cambiado(pcb) ==
  [size |-> TamanioPcb(pcb),
   stream |-> Encabezado(pcb) \o EnPalabras(pcb.instrucciones)
                \o Cola([pcb EXCEPT !.estimacion_siguiente = pcb.timestamp_inicio_exe,
                                    !.timestamp_inicio_exe = pcb.estimacion_siguiente])]

serializar_header_cpu(pcb) ==
  [size |-> TamanioPcb(pcb),
   stream |-> Encabezado(pcb) \o EnPalabras(pcb.instrucciones) \o Cola(pcb)]
=============================================================================
