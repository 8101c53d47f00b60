---------------------------- MODULE KernelCupos -----------------------------
(***************************************************************************)
(* Proof that the kernel keeps the degree of multiprogramming to the unit, *)
(* resumes only what memory has suspended, and implements the seven-state  *)
(* diagram of CicloDeVida, while nobody uses a PCB whose process_state is  *)
(* still the one of its last stay in cola_de_io (VentanaSinUsar).          *)
(*                                                                         *)
(* First, every step of the kernel is the move of one process from a place *)
(* (EstaEn) to another, or moves none (Movimiento), and what memory was told*)
(* of each process follows from its place. Then, every place of            *)
(* GRADO_MULTIPROGRAMACION is free in sem_contador_multiprogramacion, taken*)
(* by a process resident in memory, or owed by the one thread that took or *)
(* is about to give it back.                                               *)
(***************************************************************************)
EXTENDS KernelPruebas

\* Every process is at one place.
UnSitio == \A p \in Procesos : \E s : \A t : EstaEn(t, p) <=> t = s

\* The hands in which p is counted, by thread: the PCB that recibir_pcb_de_cpu
\* ends has been deleted from memory already.
LEMMA EstaEnCuenta ==
  ASSUME TypeOK, ManosVacias, FinDeRecibe, NEW p \in Procesos, NEW s
  PROVE  EstaEn(s, p) <=>
           \/ s = "afuera" /\ vAfuera(p) # 0
           \/ s \in Colas /\ vCola(s, p) # 0
           \/ s = "despacho" /\ vDespacho(p) # 0
           \/ s = "retorno" /\ vRetorno(p) # 0
           \/ s = hilo["largo"] /\ vMano("largo", p) # 0
           \/ s = hilo["recibe"] /\ s # "avisar_fin" /\ vMano("recibe", p) # 0
           \/ s = hilo["gestor"] /\ vMano("gestor", p) # 0
           \/ s = hilo["disp"] /\ vMano("disp", p) # 0
           \/ s = hilo["cpu"] /\ vMano("cpu", p) # 0
           \/ /\ s = "eliminado"
              /\ vFin(p) # 0 \/ (hilo["recibe"] = "avisar_fin" /\ vMano("recibe", p) # 0)
<1>t. /\ cola \in [Colas -> Seq(Procesos)] /\ despacho \in Seq(Procesos)
      /\ retorno \in Seq(Mensajes) /\ p # Nadie
  BY ProcesosAssumption DEF TypeOK, TiposDatos
<1>1. vAfuera(p) # 0 <=> p \in afuera
  BY DEF vAfuera, Uno
<1>2. \A c \in Colas : vCola(c, p) # 0 <=> EnCola(c, p)
  <2>1. ASSUME NEW c \in Colas PROVE vCola(c, p) # 0 <=> EnCola(c, p)
    <3>1. cola[c] \in Seq(Procesos)
      BY <1>t
    <3>2. vCola(c, p) = 0 <=> \A i \in DOMAIN cola[c] : cola[c][i] \notin {p}
      BY <3>1, CuantosTipo DEF vCola
    <3>3. QED
      BY <3>2 DEF EnCola
  <2>2. QED
    BY <2>1
<1>3. vDespacho(p) # 0 <=> \E i \in DOMAIN despacho : despacho[i] = p
  <2>1. vDespacho(p) = 0 <=> \A i \in DOMAIN despacho : despacho[i] \notin {p}
    BY <1>t, CuantosTipo DEF vDespacho
  <2>2. QED
    BY <2>1
<1>4. vRetorno(p) # 0 <=> \E i \in DOMAIN retorno : retorno[i].p = p
  <2>1. vRetorno(p) = 0 <=> \A i \in DOMAIN retorno : retorno[i] \notin De(p)
    BY <1>t, CuantosTipo DEF vRetorno
  <2>2. \A i \in DOMAIN retorno : retorno[i] \in Mensajes
    BY <1>t
  <2>3. QED
    BY <2>1, <2>2 DEF De
<1>5. \A h \in {"largo", "gestor", "disp", "cpu"} : vMano(h, p) # 0 <=> suyo[h] = p
  BY ManoSinVentana DEF Uno
<1>6. vMano("recibe", p) # 0 <=> suyo["recibe"] = p /\ hilo["recibe"] \notin {"marcar", "avisar_io"}
  BY DEF vMano, Uno
<1>7. memoria[p] = "eliminado" <=>
        vFin(p) # 0 \/ (hilo["recibe"] = "avisar_fin" /\ vMano("recibe", p) # 0)
  <2>1. suyo["recibe"] = p => (memoria[p] = "eliminado" <=> hilo["recibe"] = "avisar_fin")
    BY <1>t DEF ManosVacias, FinDeRecibe
  <2>2. QED
    BY <1>6, <2>1 DEF vFin, Uno
<1>8. s \in Trabajos /\ (\E h \in Hilos : hilo[h] = s /\ suyo[h] = p) <=>
           \/ s = hilo["largo"] /\ suyo["largo"] = p
           \/ s = hilo["recibe"] /\ s \notin {"avisar_fin", "marcar", "avisar_io"} /\ suyo["recibe"] = p
           \/ s = hilo["gestor"] /\ suyo["gestor"] = p
           \/ s = hilo["disp"] /\ suyo["disp"] = p
           \/ s = hilo["cpu"] /\ suyo["cpu"] = p
  <2>1. /\ suyo["corto"] # p
        /\ suyo["largo"] = p => hilo["largo"] \in Trabajos
        /\ suyo["recibe"] = p => hilo["recibe"] \in Trabajos \union {"avisar_fin", "marcar", "avisar_io"}
        /\ suyo["gestor"] = p => hilo["gestor"] \in Trabajos
        /\ suyo["disp"] = p => hilo["disp"] \in Trabajos
        /\ suyo["cpu"] = p => hilo["cpu"] \in Trabajos
    BY <1>t DEF ManosVacias, TypeOK, TiposHilos, Trabajos, PcRecibe, PcDisp, PcCpu
  <2>2. "avisar_fin" \notin Trabajos /\ "marcar" \notin Trabajos /\ "avisar_io" \notin Trabajos
    BY DEF Trabajos
  <2>3. QED
    BY <2>1, <2>2 DEF Hilos
<1>9. QED
  BY <1>1, <1>2, <1>3, <1>4, <1>5, <1>6, <1>7, <1>8 DEF EstaEn

\* Being counted once is being at one place.
LEMMA SitioUnico == InvLugares => UnSitio
<1> SUFFICES ASSUME InvLugares, NEW p \in Procesos
             PROVE  \E s : \A t : EstaEn(t, p) <=> t = s
  BY DEF UnSitio
<1>1. TypeOK /\ ManosVacias /\ FinDeRecibe /\ Veces(p) = 1 /\ Terminos(p)
  BY TerminosNat DEF InvLugares, Inductiva
<1>2. \A s : EstaEn(s, p) <=>
           \/ s = "afuera" /\ vAfuera(p) # 0
           \/ s \in Colas /\ vCola(s, p) # 0
           \/ s = "despacho" /\ vDespacho(p) # 0
           \/ s = "retorno" /\ vRetorno(p) # 0
           \/ s = hilo["largo"] /\ vMano("largo", p) # 0
           \/ s = hilo["recibe"] /\ s # "avisar_fin" /\ vMano("recibe", p) # 0
           \/ s = hilo["gestor"] /\ vMano("gestor", p) # 0
           \/ s = hilo["disp"] /\ vMano("disp", p) # 0
           \/ s = hilo["cpu"] /\ vMano("cpu", p) # 0
           \/ /\ s = "eliminado"
              /\ vFin(p) # 0 \/ (hilo["recibe"] = "avisar_fin" /\ vMano("recibe", p) # 0)
  BY <1>1, EstaEnCuenta
<1> DEFINE A == vCola("new", p) + vCola("susReady", p) + vCola("ready", p) + vCola("io", p)
           B == vDespacho(p) + vRetorno(p)
           C == vMano("largo", p) + vMano("gestor", p) + vMano("disp", p) + vMano("cpu", p)
           D == vMano("recibe", p) + vAfuera(p) + vFin(p)
           Manos == {"largo", "gestor", "disp", "cpu"}
<1>n. A \in Nat /\ B \in Nat /\ C \in Nat /\ D \in Nat /\ A + B + C + D = 1
  <2>1. A \in Nat
    BY <1>1 DEF Terminos
  <2>2. B \in Nat
    BY <1>1 DEF Terminos
  <2>3. C \in Nat
    BY <1>1 DEF Terminos
  <2>4. D \in Nat
    BY <1>1 DEF Terminos
  <2>5. Veces(p) = A + B + C + D
    BY <1>1 DEF Veces, Terminos
  <2>6. QED
    BY <1>1, <2>1, <2>2, <2>3, <2>4, <2>5
<1>c. /\ A = 0 => \A c \in Colas : vCola(c, p) = 0
      /\ A = 1 => \A c, d \in Colas : vCola(c, p) # 0 /\ d # c => vCola(d, p) = 0
  BY <1>1 DEF Terminos, Colas
<1>d. /\ B = 0 => vDespacho(p) = 0 /\ vRetorno(p) = 0
      /\ B = 1 => vDespacho(p) = 0 \/ vRetorno(p) = 0
  BY <1>1 DEF Terminos
<1>e. /\ C = 0 => \A h \in Manos : vMano(h, p) = 0
      /\ C = 1 => \A g, h \in Manos : vMano(h, p) # 0 /\ g # h => vMano(g, p) = 0
  BY <1>1 DEF Terminos
<1>f. /\ D = 0 => vMano("recibe", p) = 0 /\ vAfuera(p) = 0 /\ vFin(p) = 0
      /\ D = 1 /\ vMano("recibe", p) # 0 => vAfuera(p) = 0 /\ vFin(p) = 0
      /\ D = 1 /\ vAfuera(p) # 0 => vMano("recibe", p) = 0 /\ vFin(p) = 0
      /\ D = 1 /\ vFin(p) # 0 => vMano("recibe", p) = 0 /\ vAfuera(p) = 0
  BY <1>1 DEF Terminos
<1> HIDE DEF A, B, C, D
<1>g. \/ A = 1 /\ B = 0 /\ C = 0 /\ D = 0
      \/ A = 0 /\ B = 1 /\ C = 0 /\ D = 0
      \/ A = 0 /\ B = 0 /\ C = 1 /\ D = 0
      \/ A = 0 /\ B = 0 /\ C = 0 /\ D = 1
  BY <1>n
<1>3. CASE A = 1
  <2>1. PICK c \in Colas : vCola(c, p) # 0
    <3>1. vCola("new", p) # 0 \/ vCola("susReady", p) # 0 \/ vCola("ready", p) # 0 \/ vCola("io", p) # 0
      BY <1>1, <1>3 DEF A, Terminos
    <3>2. QED
      BY <3>1 DEF Colas
  <2>2. \A t : EstaEn(t, p) <=> t = c
    BY <1>2, <1>3, <1>c, <1>d, <1>e, <1>f, <1>g, <2>1 DEF Colas
  <2>3. QED
    BY <2>2
<1>4. CASE B = 1
  <2>1. vDespacho(p) # 0 \/ vRetorno(p) # 0
    BY <1>1, <1>4 DEF B, Terminos
  <2>2. (\A t : EstaEn(t, p) <=> t = "despacho") \/ (\A t : EstaEn(t, p) <=> t = "retorno")
    BY <1>2, <1>4, <1>c, <1>d, <1>e, <1>f, <1>g, <2>1 DEF Colas
  <2>3. QED
    BY <2>2
<1>5. CASE C = 1
  <2>1. PICK h \in Manos : vMano(h, p) # 0
    BY <1>1, <1>5 DEF C, Terminos
  <2>2. \A t : EstaEn(t, p) <=> t = hilo[h]
    BY <1>2, <1>5, <1>c, <1>d, <1>e, <1>f, <1>g, <2>1 DEF Colas
  <2>3. QED
    BY <2>2
<1>6. CASE D = 1
  <2>1. vMano("recibe", p) # 0 \/ vAfuera(p) # 0 \/ vFin(p) # 0
    BY <1>1, <1>6 DEF D, Terminos
  <2>2. \/ \A t : EstaEn(t, p) <=> t = "eliminado"
        \/ \A t : EstaEn(t, p) <=> t = hilo["recibe"]
        \/ \A t : EstaEn(t, p) <=> t = "afuera"
    <3>1. /\ \A c \in Colas : vCola(c, p) = 0
          /\ vDespacho(p) = 0 /\ vRetorno(p) = 0 /\ \A h \in Manos : vMano(h, p) = 0
      BY <1>6, <1>c, <1>d, <1>e, <1>g
    <3>2. CASE vMano("recibe", p) # 0 /\ hilo["recibe"] = "avisar_fin"
      <4>1. \A t : EstaEn(t, p) <=> t = "eliminado"
        BY <1>2, <1>6, <1>f, <3>1, <3>2
      <4>2. QED
        BY <4>1
    <3>3. CASE vMano("recibe", p) # 0 /\ hilo["recibe"] # "avisar_fin"
      <4>1. \A t : EstaEn(t, p) <=> t = hilo["recibe"]
        BY <1>2, <1>6, <1>f, <3>1, <3>3
      <4>2. QED
        BY <4>1
    <3>4. CASE vAfuera(p) # 0
      <4>1. \A t : EstaEn(t, p) <=> t = "afuera"
        BY <1>2, <1>6, <1>f, <3>1, <3>4
      <4>2. QED
        BY <4>1
    <3>5. CASE vFin(p) # 0
      <4>1. \A t : EstaEn(t, p) <=> t = "eliminado"
        BY <1>2, <1>6, <1>f, <3>1, <3>5
      <4>2. QED
        BY <4>1
    <3>6. QED
      BY <2>1, <3>2, <3>3, <3>4, <3>5
  <2>3. QED
    BY <2>2
<1>7. QED
  BY <1>g, <1>3, <1>4, <1>5, <1>6

\* The same after a step.
LEMMA SitioUnicoDespues == InvLugares' => UnSitio'
BY SitioUnico, PTL

----------------------------------------------------------------------------
\* What is in a queue or a connection stays in it when something else is pushed
\* or popped.
LEMMA SigueAlAgregar ==
  ASSUME NEW S, NEW s \in Seq(S), NEW x \in S, NEW t, t = Append(s, x)
  PROVE  /\ \A i \in DOMAIN s : i \in DOMAIN t /\ t[i] = s[i]
         /\ \E i \in DOMAIN t : t[i] = x
<1>1. /\ Len(s) + 1 \in DOMAIN t /\ t[Len(s) + 1] = x
      /\ \A i \in DOMAIN s : i \in DOMAIN t /\ t[i] = s[i]
  OBVIOUS
<1>2. QED
  BY <1>1

\* An element of a queue is its first or is still there once the first is taken.
LEMMA SigueAlSacar ==
  ASSUME NEW S, NEW s \in Seq(S), s # <<>>
  PROVE  /\ \A i \in DOMAIN s : s[i] = Head(s) \/ \E j \in DOMAIN Tail(s) : Tail(s)[j] = s[i]
         /\ \E i \in DOMAIN s : s[i] = Head(s)
<1>1. DOMAIN s = 1 .. Len(s) /\ Len(s) \in Nat \ {0} /\ DOMAIN Tail(s) = 1 .. Len(s) - 1
  OBVIOUS
<1>2. s[1] = Head(s) /\ \A j \in DOMAIN Tail(s) : Tail(s)[j] = s[j + 1]
  OBVIOUS
<1>3. ASSUME NEW i \in DOMAIN s, i # 1 PROVE \E j \in DOMAIN Tail(s) : Tail(s)[j] = s[i]
  <2>1. i - 1 \in DOMAIN Tail(s) /\ (i - 1) + 1 = i
    BY <1>1, <1>3
  <2>2. Tail(s)[i - 1] = s[i]
    BY <1>2, <2>1
  <2>3. QED
    BY <2>1, <2>2
<1>4. QED
  BY <1>1, <1>2, <1>3

\* A push puts its PCB in the queue and takes nobody out of any.
LEMMA PushSigue ==
  ASSUME TypeOK, NEW c \in Colas, NEW q \in Procesos, Push(c, q)
  PROVE  EnCola(c, q)' /\ \A d \in Colas : \A p : EnCola(d, p) => EnCola(d, p)'
<1>1. cola \in [Colas -> Seq(Procesos)]
  BY DEF TypeOK, TiposDatos
<1>2. cola[c] \in Seq(Procesos) /\ cola'[c] = Append(cola[c], q) /\ \A d \in Colas : d # c => cola'[d] = cola[d]
  BY <1>1 DEF Push
<1>3. /\ \A i \in DOMAIN cola[c] : i \in DOMAIN cola'[c] /\ cola'[c][i] = cola[c][i]
      /\ \E i \in DOMAIN cola'[c] : cola'[c][i] = q
  BY <1>2, SigueAlAgregar
<1>4. QED
  BY <1>2, <1>3 DEF EnCola

\* A pop takes out the first PCB; all the others stay in their queues.
LEMMA PopSigue ==
  ASSUME TypeOK, NEW c \in Colas, NEW h \in Hilos, Pop(c, h), NEW q, q = Head(cola[c])
  PROVE  /\ EnCola(c, q) /\ q \in Procesos /\ suyo'[h] = q
         /\ \A d \in Colas : \A p : p # q /\ EnCola(d, p) => EnCola(d, p)'
<1>1. cola \in [Colas -> Seq(Procesos)] /\ suyo \in [Hilos -> Procesos \union {Nadie}]
  BY DEF TypeOK, TiposDatos
<1>2. /\ cola[c] \in Seq(Procesos) /\ cola[c] # <<>>
      /\ cola'[c] = Tail(cola[c]) /\ \A d \in Colas : d # c => cola'[d] = cola[d]
  BY <1>1 DEF Pop
<1>3. /\ \A i \in DOMAIN cola[c] : cola[c][i] = q \/ \E j \in DOMAIN cola'[c] : cola'[c][j] = cola[c][i]
      /\ \E i \in DOMAIN cola[c] : cola[c][i] = q
  BY <1>2, SigueAlSacar
<1>4. q \in Procesos /\ suyo'[h] = q
  BY <1>1, <1>2 DEF Pop, Guarda
<1>5. QED
  BY <1>2, <1>3, <1>4 DEF EnCola

----------------------------------------------------------------------------
\* Process q moves from a place to another and the others stay where they are;
\* every process stays where it is.
Pasa(q, de, a) ==
  /\ q \in Procesos /\ EstaEn(de, q) /\ EstaEn(a, q)'
  /\ \A p \in Procesos : p # q => \A s : EstaEn(s, p) => EstaEn(s, p)'

NadiePasa == \A p \in Procesos : \A s : EstaEn(s, p) => EstaEn(s, p)'

EnDespacho(p) == \E i \in DOMAIN despacho : despacho[i] = p
EnRetorno(p)  == \E i \in DOMAIN retorno : retorno[i].p = p

\* A step that changes, at most, where q is.
LEMMA LosOtrosSiguen ==
  ASSUME NEW q,
         \A g \in Hilos : hilo[g] \in Trabajos /\ suyo[g] \in Procesos /\ suyo[g] # q
                           => hilo'[g] = hilo[g] /\ suyo'[g] = suyo[g],
         \A p \in Procesos : p # q =>
            /\ \A c \in Colas : EnCola(c, p) => EnCola(c, p)'
            /\ EnDespacho(p) => EnDespacho(p)'
            /\ EnRetorno(p) => EnRetorno(p)'
            /\ p \in afuera => p \in afuera'
            /\ memoria[p] = "eliminado" => memoria'[p] = "eliminado"
  PROVE  \A p \in Procesos : p # q => \A s : EstaEn(s, p) => EstaEn(s, p)'
<1> SUFFICES ASSUME NEW p \in Procesos, p # q, NEW s, EstaEn(s, p) PROVE EstaEn(s, p)'
  OBVIOUS
<1>1. ASSUME s \in Trabajos, NEW h \in Hilos, hilo[h] = s, suyo[h] = p PROVE EstaEn(s, p)'
  <2>1. hilo'[h] = s /\ suyo'[h] = p
    BY <1>1
  <2>2. QED
    BY <1>1, <2>1 DEF EstaEn
<1>2. QED
  BY <1>1 DEF EstaEn, EnDespacho, EnRetorno

\* When the process moves, and where it was, nothing else is true.
LEMMA DePasa ==
  ASSUME UnSitio, UnSitio', NEW q, NEW de, NEW a, Pasa(q, de, a)
  PROVE  /\ q \in Procesos
         /\ \A s : EstaEn(s, q) <=> s = de
         /\ \A s : EstaEn(s, q)' <=> s = a
         /\ \A p \in Procesos : p # q => \A s : EstaEn(s, p)' <=> EstaEn(s, p)
<1>1. /\ q \in Procesos /\ EstaEn(de, q) /\ EstaEn(a, q)'
      /\ \A p \in Procesos : p # q => \A s : EstaEn(s, p) => EstaEn(s, p)'
  BY DEF Pasa
<1>2. \A p \in Procesos : \E s : \A t : EstaEn(t, p) <=> t = s
  BY DEF UnSitio
<1>3. \A p \in Procesos : \E s : \A t : EstaEn(t, p)' <=> t = s
  BY DEF UnSitio
<1>4. ASSUME NEW p \in Procesos, p # q PROVE \A s : EstaEn(s, p)' <=> EstaEn(s, p)
  <2>1. PICK s : \A t : EstaEn(t, p) <=> t = s
    BY <1>2
  <2>2. PICK r : \A t : EstaEn(t, p)' <=> t = r
    BY <1>3
  <2>3. r = s
    BY <1>1, <1>4, <2>1, <2>2
  <2>4. QED
    BY <2>1, <2>2, <2>3
<1>5. QED
  BY <1>1, <1>2, <1>3, <1>4

\* If nobody moves, everyone is where it was.
LEMMA DeNadiePasa ==
  ASSUME UnSitio, UnSitio', NadiePasa
  PROVE  \A p \in Procesos : \A s : EstaEn(s, p)' <=> EstaEn(s, p)
<1>2. \A p \in Procesos : \E s : \A t : EstaEn(t, p) <=> t = s
  BY DEF UnSitio
<1>3. \A p \in Procesos : \E s : \A t : EstaEn(t, p)' <=> t = s
  BY DEF UnSitio
<1>4. ASSUME NEW p \in Procesos PROVE \A s : EstaEn(s, p)' <=> EstaEn(s, p)
  <2>1. PICK s : \A t : EstaEn(t, p) <=> t = s
    BY <1>2
  <2>2. PICK r : \A t : EstaEn(t, p)' <=> t = r
    BY <1>3
  <2>3. r = s
    BY <2>1, <2>2 DEF NadiePasa
  <2>4. QED
    BY <2>1, <2>2, <2>3
<1>5. QED
  BY <1>4

----------------------------------------------------------------------------
\* The moves of each thread, with what they tell memory and write
\* in process_state.
VentanaIgual == \A p : EnLaVentana(p)' <=> EnLaVentana(p)
MemoriaIgual == UNCHANGED <<memoria, estado>>

\* A PCB in the hands of a thread that works on it.
LEMMA EnManoEsta ==
  ASSUME NEW h \in Hilos, NEW p, suyo[h] = p, hilo[h] \in Trabajos
  PROVE  EstaEn(hilo[h], p)
BY DEF EstaEn

\* A PCB in the hands of a thread is at the place of what the thread does.
LEMMA EnManoEstaDespues ==
  ASSUME NEW h \in Hilos, NEW p, NEW s \in Trabajos, suyo'[h] = p, hilo'[h] = s
  PROVE  EstaEn(s, p)'
BY DEF EstaEn

\* No thread that works on a PCB moves, and the queues stay.
LEMMA SiNadieTrabaja ==
  ASSUME \A g \in Hilos : hilo[g] \in Trabajos /\ suyo[g] \in Procesos
                           => hilo'[g] = hilo[g] /\ suyo'[g] = suyo[g],
         UNCHANGED <<cola, despacho, retorno, afuera, memoria>>
  PROVE  NadiePasa
<1>1. \A p \in Procesos : p # Nadie =>
         /\ \A c \in Colas : EnCola(c, p) => EnCola(c, p)'
         /\ EnDespacho(p) => EnDespacho(p)'
         /\ EnRetorno(p) => EnRetorno(p)'
         /\ p \in afuera => p \in afuera'
         /\ memoria[p] = "eliminado" => memoria'[p] = "eliminado"
  BY DEF EnCola, EnDespacho, EnRetorno
<1>2. \A p \in Procesos : p # Nadie => \A s : EstaEn(s, p) => EstaEn(s, p)'
  BY <1>1, LosOtrosSiguen
<1>3. QED
  BY <1>2, ProcesosAssumption DEF NadiePasa

\* From its console to new.
LEMMA PasaRecibir ==
  ASSUME TypeOK, ManosVacias, NEW q \in Procesos, Recibir(q)
  PROVE  Pasa(q, "afuera", "new") /\ MemoriaIgual /\ VentanaIgual
<1>v. /\ hilo \in [Hilos -> Pcs] /\ suyo \in [Hilos -> Procesos \union {Nadie}]
      /\ cola \in [Colas -> Seq(Procesos)] /\ despacho \in Seq(Procesos)
      /\ retorno \in Seq(Mensajes) /\ memoria \in [Procesos -> Memorias]
      /\ estado \in [Procesos -> Estados] /\ ManosLlenas /\ Nadie \notin Procesos
  BY ProcesosAssumption DEF TypeOK, TiposHilos, TiposDatos
<1>1. /\ Push("new", q) /\ q \in afuera /\ afuera' = afuera \ {q}
      /\ UNCHANGED <<hilo, suyo, despacho, retorno, memoria, estado>>
  BY DEF Recibir, sinCpu, sinMemoria
<1>2. EnCola("new", q)' /\ \A c \in Colas : \A p : EnCola(c, p) => EnCola(c, p)'
  BY <1>1, PushSigue DEF Colas
<1>3. \A p \in Procesos : p # q => \A s : EstaEn(s, p) => EstaEn(s, p)'
  BY <1>1, <1>2, LosOtrosSiguen DEF EnDespacho, EnRetorno
<1>4. EstaEn("afuera", q) /\ EstaEn("new", q)'
  BY <1>1, <1>2 DEF EstaEn, Colas
<1>5. QED
  BY <1>1, <1>3, <1>4 DEF Pasa, MemoriaIgual, VentanaIgual, EnLaVentana

\* From susReady to the hands of the long-term scheduler.
LEMMA PasaMiraSus ==
  ASSUME TypeOK, ManosVacias, NEW q, q = Head(cola["susReady"]), LargoMiraSus, cola["susReady"] # <<>>
  PROVE  Pasa(q, "susReady", "reanudar") /\ MemoriaIgual /\ VentanaIgual
<1>v. /\ hilo \in [Hilos -> Pcs] /\ suyo \in [Hilos -> Procesos \union {Nadie}]
      /\ cola \in [Colas -> Seq(Procesos)] /\ despacho \in Seq(Procesos)
      /\ retorno \in Seq(Mensajes) /\ memoria \in [Procesos -> Memorias]
      /\ estado \in [Procesos -> Estados] /\ ManosLlenas /\ Nadie \notin Procesos
  BY ProcesosAssumption DEF TypeOK, TiposHilos, TiposDatos
<1>1. Paso("largo", "mirar_sus", "reanudar") /\ Pop("susReady", "largo")
  BY DEF LargoMiraSus
<1>2. /\ UNCHANGED <<afuera, despacho, retorno, memoria, estado>> /\ suyo["largo"] = Nadie
      /\ hilo'["largo"] = "reanudar" /\ (\A g \in Hilos : g # "largo" => hilo'[g] = hilo[g] /\ suyo'[g] = suyo[g])
  BY <1>v, <1>1, DePaso DEF LargoMiraSus, Pop, Guarda, ManosVacias, Hilos, sinCpu, sinMemoria, sinLlegada
<1>3. /\ EnCola("susReady", q) /\ q \in Procesos /\ suyo'["largo"] = q
      /\ \A c \in Colas : \A p : p # q /\ EnCola(c, p) => EnCola(c, p)'
  BY <1>1, PopSigue DEF Colas, Hilos
<1>4. \A p \in Procesos : p # q => \A s : EstaEn(s, p) => EstaEn(s, p)'
  BY <1>v, <1>2, <1>3, LosOtrosSiguen DEF EnDespacho, EnRetorno
<1>5. EstaEn("susReady", q) /\ EstaEn("reanudar", q)'
  <2>1. EstaEn("susReady", q)
    BY <1>3 DEF EstaEn, Colas
  <2>2. EstaEn("reanudar", q)'
    BY <1>2, <1>3, EnManoEstaDespues DEF Trabajos, Hilos
  <2>3. QED
    BY <2>1, <2>2
<1>6. Pasa(q, "susReady", "reanudar")
  BY <1>3, <1>4, <1>5 DEF Pasa
<1>7. QED
  BY <1>2, <1>6 DEF MemoriaIgual, VentanaIgual, EnLaVentana, Hilos

\* From new to the hands of the long-term scheduler.
LEMMA PasaMiraNew ==
  ASSUME TypeOK, ManosVacias, NEW q, q = Head(cola["new"]), LargoMiraNew, cola["new"] # <<>>
  PROVE  Pasa(q, "new", "crear") /\ MemoriaIgual /\ VentanaIgual
<1>v. /\ hilo \in [Hilos -> Pcs] /\ suyo \in [Hilos -> Procesos \union {Nadie}]
      /\ cola \in [Colas -> Seq(Procesos)] /\ despacho \in Seq(Procesos)
      /\ retorno \in Seq(Mensajes) /\ memoria \in [Procesos -> Memorias]
      /\ estado \in [Procesos -> Estados] /\ ManosLlenas /\ Nadie \notin Procesos
  BY ProcesosAssumption DEF TypeOK, TiposHilos, TiposDatos
<1>1. Paso("largo", "mirar_new", "crear") /\ Pop("new", "largo")
  BY DEF LargoMiraNew
<1>2. /\ UNCHANGED <<afuera, despacho, retorno, memoria, estado>> /\ suyo["largo"] = Nadie
      /\ hilo'["largo"] = "crear" /\ (\A g \in Hilos : g # "largo" => hilo'[g] = hilo[g] /\ suyo'[g] = suyo[g])
  BY <1>v, <1>1, DePaso DEF LargoMiraNew, Pop, Guarda, ManosVacias, Hilos, sinCpu, sinMemoria, sinLlegada
<1>3. /\ EnCola("new", q) /\ q \in Procesos /\ suyo'["largo"] = q
      /\ \A c \in Colas : \A p : p # q /\ EnCola(c, p) => EnCola(c, p)'
  BY <1>1, PopSigue DEF Colas, Hilos
<1>4. \A p \in Procesos : p # q => \A s : EstaEn(s, p) => EstaEn(s, p)'
  BY <1>v, <1>2, <1>3, LosOtrosSiguen DEF EnDespacho, EnRetorno
<1>5. EstaEn("new", q) /\ EstaEn("crear", q)'
  <2>1. EstaEn("new", q)
    BY <1>3 DEF EstaEn, Colas
  <2>2. EstaEn("crear", q)'
    BY <1>2, <1>3, EnManoEstaDespues DEF Trabajos, Hilos
  <2>3. QED
    BY <2>1, <2>2
<1>6. Pasa(q, "new", "crear")
  BY <1>3, <1>4, <1>5 DEF Pasa
<1>7. QED
  BY <1>2, <1>6 DEF MemoriaIgual, VentanaIgual, EnLaVentana, Hilos

\* From cola_de_io to the hands of dispositivo_io.
LEMMA PasaVence ==
  ASSUME TypeOK, ManosVacias, NEW q, q = Head(cola["io"]), GestorVence
  PROVE  Pasa(q, "io", "suspender") /\ MemoriaIgual /\ VentanaIgual
<1>v. /\ hilo \in [Hilos -> Pcs] /\ suyo \in [Hilos -> Procesos \union {Nadie}]
      /\ cola \in [Colas -> Seq(Procesos)] /\ despacho \in Seq(Procesos)
      /\ retorno \in Seq(Mensajes) /\ memoria \in [Procesos -> Memorias]
      /\ estado \in [Procesos -> Estados] /\ ManosLlenas /\ Nadie \notin Procesos
  BY ProcesosAssumption DEF TypeOK, TiposHilos, TiposDatos
<1>1. Paso("gestor", "rotar", "suspender") /\ Pop("io", "gestor")
  BY DEF GestorVence
<1>2. /\ UNCHANGED <<afuera, despacho, retorno, memoria, estado>> /\ suyo["gestor"] = Nadie
      /\ hilo'["gestor"] = "suspender" /\ (\A g \in Hilos : g # "gestor" => hilo'[g] = hilo[g] /\ suyo'[g] = suyo[g])
  BY <1>v, <1>1, DePaso DEF GestorVence, Pop, Guarda, ManosVacias, Hilos, sinCpu, sinMemoria, sinLlegada
<1>3. /\ EnCola("io", q) /\ q \in Procesos /\ suyo'["gestor"] = q
      /\ \A c \in Colas : \A p : p # q /\ EnCola(c, p) => EnCola(c, p)'
  BY <1>1, PopSigue DEF Colas, Hilos
<1>4. \A p \in Procesos : p # q => \A s : EstaEn(s, p) => EstaEn(s, p)'
  BY <1>v, <1>2, <1>3, LosOtrosSiguen DEF EnDespacho, EnRetorno
<1>5. EstaEn("io", q) /\ EstaEn("suspender", q)'
  <2>1. EstaEn("io", q)
    BY <1>3 DEF EstaEn, Colas
  <2>2. EstaEn("suspender", q)'
    BY <1>2, <1>3, EnManoEstaDespues DEF Trabajos, Hilos
  <2>3. QED
    BY <2>1, <2>2
<1>6. Pasa(q, "io", "suspender")
  BY <1>3, <1>4, <1>5 DEF Pasa
<1>7. QED
  BY <1>2, <1>6 DEF MemoriaIgual, VentanaIgual, EnLaVentana, Hilos

\* From cola_de_io to the device.
LEMMA PasaUsaDispositivo ==
  ASSUME TypeOK, ManosVacias, Cuentas, NEW q, q = Head(cola["io"]), GestorUsaDispositivo
  PROVE  Pasa(q, "io", "leer") /\ MemoriaIgual /\ VentanaIgual
<1>v. /\ hilo \in [Hilos -> Pcs] /\ suyo \in [Hilos -> Procesos \union {Nadie}]
      /\ cola \in [Colas -> Seq(Procesos)] /\ despacho \in Seq(Procesos)
      /\ retorno \in Seq(Mensajes) /\ memoria \in [Procesos -> Memorias]
      /\ estado \in [Procesos -> Estados] /\ ManosLlenas /\ Nadie \notin Procesos
  BY ProcesosAssumption DEF TypeOK, TiposHilos, TiposDatos
<1>1. Pop("io", "disp") /\ hilo["gestor"] = "tomar" /\ sem["dispositivo"] > 0
  BY DEF GestorUsaDispositivo, En, SemWait
<1>d. hilo["disp"] = "libre"
  <2>1. DispActivo \in {0, 1} /\ (DispActivo = 1 <=> hilo["disp"] # "libre")
    BY DEF DispActivo, Uno
  <2>2. sem["dispositivo"] \in Nat
    BY DEF TypeOK, TiposDatos, Semaforos
  <2>3. QED
    BY <1>1, <2>1, <2>2 DEF Cuentas, DispositivoUnico
<1>2. /\ UNCHANGED <<afuera, despacho, retorno, memoria, estado>>
      /\ suyo["disp"] = Nadie /\ suyo["gestor"] = Nadie
      /\ hilo'["disp"] = "leer"
      /\ (\A g \in Hilos : g # "disp" => suyo'[g] = suyo[g])
      /\ (\A g \in Hilos : g \notin {"gestor", "disp"} => hilo'[g] = hilo[g])
  BY <1>v, <1>1, <1>d DEF GestorUsaDispositivo, Pop, Guarda, ManosVacias, Hilos, sinCpu, sinMemoria, sinLlegada
<1>3. /\ EnCola("io", q) /\ q \in Procesos /\ suyo'["disp"] = q
      /\ \A c \in Colas : \A p : p # q /\ EnCola(c, p) => EnCola(c, p)'
  BY <1>1, PopSigue DEF Colas, Hilos
<1>4. \A p \in Procesos : p # q => \A s : EstaEn(s, p) => EstaEn(s, p)'
  <2>1. \A g \in Hilos : hilo[g] \in Trabajos /\ suyo[g] \in Procesos /\ suyo[g] # q
                         => hilo'[g] = hilo[g] /\ suyo'[g] = suyo[g]
    BY <1>v, <1>2
  <2>2. \A p \in Procesos : p # q =>
          /\ \A c \in Colas : EnCola(c, p) => EnCola(c, p)'
          /\ EnDespacho(p) => EnDespacho(p)'
          /\ EnRetorno(p) => EnRetorno(p)'
          /\ p \in afuera => p \in afuera'
          /\ memoria[p] = "eliminado" => memoria'[p] = "eliminado"
    BY <1>2, <1>3 DEF EnDespacho, EnRetorno
  <2>3. QED
    BY <2>1, <2>2, LosOtrosSiguen
<1>5. EstaEn("io", q) /\ EstaEn("leer", q)'
  <2>1. EstaEn("io", q)
    BY <1>3 DEF EstaEn, Colas
  <2>2. EstaEn("leer", q)'
    BY <1>2, <1>3, EnManoEstaDespues DEF Trabajos, Hilos
  <2>3. QED
    BY <2>1, <2>2
<1>6. Pasa(q, "io", "leer")
  BY <1>3, <1>4, <1>5 DEF Pasa
<1>7. QED
  BY <1>2, <1>6 DEF MemoriaIgual, VentanaIgual, EnLaVentana, Hilos

\* From the hands of the long-term scheduler to ready.
LEMMA PasaAReady ==
  ASSUME TypeOK, ManosVacias, NEW q, q = suyo["largo"],
         NEW de \in {"reanudar", "crear"}, NEW a, AReady(de, a)
  PROVE  /\ Pasa(q, de, "ready")
         /\ memoria' = [memoria EXCEPT ![q] = "activo"] /\ UNCHANGED estado /\ VentanaIgual
<1>v. /\ hilo \in [Hilos -> Pcs] /\ suyo \in [Hilos -> Procesos \union {Nadie}]
      /\ cola \in [Colas -> Seq(Procesos)] /\ despacho \in Seq(Procesos)
      /\ retorno \in Seq(Mensajes) /\ memoria \in [Procesos -> Memorias]
      /\ estado \in [Procesos -> Estados] /\ ManosLlenas /\ Nadie \notin Procesos
  BY ProcesosAssumption DEF TypeOK, TiposHilos, TiposDatos
<1>1. /\ Push("ready", q) /\ hilo["largo"] = de /\ memoria' = [memoria EXCEPT ![q] = "activo"]
      /\ UNCHANGED <<afuera, despacho, retorno, estado>>
      /\ \A g \in Hilos : g # "largo" => hilo'[g] = hilo[g] /\ suyo'[g] = suyo[g]
  BY <1>v, DePaso DEF AReady, Guarda, Hilos, sinCpu, sinMemoria, sinLlegada
<1>2. q \in Procesos
  BY <1>v, <1>1 DEF ManosLlenas
<1>3. EnCola("ready", q)' /\ \A c \in Colas : \A p : EnCola(c, p) => EnCola(c, p)'
  BY <1>1, <1>2, PushSigue DEF Colas
<1>4. EstaEn(de, q) /\ EstaEn("ready", q)'
  BY <1>1, <1>2, <1>3 DEF EstaEn, Colas, Trabajos, Hilos
<1>5. \A p \in Procesos : p # q => \A s : EstaEn(s, p) => EstaEn(s, p)'
  <2>1. \A p \in Procesos : p # q => (memoria[p] = "eliminado" => memoria'[p] = "eliminado")
    BY <1>v, <1>1
  <2>2. \A g \in Hilos : suyo[g] # q => hilo'[g] = hilo[g] /\ suyo'[g] = suyo[g]
    BY <1>1
  <2>3. QED
    BY <1>1, <1>3, <2>1, <2>2, LosOtrosSiguen DEF EnDespacho, EnRetorno
<1>6. QED
  BY <1>1, <1>2, <1>4, <1>5 DEF Pasa, VentanaIgual, EnLaVentana, Hilos

\* From ready to the connection with the CPU.
LEMMA PasaElige ==
  ASSUME TypeOK, ManosVacias, cola["ready"] # <<>>,
         NEW q, q = Head(cola["ready"]), CortoElige
  PROVE  Pasa(q, "ready", "despacho") /\ MemoriaIgual /\ VentanaIgual
<1>v. /\ hilo \in [Hilos -> Pcs] /\ suyo \in [Hilos -> Procesos \union {Nadie}]
      /\ cola \in [Colas -> Seq(Procesos)] /\ despacho \in Seq(Procesos)
      /\ retorno \in Seq(Mensajes) /\ memoria \in [Procesos -> Memorias]
      /\ estado \in [Procesos -> Estados] /\ ManosLlenas /\ Nadie \notin Procesos
  BY ProcesosAssumption DEF TypeOK, TiposHilos, TiposDatos
<1>1. /\ despacho' = Append(despacho, q) /\ cola' = [cola EXCEPT !["ready"] = Tail(@)]
      /\ UNCHANGED <<afuera, suyo, retorno, memoria, estado>> /\ suyo["corto"] = Nadie
      /\ \A g \in Hilos : g # "corto" => hilo'[g] = hilo[g]
  BY <1>v, DePaso DEF CortoElige, Hilos, sinMemoria, sinLlegada, ManosVacias
<1>2. /\ cola["ready"] \in Seq(Procesos) /\ q \in Procesos /\ cola'["ready"] = Tail(cola["ready"])
      /\ \A c \in Colas : c # "ready" => cola'[c] = cola[c]
  BY <1>v, <1>1 DEF Colas
<1>3. EnCola("ready", q) /\ \A c \in Colas : \A p : p # q /\ EnCola(c, p) => EnCola(c, p)'
  <2>1. /\ \A i \in DOMAIN cola["ready"] :
              cola["ready"][i] = q \/ \E j \in DOMAIN cola'["ready"] : cola'["ready"][j] = cola["ready"][i]
        /\ \E i \in DOMAIN cola["ready"] : cola["ready"][i] = q
    BY <1>2, SigueAlSacar
  <2>2. QED
    BY <1>2, <2>1 DEF EnCola
<1>4. EnDespacho(q)' /\ \A p : EnDespacho(p) => EnDespacho(p)'
  <2>1. /\ \A i \in DOMAIN despacho : i \in DOMAIN despacho' /\ despacho'[i] = despacho[i]
        /\ \E i \in DOMAIN despacho' : despacho'[i] = q
    <3>1. despacho \in Seq(Procesos) /\ q \in Procesos /\ despacho' = Append(despacho, q)
      BY <1>v, <1>1, <1>2
    <3>2. QED
      BY <3>1, SigueAlAgregar
  <2>2. QED
    BY <2>1 DEF EnDespacho
<1>5. EstaEn("ready", q) /\ EstaEn("despacho", q)'
  BY <1>3, <1>4 DEF EstaEn, EnDespacho, Colas
<1>6. \A p \in Procesos : p # q => \A s : EstaEn(s, p) => EstaEn(s, p)'
  BY <1>v, <1>1, <1>3, <1>4, LosOtrosSiguen DEF EnRetorno
<1>7. Pasa(q, "ready", "despacho")
  BY <1>2, <1>5, <1>6 DEF Pasa
<1>8. QED
  BY <1>1, <1>7 DEF MemoriaIgual, VentanaIgual, EnLaVentana, Hilos

\* From the connection to the CPU.
LEMMA PasaCpuRecibe ==
  ASSUME TypeOK, ManosVacias, NEW q, q = Head(despacho), CpuRecibe
  PROVE  Pasa(q, "despacho", "corre") /\ MemoriaIgual /\ VentanaIgual
<1>v. /\ hilo \in [Hilos -> Pcs] /\ suyo \in [Hilos -> Procesos \union {Nadie}]
      /\ cola \in [Colas -> Seq(Procesos)] /\ despacho \in Seq(Procesos)
      /\ retorno \in Seq(Mensajes) /\ memoria \in [Procesos -> Memorias]
      /\ estado \in [Procesos -> Estados] /\ ManosLlenas /\ Nadie \notin Procesos
  BY ProcesosAssumption DEF TypeOK, TiposHilos, TiposDatos
<1>1. /\ despacho # <<>> /\ despacho' = Tail(despacho) /\ q \in Procesos
      /\ UNCHANGED <<afuera, cola, retorno, memoria, estado>> /\ suyo["cpu"] = Nadie
      /\ hilo'["cpu"] = "corre" /\ suyo'["cpu"] = q
      /\ \A g \in Hilos : g # "cpu" => hilo'[g] = hilo[g] /\ suyo'[g] = suyo[g]
  BY <1>v, DePaso DEF CpuRecibe, Guarda, Hilos, sinMemoria, sinLlegada, ManosVacias
<1>2. EnDespacho(q) /\ \A p : p # q /\ EnDespacho(p) => EnDespacho(p)'
  <2>1. /\ \A i \in DOMAIN despacho : despacho[i] = q \/ \E j \in DOMAIN despacho' : despacho'[j] = despacho[i]
        /\ \E i \in DOMAIN despacho : despacho[i] = q
    BY <1>v, <1>1, SigueAlSacar
  <2>2. QED
    BY <2>1 DEF EnDespacho
<1>3. \A p \in Procesos : p # q => \A s : EstaEn(s, p) => EstaEn(s, p)'
  BY <1>v, <1>1, <1>2, LosOtrosSiguen DEF EnCola, EnRetorno
<1>4. EstaEn("despacho", q) /\ EstaEn("corre", q)'
  <2>1. EstaEn("despacho", q)
    BY <1>2 DEF EstaEn, EnDespacho
  <2>2. EstaEn("corre", q)'
    BY <1>1, EnManoEstaDespues DEF Trabajos, Hilos
  <2>3. QED
    BY <2>1, <2>2
<1>5. Pasa(q, "despacho", "corre")
  BY <1>1, <1>3, <1>4 DEF Pasa
<1>6. QED
  BY <1>1, <1>5 DEF MemoriaIgual, VentanaIgual, EnLaVentana, Hilos

\* From the CPU to the connection back.
LEMMA PasaCpuDevuelve ==
  ASSUME TypeOK, ManosVacias, NEW q, q = suyo["cpu"],
         NEW op \in {"io", "exit"}, CpuDevuelve(op)
  PROVE  Pasa(q, "corre", "retorno") /\ MemoriaIgual /\ VentanaIgual
<1>v. /\ hilo \in [Hilos -> Pcs] /\ suyo \in [Hilos -> Procesos \union {Nadie}]
      /\ cola \in [Colas -> Seq(Procesos)] /\ despacho \in Seq(Procesos)
      /\ retorno \in Seq(Mensajes) /\ memoria \in [Procesos -> Memorias]
      /\ estado \in [Procesos -> Estados] /\ ManosLlenas /\ Nadie \notin Procesos
  BY ProcesosAssumption DEF TypeOK, TiposHilos, TiposDatos
<1> DEFINE m == [op |-> op, p |-> q]
<1>1. /\ retorno' = Append(retorno, m) /\ hilo["cpu"] = "corre"
      /\ UNCHANGED <<afuera, cola, despacho, memoria, estado>>
      /\ \A g \in Hilos : g # "cpu" => hilo'[g] = hilo[g] /\ suyo'[g] = suyo[g]
  BY <1>v, DePaso DEF CpuDevuelve, Guarda, Hilos, sinMemoria, sinLlegada
<1>2. q \in Procesos
  BY <1>v, <1>1 DEF ManosLlenas
<1>3. EnRetorno(q)' /\ \A p : EnRetorno(p) => EnRetorno(p)'
  <2>1. m \in Mensajes /\ m.p = q
    BY <1>2 DEF Mensajes
  <2> HIDE DEF m
  <2>2. /\ \A i \in DOMAIN retorno : i \in DOMAIN retorno' /\ retorno'[i] = retorno[i]
        /\ \E i \in DOMAIN retorno' : retorno'[i] = m
    <3>1. retorno \in Seq(Mensajes) /\ m \in Mensajes /\ retorno' = Append(retorno, m)
      BY <1>v, <1>1, <2>1 DEF m
    <3>2. QED
      BY <3>1, SigueAlAgregar
  <2>3. QED
    BY <2>1, <2>2 DEF EnRetorno
<1>4. EstaEn("corre", q) /\ EstaEn("retorno", q)'
  BY <1>1, <1>2, <1>3 DEF EstaEn, EnRetorno, Trabajos, Hilos
<1>5. \A p \in Procesos : p # q => \A s : EstaEn(s, p) => EstaEn(s, p)'
  <2>1. \A g \in Hilos : suyo[g] # q => hilo'[g] = hilo[g] /\ suyo'[g] = suyo[g]
    BY <1>1
  <2>2. QED
    BY <1>1, <1>3, <2>1, LosOtrosSiguen DEF EnDespacho, EnCola
<1>6. QED
  BY <1>1, <1>2, <1>4, <1>5 DEF Pasa, MemoriaIgual, VentanaIgual, EnLaVentana, Hilos

\* From the connection to the hands of recibir_pcb_de_cpu.
LEMMA PasaMensaje ==
  ASSUME TypeOK, ManosVacias, NEW q, q = Head(retorno).p, RecibeMensaje
  PROVE  (Pasa(q, "retorno", "encolar_io") \/ Pasa(q, "retorno", "finalizar")) /\ MemoriaIgual /\ VentanaIgual
<1>v. /\ hilo \in [Hilos -> Pcs] /\ suyo \in [Hilos -> Procesos \union {Nadie}]
      /\ cola \in [Colas -> Seq(Procesos)] /\ despacho \in Seq(Procesos)
      /\ retorno \in Seq(Mensajes) /\ memoria \in [Procesos -> Memorias]
      /\ estado \in [Procesos -> Estados] /\ ManosLlenas /\ Nadie \notin Procesos
  BY ProcesosAssumption DEF TypeOK, TiposHilos, TiposDatos
<1>1. /\ retorno # <<>> /\ retorno' = Tail(retorno)
      /\ UNCHANGED <<afuera, cola, despacho, memoria, estado>> /\ suyo["recibe"] = Nadie
      /\ hilo["recibe"] = "recv" /\ hilo'["recibe"] \in {"encolar_io", "finalizar"} /\ suyo'["recibe"] = q
      /\ \A g \in Hilos : g # "recibe" => hilo'[g] = hilo[g] /\ suyo'[g] = suyo[g]
  BY <1>v, DePaso DEF RecibeMensaje, Guarda, Hilos, sinMemoria, sinLlegada, ManosVacias
<1>2. Head(retorno) \in Mensajes /\ q \in Procesos
  <2>1. Head(retorno) \in Mensajes
    BY <1>v, <1>1
  <2>2. QED
    BY <2>1 DEF Mensajes
<1>3. EnRetorno(q) /\ \A p : p # q /\ EnRetorno(p) => EnRetorno(p)'
  <2>1. /\ \A i \in DOMAIN retorno : retorno[i] = Head(retorno) \/ \E j \in DOMAIN retorno' : retorno'[j] = retorno[i]
        /\ \E i \in DOMAIN retorno : retorno[i] = Head(retorno)
    BY <1>v, <1>1, SigueAlSacar
  <2>2. QED
    BY <2>1 DEF EnRetorno
<1>4. \A p \in Procesos : p # q => \A s : EstaEn(s, p) => EstaEn(s, p)'
  BY <1>v, <1>1, <1>3, LosOtrosSiguen DEF EnCola, EnDespacho
<1>5. EstaEn("retorno", q)
  BY <1>3 DEF EstaEn, EnRetorno
<1>6. EstaEn("encolar_io", q)' \/ EstaEn("finalizar", q)'
  BY <1>1, EnManoEstaDespues DEF Trabajos, Hilos
<1>7. QED
  BY <1>1, <1>2, <1>4, <1>5, <1>6 DEF Pasa, MemoriaIgual, VentanaIgual, EnLaVentana

\* From recibir_pcb_de_cpu to cola_de_io, before its new process_state.
LEMMA PasaEncola ==
  ASSUME TypeOK, ManosVacias, NEW q, q = suyo["recibe"], RecibeEncola
  PROVE  /\ Pasa(q, "encolar_io", "io") /\ MemoriaIgual
         /\ \A p : ~EnLaVentana(p) /\ (EnLaVentana(p)' <=> p = q)
<1>v. /\ hilo \in [Hilos -> Pcs] /\ suyo \in [Hilos -> Procesos \union {Nadie}]
      /\ cola \in [Colas -> Seq(Procesos)] /\ despacho \in Seq(Procesos)
      /\ retorno \in Seq(Mensajes) /\ memoria \in [Procesos -> Memorias]
      /\ estado \in [Procesos -> Estados] /\ ManosLlenas /\ Nadie \notin Procesos
  BY ProcesosAssumption DEF TypeOK, TiposHilos, TiposDatos
<1>1. /\ Push("io", q) /\ hilo["recibe"] = "encolar_io"
      /\ UNCHANGED <<afuera, despacho, retorno>>
      /\ UNCHANGED <<suyo, memoria, estado>> /\ hilo'["recibe"] = "marcar"
      /\ \A g \in Hilos : g # "recibe" => hilo'[g] = hilo[g] /\ suyo'[g] = suyo[g]
  BY <1>v, DePaso DEF RecibeEncola, Hilos, sinCpu, sinMemoria, sinLlegada
<1>2. q \in Procesos
  BY <1>v, <1>1 DEF ManosLlenas
<1>3. EnCola("io", q)' /\ \A c \in Colas : \A p : EnCola(c, p) => EnCola(c, p)'
  BY <1>1, <1>2, PushSigue DEF Colas
<1>4. EstaEn("encolar_io", q)
  BY <1>1, EnManoEsta DEF Trabajos, Hilos
<1>5. EstaEn("io", q)'
  BY <1>3 DEF EstaEn, Colas
<1>6. \A p \in Procesos : p # q => \A s : EstaEn(s, p) => EstaEn(s, p)'
  <2>1. \A p \in Procesos : p # q => (memoria[p] = "eliminado" => memoria'[p] = "eliminado")
    BY <1>v, <1>1
  <2>2. \A g \in Hilos : suyo[g] # q => hilo'[g] = hilo[g] /\ suyo'[g] = suyo[g]
    BY <1>1
  <2>3. QED
    BY <1>1, <1>3, <2>1, <2>2, LosOtrosSiguen DEF EnDespacho, EnRetorno
<1>7. Pasa(q, "encolar_io", "io")
  BY <1>2, <1>4, <1>5, <1>6 DEF Pasa
<1>8. QED
  BY <1>1, <1>7 DEF MemoriaIgual, EnLaVentana

\* From the hands of dispositivo_io to cola_de_io again.
LEMMA PasaSuspende ==
  ASSUME TypeOK, ManosVacias, NEW q, q = suyo["gestor"], GestorSuspende
  PROVE  /\ Pasa(q, "suspender", "io") /\ VentanaIgual
         /\ memoria' = [memoria EXCEPT ![q] = "suspendido"] /\ estado' = [estado EXCEPT ![q] = "suspended blocked"]
<1>v. /\ hilo \in [Hilos -> Pcs] /\ suyo \in [Hilos -> Procesos \union {Nadie}]
      /\ cola \in [Colas -> Seq(Procesos)] /\ despacho \in Seq(Procesos)
      /\ retorno \in Seq(Mensajes) /\ memoria \in [Procesos -> Memorias]
      /\ estado \in [Procesos -> Estados] /\ ManosLlenas /\ Nadie \notin Procesos
  BY ProcesosAssumption DEF TypeOK, TiposHilos, TiposDatos
<1>1. /\ Push("io", q) /\ hilo["gestor"] = "suspender"
      /\ UNCHANGED <<afuera, despacho, retorno>>
      /\ memoria' = [memoria EXCEPT ![q] = "suspendido"] /\ estado' = [estado EXCEPT ![q] = "suspended blocked"]
      /\ \A g \in Hilos : g # "gestor" => hilo'[g] = hilo[g] /\ suyo'[g] = suyo[g]
  BY <1>v, DePaso DEF GestorSuspende, SuspenderEnMemoria, Guarda, Hilos, sinCpu, sinMemoria, sinLlegada
<1>2. q \in Procesos
  BY <1>v, <1>1 DEF ManosLlenas
<1>3. EnCola("io", q)' /\ \A c \in Colas : \A p : EnCola(c, p) => EnCola(c, p)'
  BY <1>1, <1>2, PushSigue DEF Colas
<1>4. EstaEn("suspender", q)
  BY <1>1, EnManoEsta DEF Trabajos, Hilos
<1>5. EstaEn("io", q)'
  BY <1>3 DEF EstaEn, Colas
<1>6. \A p \in Procesos : p # q => \A s : EstaEn(s, p) => EstaEn(s, p)'
  <2>1. \A p \in Procesos : p # q => (memoria[p] = "eliminado" => memoria'[p] = "eliminado")
    BY <1>v, <1>1
  <2>2. \A g \in Hilos : suyo[g] # q => hilo'[g] = hilo[g] /\ suyo'[g] = suyo[g]
    BY <1>1
  <2>3. QED
    BY <1>1, <1>3, <2>1, <2>2, LosOtrosSiguen DEF EnDespacho, EnRetorno
<1>7. Pasa(q, "suspender", "io")
  BY <1>2, <1>4, <1>5, <1>6 DEF Pasa
<1>8. QED
  BY <1>1, <1>7 DEF VentanaIgual, EnLaVentana, Hilos

\* From the device to ready.
LEMMA PasaIoNormal ==
  ASSUME TypeOK, ManosVacias, NEW q, q = suyo["disp"], DispIoNormal
  PROVE  Pasa(q, "io_normal", "ready") /\ MemoriaIgual /\ VentanaIgual
<1>v. /\ hilo \in [Hilos -> Pcs] /\ suyo \in [Hilos -> Procesos \union {Nadie}]
      /\ cola \in [Colas -> Seq(Procesos)] /\ despacho \in Seq(Procesos)
      /\ retorno \in Seq(Mensajes) /\ memoria \in [Procesos -> Memorias]
      /\ estado \in [Procesos -> Estados] /\ ManosLlenas /\ Nadie \notin Procesos
  BY ProcesosAssumption DEF TypeOK, TiposHilos, TiposDatos
<1>1. /\ Push("ready", q) /\ hilo["disp"] = "io_normal"
      /\ UNCHANGED <<afuera, despacho, retorno>>
      /\ UNCHANGED <<memoria, estado>>
      /\ \A g \in Hilos : g # "disp" => hilo'[g] = hilo[g] /\ suyo'[g] = suyo[g]
  BY <1>v, DePaso DEF DispIoNormal, Guarda, Hilos, sinCpu, sinMemoria, sinLlegada
<1>2. q \in Procesos
  BY <1>v, <1>1 DEF ManosLlenas
<1>3. EnCola("ready", q)' /\ \A c \in Colas : \A p : EnCola(c, p) => EnCola(c, p)'
  BY <1>1, <1>2, PushSigue DEF Colas
<1>4. EstaEn("io_normal", q)
  BY <1>1, EnManoEsta DEF Trabajos, Hilos
<1>5. EstaEn("ready", q)'
  BY <1>3 DEF EstaEn, Colas
<1>6. \A p \in Procesos : p # q => \A s : EstaEn(s, p) => EstaEn(s, p)'
  <2>1. \A p \in Procesos : p # q => (memoria[p] = "eliminado" => memoria'[p] = "eliminado")
    BY <1>v, <1>1
  <2>2. \A g \in Hilos : suyo[g] # q => hilo'[g] = hilo[g] /\ suyo'[g] = suyo[g]
    BY <1>1
  <2>3. QED
    BY <1>1, <1>3, <2>1, <2>2, LosOtrosSiguen DEF EnDespacho, EnRetorno
<1>7. Pasa(q, "io_normal", "ready")
  BY <1>2, <1>4, <1>5, <1>6 DEF Pasa
<1>8. QED
  BY <1>1, <1>7 DEF MemoriaIgual, VentanaIgual, EnLaVentana, Hilos

\* From the device to susReady.
LEMMA PasaASusReady ==
  ASSUME TypeOK, ManosVacias, NEW q, q = suyo["disp"], DispASusReady
  PROVE  /\ Pasa(q, "sus_ready", "susReady") /\ UNCHANGED memoria /\ VentanaIgual
         /\ estado' = [estado EXCEPT ![q] = "suspended ready"]
<1>v. /\ hilo \in [Hilos -> Pcs] /\ suyo \in [Hilos -> Procesos \union {Nadie}]
      /\ cola \in [Colas -> Seq(Procesos)] /\ despacho \in Seq(Procesos)
      /\ retorno \in Seq(Mensajes) /\ memoria \in [Procesos -> Memorias]
      /\ estado \in [Procesos -> Estados] /\ ManosLlenas /\ Nadie \notin Procesos
  BY ProcesosAssumption DEF TypeOK, TiposHilos, TiposDatos
<1>1. /\ Push("susReady", q) /\ hilo["disp"] = "sus_ready"
      /\ UNCHANGED <<afuera, despacho, retorno>>
      /\ UNCHANGED memoria /\ estado' = [estado EXCEPT ![q] = "suspended ready"]
      /\ \A g \in Hilos : g # "disp" => hilo'[g] = hilo[g] /\ suyo'[g] = suyo[g]
  BY <1>v, DePaso DEF DispASusReady, Guarda, Hilos, sinCpu, sinLlegada
<1>2. q \in Procesos
  BY <1>v, <1>1 DEF ManosLlenas
<1>3. EnCola("susReady", q)' /\ \A c \in Colas : \A p : EnCola(c, p) => EnCola(c, p)'
  BY <1>1, <1>2, PushSigue DEF Colas
<1>4. EstaEn("sus_ready", q)
  BY <1>1, EnManoEsta DEF Trabajos, Hilos
<1>5. EstaEn("susReady", q)'
  BY <1>3 DEF EstaEn, Colas
<1>6. \A p \in Procesos : p # q => \A s : EstaEn(s, p) => EstaEn(s, p)'
  <2>1. \A p \in Procesos : p # q => (memoria[p] = "eliminado" => memoria'[p] = "eliminado")
    BY <1>v, <1>1
  <2>2. \A g \in Hilos : suyo[g] # q => hilo'[g] = hilo[g] /\ suyo'[g] = suyo[g]
    BY <1>1
  <2>3. QED
    BY <1>1, <1>3, <2>1, <2>2, LosOtrosSiguen DEF EnDespacho, EnRetorno
<1>7. Pasa(q, "sus_ready", "susReady")
  BY <1>2, <1>4, <1>5, <1>6 DEF Pasa
<1>8. QED
  BY <1>1, <1>7 DEF VentanaIgual, EnLaVentana, Hilos

\* From recibir_pcb_de_cpu to the end.
LEMMA PasaFinaliza ==
  ASSUME TypeOK, ManosVacias, NEW q, q = suyo["recibe"], RecibeFinaliza
  PROVE  /\ Pasa(q, "finalizar", "eliminado") /\ VentanaIgual
         /\ memoria' = [memoria EXCEPT ![q] = "eliminado"] /\ UNCHANGED estado
<1>v. /\ hilo \in [Hilos -> Pcs] /\ suyo \in [Hilos -> Procesos \union {Nadie}]
      /\ cola \in [Colas -> Seq(Procesos)] /\ despacho \in Seq(Procesos)
      /\ retorno \in Seq(Mensajes) /\ memoria \in [Procesos -> Memorias]
      /\ estado \in [Procesos -> Estados] /\ ManosLlenas /\ Nadie \notin Procesos
  BY ProcesosAssumption DEF TypeOK, TiposHilos, TiposDatos
<1>1. /\ hilo["recibe"] = "finalizar" /\ hilo'["recibe"] = "avisar_fin"
      /\ UNCHANGED <<cola, suyo, afuera, despacho, retorno, estado>>
      /\ memoria' = [memoria EXCEPT ![q] = "eliminado"]
      /\ \A g \in Hilos : g # "recibe" => hilo'[g] = hilo[g] /\ suyo'[g] = suyo[g]
  BY <1>v, DePaso DEF RecibeFinaliza, Hilos, sinCpu, sinLlegada
<1>2. q \in Procesos
  BY <1>v, <1>1 DEF ManosLlenas
<1>3. EstaEn("finalizar", q)
  BY <1>1, EnManoEsta DEF Trabajos, Hilos
<1>4. EstaEn("eliminado", q)'
  BY <1>v, <1>1, <1>2 DEF EstaEn
<1>5. \A p \in Procesos : p # q => \A s : EstaEn(s, p) => EstaEn(s, p)'
  <2>1. \A p \in Procesos : p # q => (memoria[p] = "eliminado" => memoria'[p] = "eliminado")
    BY <1>v, <1>1
  <2>2. \A g \in Hilos : suyo[g] # q => hilo'[g] = hilo[g] /\ suyo'[g] = suyo[g]
    BY <1>1
  <2>3. QED
    BY <1>1, <2>1, <2>2, LosOtrosSiguen DEF EnCola, EnDespacho, EnRetorno
<1>6. Pasa(q, "finalizar", "eliminado")
  BY <1>2, <1>3, <1>4, <1>5 DEF Pasa
<1>7. QED
  BY <1>1, <1>6 DEF VentanaIgual, EnLaVentana

\* The device suspends the process that it has.
LEMMA PasaDispSuspende ==
  ASSUME TypeOK, ManosVacias, NEW q, q = suyo["disp"], DispSuspende
  PROVE  Pasa(q, "io_suspender", "io_subir") /\ VentanaIgual
         /\ memoria' = [memoria EXCEPT ![q] = "suspendido"] /\ estado' = [estado EXCEPT ![q] = "suspended blocked"]
<1>v. /\ hilo \in [Hilos -> Pcs] /\ suyo \in [Hilos -> Procesos \union {Nadie}]
      /\ cola \in [Colas -> Seq(Procesos)] /\ despacho \in Seq(Procesos)
      /\ retorno \in Seq(Mensajes) /\ memoria \in [Procesos -> Memorias]
      /\ estado \in [Procesos -> Estados] /\ ManosLlenas /\ Nadie \notin Procesos
  BY ProcesosAssumption DEF TypeOK, TiposHilos, TiposDatos
<1>1. /\ hilo["disp"] = "io_suspender" /\ hilo'["disp"] = "io_subir"
      /\ UNCHANGED <<cola, suyo, afuera, despacho, retorno>>
      /\ memoria' = [memoria EXCEPT ![q] = "suspendido"] /\ estado' = [estado EXCEPT ![q] = "suspended blocked"]
      /\ \A g \in Hilos : g # "disp" => hilo'[g] = hilo[g] /\ suyo'[g] = suyo[g]
  BY <1>v, DePaso DEF DispSuspende, SuspenderEnMemoria, Hilos, sinCpu, sinLlegada
<1>2. q \in Procesos
  BY <1>v, <1>1 DEF ManosLlenas
<1>3. EstaEn("io_suspender", q)
  BY <1>1, EnManoEsta DEF Trabajos, Hilos
<1>4. EstaEn("io_subir", q)'
  BY <1>1, EnManoEstaDespues DEF Trabajos, Hilos
<1>5. \A p \in Procesos : p # q => \A s : EstaEn(s, p) => EstaEn(s, p)'
  <2>1. \A p \in Procesos : p # q => (memoria[p] = "eliminado" => memoria'[p] = "eliminado")
    BY <1>v, <1>1
  <2>2. \A g \in Hilos : suyo[g] # q => hilo'[g] = hilo[g] /\ suyo'[g] = suyo[g]
    BY <1>1
  <2>3. QED
    BY <1>1, <2>1, <2>2, LosOtrosSiguen DEF EnCola, EnDespacho, EnRetorno
<1>6. Pasa(q, "io_suspender", "io_subir")
  BY <1>2, <1>3, <1>4, <1>5 DEF Pasa
<1>7. QED
  BY <1>1, <1>6 DEF VentanaIgual, EnLaVentana, Hilos

\* It gives the place back.
LEMMA PasaSube ==
  ASSUME TypeOK, ManosVacias, NEW q, q = suyo["disp"], DispSube
  PROVE  Pasa(q, "io_subir", "sus_ready") /\ VentanaIgual /\ MemoriaIgual
<1>v. /\ hilo \in [Hilos -> Pcs] /\ suyo \in [Hilos -> Procesos \union {Nadie}]
      /\ cola \in [Colas -> Seq(Procesos)] /\ despacho \in Seq(Procesos)
      /\ retorno \in Seq(Mensajes) /\ memoria \in [Procesos -> Memorias]
      /\ estado \in [Procesos -> Estados] /\ ManosLlenas /\ Nadie \notin Procesos
  BY ProcesosAssumption DEF TypeOK, TiposHilos, TiposDatos
<1>1. /\ hilo["disp"] = "io_subir" /\ hilo'["disp"] = "sus_ready"
      /\ UNCHANGED <<cola, suyo, afuera, despacho, retorno>>
      /\ UNCHANGED <<memoria, estado>>
      /\ \A g \in Hilos : g # "disp" => hilo'[g] = hilo[g] /\ suyo'[g] = suyo[g]
  BY <1>v, DePaso DEF DispSube, Hilos, sinCpu, sinMemoria, sinLlegada
<1>2. q \in Procesos
  BY <1>v, <1>1 DEF ManosLlenas
<1>3. EstaEn("io_subir", q)
  BY <1>1, EnManoEsta DEF Trabajos, Hilos
<1>4. EstaEn("sus_ready", q)'
  BY <1>1, EnManoEstaDespues DEF Trabajos, Hilos
<1>5. \A p \in Procesos : p # q => \A s : EstaEn(s, p) => EstaEn(s, p)'
  <2>1. \A p \in Procesos : p # q => (memoria[p] = "eliminado" => memoria'[p] = "eliminado")
    BY <1>v, <1>1
  <2>2. \A g \in Hilos : suyo[g] # q => hilo'[g] = hilo[g] /\ suyo'[g] = suyo[g]
    BY <1>1
  <2>3. QED
    BY <1>1, <2>1, <2>2, LosOtrosSiguen DEF EnCola, EnDespacho, EnRetorno
<1>6. Pasa(q, "io_subir", "sus_ready")
  BY <1>2, <1>3, <1>4, <1>5 DEF Pasa
<1>7. QED
  BY <1>1, <1>6 DEF MemoriaIgual, VentanaIgual, EnLaVentana, Hilos

\* It reads process_state and knows what it has to do.
LEMMA PasaLee ==
  ASSUME TypeOK, ManosVacias, NEW q, q = suyo["disp"], DispLee
  PROVE  /\ MemoriaIgual /\ VentanaIgual
         /\ \/ estado[q] = "blocked" /\ (Pasa(q, "leer", "io_normal") \/ Pasa(q, "leer", "io_suspender"))
            \/ estado[q] \notin {"nulo", "blocked"} /\ Pasa(q, "leer", "sus_ready")
<1>v. /\ hilo \in [Hilos -> Pcs] /\ suyo \in [Hilos -> Procesos \union {Nadie}]
      /\ cola \in [Colas -> Seq(Procesos)] /\ despacho \in Seq(Procesos)
      /\ retorno \in Seq(Mensajes) /\ memoria \in [Procesos -> Memorias]
      /\ estado \in [Procesos -> Estados] /\ ManosLlenas /\ Nadie \notin Procesos
  BY ProcesosAssumption DEF TypeOK, TiposHilos, TiposDatos
<1>1. /\ hilo["disp"] = "leer"
      /\ \/ estado[q] = "blocked" /\ hilo'["disp"] \in {"io_normal", "io_suspender"}
         \/ estado[q] \notin {"nulo", "blocked"} /\ hilo'["disp"] = "sus_ready"
      /\ UNCHANGED <<cola, suyo, afuera, despacho, retorno, memoria, estado>>
      /\ \A g \in Hilos : g # "disp" => hilo'[g] = hilo[g] /\ suyo'[g] = suyo[g]
  BY <1>v, DePaso DEF DispLee, Hilos, sinCpu, sinMemoria, sinLlegada
<1>2. q \in Procesos
  BY <1>v, <1>1 DEF ManosLlenas
<1>3. EstaEn("leer", q)
  BY <1>1, EnManoEsta DEF Trabajos, Hilos
<1>4. \A p \in Procesos : p # q => \A s : EstaEn(s, p) => EstaEn(s, p)'
  <2>1. \A g \in Hilos : suyo[g] # q => hilo'[g] = hilo[g] /\ suyo'[g] = suyo[g]
    BY <1>1
  <2>2. QED
    BY <1>1, <2>1, LosOtrosSiguen DEF EnCola, EnDespacho, EnRetorno
<1>5. ASSUME NEW a \in {"io_normal", "io_suspender", "sus_ready"}, hilo'["disp"] = a
      PROVE  Pasa(q, "leer", a)
  <2>1. EstaEn(a, q)'
    BY <1>1, <1>5, EnManoEstaDespues DEF Trabajos, Hilos
  <2>2. QED
    BY <1>2, <1>3, <1>4, <2>1 DEF Pasa
<1>6. QED
  BY <1>1, <1>5 DEF MemoriaIgual, VentanaIgual, EnLaVentana, Hilos

\* One more round of dispositivo_io: the head of cola_de_io goes to its end.
LEMMA RotaNoMueve ==
  ASSUME TypeOK, GestorRota
  PROVE  NadiePasa
<1>1. cola["io"] \in Seq(Procesos) /\ cola["io"] # <<>> /\ cola \in [Colas -> Seq(Procesos)]
  BY DEF GestorRota, TypeOK, TiposDatos, Colas
<1>2. /\ Head(cola["io"]) \in Procesos /\ Tail(cola["io"]) \in Seq(Procesos)
      /\ cola'["io"] = Append(Tail(cola["io"]), Head(cola["io"]))
      /\ \A c \in Colas : c # "io" => cola'[c] = cola[c]
  BY <1>1 DEF GestorRota, Colas
<1>3. \A c \in Colas : \A p : EnCola(c, p) => EnCola(c, p)'
  <2>1. \A i \in DOMAIN cola["io"] :
          cola["io"][i] = Head(cola["io"]) \/ \E j \in DOMAIN Tail(cola["io"]) : Tail(cola["io"])[j] = cola["io"][i]
    BY <1>1, SigueAlSacar
  <2>2. /\ \A i \in DOMAIN Tail(cola["io"]) : i \in DOMAIN cola'["io"] /\ cola'["io"][i] = Tail(cola["io"])[i]
        /\ \E i \in DOMAIN cola'["io"] : cola'["io"][i] = Head(cola["io"])
    BY <1>2, SigueAlAgregar
  <2>3. \A p : EnCola("io", p) => EnCola("io", p)'
    BY <2>1, <2>2 DEF EnCola
  <2>4. QED
    BY <1>2, <2>3 DEF EnCola
<1>4. /\ hilo["gestor"] = "rotar" /\ UNCHANGED <<suyo, despacho, retorno, afuera, memoria>>
      /\ \A g \in Hilos : g # "gestor" => hilo'[g] = hilo[g]
  <2>1. hilo \in [Hilos -> Pcs]
    BY DEF TypeOK, TiposHilos
  <2>2. QED
    BY <2>1, DePaso DEF GestorRota, Hilos, sinCpu, sinMemoria, sinLlegada
<1>5. \A p \in Procesos : p # Nadie => \A s : EstaEn(s, p) => EstaEn(s, p)'
  BY <1>3, <1>4, LosOtrosSiguen DEF EnDespacho, EnRetorno, Trabajos
<1>6. QED
  BY <1>5, ProcesosAssumption DEF NadiePasa

\* A step of one thread that does not work on a PCB, and touches no queue.
LEMMA NoTrabaja ==
  ASSUME NEW h \in Hilos, hilo[h] \notin Trabajos,
         \A g \in Hilos : g # h => hilo'[g] = hilo[g] /\ suyo'[g] = suyo[g],
         UNCHANGED <<cola, despacho, retorno, afuera, memoria>>
  PROVE  NadiePasa
BY SiNadieTrabaja

----------------------------------------------------------------------------
\* The moves that neither memory nor process_state hears of.
Traslados == {<<"afuera", "new">>, <<"new", "crear">>, <<"susReady", "reanudar">>,
              <<"ready", "despacho">>, <<"despacho", "corre">>, <<"corre", "retorno">>,
              <<"retorno", "encolar_io">>, <<"retorno", "finalizar">>, <<"io", "leer">>,
              <<"io_normal", "ready">>, <<"io_subir", "sus_ready">>}

Memoria(q, m) == memoria' = [memoria EXCEPT ![q] = m]
Estado(q, e)  == estado' = [estado EXCEPT ![q] = e]

Queda        == NadiePasa /\ MemoriaIgual /\ VentanaIgual
Traslada(q)  == MemoriaIgual /\ VentanaIgual /\ \E t \in Traslados : Pasa(q, t[1], t[2])
Activa(q)    == /\ Memoria(q, "activo") /\ UNCHANGED estado /\ VentanaIgual
                /\ \E de \in {"crear", "reanudar"} : Pasa(q, de, "ready")
Encola(q)    == /\ MemoriaIgual /\ Pasa(q, "encolar_io", "io")
                /\ \A p : ~EnLaVentana(p) /\ (EnLaVentana(p)' <=> p = q)
Marca(q)     == /\ NadiePasa /\ UNCHANGED memoria /\ Estado(q, "blocked")
                /\ \A p : (EnLaVentana(p) <=> p = q) /\ ~EnLaVentana(p)'
Finaliza(q)  == Memoria(q, "eliminado") /\ UNCHANGED estado /\ VentanaIgual /\ Pasa(q, "finalizar", "eliminado")
Vence(q)     == MemoriaIgual /\ VentanaIgual /\ estado[q] = "blocked" /\ Pasa(q, "io", "suspender")
Suspende(q)  == /\ Memoria(q, "suspendido") /\ Estado(q, "suspended blocked") /\ VentanaIgual
                /\ \/ Pasa(q, "suspender", "io") /\ suyo["gestor"] = q
                   \/ Pasa(q, "io_suspender", "io_subir")
Lee(q)       == /\ MemoriaIgual /\ VentanaIgual /\ suyo["disp"] = q
                /\ \/ estado[q] = "blocked" /\ \E a \in {"io_normal", "io_suspender"} : Pasa(q, "leer", a)
                   \/ estado[q] \notin {"nulo", "blocked"} /\ Pasa(q, "leer", "sus_ready")
FinSus(q)    == /\ UNCHANGED memoria /\ Estado(q, "suspended ready") /\ VentanaIgual
                /\ Pasa(q, "sus_ready", "susReady")

\* What a step of the kernel does to one process, or to none.
Movimiento == \/ Queda
              \/ \E q : \/ Traslada(q) \/ Activa(q) \/ Encola(q) \/ Marca(q) \/ Finaliza(q)
                        \/ Vence(q) \/ Suspende(q) \/ Lee(q) \/ FinSus(q)

\* Every step of the kernel moves one process, or none.
LEMMA TodoSonMovimientos ==
  ASSUME InvLugares, [Next]_vars
  PROVE  Movimiento
<1>v. /\ TypeOK /\ ManosVacias /\ Cuentas /\ ColasNuncaVacias
      /\ hilo \in [Hilos -> Pcs] /\ suyo \in [Hilos -> Procesos \union {Nadie}]
  BY HayQueSacar DEF InvLugares, Inductiva, TypeOK, TiposHilos, TiposDatos
<1>u. \A t \in Traslados : \A q : MemoriaIgual /\ VentanaIgual /\ Pasa(q, t[1], t[2]) => Movimiento
  BY DEF Movimiento, Traslada
<1>1. ASSUME NEW p \in Procesos, Recibir(p) PROVE Movimiento
  <2>1. Pasa(p, "afuera", "new") /\ MemoriaIgual /\ VentanaIgual
    BY <1>v, <1>1, PasaRecibir
  <2>2. <<"afuera", "new">> \in Traslados
    BY DEF Traslados
  <2>3. QED
    BY <2>1, <2>2, <1>u
<1>2. ASSUME UNCHANGED <<cola, despacho, retorno, afuera, memoria, estado, hilo, suyo>> PROVE Movimiento
  <2>1. NadiePasa
    BY <1>2, SiNadieTrabaja
  <2>2. QED
    BY <1>2, <2>1 DEF Movimiento, Queda, MemoriaIgual, VentanaIgual, EnLaVentana
<1>3. ASSUME NEW p \in Procesos, AvisarLlegada(p) PROVE Movimiento
  BY <1>2, <1>3 DEF AvisarLlegada, sinCpu, sinMemoria
<1>4. CASE Largo
  <2>1. CASE LargoEsperaLista
    <3>1. /\ hilo["largo"] \notin Trabajos /\ UNCHANGED <<cola, despacho, retorno, afuera, memoria, estado>>
          /\ (\A g \in Hilos : g # "largo" => hilo'[g] = hilo[g] /\ suyo'[g] = suyo[g])
          /\ "largo" = "recibe" => hilo["recibe"] # "marcar" /\ hilo'["recibe"] # "marcar"
      BY <1>v, <2>1, DePaso DEF LargoEsperaLista, Guarda, Hilos, Trabajos, sinCpu, sinMemoria, sinLlegada
    <3>2. NadiePasa
      BY <3>1, NoTrabaja DEF Hilos
    <3>3. VentanaIgual
      BY <3>1 DEF VentanaIgual, EnLaVentana, Hilos
    <3>4. QED
      BY <3>1, <3>2, <3>3 DEF Movimiento, Queda, MemoriaIgual
  <2>2. CASE LargoEsperaMulti
    <3>1. /\ hilo["largo"] \notin Trabajos /\ UNCHANGED <<cola, despacho, retorno, afuera, memoria, estado>>
          /\ (\A g \in Hilos : g # "largo" => hilo'[g] = hilo[g] /\ suyo'[g] = suyo[g])
          /\ "largo" = "recibe" => hilo["recibe"] # "marcar" /\ hilo'["recibe"] # "marcar"
      BY <1>v, <2>2, DePaso DEF LargoEsperaMulti, Guarda, Hilos, Trabajos, sinCpu, sinMemoria, sinLlegada
    <3>2. NadiePasa
      BY <3>1, NoTrabaja DEF Hilos
    <3>3. VentanaIgual
      BY <3>1 DEF VentanaIgual, EnLaVentana, Hilos
    <3>4. QED
      BY <3>1, <3>2, <3>3 DEF Movimiento, Queda, MemoriaIgual
  <2>3. CASE LargoMiraSus
    <3>1. CASE cola["susReady"] = <<>>
      <4>1. /\ hilo["largo"] \notin Trabajos /\ UNCHANGED <<cola, despacho, retorno, afuera, memoria, estado>>
            /\ (\A g \in Hilos : g # "largo" => hilo'[g] = hilo[g] /\ suyo'[g] = suyo[g])
        BY <1>v, <2>3, <3>1, DePaso DEF LargoMiraSus, Pop, Hilos, Trabajos, sinCpu, sinMemoria, sinLlegada
      <4>2. NadiePasa
        BY <4>1, NoTrabaja DEF Hilos
      <4>3. QED
        BY <4>1, <4>2 DEF Movimiento, Queda, MemoriaIgual, VentanaIgual, EnLaVentana, Hilos
    <3>2. CASE cola["susReady"] # <<>>
      <4>1. PICK q : q = Head(cola["susReady"])
        OBVIOUS
      <4>2. Pasa(q, "susReady", "reanudar") /\ MemoriaIgual /\ VentanaIgual
        BY <1>v, <2>3, <3>2, <4>1, PasaMiraSus
      <4>3. <<"susReady", "reanudar">> \in Traslados
        BY DEF Traslados
      <4>4. QED
        BY <4>2, <4>3, <1>u
    <3>3. QED
      BY <3>1, <3>2
  <2>4. CASE LargoReanuda
    <3>1. PICK q : q = suyo["largo"]
      OBVIOUS
    <3>2. /\ Pasa(q, "reanudar", "ready")
          /\ memoria' = [memoria EXCEPT ![q] = "activo"] /\ UNCHANGED estado /\ VentanaIgual
      BY <1>v, <2>4, <3>1, PasaAReady DEF LargoReanuda
    <3>3. Activa(q)
      BY <3>1, <3>2 DEF Activa, Memoria
    <3>4. QED
      BY <3>3 DEF Movimiento
  <2>5. CASE LargoAvisaSus
    <3>1. /\ hilo["largo"] \notin Trabajos /\ UNCHANGED <<cola, despacho, retorno, afuera, memoria, estado>>
          /\ (\A g \in Hilos : g # "largo" => hilo'[g] = hilo[g] /\ suyo'[g] = suyo[g])
          /\ "largo" = "recibe" => hilo["recibe"] # "marcar" /\ hilo'["recibe"] # "marcar"
      BY <1>v, <2>5, DePaso DEF LargoAvisaSus, Guarda, Hilos, Trabajos, sinCpu, sinMemoria, sinLlegada
    <3>2. NadiePasa
      BY <3>1, NoTrabaja DEF Hilos
    <3>3. VentanaIgual
      BY <3>1 DEF VentanaIgual, EnLaVentana, Hilos
    <3>4. QED
      BY <3>1, <3>2, <3>3 DEF Movimiento, Queda, MemoriaIgual
  <2>6. CASE LargoMiraNew
    <3>1. PICK q : q = Head(cola["new"])
      OBVIOUS
    <3>2. cola["new"] # <<>>
      BY <1>v, <2>6 DEF LargoMiraNew, Paso, En, ColasNuncaVacias
    <3>3. Pasa(q, "new", "crear") /\ MemoriaIgual /\ VentanaIgual
      BY <1>v, <2>6, <3>1, <3>2, PasaMiraNew
    <3>4. <<"new", "crear">> \in Traslados
      BY DEF Traslados
    <3>5. QED
      BY <3>3, <3>4, <1>u
  <2>7. CASE LargoCrea
    <3>1. PICK q : q = suyo["largo"]
      OBVIOUS
    <3>2. /\ Pasa(q, "crear", "ready")
          /\ memoria' = [memoria EXCEPT ![q] = "activo"] /\ UNCHANGED estado /\ VentanaIgual
      BY <1>v, <2>7, <3>1, PasaAReady DEF LargoCrea
    <3>3. Activa(q)
      BY <3>1, <3>2 DEF Activa, Memoria
    <3>4. QED
      BY <3>3 DEF Movimiento
  <2>8. CASE LargoAvisaNew
    <3>1. /\ hilo["largo"] \notin Trabajos /\ UNCHANGED <<cola, despacho, retorno, afuera, memoria, estado>>
          /\ (\A g \in Hilos : g # "largo" => hilo'[g] = hilo[g] /\ suyo'[g] = suyo[g])
          /\ "largo" = "recibe" => hilo["recibe"] # "marcar" /\ hilo'["recibe"] # "marcar"
      BY <1>v, <2>8, DePaso DEF LargoAvisaNew, Guarda, Hilos, Trabajos, sinCpu, sinMemoria, sinLlegada
    <3>2. NadiePasa
      BY <3>1, NoTrabaja DEF Hilos
    <3>3. VentanaIgual
      BY <3>1 DEF VentanaIgual, EnLaVentana, Hilos
    <3>4. QED
      BY <3>1, <3>2, <3>3 DEF Movimiento, Queda, MemoriaIgual
  <2>9. QED
    BY <1>4, <2>1, <2>2, <2>3, <2>4, <2>5, <2>6, <2>7, <2>8 DEF Largo
<1>5. CASE Corto
  <2>1. CASE CortoEspera
    <3>1. /\ hilo["corto"] \notin Trabajos /\ UNCHANGED <<cola, despacho, retorno, afuera, memoria, estado>>
          /\ (\A g \in Hilos : g # "corto" => hilo'[g] = hilo[g] /\ suyo'[g] = suyo[g])
          /\ "corto" = "recibe" => hilo["recibe"] # "marcar" /\ hilo'["recibe"] # "marcar"
      BY <1>v, <2>1, DePaso DEF CortoEspera, Guarda, Hilos, Trabajos, sinCpu, sinMemoria, sinLlegada
    <3>2. NadiePasa
      BY <3>1, NoTrabaja DEF Hilos
    <3>3. VentanaIgual
      BY <3>1 DEF VentanaIgual, EnLaVentana, Hilos
    <3>4. QED
      BY <3>1, <3>2, <3>3 DEF Movimiento, Queda, MemoriaIgual
  <2>2. CASE CortoEsperaLista
    <3>1. /\ hilo["corto"] \notin Trabajos /\ UNCHANGED <<cola, despacho, retorno, afuera, memoria, estado>>
          /\ (\A g \in Hilos : g # "corto" => hilo'[g] = hilo[g] /\ suyo'[g] = suyo[g])
          /\ "corto" = "recibe" => hilo["recibe"] # "marcar" /\ hilo'["recibe"] # "marcar"
      BY <1>v, <2>2, DePaso DEF CortoEsperaLista, Guarda, Hilos, Trabajos, sinCpu, sinMemoria, sinLlegada
    <3>2. NadiePasa
      BY <3>1, NoTrabaja DEF Hilos
    <3>3. VentanaIgual
      BY <3>1 DEF VentanaIgual, EnLaVentana, Hilos
    <3>4. QED
      BY <3>1, <3>2, <3>3 DEF Movimiento, Queda, MemoriaIgual
  <2>3. CASE CortoElige
    <3>1. PICK q : q = Head(cola["ready"])
      OBVIOUS
    <3>2. cola["ready"] # <<>>
      BY <1>v, <2>3 DEF CortoElige, Paso, En, ColasNuncaVacias
    <3>3. Pasa(q, "ready", "despacho") /\ MemoriaIgual /\ VentanaIgual
      BY <1>v, <2>3, <3>1, <3>2, PasaElige
    <3>4. <<"ready", "despacho">> \in Traslados
      BY DEF Traslados
    <3>5. QED
      BY <3>3, <3>4, <1>u
  <2>4. QED
    BY <1>5, <2>1, <2>2, <2>3 DEF Corto
<1>6. CASE Cpu
  <2>1. CASE CpuRecibe
    <3>1. PICK q : q = Head(despacho)
      OBVIOUS
    <3>2. Pasa(q, "despacho", "corre") /\ MemoriaIgual /\ VentanaIgual
      BY <1>v, <2>1, <3>1, PasaCpuRecibe
    <3>3. <<"despacho", "corre">> \in Traslados
      BY DEF Traslados
    <3>4. QED
      BY <3>2, <3>3, <1>u
  <2>2. CASE CpuIo
    <3>1. PICK q : q = suyo["cpu"]
      OBVIOUS
    <3>2. Pasa(q, "corre", "retorno") /\ MemoriaIgual /\ VentanaIgual
      BY <1>v, <2>2, <3>1, PasaCpuDevuelve DEF CpuIo
    <3>3. <<"corre", "retorno">> \in Traslados
      BY DEF Traslados
    <3>4. QED
      BY <3>2, <3>3, <1>u
  <2>3. CASE CpuExit
    <3>1. PICK q : q = suyo["cpu"]
      OBVIOUS
    <3>2. Pasa(q, "corre", "retorno") /\ MemoriaIgual /\ VentanaIgual
      BY <1>v, <2>3, <3>1, PasaCpuDevuelve DEF CpuExit
    <3>3. <<"corre", "retorno">> \in Traslados
      BY DEF Traslados
    <3>4. QED
      BY <3>2, <3>3, <1>u
  <2>4. QED
    BY <1>6, <2>1, <2>2, <2>3 DEF Cpu
<1>7. CASE Recibe
  <2>1. CASE RecibeMensaje
    <3>1. PICK q : q = Head(retorno).p
      OBVIOUS
    <3>2. (Pasa(q, "retorno", "encolar_io") \/ Pasa(q, "retorno", "finalizar")) /\ MemoriaIgual /\ VentanaIgual
      BY <1>v, <2>1, <3>1, PasaMensaje
    <3>3. <<"retorno", "encolar_io">> \in Traslados /\ <<"retorno", "finalizar">> \in Traslados
      BY DEF Traslados
    <3>4. QED
      BY <3>2, <3>3, <1>u
  <2>2. CASE RecibeEncola
    <3>1. PICK q : q = suyo["recibe"]
      OBVIOUS
    <3>2. /\ Pasa(q, "encolar_io", "io") /\ MemoriaIgual
          /\ \A p : ~EnLaVentana(p) /\ (EnLaVentana(p)' <=> p = q)
      BY <1>v, <2>2, <3>1, PasaEncola
    <3>3. Encola(q)
      BY <3>1, <3>2 DEF Encola
    <3>4. QED
      BY <3>3 DEF Movimiento
  <2>3. CASE RecibeMarca
    <3>1. PICK q : q = suyo["recibe"]
      OBVIOUS
    <3>2. /\ hilo["recibe"] = "marcar" /\ hilo'["recibe"] = "avisar_io" /\ Estado(q, "blocked")
          /\ UNCHANGED <<cola, despacho, retorno, afuera, memoria>>
          /\ \A g \in Hilos : g # "recibe" => hilo'[g] = hilo[g] /\ suyo'[g] = suyo[g]
      BY <1>v, <2>3, <3>1, DePaso DEF RecibeMarca, Hilos, sinCpu, sinLlegada, Estado
    <3>3. NadiePasa
      BY <3>2, NoTrabaja DEF Hilos, Trabajos
    <3>4. Marca(q)
      BY <3>1, <3>2, <3>3 DEF Marca, EnLaVentana
    <3>5. QED
      BY <3>4 DEF Movimiento
  <2>4. CASE RecibeAvisaIo
    <3>1. /\ hilo["recibe"] \notin Trabajos /\ UNCHANGED <<cola, despacho, retorno, afuera, memoria, estado>>
          /\ (\A g \in Hilos : g # "recibe" => hilo'[g] = hilo[g] /\ suyo'[g] = suyo[g])
          /\ "recibe" = "recibe" => hilo["recibe"] # "marcar" /\ hilo'["recibe"] # "marcar"
      BY <1>v, <2>4, DePaso DEF RecibeAvisaIo, Guarda, Hilos, Trabajos, sinCpu, sinMemoria, sinLlegada
    <3>2. NadiePasa
      BY <3>1, NoTrabaja DEF Hilos
    <3>3. VentanaIgual
      BY <3>1 DEF VentanaIgual, EnLaVentana, Hilos
    <3>4. QED
      BY <3>1, <3>2, <3>3 DEF Movimiento, Queda, MemoriaIgual
  <2>5. CASE RecibeFinaliza
    <3>1. PICK q : q = suyo["recibe"]
      OBVIOUS
    <3>2. /\ Pasa(q, "finalizar", "eliminado") /\ VentanaIgual
          /\ memoria' = [memoria EXCEPT ![q] = "eliminado"] /\ UNCHANGED estado
      BY <1>v, <2>5, <3>1, PasaFinaliza
    <3>3. Finaliza(q)
      BY <3>1, <3>2 DEF Finaliza, Memoria
    <3>4. QED
      BY <3>3 DEF Movimiento
  <2>6. CASE RecibeAvisaFin
    <3>1. /\ hilo["recibe"] \notin Trabajos /\ UNCHANGED <<cola, despacho, retorno, afuera, memoria, estado>>
          /\ (\A g \in Hilos : g # "recibe" => hilo'[g] = hilo[g] /\ suyo'[g] = suyo[g])
          /\ "recibe" = "recibe" => hilo["recibe"] # "marcar" /\ hilo'["recibe"] # "marcar"
      BY <1>v, <2>6, DePaso DEF RecibeAvisaFin, Guarda, Hilos, Trabajos, sinCpu, sinMemoria, sinLlegada
    <3>2. NadiePasa
      BY <3>1, NoTrabaja DEF Hilos
    <3>3. VentanaIgual
      BY <3>1 DEF VentanaIgual, EnLaVentana, Hilos
    <3>4. QED
      BY <3>1, <3>2, <3>3 DEF Movimiento, Queda, MemoriaIgual
  <2>7. QED
    BY <1>7, <2>1, <2>2, <2>3, <2>4, <2>5, <2>6 DEF Recibe
<1>8. CASE Gestor
  <2>1. CASE GestorEspera
    <3>1. /\ hilo["gestor"] \notin Trabajos /\ UNCHANGED <<cola, despacho, retorno, afuera, memoria, estado>>
          /\ (\A g \in Hilos : g # "gestor" => hilo'[g] = hilo[g] /\ suyo'[g] = suyo[g])
          /\ "gestor" = "recibe" => hilo["recibe"] # "marcar" /\ hilo'["recibe"] # "marcar"
      BY <1>v, <2>1, DePaso DEF GestorEspera, Guarda, Hilos, Trabajos, sinCpu, sinMemoria, sinLlegada
    <3>2. NadiePasa
      BY <3>1, NoTrabaja DEF Hilos
    <3>3. VentanaIgual
      BY <3>1 DEF VentanaIgual, EnLaVentana, Hilos
    <3>4. QED
      BY <3>1, <3>2, <3>3 DEF Movimiento, Queda, MemoriaIgual
  <2>2. CASE GestorCuenta
    <3>1. /\ hilo["gestor"] \notin Trabajos /\ UNCHANGED <<cola, despacho, retorno, afuera, memoria, estado>>
          /\ (\A g \in Hilos : g # "gestor" => hilo'[g] = hilo[g] /\ suyo'[g] = suyo[g])
          /\ "gestor" = "recibe" => hilo["recibe"] # "marcar" /\ hilo'["recibe"] # "marcar"
      BY <1>v, <2>2, DePaso DEF GestorCuenta, Guarda, Hilos, Trabajos, sinCpu, sinMemoria, sinLlegada
    <3>2. NadiePasa
      BY <3>1, NoTrabaja DEF Hilos
    <3>3. VentanaIgual
      BY <3>1 DEF VentanaIgual, EnLaVentana, Hilos
    <3>4. QED
      BY <3>1, <3>2, <3>3 DEF Movimiento, Queda, MemoriaIgual
  <2>3. CASE GestorUsaDispositivo
    <3>1. PICK q : q = Head(cola["io"])
      OBVIOUS
    <3>2. Pasa(q, "io", "leer") /\ MemoriaIgual /\ VentanaIgual
      BY <1>v, <2>3, <3>1, PasaUsaDispositivo
    <3>3. <<"io", "leer">> \in Traslados
      BY DEF Traslados
    <3>4. QED
      BY <3>2, <3>3, <1>u
  <2>4. CASE GestorDispositivoOcupado
    <3>1. /\ hilo["gestor"] \notin Trabajos /\ UNCHANGED <<cola, despacho, retorno, afuera, memoria, estado>>
          /\ (\A g \in Hilos : g # "gestor" => hilo'[g] = hilo[g] /\ suyo'[g] = suyo[g])
          /\ "gestor" = "recibe" => hilo["recibe"] # "marcar" /\ hilo'["recibe"] # "marcar"
      BY <1>v, <2>4, DePaso DEF GestorDispositivoOcupado, Guarda, Hilos, Trabajos, sinCpu, sinMemoria, sinLlegada
    <3>2. NadiePasa
      BY <3>1, NoTrabaja DEF Hilos
    <3>3. VentanaIgual
      BY <3>1 DEF VentanaIgual, EnLaVentana, Hilos
    <3>4. QED
      BY <3>1, <3>2, <3>3 DEF Movimiento, Queda, MemoriaIgual
  <2>5. CASE GestorRota
    <3>1. /\ UNCHANGED <<suyo, memoria, estado>> /\ hilo'["recibe"] = hilo["recibe"]
      BY <1>v, <2>5, DePaso DEF GestorRota, Hilos, sinMemoria
    <3>2. QED
      BY <1>v, <2>5, <3>1, RotaNoMueve DEF Movimiento, Queda, MemoriaIgual, VentanaIgual, EnLaVentana
  <2>6. CASE GestorVence
    <3>1. PICK q : q = Head(cola["io"])
      OBVIOUS
    <3>2. Pasa(q, "io", "suspender") /\ MemoriaIgual /\ VentanaIgual /\ estado[q] = "blocked"
      BY <1>v, <2>6, <3>1, PasaVence DEF GestorVence
    <3>3. Vence(q)
      BY <3>1, <3>2 DEF Vence
    <3>4. QED
      BY <3>3 DEF Movimiento
  <2>7. CASE GestorSuspende
    <3>1. PICK q : q = suyo["gestor"]
      OBVIOUS
    <3>2. /\ Pasa(q, "suspender", "io") /\ VentanaIgual
          /\ memoria' = [memoria EXCEPT ![q] = "suspendido"] /\ estado' = [estado EXCEPT ![q] = "suspended blocked"]
      BY <1>v, <2>7, <3>1, PasaSuspende
    <3>3. Suspende(q)
      BY <3>1, <3>2 DEF Suspende, Memoria, Estado
    <3>4. QED
      BY <3>3 DEF Movimiento
  <2>8. CASE GestorCae
    BY <1>2, <2>8 DEF GestorCae, sinCpu, sinMemoria, sinLlegada
  <2>9. QED
    BY <1>8, <2>1, <2>2, <2>3, <2>4, <2>5, <2>6, <2>7, <2>8 DEF Gestor
<1>9. CASE Disp
  <2>1. CASE DispLee
    <3>1. PICK q : q = suyo["disp"]
      OBVIOUS
    <3>2. /\ MemoriaIgual /\ VentanaIgual
          /\ \/ estado[q] = "blocked" /\ (Pasa(q, "leer", "io_normal") \/ Pasa(q, "leer", "io_suspender"))
             \/ estado[q] \notin {"nulo", "blocked"} /\ Pasa(q, "leer", "sus_ready")
      BY <1>v, <2>1, <3>1, PasaLee
    <3>3. Lee(q)
      BY <3>1, <3>2 DEF Lee
    <3>4. QED
      BY <3>3 DEF Movimiento
  <2>2. CASE DispCae
    BY <1>2, <2>2 DEF DispCae, sinCpu, sinMemoria, sinLlegada
  <2>3. CASE DispIoNormal
    <3>1. PICK q : q = suyo["disp"]
      OBVIOUS
    <3>2. Pasa(q, "io_normal", "ready") /\ MemoriaIgual /\ VentanaIgual
      BY <1>v, <2>3, <3>1, PasaIoNormal
    <3>3. <<"io_normal", "ready">> \in Traslados
      BY DEF Traslados
    <3>4. QED
      BY <3>2, <3>3, <1>u
  <2>4. CASE DispSuspende
    <3>1. PICK q : q = suyo["disp"]
      OBVIOUS
    <3>2. /\ Pasa(q, "io_suspender", "io_subir") /\ VentanaIgual
          /\ memoria' = [memoria EXCEPT ![q] = "suspendido"] /\ estado' = [estado EXCEPT ![q] = "suspended blocked"]
      BY <1>v, <2>4, <3>1, PasaDispSuspende
    <3>3. Suspende(q)
      BY <3>1, <3>2 DEF Suspende, Memoria, Estado
    <3>4. QED
      BY <3>3 DEF Movimiento
  <2>5. CASE DispSube
    <3>1. PICK q : q = suyo["disp"]
      OBVIOUS
    <3>2. Pasa(q, "io_subir", "sus_ready") /\ MemoriaIgual /\ VentanaIgual
      BY <1>v, <2>5, <3>1, PasaSube
    <3>3. <<"io_subir", "sus_ready">> \in Traslados
      BY DEF Traslados
    <3>4. QED
      BY <3>2, <3>3, <1>u
  <2>6. CASE DispASusReady
    <3>1. PICK q : q = suyo["disp"]
      OBVIOUS
    <3>2. /\ Pasa(q, "sus_ready", "susReady") /\ UNCHANGED memoria /\ VentanaIgual
          /\ estado' = [estado EXCEPT ![q] = "suspended ready"]
      BY <1>v, <2>6, <3>1, PasaASusReady
    <3>3. FinSus(q)
      BY <3>1, <3>2 DEF FinSus, Estado
    <3>4. QED
      BY <3>3 DEF Movimiento
  <2>7. CASE DispAvisa
    <3>1. /\ hilo["disp"] \notin Trabajos /\ UNCHANGED <<cola, despacho, retorno, afuera, memoria, estado>>
          /\ (\A g \in Hilos : g # "disp" => hilo'[g] = hilo[g] /\ suyo'[g] = suyo[g])
          /\ "disp" = "recibe" => hilo["recibe"] # "marcar" /\ hilo'["recibe"] # "marcar"
      BY <1>v, <2>7, DePaso DEF DispAvisa, Guarda, Hilos, Trabajos, sinCpu, sinMemoria, sinLlegada
    <3>2. NadiePasa
      BY <3>1, NoTrabaja DEF Hilos
    <3>3. VentanaIgual
      BY <3>1 DEF VentanaIgual, EnLaVentana, Hilos
    <3>4. QED
      BY <3>1, <3>2, <3>3 DEF Movimiento, Queda, MemoriaIgual
  <2>8. CASE DispSuelta
    <3>1. /\ hilo["disp"] \notin Trabajos /\ UNCHANGED <<cola, despacho, retorno, afuera, memoria, estado>>
          /\ (\A g \in Hilos : g # "disp" => hilo'[g] = hilo[g] /\ suyo'[g] = suyo[g])
          /\ "disp" = "recibe" => hilo["recibe"] # "marcar" /\ hilo'["recibe"] # "marcar"
      BY <1>v, <2>8, DePaso DEF DispSuelta, Guarda, Hilos, Trabajos, sinCpu, sinMemoria, sinLlegada
    <3>2. NadiePasa
      BY <3>1, NoTrabaja DEF Hilos
    <3>3. VentanaIgual
      BY <3>1 DEF VentanaIgual, EnLaVentana, Hilos
    <3>4. QED
      BY <3>1, <3>2, <3>3 DEF Movimiento, Queda, MemoriaIgual
  <2>9. QED
    BY <1>9, <2>1, <2>2, <2>3, <2>4, <2>5, <2>6, <2>7, <2>8 DEF Disp
<1>10. CASE UNCHANGED vars
  BY <1>2, <1>10 DEF vars
<1>11. QED
  BY <1>1, <1>3, <1>4, <1>5, <1>6, <1>7, <1>8, <1>9, <1>10 DEF Next, Llegada

----------------------------------------------------------------------------
\* SegunLugar of a process whose only place is x: m is what memory knows, e its
\* process_state, v whether it is in the window.
Segun(x, m, e, v) ==
  \/ m = "sin" /\ x \in {"afuera"} \union EnNew
  \/ m = "activo" /\ x \in {"ready", "io_normal", "io_suspender"} \union EnExec
  \/ m = "activo" /\ e = "blocked" /\ x = "suspender"
  \/ m = "suspendido" /\ x \in {"io_subir", "sus_ready"} \union EnSusReady
  \/ m = "eliminado"
  \/ /\ x \in {"io", "leer"}
     /\ \/ v /\ m = "activo"
        \/ ~v /\ e = "blocked" /\ m = "activo"
        \/ ~v /\ e = "suspended blocked" /\ m = "suspendido"

\* What memory and process_state must say depends on the place alone.
LEMMA SegunSitio ==
  ASSUME NEW p, NEW x, \A s : EstaEn(s, p) <=> s = x
  PROVE  /\ SegunLugar(p) <=> Segun(x, memoria[p], estado[p], EnLaVentana(p))
         /\ memoria[p] = "eliminado" => x = "eliminado"
<1>1. \A S : Entre(S, p) <=> x \in S
  BY DEF Entre
<1>2. EstaEn("suspender", p) <=> x = "suspender"
  OBVIOUS
<1>3. memoria[p] = "eliminado" => x = "eliminado"
  BY DEF EstaEn
<1>4. CASE EnLaVentana(p)
  BY <1>1, <1>2, <1>3, <1>4 DEF SegunLugar, Segun, EstadoFiel
<1>5. CASE ~EnLaVentana(p)
  BY <1>1, <1>2, <1>3, <1>5 DEF SegunLugar, Segun, EstadoFiel
<1>6. QED
  BY <1>3, <1>4, <1>5

\* The same after a step, place by place.
LEMMA SegunSitioDespues ==
  ASSUME NEW p, NEW x, \A s : EstaEn(s, p)' <=> s = x,
         NEW v \in BOOLEAN, v <=> EnLaVentana(p)',
         Segun(x, memoria'[p], estado'[p], v)
  PROVE  SegunLugar(p)'
<1>1. \A S : Entre(S, p)' <=> x \in S
  BY DEF Entre
<1>2. EstaEn("suspender", p)' <=> x = "suspender"
  OBVIOUS
<1>4. CASE v
  BY <1>1, <1>2, <1>4 DEF SegunLugar, Segun, EstadoFiel
<1>5. CASE ~v
  BY <1>1, <1>2, <1>5 DEF SegunLugar, Segun, EstadoFiel
<1>6. QED
  BY <1>4, <1>5

\* A process that stays where it is, and of which nothing is said.
LEMMA SegunQuieto ==
  ASSUME UnSitio, NEW p \in Procesos, SegunLugar(p),
         \A s : EstaEn(s, p)' <=> EstaEn(s, p),
         memoria'[p] = memoria[p], estado'[p] = estado[p], EnLaVentana(p)' <=> EnLaVentana(p)
  PROVE  SegunLugar(p)'
<1>1. PICK x : \A s : EstaEn(s, p) <=> s = x
  BY DEF UnSitio
<1>2. Segun(x, memoria[p], estado[p], EnLaVentana(p))
  BY <1>1, SegunSitio
<1>3. \A s : EstaEn(s, p)' <=> s = x
  BY <1>1
<1>4. EnLaVentana(p) \in BOOLEAN
  BY DEF EnLaVentana
<1>5. Segun(x, memoria'[p], estado'[p], EnLaVentana(p))
  BY <1>2
<1>6. QED
  BY <1>3, <1>4, <1>5, SegunSitioDespues

\* The process that moves: from Segun at its place to Segun at the next one.
LEMMA SegunMovido ==
  ASSUME UnSitio, UnSitio', MemoriaSegunLugar,
         NEW q, NEW de, NEW a, Pasa(q, de, a),
         NEW v \in BOOLEAN, v <=> EnLaVentana(q),
         NEW w \in BOOLEAN, w <=> EnLaVentana(q)',
         Segun(de, memoria[q], estado[q], v) /\ memoria[q] # "eliminado"
           => Segun(a, memoria'[q], estado'[q], w),
         de # "eliminado",
         \A p \in Procesos : p # q =>
           /\ memoria'[p] = memoria[p] /\ estado'[p] = estado[p]
           /\ EnLaVentana(p)' <=> EnLaVentana(p)
  PROVE  MemoriaSegunLugar'
<1>1. /\ q \in Procesos
      /\ \A s : EstaEn(s, q) <=> s = de
      /\ \A s : EstaEn(s, q)' <=> s = a
      /\ \A p \in Procesos : p # q => \A s : EstaEn(s, p)' <=> EstaEn(s, p)
  BY DePasa
<1>2. Segun(de, memoria[q], estado[q], EnLaVentana(q)) /\ memoria[q] # "eliminado"
  BY <1>1, SegunSitio DEF MemoriaSegunLugar
<1>3. Segun(de, memoria[q], estado[q], v)
  BY <1>2 DEF Segun
<1>4. SegunLugar(q)'
  BY <1>1, <1>2, <1>3, SegunSitioDespues
<1>5. \A p \in Procesos : p # q => SegunLugar(p)'
  BY <1>1, SegunQuieto DEF MemoriaSegunLugar
<1>6. QED
  BY <1>4, <1>5 DEF MemoriaSegunLugar

\* Every move keeps MemoriaSegunLugar: the window matters where the gestor
\* suspends a PCB and where the device reads process_state.
LEMMA MemoriaSeConserva ==
  ASSUME InvLugares, UnSitio, UnSitio', MemoriaSegunLugar, VentanaSinUsar, Movimiento
  PROVE  MemoriaSegunLugar'
<1>t. /\ memoria \in [Procesos -> Memorias] /\ estado \in [Procesos -> Estados]
      /\ Nadie \notin Procesos
  BY ProcesosAssumption DEF InvLugares, Inductiva, TypeOK, TiposDatos
<1>v. \A p : EnLaVentana(p) \in BOOLEAN /\ EnLaVentana(p)' \in BOOLEAN
  BY DEF EnLaVentana
<1>w. \A q : EnLaVentana(q) /\ (suyo["disp"] = q \/ suyo["gestor"] = q) => estado[q] = "nulo"
  BY DEF VentanaSinUsar, EnLaVentana
<1>m. \A q \in Procesos : \A m : Memoria(q, m) =>
        memoria'[q] = m /\ \A p \in Procesos : p # q => memoria'[p] = memoria[p]
  BY <1>t DEF Memoria
<1>e. \A q \in Procesos : \A e : Estado(q, e) =>
        estado'[q] = e /\ \A p \in Procesos : p # q => estado'[p] = estado[p]
  BY <1>t DEF Estado
<1>q. \A q, de, a : Pasa(q, de, a) => q \in Procesos
  BY DEF Pasa
<1>i. MemoriaIgual => \A p : memoria'[p] = memoria[p] /\ estado'[p] = estado[p]
  BY DEF MemoriaIgual
<1>u. VentanaIgual => \A p : EnLaVentana(p)' <=> EnLaVentana(p)
  BY DEF VentanaIgual
<1>1. CASE Queda
  <2>1. \A p \in Procesos : \A s : EstaEn(s, p)' <=> EstaEn(s, p)
    BY <1>1, DeNadiePasa DEF Queda
  <2>2. \A p \in Procesos : SegunLugar(p)'
    BY <1>1, <1>i, <1>u, <2>1, SegunQuieto DEF Queda, MemoriaSegunLugar
  <2>3. QED
    BY <2>2 DEF MemoriaSegunLugar
<1>2. ASSUME NEW q, Traslada(q) PROVE MemoriaSegunLugar'
  <2>1. PICK de, a : <<de, a>> \in Traslados /\ Pasa(q, de, a)
    BY <1>2 DEF Traslada, Traslados
  <2>2. MemoriaIgual /\ VentanaIgual
    BY <1>2 DEF Traslada
  <2>3. PICK v \in BOOLEAN : v <=> EnLaVentana(q)
    OBVIOUS
  <2>4. /\ de # "eliminado"
        /\ Segun(de, memoria[q], estado[q], v) /\ memoria[q] # "eliminado"
             => Segun(a, memoria[q], estado[q], v)
    BY <2>1 DEF Traslados, Segun, EnNew, EnExec, EnSusReady
  <2>5. QED
    BY <1>i, <1>u, <2>1, <2>2, <2>3, <2>4, SegunMovido
<1>3. ASSUME NEW q, Activa(q) PROVE MemoriaSegunLugar'
  <2>1. PICK de \in {"crear", "reanudar"} : Pasa(q, de, "ready")
    BY <1>3 DEF Activa
  <2>2. /\ memoria'[q] = "activo" /\ VentanaIgual
        /\ \A p \in Procesos : p # q => memoria'[p] = memoria[p] /\ estado'[p] = estado[p]
    BY <1>3, <1>q, <1>m, <2>1 DEF Activa
  <2>3. PICK v \in BOOLEAN : v <=> EnLaVentana(q)
    OBVIOUS
  <2>4. Segun("ready", memoria'[q], estado'[q], v)
    BY <2>2 DEF Segun
  <2>5. QED
    BY <1>u, <2>1, <2>2, <2>3, <2>4, SegunMovido
<1>4. ASSUME NEW q, Encola(q) PROVE MemoriaSegunLugar'
  <2>1. /\ Pasa(q, "encolar_io", "io") /\ MemoriaIgual
        /\ \A p : ~EnLaVentana(p) /\ (EnLaVentana(p)' <=> p = q)
    BY <1>4 DEF Encola
  <2>2. PICK v \in BOOLEAN, w \in BOOLEAN : ~v /\ w
    OBVIOUS
  <2>3. Segun("encolar_io", memoria[q], estado[q], v) /\ memoria[q] # "eliminado"
          => Segun("io", memoria'[q], estado'[q], w)
    BY <1>i, <2>1, <2>2 DEF Segun, EnNew, EnExec, EnSusReady
  <2>4. (v <=> EnLaVentana(q)) /\ (w <=> EnLaVentana(q)')
    BY <2>1, <2>2
  <2>5. \A p \in Procesos : p # q =>
          /\ memoria'[p] = memoria[p] /\ estado'[p] = estado[p]
          /\ EnLaVentana(p)' <=> EnLaVentana(p)
    BY <1>i, <2>1
  <2>6. QED
    BY <2>1, <2>3, <2>4, <2>5, SegunMovido
<1>5. ASSUME NEW q, Marca(q) PROVE MemoriaSegunLugar'
  <2>1. /\ NadiePasa /\ UNCHANGED memoria /\ Estado(q, "blocked")
        /\ \A p : (EnLaVentana(p) <=> p = q) /\ ~EnLaVentana(p)'
    BY <1>5 DEF Marca
  <2>2. \A p \in Procesos : \A s : EstaEn(s, p)' <=> EstaEn(s, p)
    BY <2>1, DeNadiePasa
  <2>3. ASSUME NEW p \in Procesos, p # q PROVE SegunLugar(p)'
    <3>1. estado'[p] = estado[p]
      BY <1>t, <2>1, <2>3 DEF Estado
    <3>2. QED
      BY <2>1, <2>2, <2>3, <3>1, SegunQuieto DEF MemoriaSegunLugar
  <2>4. ASSUME q \in Procesos PROVE SegunLugar(q)'
    <3>1. PICK x : \A s : EstaEn(s, q) <=> s = x
      BY <2>4 DEF UnSitio
    <3>2. Segun(x, memoria[q], estado[q], TRUE)
      BY <2>1, <2>4, <3>1, SegunSitio DEF MemoriaSegunLugar, Segun
    <3>3. estado'[q] = "blocked" /\ memoria'[q] = memoria[q]
      BY <1>e, <2>1, <2>4
    <3>4. Segun(x, memoria'[q], estado'[q], FALSE)
      BY <3>2, <3>3 DEF Segun
    <3>5. QED
      BY <2>1, <2>2, <2>4, <3>1, <3>4, SegunSitioDespues
  <2>5. QED
    BY <2>3, <2>4 DEF MemoriaSegunLugar
<1>6. ASSUME NEW q, Finaliza(q) PROVE MemoriaSegunLugar'
  <2>1. Pasa(q, "finalizar", "eliminado")
    BY <1>6 DEF Finaliza
  <2>2. /\ memoria'[q] = "eliminado" /\ VentanaIgual
        /\ \A p \in Procesos : p # q => memoria'[p] = memoria[p] /\ estado'[p] = estado[p]
    BY <1>6, <1>q, <1>m, <2>1 DEF Finaliza
  <2>3. PICK v \in BOOLEAN : v <=> EnLaVentana(q)
    OBVIOUS
  <2>4. Segun("eliminado", memoria'[q], estado'[q], v)
    BY <2>2 DEF Segun
  <2>5. QED
    BY <1>u, <2>1, <2>2, <2>3, <2>4, SegunMovido
<1>7. ASSUME NEW q, Vence(q) PROVE MemoriaSegunLugar'
  <2>1. MemoriaIgual /\ VentanaIgual /\ estado[q] = "blocked" /\ Pasa(q, "io", "suspender")
    BY <1>7 DEF Vence
  <2>2. PICK v \in BOOLEAN : v <=> EnLaVentana(q)
    OBVIOUS
  <2>3. Segun("io", memoria[q], estado[q], v) /\ memoria[q] # "eliminado"
          => Segun("suspender", memoria'[q], estado'[q], v)
    BY <1>i, <2>1 DEF Segun, EnNew, EnExec, EnSusReady
  <2>4. QED
    BY <1>i, <1>u, <2>1, <2>2, <2>3, SegunMovido
<1>8. ASSUME NEW q, Suspende(q) PROVE MemoriaSegunLugar'
  <2>1. PICK de, a : /\ Pasa(q, de, a)
                     /\ \/ de = "suspender" /\ a = "io" /\ suyo["gestor"] = q
                        \/ de = "io_suspender" /\ a = "io_subir"
    BY <1>8 DEF Suspende
  <2>2. /\ memoria'[q] = "suspendido" /\ estado'[q] = "suspended blocked" /\ VentanaIgual
        /\ \A p \in Procesos : p # q => memoria'[p] = memoria[p] /\ estado'[p] = estado[p]
    <3>1. q \in Procesos /\ Memoria(q, "suspendido") /\ Estado(q, "suspended blocked") /\ VentanaIgual
      BY <1>8, <1>q, <2>1 DEF Suspende
    <3>2. memoria'[q] = "suspendido" /\ \A p \in Procesos : p # q => memoria'[p] = memoria[p]
      BY <1>m, <3>1
    <3>3. estado'[q] = "suspended blocked" /\ \A p \in Procesos : p # q => estado'[p] = estado[p]
      BY <1>e, <3>1
    <3>4. QED
      BY <3>1, <3>2, <3>3
  <2>3. PICK v \in BOOLEAN : v <=> EnLaVentana(q)
    OBVIOUS
  <2>4. Segun(de, memoria[q], estado[q], v) /\ memoria[q] # "eliminado"
          => Segun(a, memoria'[q], estado'[q], v)
    BY <1>w, <2>1, <2>2, <2>3 DEF Segun, EnNew, EnExec, EnSusReady
  <2>5. /\ de # "eliminado" /\ (v <=> EnLaVentana(q)')
        /\ \A p \in Procesos : p # q => /\ memoria'[p] = memoria[p] /\ estado'[p] = estado[p]
                                       /\ EnLaVentana(p)' <=> EnLaVentana(p)
    BY <1>u, <2>1, <2>2, <2>3
  <2>6. QED
    BY <2>1, <2>2, <2>3, <2>4, <2>5, SegunMovido, ZenonT(30)
<1>9. ASSUME NEW q, Lee(q) PROVE MemoriaSegunLugar'
  <2>1. PICK a : /\ Pasa(q, "leer", a)
                 /\ \/ estado[q] = "blocked" /\ a \in {"io_normal", "io_suspender"}
                    \/ estado[q] \notin {"nulo", "blocked"} /\ a = "sus_ready"
    BY <1>9 DEF Lee
  <2>2. MemoriaIgual /\ VentanaIgual /\ suyo["disp"] = q
    BY <1>9 DEF Lee
  <2>3. PICK v \in BOOLEAN : v <=> EnLaVentana(q)
    OBVIOUS
  <2>4. Segun("leer", memoria[q], estado[q], v) /\ memoria[q] # "eliminado"
          => Segun(a, memoria'[q], estado'[q], v)
    BY <1>i, <1>w, <2>1, <2>2, <2>3 DEF Segun, EnNew, EnExec, EnSusReady
  <2>5. QED
    BY <1>i, <1>u, <2>1, <2>2, <2>3, <2>4, SegunMovido
<1>10. ASSUME NEW q, FinSus(q) PROVE MemoriaSegunLugar'
  <2>1. Pasa(q, "sus_ready", "susReady")
    BY <1>10 DEF FinSus
  <2>2. /\ UNCHANGED memoria /\ VentanaIgual
        /\ \A p \in Procesos : p # q => memoria'[p] = memoria[p] /\ estado'[p] = estado[p]
    BY <1>10, <1>q, <1>e, <2>1 DEF FinSus
  <2>3. PICK v \in BOOLEAN : v <=> EnLaVentana(q)
    OBVIOUS
  <2>4. Segun("sus_ready", memoria[q], estado[q], v) /\ memoria[q] # "eliminado"
          => Segun("susReady", memoria'[q], estado'[q], v)
    BY <2>2 DEF Segun, EnNew, EnExec, EnSusReady
  <2>5. QED
    BY <1>u, <2>1, <2>2, <2>3, <2>4, SegunMovido
<1>11. QED
  BY <1>1, <1>2, <1>3, <1>4, <1>5, <1>6, <1>7, <1>8, <1>9, <1>10 DEF Movimiento

----------------------------------------------------------------------------
(* The degree of multiprogramming.                                         *)

\* The terms of NingunLugarSePierde.
Sube      == {"mirar_sus", "reanudar", "mirar_new", "crear"}
sMulti    == sem["multi"]
nRes      == Cardinality(Residentes)
LargoSube == Uno(hilo["largo"] \in Sube)
FinDebe   == Uno(hilo["recibe"] = "avisar_fin")
DispDebe  == Uno(hilo["disp"] = "io_subir")
Adelanto  == Uno(hilo["gestor"] = "suspender")

Plazas == sMulti + LargoSube + nRes + FinDebe + DispDebe

NumerosPlazas ==
  /\ sMulti \in Nat /\ nRes \in Nat
  /\ LargoSube \in {0, 1} /\ FinDebe \in {0, 1} /\ DispDebe \in {0, 1} /\ Adelanto \in {0, 1}

\* The terms of the sum of places of the multiprogramming degree are numbers.
LEMMA PlazasNumeros == TypeOK => NumerosPlazas
<1>1. nRes \in Nat
  BY ProcesosAssumption, FS_Subset, FS_CardinalityType DEF nRes, Residentes
<1>2. QED
  BY <1>1 DEF TypeOK, TiposDatos, NumerosPlazas, sMulti, Semaforos, LargoSube, FinDebe,
     DispDebe, Adelanto, Uno

\* The same after a step.
LEMMA PlazasNumerosDespues == TypeOK' => NumerosPlazas'
BY PlazasNumeros, PTL

\* The invariant of the degree, as that sum.
LEMMA PlazasSuman == NingunLugarSePierde <=> Plazas = Grado + Adelanto
BY DEF NingunLugarSePierde, Plazas, sMulti, nRes, LargoSube, FinDebe, DispDebe, Adelanto, Sube

\* The same after a step.
LEMMA PlazasSumanDespues == NingunLugarSePierde' <=> Plazas' = Grado + Adelanto'
BY DEF NingunLugarSePierde, Plazas, sMulti, nRes, LargoSube, FinDebe, DispDebe, Adelanto, Sube

----------------------------------------------------------------------------
\* A process that memory is told about enters or leaves Residentes.
LEMMA ResidentesCambian ==
  ASSUME TypeOK, NEW q \in Procesos, NEW m, memoria' = [memoria EXCEPT ![q] = m]
  PROVE  /\ memoria[q] # "activo" /\ m = "activo" => nRes' = nRes + 1
         /\ memoria[q] = "activo" /\ m # "activo" => nRes' = nRes - 1
<1>1. memoria \in [Procesos -> Memorias]
  BY DEF TypeOK, TiposDatos
<1>2. IsFiniteSet(Residentes)
  BY ProcesosAssumption, FS_Subset DEF Residentes
<1>3. memoria'[q] = m /\ \A p \in Procesos : p # q => memoria'[p] = memoria[p]
  BY <1>1
<1>4. CASE memoria[q] # "activo" /\ m = "activo"
  <2>1. Residentes' = Residentes \union {q} /\ q \notin Residentes
    BY <1>3, <1>4 DEF Residentes
  <2>2. Cardinality(Residentes \union {q}) = Cardinality(Residentes) + 1
    BY <1>2, <2>1, FS_AddElement
  <2>3. QED
    BY <1>4, <2>1, <2>2 DEF nRes
<1>5. CASE memoria[q] = "activo" /\ m # "activo"
  <2>1. Residentes' = Residentes \ {q} /\ q \in Residentes
    BY <1>3, <1>5 DEF Residentes
  <2>2. Cardinality(Residentes \ {q}) = Cardinality(Residentes) - 1
    BY <1>2, <2>1, FS_RemoveElement
  <2>3. QED
    BY <1>5, <2>1, <2>2 DEF nRes
<1>6. QED
  BY <1>4, <1>5

\* Where the thread has the process says what memory knows about it.
LEMMA MemoriaEnMano ==
  ASSUME TypeOK, UnSitio, MemoriaSegunLugar,
         NEW h \in Hilos, suyo[h] \in Procesos, hilo[h] \in Trabajos
  PROVE  /\ hilo[h] \in {"crear", "reanudar"} => memoria[suyo[h]] # "activo"
         /\ hilo[h] \in {"finalizar", "suspender", "io_suspender"} => memoria[suyo[h]] = "activo"
<1>1. PICK q \in Procesos : q = suyo[h]
  OBVIOUS
<1>2. EstaEn(hilo[h], q)
  BY <1>1, EnManoEsta
<1>3. PICK x : \A s : EstaEn(s, q) <=> s = x
  BY <1>1 DEF UnSitio
<1>4. x = hilo[h]
  BY <1>2, <1>3
<1>5. Segun(x, memoria[q], estado[q], EnLaVentana(q)) /\ (memoria[q] = "eliminado" => x = "eliminado")
  BY <1>3, SegunSitio DEF MemoriaSegunLugar
<1>6. "eliminado" \notin Trabajos
  BY DEF Trabajos
<1>7. QED
  BY <1>1, <1>4, <1>5, <1>6 DEF Segun, EnNew, EnExec, EnSusReady

----------------------------------------------------------------------------
\* The threads that hold or owe a place do so before and after the step.
MismosTurnos(h) ==
  /\ h = "largo"  \/ UNCHANGED LargoSube
  /\ h = "recibe" \/ UNCHANGED FinDebe
  /\ h = "disp"   \/ UNCHANGED DispDebe
  /\ h = "gestor" \/ UNCHANGED Adelanto

\* A step of one thread leaves what the others owe to the degree.
LEMMA TurnosDeOtros ==
  ASSUME NEW h, \A g \in Hilos : g # h => hilo'[g] = hilo[g]
  PROVE  MismosTurnos(h)
BY DEF MismosTurnos, Hilos, LargoSube, FinDebe, DispDebe, Adelanto

MismasPlazas == UNCHANGED <<sMulti, nRes, LargoSube, FinDebe, DispDebe, Adelanto>>

\* A step of thread h that leaves memory and the semaphore alone.
LEMMA SinPlazas ==
  ASSUME MismosTurnos("ninguno"), UNCHANGED <<sMulti, memoria>>
  PROVE  MismasPlazas
BY DEF MismosTurnos, MismasPlazas, nRes, Residentes

\* Each step moves a place from one term to another.
LEMMA PlazasSeConservan ==
  ASSUME TypeOK, TypeOK', Cuentas, ManosVacias, UnSitio, MemoriaSegunLugar,
         Plazas = Grado + Adelanto, [Next]_vars
  PROVE  Plazas' = Grado + Adelanto'
<1>n. NumerosPlazas /\ NumerosPlazas'
  BY PlazasNumeros, PlazasNumerosDespues
<1>g. Grado \in Nat
  BY GradoAssumption
<1>v. /\ hilo \in [Hilos -> Pcs] /\ sem \in [Semaforos -> Nat]
      /\ suyo \in [Hilos -> Procesos \union {Nadie}] /\ ManosLlenas
  BY DEF TypeOK, TiposHilos, TiposDatos
<1>m. MismasPlazas => Plazas' = Grado + Adelanto'
  BY DEF MismasPlazas, Plazas
<1>1. ASSUME NEW p \in Procesos, Recibir(p) PROVE Plazas' = Grado + Adelanto'
  <2>1. UNCHANGED <<sMulti, memoria, hilo>>
    BY <1>1 DEF Recibir, sMulti, sinMemoria
  <2>2. QED
    BY <1>m, <2>1, SinPlazas, TurnosDeOtros
<1>2. ASSUME NEW p \in Procesos, AvisarLlegada(p) PROVE Plazas' = Grado + Adelanto'
  <2>1. UNCHANGED <<sMulti, memoria, hilo>>
    BY <1>v, <1>2, DeSemPost DEF AvisarLlegada, sMulti, Semaforos, sinMemoria
  <2>2. QED
    BY <1>m, <2>1, SinPlazas, TurnosDeOtros
<1>3. CASE Largo
  <2>1. CASE LargoEsperaLista
    <3>1. /\ \A g \in Hilos : g # "largo" => hilo'[g] = hilo[g]
          /\ (hilo'["largo"] \in Sube <=> hilo["largo"] \in Sube)
      BY <1>v, <2>1, DePaso DEF LargoEsperaLista, Hilos, Sube
    <3>2. UNCHANGED <<sMulti, memoria>>
      BY <1>v, <2>1, DeSemWait DEF LargoEsperaLista, sMulti, Semaforos, sinMemoria
    <3>3. MismosTurnos("ninguno")
      <4>1. MismosTurnos("largo")
        BY <3>1, TurnosDeOtros
      <4>2. QED
        BY <3>1, <4>1 DEF MismosTurnos, LargoSube
    <3>4. QED
      BY <1>m, <3>2, <3>3, SinPlazas
  <2>2. CASE LargoEsperaMulti
    <3>1. /\ hilo["largo"] = "wait_multi" /\ hilo'["largo"] = "mirar_sus"
          /\ \A g \in Hilos : g # "largo" => hilo'[g] = hilo[g]
      BY <1>v, <2>2, DePaso DEF LargoEsperaMulti, Hilos
    <3>2. LargoSube = 0 /\ LargoSube' = 1 /\ MismosTurnos("largo")
      BY <3>1, TurnosDeOtros DEF LargoSube, Uno, Sube
    <3>3. sMulti' = sMulti - 1
      BY <1>v, <2>2, DeSemWait DEF LargoEsperaMulti, sMulti, Semaforos
    <3>4. UNCHANGED nRes
      BY <2>2 DEF LargoEsperaMulti, nRes, Residentes, sinMemoria
    <3>5. QED
      BY <1>n, <1>g, <3>2, <3>3, <3>4 DEF Plazas, NumerosPlazas, MismosTurnos
  <2>3. CASE LargoMiraSus
    <3>1. /\ \A g \in Hilos : g # "largo" => hilo'[g] = hilo[g]
          /\ (hilo'["largo"] \in Sube <=> hilo["largo"] \in Sube)
      BY <1>v, <2>3, DePaso DEF LargoMiraSus, Hilos, Sube
    <3>2. UNCHANGED <<sMulti, memoria>>
      BY <1>v, <2>3 DEF LargoMiraSus, sMulti, Semaforos, sinMemoria
    <3>3. MismosTurnos("ninguno")
      <4>1. MismosTurnos("largo")
        BY <3>1, TurnosDeOtros
      <4>2. QED
        BY <3>1, <4>1 DEF MismosTurnos, LargoSube
    <3>4. QED
      BY <1>m, <3>2, <3>3, SinPlazas
  <2>4. CASE LargoReanuda
    <3>1. /\ hilo["largo"] = "reanudar" /\ hilo'["largo"] = "avisar_sus"
          /\ \A g \in Hilos : g # "largo" => hilo'[g] = hilo[g]
      BY <1>v, <2>4, DePaso DEF LargoReanuda, AReady, Hilos
    <3>2. LargoSube = 1 /\ LargoSube' = 0 /\ MismosTurnos("largo")
      BY <3>1, TurnosDeOtros DEF LargoSube, Uno, Sube
    <3>3. UNCHANGED sMulti
      BY <1>v, <2>4 DEF LargoReanuda, AReady, sMulti, Semaforos
    <3>4. nRes' = nRes + 1
      <4>1. PICK q \in Procesos : q = suyo["largo"]
        BY <1>v, <3>1 DEF ManosLlenas
      <4>2. memoria[q] # "activo"
        BY <3>1, <4>1, MemoriaEnMano DEF Hilos, Trabajos
      <4>3. memoria' = [memoria EXCEPT ![q] = "activo"]
        BY <2>4, <4>1 DEF LargoReanuda, AReady
      <4>4. PICK m : m = "activo"
        OBVIOUS
      <4>5. memoria' = [memoria EXCEPT ![q] = m]
        BY <4>3, <4>4
      <4>6. m = "activo"
        BY <4>4
      <4>7. QED
        BY <4>2, <4>5, <4>6, ResidentesCambian
    <3>5. QED
      BY <1>n, <1>g, <3>2, <3>3, <3>4 DEF Plazas, NumerosPlazas, MismosTurnos
  <2>5. CASE LargoAvisaSus
    <3>1. /\ \A g \in Hilos : g # "largo" => hilo'[g] = hilo[g]
          /\ (hilo'["largo"] \in Sube <=> hilo["largo"] \in Sube)
      BY <1>v, <2>5, DePaso DEF LargoAvisaSus, Hilos, Sube
    <3>2. UNCHANGED <<sMulti, memoria>>
      BY <1>v, <2>5, DeSemPost DEF LargoAvisaSus, sMulti, Semaforos, sinMemoria
    <3>3. MismosTurnos("ninguno")
      <4>1. MismosTurnos("largo")
        BY <3>1, TurnosDeOtros
      <4>2. QED
        BY <3>1, <4>1 DEF MismosTurnos, LargoSube
    <3>4. QED
      BY <1>m, <3>2, <3>3, SinPlazas
  <2>6. CASE LargoMiraNew
    <3>1. cola["new"] # <<>>
      BY <2>6, HayQueSacar DEF LargoMiraNew, Paso, En, ColasNuncaVacias, Inductiva
    <3>2. /\ hilo["largo"] = "mirar_new" /\ hilo'["largo"] = "crear"
          /\ \A g \in Hilos : g # "largo" => hilo'[g] = hilo[g]
      BY <1>v, <2>6, <3>1, DePaso DEF LargoMiraNew, Hilos
    <3>3. UNCHANGED <<sMulti, memoria>>
      BY <2>6 DEF LargoMiraNew, sMulti, sinMemoria
    <3>4. MismosTurnos("ninguno")
      BY <3>2, TurnosDeOtros DEF MismosTurnos, LargoSube, Sube
    <3>5. QED
      BY <1>m, <3>3, <3>4, SinPlazas
  <2>7. CASE LargoCrea
    <3>1. /\ hilo["largo"] = "crear" /\ hilo'["largo"] = "avisar_new"
          /\ \A g \in Hilos : g # "largo" => hilo'[g] = hilo[g]
      BY <1>v, <2>7, DePaso DEF LargoCrea, AReady, Hilos
    <3>2. LargoSube = 1 /\ LargoSube' = 0 /\ MismosTurnos("largo")
      BY <3>1, TurnosDeOtros DEF LargoSube, Uno, Sube
    <3>3. UNCHANGED sMulti
      BY <1>v, <2>7 DEF LargoCrea, AReady, sMulti, Semaforos
    <3>4. nRes' = nRes + 1
      <4>1. PICK q \in Procesos : q = suyo["largo"]
        BY <1>v, <3>1 DEF ManosLlenas
      <4>2. memoria[q] # "activo"
        BY <3>1, <4>1, MemoriaEnMano DEF Hilos, Trabajos
      <4>3. memoria' = [memoria EXCEPT ![q] = "activo"]
        BY <2>7, <4>1 DEF LargoCrea, AReady
      <4>4. PICK m : m = "activo"
        OBVIOUS
      <4>5. memoria' = [memoria EXCEPT ![q] = m]
        BY <4>3, <4>4
      <4>6. m = "activo"
        BY <4>4
      <4>7. QED
        BY <4>2, <4>5, <4>6, ResidentesCambian
    <3>5. QED
      BY <1>n, <1>g, <3>2, <3>3, <3>4 DEF Plazas, NumerosPlazas, MismosTurnos
  <2>8. CASE LargoAvisaNew
    <3>1. /\ \A g \in Hilos : g # "largo" => hilo'[g] = hilo[g]
          /\ (hilo'["largo"] \in Sube <=> hilo["largo"] \in Sube)
      BY <1>v, <2>8, DePaso DEF LargoAvisaNew, Hilos, Sube
    <3>2. UNCHANGED <<sMulti, memoria>>
      BY <1>v, <2>8, DeSemPost DEF LargoAvisaNew, sMulti, Semaforos, sinMemoria
    <3>3. MismosTurnos("ninguno")
      <4>1. MismosTurnos("largo")
        BY <3>1, TurnosDeOtros
      <4>2. QED
        BY <3>1, <4>1 DEF MismosTurnos, LargoSube
    <3>4. QED
      BY <1>m, <3>2, <3>3, SinPlazas
  <2>9. QED
    BY <1>3, <2>1, <2>2, <2>3, <2>4, <2>5, <2>6, <2>7, <2>8 DEF Largo
<1>4. CASE Corto
  <2>1. CASE CortoEspera
    <3>1. /\ \A g \in Hilos : g # "corto" => hilo'[g] = hilo[g]
      BY <1>v, <2>1, DePaso DEF CortoEspera, Hilos
    <3>2. UNCHANGED <<sMulti, memoria>>
      BY <1>v, <2>1, DeSemWait DEF CortoEspera, sMulti, Semaforos, sinMemoria
    <3>3. MismosTurnos("ninguno")
      <4>1. MismosTurnos("corto")
        BY <3>1, TurnosDeOtros
      <4>2. QED
        BY <3>1, <4>1 DEF MismosTurnos
    <3>4. QED
      BY <1>m, <3>2, <3>3, SinPlazas
  <2>2. CASE CortoEsperaLista
    <3>1. /\ \A g \in Hilos : g # "corto" => hilo'[g] = hilo[g]
      BY <1>v, <2>2, DePaso DEF CortoEsperaLista, Hilos
    <3>2. UNCHANGED <<sMulti, memoria>>
      BY <1>v, <2>2, DeSemWait DEF CortoEsperaLista, sMulti, Semaforos, sinMemoria
    <3>3. MismosTurnos("ninguno")
      <4>1. MismosTurnos("corto")
        BY <3>1, TurnosDeOtros
      <4>2. QED
        BY <3>1, <4>1 DEF MismosTurnos
    <3>4. QED
      BY <1>m, <3>2, <3>3, SinPlazas
  <2>3. CASE CortoElige
    <3>1. /\ \A g \in Hilos : g # "corto" => hilo'[g] = hilo[g]
      BY <1>v, <2>3, DePaso DEF CortoElige, Hilos
    <3>2. UNCHANGED <<sMulti, memoria>>
      BY <1>v, <2>3 DEF CortoElige, sMulti, Semaforos, sinMemoria
    <3>3. MismosTurnos("ninguno")
      <4>1. MismosTurnos("corto")
        BY <3>1, TurnosDeOtros
      <4>2. QED
        BY <3>1, <4>1 DEF MismosTurnos
    <3>4. QED
      BY <1>m, <3>2, <3>3, SinPlazas
  <2>4. QED
    BY <1>4, <2>1, <2>2, <2>3 DEF Corto
<1>5. CASE Cpu
  <2>1. CASE CpuRecibe
    <3>1. /\ \A g \in Hilos : g # "cpu" => hilo'[g] = hilo[g]
      BY <1>v, <2>1, DePaso DEF CpuRecibe, Hilos
    <3>2. UNCHANGED <<sMulti, memoria>>
      BY <1>v, <2>1 DEF CpuRecibe, sMulti, Semaforos, sinMemoria
    <3>3. MismosTurnos("ninguno")
      <4>1. MismosTurnos("cpu")
        BY <3>1, TurnosDeOtros
      <4>2. QED
        BY <3>1, <4>1 DEF MismosTurnos
    <3>4. QED
      BY <1>m, <3>2, <3>3, SinPlazas
  <2>2. CASE CpuIo
    <3>1. /\ \A g \in Hilos : g # "cpu" => hilo'[g] = hilo[g]
      BY <1>v, <2>2, DePaso DEF CpuIo, CpuDevuelve, Hilos
    <3>2. UNCHANGED <<sMulti, memoria>>
      BY <1>v, <2>2 DEF CpuIo, CpuDevuelve, sMulti, Semaforos, sinMemoria
    <3>3. MismosTurnos("ninguno")
      <4>1. MismosTurnos("cpu")
        BY <3>1, TurnosDeOtros
      <4>2. QED
        BY <3>1, <4>1 DEF MismosTurnos
    <3>4. QED
      BY <1>m, <3>2, <3>3, SinPlazas
  <2>3. CASE CpuExit
    <3>1. /\ \A g \in Hilos : g # "cpu" => hilo'[g] = hilo[g]
      BY <1>v, <2>3, DePaso DEF CpuExit, CpuDevuelve, Hilos
    <3>2. UNCHANGED <<sMulti, memoria>>
      BY <1>v, <2>3 DEF CpuExit, CpuDevuelve, sMulti, Semaforos, sinMemoria
    <3>3. MismosTurnos("ninguno")
      <4>1. MismosTurnos("cpu")
        BY <3>1, TurnosDeOtros
      <4>2. QED
        BY <3>1, <4>1 DEF MismosTurnos
    <3>4. QED
      BY <1>m, <3>2, <3>3, SinPlazas
  <2>4. QED
    BY <1>5, <2>1, <2>2, <2>3 DEF Cpu
<1>6. CASE Recibe
  <2>1. CASE RecibeMensaje
    <3>1. /\ \A g \in Hilos : g # "recibe" => hilo'[g] = hilo[g]
          /\ (hilo'["recibe"] = "avisar_fin" <=> hilo["recibe"] = "avisar_fin")
      BY <1>v, <2>1, DePaso DEF RecibeMensaje, Hilos
    <3>2. UNCHANGED <<sMulti, memoria>>
      BY <1>v, <2>1 DEF RecibeMensaje, sMulti, Semaforos, sinMemoria
    <3>3. MismosTurnos("ninguno")
      <4>1. MismosTurnos("recibe")
        BY <3>1, TurnosDeOtros
      <4>2. QED
        BY <3>1, <4>1 DEF MismosTurnos, FinDebe
    <3>4. QED
      BY <1>m, <3>2, <3>3, SinPlazas
  <2>2. CASE RecibeEncola
    <3>1. /\ \A g \in Hilos : g # "recibe" => hilo'[g] = hilo[g]
          /\ (hilo'["recibe"] = "avisar_fin" <=> hilo["recibe"] = "avisar_fin")
      BY <1>v, <2>2, DePaso DEF RecibeEncola, Hilos
    <3>2. UNCHANGED <<sMulti, memoria>>
      BY <1>v, <2>2 DEF RecibeEncola, sMulti, Semaforos, sinMemoria
    <3>3. MismosTurnos("ninguno")
      <4>1. MismosTurnos("recibe")
        BY <3>1, TurnosDeOtros
      <4>2. QED
        BY <3>1, <4>1 DEF MismosTurnos, FinDebe
    <3>4. QED
      BY <1>m, <3>2, <3>3, SinPlazas
  <2>3. CASE RecibeMarca
    <3>1. /\ \A g \in Hilos : g # "recibe" => hilo'[g] = hilo[g]
          /\ (hilo'["recibe"] = "avisar_fin" <=> hilo["recibe"] = "avisar_fin")
      BY <1>v, <2>3, DePaso DEF RecibeMarca, Hilos
    <3>2. UNCHANGED <<sMulti, memoria>>
      BY <1>v, <2>3 DEF RecibeMarca, sMulti, Semaforos, sinMemoria
    <3>3. MismosTurnos("ninguno")
      <4>1. MismosTurnos("recibe")
        BY <3>1, TurnosDeOtros
      <4>2. QED
        BY <3>1, <4>1 DEF MismosTurnos, FinDebe
    <3>4. QED
      BY <1>m, <3>2, <3>3, SinPlazas
  <2>4. CASE RecibeAvisaIo
    <3>1. /\ \A g \in Hilos : g # "recibe" => hilo'[g] = hilo[g]
          /\ (hilo'["recibe"] = "avisar_fin" <=> hilo["recibe"] = "avisar_fin")
      BY <1>v, <2>4, DePaso DEF RecibeAvisaIo, Hilos
    <3>2. UNCHANGED <<sMulti, memoria>>
      BY <1>v, <2>4, DeSemPost DEF RecibeAvisaIo, sMulti, Semaforos, sinMemoria
    <3>3. MismosTurnos("ninguno")
      <4>1. MismosTurnos("recibe")
        BY <3>1, TurnosDeOtros
      <4>2. QED
        BY <3>1, <4>1 DEF MismosTurnos, FinDebe
    <3>4. QED
      BY <1>m, <3>2, <3>3, SinPlazas
  <2>5. CASE RecibeFinaliza
    <3>1. /\ hilo["recibe"] = "finalizar" /\ hilo'["recibe"] = "avisar_fin"
          /\ \A g \in Hilos : g # "recibe" => hilo'[g] = hilo[g]
      BY <1>v, <2>5, DePaso DEF RecibeFinaliza, Hilos
    <3>2. FinDebe = 0 /\ FinDebe' = 1 /\ MismosTurnos("recibe")
      BY <3>1, TurnosDeOtros DEF FinDebe, Uno
    <3>3. UNCHANGED sMulti
      BY <1>v, <2>5 DEF RecibeFinaliza, sMulti, Semaforos
    <3>4. nRes' = nRes - 1
      <4>1. PICK q \in Procesos : q = suyo["recibe"]
        BY <1>v, <3>1 DEF ManosLlenas
      <4>2. memoria[q] = "activo"
        BY <3>1, <4>1, MemoriaEnMano DEF Hilos, Trabajos
      <4>3. memoria' = [memoria EXCEPT ![q] = "eliminado"]
        BY <2>5, <4>1 DEF RecibeFinaliza
      <4>4. PICK m : m = "eliminado"
        OBVIOUS
      <4>5. memoria' = [memoria EXCEPT ![q] = m]
        BY <4>3, <4>4
      <4>6. m # "activo"
        BY <4>4
      <4>7. QED
        BY <4>2, <4>5, <4>6, ResidentesCambian
    <3>5. QED
      BY <1>n, <1>g, <3>2, <3>3, <3>4 DEF Plazas, NumerosPlazas, MismosTurnos
  <2>6. CASE RecibeAvisaFin
    <3>1. /\ hilo["recibe"] = "avisar_fin" /\ hilo'["recibe"] = "recv"
          /\ \A g \in Hilos : g # "recibe" => hilo'[g] = hilo[g]
      BY <1>v, <2>6, DePaso DEF RecibeAvisaFin, Hilos
    <3>2. FinDebe = 1 /\ FinDebe' = 0 /\ MismosTurnos("recibe")
      BY <3>1, TurnosDeOtros DEF FinDebe, Uno
    <3>3. sMulti' = sMulti + 1
      BY <1>v, <2>6, DeSemPost DEF RecibeAvisaFin, sMulti, Semaforos
    <3>4. UNCHANGED nRes
      BY <2>6 DEF RecibeAvisaFin, nRes, Residentes, sinMemoria
    <3>5. QED
      BY <1>n, <1>g, <3>2, <3>3, <3>4 DEF Plazas, NumerosPlazas, MismosTurnos
  <2>7. QED
    BY <1>6, <2>1, <2>2, <2>3, <2>4, <2>5, <2>6 DEF Recibe
<1>7. CASE Gestor
  <2>1. CASE GestorEspera
    <3>1. /\ \A g \in Hilos : g # "gestor" => hilo'[g] = hilo[g]
          /\ (hilo'["gestor"] = "suspender" <=> hilo["gestor"] = "suspender")
      BY <1>v, <2>1, DePaso DEF GestorEspera, Hilos
    <3>2. UNCHANGED <<sMulti, memoria>>
      BY <1>v, <2>1, DeSemWait DEF GestorEspera, sMulti, Semaforos, sinMemoria
    <3>3. MismosTurnos("ninguno")
      <4>1. MismosTurnos("gestor")
        BY <3>1, TurnosDeOtros
      <4>2. QED
        BY <3>1, <4>1 DEF MismosTurnos, Adelanto
    <3>4. QED
      BY <1>m, <3>2, <3>3, SinPlazas
  <2>2. CASE GestorCuenta
    <3>1. /\ \A g \in Hilos : g # "gestor" => hilo'[g] = hilo[g]
          /\ (hilo'["gestor"] = "suspender" <=> hilo["gestor"] = "suspender")
      BY <1>v, <2>2, DePaso DEF GestorCuenta, Hilos
    <3>2. UNCHANGED <<sMulti, memoria>>
      BY <1>v, <2>2 DEF GestorCuenta, sMulti, Semaforos, sinMemoria
    <3>3. MismosTurnos("ninguno")
      <4>1. MismosTurnos("gestor")
        BY <3>1, TurnosDeOtros
      <4>2. QED
        BY <3>1, <4>1 DEF MismosTurnos, Adelanto
    <3>4. QED
      BY <1>m, <3>2, <3>3, SinPlazas
  <2>3. CASE GestorUsaDispositivo
    <3>1. /\ hilo["gestor"] # "suspender" /\ hilo'["gestor"] # "suspender"
          /\ hilo["disp"] # "io_subir" /\ hilo'["disp"] # "io_subir"
          /\ hilo'["largo"] = hilo["largo"] /\ hilo'["recibe"] = hilo["recibe"]
      <4>1. /\ hilo["gestor"] = "tomar" /\ sem["dispositivo"] > 0
            /\ hilo' = [hilo EXCEPT !["gestor"] = Ronda(cant - 1), !["disp"] = "leer"]
        BY <2>3 DEF GestorUsaDispositivo, En, SemWait
      <4>2. hilo["disp"] # "io_subir"
        BY <1>v, <4>1 DEF Cuentas, DispositivoUnico, DispActivo, Uno, Semaforos
      <4>3. QED
        BY <1>v, <4>1, <4>2 DEF Ronda, Hilos
    <3>2. UNCHANGED <<sMulti, memoria>>
      BY <1>v, <2>3, DeSemWait DEF GestorUsaDispositivo, sMulti, Semaforos, sinMemoria
    <3>3. MismosTurnos("ninguno")
      BY <3>1 DEF MismosTurnos, LargoSube, FinDebe, DispDebe, Adelanto
    <3>4. QED
      BY <1>m, <3>2, <3>3, SinPlazas
  <2>4. CASE GestorDispositivoOcupado
    <3>1. /\ \A g \in Hilos : g # "gestor" => hilo'[g] = hilo[g]
          /\ (hilo'["gestor"] = "suspender" <=> hilo["gestor"] = "suspender")
      BY <1>v, <2>4, DePaso DEF GestorDispositivoOcupado, Hilos
    <3>2. UNCHANGED <<sMulti, memoria>>
      BY <1>v, <2>4, DeSemPost DEF GestorDispositivoOcupado, sMulti, Semaforos, sinMemoria
    <3>3. MismosTurnos("ninguno")
      <4>1. MismosTurnos("gestor")
        BY <3>1, TurnosDeOtros
      <4>2. QED
        BY <3>1, <4>1 DEF MismosTurnos, Adelanto
    <3>4. QED
      BY <1>m, <3>2, <3>3, SinPlazas
  <2>5. CASE GestorRota
    <3>1. /\ \A g \in Hilos : g # "gestor" => hilo'[g] = hilo[g]
          /\ (hilo'["gestor"] = "suspender" <=> hilo["gestor"] = "suspender")
      BY <1>v, <2>5, DePaso DEF GestorRota, Hilos, Ronda
    <3>2. UNCHANGED <<sMulti, memoria>>
      BY <1>v, <2>5 DEF GestorRota, sMulti, Semaforos, sinMemoria
    <3>3. MismosTurnos("ninguno")
      <4>1. MismosTurnos("gestor")
        BY <3>1, TurnosDeOtros
      <4>2. QED
        BY <3>1, <4>1 DEF MismosTurnos, Adelanto
    <3>4. QED
      BY <1>m, <3>2, <3>3, SinPlazas
  <2>6. CASE GestorVence
    <3>1. /\ hilo["gestor"] = "rotar" /\ hilo'["gestor"] = "suspender"
          /\ \A g \in Hilos : g # "gestor" => hilo'[g] = hilo[g]
      BY <1>v, <2>6, DePaso DEF GestorVence, Hilos
    <3>2. Adelanto = 0 /\ Adelanto' = 1 /\ MismosTurnos("gestor")
      BY <3>1, TurnosDeOtros DEF Adelanto, Uno
    <3>3. sMulti' = sMulti + 1
      BY <1>v, <2>6, DeSemPost DEF GestorVence, sMulti, Semaforos
    <3>4. UNCHANGED nRes
      BY <2>6 DEF GestorVence, nRes, Residentes, sinMemoria
    <3>5. QED
      BY <1>n, <1>g, <3>2, <3>3, <3>4 DEF Plazas, NumerosPlazas, MismosTurnos
  <2>7. CASE GestorSuspende
    <3>1. /\ hilo["gestor"] = "suspender" /\ hilo'["gestor"] # "suspender"
          /\ \A g \in Hilos : g # "gestor" => hilo'[g] = hilo[g]
      BY <1>v, <2>7, DePaso DEF GestorSuspende, Hilos, Ronda
    <3>2. Adelanto = 1 /\ Adelanto' = 0 /\ MismosTurnos("gestor")
      BY <3>1, TurnosDeOtros DEF Adelanto, Uno
    <3>3. UNCHANGED sMulti
      BY <1>v, <2>7 DEF GestorSuspende, sMulti, Semaforos
    <3>4. nRes' = nRes - 1
      <4>1. PICK q \in Procesos : q = suyo["gestor"]
        BY <1>v, <3>1 DEF ManosLlenas
      <4>2. memoria[q] = "activo"
        BY <3>1, <4>1, MemoriaEnMano DEF Hilos, Trabajos
      <4>3. memoria' = [memoria EXCEPT ![q] = "suspendido"]
        BY <2>7, <4>1 DEF GestorSuspende, SuspenderEnMemoria
      <4>4. PICK m : m = "suspendido"
        OBVIOUS
      <4>5. memoria' = [memoria EXCEPT ![q] = m]
        BY <4>3, <4>4
      <4>6. m # "activo"
        BY <4>4
      <4>7. QED
        BY <4>2, <4>5, <4>6, ResidentesCambian
    <3>5. QED
      BY <1>n, <1>g, <3>2, <3>3, <3>4 DEF Plazas, NumerosPlazas, MismosTurnos
  <2>8. CASE GestorCae
    <3>1. UNCHANGED <<sMulti, memoria, hilo>>
      BY <2>8 DEF GestorCae, sMulti, sinMemoria
    <3>2. QED
      BY <1>m, <3>1, SinPlazas, TurnosDeOtros
  <2>9. QED
    BY <1>7, <2>1, <2>2, <2>3, <2>4, <2>5, <2>6, <2>7, <2>8 DEF Gestor
<1>8. CASE Disp
  <2>1. CASE DispLee
    <3>1. /\ \A g \in Hilos : g # "disp" => hilo'[g] = hilo[g]
          /\ (hilo'["disp"] = "io_subir" <=> hilo["disp"] = "io_subir")
      BY <1>v, <2>1, DePaso DEF DispLee, Hilos
    <3>2. UNCHANGED <<sMulti, memoria>>
      BY <1>v, <2>1 DEF DispLee, sMulti, Semaforos, sinMemoria
    <3>3. MismosTurnos("ninguno")
      <4>1. MismosTurnos("disp")
        BY <3>1, TurnosDeOtros
      <4>2. QED
        BY <3>1, <4>1 DEF MismosTurnos, DispDebe
    <3>4. QED
      BY <1>m, <3>2, <3>3, SinPlazas
  <2>2. CASE DispCae
    <3>1. UNCHANGED <<sMulti, memoria, hilo>>
      BY <2>2 DEF DispCae, sMulti, sinMemoria
    <3>2. QED
      BY <1>m, <3>1, SinPlazas, TurnosDeOtros
  <2>3. CASE DispIoNormal
    <3>1. /\ \A g \in Hilos : g # "disp" => hilo'[g] = hilo[g]
          /\ (hilo'["disp"] = "io_subir" <=> hilo["disp"] = "io_subir")
      BY <1>v, <2>3, DePaso DEF DispIoNormal, Hilos
    <3>2. UNCHANGED <<sMulti, memoria>>
      BY <1>v, <2>3 DEF DispIoNormal, sMulti, Semaforos, sinMemoria
    <3>3. MismosTurnos("ninguno")
      <4>1. MismosTurnos("disp")
        BY <3>1, TurnosDeOtros
      <4>2. QED
        BY <3>1, <4>1 DEF MismosTurnos, DispDebe
    <3>4. QED
      BY <1>m, <3>2, <3>3, SinPlazas
  <2>4. CASE DispSuspende
    <3>1. /\ hilo["disp"] = "io_suspender" /\ hilo'["disp"] = "io_subir"
          /\ \A g \in Hilos : g # "disp" => hilo'[g] = hilo[g]
      BY <1>v, <2>4, DePaso DEF DispSuspende, Hilos
    <3>2. DispDebe = 0 /\ DispDebe' = 1 /\ MismosTurnos("disp")
      BY <3>1, TurnosDeOtros DEF DispDebe, Uno
    <3>3. UNCHANGED sMulti
      BY <1>v, <2>4 DEF DispSuspende, sMulti, Semaforos
    <3>4. nRes' = nRes - 1
      <4>1. PICK q \in Procesos : q = suyo["disp"]
        BY <1>v, <3>1 DEF ManosLlenas
      <4>2. memoria[q] = "activo"
        BY <3>1, <4>1, MemoriaEnMano DEF Hilos, Trabajos
      <4>3. memoria' = [memoria EXCEPT ![q] = "suspendido"]
        BY <2>4, <4>1 DEF DispSuspende, SuspenderEnMemoria
      <4>4. PICK m : m = "suspendido"
        OBVIOUS
      <4>5. memoria' = [memoria EXCEPT ![q] = m]
        BY <4>3, <4>4
      <4>6. m # "activo"
        BY <4>4
      <4>7. QED
        BY <4>2, <4>5, <4>6, ResidentesCambian
    <3>5. QED
      BY <1>n, <1>g, <3>2, <3>3, <3>4 DEF Plazas, NumerosPlazas, MismosTurnos
  <2>5. CASE DispSube
    <3>1. /\ hilo["disp"] = "io_subir" /\ hilo'["disp"] = "sus_ready"
          /\ \A g \in Hilos : g # "disp" => hilo'[g] = hilo[g]
      BY <1>v, <2>5, DePaso DEF DispSube, Hilos
    <3>2. DispDebe = 1 /\ DispDebe' = 0 /\ MismosTurnos("disp")
      BY <3>1, TurnosDeOtros DEF DispDebe, Uno
    <3>3. sMulti' = sMulti + 1
      BY <1>v, <2>5, DeSemPost DEF DispSube, sMulti, Semaforos
    <3>4. UNCHANGED nRes
      BY <2>5 DEF DispSube, nRes, Residentes, sinMemoria
    <3>5. QED
      BY <1>n, <1>g, <3>2, <3>3, <3>4 DEF Plazas, NumerosPlazas, MismosTurnos
  <2>6. CASE DispASusReady
    <3>1. /\ \A g \in Hilos : g # "disp" => hilo'[g] = hilo[g]
          /\ (hilo'["disp"] = "io_subir" <=> hilo["disp"] = "io_subir")
      <4>1. Paso("disp", "sus_ready", "soltar_sus")
        BY <2>6 DEF DispASusReady
      <4>2. QED
        BY <1>v, <4>1, DePaso DEF Hilos
    <3>2. UNCHANGED <<sMulti, memoria>>
      BY <1>v, <2>6 DEF DispASusReady, sMulti, Semaforos, sinMemoria
    <3>3. MismosTurnos("ninguno")
      <4>1. MismosTurnos("disp")
        BY <3>1, TurnosDeOtros
      <4>2. QED
        BY <3>1, <4>1 DEF MismosTurnos, DispDebe
    <3>4. QED
      BY <1>m, <3>2, <3>3, SinPlazas
  <2>7. CASE DispAvisa
    <3>1. /\ \A g \in Hilos : g # "disp" => hilo'[g] = hilo[g]
          /\ (hilo'["disp"] = "io_subir" <=> hilo["disp"] = "io_subir")
      BY <1>v, <2>7, DePaso DEF DispAvisa, Hilos
    <3>2. UNCHANGED <<sMulti, memoria>>
      BY <1>v, <2>7, DeSemPost DEF DispAvisa, sMulti, Semaforos, sinMemoria
    <3>3. MismosTurnos("ninguno")
      <4>1. MismosTurnos("disp")
        BY <3>1, TurnosDeOtros
      <4>2. QED
        BY <3>1, <4>1 DEF MismosTurnos, DispDebe
    <3>4. QED
      BY <1>m, <3>2, <3>3, SinPlazas
  <2>8. CASE DispSuelta
    <3>1. /\ \A g \in Hilos : g # "disp" => hilo'[g] = hilo[g]
          /\ (hilo'["disp"] = "io_subir" <=> hilo["disp"] = "io_subir")
      BY <1>v, <2>8, DePaso DEF DispSuelta, Hilos
    <3>2. UNCHANGED <<sMulti, memoria>>
      BY <1>v, <2>8, DeSemPost DEF DispSuelta, sMulti, Semaforos, sinMemoria
    <3>3. MismosTurnos("ninguno")
      <4>1. MismosTurnos("disp")
        BY <3>1, TurnosDeOtros
      <4>2. QED
        BY <3>1, <4>1 DEF MismosTurnos, DispDebe
    <3>4. QED
      BY <1>m, <3>2, <3>3, SinPlazas
  <2>9. QED
    BY <1>8, <2>1, <2>2, <2>3, <2>4, <2>5, <2>6, <2>7, <2>8 DEF Disp
<1>9. CASE UNCHANGED vars
  <2>1. UNCHANGED <<sMulti, memoria, hilo>>
    BY <1>9 DEF vars, sMulti
  <2>2. QED
    BY <1>m, <2>1, SinPlazas, TurnosDeOtros
<1>10. QED
  BY <1>1, <1>2, <1>3, <1>4, <1>5, <1>6, <1>7, <1>8, <1>9 DEF Next, Llegada
----------------------------------------------------------------------------
\* The invariant of the life of the processes, with the places counted.
InvCiclo == InvLugares /\ MemoriaSegunLugar /\ NingunLugarSePierde

\* Nothing has arrived: memory knows nobody and all the places are free.
LEMMA CicloInicial == Init => MemoriaSegunLugar /\ NingunLugarSePierde
<1> SUFFICES ASSUME Init PROVE MemoriaSegunLugar /\ NingunLugarSePierde
  OBVIOUS
<1>1. \A p \in Procesos : memoria[p] = "sin" /\ EstaEn("afuera", p)
  BY DEF Init, EstaEn
<1>2. MemoriaSegunLugar
  BY <1>1 DEF MemoriaSegunLugar, SegunLugar, Entre
<1>3. nRes = 0
  <2>1. Residentes = {}
    BY <1>1 DEF Residentes
  <2>2. QED
    BY <2>1, FS_EmptySet DEF nRes
<1>4. /\ hilo["largo"] = "wait_lista" /\ hilo["recibe"] = "recv"
      /\ hilo["gestor"] = "wait_signal" /\ hilo["disp"] = "libre" /\ sMulti = Grado
  BY DEF Init, Hilos, Semaforos, sMulti
<1>5. LargoSube = 0 /\ FinDebe = 0 /\ DispDebe = 0 /\ Adelanto = 0
  BY <1>4 DEF LargoSube, FinDebe, DispDebe, Adelanto, Sube, Uno
<1>6. Plazas = Grado + Adelanto
  BY <1>3, <1>4, <1>5, GradoAssumption DEF Plazas
<1>7. QED
  BY <1>2, <1>6, PlazasSuman

\* Every step keeps the degree and what memory was told, outside the window.
LEMMA CicloSeConserva == InvCiclo /\ VentanaSinUsar /\ [Next]_vars => InvCiclo'
<1> SUFFICES ASSUME InvCiclo, VentanaSinUsar, [Next]_vars PROVE InvCiclo'
  OBVIOUS
<1>1. InvLugares /\ InvLugares'
  BY LugaresSeConservan DEF InvCiclo
<1>2. UnSitio /\ UnSitio'
  BY <1>1, SitioUnico, SitioUnicoDespues
<1>3. Movimiento
  BY <1>1, TodoSonMovimientos
<1>4. MemoriaSegunLugar'
  BY <1>1, <1>2, <1>3, MemoriaSeConserva DEF InvCiclo
<1>5. TypeOK /\ TypeOK' /\ Cuentas /\ ManosVacias
  BY <1>1 DEF InvLugares, Inductiva
<1>6. Plazas = Grado + Adelanto
  BY PlazasSuman DEF InvCiclo
<1>7. Plazas' = Grado + Adelanto'
  BY <1>2, <1>5, <1>6, PlazasSeConservan DEF InvCiclo
<1>8. NingunLugarSePierde'
  BY <1>7, PlazasSumanDespues
<1>9. QED
  BY <1>1, <1>4, <1>8 DEF InvCiclo

\* So they hold in every state of a behaviour that stays outside the window.
LEMMA CicloSiempre == Spec /\ []VentanaSinUsar => []InvCiclo
<1>1. Init => InvCiclo
  BY CicloInicial, TiposIniciales, CuentasIniciales, LugaresIniciales DEF InvCiclo, InvLugares, Inductiva
<1>2. QED
  BY <1>1, CicloSeConserva, PTL DEF Spec

\* What memory knows about each process follows from the place where the threads
\* of planificador.c have its PCB, in every execution in which none of them uses
\* a PCB that recibir_pcb_de_cpu has pushed to cola_de_io with an old
\* process_state (lines 266-268).
THEOREM CicloInvariante == Spec /\ []VentanaSinUsar => []InductivaCiclo
<1>1. InvCiclo => InductivaCiclo
  <2> SUFFICES ASSUME InvCiclo PROVE InductivaCiclo
    OBVIOUS
  <2>1. \A p \in Procesos : Cardinality(Lugares(p)) = 1
    BY VecesSonLugares DEF InvCiclo, InvLugares, Inductiva
  <2>2. QED
    BY <2>1 DEF InvCiclo, InvLugares, InductivaCiclo, InductivaLugares, CadaPcbEnUnLugar
<1>2. QED
  BY <1>1, CicloSiempre, PTL

\* sem_contador_multiprogramacion, waited for by one thread and posted by three,
\* never loses a place nor gives one twice: those free, taken and owed add up to
\* GRADO_MULTIPROGRAMACION.
THEOREM ElGradoSeMantiene == Spec /\ []VentanaSinUsar => []NingunLugarSePierde
<1>1. InvCiclo => NingunLugarSePierde
  BY DEF InvCiclo
<1>2. QED
  BY <1>1, CicloSiempre, PTL

\* funcion_pasar_a_ready sends REANUDAR only for processes that memory suspended
\* (lines 160 and 222), whoever suspended them: the gestor or the device.
THEOREM SoloSeReanudaLoSuspendido == Spec /\ []VentanaSinUsar => []SoloSuspendidosSeReanudan
<1>1. InvCiclo => SoloSuspendidosSeReanudan
  <2> SUFFICES ASSUME InvCiclo, NEW i \in DOMAIN cola["susReady"]
               PROVE  memoria[cola["susReady"][i]] = "suspendido"
    BY DEF SoloSuspendidosSeReanudan
  <2>1. PICK p : p = cola["susReady"][i]
    OBVIOUS
  <2>2. p \in Procesos
    <3>1. cola["susReady"] \in Seq(Procesos)
      BY DEF InvCiclo, InvLugares, Inductiva, TypeOK, TiposDatos, Colas
    <3>2. QED
      BY <2>1, <3>1
  <2>3. EstaEn("susReady", p)
    BY <2>1 DEF EstaEn, EnCola, Colas
  <2>4. PICK x : \A s : EstaEn(s, p) <=> s = x
    BY <2>2, SitioUnico DEF InvCiclo, UnSitio
  <2>5. x = "susReady"
    BY <2>3, <2>4
  <2>6. Segun(x, memoria[p], estado[p], EnLaVentana(p)) /\ (memoria[p] = "eliminado" => x = "eliminado")
    BY <2>2, <2>4, SegunSitio DEF InvCiclo, MemoriaSegunLugar
  <2>7. QED
    BY <2>1, <2>5, <2>6 DEF Segun, EnNew, EnExec
<1>2. QED
  BY <1>1, CicloSiempre, PTL

----------------------------------------------------------------------------
(***************************************************************************)
(* The refinement.  The phase of a process is a function of its place and  *)
(* of what memory knows about it, so each move is a step of CicloDeVida,   *)
(* or changes no phase.                                                    *)
(***************************************************************************)
Sitios == {"afuera", "despacho", "retorno", "eliminado"} \union Colas \union Trabajos

EnBloqueado == {"io", "leer", "io_normal", "io_suspender", "io_subir", "sus_ready"}

FaseDe(x, m) ==
  CASE x = "afuera" -> "afuera"
    [] x \in EnNew -> "new"
    [] x = "ready" -> "ready"
    [] x \in EnSusReady -> "susReady"
    [] x \in EnBloqueado -> IF m = "activo" THEN "blocked" ELSE "susBlocked"
    [] x = "suspender" -> "susBlocked"
    [] x = "eliminado" -> "exit"
    [] OTHER -> "exec"

\* The phase of the diagram is that of the place a process is in.
LEMMA FaseSitio ==
  ASSUME TypeOK, ManosVacias, NEW p \in Procesos, NEW x, \A s : EstaEn(s, p) <=> s = x
  PROVE  Fase(p) = FaseDe(x, memoria[p]) /\ x \in Sitios
<1>1. x \in Sitios
  <2>1. EstaEn(x, p)
    OBVIOUS
  <2>2. QED
    BY <2>1 DEF EstaEn, Sitios
<1>2. /\ p \in afuera <=> x = "afuera"
      /\ \A c \in Colas : EnCola(c, p) <=> x = c
      /\ memoria[p] = "eliminado" <=> x = "eliminado"
  <2>1. p \in afuera <=> x = "afuera"
    BY DEF EstaEn, Colas, Trabajos
  <2>2. \A c \in Colas : EnCola(c, p) <=> x = c
    BY DEF EstaEn, Colas, Trabajos
  <2>3. memoria[p] = "eliminado" <=> x = "eliminado"
    BY DEF EstaEn, Colas, Trabajos
  <2>4. QED
    BY <2>1, <2>2, <2>3
<1>3. \A h \in Hilos : suyo[h] = p /\ hilo[h] \in Trabajos => x = hilo[h]
  BY DEF EstaEn
<1>4. x \in Trabajos => \E h \in Hilos : hilo[h] = x /\ suyo[h] = p
  <2>1. EstaEn(x, p)
    OBVIOUS
  <2>2. x \in Trabajos => x \notin Colas \union {"afuera", "despacho", "retorno", "eliminado"}
    BY DEF Trabajos, Colas
  <2>3. QED
    BY <2>1, <2>2 DEF EstaEn
<1>v. /\ hilo["largo"] \in PcLargo /\ hilo["corto"] \in PcCorto /\ hilo["recibe"] \in PcRecibe
      /\ hilo["gestor"] \in PcGestor /\ hilo["disp"] \in PcDisp /\ hilo["cpu"] \in PcCpu
      /\ p # Nadie
  BY ProcesosAssumption DEF TypeOK, TiposHilos
<1>5. suyo["largo"] = p /\ hilo["largo"] = "crear" <=> x = "crear"
  BY <1>3, <1>4, <1>v DEF Hilos, Trabajos, PcLargo, PcCorto, PcRecibe, PcGestor, PcDisp, PcCpu
<1>6. suyo["largo"] = p /\ hilo["largo"] = "reanudar" <=> x = "reanudar"
  BY <1>3, <1>4, <1>v DEF Hilos, Trabajos, PcLargo, PcCorto, PcRecibe, PcGestor, PcDisp, PcCpu
<1>7. suyo["gestor"] = p <=> x = "suspender"
  BY <1>3, <1>4, <1>v DEF Hilos, Trabajos, PcLargo, PcCorto, PcRecibe, PcGestor, PcDisp, PcCpu, ManosVacias
<1>8. suyo["disp"] = p <=> x \in EnBloqueado \ {"io"}
  BY <1>3, <1>4, <1>v DEF Hilos, Trabajos, PcLargo, PcCorto, PcRecibe, PcGestor, PcDisp, PcCpu, ManosVacias, EnBloqueado
<1>9. Fase(p) = FaseDe(x, memoria[p])
  <2>1. /\ p \in afuera <=> x = "afuera"
        /\ (EnCola("new", p) \/ (suyo["largo"] = p /\ hilo["largo"] = "crear")) <=> x \in EnNew
        /\ EnCola("ready", p) <=> x = "ready"
        /\ (EnCola("susReady", p) \/ (suyo["largo"] = p /\ hilo["largo"] = "reanudar")) <=> x \in EnSusReady
        /\ (EnCola("io", p) \/ suyo["gestor"] = p \/ suyo["disp"] = p) <=> x \in EnBloqueado \union {"suspender"}
        /\ suyo["gestor"] = p <=> x = "suspender"
        /\ memoria[p] = "eliminado" <=> x = "eliminado"
    BY <1>2, <1>5, <1>6, <1>7, <1>8 DEF EnNew, EnSusReady, EnBloqueado, Colas
  <2>2. CASE x \in {"afuera", "ready", "eliminado"} \union EnNew \union EnSusReady
    BY <2>1, <2>2 DEF Fase, FaseDe, EnNew, EnSusReady, EnBloqueado
  <2>3. CASE x \in EnBloqueado
    BY <2>1, <2>3 DEF Fase, FaseDe, EnNew, EnSusReady, EnBloqueado
  <2>4. CASE x = "suspender"
    BY <2>1, <2>4 DEF Fase, FaseDe, EnNew, EnSusReady, EnBloqueado
  <2>5. CASE x \notin {"afuera", "ready", "eliminado", "suspender"} \union EnNew \union EnSusReady \union EnBloqueado
    BY <2>1, <2>5 DEF Fase, FaseDe, EnNew, EnSusReady, EnBloqueado
  <2>6. QED
    BY <2>2, <2>3, <2>4, <2>5
<1>10. QED
  BY <1>1, <1>9

\* FaseSitio as a state predicate, which holds after a step too.
FaseVale ==
  \A p \in Procesos : \A x : (\A s : EstaEn(s, p) <=> s = x)
                                => Fase(p) = FaseDe(x, memoria[p]) /\ x \in Sitios

\* So it can be read off the place, for every process.
LEMMA FaseSiempreVale == TypeOK /\ ManosVacias => FaseVale
BY FaseSitio DEF FaseVale

\* The same after a step.
LEMMA FaseValeDespues == TypeOK' /\ ManosVacias' => FaseVale'
BY FaseSiempreVale, PTL

\* What memory knows about a process, from its place.
MemoriaVale ==
  \A p \in Procesos : \A x : (\A s : EstaEn(s, p) <=> s = x) =>
    /\ x \in {"ready", "io_normal", "io_suspender", "suspender"} \union EnExec => memoria[p] = "activo"
    /\ x \in {"io_subir", "sus_ready"} \union EnSusReady => memoria[p] = "suspendido"
    /\ x \in {"io", "leer"} => memoria[p] \in {"activo", "suspendido"}
    /\ x \in {"io", "leer"} /\ estado[p] = "blocked" => memoria[p] = "activo"

\* So the place of a process says what memory was told.
LEMMA MemoriaSiempreVale == MemoriaSegunLugar => MemoriaVale
<1> SUFFICES ASSUME MemoriaSegunLugar, NEW p \in Procesos, NEW x, \A s : EstaEn(s, p) <=> s = x
             PROVE  /\ x \in {"ready", "io_normal", "io_suspender", "suspender"} \union EnExec
                         => memoria[p] = "activo"
                    /\ x \in {"io_subir", "sus_ready"} \union EnSusReady => memoria[p] = "suspendido"
                    /\ x \in {"io", "leer"} => memoria[p] \in {"activo", "suspendido"}
                    /\ x \in {"io", "leer"} /\ estado[p] = "blocked" => memoria[p] = "activo"
  BY DEF MemoriaVale
<1>1. Segun(x, memoria[p], estado[p], EnLaVentana(p)) /\ (memoria[p] = "eliminado" => x = "eliminado")
  BY SegunSitio DEF MemoriaSegunLugar
<1>2. QED
  BY <1>1 DEF Segun, EnNew, EnExec, EnSusReady

\* The phase of q goes from f to g, and those of the others stay.
LasFases == [p \in Procesos |-> Fase(p)]

Da(q, f, g) ==
  /\ q \in Procesos /\ Fase(q) = f /\ Fase(q)' = g
  /\ \A p \in Procesos : p # q => Fase(p)' = Fase(p)

\* A move between two phases is a step of the diagram, or none if they are the same.
LEMMA DaSigue ==
  ASSUME NEW q, NEW f, NEW g, Da(q, f, g)
  PROVE  /\ q \in Procesos /\ Ciclo!Cambia(q, f, g)
         /\ f = g => UNCHANGED LasFases
<1>1. /\ q \in Procesos /\ LasFases[q] = f
      /\ LasFases' = [p \in Procesos |-> IF p = q THEN g ELSE LasFases[p]]
  BY DEF Da, LasFases
<1>2. LasFases' = [LasFases EXCEPT ![q] = g]
  BY <1>1 DEF LasFases
<1>3. Ciclo!Cambia(q, f, g)
  BY <1>1, <1>2 DEF Ciclo!Cambia, LasFases
<1>4. ASSUME f = g PROVE UNCHANGED LasFases
  BY <1>1, <1>4 DEF LasFases
<1>5. QED
  BY <1>1, <1>3, <1>4

\* The move of a process gives the change of its phase.
LEMMA PasaDa ==
  ASSUME UnSitio, UnSitio', FaseVale, FaseVale', NEW q, NEW de, NEW a, Pasa(q, de, a),
         \A p \in Procesos : p # q => memoria'[p] = memoria[p]
  PROVE  Da(q, FaseDe(de, memoria[q]), FaseDe(a, memoria'[q]))
<1>1. /\ q \in Procesos
      /\ \A s : EstaEn(s, q) <=> s = de
      /\ \A s : EstaEn(s, q)' <=> s = a
      /\ \A p \in Procesos : p # q => \A s : EstaEn(s, p)' <=> EstaEn(s, p)
  BY DePasa
<1>2. Fase(q) = FaseDe(de, memoria[q])
  BY <1>1 DEF FaseVale
<1>3. Fase(q)' = FaseDe(a, memoria'[q])
  BY <1>1 DEF FaseVale
<1>4. ASSUME NEW p \in Procesos, p # q PROVE Fase(p)' = Fase(p)
  <2>1. PICK x : \A s : EstaEn(s, p) <=> s = x
    BY DEF UnSitio
  <2>2. \A s : EstaEn(s, p)' <=> s = x
    BY <1>1, <1>4, <2>1
  <2>3. Fase(p) = FaseDe(x, memoria[p]) /\ Fase(p)' = FaseDe(x, memoria'[p])
    BY <2>1, <2>2 DEF FaseVale
  <2>4. QED
    BY <1>4, <2>3
<1>5. QED
  BY <1>1, <1>2, <1>3, <1>4 DEF Da

\* If nobody moves and memory is told nothing, nobody changes phase.
LEMMA NadieCambia ==
  ASSUME UnSitio, UnSitio', FaseVale, FaseVale', NadiePasa, UNCHANGED memoria
  PROVE  UNCHANGED LasFases
<1>1. ASSUME NEW p \in Procesos PROVE Fase(p)' = Fase(p)
  <2>1. PICK x : \A s : EstaEn(s, p) <=> s = x
    BY DEF UnSitio
  <2>2. \A s : EstaEn(s, p)' <=> s = x
    BY <2>1, DeNadiePasa
  <2>3. Fase(p) = FaseDe(x, memoria[p]) /\ Fase(p)' = FaseDe(x, memoria'[p])
    BY <2>1, <2>2 DEF FaseVale
  <2>4. QED
    BY <2>3
<1>2. QED
  BY <1>1 DEF LasFases

----------------------------------------------------------------------------
\* The process on its way to the CPU is the only one that CicloDeVida sees in exec.
UnicoEnExec ==
  \A p, q \in Procesos : EstaEn("despacho", q) /\ Entre(EnExec, p) => p = q

\* There is one process in exec at most, by the single token of the CPU.
LEMMA DespachoSolo == Inductiva => UnicoEnExec
<1> SUFFICES ASSUME TypeOK, FichaUnica, NEW p \in Procesos, NEW q \in Procesos,
                    EstaEn("despacho", q), Entre(EnExec, p)
             PROVE  p = q
  BY DEF Inductiva, Cuentas, UnicoEnExec
<1>1. /\ despacho \in Seq(Procesos) /\ retorno \in Seq(Mensajes) /\ inicio \in {0, 1}
      /\ sem["corto"] \in Nat
  BY DEF TypeOK, TiposDatos, Semaforos
<1>2. PICK i \in DOMAIN despacho : despacho[i] = q
  BY DEF EstaEn, Colas, Trabajos
<1>3. Len(despacho) \in Nat /\ Len(retorno) \in Nat /\ DOMAIN despacho = 1 .. Len(despacho)
      /\ DOMAIN retorno = 1 .. Len(retorno)
  BY <1>1
<1>4. Len(despacho) > 0
  BY <1>2, <1>3
<1>5. CortoActivo \in {0, 1} /\ CpuActiva \in {0, 1} /\ RecibeActivo \in {0, 1}
  BY DEF CortoActivo, CpuActiva, RecibeActivo, Uno
<1>6. Len(despacho) = 1 /\ Len(retorno) = 0 /\ CpuActiva = 0 /\ RecibeActivo = 0
  <2> DEFINE d == Len(despacho)
             r == Len(retorno)
             c == sem["corto"]
  <2>1. inicio + c + CortoActivo + d + CpuActiva + r + RecibeActivo = 1
    BY DEF FichaUnica
  <2>2. d \in Nat /\ r \in Nat /\ c \in Nat /\ d > 0
    BY <1>1, <1>3, <1>4
  <2> HIDE DEF d, r, c
  <2>3. d = 1 /\ r = 0 /\ CpuActiva = 0 /\ RecibeActivo = 0
    BY <1>1, <1>5, <2>1, <2>2
  <2>4. QED
    BY <2>3 DEF d, r
<1>7. hilo["cpu"] # "corre" /\ hilo["recibe"] = "recv"
  BY <1>6 DEF CpuActiva, RecibeActivo, Uno
<1>8. ~EstaEn("retorno", p)
  BY <1>3, <1>6 DEF EstaEn, Colas, Trabajos
<1>9. ~EstaEn("corre", p) /\ ~EstaEn("encolar_io", p) /\ ~EstaEn("finalizar", p)
  <2>1. \A s \in {"corre", "encolar_io", "finalizar"} : \A h \in Hilos : hilo[h] # s
    BY <1>7 DEF TypeOK, TiposHilos, Hilos, PcLargo, PcCorto, PcRecibe, PcGestor, PcDisp, PcCpu
  <2>2. QED
    BY <2>1 DEF EstaEn, Colas
<1>10. EstaEn("despacho", p)
  BY <1>8, <1>9 DEF Entre, EnExec
<1>11. PICK j \in DOMAIN despacho : despacho[j] = p
  BY <1>10 DEF EstaEn, Colas, Trabajos
<1>12. i = j
  BY <1>2, <1>3, <1>6, <1>11
<1>13. QED
  BY <1>2, <1>11, <1>12

\* The same after a step.
LEMMA DespachoSoloDespues == Inductiva' => UnicoEnExec'
BY DespachoSolo, PTL

\* The CPU is free in CicloDeVida when the short-term scheduler sends a PCB.
LEMMA CpuLibre ==
  ASSUME InvCiclo, InvCiclo', FaseVale, NEW q, Pasa(q, "ready", "despacho"), UNCHANGED memoria
  PROVE  Ciclo!EnFase("exec") = {}
<1>1. UnSitio /\ UnSitio' /\ UnicoEnExec'
  BY SitioUnico, SitioUnicoDespues, DespachoSoloDespues DEF InvCiclo, InvLugares
<1>2. /\ q \in Procesos
      /\ \A s : EstaEn(s, q) <=> s = "ready"
      /\ \A s : EstaEn(s, q)' <=> s = "despacho"
      /\ \A p \in Procesos : p # q => \A s : EstaEn(s, p)' <=> EstaEn(s, p)
  BY <1>1, DePasa
<1>3. ASSUME NEW p \in Procesos PROVE Fase(p) # "exec"
  <2>1. PICK x : \A s : EstaEn(s, p) <=> s = x
    BY <1>1 DEF UnSitio
  <2>2. Fase(p) = FaseDe(x, memoria[p]) /\ x \in Sitios
    BY <2>1 DEF FaseVale
  <2>3. x \notin EnExec
    <3>1. CASE p = q
      BY <1>2, <2>1, <3>1 DEF EnExec
    <3>2. CASE p # q
      <4>1. EstaEn(x, p)'
        BY <1>2, <2>1, <3>2
      <4>2. EstaEn("despacho", q)'
        BY <1>2
      <4>3. ~Entre(EnExec, p)'
        BY <1>1, <1>2, <3>2, <4>2 DEF UnicoEnExec
      <4>4. QED
        BY <4>1, <4>3 DEF Entre
    <3>3. QED
      BY <3>1, <3>2
  <2>4. FaseDe(x, memoria[p]) # "exec"
    <3>1. x \in {"afuera", "ready", "eliminado", "suspender"} \union EnNew \union EnSusReady \union EnBloqueado
      BY <2>2, <2>3 DEF Sitios, Colas, Trabajos, EnExec, EnNew, EnSusReady, EnBloqueado
    <3>2. QED
      BY <3>1 DEF FaseDe, EnNew, EnSusReady, EnBloqueado
  <2>5. QED
    BY <2>2, <2>4
<1>4. QED
  BY <1>3 DEF Ciclo!EnFase

\* The Cardinality of the instance is the one of FiniteSets.
LEMMA MismoCardinal == \A S : Ciclo!Cardinality(S) = Cardinality(S)
BY DEF Ciclo!Cardinality, Cardinality

\* The processes that CicloDeVida counts are resident, and the one that the gestor
\* is suspending, whose place it has posted already, is not among them.
LEMMA ActivosCuentan ==
  ASSUME InvCiclo, FaseVale
  PROVE  /\ Cardinality(Ciclo!Activos) \in Nat
         /\ Cardinality(Ciclo!Activos) + Adelanto <= nRes
<1>1. UnSitio /\ MemoriaVale /\ TypeOK /\ ManosVacias
  BY SitioUnico, MemoriaSiempreVale DEF InvCiclo, InvLugares, Inductiva
<1>2. \A p \in Ciclo!Activos : p \in Residentes /\ ~EstaEn("suspender", p)
  <2> SUFFICES ASSUME NEW p \in Procesos, Fase(p) \in {"ready", "exec", "blocked"}
               PROVE  p \in Residentes /\ ~EstaEn("suspender", p)
    BY DEF Ciclo!Activos
  <2>1. PICK x : \A s : EstaEn(s, p) <=> s = x
    BY <1>1 DEF UnSitio
  <2>2. Fase(p) = FaseDe(x, memoria[p]) /\ x \in Sitios
    BY <2>1 DEF FaseVale
  <2>3. x \in {"ready"} \union EnExec \/ (x \in EnBloqueado /\ memoria[p] = "activo")
    BY <2>2 DEF FaseDe, Sitios, Colas, Trabajos, EnExec, EnNew, EnSusReady, EnBloqueado
  <2>4. memoria[p] = "activo"
    BY <1>1, <2>1, <2>3 DEF MemoriaVale
  <2>5. x # "suspender"
    BY <2>3 DEF EnExec, EnBloqueado
  <2>6. QED
    BY <2>1, <2>4, <2>5 DEF Residentes
<1>3. IsFiniteSet(Residentes) /\ IsFiniteSet(Ciclo!Activos)
  BY ProcesosAssumption, FS_Subset DEF Residentes, Ciclo!Activos
<1>4. Cardinality(Ciclo!Activos) \in Nat /\ nRes \in Nat
  BY <1>3, FS_CardinalityType DEF nRes
<1>5. CASE hilo["gestor"] = "suspender"
  <2>1. PICK q \in Procesos : q = suyo["gestor"]
    BY <1>1, <1>5 DEF TypeOK, ManosLlenas
  <2>2. memoria[q] = "activo"
    BY <1>1, <1>5, <2>1, MemoriaEnMano DEF InvCiclo, Hilos, Trabajos
  <2>3. EstaEn("suspender", q)
    BY <1>5, <2>1 DEF EstaEn, Hilos, Trabajos
  <2>4. Ciclo!Activos \subseteq Residentes \ {q} /\ q \in Residentes
    BY <1>2, <2>2, <2>3 DEF Residentes
  <2>5. /\ IsFiniteSet(Residentes \ {q})
        /\ Cardinality(Residentes \ {q}) = Cardinality(Residentes) - 1
    BY <1>3, <2>4, FS_RemoveElement
  <2>6. Cardinality(Ciclo!Activos) <= Cardinality(Residentes \ {q})
    BY <2>4, <2>5, FS_Subset
  <2>7. Adelanto = 1
    BY <1>5 DEF Adelanto, Uno
  <2>8. QED
    BY <1>4, <2>5, <2>6, <2>7 DEF nRes
<1>6. CASE hilo["gestor"] # "suspender"
  <2>1. Ciclo!Activos \subseteq Residentes
    BY <1>2
  <2>2. Cardinality(Ciclo!Activos) <= Cardinality(Residentes)
    BY <1>3, <2>1, FS_Subset
  <2>3. Adelanto = 0
    BY <1>6 DEF Adelanto, Uno
  <2>4. QED
    BY <1>4, <2>2, <2>3 DEF nRes
<1>7. QED
  BY <1>4, <1>5, <1>6

\* The long-term scheduler activates a process only with a place of its own.
LEMMA LugarParaUno ==
  ASSUME InvCiclo, FaseVale, NEW q, EstaEn("crear", q) \/ EstaEn("reanudar", q)
  PROVE  Ciclo!HayLugar
<1>1. TypeOK /\ Plazas = Grado + Adelanto
  BY PlazasSuman DEF InvCiclo, InvLugares, Inductiva
<1>2. hilo["largo"] \in {"crear", "reanudar"}
  <2>1. PICK h \in Hilos : hilo[h] \in {"crear", "reanudar"}
    BY DEF EstaEn, Colas
  <2>2. QED
    BY <1>1, <2>1 DEF TypeOK, TiposHilos, Hilos, PcLargo, PcCorto, PcRecibe, PcGestor, PcDisp, PcCpu
<1>3. LargoSube = 1
  BY <1>2 DEF LargoSube, Sube, Uno
<1>4. NumerosPlazas
  BY <1>1, PlazasNumeros
<1>5. /\ Cardinality(Ciclo!Activos) \in Nat
      /\ Cardinality(Ciclo!Activos) + Adelanto <= nRes
  BY ActivosCuentan
<1>6. PICK n : n = Cardinality(Ciclo!Activos)
  OBVIOUS
<1>7. n < Grado
  BY <1>1, <1>3, <1>4, <1>5, <1>6, GradoAssumption DEF Plazas, NumerosPlazas
<1>8. QED
  BY <1>6, <1>7, MismoCardinal DEF Ciclo!HayLugar

----------------------------------------------------------------------------
\* Each move is a step of CicloDeVida or none.
LEMMA PasoDeCiclo ==
  ASSUME InvCiclo, InvCiclo', VentanaSinUsar, Movimiento
  PROVE  Ciclo!Next \/ UNCHANGED LasFases
<1>1. UnSitio /\ UnSitio' /\ FaseVale /\ FaseVale' /\ MemoriaVale
  BY SitioUnico, SitioUnicoDespues, FaseSiempreVale, FaseValeDespues, MemoriaSiempreVale
  DEF InvCiclo, InvLugares, Inductiva
<1>t. memoria \in [Procesos -> Memorias]
  BY DEF InvCiclo, InvLugares, Inductiva, TypeOK, TiposDatos
<1>m. \A q \in Procesos : \A m : Memoria(q, m) =>
        memoria'[q] = m /\ \A p \in Procesos : p # q => memoria'[p] = memoria[p]
  BY <1>t DEF Memoria
<1>q. \A q, de, a : Pasa(q, de, a) => q \in Procesos /\ \A s : EstaEn(s, q) <=> s = de
  <2>1. ASSUME NEW q, NEW de, NEW a, Pasa(q, de, a)
        PROVE  q \in Procesos /\ \A s : EstaEn(s, q) <=> s = de
    BY <1>1, <2>1, DePasa
  <2>2. QED
    BY <2>1
<1>2. CASE Queda
  BY <1>1, <1>2, NadieCambia DEF Queda, MemoriaIgual
<1>3. ASSUME NEW q, Traslada(q) PROVE Ciclo!Next \/ UNCHANGED LasFases
  <2>1. PICK de, a : <<de, a>> \in Traslados /\ Pasa(q, de, a)
    BY <1>3 DEF Traslada, Traslados
  <2>2. UNCHANGED memoria
    BY <1>3 DEF Traslada, MemoriaIgual
  <2>3. q \in Procesos /\ \A s : EstaEn(s, q) <=> s = de
    BY <1>q, <2>1
  <2>4. Da(q, FaseDe(de, memoria[q]), FaseDe(a, memoria[q]))
    <3>1. Da(q, FaseDe(de, memoria[q]), FaseDe(a, memoria'[q]))
      BY <1>1, <2>1, <2>2, PasaDa
    <3>2. QED
      BY <2>2, <3>1
  <2>5. de = "io_normal" => memoria[q] = "activo"
    BY <1>1, <2>3 DEF MemoriaVale
  <2>6. CASE de = "afuera"
    <3>1. a = "new"
      BY <2>1, <2>6 DEF Traslados
    <3>2. Da(q, "afuera", "new")
      BY <2>4, <2>6, <3>1 DEF FaseDe, EnNew, EnSusReady, EnBloqueado
    <3>3. q \in Procesos /\ Ciclo!Admite(q)
      BY <3>2, DaSigue DEF Ciclo!Admite
    <3>4. QED
      BY <3>3 DEF Ciclo!Next
  <2>7. CASE de = "ready"
    <3>1. a = "despacho"
      BY <2>1, <2>7 DEF Traslados
    <3>2. Da(q, "ready", "exec")
      BY <2>4, <2>7, <3>1 DEF FaseDe, EnNew, EnSusReady, EnBloqueado
    <3>3. Ciclo!EnFase("exec") = {}
      BY <1>1, <2>1, <2>2, <2>7, <3>1, CpuLibre
    <3>4. q \in Procesos /\ Ciclo!Despacha(q)
      BY <3>2, <3>3, DaSigue DEF Ciclo!Despacha
    <3>5. QED
      BY <3>4 DEF Ciclo!Next
  <2>8. CASE de = "io_normal"
    <3>1. a = "ready"
      BY <2>1, <2>8 DEF Traslados
    <3>2. Da(q, "blocked", "ready")
      BY <2>4, <2>5, <2>8, <3>1 DEF FaseDe, EnNew, EnSusReady, EnBloqueado
    <3>3. q \in Procesos /\ Ciclo!FinIo(q)
      BY <3>2, DaSigue DEF Ciclo!FinIo
    <3>4. QED
      BY <3>3 DEF Ciclo!Next
  <2>9. CASE de \notin {"afuera", "ready", "io_normal"}
    <3>1. FaseDe(de, memoria[q]) = FaseDe(a, memoria[q])
      BY <2>1, <2>9 DEF Traslados, FaseDe, EnNew, EnSusReady, EnBloqueado
    <3>2. QED
      BY <2>4, <3>1, DaSigue
  <2>10. QED
    BY <2>6, <2>7, <2>8, <2>9
<1>4. ASSUME NEW q, Activa(q) PROVE Ciclo!Next \/ UNCHANGED LasFases
  <2>1. PICK de \in {"crear", "reanudar"} : Pasa(q, de, "ready")
    BY <1>4 DEF Activa
  <2>2. \A p \in Procesos : p # q => memoria'[p] = memoria[p]
    BY <1>4, <1>q, <1>m, <2>1 DEF Activa
  <2>3. Da(q, FaseDe(de, memoria[q]), FaseDe("ready", memoria'[q]))
    BY <1>1, <2>1, <2>2, PasaDa
  <2>4. Da(q, IF de = "crear" THEN "new" ELSE "susReady", "ready")
    BY <2>3 DEF FaseDe, EnNew, EnSusReady, EnBloqueado
  <2>5. Ciclo!HayLugar
    BY <1>1, <2>1, LugarParaUno DEF Pasa
  <2>6. CASE de = "crear"
    <3>1. Da(q, "new", "ready")
      BY <2>4, <2>6
    <3>2. q \in Procesos /\ Ciclo!Activa(q)
      BY <2>5, <3>1, DaSigue DEF Ciclo!Activa
    <3>3. QED
      BY <3>2 DEF Ciclo!Next
  <2>7. CASE de = "reanudar"
    <3>1. Da(q, "susReady", "ready")
      BY <2>4, <2>7
    <3>2. q \in Procesos /\ Ciclo!Reanuda(q)
      BY <2>5, <3>1, DaSigue DEF Ciclo!Reanuda
    <3>3. QED
      BY <3>2 DEF Ciclo!Next
  <2>8. QED
    BY <2>6, <2>7
<1>5. ASSUME NEW q, Encola(q) PROVE Ciclo!Next \/ UNCHANGED LasFases
  <2>1. Pasa(q, "encolar_io", "io") /\ UNCHANGED memoria
    BY <1>5 DEF Encola, MemoriaIgual
  <2>2. memoria[q] = "activo"
    BY <1>1, <1>q, <2>1 DEF MemoriaVale, EnExec
  <2>3. Da(q, FaseDe("encolar_io", memoria[q]), FaseDe("io", memoria'[q]))
    BY <1>1, <2>1, PasaDa
  <2>4. Da(q, "exec", "blocked")
    BY <2>1, <2>2, <2>3 DEF FaseDe, EnNew, EnSusReady, EnBloqueado
  <2>5. q \in Procesos /\ Ciclo!Bloquea(q)
    BY <2>4, DaSigue DEF Ciclo!Bloquea
  <2>6. QED
    BY <2>5 DEF Ciclo!Next
<1>6. ASSUME NEW q, Marca(q) PROVE Ciclo!Next \/ UNCHANGED LasFases
  BY <1>1, <1>6, NadieCambia DEF Marca
<1>7. ASSUME NEW q, Finaliza(q) PROVE Ciclo!Next \/ UNCHANGED LasFases
  <2>1. Pasa(q, "finalizar", "eliminado")
    BY <1>7 DEF Finaliza
  <2>2. \A p \in Procesos : p # q => memoria'[p] = memoria[p]
    BY <1>7, <1>q, <1>m, <2>1 DEF Finaliza
  <2>3. Da(q, FaseDe("finalizar", memoria[q]), FaseDe("eliminado", memoria'[q]))
    BY <1>1, <2>1, <2>2, PasaDa
  <2>4. Da(q, "exec", "exit")
    BY <2>3 DEF FaseDe, EnNew, EnSusReady, EnBloqueado
  <2>5. q \in Procesos /\ Ciclo!Termina(q)
    BY <2>4, DaSigue DEF Ciclo!Termina
  <2>6. QED
    BY <2>5 DEF Ciclo!Next
<1>8. ASSUME NEW q, Vence(q) PROVE Ciclo!Next \/ UNCHANGED LasFases
  <2>1. Pasa(q, "io", "suspender") /\ UNCHANGED memoria /\ estado[q] = "blocked"
    BY <1>8 DEF Vence, MemoriaIgual
  <2>2. memoria[q] = "activo"
    BY <1>1, <1>q, <2>1 DEF MemoriaVale
  <2>3. Da(q, FaseDe("io", memoria[q]), FaseDe("suspender", memoria'[q]))
    BY <1>1, <2>1, PasaDa
  <2>4. Da(q, "blocked", "susBlocked")
    BY <2>1, <2>2, <2>3 DEF FaseDe, EnNew, EnSusReady, EnBloqueado
  <2>5. q \in Procesos /\ Ciclo!Suspende(q)
    BY <2>4, DaSigue DEF Ciclo!Suspende
  <2>6. QED
    BY <2>5 DEF Ciclo!Next
<1>9. ASSUME NEW q, Suspende(q) PROVE Ciclo!Next \/ UNCHANGED LasFases
  <2>1. PICK de, a : /\ Pasa(q, de, a)
                     /\ (de = "suspender" /\ a = "io") \/ (de = "io_suspender" /\ a = "io_subir")
    BY <1>9 DEF Suspende
  <2>2. memoria'[q] = "suspendido" /\ \A p \in Procesos : p # q => memoria'[p] = memoria[p]
    BY <1>9, <1>q, <1>m, <2>1 DEF Suspende
  <2>3. Da(q, FaseDe(de, memoria[q]), FaseDe(a, memoria'[q]))
    BY <1>1, <2>1, <2>2, PasaDa
  <2>4. CASE de = "suspender"
    <3>1. Da(q, "susBlocked", "susBlocked")
      BY <2>1, <2>2, <2>3, <2>4 DEF FaseDe, EnNew, EnSusReady, EnBloqueado
    <3>2. QED
      BY <3>1, DaSigue
  <2>5. CASE de = "io_suspender"
    <3>1. memoria[q] = "activo"
      BY <1>1, <1>q, <2>1, <2>5 DEF MemoriaVale
    <3>2. Da(q, "blocked", "susBlocked")
      BY <2>1, <2>2, <2>3, <2>5, <3>1 DEF FaseDe, EnNew, EnSusReady, EnBloqueado
    <3>3. q \in Procesos /\ Ciclo!Suspende(q)
      BY <3>2, DaSigue DEF Ciclo!Suspende
    <3>4. QED
      BY <3>3 DEF Ciclo!Next
  <2>6. QED
    BY <2>1, <2>4, <2>5
<1>10. ASSUME NEW q, Lee(q) PROVE Ciclo!Next \/ UNCHANGED LasFases
  <2>1. PICK a \in {"io_normal", "io_suspender", "sus_ready"} : Pasa(q, "leer", a)
    BY <1>10 DEF Lee
  <2>2. UNCHANGED memoria
    BY <1>10 DEF Lee, MemoriaIgual
  <2>3. Da(q, FaseDe("leer", memoria[q]), FaseDe(a, memoria'[q]))
    BY <1>1, <2>1, <2>2, PasaDa
  <2>4. FaseDe("leer", memoria[q]) = FaseDe(a, memoria'[q])
    BY <2>1, <2>2 DEF FaseDe, EnNew, EnSusReady, EnBloqueado
  <2>5. QED
    BY <2>3, <2>4, DaSigue
<1>11. ASSUME NEW q, FinSus(q) PROVE Ciclo!Next \/ UNCHANGED LasFases
  <2>1. Pasa(q, "sus_ready", "susReady") /\ UNCHANGED memoria
    BY <1>11 DEF FinSus
  <2>2. memoria[q] = "suspendido"
    BY <1>1, <1>q, <2>1 DEF MemoriaVale
  <2>3. Da(q, FaseDe("sus_ready", memoria[q]), FaseDe("susReady", memoria'[q]))
    BY <1>1, <2>1, PasaDa
  <2>4. Da(q, "susBlocked", "susReady")
    BY <2>1, <2>2, <2>3 DEF FaseDe, EnNew, EnSusReady, EnBloqueado
  <2>5. q \in Procesos /\ Ciclo!FinIoSus(q)
    BY <2>4, DaSigue DEF Ciclo!FinIoSus
  <2>6. QED
    BY <2>5 DEF Ciclo!Next
<1>12. QED
  BY <1>2, <1>3, <1>4, <1>5, <1>6, <1>7, <1>8, <1>9, <1>10, <1>11 DEF Movimiento

\* At the start every process is afuera.
LEMMA FasesIniciales == Init => Ciclo!Init
<1> SUFFICES ASSUME Init, NEW p \in Procesos PROVE Fase(p) = "afuera"
  BY DEF Ciclo!Init
<1>1. InvLugares
  BY TiposIniciales, CuentasIniciales, LugaresIniciales DEF InvLugares, Inductiva
<1>2. UnSitio /\ FaseVale
  BY <1>1, SitioUnico, FaseSiempreVale DEF InvLugares, Inductiva
<1>3. EstaEn("afuera", p)
  BY DEF Init, EstaEn
<1>4. \A s : EstaEn(s, p) <=> s = "afuera"
  BY <1>2, <1>3 DEF UnSitio
<1>5. Fase(p) = FaseDe("afuera", memoria[p])
  BY <1>2, <1>4 DEF FaseVale
<1>6. QED
  BY <1>5 DEF FaseDe, EnNew, EnSusReady, EnBloqueado

\* The queues, semaphores and threads of planificador.c implement the seven-state
\* diagram: a process goes only from a state to one the diagram joins to it, one
\* process runs at a time, and the places of ready, exec and blocked are never
\* more than GRADO_MULTIPROGRAMACION.
THEOREM ElKernelCumpleElCiclo == Spec /\ []VentanaSinUsar => CumpleCiclo
<1>1. Init => Ciclo!Init
  BY FasesIniciales
<1>2. InvCiclo /\ InvCiclo' /\ VentanaSinUsar /\ [Next]_vars => [Ciclo!Next]_[p \in Procesos |-> Fase(p)]
  <2> SUFFICES ASSUME InvCiclo, InvCiclo', VentanaSinUsar, [Next]_vars
               PROVE  Ciclo!Next \/ UNCHANGED LasFases
    BY DEF LasFases
  <2>1. Movimiento
    BY TodoSonMovimientos DEF InvCiclo
  <2>2. QED
    BY <2>1, PasoDeCiclo
<1>3. QED
  BY <1>1, <1>2, CicloSiempre, PTL DEF Spec, CumpleCiclo, Ciclo!Spec
=============================================================================
