---------------------------- MODULE CicloDeVida ----------------------------
(***************************************************************************)
(* What the kernel promises about the life of a process, with no thread,   *)
(* semaphore, queue or message: the seven-state diagram, one CPU, and at   *)
(* most Grado processes competing for it (ready, running or blocked in     *)
(* memory).  Kernel.tla implements it.                                     *)
(***************************************************************************)
EXTENDS FiniteSets, Naturals

CONSTANTS Procesos,     \* the programs that consoles may send
          Grado         \* GRADO_MULTIPROGRAMACION

VARIABLE fase           \* process -> state of the diagram

Fases == {"afuera", "new", "ready", "exec", "blocked",
          "susBlocked", "susReady", "exit"}

EnFase(f) == {p \in Procesos : fase[p] = f}

\* The processes that occupy one of the Grado places.
Activos == {p \in Procesos : fase[p] \in {"ready", "exec", "blocked"}}

Cambia(p, de, a) == fase[p] = de /\ fase' = [fase EXCEPT ![p] = a]

HayLugar == Cardinality(Activos) < Grado

Init == fase = [p \in Procesos |-> "afuera"]

Admite(p)     == Cambia(p, "afuera", "new")
Activa(p)     == HayLugar /\ Cambia(p, "new", "ready")
Reanuda(p)    == HayLugar /\ Cambia(p, "susReady", "ready")
Despacha(p)   == EnFase("exec") = {} /\ Cambia(p, "ready", "exec")
Bloquea(p)    == Cambia(p, "exec", "blocked")
FinIo(p)      == Cambia(p, "blocked", "ready")
Suspende(p)   == Cambia(p, "blocked", "susBlocked")
FinIoSus(p)   == Cambia(p, "susBlocked", "susReady")
Termina(p)    == Cambia(p, "exec", "exit")

Next == \E p \in Procesos :
           \/ Admite(p) \/ Activa(p) \/ Reanuda(p) \/ Despacha(p) \/ Bloquea(p)
           \/ FinIo(p) \/ Suspende(p) \/ FinIoSus(p) \/ Termina(p)

Spec == Init /\ [][Next]_fase
============================================================================
