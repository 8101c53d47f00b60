---------------------------- MODULE MemoriaIdeal ----------------------------
(***************************************************************************)
(* What the memory module promises to the CPU: every process has its own   *)
(* pages, a page keeps the last value written to it, and a read returns    *)
(* that value. Frames, swap, suspension and replacement do not show.       *)
(* Memoria.tla implements it as long as no page is replaced.               *)
(***************************************************************************)

CONSTANTS Procesos,     \* the processes the kernel creates
          Paginas,      \* the page numbers of a process
          Valores,      \* what a page can hold
          Cero,         \* what a page of a new process holds
          SinRespuesta  \* no answer is on its way

VARIABLES contenido,    \* contenido[p][n]: the value of page n of process p
          terminados,   \* the processes that ended
          respuesta     \* the answer to the access of the CPU

vars == <<contenido, terminados, respuesta>>

Vacias == [n \in Paginas |-> Cero]

Init == /\ contenido = [p \in Procesos |-> Vacias]
        /\ terminados = {}
        /\ respuesta = SinRespuesta

Atiende(op, p, n, v) ==
  /\ p \notin terminados
  /\ respuesta = SinRespuesta
  /\ respuesta' = [op |-> op, pid |-> p, pag |-> n, valor |-> v]
  /\ UNCHANGED terminados

Lee(p, n) == Atiende("lectura", p, n, contenido[p][n]) /\ UNCHANGED contenido

\* A page changes only together with the answer to the write that changed it.
Escribe(p, n, v) == /\ Atiende("escritura", p, n, v)
                    /\ contenido' = [contenido EXCEPT ![p][n] = v]

Responde == /\ respuesta # SinRespuesta
            /\ respuesta' = SinRespuesta
            /\ UNCHANGED <<contenido, terminados>>

\* A process that ends takes its pages with it.
Elimina(p) == /\ p \notin terminados
              /\ terminados' = terminados \union {p}
              /\ contenido' = [contenido EXCEPT ![p] = Vacias]
              /\ UNCHANGED respuesta

Next == \/ Responde
        \/ \E p \in Procesos :
             \/ Elimina(p)
             \/ \E n \in Paginas : Lee(p, n) \/ \E v \in Valores : Escribe(p, n, v)

Spec == Init /\ [][Next]_vars
=============================================================================
