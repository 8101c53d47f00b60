--------------------------- MODULE MCInterrupcion ---------------------------
(* Instances of Interrupcion for TLC. *)
EXTENDS Interrupcion, TLC

\* SRT looks at estimations only, and those are abstract.
Simetria == Permutations(Procesos)
=============================================================================
