----------------------------- MODULE MCMemoria -----------------------------
(* Instances of Memoria for TLC.                                           *)
EXTENDS Memoria, TLC

Simetria == Permutations(Procesos)

SoloClock == {"CLOCK"}
=============================================================================
