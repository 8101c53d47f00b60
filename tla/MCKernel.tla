------------------------------ MODULE MCKernel ------------------------------
(* Instances of Kernel for TLC. *)
EXTENDS Kernel, TLC

\* PCBs are interchangeable: only the order of arrival tells them apart.
Simetria == Permutations(Procesos)
=============================================================================
