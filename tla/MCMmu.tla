------------------------------- MODULE MCMmu -------------------------------
(* Instances of Mmu for TLC.                                               *)
EXTENDS Mmu, TLC

Simetria == Permutations(Procesos)

SoloClock == {"CLOCK"}
AmbosAlgoritmos == {"CLOCK", "CLOCK-M"}
SoloLru == {"LRU"}
SoloFifo == {"FIFO"}
TodasInstrucciones == {"READ", "WRITE", "COPY"}
SinCopy == {"READ", "WRITE"}
=============================================================================
