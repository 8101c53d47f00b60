----------------------------- MODULE MCConsolas -----------------------------
(* Instances of Consolas for TLC.                                          *)
EXTENDS Consolas

Linea(nombre, numeros) == [nombre |-> nombre, numeros |-> numeros]

\* Two I/Os, so that the estimation takes two words after the first.
ConIo == <<Linea("NO_OP", <<2>>), Linea("I/O", <<5>>), Linea("WRITE", <<4, 7>>),
           Linea("I/O", <<0>>), Linea("EXIT", <<>>)>>
SinIo == <<Linea("COPY", <<4, 8>>), Linea("NO_OP", <<0>>), Linea("READ", <<4>>), Linea("EXIT", <<>>)>>
SinExit == <<Linea("NO_OP", <<1>>), Linea("READ", <<0>>)>>
Equivocado == <<Linea("I/O", <<3>>), Linea("FOO", <<1>>), Linea("EXIT", <<>>)>>
EquivocadoAlPrincipio == <<Linea("FOO", <<>>), Linea("EXIT", <<>>)>>
EquivocadoEnMedio == <<Linea("NO_OP", <<1>>), Linea("FOO", <<>>), Linea("EXIT", <<>>)>>

Todos == {ConIo, SinIo, SinExit, Equivocado, EquivocadoAlPrincipio, EquivocadoEnMedio}
SoloBuenos == {ConIo, SinIo}

Tamanios == [c \in Conectables |-> 64 * c]
=============================================================================
