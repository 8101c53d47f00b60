------------------------ MODULE SerializacionPruebas ------------------------
(***************************************************************************)
(* What one program writes the other one reads: the layouts of module      *)
(* Serializacion undo each other for every program and every PCB.          *)
(*                                                                         *)
(* The loops that write and read are functions of the number of turns. An  *)
(* equation that defines such a function is shown to have a solution, and  *)
(* only one, by taking the first turn at which it would fail.              *)
(***************************************************************************)
EXTENDS Serializacion, SequenceTheorems, WellFoundedInduction, TLAPS

----------------------------------------------------------------------------
(* FlattenSeq.                                                             *)

\* A set of numbers that is not empty has a least one.
LEMMA Minimal == ASSUME NEW T \in SUBSET Nat, T # {}
                 PROVE  \E m \in T : \A k \in T : m <= k
<1>1. \E x \in T : \A y \in T : <<y, x>> \notin OpToRel(<, Nat)
  BY NatLessThanWellFounded, WFMin
<1>2. \A x, y \in Nat : <<y, x>> \notin OpToRel(<, Nat) => x <= y
  BY DEF OpToRel
<1> QED BY <1>1, <1>2

\* What holds at a and goes from each number below b to the next one holds
\* up to b. T is the set of the numbers up to b at which it holds.
LEMMA HastaElFinal ==
  ASSUME NEW a \in Nat, NEW b \in Nat, NEW T,
         a \in T, \A k \in a .. b - 1 : k \in T => k + 1 \in T
  PROVE  \A k \in a .. b : k \in T
<1> DEFINE F == {k \in a .. b : k \notin T}
<1>1. SUFFICES ASSUME F # {} PROVE FALSE
  OBVIOUS
<1>2. F \in SUBSET Nat
  OBVIOUS
<1>3. PICK m \in F : \A k \in F : m <= k
  BY <1>1, <1>2, Minimal
<1>4. m \in a .. b /\ m \notin T /\ m # a
  BY <1>3
<1>5. m - 1 \in a .. b - 1 /\ m - 1 \notin F
  BY <1>3, <1>4
<1>6. m - 1 \in T
  BY <1>5
<1>7. (m - 1) + 1 \in T
  BY <1>5, <1>6
<1>8. (m - 1) + 1 = m
  BY <1>4
<1> QED BY <1>4, <1>7, <1>8

\* f[i] joins the first i sequences of ss.
Une(f, ss, n, S) ==
  /\ f \in [0 .. n -> Seq(S)]
  /\ f[0] = <<>>
  /\ \A i \in 1 .. n : f[i] = f[i - 1] \o ss[i]

\* Such a function exists for every sequence of sequences.
LEMMA UneExiste ==
  ASSUME NEW S, NEW ss \in Seq(Seq(S)) PROVE \E f : Une(f, ss, Len(ss), S)
<1> DEFINE T == {m \in 0 .. Len(ss) : \E f : Une(f, ss, m, S)}
<1>0. Len(ss) \in Nat
  OBVIOUS
<1>1. 0 \in T
  <2>1. Une([i \in 0 .. 0 |-> <<>>], ss, 0, S)
    BY DEF Une
  <2> QED BY <2>1
<1>2. ASSUME NEW k \in 0 .. Len(ss) - 1, k \in T PROVE k + 1 \in T
  <2>1. PICK f : Une(f, ss, k, S)
    BY <1>2
  <2> DEFINE g == [i \in 0 .. k + 1 |-> IF i = k + 1 THEN f[k] \o ss[k + 1] ELSE f[i]]
  <2>2. f[k] \in Seq(S) /\ ss[k + 1] \in Seq(S)
    BY <2>1 DEF Une
  <2>3. f[k] \o ss[k + 1] \in Seq(S)
    BY <2>2, ConcatProperties
  <2>4. g \in [0 .. k + 1 -> Seq(S)] /\ g[0] = <<>>
    BY <2>1, <2>3 DEF Une
  <2>5. ASSUME NEW i \in 1 .. k + 1 PROVE g[i] = g[i - 1] \o ss[i]
    <3>1. CASE i = k + 1
      <4>1. i - 1 = k /\ k # k + 1 /\ k \in 0 .. k + 1 /\ k + 1 \in 0 .. k + 1
        BY <3>1
      <4>2. g[i] = f[k] \o ss[k + 1] /\ g[i - 1] = f[k]
        BY <4>1, <3>1
      <4> QED BY <4>2, <3>1
    <3>2. CASE i # k + 1
      <4>1. i \in 1 .. k /\ i - 1 \in 0 .. k + 1 /\ i - 1 # k + 1
        BY <3>2
      <4>2. g[i] = f[i] /\ g[i - 1] = f[i - 1]
        BY <4>1, <3>2
      <4> QED BY <4>1, <4>2, <2>1 DEF Une
    <3> QED BY <3>1, <3>2
  <2> HIDE DEF g
  <2>6. Une(g, ss, k + 1, S)
    BY <2>4, <2>5 DEF Une
  <2>7. k + 1 \in 0 .. Len(ss)
    OBVIOUS
  <2> QED BY <2>6, <2>7
<1> HIDE DEF T
<1>3. \A k \in 0 .. Len(ss) : k \in T
  BY <1>0, <1>1, <1>2, HastaElFinal
<1>4. Len(ss) \in T
  BY <1>0, <1>3
<1> QED BY <1>4 DEF T

\* FlattenSeq returns its last value.
LEMMA Aplanado ==
  ASSUME NEW S, NEW ss \in Seq(Seq(S)), NEW f, Une(f, ss, Len(ss), S)
  PROVE  FlattenSeq(ss) = f[Len(ss)]
<1> DEFINE n == Len(ss)
           E(h) == h = [i \in 1 .. n |-> IF i = 1 THEN ss[i] ELSE h[i - 1] \o ss[i]]
           g == CHOOSE h : E(h)
           e == [i \in 1 .. n |-> f[i]]
<1>1. CASE ss = <<>>
  BY <1>1 DEF FlattenSeq, Une
<1>2. CASE ss # <<>>
  <2>1. n \in Nat /\ n >= 1
    BY <1>2, EmptySeq
  <2>2. f[1] = ss[1]
    <3>1. ss[1] \in Seq(S)
      BY <2>1
    <3>2. 1 \in 1 .. n /\ 1 - 1 = 0
      BY <2>1
    <3>3. f[1] = <<>> \o ss[1]
      BY <3>2 DEF Une
    <3> QED BY <3>1, <3>3, ConcatEmptySeq
  <2>3. E(e)
    <3> SUFFICES ASSUME NEW i \in 1 .. n
                 PROVE  e[i] = IF i = 1 THEN ss[i] ELSE e[i - 1] \o ss[i]
      OBVIOUS
    <3>1. CASE i = 1
      BY <3>1, <2>2
    <3>2. CASE i # 1
      <4>1. i - 1 \in 1 .. n
        BY <3>2, <2>1
      <4>2. f[i] = f[i - 1] \o ss[i]
        BY DEF Une
      <4> QED BY <4>1, <4>2, <3>2
    <3> QED BY <3>1, <3>2
  <2>4. E(g)
    BY <2>3
  <2>5. FlattenSeq(ss) = g[n]
    BY <2>1 DEF FlattenSeq
  <2>6. \A i \in 1 .. n : g[i] = IF i = 1 THEN ss[i] ELSE g[i - 1] \o ss[i]
    BY <2>4
  <2> HIDE DEF g
  <2> DEFINE T == {m \in 1 .. n : g[m] = f[m]}
  <2>7. 1 \in T
    BY <2>1, <2>2, <2>6
  <2>8. ASSUME NEW k \in 1 .. n - 1, k \in T PROVE k + 1 \in T
    <3>1. k + 1 \in 1 .. n /\ k + 1 # 1 /\ (k + 1) - 1 = k
      BY <2>1
    <3>2. g[k + 1] = g[k] \o ss[k + 1]
      BY <3>1, <2>6
    <3>3. f[k + 1] = f[k] \o ss[k + 1]
      BY <3>1 DEF Une
    <3> QED BY <3>1, <3>2, <3>3, <2>8
  <2> HIDE DEF T
  <2>9. \A k \in 1 .. n : k \in T
    BY <2>1, <2>7, <2>8, HastaElFinal
  <2>10. n \in T
    BY <2>1, <2>9
  <2> QED BY <2>5, <2>10 DEF T
<1> QED BY <1>1, <1>2

\* Each value begins with the ones before it.
LEMMA UnePrefijos ==
  ASSUME NEW S, NEW ss \in Seq(Seq(S)), NEW f, Une(f, ss, Len(ss), S),
         NEW i \in 0 .. Len(ss), NEW j \in i .. Len(ss)
  PROVE  Len(f[i]) <= Len(f[j]) /\ \A k \in 1 .. Len(f[i]) : f[j][k] = f[i][k]
<1> DEFINE P(m) == Len(f[i]) <= Len(f[m]) /\ \A k \in 1 .. Len(f[i]) : f[m][k] = f[i][k]
           T == {m \in i .. Len(ss) : P(m)}
<1>1. \A m \in 0 .. Len(ss) : f[m] \in Seq(S) /\ Len(f[m]) \in Nat
  BY SMTT(30) DEF Une
<1>0. i \in Nat /\ Len(ss) \in Nat
  OBVIOUS
<1>2. i \in T
  BY <1>1
<1>3. ASSUME NEW m \in i .. Len(ss) - 1, m \in T PROVE m + 1 \in T
  <2>1. m \in 0 .. Len(ss) /\ m + 1 \in 1 .. Len(ss) /\ (m + 1) - 1 = m
    OBVIOUS
  <2>2. f[m + 1] = f[m] \o ss[m + 1] /\ ss[m + 1] \in Seq(S)
    <3>1. f[m + 1] = f[(m + 1) - 1] \o ss[m + 1]
      BY <2>1 DEF Une
    <3> QED BY <3>1, <2>1
  <2>3. f[m] \in Seq(S)
    BY <1>1, <2>1
  <2>4. Len(f[m + 1]) = Len(f[m]) + Len(ss[m + 1])
        /\ \A k \in 1 .. Len(f[m]) : f[m + 1][k] = f[m][k]
    <3> DEFINE a == f[m]
               b == ss[m + 1]
    <3>1. a \in Seq(S) /\ b \in Seq(S)
      BY <2>2, <2>3
    <3> HIDE DEF a, b
    <3>2. Len(a \o b) = Len(a) + Len(b) /\ \A k \in 1 .. Len(a) : (a \o b)[k] = a[k]
      BY <3>1
    <3> QED BY <3>2, <2>2 DEF a, b
  <2>5. P(m) /\ Len(f[i]) \in Nat /\ Len(f[m]) \in Nat /\ Len(ss[m + 1]) \in Nat
    BY <1>1, <1>3, <2>1, <2>2
  <2>9. Len(f[i]) <= Len(f[m])
    BY <2>5
  <2>6. Len(f[i]) <= Len(f[m + 1]) /\ 1 .. Len(f[i]) \subseteq 1 .. Len(f[m])
    <3>1. \A x, y, z \in Nat : x <= y => x <= y + z /\ 1 .. x \subseteq 1 .. y
      OBVIOUS
    <3>2. Len(f[i]) \in Nat /\ Len(f[m]) \in Nat /\ Len(ss[m + 1]) \in Nat
      BY <2>5
    <3>3. Len(f[i]) <= Len(f[m]) + Len(ss[m + 1]) /\ 1 .. Len(f[i]) \subseteq 1 .. Len(f[m])
      BY <3>1, <3>2, <2>9
    <3>4. Len(f[m + 1]) = Len(f[m]) + Len(ss[m + 1])
      BY <2>4
    <3> QED BY <3>3, <3>4
  <2>7. P(m + 1)
    BY <2>4, <2>5, <2>6
  <2>8. m + 1 \in i .. Len(ss)
    BY <1>0
  <2> QED BY <2>7, <2>8
<1> HIDE DEF T
<1>4. \A m \in i .. Len(ss) : m \in T
  BY <1>0, <1>2, <1>3, HastaElFinal
<1>5. j \in T
  BY <1>4
<1> QED BY <1>5 DEF T

----------------------------------------------------------------------------
(* The instructions as words.                                              *)

Instrucciones == [cod_op : Palabra, parametros : Seq(Palabra)]

Trozos(lista) == [i \in DOMAIN lista |-> serializar_instruccion(lista[i])]

\* Words are numbers, and a number of words takes four times as many bytes.
LEMMA Numeros == Palabra \subseteq Nat /\ \A n \in Nat : Palabras(Ancho * n) = n
BY BasePalabraAssumption DEF Palabra, Palabras, Ancho

\* The words of an instruction: its code, the size of its operands, and them.
LEMMA InstruccionEnPalabras ==
  ASSUME NEW ins \in Instrucciones
  PROVE  LET t == serializar_instruccion(ins)
             n == Len(ins.parametros)
         IN /\ n \in Nat /\ t \in Seq(Nat) /\ Len(t) = 2 + n
            /\ t[1] = ins.cod_op /\ t[2] = Ancho * n
            /\ \A j \in 1 .. n : t[2 + j] = ins.parametros[j]
<1> DEFINE p == ins.parametros
           n == Len(p)
           c == ins.cod_op
           cabeza == <<c, Ancho * n>>
<1>1. p \in Seq(Nat) /\ n \in Nat /\ c \in Nat
  <2>1. p \in Seq(Palabra) /\ c \in Palabra
    BY DEF Instrucciones
  <2>2. p \in Seq(Nat)
    BY <2>1, Numeros, SeqMonotonic
  <2> QED BY <2>1, <2>2, Numeros, LenProperties
<1>2. cabeza \in Seq(Nat) /\ Len(cabeza) = 2 /\ cabeza[1] = c /\ cabeza[2] = Ancho * n
  <2>1. Ancho * n \in Nat
    BY <1>1 DEF Ancho
  <2> QED BY <1>1, <2>1
<1>3. serializar_instruccion(ins) = cabeza \o p
  BY DEF serializar_instruccion, tam_param
<1> HIDE DEF cabeza, p, c
<1>4. /\ cabeza \o p \in Seq(Nat)
      /\ Len(cabeza \o p) = 2 + n
      /\ \A i \in 1 .. 2 + n : (cabeza \o p)[i] = IF i <= 2 THEN cabeza[i] ELSE p[i - 2]
  <2>1. /\ cabeza \o p \in Seq(Nat)
        /\ Len(cabeza \o p) = Len(cabeza) + Len(p)
        /\ \A i \in 1 .. Len(cabeza) + Len(p) :
             (cabeza \o p)[i] = IF i <= Len(cabeza) THEN cabeza[i] ELSE p[i - Len(cabeza)]
    BY <1>1, <1>2, ConcatProperties
  <2> QED BY <1>2, <2>1
<1>5. (cabeza \o p)[1] = c /\ (cabeza \o p)[2] = Ancho * n
  BY <1>1, <1>2, <1>4
<1>6. \A j \in 1 .. n : (cabeza \o p)[2 + j] = p[j]
  BY <1>1, <1>4
<1> QED BY <1>1, <1>3, <1>4, <1>5, <1>6 DEF p, c

\* A function that joins them exists, and EnPalabras is its last value.
LEMMA UnePalabras ==
  ASSUME NEW lista \in Seq(Instrucciones)
  PROVE  /\ Trozos(lista) \in Seq(Seq(Nat)) /\ Len(Trozos(lista)) = Len(lista)
         /\ \E f : Une(f, Trozos(lista), Len(lista), Nat) /\ EnPalabras(lista) = f[Len(lista)]
<1>1. \A i \in 1 .. Len(lista) : serializar_instruccion(lista[i]) \in Seq(Nat)
  BY InstruccionEnPalabras
<1>2. Trozos(lista) = [i \in 1 .. Len(lista) |-> serializar_instruccion(lista[i])] /\ Len(lista) \in Nat
  BY DEF Trozos
<1>3. Trozos(lista) \in [1 .. Len(lista) -> Seq(Nat)]
  BY <1>1, <1>2
<1>4. Trozos(lista) \in Seq(Seq(Nat)) /\ Len(Trozos(lista)) = Len(lista)
  BY <1>2, <1>3
<1>5. EnPalabras(lista) = FlattenSeq(Trozos(lista))
  BY DEF EnPalabras, Trozos
<1> QED BY <1>4, <1>5, UneExiste, Aplanado

\* A turn of the loop that writes adds the words of an instruction.
LEMMA UnaMas ==
  ASSUME NEW lista \in Seq(Instrucciones), NEW f, Une(f, Trozos(lista), Len(lista), Nat),
         NEW k \in 1 .. Len(lista)
  PROVE  LET ins == lista[k]
             n == Len(ins.parametros)
             w == Len(f[k - 1])
         IN /\ ins \in Instrucciones /\ n \in Nat /\ w \in Nat
            /\ Len(f[k]) = w + 2 + n
            /\ f[k][w + 1] = ins.cod_op /\ f[k][w + 2] = Ancho * n
            /\ \A j \in 1 .. n : f[k][w + 2 + j] = ins.parametros[j]
<1> DEFINE ins == lista[k]
           n == Len(ins.parametros)
           a == f[k - 1]
           w == Len(a)
           t == serializar_instruccion(ins)
<1>1. ins \in Instrucciones
  OBVIOUS
<1>2. f[k] = a \o t /\ a \in Seq(Nat)
  <2>1. Trozos(lista)[k] = t
    BY DEF Trozos
  <2>2. f[k] = f[k - 1] \o Trozos(lista)[k]
    BY DEF Une
  <2>3. k - 1 \in 0 .. Len(lista)
    OBVIOUS
  <2>4. f[k - 1] \in Seq(Nat)
    BY <2>3 DEF Une
  <2> QED BY <2>1, <2>2, <2>4
<1>3. /\ n \in Nat /\ t \in Seq(Nat) /\ Len(t) = 2 + n
      /\ t[1] = ins.cod_op /\ t[2] = Ancho * n
      /\ \A j \in 1 .. n : t[2 + j] = ins.parametros[j]
  BY <1>1, InstruccionEnPalabras
<1> HIDE DEF a, t, n
<1>4. /\ Len(a \o t) = w + (2 + n) /\ w \in Nat
      /\ \A i \in 1 .. w + (2 + n) : (a \o t)[i] = IF i <= w THEN a[i] ELSE t[i - w]
  <2>1. /\ Len(a \o t) = Len(a) + Len(t)
        /\ \A i \in 1 .. Len(a) + Len(t) :
             (a \o t)[i] = IF i <= Len(a) THEN a[i] ELSE t[i - Len(a)]
    BY <1>2, <1>3, ConcatProperties
  <2>2. Len(a) \in Nat
    BY <1>2, LenProperties
  <2> QED BY <1>3, <2>1, <2>2
<1>5. \A j \in 1 .. 2 + n : (a \o t)[w + j] = t[j]
  <2> SUFFICES ASSUME NEW j \in 1 .. 2 + n PROVE (a \o t)[w + j] = t[j]
    OBVIOUS
  <2>1. w + j \in 1 .. w + (2 + n) /\ ~(w + j <= w) /\ (w + j) - w = j
    BY <1>3, <1>4
  <2> QED BY <1>4, <2>1
<1>6. 1 \in 1 .. 2 + n /\ 2 \in 1 .. 2 + n
  BY <1>3
<1>7. \A j \in 1 .. n : (a \o t)[w + 2 + j] = ins.parametros[j]
  <2> SUFFICES ASSUME NEW j \in 1 .. n PROVE (a \o t)[w + 2 + j] = ins.parametros[j]
    OBVIOUS
  <2>1. 2 + j \in 1 .. 2 + n /\ w + 2 + j = w + (2 + j)
    BY <1>3, <1>4
  <2> QED BY <1>3, <1>5, <2>1
<1>8. Len(a \o t) = w + 2 + n
  BY <1>3, <1>4
<1>9. (a \o t)[w + 1] = ins.cod_op /\ (a \o t)[w + 2] = Ancho * n
  BY <1>3, <1>5, <1>6
<1>10. /\ ins \in Instrucciones /\ n \in Nat /\ w \in Nat
       /\ Len(f[k]) = w + 2 + n
       /\ f[k][w + 1] = ins.cod_op /\ f[k][w + 2] = Ancho * n
       /\ \A j \in 1 .. n : f[k][w + 2 + j] = ins.parametros[j]
  BY <1>1, <1>2, <1>3, <1>4, <1>7, <1>8, <1>9
<1> QED BY <1>10 DEF a, n

\* No instruction takes less than two words.
LEMMA AlMenosDos ==
  ASSUME NEW lista \in Seq(Instrucciones), NEW f, Une(f, Trozos(lista), Len(lista), Nat)
  PROVE  \A k \in 0 .. Len(lista) : Len(f[k]) \in Nat /\ 2 * k <= Len(f[k])
<1> DEFINE n == Len(lista)
           T == {k \in 0 .. n : Len(f[k]) \in Nat /\ 2 * k <= Len(f[k])}
<1>1. n \in Nat
  OBVIOUS
<1>2. 0 \in T
  BY <1>1 DEF Une
<1>3. ASSUME NEW k \in 0 .. n - 1, k \in T PROVE k + 1 \in T
  <2>1. k + 1 \in 1 .. Len(lista) /\ (k + 1) - 1 = k
    BY <1>1
  <2>2. /\ Len(lista[k + 1].parametros) \in Nat
        /\ Len(f[k + 1]) = Len(f[(k + 1) - 1]) + 2 + Len(lista[k + 1].parametros)
    <3> DEFINE j == k + 1
    <3>1. j \in 1 .. Len(lista)
      BY <2>1
    <3> HIDE DEF j
    <3>2. Len(lista[j].parametros) \in Nat /\ Len(f[j]) = Len(f[j - 1]) + 2 + Len(lista[j].parametros)
      BY <3>1, UnaMas
    <3> QED BY <3>2 DEF j
  <2>3. Len(f[k]) \in Nat /\ 2 * k <= Len(f[k]) /\ k \in Nat
    BY <1>3
  <2>4. Len(f[k + 1]) = Len(f[k]) + 2 + Len(lista[k + 1].parametros)
    BY <2>1, <2>2
  <2>5. \A x, y, z \in Nat : 2 * x <= y => 2 * (x + 1) <= y + 2 + z /\ y + 2 + z \in Nat
    OBVIOUS
  <2>6. 2 * (k + 1) <= Len(f[k + 1]) /\ Len(f[k + 1]) \in Nat
    BY <2>2, <2>3, <2>4, <2>5
  <2> QED BY <2>1, <2>6
<1> HIDE DEF T
<1>4. \A k \in 0 .. n : k \in T
  BY <1>1, <1>2, <1>3, HastaElFinal
<1> QED BY <1>4 DEF T

\* What EnPalabras returns, and how long it is.
LEMMA LargoEnPalabras ==
  ASSUME NEW lista \in Seq(Instrucciones)
  PROVE  /\ EnPalabras(lista) \in Seq(Nat) /\ Len(EnPalabras(lista)) \in Nat
         /\ 2 * Len(lista) <= Len(EnPalabras(lista))
<1>1. PICK f : Une(f, Trozos(lista), Len(lista), Nat) /\ EnPalabras(lista) = f[Len(lista)]
  BY UnePalabras
<1>2. Len(lista) \in 0 .. Len(lista)
  OBVIOUS
<1> QED BY <1>1, <1>2, AlMenosDos DEF Une

\* The size that the console announces is the size of what it has written.
THEOREM SizeExacto ==
  ASSUME NEW lista \in Seq(Instrucciones), NEW tamanio
  PROVE  serializar_instrucciones(lista, tamanio).size = Ancho + Ancho * Len(EnPalabras(lista))
<1> DEFINE n == Len(lista)
           E(h) == h = [i \in 0 .. n |->
                          IF i = 0 THEN Ancho ELSE h[i - 1] + 2 * Ancho + tam_param(lista[i])]
           g == CHOOSE h : E(h)
<1>1. PICK f : Une(f, Trozos(lista), n, Nat) /\ EnPalabras(lista) = f[n]
  BY UnePalabras
<1> DEFINE e == [i \in 0 .. n |-> Ancho + Ancho * Len(f[i])]
<1>2. n \in Nat /\ \A i \in 0 .. n : Len(f[i]) \in Nat
  BY <1>1, AlMenosDos
<1>3. ASSUME NEW i \in 1 .. n
      PROVE  Len(f[i]) = Len(f[i - 1]) + 2 + Len(lista[i].parametros)
             /\ Len(lista[i].parametros) \in Nat
  BY <1>1, UnaMas, ZenonT(30)
<1>4. E(e)
  <2> SUFFICES ASSUME NEW i \in 0 .. n
               PROVE  e[i] = IF i = 0 THEN Ancho ELSE e[i - 1] + 2 * Ancho + tam_param(lista[i])
    OBVIOUS
  <2>1. CASE i = 0
    BY <1>1, <2>1 DEF Une, Ancho
  <2>2. CASE i # 0
    <3>1. i \in 1 .. n /\ i - 1 \in 0 .. n
      BY <1>2, <2>2
    <3>2. e[i] = Ancho + Ancho * Len(f[i]) /\ e[i - 1] = Ancho + Ancho * Len(f[i - 1])
      BY <3>1
    <3>3. Len(f[i]) = Len(f[i - 1]) + 2 + Len(lista[i].parametros)
          /\ Len(lista[i].parametros) \in Nat /\ Len(f[i - 1]) \in Nat
      BY <1>2, <1>3, <3>1
    <3> HIDE DEF e
    <3>4. \A x, y \in Nat : Ancho + Ancho * (x + 2 + y) = (Ancho + Ancho * x) + 2 * Ancho + Ancho * y
      BY DEF Ancho
    <3> QED BY <2>2, <3>2, <3>3, <3>4 DEF tam_param
  <2> QED BY <2>1, <2>2
<1>5. E(g)
  BY <1>4
<1>6. serializar_instrucciones(lista, tamanio).size = g[n]
  BY DEF serializar_instrucciones
<1>7. \A i \in 0 .. n : g[i] = IF i = 0 THEN Ancho ELSE g[i - 1] + 2 * Ancho + tam_param(lista[i])
  BY <1>5
<1> HIDE DEF g
<1> DEFINE T == {i \in 0 .. n : g[i] = e[i]}
<1>8. 0 \in T
  <2>1. 0 \in 0 .. n
    BY <1>2
  <2>2. g[0] = Ancho
    BY <1>7, <2>1
  <2>3. e[0] = Ancho
    BY <1>4, <2>1
  <2> QED BY <2>1, <2>2, <2>3
<1>9. ASSUME NEW k \in 0 .. n - 1, k \in T PROVE k + 1 \in T
  <2>1. k + 1 \in 0 .. n /\ k + 1 # 0 /\ (k + 1) - 1 = k
    BY <1>2
  <2>2. g[k + 1] = g[k] + 2 * Ancho + tam_param(lista[k + 1])
    BY <1>7, <2>1
  <2>3. e[k + 1] = e[k] + 2 * Ancho + tam_param(lista[k + 1])
    <3> HIDE DEF e
    <3>1. \A i \in 0 .. n : e[i] = IF i = 0 THEN Ancho ELSE e[i - 1] + 2 * Ancho + tam_param(lista[i])
      BY <1>4
    <3> QED BY <2>1, <3>1
  <2> QED BY <1>9, <2>1, <2>2, <2>3
<1> HIDE DEF T
<1>10. \A k \in 0 .. n : k \in T
  BY <1>2, <1>8, <1>9, HastaElFinal
<1>11. g[n] = e[n]
  BY <1>2, <1>10 DEF T
<1> QED BY <1>1, <1>2, <1>6, <1>11

\* The words from a to b of a sequence, when they are those of another.
LEMMA TrozoIgual ==
  ASSUME NEW S, NEW t \in Seq(S), NEW s, NEW a \in Nat,
         \A j \in 1 .. Len(t) : s[a + j] = t[j]
  PROVE  SubSeq(s, a + 1, a + Len(t)) = t
<1> DEFINE n == Len(t)
           u == SubSeq(s, a + 1, a + n)
<1>1. n \in Nat /\ a + 1 \in Int /\ a + n \in Int
  BY LenProperties
<1>2. \A i \in a + 1 .. a + n : s[i] \in S
  <2> SUFFICES ASSUME NEW i \in a + 1 .. a + n PROVE s[i] \in S
    OBVIOUS
  <2>1. i - a \in 1 .. n /\ a + (i - a) = i
    BY <1>1
  <2>2. t[i - a] \in S
    BY <2>1, ElementOfSeq
  <2> QED BY <2>1, <2>2
<1>3. /\ u \in Seq(S)
      /\ Len(u) = IF a + 1 <= a + n THEN (a + n) - (a + 1) + 1 ELSE 0
      /\ \A i \in 1 .. (a + n) - (a + 1) + 1 : u[i] = s[(a + 1) + i - 1]
  BY <1>1, <1>2, SubSeqProperties
<1> HIDE DEF u
<1>4. Len(u) = n
  BY <1>1, <1>3
<1>5. \A i \in 1 .. n : u[i] = t[i]
  <2> SUFFICES ASSUME NEW i \in 1 .. n PROVE u[i] = t[i]
    OBVIOUS
  <2>1. (a + n) - (a + 1) + 1 = n /\ (a + 1) + i - 1 = a + i
    BY <1>1
  <2> QED BY <1>3, <2>1
<1> QED BY <1>3, <1>4, <1>5, SeqEqual DEF u

\* A turn of the loop that reads takes the instruction that the same turn of
\* the loop that writes has put.
LEMMA LeeLaMisma ==
  ASSUME NEW lista \in Seq(Instrucciones), NEW f, Une(f, Trozos(lista), Len(lista), Nat),
         NEW k \in 1 .. Len(lista)
  PROVE  LeeUna(f[Len(lista)], Ancho * Len(f[Len(lista)]),
                [offset |-> Ancho * Len(f[k - 1]), lista |-> SubSeq(lista, 1, k - 1)])
           = [offset |-> Ancho * Len(f[k]), lista |-> SubSeq(lista, 1, k)]
<1> DEFINE ins == lista[k]
           p == ins.parametros
           n == Len(p)
           w == Len(f[k - 1])
           s == f[Len(lista)]
<1>1. /\ ins \in Instrucciones /\ n \in Nat /\ w \in Nat
      /\ Len(f[k]) = w + 2 + n
      /\ f[k][w + 1] = ins.cod_op /\ f[k][w + 2] = Ancho * n
      /\ \A j \in 1 .. n : f[k][w + 2 + j] = p[j]
  BY UnaMas, ZenonT(30)
<1>2. Len(f[k]) <= Len(s) /\ \A j \in 1 .. Len(f[k]) : s[j] = f[k][j]
  <2>1. /\ k \in 0 .. Len(lista) /\ Len(lista) \in k .. Len(lista)
        /\ Trozos(lista) \in Seq(Seq(Nat)) /\ Len(Trozos(lista)) = Len(lista)
    BY UnePalabras
  <2> DEFINE ss == Trozos(lista)
  <2>2. ss \in Seq(Seq(Nat)) /\ Une(f, ss, Len(ss), Nat)
        /\ k \in 0 .. Len(ss) /\ Len(lista) \in k .. Len(ss)
    BY <2>1
  <2> HIDE DEF ss
  <2> QED BY <2>2, UnePrefijos
<1>3. Len(s) \in Nat
  <2>1. Len(lista) \in 0 .. Len(lista)
    OBVIOUS
  <2> QED BY <2>1, AlMenosDos
<1> HIDE DEF s, w, p, n
<1>4. Palabras(Ancho * w) = w /\ Palabras(Ancho * n) = n
  BY <1>1, Numeros
<1>5. s[w + 1] = ins.cod_op /\ s[w + 2] = Ancho * n
  <2>1. w + 1 \in 1 .. Len(f[k]) /\ w + 2 \in 1 .. Len(f[k])
    BY <1>1
  <2> QED BY <1>1, <1>2, <2>1
<1>6. SubSeq(s, w + 3, w + 2 + n) = p
  <2>1. p \in Seq(Palabra)
    BY <1>1 DEF Instrucciones, p
  <2>2. \A j \in 1 .. n : s[(w + 2) + j] = p[j]
    <3> SUFFICES ASSUME NEW j \in 1 .. n PROVE s[(w + 2) + j] = p[j]
      OBVIOUS
    <3>1. w + 2 + j \in 1 .. Len(f[k])
      BY <1>1
    <3> QED BY <1>1, <1>2, <3>1
  <2>3. w + 2 \in Nat /\ (w + 2) + 1 = w + 3
    BY <1>1
  <2> DEFINE a == w + 2
  <2>4. a \in Nat /\ \A j \in 1 .. Len(p) : s[a + j] = p[j]
    BY <2>2, <2>3 DEF n
  <2> HIDE DEF a
  <2>5. SubSeq(s, a + 1, a + Len(p)) = p
    BY <2>1, <2>4, TrozoIgual
  <2> QED BY <2>3, <2>5 DEF a, n
<1>7. ~(Ancho * w >= Ancho * Len(s))
  BY <1>1, <1>2, <1>3 DEF Ancho
<1>8. Ancho * w + 2 * Ancho + Ancho * n = Ancho * Len(f[k])
  BY <1>1 DEF Ancho
<1>9. [cod_op |-> ins.cod_op, parametros |-> p] = ins
  BY <1>1 DEF Instrucciones, p
<1>10. Append(SubSeq(lista, 1, k - 1), ins) = SubSeq(lista, 1, k)
  <2>1. SubSeq(lista, 1, k) = SubSeq(lista, 1, k - 1) \o <<ins>>
    <3>1. 1 \in 1 .. Len(lista) /\ k \in 1 .. Len(lista)
      OBVIOUS
    <3> QED BY <3>1, SubSeqRecursiveSecond
  <2>2. SubSeq(lista, 1, k - 1) \in Seq(Instrucciones)
    <3>1. k - 1 \in Int /\ 1 \in Int /\ \A i \in 1 .. k - 1 : lista[i] \in Instrucciones
      OBVIOUS
    <3> QED BY <3>1, SubSeqProperties
  <2> QED BY <1>1, <2>1, <2>2, AppendIsConcat
<1> DEFINE v == [offset |-> Ancho * w, lista |-> SubSeq(lista, 1, k - 1)]
<1>11. LeeUna(s, Ancho * Len(s), v)
         = [offset |-> Ancho * w + 2 * Ancho + Ancho * n,
            lista |-> Append(v.lista, [cod_op |-> s[w + 1],
                                       parametros |-> SubSeq(s, w + 3, w + 2 + n)])]
  BY <1>4, <1>5, <1>7 DEF LeeUna
<1>12. LeeUna(s, Ancho * Len(s), v) = [offset |-> Ancho * Len(f[k]), lista |-> SubSeq(lista, 1, k)]
  BY <1>5, <1>6, <1>8, <1>9, <1>10, <1>11
<1> QED BY <1>12 DEF s, w

\* The CPU reads the list that the console has written.
THEOREM ListaVuelve ==
  ASSUME NEW lista \in Seq(Instrucciones)
  PROVE  LeeInstrucciones(EnPalabras(lista), Ancho * Len(EnPalabras(lista))) = lista
<1>1. PICK f : Une(f, Trozos(lista), Len(lista), Nat) /\ EnPalabras(lista) = f[Len(lista)]
  BY UnePalabras
<1> DEFINE n == Len(lista)
           s == EnPalabras(lista)
           bytes == Ancho * Len(s)
           vacia == [offset |-> 0, lista |-> <<>>]
           E(h) == h = [k \in 0 .. bytes |->
                          IF k = 0 THEN vacia
                          ELSE CHOOSE t \in {LeeUna(s, bytes, v) : v \in {h[k - 1]}} : TRUE]
           g == CHOOSE h : E(h)
           turno(k) == [offset |-> Ancho * Len(f[k]), lista |-> SubSeq(lista, 1, k)]
           e == [k \in 0 .. bytes |-> IF k <= n THEN turno(k) ELSE turno(n)]
<1>2. /\ n \in Nat /\ bytes \in Nat /\ n <= bytes
      /\ \A k \in 0 .. n : Len(f[k]) \in Nat /\ 2 * k <= Len(f[k])
  <2>1. n \in Nat /\ \A k \in 0 .. n : Len(f[k]) \in Nat /\ 2 * k <= Len(f[k])
    BY <1>1, AlMenosDos
  <2>2. Len(s) \in Nat /\ 2 * n <= Len(s)
    BY LargoEnPalabras
  <2> QED BY <2>1, <2>2 DEF Ancho
<1>3. \A h, k : (CHOOSE t \in {LeeUna(s, bytes, v) : v \in {h[k - 1]}} : TRUE) = LeeUna(s, bytes, h[k - 1])
  OBVIOUS
<1>4. \A k \in 1 .. n : LeeUna(s, bytes, turno(k - 1)) = turno(k)
  BY <1>1, LeeLaMisma
<1>5. LeeUna(s, bytes, turno(n)) = turno(n)
  BY <1>1, <1>2 DEF LeeUna
<1>6. turno(0) = vacia
  <2>1. f[0] = <<>> /\ SubSeq(lista, 1, 0) = <<>>
    BY <1>1, SubSeqEmpty DEF Une
  <2> QED BY <2>1 DEF Ancho
<1> HIDE DEF turno, s, bytes
<1>7. \A k \in 1 .. bytes : e[k] = LeeUna(s, bytes, e[k - 1])
  <2> SUFFICES ASSUME NEW k \in 1 .. bytes PROVE e[k] = LeeUna(s, bytes, e[k - 1])
    OBVIOUS
  <2>1. k \in 0 .. bytes /\ k - 1 \in 0 .. bytes
    BY <1>2
  <2>2. CASE k <= n
    <3>1. k \in 1 .. n /\ k - 1 <= n
      BY <1>2, <2>2
    <3>2. e[k] = turno(k) /\ e[k - 1] = turno(k - 1)
      BY <2>1, <2>2, <3>1
    <3> QED BY <1>4, <3>1, <3>2
  <2>3. CASE k = n + 1
    <3>1. k - 1 <= n /\ ~(k <= n) /\ k - 1 = n
      BY <1>2, <2>3
    <3>2. e[k] = turno(n) /\ e[k - 1] = turno(n)
      BY <2>1, <3>1
    <3> QED BY <1>5, <3>2
  <2>4. CASE k > n + 1
    <3>1. ~(k - 1 <= n) /\ ~(k <= n)
      BY <1>2, <2>4
    <3>2. e[k] = turno(n) /\ e[k - 1] = turno(n)
      BY <2>1, <3>1
    <3> QED BY <1>5, <3>2
  <2> QED BY <1>2, <2>1, <2>2, <2>3, <2>4
<1>8. e[0] = vacia /\ e[bytes] = turno(n)
  <2>1. 0 \in 0 .. bytes /\ bytes \in 0 .. bytes /\ 0 <= n
    BY <1>2
  <2>2. CASE bytes = n
    BY <1>6, <2>1, <2>2
  <2>3. CASE bytes # n
    BY <1>2, <1>6, <2>1, <2>3
  <2> QED BY <2>2, <2>3
<1> HIDE DEF vacia
<1>9. E(e)
  <2> DEFINE otra == [k \in 0 .. bytes |->
                        IF k = 0 THEN vacia
                        ELSE CHOOSE t \in {LeeUna(s, bytes, v) : v \in {e[k - 1]}} : TRUE]
  <2>1. ASSUME NEW k \in 0 .. bytes PROVE otra[k] = e[k]
    <3>1. CASE k = 0
      BY <1>8, <3>1
    <3>2. CASE k # 0
      <4>1. k \in 1 .. bytes
        BY <1>2, <3>2
      <4>2. e[k] = LeeUna(s, bytes, e[k - 1])
        BY <1>7, <4>1
      <4> HIDE DEF e
      <4> QED BY <1>3, <3>2, <4>2
    <3> QED BY <3>1, <3>2
  <2> QED BY <2>1
<1>10. E(g)
  <2> HIDE DEF e
  <2> QED BY <1>9
<1>11. LeeInstrucciones(s, bytes) = g[bytes].lista
  BY DEF LeeInstrucciones, vacia
<1> HIDE DEF e, g
<1>12. \A k \in 0 .. bytes : g[k] = IF k = 0 THEN vacia ELSE LeeUna(s, bytes, g[k - 1])
  BY <1>3, <1>10
<1> DEFINE T == {k \in 0 .. bytes : g[k] = e[k]}
<1>13. 0 \in T
  BY <1>2, <1>8, <1>12
<1>14. ASSUME NEW k \in 0 .. bytes - 1, k \in T PROVE k + 1 \in T
  <2>1. k + 1 \in 1 .. bytes /\ k + 1 \in 0 .. bytes /\ k + 1 # 0 /\ (k + 1) - 1 = k
    BY <1>2
  <2>2. e[k + 1] = LeeUna(s, bytes, e[(k + 1) - 1])
    BY <1>7, <2>1
  <2>3. g[k + 1] = LeeUna(s, bytes, g[(k + 1) - 1])
    BY <1>12, <2>1
  <2> QED BY <1>14, <2>1, <2>2, <2>3
<1> HIDE DEF T
<1>15. \A k \in 0 .. bytes : k \in T
  BY <1>2, <1>13, <1>14, HastaElFinal
<1>16. g[bytes] = turno(n)
  <2>1. bytes \in T
    BY <1>2, <1>15
  <2> QED BY <1>8, <2>1 DEF T
<1>17. SubSeq(lista, 1, n) = lista
  BY SubSeqFull
<1> QED BY <1>11, <1>16, <1>17 DEF turno, s, bytes

----------------------------------------------------------------------------
(* Longs and packets.                                                      *)

Longs == 0 .. BasePalabra * BasePalabra - 1

\* The quotient of a number below (m + 1) * d is at most m.
LEMMA Cociente ==
  ASSUME NEW d \in Nat, d > 0, NEW m \in Nat, NEW x \in Nat, x < m * d + d
  PROVE  x \div d \in 0 .. m /\ x % d \in 0 .. d - 1 /\ (x % d) + d * (x \div d) = x
<1>1. x % d \in 0 .. d - 1 /\ x \div d \in Int /\ (x % d) + d * (x \div d) = x
  OBVIOUS
<1>2. ASSUME NEW q \in Int, NEW y \in 0 .. d - 1, y + d * q = x PROVE q \in 0 .. m
  <2>1. d * q \in Int /\ d * q <= x /\ d * q > 0 - d
    BY <1>2
  <2>2. CASE q > m
    <3>1. d * (q - m - 1) >= 0 /\ d * (q - m - 1) \in Int
      BY <2>2
    <3>2. d * q = d * (q - m - 1) + m * d + d
      OBVIOUS
    <3>3. m * d \in Nat
      OBVIOUS
    <3> QED BY <2>1, <3>1, <3>2, <3>3
  <2>3. CASE q < 0
    <3>1. d * (0 - q - 1) >= 0 /\ d * (0 - q - 1) \in Int
      BY <2>3
    <3>2. d * q = 0 - d * (0 - q - 1) - d
      OBVIOUS
    <3> QED BY <2>1, <3>1, <3>2
  <2> QED BY <2>2, <2>3
<1> QED BY <1>1, <1>2

\* A mean with weights is not above the larger of the two.
LEMMA Media ==
  ASSUME NEW d \in Nat, d > 0, NEW a \in 0 .. d, NEW m \in Nat, NEW r \in 0 .. m, NEW e \in 0 .. m
  PROVE  (r * a + e * (d - a)) \div d \in 0 .. m
<1> DEFINE x == r * a + e * (d - a)
<1>1. d - a \in Nat /\ a \in Nat
  OBVIOUS
<1>2. r * a <= m * a /\ e * (d - a) <= m * (d - a)
  BY <1>1
<1>3. m * a + m * (d - a) = m * d
  BY <1>1
<1>4. r * a \in Nat /\ e * (d - a) \in Nat /\ m * a \in Nat /\ m * (d - a) \in Nat
  BY <1>1
<1>5. x \in Nat /\ x < m * d + d
  BY <1>2, <1>3, <1>4
<1> HIDE DEF x
<1>6. x \div d \in 0 .. m
  BY <1>5, Cociente
<1> QED BY <1>6 DEF x

\* A long takes two words, and they make it again.
LEMMA LongVuelve ==
  ASSUME NEW v \in Longs
  PROVE  /\ DeLong(v) = <<v % BasePalabra, v \div BasePalabra>>
         /\ v % BasePalabra \in Palabra /\ v \div BasePalabra \in Palabra
         /\ ALong(v % BasePalabra, v \div BasePalabra) = v
<1> DEFINE b == BasePalabra
           m == b - 1
<1>1. b \in Nat /\ b > 0 /\ m \in Nat
  BY BasePalabraAssumption
<1>2. m * b + b = b * b /\ b * b \in Int
  BY <1>1
<1>3. v \in Nat /\ v < m * b + b
  BY <1>2 DEF Longs
<1>4. v \div b \in 0 .. m /\ v % b \in 0 .. b - 1 /\ (v % b) + b * (v \div b) = v
  <2> HIDE DEF b, m
  <2> QED BY <1>1, <1>3, Cociente
<1> QED BY <1>4 DEF DeLong, ALong, Palabra

\* A buffer arrives as it was sent, and takes from the connection no word of
\* what follows it.
THEOREM PaqueteVuelve ==
  ASSUME NEW t \in Seq(Palabra), NEW n, n = Ancho * Len(t), n \in Palabra,
         NEW codigo \in Palabra, NEW tiempo \in Palabra
  PROVE  LET buffer == [size |-> n, stream |-> t]
         IN /\ empaquetar(buffer, codigo) = <<codigo, n>> \o t
            /\ empaquetar_i_o(buffer, codigo, tiempo) = <<codigo, tiempo, n>> \o t
            /\ recibir_buffer(<<n>> \o t) = [size |-> n, stream |-> t, resto |-> <<>>]
<1>1. Len(t) \in Nat /\ Palabras(n) = Len(t)
  BY Numeros, LenProperties
<1>2. SubSeq(t, 1, Len(t)) = t
  BY SubSeqFull
<1> DEFINE u == <<n>> \o t
<1>3. /\ u \in Seq(Palabra) /\ Len(u) = 1 + Len(t) /\ u[1] = n
      /\ \A j \in 1 .. Len(t) : u[1 + j] = t[j]
  <2>1. <<n>> \in Seq(Palabra) /\ Len(<<n>>) = 1 /\ <<n>>[1] = n
    OBVIOUS
  <2>2. /\ u \in Seq(Palabra)
        /\ Len(u) = Len(<<n>>) + Len(t)
        /\ \A i \in 1 .. Len(<<n>>) + Len(t) : u[i] = IF i <= Len(<<n>>) THEN <<n>>[i] ELSE t[i - Len(<<n>>)]
    BY <2>1, ConcatProperties
  <2> HIDE DEF u
  <2>3. Len(u) = 1 + Len(t) /\ \A i \in 1 .. 1 + Len(t) : u[i] = IF i <= 1 THEN n ELSE t[i - 1]
    BY <2>1, <2>2
  <2>4. \A j \in 1 .. Len(t) : u[1 + j] = t[j]
    BY <1>1, <2>3
  <2> QED BY <1>1, <2>2, <2>3, <2>4
<1> HIDE DEF u
<1>4. SubSeq(u, 2, 1 + Len(t)) = t
  <2>1. 1 \in Nat /\ 1 + 1 = 2
    OBVIOUS
  <2>2. SubSeq(u, 1 + 1, 1 + Len(t)) = t
    BY <1>3, <2>1, TrozoIgual
  <2> QED BY <2>1, <2>2
<1>5. SubSeq(u, 2 + Len(t), Len(u)) = <<>>
  BY <1>1, <1>3, SubSeqEmpty
<1>6. Head(u) = n
  BY <1>1, <1>3
<1>7. recibir_buffer(u) = [size |-> n, stream |-> t, resto |-> <<>>]
  BY <1>1, <1>4, <1>5, <1>6 DEF recibir_buffer
<1> QED BY <1>1, <1>2, <1>7 DEF empaquetar, empaquetar_i_o, u

----------------------------------------------------------------------------
(* The PCB.                                                                *)

\* The PCBs with the instructions as words.
PcbsPlanos == [pid : Palabra, tamanio_en_memoria : Palabra, tamanio_stream_instrucciones : Palabra,
               instrucciones : Seq(Palabra), program_counter : Palabra, tabla_paginas : Palabra,
               estimacion_siguiente : Longs, timestamp_inicio_exe : Longs, real_actual : Longs,
               socket_consola : Palabra]

\* Those that announce the size they have, in 32 bits.
PcbsExactos ==
  {pcb \in PcbsPlanos : /\ pcb.tamanio_stream_instrucciones = Ancho * Len(pcb.instrucciones)
                        /\ TamanioPcb(pcb) \in Palabra}

\* What follows the instructions is nine words.
LEMMA ColaEnPalabras ==
  ASSUME NEW pcb \in PcbsPlanos
  PROVE  LET t == Cola(pcb)
         IN /\ t \in Seq(Palabra) /\ Len(t) = 9
            /\ t[1] = pcb.program_counter /\ t[2] = pcb.tabla_paginas
            /\ ALong(t[3], t[4]) = pcb.estimacion_siguiente
            /\ ALong(t[5], t[6]) = pcb.timestamp_inicio_exe
            /\ ALong(t[7], t[8]) = pcb.real_actual
            /\ t[9] = pcb.socket_consola
<1> DEFINE b == BasePalabra
           e == pcb.estimacion_siguiente
           i == pcb.timestamp_inicio_exe
           r == pcb.real_actual
<1>1. e \in Longs /\ i \in Longs /\ r \in Longs
  BY DEF PcbsPlanos
<1>2. Cola(pcb) = <<pcb.program_counter, pcb.tabla_paginas>> \o <<e % b, e \div b>> \o <<i % b, i \div b>>
                    \o <<r % b, r \div b>> \o <<pcb.socket_consola>>
  BY DEF Cola, DeLong
<1>3. /\ e % b \in Palabra /\ e \div b \in Palabra /\ ALong(e % b, e \div b) = e
      /\ i % b \in Palabra /\ i \div b \in Palabra /\ ALong(i % b, i \div b) = i
      /\ r % b \in Palabra /\ r \div b \in Palabra /\ ALong(r % b, r \div b) = r
  BY <1>1, LongVuelve
<1>4. /\ pcb.program_counter \in Palabra /\ pcb.tabla_paginas \in Palabra /\ pcb.socket_consola \in Palabra
  BY DEF PcbsPlanos
<1>5. ASSUME NEW x1 \in Palabra, NEW x2 \in Palabra, NEW x3 \in Palabra, NEW x4 \in Palabra,
             NEW x5 \in Palabra, NEW x6 \in Palabra, NEW x7 \in Palabra, NEW x8 \in Palabra,
             NEW x9 \in Palabra, NEW t, t = <<x1, x2>> \o <<x3, x4>> \o <<x5, x6>> \o <<x7, x8>> \o <<x9>>
      PROVE  /\ t \in Seq(Palabra) /\ Len(t) = 9
             /\ t[1] = x1 /\ t[2] = x2 /\ t[3] = x3 /\ t[4] = x4 /\ t[5] = x5
             /\ t[6] = x6 /\ t[7] = x7 /\ t[8] = x8 /\ t[9] = x9
  <2> DEFINE y == <<x5, x6>>
             z == <<x7, x8>>
             w == <<x9>>
             A == <<x1, x2>> \o <<x3, x4>>
             B == A \o y
             C == B \o z
             D == C \o w
  <2>1. A \in Seq(Palabra) /\ Len(A) = 4 /\ A[1] = x1 /\ A[2] = x2 /\ A[3] = x3 /\ A[4] = x4
    OBVIOUS
  <2>2. /\ y \in Seq(Palabra) /\ Len(y) = 2 /\ y[1] = x5 /\ y[2] = x6
        /\ z \in Seq(Palabra) /\ Len(z) = 2 /\ z[1] = x7 /\ z[2] = x8
        /\ w \in Seq(Palabra) /\ Len(w) = 1 /\ w[1] = x9
    OBVIOUS
  <2>3. t = D
    BY <1>5
  <2> HIDE DEF A, y, z, w
  <2>4. B \in Seq(Palabra) /\ Len(B) = Len(A) + Len(y)
        /\ \A k \in 1 .. Len(A) + Len(y) : B[k] = IF k <= Len(A) THEN A[k] ELSE y[k - Len(A)]
    BY <2>1, <2>2, ConcatProperties
  <2> HIDE DEF B
  <2>9. B \in Seq(Palabra) /\ z \in Seq(Palabra) /\ w \in Seq(Palabra)
    BY <2>2, <2>4
  <2>5. C \in Seq(Palabra) /\ Len(C) = Len(B) + Len(z)
        /\ \A k \in 1 .. Len(B) + Len(z) : C[k] = IF k <= Len(B) THEN B[k] ELSE z[k - Len(B)]
    BY <2>9, ConcatProperties
  <2> HIDE DEF C
  <2>6. D \in Seq(Palabra) /\ Len(D) = Len(C) + Len(w)
        /\ \A k \in 1 .. Len(C) + Len(w) : D[k] = IF k <= Len(C) THEN C[k] ELSE w[k - Len(C)]
    <3>1. C \in Seq(Palabra)
      BY <2>5
    <3> QED BY <2>9, <3>1, ConcatProperties
  <2> HIDE DEF D
  <2>7. Len(B) = 6 /\ B[1] = x1 /\ B[2] = x2 /\ B[3] = x3 /\ B[4] = x4 /\ B[5] = x5 /\ B[6] = x6
    BY <2>1, <2>2, <2>4
  <2>8. /\ Len(C) = 8 /\ C[1] = x1 /\ C[2] = x2 /\ C[3] = x3 /\ C[4] = x4 /\ C[5] = x5 /\ C[6] = x6
        /\ C[7] = x7 /\ C[8] = x8
    BY <2>2, <2>5, <2>7
  <2> QED BY <2>2, <2>3, <2>6, <2>8
<1> DEFINE t == Cola(pcb)
<1> HIDE DEF b, e, i, r
<1>6. /\ t \in Seq(Palabra) /\ Len(t) = 9
      /\ t[1] = pcb.program_counter /\ t[2] = pcb.tabla_paginas
      /\ t[3] = e % b /\ t[4] = e \div b /\ t[5] = i % b /\ t[6] = i \div b
      /\ t[7] = r % b /\ t[8] = r \div b /\ t[9] = pcb.socket_consola
  BY <1>2, <1>3, <1>4, <1>5
<1> HIDE DEF t
<1>7. /\ ALong(t[3], t[4]) = e /\ ALong(t[5], t[6]) = i /\ ALong(t[7], t[8]) = r
  BY <1>3, <1>6
<1> QED BY <1>6, <1>7 DEF t, e, i, r

\* The stream of a PCB, word by word, and its size.
LEMMA StreamDePcb ==
  ASSUME NEW pcb \in PcbsExactos
  PROVE  LET s == serializar_header(pcb).stream
             n == Len(pcb.instrucciones)
         IN /\ s \in Seq(Palabra) /\ n \in Nat
            /\ serializar_header(pcb) = [size |-> Ancho * Len(s), stream |-> s]
            /\ Ancho * Len(s) \in Palabra
            /\ s = Encabezado(pcb) \o pcb.instrucciones \o Cola(pcb)
            /\ s[1] = pcb.pid /\ s[2] = pcb.tamanio_en_memoria
            /\ s[3] = pcb.tamanio_stream_instrucciones /\ Palabras(s[3]) = n
            /\ \A j \in 1 .. n : s[3 + j] = pcb.instrucciones[j]
            /\ \A j \in 1 .. 9 : s[(3 + n) + j] = Cola(pcb)[j]
<1> DEFINE p == pcb.instrucciones
           n == Len(p)
           e == Encabezado(pcb)
           t == Cola(pcb)
           u == e \o p
           s == u \o t
<1>1. p \in Seq(Palabra) /\ n \in Nat /\ pcb \in PcbsPlanos /\ TamanioPcb(pcb) \in Palabra
      /\ pcb.tamanio_stream_instrucciones = Ancho * n
  BY LenProperties DEF PcbsExactos, PcbsPlanos
<1>2. Palabras(pcb.tamanio_stream_instrucciones) = n
  BY <1>1, Numeros
<1>3. SubSeq(p, 1, n) = p
  BY <1>1, SubSeqFull
<1>4. e \in Seq(Palabra) /\ Len(e) = 3 /\ e[1] = pcb.pid /\ e[2] = pcb.tamanio_en_memoria
      /\ e[3] = pcb.tamanio_stream_instrucciones
  BY <1>1 DEF Encabezado, PcbsPlanos
<1>5. t \in Seq(Palabra) /\ Len(t) = 9
  BY <1>1, ColaEnPalabras
<1>6. serializar_header(pcb) = [size |-> TamanioPcb(pcb), stream |-> s]
  BY <1>2, <1>3 DEF serializar_header
<1> HIDE DEF p, e, t
<1>7. /\ u \in Seq(Palabra) /\ Len(u) = 3 + n
      /\ \A i \in 1 .. 3 + n : u[i] = IF i <= 3 THEN e[i] ELSE p[i - 3]
  <2>1. /\ u \in Seq(Palabra) /\ Len(u) = Len(e) + Len(p)
        /\ \A i \in 1 .. Len(e) + Len(p) : u[i] = IF i <= Len(e) THEN e[i] ELSE p[i - Len(e)]
    BY <1>1, <1>4, ConcatProperties DEF p
  <2> HIDE DEF u
  <2> QED BY <1>4, <2>1
<1> HIDE DEF u
<1>8. /\ s \in Seq(Palabra) /\ Len(s) = 3 + n + 9
      /\ \A i \in 1 .. 3 + n + 9 : s[i] = IF i <= 3 + n THEN u[i] ELSE t[i - (3 + n)]
  <2>1. /\ s \in Seq(Palabra) /\ Len(s) = Len(u) + Len(t)
        /\ \A i \in 1 .. Len(u) + Len(t) : s[i] = IF i <= Len(u) THEN u[i] ELSE t[i - Len(u)]
    BY <1>5, <1>7, ConcatProperties
  <2> HIDE DEF s
  <2> QED BY <1>5, <1>7, <2>1
<1> HIDE DEF s
<1>9. n \in Nat
  BY <1>1
<1>10. Ancho * Len(s) = TamanioPcb(pcb)
  BY <1>1, <1>8 DEF TamanioPcb, Ancho, Largo
<1>11. s[1] = e[1] /\ s[2] = e[2] /\ s[3] = e[3]
  BY <1>7, <1>8, <1>9
<1>12. \A j \in 1 .. n : s[3 + j] = p[j]
  <2> SUFFICES ASSUME NEW j \in 1 .. n PROVE s[3 + j] = p[j]
    OBVIOUS
  <2>1. 3 + j \in 1 .. 3 + n /\ 3 + j \in 1 .. 3 + n + 9 /\ 3 + j <= 3 + n /\ ~(3 + j <= 3)
        /\ (3 + j) - 3 = j
    BY <1>9
  <2> QED BY <1>7, <1>8, <2>1
<1>13. \A j \in 1 .. 9 : s[(3 + n) + j] = t[j]
  <2> SUFFICES ASSUME NEW j \in 1 .. 9 PROVE s[(3 + n) + j] = t[j]
    OBVIOUS
  <2>1. (3 + n) + j \in 1 .. 3 + n + 9 /\ ~((3 + n) + j <= 3 + n) /\ ((3 + n) + j) - (3 + n) = j
    BY <1>9
  <2> QED BY <1>8, <2>1
<1>14. serializar_header(pcb).stream = s /\ serializar_header(pcb) = [size |-> Ancho * Len(s), stream |-> s]
  BY <1>6, <1>10
<1>15. s = e \o p \o t
  BY DEF s, u
<1>16. s[3] = pcb.tamanio_stream_instrucciones
  BY <1>4, <1>11
<1> QED BY <1>1, <1>2, <1>4, <1>8, <1>9, <1>10, <1>11, <1>12, <1>13, <1>14, <1>15, <1>16 DEF p, e, t

\* What the reader takes from a stream whose instructions end at word fin.
LEMMA CamposDelStream ==
  ASSUME NEW pcb \in PcbsExactos, NEW ins
  PROVE  LET s == serializar_header(pcb).stream
             fin == 3 + Len(pcb.instrucciones)
         IN DesdeStream(s, ins, fin) = [pcb EXCEPT !.instrucciones = ins]
<1> DEFINE s == serializar_header(pcb).stream
           n == Len(pcb.instrucciones)
           fin == 3 + n
           t == Cola(pcb)
<1>1. pcb \in PcbsPlanos
  BY DEF PcbsExactos
<1>2. /\ n \in Nat
      /\ s[1] = pcb.pid /\ s[2] = pcb.tamanio_en_memoria /\ s[3] = pcb.tamanio_stream_instrucciones
      /\ \A j \in 1 .. 9 : s[fin + j] = t[j]
  BY StreamDePcb
<1>3. /\ t[1] = pcb.program_counter /\ t[2] = pcb.tabla_paginas
      /\ ALong(t[3], t[4]) = pcb.estimacion_siguiente
      /\ ALong(t[5], t[6]) = pcb.timestamp_inicio_exe
      /\ ALong(t[7], t[8]) = pcb.real_actual
      /\ t[9] = pcb.socket_consola
  BY <1>1, ColaEnPalabras
<1> HIDE DEF s, t, fin
<1>4. /\ s[fin + 1] = t[1] /\ s[fin + 2] = t[2] /\ s[fin + 3] = t[3] /\ s[fin + 4] = t[4]
      /\ s[fin + 5] = t[5] /\ s[fin + 6] = t[6] /\ s[fin + 7] = t[7] /\ s[fin + 8] = t[8]
      /\ s[fin + 9] = t[9]
  BY <1>2
<1>5. DesdeStream(s, ins, fin)
        = [pid |-> pcb.pid, tamanio_en_memoria |-> pcb.tamanio_en_memoria,
           tamanio_stream_instrucciones |-> pcb.tamanio_stream_instrucciones,
           instrucciones |-> ins,
           program_counter |-> pcb.program_counter,
           tabla_paginas |-> pcb.tabla_paginas,
           estimacion_siguiente |-> pcb.estimacion_siguiente,
           timestamp_inicio_exe |-> pcb.timestamp_inicio_exe,
           real_actual |-> pcb.real_actual,
           socket_consola |-> pcb.socket_consola]
  BY <1>2, <1>3, <1>4 DEF DesdeStream
<1>6. DesdeStream(s, ins, fin) = [pcb EXCEPT !.instrucciones = ins]
  BY <1>1, <1>5 DEF PcbsPlanos
<1> QED BY <1>6 DEF s, fin

\* The words of the stream where the reader looks for the instructions.
LEMMA InstruccionesDelStream ==
  ASSUME NEW pcb \in PcbsExactos
  PROVE  LET s == serializar_header(pcb).stream
         IN /\ 3 + Palabras(s[3]) = 3 + Len(pcb.instrucciones)
            /\ SubSeq(s, 4, 3 + Palabras(s[3])) = pcb.instrucciones
<1> DEFINE s == serializar_header(pcb).stream
           p == pcb.instrucciones
           n == Len(p)
<1>1. /\ n \in Nat /\ Palabras(s[3]) = n
      /\ \A j \in 1 .. n : s[3 + j] = p[j]
  BY StreamDePcb
<1>2. p \in Seq(Palabra)
  BY DEF PcbsExactos, PcbsPlanos
<1> HIDE DEF s, p
<1>3. SubSeq(s, 3 + 1, 3 + Len(p)) = p
  BY <1>1, <1>2, TrozoIgual
<1>4. SubSeq(s, 4, 3 + n) = p
  BY <1>3
<1> QED BY <1>1, <1>4 DEF s, p

\* The kernel reads the PCB that was written.
THEOREM PcbVuelve ==
  ASSUME NEW pcb \in PcbsExactos
  PROVE  recibir_pcb(serializar_header(pcb).stream) = pcb
<1> DEFINE s == serializar_header(pcb).stream
<1>1. recibir_pcb(s) = DesdeStream(s, pcb.instrucciones, 3 + Len(pcb.instrucciones))
  BY InstruccionesDelStream DEF recibir_pcb
<1>2. recibir_pcb(s) = [pcb EXCEPT !.instrucciones = pcb.instrucciones]
  BY <1>1, CamposDelStream
<1> QED BY <1>2 DEF PcbsExactos, PcbsPlanos

\* The CPU reads the PCB that the kernel has written, with the list in place
\* of the words, and what it writes is what the kernel would write.
THEOREM PcbEnLaCpu ==
  ASSUME NEW pcb \in PcbsExactos, NEW lista \in Seq(Instrucciones),
         pcb.instrucciones = EnPalabras(lista)
  PROVE  /\ recibir_pcb_cpu(serializar_header(pcb).stream) = [pcb EXCEPT !.instrucciones = lista]
         /\ serializar_header_cpu([pcb EXCEPT !.instrucciones = lista]) = serializar_header(pcb)
<1> DEFINE s == serializar_header(pcb).stream
           p == pcb.instrucciones
           q == [pcb EXCEPT !.instrucciones = lista]
<1>1. pcb \in PcbsPlanos /\ pcb.tamanio_stream_instrucciones = Ancho * Len(p)
  BY DEF PcbsExactos
<1>2. s[3] = Ancho * Len(p) /\ s = Encabezado(pcb) \o p \o Cola(pcb)
      /\ serializar_header(pcb) = [size |-> TamanioPcb(pcb), stream |-> s]
  BY <1>1, StreamDePcb DEF serializar_header
<1>3. LeeInstrucciones(p, Ancho * Len(p)) = lista
  BY ListaVuelve
<1>4. recibir_pcb_cpu(s) = DesdeStream(s, lista, 3 + Len(p))
  <2> HIDE DEF s
  <2>1. 3 + Palabras(s[3]) = 3 + Len(p) /\ SubSeq(s, 4, 3 + Palabras(s[3])) = p
    BY InstruccionesDelStream DEF s
  <2> QED BY <1>2, <1>3, <2>1 DEF recibir_pcb_cpu
<1>5. recibir_pcb_cpu(s) = q
  BY <1>4, CamposDelStream
<1>6. /\ q.pid = pcb.pid /\ q.tamanio_en_memoria = pcb.tamanio_en_memoria
      /\ q.tamanio_stream_instrucciones = pcb.tamanio_stream_instrucciones
      /\ q.instrucciones = lista /\ q.program_counter = pcb.program_counter
      /\ q.tabla_paginas = pcb.tabla_paginas /\ q.estimacion_siguiente = pcb.estimacion_siguiente
      /\ q.timestamp_inicio_exe = pcb.timestamp_inicio_exe /\ q.real_actual = pcb.real_actual
      /\ q.socket_consola = pcb.socket_consola
  BY <1>1 DEF PcbsPlanos
<1> HIDE DEF q, s
<1>7. Encabezado(q) = Encabezado(pcb) /\ Cola(q) = Cola(pcb) /\ TamanioPcb(q) = TamanioPcb(pcb)
  BY <1>6 DEF Encabezado, Cola, TamanioPcb
<1>8. serializar_header_cpu(q) = [size |-> TamanioPcb(pcb), stream |-> s]
  BY <1>2, <1>6, <1>7 DEF serializar_header_cpu
<1> QED BY <1>2, <1>5, <1>8 DEF q, s

\* A program whose size fits a word is made of words.
LEMMA SonPalabras ==
  ASSUME NEW lista \in Seq(Instrucciones), Ancho * Len(EnPalabras(lista)) \in Palabra
  PROVE  EnPalabras(lista) \in Seq(Palabra)
<1> DEFINE ss == Trozos(lista)
           n == Len(lista)
<1>1. PICK f : Une(f, ss, n, Nat) /\ EnPalabras(lista) = f[n]
  BY UnePalabras
<1>2. n \in Nat /\ Len(ss) = n /\ ss \in Seq(Seq(Nat)) /\ Len(f[n]) \in Nat
  <2>1. n \in 0 .. n
    OBVIOUS
  <2> QED BY <1>1, <2>1, UnePalabras, AlMenosDos
<1>3. ASSUME NEW k \in 1 .. n PROVE serializar_instruccion(lista[k]) \in Seq(Palabra)
  <2> DEFINE ins == lista[k]
             m == Len(ins.parametros)
             t == serializar_instruccion(ins)
  <2>1. /\ ins \in Instrucciones /\ m \in Nat /\ Len(f[k - 1]) \in Nat
        /\ Len(f[k]) = Len(f[k - 1]) + 2 + m
    BY <1>1, UnaMas
  <2>2. Len(f[k]) <= Len(f[n])
    <3>1. k \in 0 .. Len(ss) /\ n \in k .. Len(ss) /\ Une(f, ss, Len(ss), Nat)
      BY <1>1, <1>2
    <3> HIDE DEF ss, n
    <3> QED BY <1>2, <3>1, UnePrefijos
  <2>3. Ancho * m \in Palabra
    <3> HIDE DEF m
    <3> QED BY <1>1, <1>2, <2>1, <2>2, BasePalabraAssumption, SMTT(30) DEF Palabra, Ancho
  <2>4. ins.cod_op \in Palabra /\ ins.parametros \in Seq(Palabra)
    BY <2>1 DEF Instrucciones
  <2>5. t = <<ins.cod_op, Ancho * m>> \o ins.parametros
    BY DEF serializar_instruccion, tam_param
  <2>6. <<ins.cod_op, Ancho * m>> \in Seq(Palabra)
    BY <2>3, <2>4
  <2> QED BY <2>4, <2>5, <2>6, ConcatProperties
<1>4. ss \in Seq(Seq(Palabra))
  <2>1. ss = [i \in 1 .. n |-> serializar_instruccion(lista[i])]
    BY DEF Trozos
  <2>2. ss \in [1 .. n -> Seq(Palabra)]
    BY <1>3, <2>1
  <2> HIDE DEF ss, n
  <2>3. n \in Nat
    BY <1>2
  <2> QED BY <2>2, <2>3
<1>5. EnPalabras(lista) = FlattenSeq(ss)
  BY DEF EnPalabras, Trozos
<1> HIDE DEF ss, n
<1>6. PICK g : Une(g, ss, Len(ss), Palabra)
  BY <1>4, UneExiste
<1>7. EnPalabras(lista) = g[Len(ss)]
  BY <1>4, <1>5, <1>6, Aplanado
<1>8. Len(ss) \in 0 .. Len(ss)
  BY <1>2
<1> QED BY <1>6, <1>7, <1>8 DEF Une

\* Two values that stand at the same place of the same pair.
Juntos(x, y, ss, tt) ==
  \E i \in 1 .. Len(ss) : \E j \in 1 .. Len(ss[i]) : x = ss[i][j] /\ y = tt[i][j]

\* Two sequences of sequences of the same lengths, joined: what is at a place
\* of one and of the other comes from the same place of the same pair.
LEMMA Paralelas ==
  ASSUME NEW R, NEW S, NEW ss \in Seq(Seq(R)), NEW tt \in Seq(Seq(S)), Len(ss) = Len(tt),
         \A i \in 1 .. Len(ss) : Len(ss[i]) = Len(tt[i])
  PROVE  /\ FlattenSeq(ss) \in Seq(R) /\ FlattenSeq(tt) \in Seq(S)
         /\ Len(FlattenSeq(ss)) = Len(FlattenSeq(tt))
         /\ \A k \in 1 .. Len(FlattenSeq(ss)) : Juntos(FlattenSeq(ss)[k], FlattenSeq(tt)[k], ss, tt)
<1> DEFINE n == Len(ss)
<1>1. n \in Nat /\ n = Len(tt)
  OBVIOUS
<1>2. PICK f : Une(f, ss, n, R)
  BY UneExiste
<1>3. PICK g : Une(g, tt, n, S)
  BY <1>1, UneExiste
<1>4. FlattenSeq(ss) = f[n] /\ FlattenSeq(tt) = g[n]
  BY <1>1, <1>2, <1>3, Aplanado
<1> DEFINE Par(m) == /\ Len(f[m]) = Len(g[m])
                     /\ \A k \in 1 .. Len(f[m]) : \E i \in 1 .. n : \E j \in 1 .. Len(ss[i]) :
                          f[m][k] = ss[i][j] /\ g[m][k] = tt[i][j]
           T == {m \in 0 .. n : Par(m)}
<1>5. 0 \in T
  <2>1. f[0] = <<>> /\ g[0] = <<>> /\ 0 \in 0 .. n
    BY <1>1, <1>2, <1>3 DEF Une
  <2> QED BY <2>1
<1>6. ASSUME NEW m \in 0 .. n - 1, m \in T PROVE m + 1 \in T
  <2> DEFINE u == ss[m + 1]
             v == tt[m + 1]
             a == f[m]
             b == g[m]
  <2>1. m + 1 \in 1 .. n /\ (m + 1) - 1 = m /\ m \in 0 .. n
    BY <1>1
  <2>2. u \in Seq(R) /\ v \in Seq(S) /\ Len(u) = Len(v) /\ a \in Seq(R) /\ b \in Seq(S)
    <3>1. u \in Seq(R) /\ v \in Seq(S) /\ Len(u) = Len(v)
      BY <1>1, <2>1
    <3>2. f[m] \in Seq(R) /\ g[m] \in Seq(S)
      BY <1>2, <1>3, <2>1 DEF Une
    <3> QED BY <3>1, <3>2
  <2>3. f[m + 1] = a \o u /\ g[m + 1] = b \o v
    <3>1. f[m + 1] = f[(m + 1) - 1] \o ss[m + 1] /\ g[m + 1] = g[(m + 1) - 1] \o tt[m + 1]
      BY <1>2, <1>3, <2>1 DEF Une
    <3> QED BY <2>1, <3>1
  <2>4. Par(m)
    BY <1>6
  <2>5. Len(a) = Len(b)
    BY <2>4
  <2>6. ASSUME NEW k \in 1 .. Len(a)
        PROVE  \E i \in 1 .. n : \E j \in 1 .. Len(ss[i]) : a[k] = ss[i][j] /\ b[k] = tt[i][j]
    BY <2>4
  <2> HIDE DEF a, b, u, v
  <2>7. /\ Len(a \o u) = Len(a) + Len(u)
        /\ \A k \in 1 .. Len(a) + Len(u) : (a \o u)[k] = IF k <= Len(a) THEN a[k] ELSE u[k - Len(a)]
    BY <2>2, ConcatProperties
  <2>8. /\ Len(b \o v) = Len(b) + Len(v)
        /\ \A k \in 1 .. Len(b) + Len(v) : (b \o v)[k] = IF k <= Len(b) THEN b[k] ELSE v[k - Len(b)]
    BY <2>2, ConcatProperties
  <2>9. Len(a) \in Nat /\ Len(u) \in Nat
    BY <2>2, LenProperties
  <2>10. ASSUME NEW k \in 1 .. Len(a \o u)
         PROVE  \E i \in 1 .. n : \E j \in 1 .. Len(ss[i]) :
                  (a \o u)[k] = ss[i][j] /\ (b \o v)[k] = tt[i][j]
    <3>1. k \in 1 .. Len(a) + Len(u) /\ k \in 1 .. Len(b) + Len(v)
      BY <2>2, <2>5, <2>7
    <3>2. CASE k <= Len(a)
      <4>1. k \in 1 .. Len(a) /\ (a \o u)[k] = a[k] /\ (b \o v)[k] = b[k]
        BY <2>5, <2>7, <2>8, <2>9, <3>1, <3>2
      <4> QED BY <2>6, <4>1
    <3>3. CASE ~(k <= Len(a))
      <4> DEFINE j == k - Len(a)
      <4>1. j \in 1 .. Len(u) /\ (a \o u)[k] = u[j] /\ (b \o v)[k] = v[j]
        BY <2>5, <2>7, <2>8, <2>9, <3>1, <3>3, SMTT(30)
      <4> QED BY <2>1, <4>1 DEF u, v
    <3> QED BY <3>2, <3>3
  <2>11. Par(m + 1)
    BY <2>2, <2>3, <2>5, <2>7, <2>8, <2>10, ZenonT(30)
  <2> QED BY <2>1, <2>11
<1> HIDE DEF T
<1>7. \A m \in 0 .. n : m \in T
  BY <1>1, <1>5, <1>6, HastaElFinal
<1>8. n \in 0 .. n /\ Par(n)
  BY <1>1, <1>7 DEF T
<1>9. f[n] \in Seq(R) /\ g[n] \in Seq(S)
  BY <1>2, <1>3, <1>8 DEF Une
<1>10. /\ Len(f[n]) = Len(g[n])
       /\ \A k \in 1 .. Len(f[n]) : \E i \in 1 .. n : \E j \in 1 .. Len(ss[i]) :
            f[n][k] = ss[i][j] /\ g[n][k] = tt[i][j]
  BY <1>8
<1>11. \A k \in 1 .. Len(f[n]) : Juntos(f[n][k], g[n][k], ss, tt)
  BY <1>10 DEF Juntos
<1> HIDE DEF Par
<1> QED BY <1>4, <1>9, <1>10, <1>11
=============================================================================
