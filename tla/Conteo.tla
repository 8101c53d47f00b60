------------------------------- MODULE Conteo -------------------------------
(***************************************************************************)
(* How many elements of a sequence are in a set, and how the operations on *)
(* queues and connections (push, pop, send, recv) change that number.      *)
(***************************************************************************)
EXTENDS Integers, Sequences, FiniteSets, FiniteSetTheorems, TLAPS

\* Where the elements of s that are in X are, and how many there are.
Donde(s, X) == {i \in DOMAIN s : s[i] \in X}
Cuantos(s, X) == Cardinality(Donde(s, X))

\* The positions of a sequence are finitely many, so the number is a natural,
\* and it is zero just when no element is in the set.
LEMMA CuantosTipo ==
  ASSUME NEW S, NEW s \in Seq(S), NEW X
  PROVE  /\ IsFiniteSet(Donde(s, X))
         /\ Cuantos(s, X) \in Nat
         /\ Cuantos(s, X) = 0 <=> \A i \in DOMAIN s : s[i] \notin X
<1>1. DOMAIN s = 1 .. Len(s) /\ Len(s) \in Nat
  OBVIOUS
<1>2. IsFiniteSet(1 .. Len(s))
  BY <1>1, FS_Interval
<1>3. IsFiniteSet(Donde(s, X))
  BY <1>1, <1>2, FS_Subset DEF Donde
<1>4. Cuantos(s, X) \in Nat
  BY <1>3, FS_CardinalityType DEF Cuantos
<1>5. Cuantos(s, X) = 0 <=> Donde(s, X) = {}
  BY <1>3, FS_EmptySet DEF Cuantos
<1>6. QED
  BY <1>3, <1>4, <1>5 DEF Donde

\* The empty sequence has none.
LEMMA CuantosVacia ==
  ASSUME NEW X
  PROVE  Cuantos(<<>>, X) = 0
BY FS_EmptySet DEF Cuantos, Donde

\* queue_push and send: one more if the new element is in the set.
LEMMA CuantosAppend ==
  ASSUME NEW S, NEW s \in Seq(S), NEW x \in S, NEW X
  PROVE  Cuantos(Append(s, x), X) = Cuantos(s, X) + (IF x \in X THEN 1 ELSE 0)
<1> DEFINE t == Append(s, x)
           n == Len(s) + 1
<1>1. /\ DOMAIN s = 1 .. Len(s) /\ Len(s) \in Nat
      /\ DOMAIN t = 1 .. n /\ t[n] = x
      /\ \A i \in DOMAIN s : t[i] = s[i]
  OBVIOUS
<1>2. IsFiniteSet(Donde(s, X)) /\ Cuantos(s, X) \in Nat
  BY CuantosTipo
<1>3. n \notin Donde(s, X)
  BY <1>1 DEF Donde
<1>4. CASE x \in X
  <2>1. Donde(t, X) = Donde(s, X) \union {n}
    BY <1>1, <1>4 DEF Donde
  <2>2. QED
    BY <2>1, <1>2, <1>3, <1>4, FS_AddElement DEF Cuantos
<1>5. CASE x \notin X
  <2>1. Donde(t, X) = Donde(s, X)
    BY <1>1, <1>5 DEF Donde
  <2>2. QED
    BY <2>1, <1>2, <1>5 DEF Cuantos
<1>6. QED
  BY <1>4, <1>5

\* queue_pop and recv: one less if the head was in the set.
LEMMA CuantosTail ==
  ASSUME NEW S, NEW s \in Seq(S), s # <<>>, NEW X
  PROVE  Cuantos(s, X) = Cuantos(Tail(s), X) + (IF Head(s) \in X THEN 1 ELSE 0)
<1> DEFINE t == Tail(s)
           A == Donde(t, X)
           B == Donde(s, X) \ {1}
           f == [i \in A |-> i + 1]
<1>1. /\ DOMAIN s = 1 .. Len(s) /\ Len(s) \in Nat \ {0}
      /\ t \in Seq(S) /\ DOMAIN t = 1 .. Len(s) - 1
      /\ \A i \in DOMAIN t : t[i] = s[i + 1]
      /\ Head(s) = s[1]
  OBVIOUS
<1>2. /\ IsFiniteSet(A) /\ Cuantos(t, X) \in Nat
      /\ IsFiniteSet(Donde(s, X)) /\ Cuantos(s, X) \in Nat
  BY <1>1, CuantosTipo
<1>3. f \in Bijection(A, B)
  <2>1. f \in [A -> B]
    BY <1>1 DEF Donde
  <2>2. \A i, j \in A : f[i] = f[j] => i = j
    BY <1>1 DEF Donde
  <2>3. ASSUME NEW b \in B PROVE \E i \in A : f[i] = b
    <3>1. b - 1 \in A
      BY <1>1 DEF Donde
    <3>2. f[b - 1] = b
      BY <3>1, <1>1 DEF Donde
    <3>3. QED
      BY <3>1, <3>2
  <2>4. QED
    BY <2>1, <2>2, <2>3 DEF Bijection, Injection, Surjection, IsInjective
<1>4. IsFiniteSet(B) /\ Cardinality(B) = Cardinality(A)
  BY <1>2, <1>3, FS_Bijection DEF ExistsBijection
<1>5. Cardinality(B) = IF 1 \in Donde(s, X) THEN Cardinality(Donde(s, X)) - 1
                       ELSE Cardinality(Donde(s, X))
  BY <1>2, FS_RemoveElement
<1>6. 1 \in Donde(s, X) <=> Head(s) \in X
  BY <1>1 DEF Donde
<1>7. QED
  BY <1>2, <1>4, <1>5, <1>6 DEF Cuantos

----------------------------------------------------------------------------
\* A set of places with a number: empty, a single place, or more.
Zona(Z, n) == n \in Nat /\ (n = 0 => Z = {}) /\ (n = 1 => \E x : Z = {x})

\* Something that is, or is not, in one place.
LEMMA ZonaUna ==
  ASSUME NEW Z, NEW b, NEW x, b => Z = {x}, ~b => Z = {}
  PROVE  Zona(Z, IF b THEN 1 ELSE 0)
<1>1. CASE b
  <2>1. Z = {x}
    BY <1>1
  <2>2. QED
    BY <1>1, <2>1 DEF Zona
<1>2. CASE ~b
  <2>1. Z = {}
    BY <1>2
  <2>2. QED
    BY <1>2, <2>1 DEF Zona
<1>3. QED
  BY <1>1, <1>2

\* The positions of a sequence whose elements are in X.
LEMMA ZonaSecuencia ==
  ASSUME NEW S, NEW s \in Seq(S), NEW X, NEW z
  PROVE  Zona({<<z, i>> : i \in Donde(s, X)}, Cuantos(s, X))
<1>1. IsFiniteSet(Donde(s, X)) /\ Cuantos(s, X) \in Nat
  BY CuantosTipo
<1>2. ASSUME Cuantos(s, X) = 0 PROVE {<<z, i>> : i \in Donde(s, X)} = {}
  <2>1. Donde(s, X) = {}
    BY <1>1, <1>2, FS_EmptySet DEF Cuantos
  <2>2. QED
    BY <2>1
<1>3. ASSUME Cuantos(s, X) = 1 PROVE \E x : {<<z, i>> : i \in Donde(s, X)} = {x}
  <2>1. PICK j : Donde(s, X) = {j}
    BY <1>1, <1>3, FS_Singleton DEF Cuantos
  <2>2. {<<z, i>> : i \in Donde(s, X)} = {<<z, j>>}
    BY <2>1
  <2>3. QED
    BY <2>2
<1>4. QED
  BY <1>1, <1>2, <1>3 DEF Zona

\* Two sets of places together have at most the sum of their numbers.
LEMMA ZonaUnion ==
  ASSUME NEW A, NEW B, NEW m, NEW n, Zona(A, m), Zona(B, n)
  PROVE  Zona(A \union B, m + n)
<1>1. m \in Nat /\ n \in Nat
  BY DEF Zona
<1>2. ASSUME m + n = 0 PROVE A \union B = {}
  BY <1>1, <1>2 DEF Zona
<1>3. ASSUME m + n = 1 PROVE \E x : A \union B = {x}
  <2>1. (m = 1 /\ n = 0) \/ (m = 0 /\ n = 1)
    BY <1>1, <1>3
  <2>2. CASE m = 1 /\ n = 0
    BY <2>2 DEF Zona
  <2>3. CASE m = 0 /\ n = 1
    BY <2>3 DEF Zona
  <2>4. QED
    BY <2>1, <2>2, <2>3
<1> DEFINE U == A \union B
           k == m + n
<1>4. k \in Nat /\ (k = 0 => U = {}) /\ (k = 1 => \E x : U = {x})
  BY <1>1, <1>2, <1>3
<1> HIDE DEF U, k
<1>5. Zona(U, k)
  BY <1>4 DEF Zona
<1>6. QED
  BY <1>5 DEF U, k

\* The number one is one place.
LEMMA ZonaDeUno ==
  ASSUME NEW Z, Zona(Z, 1)
  PROVE  Cardinality(Z) = 1
BY FS_Singleton DEF Zona
=============================================================================
