----------------------- MODULE KeyboardWatcherProofs -----------------------
(***************************************************************************)
(* Proofs about the keyboard watcher, for every keyboard and every order   *)
(* of presses and releases.                                                *)
(***************************************************************************)
EXTENDS KeyboardWatcher, FiniteSetTheorems, FunctionTheorems, SequenceTheorems, TLAPS

-----------------------------------------------------------------------------
(* Induction over the naturals, for sets in place of predicates.           *)

LEMMA LeastNatural ==
  ASSUME NEW T \in SUBSET Nat, T # {}
  PROVE  \E n \in T : \A m \in T : n <= m
<1> DEFINE R == OpToRel(<, Nat)
<1>1. \E n \in T : \A m \in T : <<m, n>> \notin R
  <2> HIDE DEF R
  <2>1. IsWellFoundedOn(R, Nat)  BY NatLessThanWellFounded, Zenon DEF R
  <2>2. QED  BY <2>1, WFMin
<1>2. R = {ss \in Nat \X Nat : ss[1] < ss[2]}  BY Zenon DEF OpToRel
<1>3. \A m, n \in Nat : m < n => <<m, n>> \in R  BY <1>2, Zenon
<1> HIDE DEF R
<1>4. \E n \in T : \A m \in T : ~(m < n)  BY <1>1, <1>3, Zenon
<1>5. QED  BY <1>4, SMT

LEMMA Induction ==
  ASSUME NEW T \in SUBSET Nat, 0 \in T, \A n \in T : n + 1 \in T
  PROVE  T = Nat
<1> SUFFICES ASSUME Nat \ T # {} PROVE FALSE  OBVIOUS
<1>1. PICK n \in Nat \ T : \A m \in Nat \ T : n <= m  BY LeastNatural, Zenon
<1>2. n # 0  BY <1>1
<1>3. n - 1 \in Nat  BY <1>2
<1>4. n - 1 \in T  BY <1>1, <1>3
<1>5. (n - 1) + 1 = n  BY <1>2
<1>6. QED  BY <1>1, <1>4, <1>5

LEMMA DownwardInduction ==
  ASSUME NEW L \in Nat, NEW T,
         \A i \in 1 .. L + 1 : (\A j \in i + 1 .. L + 1 : j \in T) => i \in T
  PROVE  \A i \in 1 .. L + 1 : i \in T
<1> DEFINE U == {n \in Nat : \E i \in 1 .. L + 1 : i \notin T /\ n = L + 1 - i}
<1> SUFFICES ASSUME NEW k \in 1 .. L + 1, k \notin T PROVE FALSE  OBVIOUS
<1>1. L + 1 - k \in U  OBVIOUS
<1>2. PICK n \in U : \A m \in U : n <= m  BY <1>1, LeastNatural, Zenon
<1>3. PICK i \in 1 .. L + 1 : i \notin T /\ n = L + 1 - i  BY <1>2
<1>4. \A j \in i + 1 .. L + 1 : j \notin T => L + 1 - j \in U  OBVIOUS
<1>5. \A j \in i + 1 .. L + 1 : j \in T  BY <1>2, <1>3, <1>4
<1>6. QED  BY <1>3, <1>5

LEMMA BoundedInduction ==
  ASSUME NEW N \in Nat, NEW T, 0 \in T, \A i \in 1 .. N : i - 1 \in T => i \in T
  PROVE  \A i \in 0 .. N : i \in T
<1> DEFINE U == {n \in Nat : n <= N => n \in T}
<1>1. 0 \in U  OBVIOUS
<1>2. \A n \in U : n + 1 \in U
  <2> SUFFICES ASSUME NEW n \in U, n + 1 <= N PROVE n + 1 \in T  OBVIOUS
  <2>1. n \in T /\ n + 1 \in 1 .. N /\ (n + 1) - 1 = n  OBVIOUS
  <2>2. QED  BY <2>1
<1>3. U = Nat  BY <1>1, <1>2, Induction, Zenon
<1>4. QED  BY <1>3

\* A function defined step by step exists.
Steps(X, N) == [X \X (1 .. N) -> X]

Runs(X, base, N, step) ==
  {f \in [0 .. N -> X] : f[0] = base /\ \A i \in 1 .. N : f[i] = step[<<f[i - 1], i>>]}

LEMMA Recursion ==
  ASSUME NEW X, NEW base \in X, NEW N \in Nat, NEW step \in Steps(X, N)
  PROVE  \E f : f \in Runs(X, base, N, step)
<1> USE DEF Steps
<1> DEFINE Partial(n) == \E f \in [0 .. n -> X] :
             f[0] = base /\ \A i \in 1 .. n : f[i] = step[<<f[i - 1], i>>]
           T == {n \in 0 .. N : Partial(n)}
<1>1. 0 \in T
  <2> DEFINE z == [i \in 0 .. 0 |-> base]
  <2>1. z \in [0 .. 0 -> X] /\ z[0] = base /\ 1 .. 0 = {}  OBVIOUS
  <2> HIDE DEF z
  <2>2. QED  BY <2>1
<1>2. ASSUME NEW n \in 1 .. N, n - 1 \in T PROVE n \in T
  <2>1. PICK f \in [0 .. n - 1 -> X] :
          f[0] = base /\ \A i \in 1 .. n - 1 : f[i] = step[<<f[i - 1], i>>]
    BY <1>2
  <2>2. f[n - 1] \in X  OBVIOUS
  <2>3. step[<<f[n - 1], n>>] \in X  BY <2>2
  <2> DEFINE g == [i \in 0 .. n |-> IF i = n THEN step[<<f[n - 1], n>>] ELSE f[i]]
  <2>4. g \in [0 .. n -> X]  BY <2>3
  <2>5. g[0] = base  BY <2>1
  <2>6. \A i \in 1 .. n : g[i] = step[<<g[i - 1], i>>]
    <3> SUFFICES ASSUME NEW i \in 1 .. n PROVE g[i] = step[<<g[i - 1], i>>]
      OBVIOUS
    <3>1. g[i - 1] = f[i - 1]
      <4>1. n \in Nat /\ i \in Nat /\ i - 1 \in 0 .. n /\ i - 1 # n  OBVIOUS
      <4>2. QED  BY <4>1
    <3>2. CASE i = n
      <4>1. g[i] = step[<<f[n - 1], n>>]  BY <3>2
      <4>2. g[i - 1] = f[n - 1]  BY <3>1, <3>2
      <4> HIDE DEF g
      <4>3. QED  BY <3>2, <4>1, <4>2
    <3>3. CASE i # n
      <4>1. i \in 1 .. n - 1  BY <3>3
      <4>2. QED  BY <2>1, <3>1, <3>3, <4>1
    <3>4. QED  BY <3>2, <3>3
  <2> HIDE DEF g
  <2>7. QED  BY <2>4, <2>5, <2>6
<1>3. \A n \in 0 .. N : n \in T
  <2> HIDE DEF T
  <2>1. QED  BY <1>1, <1>2, BoundedInduction
<1>4. N \in T
  <2> HIDE DEF T
  <2>1. QED  BY <1>3
<1>5. QED  BY <1>4 DEF Runs

LEMMA ConsText ==
  ASSUME NEW x \in Char, NEW m \in Nat, NEW w \in [1 .. m -> Char]
  PROVE  <<x>> \o w = [q \in 1 .. m + 1 |-> IF q = 1 THEN x ELSE w[q - 1]]
<1>1. w \in Seq(Char) /\ Len(w) = m
  <2>1. w = [q \in 1 .. m |-> w[q]]  OBVIOUS
  <2>2. \A q \in 1 .. m : w[q] \in Char  OBVIOUS
  <2>3. [q \in 1 .. m |-> w[q]] \in Seq(Char)  BY <2>2
  <2>4. Len([q \in 1 .. m |-> w[q]]) = m  OBVIOUS
  <2>5. QED  BY <2>1, <2>3, <2>4, Zenon
<1>2. <<x>> \in Seq(Char) /\ Len(<<x>>) = 1 /\ <<x>>[1] = x  OBVIOUS
<1>3. <<x>> \o w \in Seq(Char) /\ Len(<<x>> \o w) = m + 1  BY <1>1, <1>2
<1>4. \A q \in 1 .. m + 1 : (<<x>> \o w)[q] = IF q = 1 THEN x ELSE w[q - 1]
  BY <1>1, <1>2
<1>5. QED  BY <1>3, <1>4

-----------------------------------------------------------------------------
(* combo.replace(s, "").  The recursive function that defines Without      *)
(* exists, and satisfies its equation.                                     *)

From(c, s, f, i) ==
  IF i > Len(c) THEN <<>>
  ELSE IF s # <<>> /\ StandsAt(s, c, i) THEN f[i + Len(s)]
  ELSE <<c[i]>> \o f[i + 1]

LEMMA WithoutDef ==
  ASSUME NEW c \in Text, NEW s \in Text
  PROVE  \E f : /\ f = [i \in 1 .. Len(c) + 1 |-> From(c, s, f, i)]
                /\ Without(c, s) = f[1]
<1> DEFINE L == Len(c)
           Partial(n) == \E f : f = [i \in L + 1 - n .. L + 1 |-> From(c, s, f, i)]
           T == {n \in Nat : n <= L => Partial(n)}
<1>1. L \in Nat /\ Len(s) \in Nat  BY DEF Text
<1>2. 0 \in T
  <2>1. [i \in L + 1 .. L + 1 |-> <<>>]
          = [i \in L + 1 .. L + 1 |-> From(c, s, [j \in L + 1 .. L + 1 |-> <<>>], i)]
    BY <1>1 DEF From
  <2>2. L + 1 - 0 = L + 1  BY <1>1
  <2>3. QED  BY <2>1, <2>2, Zenon
<1>3. \A n \in T : n + 1 \in T
  <2> SUFFICES ASSUME NEW n \in Nat, n + 1 <= L, Partial(n) PROVE Partial(n + 1)
    BY <1>1
  <2> DEFINE I == L + 1 - n .. L + 1
             J == L + 1 - (n + 1) .. L + 1
             k == L + 1 - (n + 1)
  <2>1. PICK f : f = [i \in I |-> From(c, s, f, i)]  OBVIOUS
  <2> DEFINE g == [i \in J |-> IF i \in I THEN f[i] ELSE From(c, s, f, i)]
  <2>2. J = I \cup {k} /\ k \notin I /\ k \in 1 .. L  BY <1>1
  <2>3. \A i \in J : From(c, s, g, i) = From(c, s, f, i)
    <3> SUFFICES ASSUME NEW i \in J PROVE From(c, s, g, i) = From(c, s, f, i)
      OBVIOUS
    <3>1. CASE i > L  BY <3>1 DEF From
    <3>2. CASE ~(i > L)
      <4>1. i + 1 \in I  BY <1>1, <3>2
      <4>2. s # <<>> /\ StandsAt(s, c, i) => i + Len(s) \in I
        BY <1>1 DEF StandsAt, Text
      <4>3. \A j \in I : g[j] = f[j]  BY <2>2
      <4> HIDE DEF g, I, J
      <4>4. QED  BY <4>1, <4>2, <4>3 DEF From
    <3>3. QED  BY <3>1, <3>2
  <2>4. \A i \in J : g[i] = From(c, s, g, i)
    <3> HIDE DEF I, J
    <3>1. \A i \in J : g[i] = From(c, s, f, i)  BY <2>1
    <3>2. QED  BY <3>1, <2>3
  <2>5. g = [i \in J |-> From(c, s, g, i)]
    <3>1. g = [i \in J |-> g[i]]  OBVIOUS
    <3> HIDE DEF g, J
    <3>2. QED  BY <3>1, <2>4
  <2> HIDE DEF g
  <2>6. QED  BY <2>5
<1>4. T = Nat  BY <1>2, <1>3, Induction, Zenon
<1>5. Partial(L)  BY <1>1, <1>4
<1>6. L + 1 - L = 1  BY <1>1
<1>7. \E f : f = [i \in 1 .. L + 1 |-> From(c, s, f, i)]  BY <1>5, <1>6
<1> DEFINE F == CHOOSE f : f = [i \in 1 .. Len(c) + 1 |-> From(c, s, f, i)]
<1>8. F = [i \in 1 .. Len(c) + 1 |-> From(c, s, F, i)]  BY <1>7, Zenon
<1>9. Without(c, s) = F[1]  BY Zenon DEF Without, From
<1>10. QED  BY <1>8, <1>9, Zenon

LEMMA WithoutText ==
  ASSUME NEW c \in Text, NEW s \in Text
  PROVE  /\ Without(c, s) \in Text
         /\ ToSet(Without(c, s)) \subseteq ToSet(c)
<1> DEFINE L == Len(c)
           S == ToSet(c)
<1>1. L \in Nat /\ Len(s) \in Nat /\ S \subseteq Char /\ \A i \in 1 .. L : c[i] \in S
  BY DEF Text, ToSet
<1>2. PICK f : /\ f = [i \in 1 .. L + 1 |-> From(c, s, f, i)]
               /\ Without(c, s) = f[1]
  BY WithoutDef
<1> DEFINE T == {i \in 1 .. L + 1 : f[i] \in Seq(S)}
<1>3. ASSUME NEW i \in 1 .. L + 1, \A j \in i + 1 .. L + 1 : j \in T
      PROVE  i \in T
  <2>1. f[i] = From(c, s, f, i)  BY <1>2
  <2>2. CASE i > L
    <3>1. f[i] = <<>>  BY <2>1, <2>2 DEF From
    <3>2. f[i] \in Seq(S)
      <4> HIDE DEF S
      <4>1. QED  BY <3>1
    <3>3. QED  BY <3>2
  <2>3. CASE i <= L /\ s # <<>> /\ StandsAt(s, c, i)
    <3>1. Len(s) > 0  BY <2>3 DEF Text
    <3>2. i + Len(s) \in i + 1 .. L + 1  BY <1>1, <2>3, <3>1 DEF StandsAt
    <3>3. f[i] = f[i + Len(s)]  BY <1>1, <2>1, <2>3 DEF From
    <3>4. QED  BY <1>3, <3>2, <3>3
  <2>4. CASE i <= L /\ ~(s # <<>> /\ StandsAt(s, c, i))
    <3>1. i + 1 \in i + 1 .. L + 1  BY <1>1, <2>4
    <3>2. f[i] = <<c[i]>> \o f[i + 1]  BY <1>1, <2>1, <2>4 DEF From
    <3>3. f[i + 1] \in Seq(S)  BY <1>3, <3>1
    <3>4. c[i] \in S  BY <1>1, <2>4
    <3>5. <<c[i]>> \o f[i + 1] \in Seq(S)
      <4> HIDE DEF S, T
      <4>1. QED  BY <3>3, <3>4
    <3>6. QED  BY <3>2, <3>5
  <2>5. QED  BY <1>1, <2>2, <2>3, <2>4
<1>4. \A i \in 1 .. L + 1 : i \in T
  <2> HIDE DEF T, L
  <2>1. QED  BY <1>1, <1>3, DownwardInduction
<1>5. Without(c, s) \in Seq(S)  BY <1>1, <1>2, <1>4
<1> HIDE DEF S
<1>6. Without(c, s) \in Seq(Char)  BY <1>1, <1>5, SeqMonotonic
<1>7. QED  BY <1>5, <1>6 DEF Text, ToSet, S

\* Nothing is removed where nothing stands; what stands once is removed once.
Rest(c, n, p) ==
  [q \in 1 .. Len(c) - n |-> IF q < p THEN c[q] ELSE c[q + n]]

LEMMA WithoutAbsent ==
  ASSUME NEW c \in Text, NEW s \in Text, ~Occurs(s, c)
  PROVE  Without(c, s) = c
<1> DEFINE L == Len(c)
           G(i) == [q \in 1 .. L + 1 - i |-> c[i + q - 1]]
<1>1. L \in Nat /\ c \in [1 .. L -> Char]  BY DEF Text
<1>2. PICK f : /\ f = [i \in 1 .. L + 1 |-> From(c, s, f, i)]
               /\ Without(c, s) = f[1]
  BY WithoutDef
<1> DEFINE T == {i \in 1 .. L + 1 : f[i] = G(i)}
<1>3. ASSUME NEW i \in 1 .. L + 1, \A j \in i + 1 .. L + 1 : j \in T
      PROVE  i \in T
  <2>1. f[i] = From(c, s, f, i)  BY <1>2
  <2>2. CASE i > L
    <3>1. f[i] = <<>>  BY <2>1, <2>2 DEF From
    <3>2. L + 1 - i = 0  BY <1>1, <2>2
    <3>3. G(i) = <<>>  BY <3>2
    <3>4. QED  BY <3>1, <3>3
  <2>3. CASE i <= L
    <3>0. ~StandsAt(s, c, i)  BY DEF Occurs
    <3>1. f[i] = <<c[i]>> \o f[i + 1]  BY <1>1, <2>1, <2>3, <3>0 DEF From
    <3>2. f[i + 1] = G(i + 1)
      <4>1. i + 1 \in T  BY <1>1, <1>3, <2>3
      <4>2. QED  BY <4>1
    <3>3. G(i + 1) \in [1 .. L - i -> Char] /\ c[i] \in Char /\ L - i \in Nat
      <4>1. \A q \in 1 .. L - i : c[i + 1 + q - 1] \in Char  BY <1>1, <2>3
      <4>2. L + 1 - (i + 1) = L - i
        <5> HIDE DEF L, T
        <5>1. QED  BY <1>1
      <4>3. QED  BY <1>1, <2>3, <4>1, <4>2
    <3>4. f[i] = [q \in 1 .. L - i + 1 |-> IF q = 1 THEN c[i] ELSE G(i + 1)[q - 1]]
      <4> HIDE DEF G
      <4>1. QED  BY <3>1, <3>2, <3>3, ConsText
    <3>5. \A q \in 1 .. L - i + 1 : (IF q = 1 THEN c[i] ELSE G(i + 1)[q - 1]) = c[i + q - 1]
      BY <1>1, <2>3
    <3>6. L - i + 1 = L + 1 - i  BY <1>1
    <3>7. f[i] = G(i)
      <4> DEFINE E(q) == IF q = 1 THEN c[i] ELSE G(i + 1)[q - 1]
      <4>1. f[i] = [q \in 1 .. L + 1 - i |-> E(q)]  BY <3>4, <3>6
      <4>2. \A q \in 1 .. L + 1 - i : E(q) = c[i + q - 1]  BY <3>5, <3>6
      <4> HIDE DEF E
      <4>3. QED  BY <4>1, <4>2
    <3>8. QED  BY <3>7
  <2>4. i > L \/ i <= L
    <3> HIDE DEF L, T
    <3>1. QED  BY <1>1
  <2>5. QED  BY <2>2, <2>3, <2>4
<1>4. \A i \in 1 .. L + 1 : i \in T
  <2> HIDE DEF T, L
  <2>1. QED  BY <1>1, <1>3, DownwardInduction
<1>5. f[1] = [q \in 1 .. L |-> c[q]]
  <2>1. 1 \in T  BY <1>1, <1>4
  <2>2. f[1] = G(1)  BY <2>1
  <2>3. L + 1 - 1 = L /\ \A q \in 1 .. L : 1 + q - 1 = q  BY <1>1
  <2>4. QED  BY <2>2, <2>3
<1>6. QED  BY <1>1, <1>2, <1>5

LEMMA WithoutUnique ==
  ASSUME NEW c \in Text, NEW s \in Text, s # <<>>,
         NEW p \in 1 .. Len(c), StandsAt(s, c, p),
         \A i \in 1 .. Len(c) : StandsAt(s, c, i) => i = p
  PROVE  Without(c, s) = Rest(c, Len(s), p)
<1> DEFINE L == Len(c)
           n == Len(s)
           Left(i) == IF i <= p THEN L + 1 - i - n ELSE L + 1 - i
           G(i) == [q \in 1 .. Left(i) |->
                     IF i <= p /\ i + q - 1 >= p THEN c[i + q - 1 + n] ELSE c[i + q - 1]]
<1>1. /\ L \in Nat /\ n \in Nat /\ n > 0
      /\ c \in [1 .. L -> Char] /\ s \in [1 .. n -> Char]
      /\ p + n <= L + 1
  BY DEF Text, StandsAt
<1>2. PICK f : /\ f = [i \in 1 .. L + 1 |-> From(c, s, f, i)]
               /\ Without(c, s) = f[1]
  BY WithoutDef
<1> DEFINE T == {i \in 1 .. L + 1 : f[i] = G(i)}
<1>3. ASSUME NEW i \in 1 .. L + 1, \A j \in i + 1 .. L + 1 : j \in T
      PROVE  i \in T
  <2>1. f[i] = From(c, s, f, i)  BY <1>2
  <2>2. CASE i > L
    <3>1. f[i] = <<>>  BY <2>1, <2>2 DEF From
    <3>2. Left(i) = 0  BY <1>1, <2>2
    <3>3. G(i) = <<>>  BY <3>2
    <3>4. QED  BY <3>1, <3>3
  <2>3. CASE i = p
    <3>1. f[i] = f[p + n]  BY <1>1, <2>1, <2>3 DEF From
    <3>2. f[p + n] = G(p + n)  BY <1>1, <1>3, <2>3
    <3>3. Left(p + n) = Left(p)  BY <1>1
    <3>4. \A q \in 1 .. Left(p) : G(p + n)[q] = G(p)[q]  BY <1>1, <3>3
    <3>5. G(p + n) = G(p)
      <4>1. DOMAIN G(p + n) = 1 .. Left(p) /\ DOMAIN G(p) = 1 .. Left(p)  BY <3>3
      <4>2. G(p + n) = [q \in DOMAIN G(p + n) |-> G(p + n)[q]]  OBVIOUS
      <4>3. G(p) = [q \in DOMAIN G(p) |-> G(p)[q]]  OBVIOUS
      <4> HIDE DEF G, Left
      <4>4. QED  BY <3>4, <4>1, <4>2, <4>3
    <3>6. QED  BY <2>3, <3>1, <3>2, <3>5
  <2>4. CASE i <= L /\ i # p
    <3>1. f[i] = <<c[i]>> \o f[i + 1]  BY <1>1, <2>1, <2>4 DEF From
    <3>2. f[i + 1] = G(i + 1)
      <4>1. i + 1 \in i + 1 .. L + 1  BY <1>1, <2>4
      <4>2. i + 1 \in T  BY <1>3, <4>1
      <4> HIDE DEF G
      <4>3. QED  BY <4>2
    <3>3. Left(i + 1) \in Nat /\ Left(i) = Left(i + 1) + 1 /\ c[i] \in Char
      BY <1>1, <2>4
    <3>4. G(i + 1) \in [1 .. Left(i + 1) -> Char]
      <4> DEFINE at(q) == IF i + 1 <= p /\ (i + 1) + q - 1 >= p
                          THEN (i + 1) + q - 1 + n ELSE (i + 1) + q - 1
      <4>1. \A q \in 1 .. Left(i + 1) : at(q) \in 1 .. L
        <5> HIDE DEF L, n, T, G
        <5>1. QED  BY <1>1, <2>4
      <4>2. \A q \in 1 .. Left(i + 1) : G(i + 1)[q] = c[at(q)]
        <5> HIDE DEF L, n, T, Left
        <5>1. QED  OBVIOUS
      <4>3. G(i + 1) = [q \in 1 .. Left(i + 1) |-> G(i + 1)[q]]  OBVIOUS
      <4> HIDE DEF at, G, Left, L, T
      <4>4. QED  BY <1>1, <4>1, <4>2, <4>3
    <3> DEFINE E(q) == IF q = 1 THEN c[i] ELSE G(i + 1)[q - 1]
    <3>5. f[i] = [q \in 1 .. Left(i) |-> E(q)]
      <4> HIDE DEF G, Left
      <4>1. QED  BY <3>1, <3>2, <3>3, <3>4, ConsText
    <3>6. \A q \in 1 .. Left(i) : E(q) = G(i)[q]
      <4> HIDE DEF L, n, T
      <4>1. SUFFICES ASSUME NEW q \in 1 .. Left(i) PROVE E(q) = G(i)[q]  OBVIOUS
      <4>2. CASE q = 1  BY <1>1, <2>4, <3>3, <4>2
      <4>3. CASE q > 1
        <5>1. q - 1 \in 1 .. Left(i + 1)  BY <3>3, <4>3
        <5>2. (i + 1) + (q - 1) - 1 = i + q - 1  BY <1>1
        <5>3. i + 1 <= p <=> i <= p  BY <1>1, <2>4
        <5>4. QED  BY <1>1, <4>3, <5>1, <5>2, <5>3
      <4>4. QED  BY <3>3, <4>2, <4>3
    <3>7. DOMAIN G(i) = 1 .. Left(i) /\ G(i) = [q \in DOMAIN G(i) |-> G(i)[q]]  OBVIOUS
    <3> HIDE DEF E, G, Left
    <3>8. f[i] = G(i)  BY <3>5, <3>6, <3>7
    <3>9. QED  BY <3>8
  <2>5. QED  BY <1>1, <2>2, <2>3, <2>4
<1>4. \A i \in 1 .. L + 1 : i \in T
  <2> HIDE DEF T, L
  <2>1. QED  BY <1>1, <1>3, DownwardInduction
<1>5. f[1] = G(1)
  <2>1. 1 \in 1 .. L + 1  BY <1>1
  <2>2. 1 \in T  BY <1>4, <2>1
  <2> HIDE DEF G
  <2>3. QED  BY <2>2
<1>6. Left(1) = L - n
  <2> HIDE DEF L, n, T, G
  <2>1. p >= 1 /\ p \in Nat  BY <1>1 DEF L
  <2>2. QED  BY <1>1, <2>1
<1>7. \A q \in 1 .. L - n : G(1)[q] = IF q < p THEN c[q] ELSE c[q + n]  BY <1>1, <1>6
<1>8. DOMAIN G(1) = 1 .. L - n /\ G(1) = [q \in DOMAIN G(1) |-> G(1)[q]]  BY <1>6
<1> HIDE DEF G, Left
<1>9. G(1) = Rest(c, n, p)  BY <1>7, <1>8 DEF Rest
<1>10. QED  BY <1>2, <1>5, <1>9

-----------------------------------------------------------------------------
(* The candidates that key presses and releases make.                      *)

LEMMA FlattenElements ==
  ASSUME NEW S, NEW seqs \in Seq(Seq(S) \ {<<>>}), seqs # <<>>
  PROVE  FlattenSeq(seqs) \in Seq(S) \ {<<>>}
<1> DEFINE N == Len(seqs)
           X == Seq(S) \ {<<>>}
           Body(f, i) == IF i = 1 THEN seqs[i] ELSE f[i - 1] \o seqs[i]
<1>1. N \in Nat /\ N > 0 /\ \A i \in 1 .. N : seqs[i] \in X  OBVIOUS
<1>2. \A x \in X, y \in X : x \o y \in X
  BY ConcatProperties, ConcatEqualIffEmpty
<1> DEFINE step == [p \in X \X (1 .. N - 1) |-> p[1] \o seqs[p[2] + 1]]
<1>3. \E f : f = [i \in 1 .. N |-> Body(f, i)]
  <2>1. step \in Steps(X, N - 1)
    <3>1. \A p \in X \X (1 .. N - 1) : p[1] \in X /\ seqs[p[2] + 1] \in X  BY <1>1
    <3> HIDE DEF X
    <3>2. QED  BY <1>2, <3>1 DEF Steps
  <2>2. seqs[1] \in X /\ N - 1 \in Nat  BY <1>1
  <2>3. PICK f : f \in Runs(X, seqs[1], N - 1, step)
    <3> HIDE DEF step, X, N
    <3>1. QED  BY <2>1, <2>2, Recursion, Zenon
  <2> DEFINE g == [i \in 1 .. N |-> f[i - 1]]
  <2>4. \A i \in 1 .. N : g[i] = Body(g, i)
    <3> HIDE DEF X, N
    <3>0. SUFFICES ASSUME NEW i \in 1 .. N PROVE g[i] = Body(g, i)  OBVIOUS
    <3>1. CASE i = 1  BY <2>3, <3>1 DEF Runs
    <3>2. CASE i # 1
      <4>1. i - 1 \in 1 .. N - 1 /\ (i - 1) + 1 = i /\ (i - 1) - 1 \in 0 .. N - 1
        BY <1>1, <3>2
      <4>2. f[i - 1] = step[<<f[(i - 1) - 1], i - 1>>]  BY <2>3, <4>1 DEF Runs
      <4>3. f[(i - 1) - 1] \in X  BY <2>3, <4>1 DEF Runs
      <4>4. f[i - 1] = f[(i - 1) - 1] \o seqs[i]  BY <4>1, <4>2, <4>3
      <4>5. g[i] = f[i - 1] /\ g[i - 1] = f[(i - 1) - 1]  BY <1>1, <3>2
      <4>6. QED  BY <3>2, <4>4, <4>5
    <3>3. QED  BY <3>1, <3>2
  <2>5. g = [i \in 1 .. N |-> Body(g, i)]
    <3>1. g = [i \in 1 .. N |-> g[i]]  OBVIOUS
    <3> HIDE DEF g, Body, N
    <3>2. QED  BY <2>4, <3>1
  <2> HIDE DEF g
  <2>6. QED  BY <2>5
<1> DEFINE F == CHOOSE f : f = [i \in 1 .. Len(seqs) |->
                  IF i = 1 THEN seqs[i] ELSE f[i - 1] \o seqs[i]]
<1>4. F = [i \in 1 .. Len(seqs) |-> IF i = 1 THEN seqs[i] ELSE F[i - 1] \o seqs[i]]
  BY <1>3, Zenon
<1>5. FlattenSeq(seqs) = F[Len(seqs)]
  <2>1. Len(seqs) # 0  BY <1>1
  <2>2. QED  BY <2>1, Zenon DEF FlattenSeq
<1> HIDE DEF F
<1> DEFINE T == {i \in 0 .. N - 1 : F[i + 1] \in X}
<1>6. \A i \in 0 .. N - 1 : i \in T
  <2>1. 0 \in T
    <3>1. F[1] = seqs[1]  BY <1>1, <1>4
    <3>2. F[1] \in X  BY <1>1, <3>1
    <3> HIDE DEF X
    <3>3. QED  BY <1>1, <3>2
  <2>2. ASSUME NEW i \in 1 .. N - 1, i - 1 \in T PROVE i \in T
    <3>1. i + 1 \in 1 .. N /\ i + 1 # 1 /\ (i + 1) - 1 = i /\ (i - 1) + 1 = i
      BY <1>1
    <3>2. F[i + 1] = F[i] \o seqs[i + 1]  BY <1>4, <3>1
    <3> HIDE DEF X
    <3>3. F[i] \in X /\ seqs[i + 1] \in X  BY <1>1, <2>2, <3>1
    <3>4. F[i + 1] \in X  BY <1>2, <3>2, <3>3
    <3>5. i \in 0 .. N - 1  OBVIOUS
    <3>6. QED  BY <3>4, <3>5
  <2> HIDE DEF T
  <2>3. N - 1 \in Nat  BY <1>1
  <2>4. QED  BY <2>1, <2>2, <2>3, BoundedInduction
<1>7. N - 1 \in 0 .. N - 1 /\ (N - 1) + 1 = N  BY <1>1
<1>8. F[N] \in X
  <2> HIDE DEF X
  <2>1. QED  BY <1>6, <1>7
<1>9. QED  BY <1>5, <1>8

LEMMA PressElements ==
  ASSUME NEW combos \in Seq(Text) \ {<<>>}, NEW k,
         KeyMap[k].spellings \in Seq(Text) \ {<<>>}
  PROVE  Press(combos, k) \in
           Seq({combos[p[1]] \o KeyMap[k].spellings[p[2]] :
                  p \in (DOMAIN combos) \X (DOMAIN KeyMap[k].spellings)}) \ {<<>>}
<1> DEFINE sp == KeyMap[k].spellings
           S == {combos[p[1]] \o sp[p[2]] : p \in (DOMAIN combos) \X (DOMAIN sp)}
           row(i) == [j \in DOMAIN sp |-> combos[i] \o sp[j]]
           seqs == [i \in DOMAIN combos |-> row(i)]
<1>1. DOMAIN combos = 1 .. Len(combos) /\ Len(combos) \in Nat /\ Len(combos) > 0
  OBVIOUS
<1>2. DOMAIN sp = 1 .. Len(sp) /\ Len(sp) \in Nat /\ Len(sp) > 0
  <2> HIDE DEF sp
  <2>1. QED  BY DEF sp
<1>3. \A i \in DOMAIN combos, j \in DOMAIN sp : combos[i] \o sp[j] \in S
  <2> SUFFICES ASSUME NEW i \in DOMAIN combos, NEW j \in DOMAIN sp
               PROVE  combos[i] \o sp[j] \in S
    OBVIOUS
  <2>1. <<i, j>> \in (DOMAIN combos) \X (DOMAIN sp)  OBVIOUS
  <2>2. <<i, j>>[1] = i /\ <<i, j>>[2] = j  OBVIOUS
  <2> HIDE DEF sp
  <2>3. QED  BY <2>1, <2>2
<1> HIDE DEF S, sp
<1>4. \A i \in DOMAIN combos : row(i) \in Seq(S) \ {<<>>}
  <2> SUFFICES ASSUME NEW i \in DOMAIN combos PROVE row(i) \in Seq(S) \ {<<>>}
    OBVIOUS
  <2>1. row(i) \in Seq(S)  BY <1>2, <1>3
  <2>2. Len(row(i)) = Len(sp)  BY <1>2
  <2> HIDE DEF row
  <2>3. row(i) # <<>>
    <3>1. SUFFICES ASSUME row(i) = <<>> PROVE FALSE  OBVIOUS
    <3>2. Len(row(i)) = 0  BY <3>1
    <3>3. QED  BY <1>2, <2>2, <3>2
  <2>4. QED  BY <2>1, <2>3
<1> HIDE DEF row
<1>5. seqs \in Seq(Seq(S) \ {<<>>})  BY <1>1, <1>4
<1>6. seqs # <<>>
  <2>1. Len(seqs) = Len(combos)  BY <1>1
  <2>2. SUFFICES ASSUME seqs = <<>> PROVE FALSE  OBVIOUS
  <2> HIDE DEF seqs
  <2>3. Len(seqs) = 0  BY <2>2
  <2>4. QED  BY <1>1, <2>1, <2>3
<1>7. Press(combos, k) = FlattenSeq(seqs)  BY Zenon DEF Press, row, sp
<1> HIDE DEF seqs
<1>8. Press(combos, k) \in Seq(S) \ {<<>>}  BY <1>5, <1>6, <1>7, FlattenElements
<1>9. QED  BY <1>8, Zenon DEF S, sp

\* What a round over the spellings of a modifier keeps.
Kept(combos, s) ==
  {w \in Text : /\ w # <<>>
                /\ \E i \in DOMAIN combos : Occurs(s, combos[i]) /\ w = Without(combos[i], s)}

LEMMA StripElements ==
  ASSUME NEW combos \in Seq(Text), NEW s \in Text
  PROVE  Strip(combos, s) \in Seq(Kept(combos, s))
<1> DEFINE N == Len(combos)
           X == Seq(Kept(combos, s))
           Good(i) == Occurs(s, combos[i]) /\ Without(combos[i], s) # <<>>
           Body(f, i) == IF i = 0 THEN <<>>
                         ELSE IF Good(i) THEN Append(f[i - 1], Without(combos[i], s))
                         ELSE f[i - 1]
<1>1. N \in Nat /\ DOMAIN combos = 1 .. N /\ \A i \in 1 .. N : combos[i] \in Text
  OBVIOUS
<1>2. \A i \in 1 .. N : Good(i) => Without(combos[i], s) \in Kept(combos, s)
  BY <1>1, WithoutText DEF Kept
<1>3. \A x \in X, i \in 1 .. N :
        (IF Good(i) THEN Append(x, Without(combos[i], s)) ELSE x) \in X
  <2> HIDE DEF N, Good
  <2> SUFFICES ASSUME NEW x \in X, NEW i \in 1 .. N, Good(i)
               PROVE  Append(x, Without(combos[i], s)) \in X
    OBVIOUS
  <2>1. Without(combos[i], s) \in Kept(combos, s)  BY <1>2
  <2>2. QED  BY <2>1
<1>4. <<>> \in X  OBVIOUS
<1> DEFINE step == [p \in X \X (1 .. N) |->
                     IF Good(p[2]) THEN Append(p[1], Without(combos[p[2]], s)) ELSE p[1]]
<1> HIDE DEF X, Good
<1>5. \E f : f = [i \in 0 .. N |-> Body(f, i)]
  <2>1. step \in Steps(X, N)  BY <1>3 DEF Steps
  <2>2. PICK f : f \in Runs(X, <<>>, N, step)
    <3> HIDE DEF step, N
    <3>1. QED  BY <1>1, <1>4, <2>1, Recursion, Zenon
  <2>3. \A i \in 0 .. N : f[i] = Body(f, i)
    <3> SUFFICES ASSUME NEW i \in 0 .. N PROVE f[i] = Body(f, i)  OBVIOUS
    <3> HIDE DEF N
    <3>1. CASE i = 0  BY <2>2, <3>1 DEF Runs
    <3>2. CASE i # 0
      <4>1. i \in 1 .. N /\ i - 1 \in 0 .. N  BY <1>1, <3>2
      <4>2. f[i] = step[<<f[i - 1], i>>] /\ f[i - 1] \in X  BY <2>2, <4>1 DEF Runs
      <4>3. QED  BY <3>2, <4>1, <4>2
    <3>3. QED  BY <3>1, <3>2
  <2>4. f = [i \in 0 .. N |-> f[i]]  BY <2>2 DEF Runs
  <2> HIDE DEF Body, N
  <2>5. f = [i \in 0 .. N |-> Body(f, i)]  BY <2>3, <2>4
  <2>6. QED  BY <2>5
<1> DEFINE F == CHOOSE f : f = [i \in 0 .. Len(combos) |->
                  IF i = 0 THEN <<>>
                  ELSE IF Occurs(s, combos[i]) /\ Without(combos[i], s) # <<>>
                    THEN Append(f[i - 1], Without(combos[i], s))
                  ELSE f[i - 1]]
<1>6. F = [i \in 0 .. N |-> Body(F, i)]  BY <1>5, Zenon DEF Good
<1>7. Strip(combos, s) = F[N]  BY Zenon DEF Strip
<1> HIDE DEF F
<1> DEFINE T == {i \in 0 .. N : F[i] \in X}
<1>8. 0 \in T  BY <1>1, <1>4, <1>6
<1>9. ASSUME NEW i \in 1 .. N, i - 1 \in T PROVE i \in T
  <2>1. i \in 0 .. N /\ i # 0  BY <1>1
  <2>2. F[i] = IF Good(i) THEN Append(F[i - 1], Without(combos[i], s)) ELSE F[i - 1]
    BY <1>6, <2>1
  <2>3. F[i - 1] \in X  BY <1>9
  <2>4. F[i] \in X  BY <1>3, <2>2, <2>3
  <2>5. QED  BY <2>1, <2>4
<1>10. N \in T
  <2> HIDE DEF T
  <2>1. \A i \in 0 .. N : i \in T  BY <1>1, <1>8, <1>9, BoundedInduction
  <2>2. QED  BY <1>1, <2>1
<1>11. QED  BY <1>7, <1>10 DEF X

LEMMA StripText ==
  ASSUME NEW combos \in Seq(Text), NEW s \in Text
  PROVE  Strip(combos, s) \in Seq(Text)
<1>1. Kept(combos, s) \subseteq Text  BY DEF Kept
<1>2. QED  BY <1>1, StripElements, SeqMonotonic

\* The loop over the spellings of a modifier.
LEMMA StripAllDef ==
  ASSUME NEW combos \in Seq(Text), NEW sp \in Seq(Text)
  PROVE  \E f : /\ f[0] = combos
                /\ \A j \in 1 .. Len(sp) : f[j] = Strip(f[j - 1], sp[j])
                /\ StripAll(combos, sp) = f[Len(sp)]
<1> DEFINE N == Len(sp)
           X == Seq(Text)
           Body(f, j) == IF j = 0 THEN combos ELSE Strip(f[j - 1], sp[j])
           step == [p \in X \X (1 .. N) |-> Strip(p[1], sp[p[2]])]
<1>1. N \in Nat /\ \A j \in 1 .. N : sp[j] \in Text  OBVIOUS
<1>2. \A x \in X, j \in 1 .. N : Strip(x, sp[j]) \in X  BY <1>1, StripText
<1>3. combos \in X  OBVIOUS
<1> HIDE DEF X
<1>4. \E f : f = [j \in 0 .. N |-> Body(f, j)]
  <2>1. step \in Steps(X, N)  BY <1>2 DEF Steps
  <2>2. PICK f : f \in Runs(X, combos, N, step)
    <3> HIDE DEF step, N
    <3>1. QED  BY <1>1, <1>3, <2>1, Recursion, Zenon
  <2>3. \A j \in 0 .. N : f[j] = Body(f, j)
    <3> SUFFICES ASSUME NEW j \in 0 .. N PROVE f[j] = Body(f, j)  OBVIOUS
    <3> HIDE DEF N
    <3>1. CASE j = 0  BY <2>2, <3>1 DEF Runs
    <3>2. CASE j # 0
      <4>1. j \in 1 .. N /\ j - 1 \in 0 .. N  BY <1>1, <3>2
      <4>2. f[j] = step[<<f[j - 1], j>>] /\ f[j - 1] \in X  BY <2>2, <4>1 DEF Runs
      <4>3. QED  BY <3>2, <4>1, <4>2
    <3>3. QED  BY <3>1, <3>2
  <2>4. f = [j \in 0 .. N |-> f[j]]  BY <2>2 DEF Runs
  <2> HIDE DEF Body, N
  <2>5. f = [j \in 0 .. N |-> Body(f, j)]  BY <2>3, <2>4
  <2>6. QED  BY <2>5
<1> DEFINE F == CHOOSE f : f = [j \in 0 .. Len(sp) |->
                  IF j = 0 THEN combos ELSE Strip(f[j - 1], sp[j])]
<1>5. F = [j \in 0 .. N |-> Body(F, j)]  BY <1>4, Zenon
<1>6. StripAll(combos, sp) = F[N]  BY Zenon DEF StripAll
<1> HIDE DEF F
<1>7. F[0] = combos /\ \A j \in 1 .. N : F[j] = Strip(F[j - 1], sp[j])
  BY <1>1, <1>5
<1>8. QED  BY <1>6, <1>7
-----------------------------------------------------------------------------
(* The table of the keyboard watched.                                      *)

LEMMA MapTyped ==
  ASSUME NEW kb \in Keyboards, NEW k \in DOMAIN MapOf(kb)
  PROVE  /\ MapOf(kb)[k].spellings \in Seq(Text) \ {<<>>}
         /\ MapOf(kb)[k].several \in BOOLEAN
         /\ ~MapOf(kb)[k].several => Len(MapOf(kb)[k].spellings) = 1
         /\ k \in kb.keys
<1>1. /\ k \in DOMAIN kb.table \cup DOMAIN kb.maps /\ k \in kb.keys
      /\ k \in DOMAIN kb.table =>
           /\ kb.table[k] \in [several : BOOLEAN, spellings : Seq(Text) \ {<<>>}]
           /\ ~kb.table[k].several => Len(kb.table[k].spellings) = 1
      /\ k \in DOMAIN kb.maps => kb.maps[k] \in Text
  <2>1. k \in DOMAIN kb.table \cup DOMAIN kb.maps  BY DEF MapOf
  <2>2. QED  BY <2>1, KeyboardsAssumption
<1>2. CASE k \notin DOMAIN kb.maps
  <2>1. MapOf(kb)[k] = kb.table[k] /\ k \in DOMAIN kb.table  BY <1>1, <1>2 DEF MapOf
  <2>2. QED  BY <1>1, <2>1
<1>3. CASE k \in DOMAIN kb.maps
  <2> DEFINE name == <<"(">> \o kb.maps[k] \o <<")">>
  <2>1. MapOf(kb)[k] = [several |-> FALSE, spellings |-> <<name>>]
    BY <1>1, <1>3 DEF MapOf
  <2>2. name \in Text
    <3>1. "(" \in Char /\ ")" \in Char  BY BracketsAssumption
    <3>2. <<"(">> \in Seq(Char) /\ <<")">> \in Seq(Char)  BY <3>1
    <3>3. QED  BY <1>1, <1>3, <3>2, ConcatProperties DEF Text
  <2> HIDE DEF name
  <2>3. <<name>> \in Seq(Text) /\ Len(<<name>>) = 1 /\ <<name>> # <<>>  BY <2>2
  <2>4. QED  BY <1>1, <2>1, <2>3
<1>4. QED  BY <1>2, <1>3

LEMMA SpellingTyped ==
  ASSUME keyboard \in Keyboards, NEW k \in DOMAIN KeyMap,
         NEW j \in DOMAIN KeyMap[k].spellings
  PROVE  /\ KeyMap[k].spellings[j] \in Text
         /\ KeyMap[k].spellings[j] \in Seq(Alphabet)
<1> DEFINE s == KeyMap[k].spellings[j]
<1>1. KeyMap[k].spellings \in Seq(Text)  BY MapTyped DEF KeyMap
<1>2. s \in Text  BY <1>1
<1>3. s \in Spellings  BY DEF Spellings, ToSet
<1>4. ToSet(s) \subseteq Alphabet  BY <1>3 DEF Alphabet
<1>5. s \in Seq(Char) /\ \A i \in 1 .. Len(s) : s[i] \in Alphabet
  <2> HIDE DEF s
  <2>1. DOMAIN s = 1 .. Len(s)  BY <1>2 DEF Text
  <2>2. QED  BY <1>2, <1>4, <2>1 DEF Text, ToSet
<1>6. s \in Seq(Alphabet)
  <2> HIDE DEF s
  <2>1. QED  BY <1>5
<1>7. QED  BY <1>2, <1>6

LEMMA AlphabetOfChars ==
  ASSUME keyboard \in Keyboards
  PROVE  Alphabet \subseteq Char
<1> SUFFICES ASSUME NEW k \in DOMAIN KeyMap, NEW s \in ToSet(KeyMap[k].spellings)
             PROVE  ToSet(s) \subseteq Char
  BY DEF Alphabet, Spellings
<1>1. s \in Text  BY SpellingTyped DEF ToSet
<1>2. QED  BY <1>1 DEF Text, ToSet

LEMMA TextsOfAlphabet ==
  ASSUME keyboard \in Keyboards
  PROVE  /\ Seq(Alphabet) \subseteq Text
         /\ Seq(Seq(Alphabet)) \subseteq Seq(Text)
         /\ \A w \in Text : ToSet(w) \subseteq Alphabet => w \in Seq(Alphabet)
<1>1. Seq(Alphabet) \subseteq Text  BY AlphabetOfChars, SeqMonotonic DEF Text
<1>2. Seq(Seq(Alphabet)) \subseteq Seq(Text)  BY <1>1, SeqMonotonic
<1>3. ASSUME NEW w \in Text, ToSet(w) \subseteq Alphabet PROVE w \in Seq(Alphabet)
  <2>1. DOMAIN w = 1 .. Len(w)  BY DEF Text
  <2>2. \A i \in 1 .. Len(w) : w[i] \in Alphabet  BY <1>3, <2>1 DEF ToSet
  <2>3. QED  BY <2>2 DEF Text
<1>4. QED  BY <1>1, <1>2, <1>3

\* check_for_hotkey finds a hotkey that a candidate matches, if there is one.
LEMMA Found ==
  ASSUME keyboard \in Keyboards, NEW combos, combos \in Seq(Text)
  PROVE  /\ CheckForHotkey(combos) = 0 =>
              \A h \in DOMAIN Hotkeys, i \in DOMAIN combos :
                ~Matches(Hotkeys[h].spelling, combos[i])
         /\ CheckForHotkey(combos) # 0 =>
              /\ CheckForHotkey(combos) \in DOMAIN Hotkeys
              /\ \E i \in DOMAIN combos :
                   Matches(Hotkeys[CheckForHotkey(combos)].spelling, combos[i])
<1> DEFINE hits == {x \in (DOMAIN combos) \X (DOMAIN Hotkeys) :
                      Matches(Hotkeys[x[2]].spelling, combos[x[1]])}
           First(x) == \A y \in hits : x[1] < y[1] \/ (x[1] = y[1] /\ x[2] <= y[2])
<1>1. DOMAIN Hotkeys \subseteq Nat \ {0} /\ DOMAIN combos \subseteq Nat
  <2>1. PICK S : Hotkeys \in Seq(S)  BY KeyboardsAssumption DEF Hotkeys
  <2>2. DOMAIN Hotkeys = 1 .. Len(Hotkeys) /\ DOMAIN combos = 1 .. Len(combos)  BY <2>1
  <2>3. QED  BY <2>2
<1>2. CheckForHotkey(combos) = IF hits = {} THEN 0 ELSE (CHOOSE x \in hits : First(x))[2]
  BY Zenon DEF CheckForHotkey
<1>3. CASE hits = {}
  <2>1. CheckForHotkey(combos) = 0  BY <1>2, <1>3
  <2>2. ASSUME NEW h \in DOMAIN Hotkeys, NEW i \in DOMAIN combos,
               Matches(Hotkeys[h].spelling, combos[i])
        PROVE  FALSE
    <3>1. <<i, h>> \in (DOMAIN combos) \X (DOMAIN Hotkeys)
          /\ <<i, h>>[1] = i /\ <<i, h>>[2] = h
      OBVIOUS
    <3>2. <<i, h>> \in hits  BY <2>2, <3>1, Zenon
    <3> HIDE DEF hits
    <3>3. QED  BY <1>3, <3>2
  <2>3. QED  BY <2>1, <2>2
<1>4. CASE hits # {}
  <2>1. \A x \in hits : /\ x[1] \in DOMAIN combos /\ x[2] \in DOMAIN Hotkeys
                        /\ Matches(Hotkeys[x[2]].spelling, combos[x[1]])
    OBVIOUS
  <2> HIDE DEF hits
  <2> DEFINE I == {x[1] : x \in hits}
  <2>2. PICK i \in I : \A j \in I : i <= j
    <3>1. I # {} /\ I \in SUBSET Nat  BY <1>1, <1>4, <2>1
    <3> HIDE DEF I
    <3>2. QED  BY <3>1, LeastNatural
  <2> DEFINE H == {x[2] : x \in {y \in hits : y[1] = i}}
  <2>3. PICK h \in H : \A g \in H : h <= g
    <3>1. H # {} /\ H \in SUBSET Nat  BY <1>1, <2>1
    <3> HIDE DEF H
    <3>2. QED  BY <3>1, LeastNatural
  <2>4. PICK x \in hits : x[1] = i /\ x[2] = h  OBVIOUS
  <2>5. First(x)
    <3> SUFFICES ASSUME NEW y \in hits
                 PROVE  x[1] < y[1] \/ (x[1] = y[1] /\ x[2] <= y[2])
      OBVIOUS
    <3>1. x[1] \in Nat /\ y[1] \in Nat /\ x[1] <= y[1]  BY <1>1, <2>1, <2>2, <2>4
    <3>2. x[1] = y[1] => x[2] <= y[2]  BY <2>3, <2>4
    <3>3. QED  BY <3>1, <3>2
  <2> HIDE DEF First
  <2>6. (CHOOSE z \in hits : First(z)) \in hits  BY <2>5, Zenon
  <2>7. CheckForHotkey(combos) \in DOMAIN Hotkeys
        /\ \E j \in DOMAIN combos :
             Matches(Hotkeys[CheckForHotkey(combos)].spelling, combos[j])
    BY <1>2, <1>4, <2>1, <2>6
  <2>8. QED  BY <1>1, <2>7
<1>5. QED  BY <1>3, <1>4

\* What is posted is a hotkey of the config that a candidate matches, and whose
\* type asks for the event.
LEMMA Posted ==
  ASSUME keyboard \in Keyboards, NEW combos \in Seq(Text), NEW value \in {0, 1}
  PROVE  /\ Post(combos, value) \in Message \cup {NoMessage}
         /\ Post(combos, value) # NoMessage =>
              /\ Post(combos, value).hotkey \in DOMAIN Hotkeys
              /\ \E i \in DOMAIN combos :
                   Matches(Hotkeys[Post(combos, value).hotkey].spelling, combos[i])
<1> DEFINE h == CheckForHotkey(combos)
           p == Post(combos, value)
<1>1. p = NoMessage \/ (h # 0 /\ p = [hotkey |-> h, value |-> value])
  BY Zenon DEF Post
<1>2. h # 0 => /\ h \in DOMAIN Hotkeys
               /\ \E i \in DOMAIN combos : Matches(Hotkeys[h].spelling, combos[i])
  BY Found
<1> HIDE DEF h, p
<1>3. p \in Message \cup {NoMessage} /\ (p # NoMessage => h # 0 /\ p.hotkey = h)
  BY <1>1, <1>2 DEF Message
<1>4. QED  BY <1>2, <1>3, Zenon DEF p
-----------------------------------------------------------------------------
(* Type correctness.                                                       *)

LEMMA PressTyped ==
  ASSUME keyboard \in Keyboards, NEW k \in DOMAIN KeyMap,
         NEW combos \in Seq(Seq(Alphabet)) \ {<<>>}
  PROVE  Press(combos, k) \in Seq(Seq(Alphabet)) \ {<<>>}
<1> DEFINE sp == KeyMap[k].spellings
           S == {combos[p[1]] \o sp[p[2]] : p \in (DOMAIN combos) \X (DOMAIN sp)}
<1>1. sp \in Seq(Text) \ {<<>>}  BY MapTyped, Zenon DEF KeyMap
<1>2. combos \in Seq(Text) \ {<<>>}  BY TextsOfAlphabet
<1>3. Press(combos, k) \in Seq(S) \ {<<>>}  BY <1>1, <1>2, PressElements
<1>4. S \subseteq Seq(Alphabet)
  <2> SUFFICES ASSUME NEW i \in DOMAIN combos, NEW j \in DOMAIN sp
               PROVE  combos[i] \o sp[j] \in Seq(Alphabet)
    OBVIOUS
  <2>1. combos[i] \in Seq(Alphabet)  OBVIOUS
  <2>2. sp[j] \in Seq(Alphabet)  BY SpellingTyped
  <2> HIDE DEF sp
  <2>3. QED  BY <2>1, <2>2, ConcatProperties
<1> HIDE DEF S
<1>5. QED  BY <1>3, <1>4, SeqMonotonic

LEMMA WithoutTyped ==
  ASSUME keyboard \in Keyboards, NEW w \in Seq(Alphabet), NEW s \in Text
  PROVE  Without(w, s) \in Seq(Alphabet)
<1>1. w \in Text  BY TextsOfAlphabet
<1>2. Without(w, s) \in Text /\ ToSet(Without(w, s)) \subseteq ToSet(w)
  BY <1>1, WithoutText
<1>3. ToSet(w) \subseteq Alphabet  BY DEF ToSet
<1>4. QED  BY <1>2, <1>3, TextsOfAlphabet

LEMMA StripTyped ==
  ASSUME keyboard \in Keyboards, NEW combos \in Seq(Seq(Alphabet)), NEW s \in Text
  PROVE  Strip(combos, s) \in Seq(Seq(Alphabet))
<1>1. combos \in Seq(Text)  BY TextsOfAlphabet
<1>2. Strip(combos, s) \in Seq(Kept(combos, s))  BY <1>1, StripElements
<1>3. Kept(combos, s) \subseteq Seq(Alphabet)
  <2>1. \A i \in DOMAIN combos : combos[i] \in Seq(Alphabet)  OBVIOUS
  <2>2. QED  BY <2>1, WithoutTyped DEF Kept
<1>4. QED  BY <1>2, <1>3, SeqMonotonic

LEMMA ReleaseTyped ==
  ASSUME keyboard \in Keyboards, NEW k \in DOMAIN KeyMap,
         NEW combos \in Seq(Seq(Alphabet)) \ {<<>>}
  PROVE  Release(combos, k) \in Seq(Seq(Alphabet)) \ {<<>>}
<1> DEFINE sp == KeyMap[k].spellings
           X == Seq(Seq(Alphabet))
<1>1. sp \in Seq(Text) /\ Len(sp) \in Nat /\ \A j \in 1 .. Len(sp) : sp[j] \in Text
  BY MapTyped DEF KeyMap
<1>2. combos \in Seq(Text)  BY TextsOfAlphabet
<1>3. CASE ~KeyMap[k].several
  <2>1. sp[1] \in Text  BY <1>1, <1>3, MapTyped DEF KeyMap
  <2>2. Release(combos, k) = WithoutEach(combos, sp[1])  BY <1>3 DEF Release
  <2>3. DOMAIN combos = 1 .. Len(combos) /\ Len(combos) \in Nat /\ Len(combos) > 0
        /\ \A i \in DOMAIN combos : combos[i] \in Seq(Alphabet)
    OBVIOUS
  <2> HIDE DEF sp
  <2>4. \A i \in DOMAIN combos : Without(combos[i], sp[1]) \in Seq(Alphabet)
    BY <2>1, <2>3, WithoutTyped
  <2>5. WithoutEach(combos, sp[1]) \in Seq(Seq(Alphabet))
        /\ Len(WithoutEach(combos, sp[1])) = Len(combos)
    BY <2>3, <2>4 DEF WithoutEach
  <2>6. WithoutEach(combos, sp[1]) # <<>>
    <3> SUFFICES ASSUME WithoutEach(combos, sp[1]) = <<>> PROVE FALSE  OBVIOUS
    <3>1. Len(WithoutEach(combos, sp[1])) = 0  OBVIOUS
    <3>2. QED  BY <2>3, <2>5, <3>1
  <2>7. QED  BY <2>2, <2>5, <2>6
<1>4. CASE KeyMap[k].several
  <2>1. PICK f : /\ f[0] = combos
                 /\ \A j \in 1 .. Len(sp) : f[j] = Strip(f[j - 1], sp[j])
                 /\ StripAll(combos, sp) = f[Len(sp)]
    BY <1>1, <1>2, StripAllDef
  <2> DEFINE T == {j \in 0 .. Len(sp) : f[j] \in X}
  <2> HIDE DEF sp
  <2>2. 0 \in T  BY <1>1, <2>1
  <2>3. ASSUME NEW j \in 1 .. Len(sp), j - 1 \in T PROVE j \in T
    <3>1. Strip(f[j - 1], sp[j]) \in X  BY <1>1, <2>3, StripTyped
    <3>2. QED  BY <2>1, <3>1
  <2>4. Len(sp) \in T
    <3> HIDE DEF T
    <3>1. \A j \in 0 .. Len(sp) : j \in T  BY <1>1, <2>2, <2>3, BoundedInduction
    <3>2. QED  BY <1>1, <3>1
  <2>5. StripAll(combos, sp) \in X  BY <2>1, <2>4
  <2>6. Release(combos, k) \in {StripAll(combos, sp), << <<>> >>}
        /\ Release(combos, k) # <<>>
    <3>1. << <<>> >> # <<>>  OBVIOUS
    <3>2. QED  BY <1>4, <3>1, Zenon DEF Release, sp
  <2>7. << <<>> >> \in X  OBVIOUS
  <2>8. QED  BY <2>5, <2>6, <2>7
<1>5. QED  BY <1>3, <1>4

\* What the watcher keeps has the types that its code relies on, whatever the
\* keyboard: there is always a candidate (change_key_state), and what is posted is
\* a hotkey of the config (check_for_hotkey).
THEOREM TypeCorrect == Spec => []TypeOK
<1>1. Init => TypeOK
  <2> SUFFICES ASSUME Init PROVE TypeOK  OBVIOUS
  <2>1. << <<>> >> \in Seq(Seq(Alphabet)) /\ << <<>> >> # <<>>  OBVIOUS
  <2>2. QED  BY <2>1 DEF Init, TypeOK
<1>2. TypeOK /\ [Next]_vars => TypeOK'
  <2> SUFFICES ASSUME TypeOK, [Next]_vars PROVE TypeOK'  OBVIOUS
  <2>1. CASE UNCHANGED vars
    BY <2>1 DEF TypeOK, vars, Message, Hotkeys, Keys, Alphabet, Spellings, KeyMap
  <2>2. ASSUME Next PROVE TypeOK'
    <3>1. /\ keyboard' = keyboard
          /\ Alphabet' = Alphabet /\ Message' = Message /\ Keys' = Keys
          /\ keyboard \in Keyboards
      BY <2>2 DEF Next, TypeOK, Message, Hotkeys, Keys, Alphabet, Spellings, KeyMap
    <3>2. keys \in Seq(Text)  BY TextsOfAlphabet DEF TypeOK
    <3>3. ASSUME Start PROVE TypeOK'
      <4>1. << <<>> >> \in Seq(Seq(Alphabet)) /\ << <<>> >> # <<>>  OBVIOUS
      <4>2. QED  BY <3>1, <3>3, <4>1 DEF Start, TypeOK, NoMessage
    <3>4. ASSUME Stop PROVE TypeOK'  BY <3>1, <3>4 DEF Stop, TypeOK, NoMessage
    <3>5. ASSUME NEW k \in Keys, KeyDown(k) PROVE TypeOK'
      <4>1. held' \subseteq Keys' /\ missed' \subseteq held' /\ running' \in BOOLEAN
        BY <3>1, <3>5 DEF KeyDown, Ignored, DownDies, Dies, TypeOK
      <4>2. CASE UNCHANGED keys /\ sent' = NoMessage
        BY <3>1, <4>1, <4>2 DEF TypeOK, NoMessage
      <4>3. CASE k \notin Unspelled /\ keys' = Press(keys, k) /\ sent' = Post(keys', 1)
        <5>1. k \in DOMAIN KeyMap  BY <4>3 DEF Unspelled
        <5>2. keys' \in Seq(Seq(Alphabet)) \ {<<>>}
          BY <3>1, <4>3, <5>1, PressTyped DEF TypeOK
        <5>3. keys' \in Seq(Text)  BY <3>1, <5>2, TextsOfAlphabet
        <5>4. sent' \in Message \cup {NoMessage}  BY <3>1, <4>3, <5>3, Posted
        <5>5. QED  BY <3>1, <4>1, <5>2, <5>4 DEF TypeOK, NoMessage
      <4>4. QED  BY <3>5, <4>2, <4>3 DEF KeyDown, Ignored, DownDies, Dies
    <3>6. ASSUME NEW k \in Keys, KeyRepeat(k) PROVE TypeOK'
      BY <3>1, <3>6 DEF KeyRepeat, TypeOK, NoMessage
    <3>7. ASSUME NEW k \in Keys, KeyUp(k) PROVE TypeOK'
      <4>1. held' \subseteq Keys' /\ missed' \subseteq held' /\ running' \in BOOLEAN
        BY <3>1, <3>7 DEF KeyUp, Ignored, UpDies, Dies, TypeOK
      <4>2. CASE UNCHANGED keys /\ sent' \in {NoMessage, Post(keys, 0)}
        <5>1. sent' \in Message \cup {NoMessage}  BY <3>1, <3>2, <4>2, Posted
        <5>2. QED  BY <3>1, <4>1, <4>2, <5>1 DEF TypeOK, NoMessage
      <4>3. CASE k \notin Unspelled /\ keys' = Release(keys, k) /\ sent' = Post(keys, 0)
        <5>1. k \in DOMAIN KeyMap  BY <4>3 DEF Unspelled
        <5>2. keys' \in Seq(Seq(Alphabet)) \ {<<>>}
          BY <3>1, <4>3, <5>1, ReleaseTyped DEF TypeOK
        <5>3. sent' \in Message \cup {NoMessage}  BY <3>1, <3>2, <4>3, Posted
        <5>4. QED  BY <3>1, <4>1, <5>2, <5>3 DEF TypeOK, NoMessage
      <4>4. QED  BY <3>7, <4>2, <4>3 DEF KeyUp, Ignored, UpDies, Dies
    <3>8. QED  BY <2>2, <3>3, <3>4, <3>5, <3>6, <3>7 DEF Next
  <2>3. QED  BY <2>1, <2>2
<1>3. QED  BY <1>1, <1>2, PTL DEF Spec
-----------------------------------------------------------------------------
(* A candidate is made of the spellings of keys, one for each, laid side   *)
(* by side in some order: nm gives the spelling of a key and pos its place.*)

Layout(c, D, nm, pos) ==
  /\ nm \in [D -> Text] /\ pos \in [D -> Nat \ {0}]
  /\ \A k \in D : nm[k] \in ToSet(KeyMap[k].spellings) /\ StandsAt(nm[k], c, pos[k])
  /\ \A k, l \in D :
       k = l \/ pos[k] + Len(nm[k]) <= pos[l] \/ pos[l] + Len(nm[l]) <= pos[k]
  /\ \A i \in 1 .. Len(c) : \E k \in D : pos[k] <= i /\ i < pos[k] + Len(nm[k])

Composed(c, D) == \E nm, pos : Layout(c, D, nm, pos)

LEMMA EmptyComposed ==
  /\ Composed(<<>>, {})
  /\ \A c \in Text : Composed(c, {}) => c = <<>>
<1>1. Composed(<<>>, {})
  <2> DEFINE e == [k \in {} |-> <<>>]
  <2>1. e \in [{} -> Text] /\ e \in [{} -> Nat \ {0}] /\ 1 .. Len(<<>>) = {}  OBVIOUS
  <2> HIDE DEF e
  <2>2. Layout(<<>>, {}, e, e)  BY <2>1 DEF Layout
  <2>3. QED  BY <2>2 DEF Composed
<1>2. ASSUME NEW c \in Text, Composed(c, {}) PROVE c = <<>>
  <2>1. 1 .. Len(c) = {} /\ Len(c) \in Nat  BY <1>2 DEF Composed, Layout, Text
  <2>2. Len(c) = 0  BY <2>1
  <2>3. QED  BY <2>2 DEF Text
<1>3. QED  BY <1>1, <1>2

\* A press adds the spelling of its key at the end.
LEMMA ComposedPress ==
  ASSUME NEW c \in Text, NEW D, NEW k, k \notin D, Composed(c, D),
         NEW s \in Text, s \in ToSet(KeyMap[k].spellings)
  PROVE  Composed(c \o s, D \cup {k})
<1>1. PICK nm, pos : Layout(c, D, nm, pos)  BY DEF Composed
<1> DEFINE d == c \o s
           nm2 == [l \in D \cup {k} |-> IF l = k THEN s ELSE nm[l]]
           pos2 == [l \in D \cup {k} |-> IF l = k THEN Len(c) + 1 ELSE pos[l]]
<1>2. /\ Len(c) \in Nat /\ Len(s) \in Nat /\ Len(d) = Len(c) + Len(s)
      /\ \A i \in 1 .. Len(c) : d[i] = c[i]
      /\ \A j \in 1 .. Len(s) : d[Len(c) + j] = s[j]
  <2>1. c \in Seq(Char) /\ s \in Seq(Char)  BY DEF Text
  <2>2. QED  BY <2>1
<1>3. \A l \in D : /\ nm[l] \in Text /\ Len(nm[l]) \in Nat
                   /\ pos[l] \in Nat \ {0}
                   /\ nm[l] \in ToSet(KeyMap[l].spellings)
                   /\ pos[l] + Len(nm[l]) <= Len(c) + 1
                   /\ \A j \in 1 .. Len(nm[l]) : c[pos[l] + j - 1] = nm[l][j]
  BY <1>1 DEF Layout, StandsAt, Text
<1>4. \A l \in D : nm2[l] = nm[l] /\ pos2[l] = pos[l]  OBVIOUS
<1>5. nm2[k] = s /\ pos2[k] = Len(c) + 1  OBVIOUS
<1>6. nm2 \in [D \cup {k} -> Text] /\ pos2 \in [D \cup {k} -> Nat \ {0}]
  BY <1>2, <1>3
<1> HIDE DEF nm2, pos2, d
<1>7. ASSUME NEW l \in D \cup {k}
      PROVE  nm2[l] \in ToSet(KeyMap[l].spellings) /\ StandsAt(nm2[l], d, pos2[l])
  <2>1. CASE l = k
    <3>1. \A j \in 1 .. Len(s) : Len(c) + 1 + j - 1 = Len(c) + j  BY <1>2
    <3>2. \A j \in 1 .. Len(s) : d[Len(c) + 1 + j - 1] = s[j]  BY <1>2, <3>1
    <3>3. Len(c) + 1 + Len(s) <= Len(d) + 1  BY <1>2
    <3>4. StandsAt(s, d, Len(c) + 1)  BY <3>2, <3>3 DEF StandsAt
    <3>5. QED  BY <1>5, <2>1, <3>4
  <2>2. CASE l \in D
    <3>1. \A j \in 1 .. Len(nm[l]) : pos[l] + j - 1 \in 1 .. Len(c)
      BY <1>2, <1>3, <2>2
    <3>2. \A j \in 1 .. Len(nm[l]) : d[pos[l] + j - 1] = nm[l][j]
      BY <1>2, <1>3, <2>2, <3>1
    <3>3. pos[l] + Len(nm[l]) <= Len(d) + 1  BY <1>2, <1>3, <2>2
    <3>4. QED  BY <1>3, <1>4, <2>2, <3>2, <3>3 DEF StandsAt
  <2>3. QED  BY <2>1, <2>2
<1>8. \A i, l \in D \cup {k} :
        i = l \/ pos2[i] + Len(nm2[i]) <= pos2[l] \/ pos2[l] + Len(nm2[l]) <= pos2[i]
  BY <1>1, <1>3, <1>4, <1>5 DEF Layout
<1>9. ASSUME NEW i \in 1 .. Len(d)
      PROVE  \E l \in D \cup {k} : pos2[l] <= i /\ i < pos2[l] + Len(nm2[l])
  <2>1. CASE i <= Len(c)
    <3>1. i \in 1 .. Len(c)  BY <1>2, <2>1
    <3>2. PICK l \in D : pos[l] <= i /\ i < pos[l] + Len(nm[l])
      BY <1>1, <3>1 DEF Layout
    <3>3. QED  BY <1>4, <3>2
  <2>2. CASE i > Len(c)
    <3>1. pos2[k] <= i /\ i < pos2[k] + Len(nm2[k])  BY <1>2, <1>5, <2>2
    <3>2. QED  BY <3>1
  <2>3. QED  BY <1>2, <2>1, <2>2
<1>10. Layout(d, D \cup {k}, nm2, pos2)  BY <1>6, <1>7, <1>8, <1>9 DEF Layout
<1>11. QED  BY <1>10 DEF Composed, d

LEMMA Overhang ==
  ASSUME NEW p \in Nat \ {0}, NEW lt \in Nat, NEW ls \in Nat, NEW lc \in Nat,
         NEW m \in 1 .. lt, m + ls - 1 > lt, NEW i \in Nat, i = p + m - 1, i + ls <= lc + 1
  PROVE  /\ p + lt \in 1 .. lc /\ lt - m + 2 \in 1 .. ls
         /\ i + (lt - m + 2) - 1 = p + lt
OBVIOUS

LEMMA NextBlock ==
  ASSUME NEW p \in Nat \ {0}, NEW lt \in Nat \ {0}, NEW q \in Nat \ {0}, NEW lq \in Nat,
         q <= p + lt, p + lt < q + lq, q + lq <= p \/ p + lt <= q
  PROVE  q = p + lt /\ 1 \in 1 .. lq
OBVIOUS

\* Where keys can be told apart, a spelling is found only where its key is spelled.
LEMMA Located ==
  ASSUME Apart(keyboard), NEW c \in Text, NEW D, NEW nm, NEW pos,
         D \subseteq DOMAIN KeyMap, Layout(c, D, nm, pos),
         NEW k \in DOMAIN KeyMap, NEW s \in Text, s \in ToSet(KeyMap[k].spellings),
         NEW i \in 1 .. Len(c), StandsAt(s, c, i)
  PROVE  /\ k \in D
         /\ s = KeyMap[k].spellings[1] => nm[k] = s /\ pos[k] = i
<1>1. PICK l \in D : pos[l] <= i /\ i < pos[l] + Len(nm[l])  BY DEF Layout
<1> DEFINE t == nm[l]
           m == i - pos[l] + 1
<1>2. /\ t \in Text /\ t \in ToSet(KeyMap[l].spellings) /\ Len(t) \in Nat
      /\ pos[l] \in Nat \ {0} /\ Len(c) \in Nat /\ Len(s) \in Nat
      /\ \A j \in 1 .. Len(t) : c[pos[l] + j - 1] = t[j]
      /\ DOMAIN t = 1 .. Len(t)
  BY DEF Layout, StandsAt, Text
<1> HIDE DEF t
<1>3. m \in DOMAIN t  BY <1>1, <1>2 DEF t
<1>4. Meets(s, t, m)
  <2> SUFFICES ASSUME NEW j \in 1 .. Len(s), m + j - 1 <= Len(t)
               PROVE  t[m + j - 1] = s[j]
    BY DEF Meets
  <2>1. m + j - 1 \in 1 .. Len(t)
    <3>1. m \in 1 .. Len(t) /\ Len(t) \in Nat /\ Len(s) \in Nat  BY <1>2, <1>3
    <3> HIDE DEF m
    <3>2. QED  BY <3>1
  <2>2. c[pos[l] + (m + j - 1) - 1] = t[m + j - 1]  BY <1>2, <2>1
  <2>3. pos[l] + (m + j - 1) - 1 = i + j - 1  BY <1>2
  <2>4. c[i + j - 1] = s[j]  BY DEF StandsAt
  <2>5. QED  BY <2>2, <2>3, <2>4
<1>5. k = l /\ (s = KeyMap[k].spellings[1] => t = s /\ m = 1)
  <2>1. ASSUME m + Len(s) - 1 > Len(t),
               \A q \in DOMAIN KeyMap : \A u \in ToSet(KeyMap[q].spellings) :
                 u[1] # s[Len(t) - m + 2]
        PROVE  FALSE
    <3> DEFINE x == pos[l] + Len(t)
    <3>1. /\ x \in 1 .. Len(c) /\ Len(t) - m + 2 \in 1 .. Len(s)
          /\ i + (Len(t) - m + 2) - 1 = x
      <4>1. i + Len(s) <= Len(c) + 1 /\ i \in Nat  BY DEF StandsAt
      <4>2. m \in 1 .. Len(t) /\ m + Len(s) - 1 > Len(t)  BY <1>2, <1>3, <2>1
      <4>3. i = pos[l] + m - 1  BY <1>2, <4>1
      <4> DEFINE p == pos[l]
                 lt == Len(t)
                 ls == Len(s)
                 lc == Len(c)
      <4>4. /\ p \in Nat \ {0} /\ lt \in Nat /\ ls \in Nat /\ lc \in Nat /\ i \in Nat
            /\ m \in 1 .. lt /\ m + ls - 1 > lt /\ i = p + m - 1 /\ i + ls <= lc + 1
        BY <1>2, <4>1, <4>2, <4>3
      <4> HIDE DEF m, p, lt, ls, lc
      <4>5. /\ p + lt \in 1 .. lc /\ lt - m + 2 \in 1 .. ls
            /\ i + (lt - m + 2) - 1 = p + lt
        BY <4>4, Overhang
      <4>6. QED  BY <4>5 DEF p, lt, ls, lc
    <3>2. c[x] = s[Len(t) - m + 2]
      <4> HIDE DEF x, m
      <4>1. c[i + (Len(t) - m + 2) - 1] = s[Len(t) - m + 2]  BY <3>1 DEF StandsAt
      <4>2. QED  BY <3>1, <4>1
    <3>3. PICK q \in D : pos[q] <= x /\ x < pos[q] + Len(nm[q])  BY <3>1 DEF Layout
    <3>4. /\ pos[q] \in Nat \ {0} /\ nm[q] \in Text /\ Len(nm[q]) \in Nat
          /\ nm[q] \in ToSet(KeyMap[q].spellings) /\ q \in DOMAIN KeyMap
          /\ \A j \in 1 .. Len(nm[q]) : c[pos[q] + j - 1] = nm[q][j]
      BY DEF Layout, StandsAt, Text
    <3>5. q = l \/ pos[q] + Len(nm[q]) <= pos[l] \/ pos[l] + Len(t) <= pos[q]
      BY DEF Layout, t
    <3>6. pos[q] = x /\ 1 \in 1 .. Len(nm[q])
      <4>1. Len(t) \in Nat \ {0}  BY <1>2, <1>3
      <4>2. q # l  BY <1>2, <3>3 DEF t
      <4> HIDE DEF m
      <4>3. pos[q] + Len(nm[q]) <= pos[l] \/ pos[l] + Len(t) <= pos[q]  BY <3>5, <4>2
      <4>4. QED  BY <1>2, <3>3, <3>4, <4>1, <4>3, NextBlock
    <3>7. nm[q][1] = c[x]
      <4> HIDE DEF x
      <4>1. c[pos[q] + 1 - 1] = nm[q][1]  BY <3>4, <3>6
      <4>2. pos[q] + 1 - 1 = x  BY <3>4, <3>6
      <4>3. QED  BY <4>1, <4>2
    <3>8. QED  BY <2>1, <3>2, <3>4, <3>7
  <2>2. \/ k = l /\ (s = KeyMap[k].spellings[1] => t = s /\ m = 1)
        \/ /\ m + Len(s) - 1 > Len(t)
           /\ \A q \in DOMAIN KeyMap : \A u \in ToSet(KeyMap[q].spellings) :
                u[1] # s[Len(t) - m + 2]
    <3>1. l \in DOMAIN KeyMap  BY <1>1
    <3> HIDE DEF m
    <3>2. QED  BY <1>2, <1>3, <1>4, <3>1 DEF Apart, KeyMap
  <2>3. QED  BY <2>1, <2>2
<1>6. m = 1 => pos[l] = i  BY <1>2
<1>7. QED  BY <1>5, <1>6 DEF t

LEMMA FirstSpelling ==
  ASSUME keyboard \in Keyboards, Apart(keyboard), NEW k \in DOMAIN KeyMap
  PROVE  /\ KeyMap[k].spellings[1] \in Text
         /\ KeyMap[k].spellings[1] \in ToSet(KeyMap[k].spellings)
         /\ <<>> \notin ToSet(KeyMap[k].spellings)
         /\ ToSet(KeyMap[k].spellings) \subseteq Text
<1> DEFINE sp == KeyMap[k].spellings
<1>1. sp \in Seq(Text) /\ sp # <<>>  BY MapTyped DEF KeyMap
<1>2. <<>> \notin ToSet(sp)  BY DEF Apart, KeyMap
<1> HIDE DEF sp
<1>3. 1 \in DOMAIN sp /\ \A j \in DOMAIN sp : sp[j] \in Text  BY <1>1
<1>4. QED  BY <1>2, <1>3 DEF ToSet, sp

LEMMA Shifted ==
  ASSUME NEW a \in Nat, NEW b \in Nat, NEW m \in Nat, NEW n \in Nat, a + m <= b
  PROVE  (a - n) + m <= b - n
OBVIOUS

\* A release takes the spelling of its key out of a candidate that holds it, and
\* leaves the others side by side.
LEMMA Removed ==
  ASSUME keyboard \in Keyboards, Apart(keyboard),
         NEW c \in Text, NEW D, NEW nm, NEW pos,
         D \subseteq DOMAIN KeyMap, Layout(c, D, nm, pos),
         NEW k \in D, nm[k] = KeyMap[k].spellings[1]
  PROVE  Composed(Without(c, nm[k]), D \ {k})
<1> DEFINE s == nm[k]
           n == Len(s)
           p == pos[k]
           L == Len(c)
<1>1. \A l \in D : /\ nm[l] \in Text /\ Len(nm[l]) \in Nat /\ Len(nm[l]) > 0
                   /\ pos[l] \in Nat \ {0}
                   /\ nm[l] \in ToSet(KeyMap[l].spellings)
                   /\ pos[l] + Len(nm[l]) <= Len(c) + 1
                   /\ \A j \in 1 .. Len(nm[l]) : c[pos[l] + j - 1] = nm[l][j]
  <2> SUFFICES ASSUME NEW l \in D
               PROVE  /\ nm[l] \in Text /\ Len(nm[l]) \in Nat /\ Len(nm[l]) > 0
                      /\ pos[l] \in Nat \ {0}
                      /\ nm[l] \in ToSet(KeyMap[l].spellings)
                      /\ pos[l] + Len(nm[l]) <= Len(c) + 1
                      /\ \A j \in 1 .. Len(nm[l]) : c[pos[l] + j - 1] = nm[l][j]
    OBVIOUS
  <2>1. nm[l] \in Text /\ nm[l] \in ToSet(KeyMap[l].spellings) /\ pos[l] \in Nat \ {0}
        /\ StandsAt(nm[l], c, pos[l])
    BY DEF Layout
  <2>2. nm[l] # <<>>  BY <2>1, FirstSpelling
  <2>3. Len(nm[l]) \in Nat /\ Len(nm[l]) > 0  BY <2>1, <2>2 DEF Text
  <2>4. QED  BY <2>1, <2>3 DEF StandsAt
<1>2. L \in Nat /\ p \in 1 .. L /\ n \in Nat /\ n > 0 /\ p + n <= L + 1
  <2>1. L \in Nat  BY DEF Text
  <2>2. QED  BY <1>1, <2>1
<1>3. StandsAt(s, c, p)  BY DEF Layout
<1>4. \A i \in 1 .. L : StandsAt(s, c, i) => i = p
  <2> SUFFICES ASSUME NEW i \in 1 .. L, StandsAt(s, c, i) PROVE i = p  OBVIOUS
  <2>1. s \in Text /\ s \in ToSet(KeyMap[k].spellings)  BY <1>1
  <2>2. QED  BY <2>1, Located
<1>5. Without(c, s) = Rest(c, n, p)
  <2>1. s \in Text  BY <1>1
  <2>2. s # <<>>  BY <1>2
  <2> HIDE DEF s, p
  <2>3. QED  BY <1>2, <1>3, <1>4, <2>1, <2>2, WithoutUnique
<1> DEFINE d == Rest(c, n, p)
           E == D \ {k}
           nm2 == [l \in E |-> nm[l]]
           pos2 == [l \in E |-> IF pos[l] < p THEN pos[l] ELSE pos[l] - n]
<1>6. Len(d) = L - n /\ \A q \in 1 .. L - n : d[q] = IF q < p THEN c[q] ELSE c[q + n]
  <2> HIDE DEF n, p
  <2>1. L - n \in Nat  BY <1>2
  <2>2. QED  BY <2>1 DEF Rest
<1>7. \A l \in E : \/ pos[l] < p /\ pos[l] + Len(nm[l]) <= p /\ pos2[l] = pos[l]
                   \/ pos[l] >= p + n /\ pos2[l] = pos[l] - n
  <2>1. \A l \in E : p + n <= pos[l] \/ pos[l] + Len(nm[l]) <= p  BY DEF Layout
  <2>2. \A l \in E : pos2[l] = IF pos[l] < p THEN pos[l] ELSE pos[l] - n  OBVIOUS
  <2>3. \A l \in E : pos[l] \in Nat /\ Len(nm[l]) \in Nat /\ Len(nm[l]) > 0
    BY <1>1
  <2>4. p \in Nat /\ n \in Nat /\ n > 0  BY <1>2
  <2> HIDE DEF pos2, n, p, E
  <2>5. SUFFICES ASSUME NEW l \in E
                 PROVE  \/ pos[l] < p /\ pos[l] + Len(nm[l]) <= p /\ pos2[l] = pos[l]
                        \/ pos[l] >= p + n /\ pos2[l] = pos[l] - n
    OBVIOUS
  <2>6. QED  BY <2>1, <2>2, <2>3, <2>4
<1>8. \A l \in E : nm2[l] = nm[l]  OBVIOUS
<1>9. nm2 \in [E -> Text] /\ pos2 \in [E -> Nat \ {0}]
  <2>1. \A l \in E : pos2[l] \in Nat \ {0}
    <3> HIDE DEF n, p, pos2
    <3>1. QED  BY <1>1, <1>2, <1>7
  <2>2. nm2 \in [E -> Text]  BY <1>1
  <2>3. pos2 = [l \in E |-> pos2[l]]  OBVIOUS
  <2> HIDE DEF pos2, E
  <2>4. QED  BY <2>1, <2>2, <2>3
<1> HIDE DEF nm2, pos2, d, n, p, L, s
<1>10. ASSUME NEW l \in E
       PROVE  nm2[l] \in ToSet(KeyMap[l].spellings) /\ StandsAt(nm2[l], d, pos2[l])
  <2> DEFINE t == nm[l]
             m == Len(t)
  <2>1. /\ m \in Nat /\ m > 0 /\ pos[l] \in Nat \ {0} /\ pos[l] + m <= L + 1
        /\ \A j \in 1 .. m : c[pos[l] + j - 1] = t[j]
    BY <1>1 DEF L
  <2> HIDE DEF t, m
  <2>2. pos2[l] + m <= Len(d) + 1  BY <1>2, <1>6, <1>7, <2>1 DEF t, m
  <2>3. ASSUME NEW j \in 1 .. m PROVE d[pos2[l] + j - 1] = t[j]
    <3>1. CASE pos[l] < p /\ pos[l] + m <= p /\ pos2[l] = pos[l]
      <4>1. pos[l] + j - 1 \in 1 .. L - n /\ pos[l] + j - 1 < p  BY <1>2, <2>1, <3>1
      <4>2. d[pos[l] + j - 1] = c[pos[l] + j - 1]  BY <1>6, <4>1
      <4>3. QED  BY <2>1, <3>1, <4>2
    <3>2. CASE pos[l] >= p + n /\ pos2[l] = pos[l] - n
      <4>1. /\ (pos[l] - n) + j - 1 \in 1 .. L - n
            /\ ~((pos[l] - n) + j - 1 < p)
            /\ ((pos[l] - n) + j - 1) + n = pos[l] + j - 1
        BY <1>2, <2>1, <3>2
      <4>2. d[(pos[l] - n) + j - 1] = c[pos[l] + j - 1]  BY <1>6, <4>1
      <4>3. QED  BY <2>1, <3>2, <4>2
    <3>3. QED  BY <1>7, <3>1, <3>2 DEF t, m
  <2>4. StandsAt(t, d, pos2[l])  BY <2>2, <2>3 DEF StandsAt, m
  <2>5. QED  BY <1>1, <1>8, <2>4 DEF t
<1>11. ASSUME NEW i \in E, NEW l \in E
       PROVE  \/ i = l
              \/ pos2[i] + Len(nm2[i]) <= pos2[l]
              \/ pos2[l] + Len(nm2[l]) <= pos2[i]
  <2>1. i = l \/ pos[i] + Len(nm[i]) <= pos[l] \/ pos[l] + Len(nm[l]) <= pos[i]
    BY DEF Layout
  <2>2. /\ pos[i] \in Nat /\ pos[l] \in Nat /\ Len(nm[i]) \in Nat /\ Len(nm[l]) \in Nat
        /\ Len(nm[i]) > 0 /\ Len(nm[l]) > 0
    BY <1>1
  <2>3. /\ \/ pos[i] < p /\ pos[i] + Len(nm[i]) <= p /\ pos2[i] = pos[i]
           \/ pos[i] >= p + n /\ pos2[i] = pos[i] - n
        /\ \/ pos[l] < p /\ pos[l] + Len(nm[l]) <= p /\ pos2[l] = pos[l]
           \/ pos[l] >= p + n /\ pos2[l] = pos[l] - n
    BY <1>7
  <2>4. nm2[i] = nm[i] /\ nm2[l] = nm[l]  BY <1>8
  <2>5. CASE pos[i] < p /\ pos[i] + Len(nm[i]) <= p /\ pos2[i] = pos[i]
    BY <1>2, <2>1, <2>2, <2>3, <2>4, <2>5
  <2>6. CASE pos[i] >= p + n /\ pos2[i] = pos[i] - n
    <3>1. CASE pos[l] < p /\ pos[l] + Len(nm[l]) <= p /\ pos2[l] = pos[l]
      <4>1. pos2[l] + Len(nm[l]) <= pos2[i]  BY <1>2, <2>2, <2>6, <3>1
      <4>2. QED  BY <2>4, <4>1
    <3>2. CASE pos[l] >= p + n /\ pos2[l] = pos[l] - n
      <4> n \in Nat  BY <1>2
      <4>1. pos[i] + Len(nm[i]) <= pos[l] => (pos[i] - n) + Len(nm[i]) <= pos[l] - n
        BY <2>2, Shifted
      <4>2. pos[l] + Len(nm[l]) <= pos[i] => (pos[l] - n) + Len(nm[l]) <= pos[i] - n
        BY <2>2, Shifted
      <4>3. QED  BY <2>1, <2>4, <2>6, <3>2, <4>1, <4>2, Zenon
    <3>3. QED  BY <2>3, <3>1, <3>2
  <2>7. QED  BY <2>3, <2>5, <2>6
<1>12. ASSUME NEW q \in 1 .. Len(d)
       PROVE  \E l \in E : pos2[l] <= q /\ q < pos2[l] + Len(nm2[l])
  <2>1. q \in 1 .. L - n  BY <1>6
  <2>2. CASE q < p
    <3>1. q \in 1 .. L  BY <1>2, <2>1
    <3>2. PICK l \in D : pos[l] <= q /\ q < pos[l] + Len(nm[l])
      BY <3>1 DEF Layout, L
    <3>3. l # k /\ pos[l] < p  BY <1>1, <1>2, <2>2, <3>2 DEF p
    <3>4. pos2[l] = pos[l]  BY <1>1, <1>2, <1>7, <3>3
    <3>5. QED  BY <1>8, <3>2, <3>3, <3>4
  <2>3. CASE ~(q < p)
    <3>1. q + n \in 1 .. L  BY <1>2, <2>1
    <3>2. PICK l \in D : pos[l] <= q + n /\ q + n < pos[l] + Len(nm[l])
      BY <3>1 DEF Layout, L
    <3>3. l # k  BY <1>2, <2>1, <2>3, <3>2 DEF p, n, s
    <3>4. pos[l] >= p + n /\ pos2[l] = pos[l] - n
      <4>1. pos[l] \in Nat /\ Len(nm[l]) \in Nat /\ q \in Nat  BY <1>1
      <4>2. \/ pos[l] < p /\ pos[l] + Len(nm[l]) <= p /\ pos2[l] = pos[l]
            \/ pos[l] >= p + n /\ pos2[l] = pos[l] - n
        BY <1>7, <3>3
      <4>3. QED  BY <1>2, <2>3, <3>2, <4>1, <4>2
    <3>5. pos2[l] <= q /\ q < pos2[l] + Len(nm[l])
      <4>1. pos[l] \in Nat /\ Len(nm[l]) \in Nat /\ q \in Nat /\ n \in Nat
        BY <1>1, <1>2, <2>1
      <4>2. pos[l] - n <= q /\ q < (pos[l] - n) + Len(nm[l])  BY <3>2, <4>1
      <4>3. QED  BY <3>4, <4>2
    <3>6. QED  BY <1>8, <3>3, <3>5
  <2>4. QED  BY <2>2, <2>3
<1>13. Layout(d, E, nm2, pos2)  BY <1>9, <1>10, <1>11, <1>12 DEF Layout
<1>14. Composed(d, E)  BY <1>13 DEF Composed
<1>15. QED  BY <1>5, <1>14 DEF d, s

\* No spelling of a key is found in a candidate that does not hold it.
LEMMA Unheld ==
  ASSUME keyboard \in Keyboards, Apart(keyboard),
         NEW c \in Text, NEW D, D \subseteq DOMAIN KeyMap, NEW nm, NEW pos,
         Layout(c, D, nm, pos),
         NEW k \in DOMAIN KeyMap, NEW s \in ToSet(KeyMap[k].spellings), Occurs(s, c)
  PROVE  k \in D /\ (s = KeyMap[k].spellings[1] => nm[k] = s)
<1>1. s \in Text /\ s # <<>>  BY FirstSpelling
<1>2. PICK i \in 1 .. Len(c) + 1 : StandsAt(s, c, i)  BY DEF Occurs
<1>3. Len(s) \in Nat /\ Len(s) > 0 /\ Len(c) \in Nat  BY <1>1 DEF Text
<1>4. i \in 1 .. Len(c)  BY <1>2, <1>3 DEF StandsAt
<1>5. QED  BY <1>1, <1>2, <1>4, Located

\* The candidates spell keys of D, and all of them if each has one spelling.
Spells(combos, D) ==
  \A i \in DOMAIN combos : \E E \in SUBSET D : Composed(combos[i], E) /\ (Single => E = D)

LEMMA PressSpells ==
  ASSUME keyboard \in Keyboards, NEW k \in DOMAIN KeyMap, NEW D, k \notin D,
         NEW combos \in Seq(Text) \ {<<>>}, Spells(combos, D)
  PROVE  Spells(Press(combos, k), D \cup {k})
<1> DEFINE sp == KeyMap[k].spellings
           S == {combos[p[1]] \o sp[p[2]] : p \in (DOMAIN combos) \X (DOMAIN sp)}
<1>1. sp \in Seq(Text) \ {<<>>}  BY MapTyped, Zenon DEF KeyMap
<1>2. Press(combos, k) \in Seq(S)  BY <1>1, PressElements, ZenonT(30)
<1>3. \A w \in S : \E E \in SUBSET (D \cup {k}) : Composed(w, E) /\ (Single => E = D \cup {k})
  <2> SUFFICES ASSUME NEW w \in S
               PROVE  \E E \in SUBSET (D \cup {k}) :
                        Composed(w, E) /\ (Single => E = D \cup {k})
    OBVIOUS
  <2>1. PICK p \in (DOMAIN combos) \X (DOMAIN sp) : w = combos[p[1]] \o sp[p[2]]
    OBVIOUS
  <2>2. p[1] \in DOMAIN combos /\ p[2] \in DOMAIN sp  OBVIOUS
  <2>3. PICK E \in SUBSET D : Composed(combos[p[1]], E) /\ (Single => E = D)
    BY <2>2 DEF Spells
  <2>4. combos[p[1]] \in Text  BY <2>2
  <2>5. sp[p[2]] \in Text /\ sp[p[2]] \in ToSet(sp)
    <3> HIDE DEF sp
    <3>1. QED  BY <1>1, <2>2 DEF ToSet
  <2>6. Composed(w, E \cup {k})  BY <2>1, <2>3, <2>4, <2>5, ComposedPress
  <2>7. QED  BY <2>3, <2>6
<1> HIDE DEF S
<1>4. \A i \in DOMAIN Press(combos, k) : Press(combos, k)[i] \in S  BY <1>2
<1>5. QED  BY <1>3, <1>4, Zenon DEF Spells

LEMMA ReleaseSpells ==
  ASSUME keyboard \in Keyboards, Apart(keyboard), NEW k \in DOMAIN KeyMap,
         NEW D, D \subseteq DOMAIN KeyMap,
         NEW combos \in Seq(Text) \ {<<>>}, Spells(combos, D)
  PROVE  Spells(Release(combos, k), D \ {k})
<1> DEFINE sp == KeyMap[k].spellings
           s == sp[1]
<1>1. sp \in Seq(Text) \ {<<>>} /\ s \in Text /\ s \in ToSet(sp)
  BY MapTyped, FirstSpelling, Zenon DEF KeyMap
<1>2. \A i \in DOMAIN combos : combos[i] \in Text  OBVIOUS
<1>3. CASE ~KeyMap[k].several
  <2> DEFINE after == WithoutEach(combos, s)
  <2>1. Release(combos, k) = after /\ DOMAIN after = DOMAIN combos
        /\ \A i \in DOMAIN combos : after[i] = Without(combos[i], s)
    BY <1>3 DEF Release, WithoutEach
  <2>2. ToSet(sp) = {s}
    <3>1. Len(sp) = 1  BY <1>3, MapTyped DEF KeyMap
    <3> HIDE DEF sp
    <3>2. DOMAIN sp = {1}  BY <1>1, <3>1
    <3>3. QED  BY <3>2 DEF ToSet
  <2>3. ASSUME NEW i \in DOMAIN combos
        PROVE  \E E \in SUBSET (D \ {k}) :
                 Composed(Without(combos[i], s), E) /\ (Single => E = D \ {k})
    <3>1. PICK E \in SUBSET D : Composed(combos[i], E) /\ (Single => E = D)
      BY DEF Spells
    <3>2. PICK nm, pos : Layout(combos[i], E, nm, pos)  BY <3>1 DEF Composed
    <3>3. E \subseteq DOMAIN KeyMap  OBVIOUS
    <3>4. Composed(Without(combos[i], s), E \ {k})
      <4>1. CASE k \in E
        <5>1. nm[k] = s  BY <2>2, <3>2, <4>1 DEF Layout
        <5>2. QED  BY <1>2, <3>2, <3>3, <4>1, <5>1, Removed
      <4>2. CASE k \notin E
        <5>1. ~Occurs(s, combos[i])
          BY <1>1, <1>2, <3>2, <3>3, <4>2, Unheld
        <5>2. Without(combos[i], s) = combos[i]
          BY <1>1, <1>2, <5>1, WithoutAbsent
        <5>3. E \ {k} = E  BY <4>2
        <5>4. QED  BY <3>1, <5>2, <5>3
      <4>3. QED  BY <4>1, <4>2
    <3>5. E \ {k} \in SUBSET (D \ {k}) /\ (Single => E \ {k} = D \ {k})  BY <3>1
    <3>6. QED  BY <3>4, <3>5
  <2> HIDE DEF after, s
  <2>4. QED  BY <2>1, <2>3 DEF Spells
<1>4. CASE KeyMap[k].several
  <2>1. ~Single  BY <1>4 DEF Single
  <2>2. Len(sp) > 1 /\ Len(sp) \in Nat
    <3>1. Len(sp) > 1  BY <1>4 DEF Apart, KeyMap
    <3> HIDE DEF sp
    <3>2. QED  BY <1>1, <3>1
  <2>3. combos \in Seq(Text) /\ sp \in Seq(Text)  BY <1>1
  <2>4. PICK f : /\ f[0] = combos
                 /\ \A j \in 1 .. Len(sp) : f[j] = Strip(f[j - 1], sp[j])
                 /\ StripAll(combos, sp) = f[Len(sp)]
    BY <2>3, StripAllDef
  <2>5. \A j \in 1 .. Len(sp) : sp[j] \in Text /\ sp[j] \in ToSet(sp)
    <3> HIDE DEF sp
    <3>1. QED  BY <1>1 DEF ToSet
  <2>6. f[1] = Strip(combos, s)
    <3>1. 1 \in 1 .. Len(sp) /\ 1 - 1 = 0  BY <2>2
    <3>2. f[1] = Strip(f[1 - 1], sp[1])  BY <2>4, <3>1
    <3>3. QED  BY <2>4, <3>1, <3>2
  <2>7. f[1] \in Seq(Kept(combos, s))
    <3> HIDE DEF s
    <3>1. QED  BY <1>1, <2>3, <2>6, StripElements
  <2>8. ASSUME NEW w \in Kept(combos, s)
        PROVE  w \in Text /\ \E E : /\ E \subseteq DOMAIN KeyMap /\ k \notin E
                                    /\ Composed(w, E)
    <3>1. PICK i \in DOMAIN combos : Occurs(s, combos[i]) /\ w = Without(combos[i], s)
      BY DEF Kept
    <3>2. PICK E \in SUBSET D : Composed(combos[i], E)  BY DEF Spells
    <3>3. PICK nm, pos : Layout(combos[i], E, nm, pos)  BY <3>2 DEF Composed
    <3>4. E \subseteq DOMAIN KeyMap  OBVIOUS
    <3>5. k \in E /\ nm[k] = s  BY <1>1, <1>2, <3>1, <3>3, <3>4, Unheld
    <3>6. Composed(Without(combos[i], s), E \ {k})
      BY <1>2, <3>3, <3>4, <3>5, Removed
    <3>7. w \in Text  BY DEF Kept
    <3>8. QED  BY <3>1, <3>4, <3>6, <3>7
  <2>9. \A w \in Kept(combos, s) : ~Occurs(sp[2], w)
    <3>0. SUFFICES ASSUME NEW w \in Kept(combos, s), Occurs(sp[2], w) PROVE FALSE
      OBVIOUS
    <3>1. PICK E : E \subseteq DOMAIN KeyMap /\ k \notin E /\ Composed(w, E)  BY <2>8
    <3>2. PICK nm, pos : Layout(w, E, nm, pos)  BY <3>1 DEF Composed
    <3>3. w \in Text /\ sp[2] \in ToSet(sp)  BY <2>2, <2>5, <2>8
    <3>4. k \in E  BY <3>0, <3>1, <3>2, <3>3, Unheld
    <3>5. QED  BY <3>1, <3>4
  <2> HIDE DEF s, sp
  <2>10. f[2] = <<>>
    <3>1. 2 \in 1 .. Len(sp) /\ 2 - 1 = 1  BY <2>2
    <3>2. f[2] = Strip(f[2 - 1], sp[2])  BY <2>4, <3>1
    <3>3. f[2] = Strip(f[1], sp[2])  BY <3>1, <3>2
    <3>4. Kept(combos, s) \subseteq Text  BY DEF Kept
    <3>5. f[1] \in Seq(Text)  BY <2>7, <3>4, SeqMonotonic
    <3>6. \A i \in DOMAIN f[1] : f[1][i] \in Kept(combos, s)  BY <2>7
    <3>7. Kept(f[1], sp[2]) = {}  BY <2>9, <3>6 DEF Kept
    <3>8. f[2] \in Seq(Kept(f[1], sp[2]))  BY <2>5, <3>1, <3>3, <3>5, StripElements
    <3>9. QED  BY <3>7, <3>8
  <2> DEFINE T == {j \in 0 .. Len(sp) - 2 : f[j + 2] = <<>>}
  <2>11. 0 \in T  BY <2>2, <2>10
  <2>12. ASSUME NEW j \in 1 .. Len(sp) - 2, j - 1 \in T PROVE j \in T
    <3>1. j + 2 \in 1 .. Len(sp) /\ (j + 2) - 1 = (j - 1) + 2  BY <2>2
    <3>2. f[j + 2] = Strip(f[(j + 2) - 1], sp[j + 2])  BY <2>4, <3>1
    <3>3. f[j + 2] = Strip(<<>>, sp[j + 2])  BY <2>12, <3>1, <3>2
    <3>4. <<>> \in Seq(Text)  OBVIOUS
    <3>5. Kept(<<>>, sp[j + 2]) = {}  BY DEF Kept
    <3>6. sp[j + 2] \in Text  BY <2>5, <3>1
    <3>7. f[j + 2] \in Seq(Kept(<<>>, sp[j + 2]))  BY <3>3, <3>4, <3>6, StripElements
    <3>8. f[j + 2] = <<>>  BY <3>5, <3>7
    <3>9. QED  BY <3>8
  <2>13. f[Len(sp)] = <<>>
    <3>1. Len(sp) - 2 \in Nat  BY <2>2
    <3> HIDE DEF T
    <3>2. \A j \in 0 .. Len(sp) - 2 : j \in T  BY <2>11, <2>12, <3>1, BoundedInduction
    <3>3. Len(sp) - 2 \in T /\ (Len(sp) - 2) + 2 = Len(sp)  BY <2>2, <3>2
    <3>4. QED  BY <3>3 DEF T
  <2>14. Release(combos, k) = << <<>> >>
    BY <1>4, <2>4, <2>13, Zenon DEF Release, sp
  <2>15. DOMAIN << <<>> >> = {1} /\ << <<>> >>[1] = <<>>  OBVIOUS
  <2>16. QED  BY <2>1, <2>14, <2>15, EmptyComposed DEF Spells
<1>5. QED  BY <1>3, <1>4
-----------------------------------------------------------------------------
(* The inductive invariant: the candidates spell the keys down that the    *)
(* watcher has seen go down.                                               *)

Tracked == held \ (missed \cup Unspelled)

ApartKeyboards == {kb \in Keyboards : Apart(kb)}

CandidatesSpell == keyboard \in ApartKeyboards /\ running => Spells(keys, Tracked)

LEMMA TrackedMapped ==
  ASSUME TypeOK
  PROVE  /\ Tracked \subseteq DOMAIN KeyMap
         /\ keys \in Seq(Text) \ {<<>>} /\ keyboard \in Keyboards
<1>1. keys \in Seq(Text) \ {<<>>}  BY TextsOfAlphabet DEF TypeOK
<1>2. QED  BY <1>1 DEF Tracked, Unspelled, Keys, TypeOK

\* What a running watcher does when a key goes down or up.
LEMMA DownStep ==
  ASSUME TypeOK, keyboard' = keyboard, NEW k \in Keys, KeyDown(k), running, running'
  PROVE  /\ k \in DOMAIN KeyMap /\ k \notin Tracked
         /\ keys' = Press(keys, k) /\ sent' = Post(keys', 1)
         /\ Tracked' = Tracked \cup {k}
         /\ held \subseteq held' /\ Seen = Tracked'
<1>1. /\ k \notin held /\ held' = held \cup {k} /\ missed' = missed /\ k \notin Unspelled
      /\ keys' = Press(keys, k) /\ sent' = Post(keys', 1)
  BY DEF KeyDown, Ignored, DownDies, Dies
<1>2. k \in DOMAIN KeyMap  BY <1>1 DEF Unspelled
<1>3. missed \subseteq held  BY DEF TypeOK
<1>4. Unspelled' = Unspelled  BY DEF Unspelled, Keys, KeyMap, MapOf
<1>5. QED  BY <1>1, <1>2, <1>3, <1>4 DEF Tracked, Seen

LEMMA UpStep ==
  ASSUME TypeOK, keyboard' = keyboard, NEW k \in Keys, KeyUp(k), running, running'
  PROVE  /\ k \in DOMAIN KeyMap
         /\ keys' = Release(keys, k) /\ sent' = Post(keys, 0)
         /\ Tracked' = Tracked \ {k}
         /\ ~(held \subseteq held') /\ Seen = Tracked
<1>1. /\ k \in held /\ held' = held \ {k} /\ missed' = missed \ {k} /\ k \notin Unspelled
      /\ keys' = Release(keys, k) /\ sent' = Post(keys, 0)
  BY DEF KeyUp, Ignored, UpDies, Dies
<1>2. k \in DOMAIN KeyMap  BY <1>1 DEF Unspelled
<1>3. Unspelled' = Unspelled  BY DEF Unspelled, Keys, KeyMap, MapOf
<1>4. QED  BY <1>1, <1>2, <1>3 DEF Tracked, Seen

LEMMA EmptySpells ==
  ASSUME NEW D, D = {}
  PROVE  Spells(<< <<>> >>, D)
<1>1. DOMAIN << <<>> >> = {1} /\ << <<>> >>[1] = <<>>  OBVIOUS
<1>2. QED  BY <1>1, EmptyComposed DEF Spells

LEMMA CandidatesSpellStep ==
  ASSUME TypeOK, CandidatesSpell, [Next]_vars
  PROVE  CandidatesSpell'
<1>1. keyboard' = keyboard  BY DEF Next, vars
<1>2. KeyMap' = KeyMap /\ (Single' <=> Single)  BY <1>1 DEF Single, KeyMap, MapOf
<1>3. \A c, E : Composed(c, E) => Composed(c, E)'  BY <1>2 DEF Composed, Layout
<1>4. Spells(keys', Tracked') => Spells(keys, Tracked)'  BY <1>2, <1>3 DEF Spells
<1> SUFFICES ASSUME keyboard \in ApartKeyboards, running' PROVE Spells(keys', Tracked')
  BY <1>1, <1>4 DEF CandidatesSpell
<1>5. Tracked \subseteq DOMAIN KeyMap /\ keys \in Seq(Text) \ {<<>>} /\ keyboard \in Keyboards
      /\ Apart(keyboard)
  BY TrackedMapped DEF ApartKeyboards
<1>6. Unspelled' = Unspelled  BY <1>1, <1>2 DEF Unspelled, Keys
<1>7. CASE UNCHANGED <<running, held, missed, keys>>
  BY <1>6, <1>7 DEF CandidatesSpell, Tracked
<1>8. ASSUME Start PROVE Spells(keys', Tracked')
  <2>1. Tracked' = {} /\ keys' = << <<>> >>  BY <1>8 DEF Start, Tracked
  <2>2. QED  BY <2>1, EmptySpells
<1>9. ASSUME NEW k \in Keys, KeyDown(k) PROVE Spells(keys', Tracked')
  <2>1. running  BY <1>9 DEF KeyDown, Ignored
  <2>2. Spells(keys, Tracked)  BY <2>1 DEF CandidatesSpell
  <2>3. /\ k \in DOMAIN KeyMap /\ k \notin Tracked /\ keys' = Press(keys, k)
        /\ Tracked' = Tracked \cup {k}
    BY <1>1, <1>9, <2>1, DownStep
  <2>4. QED  BY <1>5, <2>2, <2>3, PressSpells
<1>10. ASSUME NEW k \in Keys, KeyRepeat(k) PROVE Spells(keys', Tracked')
  <2>1. UNCHANGED <<running, held, missed, keys>>  BY <1>10 DEF KeyRepeat
  <2>2. QED  BY <1>7, <2>1
<1>11. ASSUME NEW k \in Keys, KeyUp(k) PROVE Spells(keys', Tracked')
  <2>1. running  BY <1>11 DEF KeyUp, Ignored
  <2>2. Spells(keys, Tracked)  BY <2>1 DEF CandidatesSpell
  <2>3. k \in DOMAIN KeyMap /\ keys' = Release(keys, k) /\ Tracked' = Tracked \ {k}
    BY <1>1, <1>11, <2>1, UpStep
  <2>4. QED  BY <1>5, <2>2, <2>3, ReleaseSpells
<1>12. CASE Stop  BY <1>12 DEF Stop
<1>13. CASE UNCHANGED vars  BY <1>7, <1>13 DEF vars
<1>14. QED  BY <1>8, <1>9, <1>10, <1>11, <1>12, <1>13 DEF Next

\* On a keyboard whose keys can be told apart, the candidates spell the keys that are
\* down, whatever the order in which keys go down and up (change_key_state).
THEOREM CandidatesAlwaysSpell == Spec => []CandidatesSpell
<1>1. Init => CandidatesSpell  BY DEF Init, CandidatesSpell
<1>2. TypeOK /\ CandidatesSpell /\ [Next]_vars => CandidatesSpell'
  BY CandidatesSpellStep
<1>3. QED  BY <1>1, <1>2, TypeCorrect, PTL DEF Spec

\* With no key down the watcher remembers none, on keyboards whose keys can be told
\* apart.
THEOREM ReleasedKeysForgottenHolds ==
  ASSUME \A kb \in Keyboards : Apart(kb)
  PROVE  Spec => []ReleasedKeysForgotten
<1>1. TypeOK /\ CandidatesSpell => ReleasedKeysForgotten
  <2> SUFFICES ASSUME TypeOK, CandidatesSpell, running, held = {}
               PROVE  ToSet(keys) = {<<>>}
    BY DEF ReleasedKeysForgotten
  <2>1. keys \in Seq(Text) \ {<<>>} /\ keyboard \in Keyboards  BY TrackedMapped
  <2>2. Tracked = {}  BY DEF Tracked
  <2>3. Spells(keys, {})  BY <2>1, <2>2 DEF CandidatesSpell, ApartKeyboards
  <2>4. ASSUME NEW i \in DOMAIN keys PROVE keys[i] = <<>>
    <3>1. keys[i] \in Text  BY <2>1
    <3>2. Composed(keys[i], {})  BY <2>3 DEF Spells
    <3>3. QED  BY <3>1, <3>2, EmptyComposed
  <2>5. 1 \in DOMAIN keys  BY <2>1
  <2>6. QED  BY <2>4, <2>5 DEF ToSet
<1>2. QED  BY <1>1, TypeCorrect, CandidatesAlwaysSpell, PTL
-----------------------------------------------------------------------------
(* Counting the characters of a candidate.                                 *)

LEMMA Overlap ==
  ASSUME NEW a \in Nat, NEW b \in Nat, NEW m \in Nat, NEW n \in Nat,
         NEW i \in 1 .. m, NEW j \in 1 .. n, a + i - 1 = b + j - 1
  PROVE  ~(a + m <= b) /\ ~(b + n <= a) /\ (a = b => i = j)
OBVIOUS

LEMMA LayoutChars ==
  ASSUME NEW c \in Text, NEW D, NEW nm, NEW pos, Layout(c, D, nm, pos)
  PROVE  /\ \A k \in D : /\ nm[k] \in Text /\ DOMAIN nm[k] = 1 .. Len(nm[k])
                         /\ Len(nm[k]) \in Nat /\ pos[k] \in Nat \ {0}
         /\ \A k \in D, j \in Nat : j \in DOMAIN nm[k] =>
              /\ pos[k] + j - 1 \in DOMAIN c
              /\ c[pos[k] + j - 1] = nm[k][j]
         /\ \A i \in DOMAIN c : \E k \in D :
              i - pos[k] + 1 \in DOMAIN nm[k] /\ c[i] = nm[k][i - pos[k] + 1]
         /\ \A k, l \in D, j, m \in Nat :
              /\ j \in DOMAIN nm[k] /\ m \in DOMAIN nm[l]
              /\ pos[k] + j - 1 = pos[l] + m - 1
              => k = l /\ j = m
<1>1. \A k \in D : /\ nm[k] \in Text /\ DOMAIN nm[k] = 1 .. Len(nm[k])
                   /\ Len(nm[k]) \in Nat /\ pos[k] \in Nat \ {0}
                   /\ pos[k] + Len(nm[k]) <= Len(c) + 1
                   /\ \A j \in 1 .. Len(nm[k]) : c[pos[k] + j - 1] = nm[k][j]
  BY DEF Layout, StandsAt, Text
<1>2. DOMAIN c = 1 .. Len(c) /\ Len(c) \in Nat  BY DEF Text
<1>3. ASSUME NEW k \in D, NEW j \in DOMAIN nm[k]
      PROVE  pos[k] + j - 1 \in DOMAIN c /\ c[pos[k] + j - 1] = nm[k][j]
  <2>1. j \in 1 .. Len(nm[k]) /\ pos[k] \in Nat \ {0} /\ Len(nm[k]) \in Nat
        /\ pos[k] + Len(nm[k]) <= Len(c) + 1
    BY <1>1
  <2>2. pos[k] + j - 1 \in 1 .. Len(c)  BY <1>2, <2>1
  <2>3. c[pos[k] + j - 1] = nm[k][j]  BY <1>1, <2>1
  <2>4. QED  BY <1>2, <2>2, <2>3
<1>4. ASSUME NEW i \in DOMAIN c
      PROVE  \E k \in D : i - pos[k] + 1 \in DOMAIN nm[k] /\ c[i] = nm[k][i - pos[k] + 1]
  <2>1. PICK k \in D : pos[k] <= i /\ i < pos[k] + Len(nm[k])  BY <1>2 DEF Layout
  <2>2. i - pos[k] + 1 \in 1 .. Len(nm[k]) /\ pos[k] + (i - pos[k] + 1) - 1 = i
    BY <1>1, <1>2, <2>1
  <2>3. c[pos[k] + (i - pos[k] + 1) - 1] = nm[k][i - pos[k] + 1]  BY <1>1, <2>2
  <2>4. QED  BY <1>1, <2>2, <2>3
<1>5. ASSUME NEW k \in D, NEW l \in D, NEW j \in DOMAIN nm[k], NEW m \in DOMAIN nm[l],
             pos[k] + j - 1 = pos[l] + m - 1
      PROVE  k = l /\ j = m
  <2>1. k = l \/ pos[k] + Len(nm[k]) <= pos[l] \/ pos[l] + Len(nm[l]) <= pos[k]
    BY DEF Layout
  <2>2. /\ j \in 1 .. Len(nm[k]) /\ m \in 1 .. Len(nm[l])
        /\ pos[k] \in Nat /\ pos[l] \in Nat /\ Len(nm[k]) \in Nat /\ Len(nm[l]) \in Nat
    BY <1>1
  <2>3. /\ ~(pos[k] + Len(nm[k]) <= pos[l]) /\ ~(pos[l] + Len(nm[l]) <= pos[k])
        /\ pos[k] = pos[l] => j = m
    <3> DEFINE a == pos[k]
               b == pos[l]
               u == Len(nm[k])
               v == Len(nm[l])
    <3>1. /\ a \in Nat /\ b \in Nat /\ u \in Nat /\ v \in Nat
          /\ j \in 1 .. u /\ m \in 1 .. v /\ a + j - 1 = b + m - 1
      BY <1>5, <2>2
    <3> HIDE DEF a, b, u, v
    <3>2. ~(a + u <= b) /\ ~(b + v <= a) /\ (a = b => j = m)  BY <3>1, Overlap
    <3>3. QED  BY <3>2 DEF a, b, u, v
  <2>4. k = l  BY <2>1, <2>3
  <2>5. QED  BY <2>3, <2>4
<1>6. \A k \in D : /\ nm[k] \in Text /\ DOMAIN nm[k] = 1 .. Len(nm[k])
                   /\ Len(nm[k]) \in Nat /\ pos[k] \in Nat \ {0}
  BY <1>1
<1>7. \A k \in D, j \in Nat : j \in DOMAIN nm[k] =>
        /\ pos[k] + j - 1 \in DOMAIN c
        /\ c[pos[k] + j - 1] = nm[k][j]
  BY <1>3
<1>8. \A k, l \in D, j, m \in Nat :
        /\ j \in DOMAIN nm[k] /\ m \in DOMAIN nm[l]
        /\ pos[k] + j - 1 = pos[l] + m - 1
        => k = l /\ j = m
  BY <1>5
<1>9. QED  BY <1>4, <1>6, <1>7, <1>8

LEMMA IntervalSize ==
  ASSUME NEW n \in Nat
  PROVE  IsFiniteSet(1 .. n) /\ Cardinality(1 .. n) = n
<1>1. n \in Int /\ 1 \in Int  OBVIOUS
<1>2. IsFiniteSet(1 .. n) /\ Cardinality(1 .. n) = IF 1 > n THEN 0 ELSE n - 1 + 1
  BY <1>1, FS_Interval
<1>3. QED  BY <1>2

\* Where the characters of C stand in a text and in a wording.
Among(c, C) == {i \in DOMAIN c : c[i] \in C}
PlacesAmong(nm, C) == {p \in Places(nm) : nm[p[1]][p[2]] \in C}

LEMMA CountLayout ==
  ASSUME NEW c \in Text, NEW D, NEW nm, NEW pos, Layout(c, D, nm, pos), NEW C
  PROVE  Cardinality(Among(c, C)) = Cardinality(PlacesAmong(nm, C))
<1> DEFINE A == {p \in Places(nm) : nm[p[1]][p[2]] \in C}
           B == {i \in DOMAIN c : c[i] \in C}
           g == [p \in A |-> pos[p[1]] + p[2] - 1]
<1>0. DOMAIN nm = D  BY DEF Layout
<1>1. \A p : p \in Places(nm) <=> /\ p = <<p[1], p[2]>>
                                  /\ p[1] \in D /\ p[2] \in DOMAIN nm[p[1]]
  BY <1>0 DEF Places
<1>2. \A p \in A : /\ p = <<p[1], p[2]>> /\ p[1] \in D /\ p[2] \in DOMAIN nm[p[1]]
                   /\ p[2] \in Nat /\ nm[p[1]][p[2]] \in C
  BY <1>1, LayoutChars
<1>3. g \in [A -> B]
  <2>1. \A p \in A : pos[p[1]] + p[2] - 1 \in B
    <3>1. \A k \in D, j \in Nat : j \in DOMAIN nm[k] =>
            /\ pos[k] + j - 1 \in DOMAIN c
            /\ c[pos[k] + j - 1] = nm[k][j]
      BY LayoutChars
    <3> HIDE DEF A
    <3>2. QED  BY <1>2, <3>1
  <2> HIDE DEF A, B
  <2>2. QED  BY <2>1
<1>4. \A p, q \in A : g[p] = g[q] => p = q
  <2> SUFFICES ASSUME NEW p \in A, NEW q \in A, g[p] = g[q] PROVE p = q  OBVIOUS
  <2>1. pos[p[1]] + p[2] - 1 = pos[q[1]] + q[2] - 1  OBVIOUS
  <2>2. p[1] = q[1] /\ p[2] = q[2]
    <3> HIDE DEF A, g
    <3>1. /\ p[1] \in D /\ p[2] \in Nat /\ p[2] \in DOMAIN nm[p[1]]
          /\ q[1] \in D /\ q[2] \in Nat /\ q[2] \in DOMAIN nm[q[1]]
      BY <1>2
    <3>2. \A k, l \in D, j, m \in Nat :
            /\ j \in DOMAIN nm[k] /\ m \in DOMAIN nm[l]
            /\ pos[k] + j - 1 = pos[l] + m - 1
            => k = l /\ j = m
      BY LayoutChars
    <3>3. QED  BY <2>1, <3>1, <3>2
  <2> HIDE DEF A, g
  <2>3. QED  BY <1>2, <2>2
<1>5. \A i \in B : \E p \in A : g[p] = i
  <2> SUFFICES ASSUME NEW i \in B PROVE \E p \in A : g[p] = i  OBVIOUS
  <2>1. PICK k \in D : i - pos[k] + 1 \in DOMAIN nm[k] /\ c[i] = nm[k][i - pos[k] + 1]
    BY LayoutChars
  <2> DEFINE j == i - pos[k] + 1
  <2>2. <<k, j>>[1] = k /\ <<k, j>>[2] = j  OBVIOUS
  <2>3. <<k, j>> \in A  BY <1>1, <2>1, <2>2
  <2>4. pos[k] + j - 1 = i
    <3>1. pos[k] \in Nat /\ i \in Nat  BY LayoutChars DEF Text
    <3>2. QED  BY <3>1
  <2>5. g[<<k, j>>] = i  BY <2>2, <2>3, <2>4
  <2> HIDE DEF g, A, j
  <2>6. QED  BY <2>3, <2>5
<1> HIDE DEF g, A
<1>6. g \in Bijection(A, B)  BY <1>3, <1>4, <1>5 DEF Bijection, Injection, Surjection, IsInjective
<1>7. ExistsBijection(A, B)  BY <1>6 DEF ExistsBijection
<1>8. ExistsBijection(B, A)  BY <1>7, Fun_ExistsBijSymmetric
<1>9. IsFiniteSet(B)
  <2>1. DOMAIN c = 1 .. Len(c) /\ Len(c) \in Int /\ 1 \in Int  BY DEF Text
  <2>2. IsFiniteSet(DOMAIN c)  BY <2>1, FS_Interval
  <2>3. B \in SUBSET (DOMAIN c)  OBVIOUS
  <2> HIDE DEF B
  <2>4. QED  BY <2>2, <2>3, FS_Subset
<1> HIDE DEF B
<1>10. Cardinality(A) = Cardinality(B)  BY <1>8, <1>9, FS_Bijection
<1>11. QED  BY <1>10 DEF A, B, Among, PlacesAmong

\* The spellings that make up a candidate are a wording of its keys, of the same length
\* and characters.
LEMMA LayoutWording ==
  ASSUME keyboard \in Keyboards, NEW c \in Text, NEW D, D \subseteq DOMAIN KeyMap,
         NEW nm, NEW pos, Layout(c, D, nm, pos)
  PROVE  /\ nm \in Wordings(keyboard, D)
         /\ Characters(nm) = ToSet(c)
         /\ Len(c) = Cardinality(Places(nm))
         /\ \A ch : Count(c, ch) = Cardinality({p \in Places(nm) : nm[p[1]][p[2]] = ch})
<1> DEFINE sp(k) == MapOf(keyboard)[k].spellings
           f == [k \in D |-> CHOOSE j \in DOMAIN sp(k) : sp(k)[j] = nm[k]]
<1>1. nm \in [D -> Text] /\ DOMAIN nm = D  BY DEF Layout
<1>2. ASSUME NEW k \in D PROVE f[k] \in DOMAIN sp(k) /\ sp(k)[f[k]] = nm[k]
  <2>1. nm[k] \in ToSet(sp(k))  BY DEF Layout, KeyMap
  <2>2. \E j \in DOMAIN sp(k) : sp(k)[j] = nm[k]
    <3> HIDE DEF sp
    <3>1. QED  BY <2>1 DEF ToSet
  <2>3. f[k] = CHOOSE j \in DOMAIN sp(k) : sp(k)[j] = nm[k]  OBVIOUS
  <2> HIDE DEF sp, f
  <2>4. QED  BY <2>2, <2>3
<1>3. nm \in Wordings(keyboard, D)
  <2>1. \A k \in D : f[k] \in UNION {DOMAIN sp(k2) : k2 \in D}  BY <1>2
  <2>2. f = [k \in D |-> f[k]]  OBVIOUS
  <2> HIDE DEF f, sp
  <2>3. f \in [D -> UNION {DOMAIN sp(k) : k \in D}]  BY <2>1, <2>2
  <2>4. nm = [k \in D |-> sp(k)[f[k]]]
    <3>1. nm = [k \in D |-> nm[k]]  BY <1>1
    <3>2. QED  BY <1>2, <3>1
  <2>5. f \in {g \in [D -> UNION {DOMAIN sp(k) : k \in D}] : \A k \in D : g[k] \in DOMAIN sp(k)}
    BY <1>2, <2>3
  <2>6. nm \in {[k \in D |-> sp(k)[g[k]]] :
                 g \in {h \in [D -> UNION {DOMAIN sp(k) : k \in D}] :
                          \A k \in D : h[k] \in DOMAIN sp(k)}}
    BY <2>4, <2>5
  <2>7. QED  BY <2>6, Zenon DEF Wordings, sp
<1>4. \A p : p \in Places(nm) <=> /\ p = <<p[1], p[2]>>
                                  /\ p[1] \in D /\ p[2] \in DOMAIN nm[p[1]]
  BY <1>1 DEF Places
<1>5. Characters(nm) = ToSet(c)
  <2>1. ASSUME NEW p \in Places(nm) PROVE nm[p[1]][p[2]] \in ToSet(c)
    <3>1. p[1] \in D /\ p[2] \in DOMAIN nm[p[1]]  BY <1>4
    <3>2. p[2] \in Nat  BY <3>1, LayoutChars
    <3>3. /\ pos[p[1]] + p[2] - 1 \in DOMAIN c
          /\ c[pos[p[1]] + p[2] - 1] = nm[p[1]][p[2]]
      <4> HIDE DEF sp, f
      <4>1. \A k \in D, j \in Nat : j \in DOMAIN nm[k] =>
              /\ pos[k] + j - 1 \in DOMAIN c
              /\ c[pos[k] + j - 1] = nm[k][j]
        BY LayoutChars
      <4>2. QED  BY <3>1, <3>2, <4>1
    <3>4. QED  BY <3>3 DEF ToSet
  <2>2. ASSUME NEW i \in DOMAIN c PROVE c[i] \in Characters(nm)
    <3>1. PICK k \in D : i - pos[k] + 1 \in DOMAIN nm[k] /\ c[i] = nm[k][i - pos[k] + 1]
      BY LayoutChars
    <3> DEFINE j == i - pos[k] + 1
    <3>2. <<k, j>>[1] = k /\ <<k, j>>[2] = j  OBVIOUS
    <3>3. j \in DOMAIN nm[k] /\ c[i] = nm[k][j]  BY <3>1
    <3> HIDE DEF j
    <3>4. <<k, j>> \in Places(nm)  BY <1>4, <3>2, <3>3
    <3>5. c[i] = nm[<<k, j>>[1]][<<k, j>>[2]]  BY <3>2, <3>3
    <3>6. QED  BY <3>4, <3>5 DEF Characters
  <2>3. QED  BY <2>1, <2>2 DEF Characters, ToSet
<1>6. Len(c) = Cardinality(Places(nm))
  <2>1. Among(c, ToSet(c)) = 1 .. Len(c) /\ Len(c) \in Nat  BY DEF Among, ToSet, Text
  <2>2. PlacesAmong(nm, ToSet(c)) = Places(nm)  BY <1>5 DEF Characters, PlacesAmong
  <2>3. Cardinality(Among(c, ToSet(c))) = Cardinality(PlacesAmong(nm, ToSet(c)))
    BY CountLayout
  <2>4. Cardinality(1 .. Len(c)) = Len(c)  BY <2>1, IntervalSize
  <2>5. QED  BY <2>1, <2>2, <2>3, <2>4
<1>7. ASSUME NEW ch
      PROVE  Count(c, ch) = Cardinality({p \in Places(nm) : nm[p[1]][p[2]] = ch})
  <2>1. Among(c, {ch}) = {i \in DOMAIN c : c[i] = ch}  BY DEF Among
  <2>2. PlacesAmong(nm, {ch}) = {p \in Places(nm) : nm[p[1]][p[2]] = ch}
    BY DEF PlacesAmong
  <2>3. Cardinality(Among(c, {ch})) = Cardinality(PlacesAmong(nm, {ch}))  BY CountLayout
  <2>4. QED  BY <2>1, <2>2, <2>3 DEF Count
<1>8. QED  BY <1>3, <1>5, <1>6, <1>7

\* With one spelling for each key, there is one wording.
LEMMA OneWording ==
  ASSUME keyboard \in Keyboards, Single, NEW D, D \subseteq DOMAIN KeyMap,
         NEW nm \in Wordings(keyboard, D)
  PROVE  nm = [k \in D |-> KeyMap[k].spellings[1]]
<1> DEFINE sp(k) == MapOf(keyboard)[k].spellings
<1>1. PICK f : /\ \A k \in D : f[k] \in DOMAIN sp(k)
               /\ nm = [k \in D |-> sp(k)[f[k]]]
  BY Zenon DEF Wordings
<1>2. ASSUME NEW k \in D PROVE f[k] = 1
  <2>1. ~KeyMap[k].several  BY DEF Single
  <2>2. sp(k) \in Seq(Text) /\ Len(sp(k)) = 1  BY <2>1, MapTyped DEF KeyMap
  <2>3. f[k] \in DOMAIN sp(k)  BY <1>1
  <2> HIDE DEF sp
  <2>4. DOMAIN sp(k) = {1}  BY <2>2
  <2>5. QED  BY <2>3, <2>4
<1> HIDE DEF sp
<1>3. nm = [k \in D |-> sp(k)[1]]  BY <1>1, <1>2
<1>4. QED  BY <1>3 DEF sp, KeyMap

\* A text is spelled by the keys of a candidate that has its characters; with one
\* spelling for each key, by no others.
LEMMA SpelledAlike ==
  ASSUME keyboard \in Keyboards, NEW c \in Text, NEW D, D \subseteq DOMAIN KeyMap,
         NEW nm, NEW pos, Layout(c, D, nm, pos), NEW h
  PROVE  /\ SameCharacters(h, nm)
              <=> \A ch \in ToSet(h) \cup ToSet(c) : Count(h, ch) = Count(c, ch)
         /\ SameCharacters(h, nm) => SpelledBy(h, D)
         /\ Single /\ SpelledBy(h, D) => SameCharacters(h, nm)
<1>1. /\ nm \in Wordings(keyboard, D)
      /\ Characters(nm) = ToSet(c)
      /\ \A ch : Count(c, ch) = Cardinality({p \in Places(nm) : nm[p[1]][p[2]] = ch})
  BY LayoutWording
<1>2. SameCharacters(h, nm)
        <=> \A ch \in ToSet(h) \cup ToSet(c) : Count(h, ch) = Count(c, ch)
  BY <1>1 DEF SameCharacters
<1>3. SameCharacters(h, nm) => SpelledBy(h, D)  BY <1>1 DEF SpelledBy
<1>4. ASSUME Single, SpelledBy(h, D) PROVE SameCharacters(h, nm)
  <2>1. PICK nm2 \in Wordings(keyboard, D) : SameCharacters(h, nm2)  BY <1>4 DEF SpelledBy
  <2>2. nm2 = nm  BY <1>1, <1>4, OneWording
  <2>3. QED  BY <2>1, <2>2
<1>5. QED  BY <1>2, <1>3, <1>4

\* With one spelling for each key, every candidate spells all the keys that are down,
\* on keyboards whose keys can be told apart.
THEOREM CandidatesMatchHeldHolds ==
  ASSUME \A kb \in Keyboards : Apart(kb)
  PROVE  Spec => []CandidatesMatchHeld
<1>1. TypeOK /\ CandidatesSpell => CandidatesMatchHeld
  <2> SUFFICES ASSUME TypeOK, CandidatesSpell, running, Single, NEW i \in DOMAIN keys
               PROVE  SpelledBy(keys[i], Tracked)
    BY DEF CandidatesMatchHeld, Tracked
  <2>1. /\ keys \in Seq(Text) \ {<<>>} /\ keyboard \in Keyboards
        /\ Tracked \subseteq DOMAIN KeyMap
    BY TrackedMapped
  <2>2. Spells(keys, Tracked)  BY <2>1 DEF CandidatesSpell, ApartKeyboards
  <2>3. PICK nm, pos : Layout(keys[i], Tracked, nm, pos)  BY <2>2 DEF Spells, Composed
  <2>4. keys[i] \in Text  BY <2>1
  <2>5. QED  BY <2>1, <2>3, <2>4, SpelledAlike
<1>2. QED  BY <1>1, TypeCorrect, CandidatesAlwaysSpell, PTL
-----------------------------------------------------------------------------
(* check_for_hotkey compares lengths and sets of characters.               *)

Sites(w, ch) == {i \in DOMAIN w : w[i] = ch}

LEMMA SitesFinite ==
  ASSUME NEW w \in Text, NEW ch
  PROVE  /\ IsFiniteSet(Sites(w, ch)) /\ Count(w, ch) = Cardinality(Sites(w, ch))
         /\ Count(w, ch) = 0 <=> ch \notin ToSet(w)
<1>1. IsFiniteSet(Sites(w, ch))
  <2>1. DOMAIN w = 1 .. Len(w) /\ Len(w) \in Nat  BY DEF Text
  <2>2. IsFiniteSet(DOMAIN w)  BY <2>1, IntervalSize
  <2>3. Sites(w, ch) \in SUBSET (DOMAIN w)  BY DEF Sites
  <2>4. QED  BY <2>2, <2>3, FS_Subset
<1>2. Sites(w, ch) = {} <=> ch \notin ToSet(w)  BY DEF Sites, ToSet
<1>3. Count(w, ch) = Cardinality(Sites(w, ch))  BY DEF Count, Sites
<1>4. Cardinality(Sites(w, ch)) = 0 <=> Sites(w, ch) = {}  BY <1>1, FS_EmptySet
<1>5. QED  BY <1>1, <1>2, <1>3, <1>4

\* Texts in which every character is as frequent have one length and set of characters.
LEMMA EqualCounts ==
  ASSUME NEW s \in Text, NEW t \in Text,
         \A ch \in ToSet(s) \cup ToSet(t) : Count(s, ch) = Count(t, ch)
  PROVE  Len(s) = Len(t) /\ ToSet(s) = ToSet(t)
<1>1. ToSet(s) = ToSet(t)  BY SitesFinite
<1> DEFINE Pairs(ch) == Bijection(Sites(s, ch), Sites(t, ch))
           b == [ch \in ToSet(s) |-> CHOOSE f : f \in Pairs(ch)]
           g == [i \in DOMAIN s |-> b[s[i]][i]]
<1>2. ASSUME NEW ch \in ToSet(s)
      PROVE  b[ch] \in Bijection(Sites(s, ch), Sites(t, ch))
  <2>1. Cardinality(Sites(s, ch)) = Cardinality(Sites(t, ch))  BY SitesFinite
  <2>2. ExistsBijection(Sites(s, ch), Sites(t, ch))
    BY <2>1, SitesFinite, FS_SameCardinalityBij
  <2>3. \E f : f \in Pairs(ch)  BY <2>2 DEF ExistsBijection
  <2>4. b[ch] = CHOOSE f : f \in Pairs(ch)  OBVIOUS
  <2> HIDE DEF b, Pairs
  <2>5. b[ch] \in Pairs(ch)  BY <2>3, <2>4
  <2>6. QED  BY <2>5 DEF Pairs
<1>3. \A i \in DOMAIN s : s[i] \in ToSet(s) /\ i \in Sites(s, s[i])  BY DEF ToSet, Sites
<1>4. \A i \in DOMAIN s : g[i] = b[s[i]][i]  OBVIOUS
<1> HIDE DEF b
<1>5. \A i \in DOMAIN s : g[i] \in Sites(t, s[i])
  <2> SUFFICES ASSUME NEW i \in DOMAIN s PROVE g[i] \in Sites(t, s[i])  OBVIOUS
  <2>1. b[s[i]] \in [Sites(s, s[i]) -> Sites(t, s[i])]
    BY <1>2, <1>3 DEF Bijection, Injection
  <2>2. QED  BY <1>3, <1>4, <2>1
<1>6. g \in [DOMAIN s -> DOMAIN t]
  <2>1. \A i \in DOMAIN s : g[i] \in DOMAIN t  BY <1>5 DEF Sites
  <2>2. g = [i \in DOMAIN s |-> g[i]]  OBVIOUS
  <2> HIDE DEF g
  <2>3. QED  BY <2>1, <2>2
<1> HIDE DEF g
<1>7. ASSUME NEW i \in DOMAIN s, NEW j \in DOMAIN s, g[i] = g[j] PROVE i = j
  <2>1. t[g[i]] = s[i] /\ t[g[j]] = s[j]  BY <1>5 DEF Sites
  <2>2. s[i] = s[j]  BY <1>7, <2>1
  <2>3. /\ IsInjective(b[s[i]]) /\ DOMAIN b[s[i]] = Sites(s, s[i])
    BY <1>2, <1>3 DEF Bijection, Injection
  <2>4. b[s[i]][i] = b[s[i]][j]  BY <1>4, <1>7, <2>2
  <2>5. i \in Sites(s, s[i]) /\ j \in Sites(s, s[i])  BY <1>3, <2>2
  <2>6. QED  BY <2>3, <2>4, <2>5 DEF IsInjective
<1>8. ASSUME NEW q \in DOMAIN t PROVE \E i \in DOMAIN s : g[i] = q
  <2> DEFINE ch == t[q]
  <2>1. ch \in ToSet(s) /\ q \in Sites(t, ch)  BY <1>1 DEF ToSet, Sites
  <2>2. PICK i \in Sites(s, ch) : b[ch][i] = q
    BY <1>2, <2>1 DEF Bijection, Surjection
  <2>3. i \in DOMAIN s /\ s[i] = ch  BY <2>2 DEF Sites
  <2>4. QED  BY <1>4, <2>2, <2>3
<1>9. g \in Bijection(DOMAIN s, DOMAIN t)
  BY <1>6, <1>7, <1>8 DEF Bijection, Injection, Surjection, IsInjective
<1>10. /\ DOMAIN s = 1 .. Len(s) /\ Len(s) \in Nat
       /\ DOMAIN t = 1 .. Len(t) /\ Len(t) \in Nat
  BY DEF Text
<1>11. ExistsBijection(DOMAIN s, DOMAIN t)  BY <1>9 DEF ExistsBijection
<1>12. IsFiniteSet(DOMAIN s) /\ Cardinality(DOMAIN s) = Len(s) /\ Cardinality(DOMAIN t) = Len(t)
  BY <1>10, IntervalSize
<1>13. Cardinality(DOMAIN s) = Cardinality(DOMAIN t)  BY <1>11, <1>12, FS_Bijection
<1>14. QED  BY <1>1, <1>12, <1>13

\* On an unambiguous keyboard, a hotkey that matches a candidate has its characters, and
\* the keys of the candidate spell it.
LEMMA MatchesAlike ==
  ASSUME keyboard \in Keyboards, Unambiguous(keyboard), NEW c \in Text,
         NEW D, D \subseteq DOMAIN KeyMap, NEW nm, NEW pos, Layout(c, D, nm, pos),
         NEW h \in DOMAIN Hotkeys, Matches(Hotkeys[h].spelling, c)
  PROVE  SameCharacters(Hotkeys[h].spelling, nm) /\ SpelledBy(Hotkeys[h].spelling, D)
<1> DEFINE t == Hotkeys[h].spelling
<1>1. /\ nm \in Wordings(keyboard, D) /\ Characters(nm) = ToSet(c)
      /\ Len(c) = Cardinality(Places(nm))
  BY LayoutWording
<1>2. LooksLike(t, nm)
  <2> HIDE DEF t
  <2>1. Matches(t, c)  BY DEF t
  <2>2. QED  BY <1>1, <2>1 DEF Matches, LooksLike
<1>3. D \in SUBSET DOMAIN MapOf(keyboard)  BY DEF KeyMap
<1>4. SameCharacters(t, nm)  BY <1>1, <1>2, <1>3 DEF Unambiguous, Hotkeys
<1>5. QED  BY <1>4, SpelledAlike

\* With one spelling for each key, a hotkey that the keys of a candidate spell matches
\* it.
LEMMA AlikeMatches ==
  ASSUME keyboard \in Keyboards, Single, NEW c \in Text, NEW D, D \subseteq DOMAIN KeyMap,
         Composed(c, D), NEW h \in Text, SpelledBy(h, D)
  PROVE  /\ \A ch \in ToSet(h) \cup ToSet(c) : Count(h, ch) = Count(c, ch)
         /\ ToSet(h) = ToSet(c) /\ Matches(h, c)
<1>1. PICK nm, pos : Layout(c, D, nm, pos)  BY DEF Composed
<1>2. \A ch \in ToSet(h) \cup ToSet(c) : Count(h, ch) = Count(c, ch)
  BY <1>1, SpelledAlike
<1>3. Len(h) = Len(c) /\ ToSet(h) = ToSet(c)  BY <1>2, EqualCounts
<1>4. QED  BY <1>2, <1>3 DEF Matches

LEMMA HotkeyTyped ==
  ASSUME keyboard \in Keyboards, NEW h \in DOMAIN Hotkeys
  PROVE  Hotkeys[h].spelling \in Text
<1>1. PICK F : Hotkeys \in Seq([spelling : Text, form : F])
  BY KeyboardsAssumption DEF Hotkeys
<1> DEFINE R == [spelling : Text, form : F]
<1>2. Hotkeys[h] \in R
  <2>1. Hotkeys \in Seq(R)  BY <1>1
  <2> HIDE DEF R
  <2>2. QED  BY <2>1
<1>3. QED  BY <1>2

-----------------------------------------------------------------------------
(* What is posted.                                                         *)

\* A message is sent by a running watcher, for a key that goes down or up.
LEMMA SentBy ==
  ASSUME TypeOK, CandidatesSpell, Next, keyboard \in ApartKeyboards,
         sent' # NoMessage \/ (running /\ running' /\ held' # held)
  PROVE  \E combos \in Seq(Text) \ {<<>>} :
           /\ Spells(combos, Seen) /\ Seen \subseteq DOMAIN KeyMap
           /\ sent' = Post(combos, IF held \subseteq held' THEN 1 ELSE 0)
<1>1. /\ keyboard' = keyboard /\ keys \in Seq(Text) \ {<<>>} /\ keyboard \in Keyboards
      /\ Tracked \subseteq DOMAIN KeyMap
  BY TrackedMapped DEF Next
<1>2. ASSUME NEW k \in Keys, KeyDown(k)
      PROVE  \E combos \in Seq(Text) \ {<<>>} :
               /\ Spells(combos, Seen) /\ Seen \subseteq DOMAIN KeyMap
               /\ sent' = Post(combos, IF held \subseteq held' THEN 1 ELSE 0)
  <2>1. running /\ running'  BY <1>2 DEF KeyDown, Ignored, DownDies, Dies
  <2>2. /\ k \in DOMAIN KeyMap /\ k \notin Tracked
        /\ keys' = Press(keys, k) /\ sent' = Post(keys', 1)
        /\ Tracked' = Tracked \cup {k} /\ held \subseteq held' /\ Seen = Tracked'
    BY <1>1, <1>2, <2>1, DownStep
  <2>3. Spells(keys, Tracked)  BY <2>1 DEF CandidatesSpell
  <2>4. Spells(keys', Seen)  BY <1>1, <2>2, <2>3, PressSpells
  <2>5. keys' \in Seq(Text) \ {<<>>}
    <3>1. keys' \in Seq(Seq(Alphabet)) \ {<<>>}  BY <1>1, <2>2, PressTyped DEF TypeOK
    <3>2. QED  BY <1>1, <3>1, TextsOfAlphabet
  <2>6. Seen \subseteq DOMAIN KeyMap  BY <1>1, <2>2
  <2>7. QED  BY <2>2, <2>4, <2>5, <2>6
<1>3. ASSUME NEW k \in Keys, KeyUp(k)
      PROVE  \E combos \in Seq(Text) \ {<<>>} :
               /\ Spells(combos, Seen) /\ Seen \subseteq DOMAIN KeyMap
               /\ sent' = Post(combos, IF held \subseteq held' THEN 1 ELSE 0)
  <2>1. running  BY <1>3 DEF KeyUp, Ignored
  <2>2. sent' = Post(keys, 0) /\ ~(held \subseteq held') /\ Seen = Tracked
    <3>1. CASE running'  BY <1>1, <1>3, <2>1, <3>1, UpStep
    <3>2. CASE ~running'
      <4>1. k \in held /\ held' = held \ {k} /\ UpDies(k)
        BY <1>3, <2>1, <3>2 DEF KeyUp, Ignored
      <4>2. sent' = Post(keys, 0)
        <5>1. sent' # NoMessage  BY <2>1, <3>2
        <5>2. QED  BY <4>1, <5>1, Zenon DEF UpDies
      <4>3. Seen = Tracked  BY <4>1 DEF Seen, Tracked
      <4>4. QED  BY <4>1, <4>2, <4>3
    <3>3. QED  BY <3>1, <3>2
  <2>3. Spells(keys, Tracked)  BY <2>1 DEF CandidatesSpell
  <2>4. QED  BY <1>1, <2>2, <2>3
<1>4. ASSUME NEW k \in Keys, KeyRepeat(k) PROVE FALSE
  BY <1>4 DEF KeyRepeat
<1>5. ~Start /\ ~Stop  BY DEF Start, Stop
<1>6. QED  BY <1>2, <1>3, <1>4, <1>5 DEF Next

\* What is posted is spelled by keys that are down (check_for_hotkey): on keyboards
\* whose keys can be told apart, modifiers and $KEY$s included, and on which no wording
\* has the length of a hotkey, a comparable set of characters and yet other characters
\* (F11 and F12, which the code does confuse, are not on one such keyboard).
THEOREM SentKeysAreHeldHolds ==
  ASSUME \A kb \in Keyboards : Apart(kb) /\ Unambiguous(kb)
  PROVE  Spec => SentKeysAreHeld
<1> DEFINE A == sent' # NoMessage =>
             \E S \in SUBSET Seen : SpelledBy(Hotkeys[sent'.hotkey].spelling, S)
<1>1. TypeOK /\ CandidatesSpell /\ [Next]_vars => [A]_vars
  <2> SUFFICES ASSUME TypeOK, CandidatesSpell, Next, sent' # NoMessage
               PROVE  \E S \in SUBSET Seen : SpelledBy(Hotkeys[sent'.hotkey].spelling, S)
    OBVIOUS
  <2>1. keyboard \in Keyboards /\ keyboard \in ApartKeyboards /\ Unambiguous(keyboard)
    BY TrackedMapped DEF ApartKeyboards
  <2>2. PICK combos \in Seq(Text) \ {<<>>} :
          /\ Spells(combos, Seen) /\ Seen \subseteq DOMAIN KeyMap
          /\ sent' = Post(combos, IF held \subseteq held' THEN 1 ELSE 0)
    BY <2>1, SentBy
  <2> DEFINE value == IF held \subseteq held' THEN 1 ELSE 0
             h == Hotkeys[sent'.hotkey].spelling
  <2>3. value \in {0, 1} /\ combos \in Seq(Text)  OBVIOUS
  <2>4. sent' = Post(combos, value)  BY <2>2
  <2> HIDE DEF value
  <2>5. /\ sent'.hotkey \in DOMAIN Hotkeys
        /\ \E i \in DOMAIN combos : Matches(Hotkeys[sent'.hotkey].spelling, combos[i])
    BY <2>1, <2>3, <2>4, Posted
  <2>6. PICK i \in DOMAIN combos : Matches(h, combos[i])  BY <2>5
  <2>7. PICK E \in SUBSET Seen : Composed(combos[i], E)  BY <2>2 DEF Spells
  <2>8. PICK nm, pos : Layout(combos[i], E, nm, pos)  BY <2>7 DEF Composed
  <2>9. combos[i] \in Text /\ E \subseteq DOMAIN KeyMap  BY <2>2
  <2>10. SpelledBy(h, E)  BY <2>1, <2>5, <2>6, <2>8, <2>9, MatchesAlike
  <2>11. QED  BY <2>7, <2>10
<1>2. QED  BY <1>1, TypeCorrect, CandidatesAlwaysSpell, PTL
           DEF Spec, SentKeysAreHeld

\* A hotkey is posted exactly when its type asks for the event and the keys spell it.
LEMMA PostExactly ==
  ASSUME keyboard \in Keyboards, Single, Unambiguous(keyboard), NoAnagrams(keyboard),
         NEW combos \in Seq(Text) \ {<<>>}, NEW D, D \subseteq DOMAIN KeyMap,
         Spells(combos, D), NEW value \in {0, 1}, NEW h \in DOMAIN Hotkeys
  PROVE  Post(combos, value) = [hotkey |-> h, value |-> value] <=>
           /\ SpelledBy(Hotkeys[h].spelling, D)
           /\ Type(Hotkeys[h]) \in {"multi", IF value = 1 THEN "down" ELSE "up"}
<1> DEFINE first == CheckForHotkey(combos)
           Asks(g) == \/ Type(Hotkeys[g]) = "down" /\ value = 1
                      \/ Type(Hotkeys[g]) = "up" /\ value = 0
                      \/ Type(Hotkeys[g]) = "multi"
<1>1. Post(combos, value) = IF first # 0 /\ Asks(first)
                            THEN [hotkey |-> first, value |-> value] ELSE NoMessage
  BY Zenon DEF Post
<1>2. h # 0
  <2>1. PICK S : Hotkeys \in Seq(S)  BY KeyboardsAssumption DEF Hotkeys
  <2>2. QED  BY <2>1
<1>3. combos \in Seq(Text) /\ 1 \in DOMAIN combos /\ \A i \in DOMAIN combos : combos[i] \in Text
  OBVIOUS
<1>4. \A i \in DOMAIN combos : Composed(combos[i], D)  BY DEF Spells
<1>5. ASSUME NEW g \in DOMAIN Hotkeys, NEW i \in DOMAIN combos,
             Matches(Hotkeys[g].spelling, combos[i])
      PROVE  SpelledBy(Hotkeys[g].spelling, D)
  <2>1. PICK nm, pos : Layout(combos[i], D, nm, pos)  BY <1>4 DEF Composed
  <2>2. QED  BY <1>3, <1>5, <2>1, MatchesAlike
<1>6. ASSUME NEW g \in DOMAIN Hotkeys, SpelledBy(Hotkeys[g].spelling, D)
      PROVE  /\ \A ch \in ToSet(Hotkeys[g].spelling) :
                  Count(Hotkeys[g].spelling, ch) = Count(combos[1], ch)
             /\ ToSet(Hotkeys[g].spelling) = ToSet(combos[1])
             /\ Matches(Hotkeys[g].spelling, combos[1])
  BY <1>3, <1>4, <1>6, HotkeyTyped, AlikeMatches
<1>7. /\ first = 0 => \A g \in DOMAIN Hotkeys, i \in DOMAIN combos :
                        ~Matches(Hotkeys[g].spelling, combos[i])
      /\ first # 0 => /\ first \in DOMAIN Hotkeys
                      /\ \E i \in DOMAIN combos : Matches(Hotkeys[first].spelling, combos[i])
  BY <1>3, Found
<1> HIDE DEF first
<1>8. SpelledBy(Hotkeys[h].spelling, D) <=> first = h
  <2>1. ASSUME first = h PROVE SpelledBy(Hotkeys[h].spelling, D)
    BY <1>2, <1>5, <1>7, <2>1
  <2>2. ASSUME SpelledBy(Hotkeys[h].spelling, D) PROVE first = h
    <3>1. Matches(Hotkeys[h].spelling, combos[1])  BY <1>6, <2>2
    <3>2. first # 0 /\ first \in DOMAIN Hotkeys  BY <1>3, <1>7, <3>1
    <3>3. SpelledBy(Hotkeys[first].spelling, D)  BY <1>5, <1>7, <3>2
    <3>4. \A ch \in ToSet(Hotkeys[first].spelling) \cup ToSet(Hotkeys[h].spelling) :
            Count(Hotkeys[first].spelling, ch) = Count(Hotkeys[h].spelling, ch)
      BY <1>6, <2>2, <3>2, <3>3
    <3>5. QED  BY <3>2, <3>4 DEF NoAnagrams, Hotkeys
  <2>3. QED  BY <2>1, <2>2
<1>9. Asks(h) <=> Type(Hotkeys[h]) \in {"multi", IF value = 1 THEN "down" ELSE "up"}
  OBVIOUS
<1> HIDE DEF Asks
<1>10. Post(combos, value) = [hotkey |-> h, value |-> value] <=> first = h /\ Asks(h)
  <2>1. ASSUME first = h, Asks(h) PROVE Post(combos, value) = [hotkey |-> h, value |-> value]
    BY <1>1, <1>2, <2>1
  <2>2. ASSUME Post(combos, value) = [hotkey |-> h, value |-> value]
        PROVE  first = h /\ Asks(h)
    <3>1. Post(combos, value).hotkey = h  BY <2>2
    <3>2. NoMessage.hotkey = 0  BY DEF NoMessage
    <3>3. first # 0 /\ Asks(first)  BY <1>1, <1>2, <3>1, <3>2
    <3>4. Post(combos, value).hotkey = first  BY <1>1, <3>3
    <3>5. QED  BY <3>1, <3>3, <3>4
  <2>3. QED  BY <2>1, <2>2
<1>11. QED  BY <1>8, <1>9, <1>10

\* With one spelling for each key, an event posts the hotkey that the keys down spell,
\* if its type asks for the event, and nothing else: on keyboards whose keys can be
\* told apart, on which no wording looks like a hotkey with other characters, and whose
\* hotkeys differ in their characters.
THEOREM HotkeyFiresExactlyHolds ==
  ASSUME \A kb \in Keyboards : Apart(kb) /\ Unambiguous(kb) /\ NoAnagrams(kb)
  PROVE  Spec => HotkeyFiresExactly
<1> DEFINE A == Single /\ running /\ running' /\ held' # held =>
             LET value == IF held \subseteq held' THEN 1 ELSE 0 IN
             \A h \in DOMAIN Hotkeys :
               sent' = [hotkey |-> h, value |-> value]
                 <=> /\ SpelledBy(Hotkeys[h].spelling, Seen)
                     /\ Type(Hotkeys[h]) \in {"multi", IF value = 1 THEN "down" ELSE "up"}
<1>1. TypeOK /\ CandidatesSpell /\ [Next]_vars => [A]_vars
  <2> DEFINE value == IF held \subseteq held' THEN 1 ELSE 0
  <2> SUFFICES ASSUME TypeOK, CandidatesSpell, Next, Single,
                      running /\ running' /\ held' # held, NEW h \in DOMAIN Hotkeys
               PROVE  sent' = [hotkey |-> h, value |-> value]
                        <=> /\ SpelledBy(Hotkeys[h].spelling, Seen)
                            /\ Type(Hotkeys[h]) \in
                                 {"multi", IF value = 1 THEN "down" ELSE "up"}
    OBVIOUS
  <2>1. /\ keyboard \in Keyboards /\ keyboard \in ApartKeyboards
        /\ Unambiguous(keyboard) /\ NoAnagrams(keyboard)
    BY TrackedMapped DEF ApartKeyboards
  <2>2. PICK combos \in Seq(Text) \ {<<>>} :
          /\ Spells(combos, Seen) /\ Seen \subseteq DOMAIN KeyMap
          /\ sent' = Post(combos, IF held \subseteq held' THEN 1 ELSE 0)
    BY <2>1, SentBy
  <2>3. value \in {0, 1} /\ sent' = Post(combos, value)  BY <2>2
  <2> HIDE DEF value
  <2>4. QED  BY <2>1, <2>2, <2>3, PostExactly
<1>2. QED  BY <1>1, TypeCorrect, CandidatesAlwaysSpell, PTL
           DEF Spec, HotkeyFiresExactly
=============================================================================
