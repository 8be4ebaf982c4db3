------------------------- MODULE TranslationProofs --------------------------
(***************************************************************************)
(* Proofs about the encodings of a request and the key of the cache, for   *)
(* names of any characters and any length.                                 *)
(***************************************************************************)
EXTENDS Translation, SequenceTheorems, WellFoundedInduction, TLAPS

-----------------------------------------------------------------------------
(* Induction over the naturals, by a least counterexample.                 *)

\* A set of naturals that is not empty has a least member.
LEMMA LeastNatural ==
  ASSUME NEW T, T \subseteq Nat, T # {}
  PROVE  \E m \in T : \A n \in T : m <= n
<1> DEFINE Less == OpToRel(<, Nat)
<1>1. IsWellFoundedOn(Less, Nat)
  BY NatLessThanWellFounded
<1>2. \A m, n \in Nat : n < m => <<n, m>> \in Less
  BY DEF OpToRel
<1> HIDE DEF Less
<1>3. PICK m \in T : \A n \in T : <<n, m>> \notin Less
  BY <1>1, WFMin
<1>4. \A n \in T : ~ (n < m)
  BY <1>2, <1>3
<1>5. \A n \in T : m <= n
  BY <1>4
<1>6. QED
  BY <1>5

\* A recursive definition of a function on D, the naturals or those up to a bound:
\* its value at n is given, or goes back to the value at a smaller argument.
Recurs(f, D, Base, first, before, step) ==
  \A n \in D : f[n] = IF n \in Base THEN first[n] ELSE step[n][f[before[n]]]

\* There is a function that such a definition speaks of.
LEMMA RecursionDefines ==
  ASSUME NEW D \in SUBSET Nat, \A n \in D : 0 .. n \subseteq D,
         NEW S, NEW Base \in SUBSET D, NEW first, NEW before, NEW step,
         \A n \in Base : first[n] \in S,
         \A n \in D \ Base : before[n] \in 0 .. n - 1,
         \A n \in D \ Base : \A x \in S : step[n][x] \in S
  PROVE  \E f \in [D -> S] : Recurs(f, D, Base, first, before, step)
<1> DEFINE Solves(g, n) == /\ g \in [0 .. n -> S]
                           /\ Recurs(g, 0 .. n, Base, first, before, step)
<1>1. ASSUME NEW m \in D, NEW n \in D, NEW g, NEW h, Solves(g, m), Solves(h, n)
      PROVE  \A i \in (0 .. m) \cap (0 .. n) : g[i] = h[i]
  <2> DEFINE T == {i \in (0 .. m) \cap (0 .. n) : g[i] # h[i]}
  <2>1. SUFFICES ASSUME T # {} PROVE FALSE
    OBVIOUS
  <2>2. T \subseteq Nat
    OBVIOUS
  <2>3. PICK i \in T : \A j \in T : i <= j
    BY <2>1, <2>2, LeastNatural
  <2>4. i \in D /\ i \in 0 .. m /\ i \in 0 .. n /\ g[i] # h[i]
    OBVIOUS
  <2>5. /\ g[i] = IF i \in Base THEN first[i] ELSE step[i][g[before[i]]]
        /\ h[i] = IF i \in Base THEN first[i] ELSE step[i][h[before[i]]]
    BY <1>1, <2>4 DEF Recurs
  <2>6. i \notin Base
    BY <2>4, <2>5
  <2>7. before[i] \in 0 .. i - 1
    BY <2>4, <2>6
  <2>8. before[i] \notin T /\ before[i] \in (0 .. m) \cap (0 .. n)
    BY <2>3, <2>4, <2>7
  <2>9. QED
    BY <2>4, <2>5, <2>6, <2>8
<1>2. ASSUME NEW n \in D PROVE \E g : Solves(g, n)
  <2> DEFINE T == {m \in D : ~ \E g : Solves(g, m)}
  <2>1. SUFFICES ASSUME T # {} PROVE FALSE
    OBVIOUS
  <2>2. T \subseteq Nat
    OBVIOUS
  <2>3. PICK m \in T : \A k \in T : m <= k
    BY <2>1, <2>2, LeastNatural
  <2>4. m \in D /\ m \in Nat /\ ~ \E g : Solves(g, m)
    OBVIOUS
  <2>5. PICK h : m # 0 => Solves(h, m - 1)
    <3>1. CASE m = 0
      BY <3>1
    <3>2. CASE m # 0
      <4>1. m - 1 \in D /\ m - 1 \notin T
        BY <2>3, <2>4, <3>2
      <4>2. QED
        BY <4>1
    <3>3. QED
      BY <3>1, <3>2
  <2> DEFINE x == IF m \in Base THEN first[m] ELSE step[m][h[before[m]]]
             g == [i \in 0 .. m |-> IF i < m THEN h[i] ELSE x]
  <2>6. m \notin Base => m # 0 /\ before[m] \in 0 .. m - 1
    BY <2>4
  <2>7. m # 0 => h \in [0 .. m - 1 -> S]
    BY <2>5
  <2>8. x \in S
    BY <2>4, <2>6, <2>7
  <2>9. g \in [0 .. m -> S]
    BY <2>4, <2>7, <2>8
  <2>10. ASSUME NEW i \in 0 .. m
         PROVE  g[i] = IF i \in Base THEN first[i] ELSE step[i][g[before[i]]]
    <3>1. CASE i < m
      <4>1. h[i] = IF i \in Base THEN first[i] ELSE step[i][h[before[i]]]
        BY <2>4, <2>5, <3>1 DEF Recurs
      <4>2. i \notin Base => before[i] \in 0 .. i - 1
        BY <2>4
      <4>3. g[i] = h[i]
        BY <3>1
      <4>4. i \notin Base => g[before[i]] = h[before[i]]
        BY <2>4, <3>1, <4>2
      <4>5. QED
        BY <4>1, <4>3, <4>4
    <3>2. CASE i = m
      BY <2>6, <3>2
    <3>3. QED
      BY <2>4, <3>1, <3>2
  <2>11. Solves(g, m)
    BY <2>9, <2>10 DEF Recurs
  <2>12. QED
    BY <2>4, <2>11
<1> DEFINE G == [n \in D |-> CHOOSE g : Solves(g, n)]
           f == [n \in D |-> G[n][n]]
<1>3. \A n \in D : Solves(G[n], n)
  BY <1>2
<1> HIDE DEF G
<1>4. f \in [D -> S]
  <2>1. \A n \in D : n \in 0 .. n /\ G[n] \in [0 .. n -> S]
    BY <1>3
  <2>2. QED
    BY <2>1
<1>5. ASSUME NEW n \in D
      PROVE  f[n] = IF n \in Base THEN first[n] ELSE step[n][f[before[n]]]
  <2>1. G[n][n] = IF n \in Base THEN first[n] ELSE step[n][G[n][before[n]]]
    <3>1. n \in 0 .. n
      OBVIOUS
    <3>2. Recurs(G[n], 0 .. n, Base, first, before, step)
      BY <1>3
    <3>3. QED
      BY <3>1, <3>2 DEF Recurs
  <2>2. CASE n \in Base
    BY <2>1, <2>2
  <2>3. CASE n \notin Base
    <3>1. before[n] \in D /\ before[n] \in (0 .. n) \cap (0 .. before[n])
      BY <2>3
    <3>2. G[n][before[n]] = G[before[n]][before[n]]
      BY <1>1, <1>3, <3>1
    <3>3. QED
      BY <2>1, <2>3, <3>1, <3>2
  <2>4. QED
    BY <2>2, <2>3
<1>6. QED
  BY <1>4, <1>5 DEF Recurs

-----------------------------------------------------------------------------
(* std::to_string.                                                         *)

\* The recursive definition holds, and what it makes are digits.
LEMMA ToStringDef ==
  /\ toString \in [Nat -> Seq(Digits)]
  /\ \A n \in Nat : toString[n] = IF n < 10 THEN <<Zero + n>>
                                   ELSE Append(toString[n \div 10], Zero + (n % 10))
<1> DEFINE Base == 0 .. 9
           first == [n \in Base |-> <<Zero + n>>]
           before == [n \in Nat |-> n \div 10]
           step == [n \in Nat |-> [s \in Seq(Digits) |-> Append(s, Zero + (n % 10))]]
<1>1. \A n \in Nat : /\ n \div 10 \in Nat /\ n % 10 \in 0 .. 9
                     /\ n \notin Base => n \div 10 \in 0 .. n - 1
  OBVIOUS
<1>2. \A n \in 0 .. 9 : Zero + n \in Digits
  BY DEF Digits, Zero
<1>3. \A n \in Base : first[n] \in Seq(Digits)
  BY <1>2
<1>4. \A n \in Nat : \A s \in Seq(Digits) : step[n][s] \in Seq(Digits)
  BY <1>1, <1>2
<1>5. \A n \in Nat \ Base : before[n] \in 0 .. n - 1
  BY <1>1
<1>6. Nat \in SUBSET Nat /\ Base \in SUBSET Nat /\ \A n \in Nat : 0 .. n \subseteq Nat
  OBVIOUS
<1> HIDE DEF first, before, step, Base
<1>7. PICK f \in [Nat -> Seq(Digits)] : Recurs(f, Nat, Base, first, before, step)
  BY <1>3, <1>4, <1>5, <1>6, RecursionDefines
<1>8. ASSUME NEW n \in Nat
      PROVE  f[n] = IF n < 10 THEN <<Zero + n>>
                              ELSE Append(f[n \div 10], Zero + (n % 10))
  <2>1. f[n] = IF n \in Base THEN first[n] ELSE step[n][f[before[n]]]
    BY <1>7 DEF Recurs
  <2>2. n \in Base <=> n < 10
    BY DEF Base
  <2>3. n \in Base => first[n] = <<Zero + n>>
    BY DEF first
  <2>4. step[n][f[before[n]]] = Append(f[n \div 10], Zero + (n % 10))
    BY <1>1 DEF step, before
  <2>5. QED
    BY <2>1, <2>2, <2>3, <2>4
<1>9. f = [n \in Nat |-> IF n < 10 THEN <<Zero + n>>
                                  ELSE Append(f[n \div 10], Zero + (n % 10))]
  BY <1>8
<1>10. toString = [n \in Nat |-> IF n < 10 THEN <<Zero + n>>
                                ELSE Append(toString[n \div 10], Zero + (n % 10))]
  BY <1>9 DEF toString
<1>11. ASSUME NEW n \in Nat
       PROVE  toString[n] = IF n < 10 THEN <<Zero + n>>
                            ELSE Append(toString[n \div 10], Zero + (n % 10))
  BY <1>10
<1>12. \A n \in Nat : toString[n] = f[n]
  <2> DEFINE T == {n \in Nat : toString[n] # f[n]}
  <2>1. SUFFICES ASSUME T # {} PROVE FALSE
    OBVIOUS
  <2>2. PICK n \in T : \A m \in T : n <= m
    BY <2>1, LeastNatural
  <2>3. n \in Nat /\ toString[n] # f[n]
    OBVIOUS
  <2>4. n >= 10 /\ n \div 10 \in 0 .. n - 1
    BY <1>8, <1>11, <2>3
  <2>5. n \div 10 \notin T
    BY <2>2, <2>3, <2>4
  <2>6. toString[n \div 10] = f[n \div 10]
    BY <2>4, <2>5
  <2>7. QED
    BY <1>8, <1>11, <2>3, <2>4, <2>6
<1>13. toString = f
  <2>1. toString = [n \in Nat |-> toString[n]]
    BY <1>10, <1>11, Zenon
  <2>2. f = [n \in Nat |-> f[n]]
    OBVIOUS
  <2>3. QED
    BY <1>12, <2>1, <2>2
<1>14. QED
  BY <1>11, <1>13

-----------------------------------------------------------------------------
(* The number that digits make.                                            *)

\* What the first n digits make, for every n up to the length.
MakesNumber(f, digits) ==
  /\ f \in [0 .. Len(digits) -> Nat]
  /\ \A n \in 0 .. Len(digits) :
       f[n] = IF n = 0 THEN 0 ELSE 10 * f[n - 1] + (digits[n] - Zero)

\* toNumber is the last value of such a function.
LEMMA ToNumberDef ==
  ASSUME NEW digits \in Seq(Digits)
  PROVE  \E f : MakesNumber(f, digits) /\ toNumber(digits) = f[Len(digits)]
<1> DEFINE D == 0 .. Len(digits)
           Base == {0}
           first == [n \in Base |-> 0]
           before == [n \in D |-> n - 1]
           step == [n \in D |-> [x \in Nat |-> 10 * x + (digits[n] - Zero)]]
<1>1. \A n \in D : n # 0 => digits[n] - Zero \in 0 .. 9 /\ n - 1 \in 0 .. n - 1
  BY DEF Digits, Zero
<1>2. \A n \in Base : first[n] \in Nat
  OBVIOUS
<1>3. \A n \in D \ Base : before[n] \in 0 .. n - 1
  BY <1>1
<1>4. \A n \in D \ Base : \A x \in Nat : step[n][x] \in Nat
  BY <1>1
<1>5. D \in SUBSET Nat /\ Base \in SUBSET D /\ \A n \in D : 0 .. n \subseteq D
  OBVIOUS
<1> HIDE DEF D, Base, first, before, step
<1>6. PICK f \in [D -> Nat] : Recurs(f, D, Base, first, before, step)
  BY <1>2, <1>3, <1>4, <1>5, RecursionDefines
<1>7. ASSUME NEW n \in D
      PROVE  f[n] = IF n = 0 THEN 0 ELSE 10 * f[n - 1] + (digits[n] - Zero)
  <2>1. f[n] = IF n \in Base THEN first[n] ELSE step[n][f[before[n]]]
    BY <1>6 DEF Recurs
  <2>2. n \in Base <=> n = 0
    BY DEF Base
  <2>3. n \in Base => first[n] = 0
    BY DEF first
  <2>4. n # 0 => step[n][f[before[n]]] = 10 * f[n - 1] + (digits[n] - Zero)
    <3>1. n # 0 => before[n] = n - 1 /\ n - 1 \in D
      BY DEF before, D
    <3>2. n # 0 => f[n - 1] \in Nat
      BY <3>1, <1>6
    <3>3. QED
      BY <3>1, <3>2 DEF step
  <2>5. QED
    BY <2>1, <2>2, <2>3, <2>4
<1> DEFINE Equation(g) ==
      g = [n \in 0 .. Len(digits) |->
             IF n = 0 THEN 0 ELSE 10 * g[n - 1] + (digits[n] - Zero)]
<1>8. Equation(f)
  BY <1>7 DEF D
<1>9. PICK g : Equation(g) /\ toNumber(digits) = g[Len(digits)]
  BY <1>8 DEF toNumber
<1>10. ASSUME NEW n \in 0 .. Len(digits)
       PROVE  g[n] = IF n = 0 THEN 0 ELSE 10 * g[n - 1] + (digits[n] - Zero)
  BY <1>9
<1>11. \A n \in D : g[n] = f[n]
  <2> DEFINE T == {n \in D : g[n] # f[n]}
  <2>1. SUFFICES ASSUME T # {} PROVE FALSE
    OBVIOUS
  <2>2. T \subseteq Nat
    BY <1>5
  <2>3. PICK n \in T : \A m \in T : n <= m
    BY <2>1, <2>2, LeastNatural
  <2>4. n \in D /\ n \in 0 .. Len(digits) /\ g[n] # f[n]
    BY DEF D
  <2>5. n # 0 /\ n - 1 \in D
    BY <1>7, <1>10, <2>4 DEF D
  <2>6. g[n - 1] = f[n - 1]
    BY <2>3, <2>4, <2>5
  <2>7. QED
    BY <1>7, <1>10, <2>4, <2>5, <2>6
<1>12. g = f
  <2>1. g = [n \in D |-> g[n]]
    BY <1>9, <1>10 DEF D
  <2>2. f = [n \in D |-> f[n]]
    OBVIOUS
  <2>3. QED
    BY <1>11, <2>1, <2>2
<1>13. QED
  BY <1>6, <1>7, <1>9, <1>12 DEF MakesNumber, D

\* A digit more makes ten times the number and the digit.
LEMMA NumberOfAppend ==
  ASSUME NEW s \in Seq(Digits), NEW x \in Digits
  PROVE  /\ toNumber(s) \in Nat
         /\ toNumber(Append(s, x)) = 10 * toNumber(s) + (x - Zero)
<1> DEFINE t == Append(s, x)
<1>1. t \in Seq(Digits) /\ Len(t) = Len(s) + 1 /\ t[Len(t)] = x
  OBVIOUS
<1>2. \A n \in 1 .. Len(s) : t[n] = s[n]
  OBVIOUS
<1> HIDE DEF t
<1>3. PICK f : MakesNumber(f, s) /\ toNumber(s) = f[Len(s)]
  BY ToNumberDef
<1>4. PICK g : MakesNumber(g, t) /\ toNumber(t) = g[Len(t)]
  BY <1>1, ToNumberDef
<1>5. \A n \in 0 .. Len(s) : g[n] = f[n]
  <2> DEFINE T == {n \in 0 .. Len(s) : g[n] # f[n]}
  <2>1. SUFFICES ASSUME T # {} PROVE FALSE
    OBVIOUS
  <2>2. T \subseteq Nat
    OBVIOUS
  <2>3. PICK n \in T : \A m \in T : n <= m
    BY <2>1, <2>2, LeastNatural
  <2>4. n \in 0 .. Len(s) /\ n \in 0 .. Len(t) /\ g[n] # f[n]
    BY <1>1
  <2>5. n # 0 => g[n - 1] = f[n - 1]
    BY <2>3, <2>4
  <2>6. /\ f[n] = IF n = 0 THEN 0 ELSE 10 * f[n - 1] + (s[n] - Zero)
        /\ g[n] = IF n = 0 THEN 0 ELSE 10 * g[n - 1] + (t[n] - Zero)
    BY <1>3, <1>4, <2>4 DEF MakesNumber
  <2>7. n # 0 => t[n] = s[n]
    BY <1>2, <2>4
  <2>8. QED
    BY <2>4, <2>5, <2>6, <2>7
<1>6. g[Len(t)] = 10 * g[Len(s)] + (x - Zero)
  <2>1. Len(t) \in 0 .. Len(t) /\ Len(t) # 0 /\ Len(t) - 1 = Len(s)
    BY <1>1
  <2>2. QED
    BY <1>1, <1>4, <2>1 DEF MakesNumber
<1>7. toNumber(s) \in Nat
  <2>1. Len(s) \in 0 .. Len(s)
    OBVIOUS
  <2>2. QED
    BY <1>3, <2>1 DEF MakesNumber
<1>8. g[Len(s)] = f[Len(s)]
  BY <1>5
<1>9. QED
  BY <1>3, <1>4, <1>6, <1>7, <1>8 DEF t

\* A digit alone makes itself.
LEMMA NumberOfDigit ==
  ASSUME NEW x \in Digits
  PROVE  toNumber(<<x>>) = x - Zero
<1>1. x - Zero \in 0 .. 9
  BY DEF Digits, Zero
<1>2. <<x>> \in Seq(Digits) /\ Len(<<x>>) = 1 /\ <<x>>[1] = x
  OBVIOUS
<1>3. PICK f : MakesNumber(f, <<x>>) /\ toNumber(<<x>>) = f[1]
  BY <1>2, ToNumberDef
<1>4. 0 \in 0 .. 1 /\ 1 \in 0 .. 1
  OBVIOUS
<1>5. f[0] = 0 /\ f[1] = 10 * f[0] + (x - Zero)
  BY <1>2, <1>3, <1>4 DEF MakesNumber
<1>6. QED
  BY <1>1, <1>3, <1>5

\* What std::to_string writes is read back: no two numbers have the same digits.
LEMMA NumberOfString ==
  ASSUME NEW n \in Nat
  PROVE  toString[n] \in Seq(Digits) /\ toString[n] # <<>> /\ toNumber(toString[n]) = n
<1>1. \A m \in Nat : /\ m \div 10 \in Nat /\ m % 10 \in 0 .. 9
                     /\ m >= 10 => m \div 10 \in 0 .. m - 1
                     /\ m = 10 * (m \div 10) + (m % 10)
  OBVIOUS
<1>2. \A d \in 0 .. 9 : Zero + d \in Digits /\ (Zero + d) - Zero = d
  BY DEF Digits, Zero
<1>3. \A m \in Nat : toString[m] \in Seq(Digits)
  BY ToStringDef
<1>4. ASSUME NEW m \in Nat, m >= 10
      PROVE  toString[m] = Append(toString[m \div 10], Zero + (m % 10))
  <2>1. ~ (m < 10)
    BY <1>4
  <2>2. toString[m] = IF m < 10 THEN <<Zero + m>>
                      ELSE Append(toString[m \div 10], Zero + (m % 10))
    BY ToStringDef
  <2>3. QED
    BY <2>1, <2>2, Zenon
<1>5. \A m \in Nat : m < 10 => toString[m] = <<Zero + m>>
  BY ToStringDef
<1>6. \A m \in Nat : toNumber(toString[m]) = m
  <2> DEFINE T == {m \in Nat : toNumber(toString[m]) # m}
  <2>1. SUFFICES ASSUME T # {} PROVE FALSE
    OBVIOUS
  <2>2. PICK m \in T : \A k \in T : m <= k
    BY <2>1, LeastNatural
  <2>3. m \in Nat /\ toNumber(toString[m]) # m
    OBVIOUS
  <2>4. CASE m < 10
    <3>1. Zero + m \in Digits /\ (Zero + m) - Zero = m
      BY <1>2, <2>3, <2>4
    <3>2. QED
      BY <1>5, <2>3, <2>4, <3>1, NumberOfDigit
  <2>5. CASE m >= 10
    <3>1. toNumber(toString[m \div 10]) = m \div 10
      BY <1>1, <2>2, <2>3, <2>5
    <3>2. Zero + (m % 10) \in Digits /\ (Zero + (m % 10)) - Zero = m % 10
      BY <1>1, <1>2, <2>3
    <3>3. toString[m \div 10] \in Seq(Digits)
      BY <1>1, <1>3, <2>3
    <3>4. toNumber(toString[m]) = 10 * (m \div 10) + (m % 10)
      BY <1>4, <2>3, <2>5, <3>1, <3>2, <3>3, NumberOfAppend
    <3>5. QED
      BY <1>1, <2>3, <3>4
  <2>6. QED
    BY <2>3, <2>4, <2>5
<1>7. toString[n] # <<>>
  <2>1. CASE n < 10
    BY <1>5, <2>1
  <2>2. CASE n >= 10
    <3>1. toString[n \div 10] \in Seq(Digits)
      BY <1>1, <1>3
    <3>2. QED
      BY <1>4, <2>2, <3>1
  <2>3. QED
    BY <2>1, <2>2
<1>8. QED
  BY <1>3, <1>6, <1>7

-----------------------------------------------------------------------------
(* Reading a stream.                                                       *)

\* Span stops at the first character that is not in the set.
LEMMA SpanIs ==
  ASSUME NEW s \in Seq(Nat), NEW chars, NEW k \in 0 .. Len(s),
         \A i \in 1 .. k : s[i] \in chars,
         k < Len(s) => s[k + 1] \notin chars
  PROVE  Span(s, chars) = k
<1> DEFINE T == {n \in 0 .. Len(s) : \A i \in 1 .. n : s[i] \in chars}
<1>1. k \in T
  OBVIOUS
<1>2. \A n \in T : n <= k
  <2>1. ASSUME NEW n \in T, ~ (n <= k) PROVE FALSE
    <3>1. k + 1 \in 1 .. n /\ k < Len(s)
      BY <2>1
    <3>2. QED
      BY <3>1
  <2>2. QED
    BY <2>1
<1>3. \E x \in T : \A y \in T : x >= y
  <2>1. \A y \in T : k >= y
    BY <1>2
  <2>2. QED
    BY <1>1, <2>1
<1>4. Max(T) \in T /\ \A y \in T : Max(T) >= y
  BY <1>3 DEF Max
<1>5. Max(T) >= k /\ Max(T) <= k
  BY <1>1, <1>2, <1>4
<1>6. Max(T) = k
  BY <1>4, <1>5
<1>7. QED
  BY <1>6 DEF Span

\* The two parts of a string are found again at its beginning and behind it.
LEMMA PartsOfConcat ==
  ASSUME NEW s \in Seq(Nat), NEW t \in Seq(Nat)
  PROVE  /\ s \o t \in Seq(Nat)
         /\ SubSeq(s \o t, 1, Len(s)) = s
         /\ Drop(s \o t, Len(s)) = t
<1> DEFINE c == s \o t
<1>1. /\ c \in Seq(Nat) /\ Len(c) = Len(s) + Len(t)
      /\ \A i \in 1 .. Len(s) : c[i] = s[i]
      /\ \A i \in 1 .. Len(t) : c[Len(s) + i] = t[i]
  OBVIOUS
<1> HIDE DEF c
<1>2. SubSeq(c, 1, Len(s)) = s
  <2> DEFINE u == SubSeq(c, 1, Len(s))
  <2>1. u \in Seq(Nat) /\ Len(u) = Len(s) /\ \A i \in 1 .. Len(s) : u[i] = s[i]
    BY <1>1
  <2> HIDE DEF u
  <2>2. u = s
    BY <2>1, SeqEqual
  <2>3. QED
    BY <2>2 DEF u
<1>3. SubSeq(c, Len(s) + 1, Len(c)) = t
  <2> DEFINE u == SubSeq(c, Len(s) + 1, Len(c))
  <2>1. u \in Seq(Nat) /\ Len(u) = Len(t)
    BY <1>1
  <2>2. \A i \in 1 .. Len(t) : u[i] = c[Len(s) + i]
    BY <1>1
  <2>3. \A i \in 1 .. Len(t) : u[i] = t[i]
    BY <1>1, <2>2
  <2> HIDE DEF u
  <2>4. u = t
    BY <2>1, <2>3, SeqEqual
  <2>5. QED
    BY <2>4 DEF u
<1>4. QED
  BY <1>1, <1>2, <1>3 DEF c, Drop

\* Two strings make one.
LEMMA Concatenated ==
  \A s, t \in Seq(Nat) : s \o t \in Seq(Nat) /\ Len(s \o t) = Len(s) + Len(t)
  OBVIOUS

\* Its last characters are those of the second.
LEMMA ConcatenatedAt ==
  \A s, t \in Seq(Nat) :
    \A i \in 1 .. Len(t) : (s \o t)[Len(s) + i] = t[i]
  OBVIOUS

\* Strings are put together in any order, three of them or five or six.
Regroups(s, t, u) == (s \o t) \o u = s \o (t \o u)
Regroups5(a, b, c, d, e) ==
  (((a \o b) \o c) \o d) \o e = a \o (b \o (c \o (d \o e)))
Regroups6(a, b, c, d, e, f) ==
  ((((a \o b) \o c) \o d) \o e) \o f = a \o (b \o (c \o (d \o (e \o f))))

\* Concatenation is associative.
LEMMA Associative ==
  \A s, t, u \in Seq(Nat) : Regroups(s, t, u)
<1>1. ASSUME NEW s \in Seq(Nat), NEW t \in Seq(Nat), NEW u \in Seq(Nat)
      PROVE  (s \o t) \o u = s \o (t \o u)
  BY ConcatAssociative, Z3
<1>2. QED
  BY <1>1, Zenon DEF Regroups

\* So it is of five strings.
LEMMA Associative5 ==
  \A a, b, c, d, e \in Seq(Nat) : Regroups5(a, b, c, d, e)
<1> TAKE a, b, c, d, e \in Seq(Nat)
<1>1. a \o b \in Seq(Nat) /\ d \o e \in Seq(Nat)
  BY Concatenated, Zenon
<1>2. (a \o b) \o c \in Seq(Nat) /\ c \o (d \o e) \in Seq(Nat)
  BY <1>1, Concatenated, Zenon
<1>3. Regroups((a \o b) \o c, d, e)
  BY <1>2, Associative, Zenon
<1>4. Regroups(a \o b, c, d \o e)
  BY <1>1, Associative, Zenon
<1>5. Regroups(a, b, c \o (d \o e))
  BY <1>2, Associative, Zenon
<1>6. QED
  BY <1>3, <1>4, <1>5, Zenon DEF Regroups, Regroups5

\* And of six.
LEMMA Associative6 ==
  \A a, b, c, d, e, f \in Seq(Nat) : Regroups6(a, b, c, d, e, f)
<1> TAKE a, b, c, d, e, f \in Seq(Nat)
<1>1. a \o b \in Seq(Nat) /\ e \o f \in Seq(Nat)
  BY Concatenated, Zenon
<1>2. d \o (e \o f) \in Seq(Nat)
  BY <1>1, Concatenated, Zenon
<1>3. c \o (d \o (e \o f)) \in Seq(Nat)
  BY <1>2, Concatenated, Zenon
<1>4. Regroups5(a \o b, c, d, e, f)
  BY <1>1, Associative5, Zenon
<1>5. Regroups(a, b, c \o (d \o (e \o f)))
  BY <1>3, Associative, Zenon
<1>6. QED
  BY <1>4, <1>5, Zenon DEF Regroups, Regroups5, Regroups6

\* Digits are characters.
LEMMA DigitsAreCharacters ==
  \A s \in Seq(Digits) : s \in Seq(Nat)
<1>1. Digits \subseteq Nat
  BY DEF Digits, Zero
<1>2. QED
  BY <1>1, SeqMonotonic

\* operator>> reads back a number, skipping the separator in front of it, and leaves
\* what follows the digits.
LEMMA ExtractedNumber ==
  ASSUME NEW n \in Nat, NEW rest \in Seq(Nat), rest = <<>> \/ rest[1] = Blank,
         NEW gap \in {<<>>, <<Blank>>}
  PROVE  Extracted(gap \o (toString[n] \o rest)) = [value |-> n, rest |-> rest]
<1> DEFINE d == toString[n]
           s == d \o rest
           stream == gap \o s
<1>1. d \in Seq(Digits) /\ d # <<>> /\ toNumber(d) = n
  BY NumberOfString
<1>2. Blank \in Nat /\ Blank \notin Digits /\ Digits \subseteq Nat
  BY DEF Digits, Zero, Blank
<1> HIDE DEF d
<1>3. d \in Seq(Nat) /\ Len(d) \in Nat /\ Len(d) > 0
  <2>1. d \in Seq(Nat)
    BY <1>1, DigitsAreCharacters, Zenon
  <2>2. QED
    BY <1>1, <2>1
<1>4. /\ s \in Seq(Nat) /\ Len(s) = Len(d) + Len(rest)
      /\ \A i \in 1 .. Len(d) : s[i] \in Digits
      /\ Len(d) < Len(s) => s[Len(d) + 1] = Blank
  BY <1>1, <1>3
<1>5. SubSeq(s, 1, Len(d)) = d /\ Drop(s, Len(d)) = rest
  BY <1>3, PartsOfConcat
<1> HIDE DEF s
<1>6. /\ gap \in Seq(Nat) /\ Len(gap) \in Nat
      /\ \A i \in 1 .. Len(gap) : gap[i] = Blank
  <2>1. CASE gap = <<>>
    BY <2>1
  <2>2. CASE gap = <<Blank>>
    BY <1>2, <2>2
  <2>3. QED
    BY <2>1, <2>2
<1>7. /\ stream \in Seq(Nat) /\ Len(stream) = Len(gap) + Len(s)
      /\ \A i \in 1 .. Len(gap) : stream[i] \in {Blank}
      /\ stream[Len(gap) + 1] = s[1]
  <2>1. stream \in Seq(Nat) /\ Len(stream) = Len(gap) + Len(s)
    BY <1>4, <1>6, Concatenated, Zenon
  <2>2. \A i \in 1 .. Len(gap) : stream[i] = gap[i]
    BY <1>4, <1>6
  <2>3. \A i \in 1 .. Len(gap) : stream[i] \in {Blank}
    BY <1>6, <2>2
  <2>4. Len(s) > 0
    BY <1>3, <1>4
  <2>5. stream[Len(gap) + 1] = s[1]
    BY <1>4, <1>6, <2>4
  <2>6. QED
    BY <2>1, <2>3, <2>5
<1>8. s[1] \notin {Blank}
  BY <1>2, <1>3, <1>4
<1>9. Drop(stream, Len(gap)) = s
  BY <1>4, <1>6, PartsOfConcat
<1> HIDE DEF stream
<1>10. Len(gap) \in 0 .. Len(stream)
  BY <1>3, <1>4, <1>6, <1>7
<1>11. Span(stream, {Blank}) = Len(gap)
  BY <1>7, <1>8, <1>10, SpanIs
<1>12. Span(s, Digits) = Len(d)
  <2>1. Len(d) \in 0 .. Len(s)
    BY <1>3, <1>4
  <2>2. QED
    BY <1>2, <1>4, <2>1, SpanIs
<1>13. Extracted(stream) = [value |-> toNumber(d), rest |-> rest]
  BY <1>5, <1>9, <1>11, <1>12 DEF Extracted
<1>14. QED
  BY <1>1, <1>13 DEF stream, s, d

\* A name is read back whatever characters it holds, and what follows it is left.
LEMMA MemberOfField ==
  ASSUME NEW name \in Seq(Nat), NEW rest \in Seq(Nat), NEW gap \in {<<>>, <<Blank>>}
  PROVE  Member(gap \o (Field(name) \o rest)) =
           [value |-> name, rest |-> <<Blank>> \o rest]
<1> DEFINE size == Len(name)
           behind == <<Blank>> \o rest
           s == name \o behind
           tail == <<Blank>> \o s
<1>1. size \in Nat /\ Blank \in Nat /\ Digits \subseteq Nat
  BY DEF Blank, Digits, Zero
<1>2. <<Blank>> \in Seq(Nat) /\ Len(<<Blank>>) = 1 /\ <<Blank>>[1] = Blank
  BY <1>1
<1>3. behind \in Seq(Nat)
  BY <1>2
<1>4. s \in Seq(Nat) /\ Len(s) >= size /\ \A i \in 1 .. size : s[i] = name[i]
  BY <1>1, <1>3
<1>5. Drop(s, size) = behind
  BY <1>3, PartsOfConcat
<1>6. tail \in Seq(Nat) /\ tail[1] = Blank
  BY <1>2, <1>4
<1>7. Drop(tail, 1) = s
  BY <1>2, <1>4, PartsOfConcat
<1>8. Field(name) \o rest = toString[size] \o tail
  <2>1. toString[size] \in Seq(Nat)
    <3>1. toString[size] \in Seq(Digits)
      BY <1>1, NumberOfString
    <3>2. QED
      BY <3>1, DigitsAreCharacters, Zenon
  <2> DEFINE d == toString[size]
             b == <<Blank>>
  <2> HIDE DEF d, b
  <2>2. d \in Seq(Nat) /\ b \in Seq(Nat)
    BY <1>2, <2>1 DEF d, b
  <2>3. ((((d \o b) \o name) \o b) \o rest) = d \o (b \o (name \o (b \o rest)))
    <3>1. Regroups5(d, b, name, b, rest)
      BY <2>2, Associative5, Zenon
    <3>2. QED
      BY <3>1 DEF Regroups5
  <2>4. QED
    BY <2>3 DEF Field, d, b
<1> HIDE DEF behind, s, tail
<1>9. Extracted(gap \o (Field(name) \o rest)) = [value |-> size, rest |-> tail]
  BY <1>1, <1>6, <1>8, ExtractedNumber
<1>10. [i \in 1 .. size |-> IF i <= Len(s) THEN s[i] ELSE 0] = name
  <2>1. \A i \in 1 .. size : (IF i <= Len(s) THEN s[i] ELSE 0) = name[i]
    BY <1>1, <1>4
  <2>2. name = [i \in 1 .. size |-> name[i]]
    OBVIOUS
  <2>3. QED
    BY <2>1, <2>2
<1> DEFINE stream == gap \o (Field(name) \o rest)
<1> HIDE DEF size, stream
<1>11. /\ Extracted(stream).rest = tail /\ Extracted(stream).value = size
  BY <1>9 DEF stream
<1>12. Drop(Extracted(stream).rest, 1) = s
  BY <1>7, <1>11
<1>13. Member(stream) =
         [value |-> [i \in 1 .. size |-> IF i <= Len(s) THEN s[i] ELSE 0],
          rest |-> Drop(s, size)]
  BY <1>11, <1>12 DEF Member
<1>14. QED
  BY <1>5, <1>10, <1>13 DEF behind, stream

-----------------------------------------------------------------------------
(* What goes into a string comes out of it.                                *)

\* Requests with names of any characters.
AnyKeys == [client : Seq(Nat), user : Seq(Nat), privilege : Seq(Nat)]

\* The separators are strings, and the empty string adds nothing.
LEMMA Characters ==
  /\ <<Blank>> \in Seq(Nat) /\ <<SOH>> \in Seq(Nat) /\ <<>> \in Seq(Nat)
  /\ \A s \in Seq(Nat) : <<>> \o s = s /\ s \o <<>> = s
<1>1. Blank \in Nat /\ SOH \in Nat
  BY DEF Blank, SOH
<1>2. QED
  BY <1>1, ConcatEmptySeq

\* What the translators write are strings.
LEMMA FieldType ==
  /\ \A n \in Nat : toString[n] \in Seq(Nat)
  /\ \A name \in Seq(Nat) : Field(name) \in Seq(Nat)
<1>1. ASSUME NEW n \in Nat PROVE toString[n] \in Seq(Nat)
  <2>1. toString[n] \in Seq(Digits)
    BY NumberOfString
  <2>2. QED
    BY <2>1, DigitsAreCharacters, Zenon
<1>2. ASSUME NEW name \in Seq(Nat) PROVE Field(name) \in Seq(Nat)
  <2>1. toString[Len(name)] \in Seq(Nat)
    BY <1>1
  <2>2. toString[Len(name)] \o <<Blank>> \in Seq(Nat)
    BY <2>1, Characters, Concatenated, Zenon
  <2>3. (toString[Len(name)] \o <<Blank>>) \o name \in Seq(Nat)
    BY <2>2, Concatenated, Zenon
  <2>4. ((toString[Len(name)] \o <<Blank>>) \o name) \o <<Blank>> \in Seq(Nat)
    BY <2>3, Characters, Concatenated, Zenon
  <2>5. QED
    BY <2>4 DEF Field
<1>3. QED
  BY <1>1, <1>2

\* Agent::dataToRequest reads what Plugin::requestToData wrote.
LEMMA RequestRoundTrip ==
  ASSUME NEW k \in AnyKeys
  PROVE  dataToRequest(requestToData(k)) = k
<1> DEFINE fc == Field(k.client)
           fu == Field(k.user)
           fp == Field(k.privilege)
           gap == <<Blank>>
<1>1. k.client \in Seq(Nat) /\ k.user \in Seq(Nat) /\ k.privilege \in Seq(Nat)
  BY DEF AnyKeys
<1>2. fc \in Seq(Nat) /\ fu \in Seq(Nat) /\ fp \in Seq(Nat) /\ gap \in Seq(Nat)
  BY <1>1, FieldType, Characters, Zenon
<1>3. fu \o fp \in Seq(Nat)
  BY <1>2, Concatenated, Zenon
<1>4. Member(<<>> \o (fc \o (fu \o fp))) =
        [value |-> k.client, rest |-> gap \o (fu \o fp)]
  BY <1>1, <1>3, MemberOfField
<1>5. requestToData(k) = <<>> \o (fc \o (fu \o fp))
  <2> HIDE DEF fc, fu, fp
  <2>1. (fc \o fu) \o fp = fc \o (fu \o fp)
    <3>1. Regroups(fc, fu, fp)
      BY <1>2, Associative, Zenon
    <3>2. QED
      BY <3>1 DEF Regroups
  <2>2. <<>> \o (fc \o (fu \o fp)) = fc \o (fu \o fp)
    <3>1. fc \o (fu \o fp) \in Seq(Nat)
      BY <1>2, <1>3, Concatenated, Zenon
    <3>2. QED
      BY <3>1, Characters, Zenon
  <2>3. QED
    BY <2>1, <2>2 DEF requestToData, fc, fu, fp
<1>6. Member(gap \o (fu \o fp)) = [value |-> k.user, rest |-> gap \o fp]
  BY <1>1, <1>2, MemberOfField
<1>7. Member(gap \o (fp \o <<>>)) = [value |-> k.privilege, rest |-> gap \o <<>>]
  BY <1>1, Characters, MemberOfField
<1>8. fp \o <<>> = fp
  BY <1>2, Characters, Zenon
<1> HIDE DEF fc, fu, fp, gap
<1> DEFINE client == Member(requestToData(k))
<1> HIDE DEF client
<1> DEFINE user == Member(client.rest)
<1> HIDE DEF user
<1> DEFINE privilege == Member(user.rest)
<1> HIDE DEF privilege
<1>9. client.value = k.client /\ client.rest = gap \o (fu \o fp)
  BY <1>4, <1>5 DEF client
<1>10. user.value = k.user /\ user.rest = gap \o fp
  BY <1>6, <1>9 DEF user
<1>11. privilege.value = k.privilege
  BY <1>7, <1>8, <1>10 DEF privilege
<1>12. dataToRequest(requestToData(k)) =
         [client |-> client.value, user |-> user.value, privilege |-> privilege.value]
  BY DEF dataToRequest, client, user, privilege
<1>13. QED
  BY <1>9, <1>10, <1>11, <1>12 DEF AnyKeys

\* Gui::dataToNotificationRequest reads what Gui::notificationRequestToData wrote,
\* whatever lies behind it in the memory.
LEMMA NotificationRoundTrip ==
  ASSUME NEW i \in Nat, NEW client \in Seq(Nat), NEW privilege \in Seq(Nat),
         NEW leftover \in Seq(Nat)
  PROVE  dataToNotificationRequest(
             notificationRequestToData(i, client, privilege) \o leftover) =
           [id |-> i, client |-> client, privilege |-> privilege]
<1> DEFINE fc == Field(client)
           fp == Field(privilege)
           gap == <<Blank>>
           number == toString[i]
           end == gap \o leftover
           names == fc \o (fp \o end)
           stream == notificationRequestToData(i, client, privilege) \o leftover
<1>1. /\ fc \in Seq(Nat) /\ fp \in Seq(Nat) /\ gap \in Seq(Nat) /\ number \in Seq(Nat)
      /\ <<>> \in Seq(Nat)
  BY FieldType, Characters, Zenon
<1>2. end \in Seq(Nat)
  BY <1>1, Concatenated, Zenon
<1>3. fp \o end \in Seq(Nat)
  BY <1>1, <1>2, Concatenated, Zenon
<1>4. names \in Seq(Nat)
  BY <1>1, <1>3, Concatenated, Zenon
<1>5. gap \o names \in Seq(Nat) /\ (gap \o names)[1] = Blank
  <2>1. gap \o names \in Seq(Nat)
    BY <1>1, <1>4, Concatenated, Zenon
  <2> HIDE DEF names
  <2>2. QED
    BY <1>1, <1>4, <2>1
<1>6. Extracted(<<>> \o (number \o (gap \o names))) = [value |-> i, rest |-> gap \o names]
  BY <1>5, ExtractedNumber
<1>7. Drop(gap \o names, 1) = names
  <2>1. Drop(gap \o names, Len(gap)) = names
    BY <1>1, <1>4, PartsOfConcat
  <2>2. Len(gap) = 1
    OBVIOUS
  <2>3. QED
    BY <2>1, <2>2, Zenon
<1>8. Member(<<>> \o (fc \o (fp \o end))) = [value |-> client, rest |-> gap \o (fp \o end)]
  BY <1>3, MemberOfField
<1>9. <<>> \o names = names
  BY <1>4, Characters, Zenon
<1>10. Member(gap \o (fp \o end)) = [value |-> privilege, rest |-> gap \o end]
  BY <1>2, MemberOfField
<1>11. stream = <<>> \o (number \o (gap \o names))
  <2>1. ((((number \o gap) \o fc) \o fp) \o gap) \o leftover = number \o (gap \o names)
    <3> HIDE DEF number, gap, fc, fp
    <3>1. Regroups6(number, gap, fc, fp, gap, leftover)
      BY <1>1, Associative6, Zenon
    <3>2. QED
      BY <3>1, Zenon DEF Regroups6, names, end
  <2>2. number \o (gap \o names) \in Seq(Nat)
    <3>1. number \in Seq(Nat) /\ gap \o names \in Seq(Nat)
      BY <1>1, <1>5
    <3> HIDE DEF number, gap, names
    <3>2. QED
      BY <3>1, Concatenated, Zenon
  <2>3. <<>> \o (number \o (gap \o names)) = number \o (gap \o names)
    BY <2>2, Characters, Zenon
  <2>4. stream = ((((number \o gap) \o fc) \o fp) \o gap) \o leftover
    BY DEF notificationRequestToData
  <2> HIDE DEF stream, names, end, number, gap, fc, fp
  <2>5. QED
    BY <2>1, <2>3, <2>4, Zenon
<1> HIDE DEF stream, number, gap, names, end, fc, fp
<1>12. Extracted(stream).value = i /\ Extracted(stream).rest = gap \o names
  BY <1>6, <1>11
<1>13. Drop(Extracted(stream).rest, 1) = <<>> \o (fc \o (fp \o end))
  BY <1>7, <1>9, <1>12 DEF names
<1> DEFINE first == Member(Drop(Extracted(stream).rest, 1))
<1> HIDE DEF first
<1> DEFINE second == Member(first.rest)
<1>14. first.value = client /\ first.rest = gap \o (fp \o end)
  <2>1. first = [value |-> client, rest |-> gap \o (fp \o end)]
    BY <1>8, <1>13 DEF first
  <2>2. QED
    BY <2>1
<1>15. second.value = privilege
  BY <1>10, <1>14
<1> HIDE DEF second
<1>16. dataToNotificationRequest(stream) =
         [id |-> Extracted(stream).value, client |-> first.value, privilege |-> second.value]
  BY DEF dataToNotificationRequest, first, second
<1>17. QED
  BY <1>12, <1>14, <1>15, <1>16 DEF stream

-----------------------------------------------------------------------------
(* The key of the cache.                                                   *)

\* Two strings that are the same and whose first parts are as long have the same
\* parts.
LEMMA SameParts ==
  ASSUME NEW s \in Seq(Nat), NEW t \in Seq(Nat), NEW u \in Seq(Nat), NEW v \in Seq(Nat),
         s \o t = u \o v, Len(s) = Len(u)
  PROVE  s = u /\ t = v
<1>1. SubSeq(s \o t, 1, Len(s)) = s /\ Drop(s \o t, Len(s)) = t
  BY PartsOfConcat
<1>2. SubSeq(u \o v, 1, Len(u)) = u /\ Drop(u \o v, Len(u)) = v
  BY PartsOfConcat
<1>3. QED
  BY <1>1, <1>2, Zenon

\* A string, and digits behind it.
WithDigits(s, d) == (s \o <<SOH>>) \o d

\* Digits behind the last separator can be told from what is in front of it.
Tells(s, t, d, e) == WithDigits(s, d) = WithDigits(t, e) => s = t /\ d = e

\* They always can, since no separator is a digit.
LEMMA LastField ==
  \A s, t \in Seq(Nat) : \A d, e \in Seq(Digits) : Tells(s, t, d, e)
<1> SUFFICES ASSUME NEW s \in Seq(Nat), NEW t \in Seq(Nat),
                    NEW d \in Seq(Digits), NEW e \in Seq(Digits),
                    (s \o <<SOH>>) \o d = (t \o <<SOH>>) \o e
             PROVE  s = t /\ d = e
  BY DEF WithDigits, Tells
<1>1. ASSUME NEW x \in Seq(Nat), NEW y \in Seq(Nat), NEW f \in Seq(Digits), NEW g \in Seq(Digits),
             (x \o <<SOH>>) \o f = (y \o <<SOH>>) \o g, Len(x) < Len(y)
      PROVE  FALSE
  <2> DEFINE xs == x \o <<SOH>>
             ys == y \o <<SOH>>
  <2>1. SOH \in Nat /\ SOH \notin Digits
    BY DEF SOH, Digits, Zero
  <2>2. /\ xs \in Seq(Nat) /\ Len(xs) = Len(x) + 1
        /\ ys \in Seq(Nat) /\ Len(ys) = Len(y) + 1 /\ ys[Len(y) + 1] = SOH
    BY <2>1
  <2> HIDE DEF xs, ys
  <2>3. f \in Seq(Nat) /\ g \in Seq(Nat)
    BY DigitsAreCharacters, Zenon
  <2>4. xs \o f = ys \o g
    BY <1>1 DEF xs, ys
  <2>5. Len(xs) + Len(f) = Len(ys) + Len(g)
    <3>1. Len(xs \o f) = Len(xs) + Len(f) /\ Len(ys \o g) = Len(ys) + Len(g)
      BY <2>2, <2>3, Concatenated, Zenon
    <3>2. QED
      BY <2>4, <3>1, Zenon
  <2>6. PICK i \in 1 .. Len(f) : Len(xs) + i = Len(y) + 1
    <3>1. Len(x) \in Nat /\ Len(y) \in Nat /\ Len(f) \in Nat /\ Len(g) \in Nat
      OBVIOUS
    <3>2. Len(x) < Len(y) /\ Len(xs) = Len(x) + 1 /\ Len(ys) = Len(y) + 1
      BY <1>1, <2>2, Zenon
    <3>3. (Len(x) + 1) + Len(f) = (Len(y) + 1) + Len(g)
      BY <2>5, <3>2, Zenon
    <3>4. Len(y) - Len(x) \in 1 .. Len(f)
      BY <3>1, <3>2, <3>3
    <3>5. (Len(x) + 1) + (Len(y) - Len(x)) = Len(y) + 1
      BY <3>1
    <3>6. QED
      BY <3>2, <3>4, <3>5, Zenon
  <2>7. (xs \o f)[Len(xs) + i] = f[i]
    BY <2>2, <2>3, ConcatenatedAt, Zenon
  <2>8. (ys \o g)[Len(y) + 1] = SOH
    <3>1. Len(y) + 1 \in 1 .. Len(ys)
      BY <2>2
    <3>2. (ys \o g)[Len(y) + 1] = ys[Len(y) + 1]
      BY <2>2, <2>3, <3>1
    <3>3. QED
      BY <2>2, <3>2, Zenon
  <2>9. f[i] = SOH
    BY <2>4, <2>6, <2>7, <2>8
  <2>10. f[i] \in Digits
    BY <2>6
  <2>11. QED
    BY <2>1, <2>9, <2>10
<1>2. Len(s) = Len(t)
  <2>1. ~ (Len(s) < Len(t))
    BY <1>1
  <2>2. ~ (Len(t) < Len(s))
    BY <1>1
  <2>3. QED
    BY <2>1, <2>2
<1>3. <<SOH>> \in Seq(Nat) /\ d \in Seq(Nat) /\ e \in Seq(Nat)
  BY Characters, DigitsAreCharacters, Zenon
<1>4. s \o <<SOH>> \in Seq(Nat) /\ t \o <<SOH>> \in Seq(Nat)
  BY <1>3, Concatenated, Zenon
<1>5. Len(s \o <<SOH>>) = Len(t \o <<SOH>>)
  <2>1. Len(s \o <<SOH>>) = Len(s) + Len(<<SOH>>) /\ Len(t \o <<SOH>>) = Len(t) + Len(<<SOH>>)
    BY <1>3, Concatenated, Zenon
  <2>2. QED
    BY <1>2, <2>1, Zenon
<1>6. s \o <<SOH>> = t \o <<SOH>> /\ d = e
  BY <1>3, <1>4, <1>5, SameParts
<1>7. s = t
  BY <1>2, <1>3, <1>6, SameParts
<1>8. QED
  BY <1>6, <1>7

\* Keys of different clients, users and privileges never collide.
LEMMA HasherInjective ==
  ASSUME NEW j \in AnyKeys, NEW k \in AnyKeys, hasher(j) = hasher(k)
  PROVE  j = k
<1> DEFINE names(x) == (x.client \o x.user) \o x.privilege
           one(x) == WithDigits(names(x), toString[Len(x.client)])
           two(x) == WithDigits(one(x), toString[Len(x.user)])
           three(x) == WithDigits(two(x), toString[Len(x.privilege)])
<1>1. \A x \in AnyKeys : hasher(x) = three(x)
  BY DEF hasher, WithDigits
<1>2. ASSUME NEW x \in AnyKeys
      PROVE  /\ x.client \in Seq(Nat) /\ x.user \in Seq(Nat) /\ x.privilege \in Seq(Nat)
             /\ x.client \o x.user \in Seq(Nat) /\ names(x) \in Seq(Nat)
             /\ one(x) \in Seq(Nat) /\ two(x) \in Seq(Nat)
             /\ toString[Len(x.client)] \in Seq(Digits)
             /\ toString[Len(x.user)] \in Seq(Digits)
             /\ toString[Len(x.privilege)] \in Seq(Digits)
  <2>1. x.client \in Seq(Nat) /\ x.user \in Seq(Nat) /\ x.privilege \in Seq(Nat)
    BY DEF AnyKeys
  <2>2. Len(x.client) \in Nat /\ Len(x.user) \in Nat /\ Len(x.privilege) \in Nat
    BY <2>1
  <2>3. /\ toString[Len(x.client)] \in Seq(Digits)
        /\ toString[Len(x.user)] \in Seq(Digits)
        /\ toString[Len(x.privilege)] \in Seq(Digits)
    BY <2>2, NumberOfString
  <2>4. x.client \o x.user \in Seq(Nat)
    BY <2>1, Concatenated, Zenon
  <2>5. names(x) \in Seq(Nat)
    BY <2>1, <2>4, Concatenated, Zenon
  <2> HIDE DEF names
  <2>6. \A s \in Seq(Nat) : \A d \in Seq(Digits) : WithDigits(s, d) \in Seq(Nat)
    BY Characters, Concatenated, DigitsAreCharacters, Zenon DEF WithDigits
  <2>7. one(x) \in Seq(Nat)
    BY <2>3, <2>5, <2>6, Zenon
  <2> HIDE DEF one
  <2>8. two(x) \in Seq(Nat)
    BY <2>3, <2>6, <2>7, Zenon
  <2>9. QED
    BY <2>1, <2>3, <2>4, <2>5, <2>7, <2>8
<1>3. \A m, n \in Nat : toString[m] = toString[n] => m = n
  BY NumberOfString
<1>4. three(j) = three(k)
  BY <1>1, Zenon
<1>5. two(j) = two(k) /\ toString[Len(j.privilege)] = toString[Len(k.privilege)]
  <2>1. two(j) \in Seq(Nat) /\ two(k) \in Seq(Nat)
    BY <1>2, Zenon
  <2>2. /\ toString[Len(j.privilege)] \in Seq(Digits)
        /\ toString[Len(k.privilege)] \in Seq(Digits)
    BY <1>2, Zenon
  <2>3. WithDigits(two(j), toString[Len(j.privilege)]) =
          WithDigits(two(k), toString[Len(k.privilege)])
    BY <1>4, Zenon
  <2> HIDE DEF two
  <2>4. Tells(two(j), two(k), toString[Len(j.privilege)], toString[Len(k.privilege)])
    BY <2>1, <2>2, LastField, Zenon
  <2>5. QED
    BY <2>3, <2>4, Zenon DEF Tells
<1>6. one(j) = one(k) /\ toString[Len(j.user)] = toString[Len(k.user)]
  <2>1. one(j) \in Seq(Nat) /\ one(k) \in Seq(Nat)
    BY <1>2, Zenon
  <2>2. /\ toString[Len(j.user)] \in Seq(Digits)
        /\ toString[Len(k.user)] \in Seq(Digits)
    BY <1>2, Zenon
  <2>3. WithDigits(one(j), toString[Len(j.user)]) =
          WithDigits(one(k), toString[Len(k.user)])
    BY <1>5, Zenon
  <2> HIDE DEF one
  <2>4. Tells(one(j), one(k), toString[Len(j.user)], toString[Len(k.user)])
    BY <2>1, <2>2, LastField, Zenon
  <2>5. QED
    BY <2>3, <2>4, Zenon DEF Tells
<1>7. names(j) = names(k) /\ toString[Len(j.client)] = toString[Len(k.client)]
  <2>1. names(j) \in Seq(Nat) /\ names(k) \in Seq(Nat)
    BY <1>2, Zenon
  <2>2. /\ toString[Len(j.client)] \in Seq(Digits)
        /\ toString[Len(k.client)] \in Seq(Digits)
    BY <1>2, Zenon
  <2>3. WithDigits(names(j), toString[Len(j.client)]) =
          WithDigits(names(k), toString[Len(k.client)])
    BY <1>6, Zenon
  <2> HIDE DEF names
  <2>4. Tells(names(j), names(k), toString[Len(j.client)], toString[Len(k.client)])
    BY <2>1, <2>2, LastField, Zenon
  <2>5. QED
    BY <2>3, <2>4, Zenon DEF Tells
<1>8. Len(j.client) = Len(k.client) /\ Len(j.user) = Len(k.user)
  <2>1. /\ Len(j.client) \in Nat /\ Len(k.client) \in Nat
        /\ Len(j.user) \in Nat /\ Len(k.user) \in Nat
    BY DEF AnyKeys
  <2>2. QED
    BY <1>3, <1>6, <1>7, <2>1, Zenon
<1>9. j.client \o j.user = k.client \o k.user /\ j.privilege = k.privilege
  <2> DEFINE cuj == j.client \o j.user
             cuk == k.client \o k.user
  <2>1. /\ cuj \in Seq(Nat) /\ Len(cuj) = Len(j.client) + Len(j.user)
        /\ cuk \in Seq(Nat) /\ Len(cuk) = Len(k.client) + Len(k.user)
    BY Concatenated, Zenon DEF AnyKeys
  <2>2. cuj \o j.privilege = cuk \o k.privilege
    BY <1>7
  <2>3. j.privilege \in Seq(Nat) /\ k.privilege \in Seq(Nat)
    BY DEF AnyKeys
  <2> HIDE DEF cuj, cuk
  <2>4. Len(cuj) = Len(cuk)
    BY <1>8, <2>1
  <2>5. cuj = cuk /\ j.privilege = k.privilege
    BY <2>1, <2>2, <2>3, <2>4, SameParts, Zenon
  <2>6. QED
    BY <2>5 DEF cuj, cuk
<1>10. j.client = k.client /\ j.user = k.user
  <2>1. /\ j.client \in Seq(Nat) /\ k.client \in Seq(Nat)
        /\ j.user \in Seq(Nat) /\ k.user \in Seq(Nat)
    BY DEF AnyKeys
  <2>2. QED
    BY <1>8, <1>9, <2>1, SameParts, Zenon
<1>11. /\ j = [client |-> j.client, user |-> j.user, privilege |-> j.privilege]
       /\ k = [client |-> k.client, user |-> k.user, privilege |-> k.privilege]
  BY DEF AnyKeys
<1>12. QED
  BY <1>9, <1>10, <1>11, Zenon

-----------------------------------------------------------------------------
(* The way of a request.                                                   *)

\* What goes along with the stage: the data and the request still say what cynara
\* asked about, and the cache has nothing but decisions under their own keys.
Invariant ==
  /\ stage \in {"idle", "asked", "queued", "shown", "found"}
  /\ stage # "idle" => key \in Keys /\ id \in RequestIds
  /\ stage = "asked" => data = requestToData(key)
  /\ stage = "queued" => request = key
  /\ stage = "shown" =>
       popup = [id |-> id, client |-> key.client, privilege |-> key.privilege]
  /\ stage = "found" => \E entry \in m_cache : entry.hash = hasher(key)
  /\ \A entry \in m_cache : entry.names \in Keys /\ entry.hash = hasher(entry.names)

\* The constants hold strings and ids.
LEMMA ConstantTypes ==
  /\ Keys \subseteq AnyKeys
  /\ Leftovers \subseteq Seq(Nat)
  /\ RequestIds \subseteq Nat
<1>1. Names \subseteq Seq(Nat) /\ Leftovers \subseteq Seq(Nat)
  <2>1. \A s \in Names \cup Leftovers : s \in Seq(Nat)
    BY NamesAssumption, Zenon
  <2>2. QED
    BY <2>1, Zenon
<1>2. ASSUME NEW k \in Keys PROVE k \in AnyKeys
  <2>1. /\ k = [client |-> k.client, user |-> k.user, privilege |-> k.privilege]
        /\ k.client \in Names /\ k.user \in Names /\ k.privilege \in Names
    BY DEF Keys
  <2>2. k.client \in Seq(Nat) /\ k.user \in Seq(Nat) /\ k.privilege \in Seq(Nat)
    BY <1>1, <2>1
  <2>3. QED
    BY <2>1, <2>2, Zenon DEF AnyKeys
<1>3. ASSUME NEW i \in RequestIds PROVE i \in Nat
  <2>1. i \in 0 .. 2 ^ 16 - 1
    BY RequestIdsAssumption, Zenon
  <2>2. QED
    BY <2>1
<1>4. QED
  BY <1>1, <1>2, <1>3, Zenon

\* The popup reads what startUI made the talker send.
LEMMA Shown ==
  ASSUME NEW k \in Keys, NEW i \in RequestIds, NEW leftover \in Leftovers
  PROVE  dataToNotificationRequest(
             notificationRequestToData(i, k.client, k.privilege) \o leftover) =
           [id |-> i, client |-> k.client, privilege |-> k.privilege]
<1>1. k.client \in Seq(Nat) /\ k.privilege \in Seq(Nat) /\ i \in Nat /\ leftover \in Seq(Nat)
  BY ConstantTypes DEF AnyKeys
<1>2. QED
  BY <1>1, NotificationRoundTrip

\* The invariant is inductive.
LEMMA InvariantHolds == Spec => []Invariant
<1>1. Init => Invariant
  BY DEF Init, Invariant
<1>2. ASSUME Invariant, [Next]_vars PROVE Invariant'
  <2> USE <1>2
  <2>1. ASSUME NEW k \in Keys, NEW i \in RequestIds, check(k, i) PROVE Invariant'
    <3> HIDE <1>2
    <3>1. CASE \E entry \in m_cache : entry.hash = hasher(k)
      BY <1>2, <2>1, <3>1 DEF Invariant, check
    <3>2. CASE ~ \E entry \in m_cache : entry.hash = hasher(k)
      BY <1>2, <2>1, <3>2 DEF Invariant, check
    <3>3. QED
      BY <3>1, <3>2
  <2>2. CASE decided
    BY <2>2 DEF Invariant, decided, Idle
  <2>3. CASE startUI
    <3>1. request' = key
      <4>1. key \in AnyKeys /\ request' = dataToRequest(requestToData(key))
        BY <2>3, ConstantTypes DEF Invariant, startUI
      <4>2. QED
        BY <4>1, RequestRoundTrip
    <3>2. QED
      BY <2>3, <3>1 DEF Invariant, startUI
  <2>4. ASSUME NEW leftover \in Leftovers, show(leftover) PROVE Invariant'
    <3>1. popup' = [id |-> id, client |-> key.client, privilege |-> key.privilege]
      <4>1. key \in Keys /\ id \in RequestIds /\ request = key
        BY <2>4 DEF Invariant, show
      <4>2. popup' = dataToNotificationRequest(
                       notificationRequestToData(id, key.client, key.privilege) \o leftover)
        BY <2>4, <4>1 DEF show
      <4>3. QED
        BY <4>1, <4>2, Shown
    <3>2. QED
      BY <2>4, <3>1 DEF Invariant, show
  <2>5. CASE update
    <3>1. key \in Keys
      BY <2>5 DEF Invariant, update
    <3>2. \A entry \in m_cache' : entry.names \in Keys /\ entry.hash = hasher(entry.names)
      BY <2>5, <3>1 DEF Invariant, update
    <3>3. QED
      BY <2>5, <3>2 DEF Invariant, update, Idle
  <2>6. CASE UNCHANGED vars
    BY <2>6 DEF Invariant, vars
  <2>7. QED
    BY <2>1, <2>2, <2>3, <2>4, <2>5, <2>6 DEF Next
<1>3. QED
  BY <1>1, <1>2, PTL DEF Spec

\* The agent gets the client, the user and the privilege that the plugin was asked
\* about, for names of any length and any characters: Agent::dataToRequest undoes
\* Plugin::requestToData.
THEOREM AgentCorrect == Spec => []AgentGetsTheRequest
<1>1. Invariant => AgentGetsTheRequest
  BY DEF Invariant, AgentGetsTheRequest
<1>2. QED
  BY <1>1, InvariantHolds, PTL

\* The popup shows them too, and keeps the id, whatever lies behind the buffer.
THEOREM PopupCorrect == Spec => []PopupShowsTheRequest
<1>1. Invariant => PopupShowsTheRequest
  BY DEF Invariant, PopupShowsTheRequest
<1>2. QED
  BY <1>1, InvariantHolds, PTL

\* A decision that check finds in the cache is one made for these names: the
\* plugin's hasher gives two keys of different names different strings.
THEOREM HitsCorrect == Spec => []HitsAreOwn
<1>1. Invariant => HitsAreOwn
  <2>1. SUFFICES ASSUME Invariant, stage = "found"
                 PROVE  \E entry \in m_cache : entry.names = key
    BY DEF HitsAreOwn
  <2>2. PICK entry \in m_cache : entry.hash = hasher(key)
    BY <2>1 DEF Invariant
  <2>3. key \in AnyKeys /\ entry.names \in AnyKeys /\ hasher(entry.names) = hasher(key)
    BY <2>1, <2>2, ConstantTypes DEF Invariant
  <2>4. entry.names = key
    BY <2>3, HasherInjective
  <2>5. QED
    BY <2>4
<1>2. QED
  BY <1>1, InvariantHolds, PTL
=============================================================================
