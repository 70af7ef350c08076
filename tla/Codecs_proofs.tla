---------------------------- MODULE Codecs_proofs ----------------------------
(***************************************************************************)
(* Proofs about Codecs, for inputs of any length, any set of widths and    *)
(* any number of byte values: every codec restores what it encoded, the    *)
(* two passes of sparse_num agree, merge_sorted emits the sorted union of  *)
(* its runs, no decoder accepts an output it did not write in full, and    *)
(* the vector code of prefix stays inside its buffers.                     *)
(*                                                                         *)
(* The kernels are loops, written as recursive functions over the number   *)
(* of turns.  What one computes is proved by induction over sets: the set  *)
(* of the turns after which a fact holds contains 0 and is closed under +1 *)
(* (SetInduction, LoopInduction).  LoopExists and LoopUnique show that the *)
(* recursive definition of a loop has its intended value; every loop has a *)
(* lemma ...States that derives its base and its turn from them.           *)
(*                                                                         *)
(* Then, codec by codec, what it sends, that decoding undoes it, and that  *)
(* what is accepted was written; last the state machine: encode, damage,   *)
(* decode.                                                                 *)
(***************************************************************************)
EXTENDS Codecs, FiniteSetTheorems, WellFoundedInduction, TLAPS

(* The least element of a set of numbers.                                  *)
LEMMA LeastNumber ==
    ASSUME NEW T \in SUBSET Nat, T # {}
    PROVE  \E m \in T : \A n \in T : m <= n
<1> DEFINE R == OpToRel(<, Nat)
<1>1. IsWellFoundedOn(R, Nat)
  BY NatLessThanWellFounded, Zenon
<1>2. PICK m \in T : \A n \in T : ~ (<<n, m>> \in R)
  <2> HIDE DEF R
  <2> QED BY <1>1, WFMin
<1>3. \A n \in T : <<n, m>> \in R <=> n < m
  BY DEF OpToRel
<1> HIDE DEF R
<1>4. m \in Nat /\ \A n \in T : n \in Nat /\ ~(n < m)
  BY <1>2, <1>3
<1>5. QED
  BY <1>4

(* Induction, with the set of the numbers that have the property.          *)
LEMMA SetInduction ==
    ASSUME NEW S, 0 \in S, \A n \in Nat : n \in S => n + 1 \in S
    PROVE  \A n \in Nat : n \in S
<1>1. SUFFICES ASSUME Nat \ S # {} PROVE FALSE
  OBVIOUS
<1>2. PICK m \in Nat \ S : \A n \in Nat \ S : m <= n
  <2>1. Nat \ S \in SUBSET Nat
    OBVIOUS
  <2>2. QED
    BY <1>1, <2>1, LeastNumber
<1>3. m # 0
  OBVIOUS
<1>4. m - 1 \in Nat /\ ~(m <= m - 1)
  BY <1>3
<1>5. m - 1 \in S
  BY <1>2, <1>4
<1>6. (m - 1) + 1 \in S
  BY <1>5, <1>4
<1>7. QED
  BY <1>6

(* Induction over the indices of a loop of N turns.                        *)
LEMMA LoopInduction ==
    ASSUME NEW N \in Nat, NEW S, 0 \in S, \A n \in 1..N : n - 1 \in S => n \in S
    PROVE  \A n \in 0..N : n \in S
<1> DEFINE T == {n \in Nat : n <= N => n \in S}
<1>1. 0 \in T
  OBVIOUS
<1>2. ASSUME NEW n \in Nat, n \in T PROVE n + 1 \in T
  <2>1. CASE n + 1 <= N
    <3>1. n + 1 \in 1..N /\ (n + 1) - 1 = n /\ n \in S
      BY <1>2, <2>1
    <3> QED BY <3>1
  <2> QED BY <2>1
<1> HIDE DEF T
<1>3. \A n \in Nat : n \in T
  BY <1>1, <1>2, SetInduction
<1> QED BY <1>3 DEF T

(* A loop whose state stays in St: the recursive definition of its states  *)
(* after n turns has a solution, and the solution stays in St.             *)
IsLoop(f, base, step, N) ==
    f = [n \in 0..N |-> IF n = 0 THEN base ELSE step[<<n, f[n - 1]>>]]

LEMMA LoopExists ==
    ASSUME NEW St, NEW base \in St, NEW N \in Nat, NEW step,
           \A n \in 1..N : \A x \in St : step[<<n, x>>] \in St
    PROVE  \E f \in [0..N -> St] : IsLoop(f, base, step, N)
<1> DEFINE S == {n \in 0..N : \E f \in [0..n -> St] : IsLoop(f, base, step, n)}
<1>1. 0 \in S
  <2> DEFINE f == [n \in 0..0 |-> base]
  <2>1. f \in [0..0 -> St]
    OBVIOUS
  <2>2. IsLoop(f, base, step, 0)
    BY DEF IsLoop
  <2> QED BY <2>1, <2>2
<1>2. ASSUME NEW n \in 1..N, n - 1 \in S PROVE n \in S
  <2>1. PICK f \in [0..n - 1 -> St] : IsLoop(f, base, step, n - 1)
    BY <1>2
  <2> DEFINE h == [t \in 0..n |-> IF t = n THEN step[<<n, f[n - 1]>>] ELSE f[t]]
  <2>2. \A t \in 0..n - 1 : f[t] = IF t = 0 THEN base ELSE step[<<t, f[t - 1]>>]
    BY <2>1 DEF IsLoop
  <2>3. f[n - 1] \in St
    OBVIOUS
  <2>4. DOMAIN h = 0..n /\ h[n] = step[<<n, f[n - 1]>>] /\ \A t \in 0..n - 1 : h[t] = f[t]
    OBVIOUS
  <2>5. h \in [0..n -> St]
    BY <2>3
  <2> HIDE DEF h
  <2>6. ASSUME NEW t \in 0..n PROVE h[t] = IF t = 0 THEN base ELSE step[<<t, h[t - 1]>>]
    <3>1. t # 0 => t - 1 \in 0..n - 1
      OBVIOUS
    <3>2. CASE t = n
      BY <2>4, <3>1, <3>2
    <3>3. CASE t \in 0..n - 1
      BY <2>2, <2>4, <3>1, <3>3
    <3> QED BY <3>2, <3>3
  <2>7. IsLoop(h, base, step, n)
    <3> DEFINE g == [t \in 0..n |-> IF t = 0 THEN base ELSE step[<<t, h[t - 1]>>]]
    <3>1. g = [t \in 0..n |-> g[t]] /\ \A t \in 0..n : g[t] = IF t = 0 THEN base ELSE step[<<t, h[t - 1]>>]
      OBVIOUS
    <3>2. \A t \in 0..n : g[t] = h[t]
      <4> HIDE DEF g
      <4> QED BY <2>6, <3>1
    <3>3. h = [t \in 0..n |-> h[t]]
      BY <2>5
    <3>4. h = g
      <4> HIDE DEF g
      <4> QED BY <3>1, <3>2, <3>3
    <3> QED BY <3>4 DEF IsLoop
  <2>8. n \in 0..N
    OBVIOUS
  <2> QED BY <2>5, <2>7, <2>8
<1> HIDE DEF S
<1>3. \A n \in 0..N : n \in S
  BY <1>1, <1>2, LoopInduction
<1> QED BY <1>3 DEF S

(* What such a function is, index by index.                                *)
LoopTurns(f, base, step, N, St) ==
    f[0] = base /\ \A n \in 1..N : f[n - 1] \in St /\ f[n] = step[<<n, f[n - 1]>>]

LEMMA LoopFacts ==
    ASSUME NEW St, NEW base, NEW step, NEW N \in Nat, NEW f \in [0..N -> St], IsLoop(f, base, step, N)
    PROVE  LoopTurns(f, base, step, N, St)
<1>1. \A n \in 0..N : f[n] = IF n = 0 THEN base ELSE step[<<n, f[n - 1]>>]
  BY DEF IsLoop
<1>2. 0 \in 0..N /\ \A n \in 1..N : n \in 0..N /\ n # 0 /\ n - 1 \in 0..N
  OBVIOUS
<1> QED BY <1>1, <1>2 DEF LoopTurns

(* Two loops that start alike and go on alike are the same.                *)
SameTurns(f, g, N) ==
    /\ f = [n \in 0..N |-> f[n]] /\ g = [n \in 0..N |-> g[n]] /\ f[0] = g[0]
    /\ \A n \in 1..N : f[n - 1] = g[n - 1] => f[n] = g[n]

LEMMA SameLoop ==
    ASSUME NEW N \in Nat, NEW f, NEW g, SameTurns(f, g, N)
    PROVE  f = g
<1> DEFINE S == {n \in 0..N : f[n] = g[n]}
<1>1. 0 \in S
  BY DEF SameTurns
<1>2. ASSUME NEW n \in 1..N, n - 1 \in S PROVE n \in S
  <2>1. n \in 0..N /\ f[n - 1] = g[n - 1]
    BY <1>2
  <2> QED BY <2>1 DEF SameTurns
<1> HIDE DEF S
<1>3. \A n \in 0..N : n \in S
  BY <1>1, <1>2, LoopInduction
<1>4. \A n \in 0..N : f[n] = g[n]
  BY <1>3 DEF S
<1>5. f = [n \in 0..N |-> f[n]] /\ g = [n \in 0..N |-> g[n]]
  BY DEF SameTurns
<1> QED BY <1>4, <1>5

(* At most one function on the indices is the state of such a loop.        *)
LEMMA LoopUnique ==
    ASSUME NEW base, NEW step, NEW M \in Nat, NEW N \in Nat, M <= N, NEW f, NEW g,
           IsLoop(f, base, step, M), IsLoop(g, base, step, N)
    PROVE  \A n \in 0..M : f[n] = g[n]
<1> DEFINE S == {n \in 0..M : f[n] = g[n]}
<1>1. \A n \in 0..M : f[n] = IF n = 0 THEN base ELSE step[<<n, f[n - 1]>>]
  BY DEF IsLoop
<1>2. \A n \in 0..M : g[n] = IF n = 0 THEN base ELSE step[<<n, g[n - 1]>>]
  <2>1. \A n \in 0..N : g[n] = IF n = 0 THEN base ELSE step[<<n, g[n - 1]>>]
    BY DEF IsLoop
  <2> QED BY <2>1
<1>3. 0 \in S
  <2>1. 0 \in 0..M
    OBVIOUS
  <2>2. f[0] = base /\ g[0] = base
    BY <1>1, <1>2, <2>1
  <2> QED BY <2>1, <2>2
<1>4. ASSUME NEW n \in 1..M, n - 1 \in S PROVE n \in S
  <2>1. n \in 0..M /\ n # 0 /\ f[n - 1] = g[n - 1]
    BY <1>4
  <2> QED BY <1>1, <1>2, <2>1
<1> HIDE DEF S
<1>5. \A n \in 0..M : n \in S
  BY <1>3, <1>4, LoopInduction
<1> QED BY <1>5 DEF S

-----------------------------------------------------------------------------
(* The powers of the number of values of a byte.                           *)
LEMMA PowerDef ==
    /\ Power[0] = 1
    /\ \A n \in Nat : Power[n] \in Nat
    /\ \A n \in Nat : Power[n + 1] = ByteValues * Power[n]
<1> DEFINE step == [p \in Nat \X Nat |-> ByteValues * p[2]]
           Is(f, n) == f \in [0..n -> Nat] /\ IsLoop(f, 1, step, n)
           F(n) == CHOOSE f : Is(f, n)
           g == [n \in Nat |-> F(n)[n]]
<1>0. ByteValues \in Nat
  BY WidthsAssumption
<1>1. \A n, x \in Nat : step[<<n, x>>] = ByteValues * x /\ ByteValues * x \in Nat
  BY <1>0
<1>2. ASSUME NEW n \in Nat PROVE Is(F(n), n)
  <2>1. \A k \in 1..n : \A x \in Nat : step[<<k, x>>] \in Nat
    <3> TAKE k \in 1..n, x \in Nat
    <3>1. k \in Nat
      OBVIOUS
    <3> QED BY <1>0, <3>1
  <2> HIDE DEF step
  <2>2. \E f \in [0..n -> Nat] : IsLoop(f, 1, step, n)
    BY <2>1, LoopExists
  <2>3. \E f : Is(f, n)
    BY <2>2
  <2> HIDE DEF Is
  <2> QED BY <2>3
<1>3. g = [n \in Nat |-> IF n = 0 THEN 1 ELSE ByteValues * g[n - 1]]
  <2>1. ASSUME NEW n \in Nat PROVE g[n] = IF n = 0 THEN 1 ELSE ByteValues * g[n - 1]
    <3>1. F(n) \in [0..n -> Nat] /\ IsLoop(F(n), 1, step, n)
      BY <1>2
    <3>2. CASE n = 0
      <4> HIDE DEF F, step
      <4>1. F(0)[0] = 1
        BY <3>1, <3>2 DEF IsLoop
      <4> QED BY <4>1, <3>2
    <3>3. CASE n # 0
      <4>1. n - 1 \in Nat /\ n - 1 <= n
        BY <3>3
      <4>2. F(n - 1) \in [0..n - 1 -> Nat] /\ IsLoop(F(n - 1), 1, step, n - 1)
        BY <1>2, <4>1
      <4> HIDE DEF F
      <4>3. F(n)[n - 1] = F(n - 1)[n - 1]
        <5> HIDE DEF step
        <5> QED BY <3>1, <4>1, <4>2, LoopUnique
      <4>4. F(n)[n] = step[<<n, F(n)[n - 1]>>]
        <5> HIDE DEF step
        <5> QED BY <3>1, <3>3 DEF IsLoop
      <4>5. F(n)[n - 1] \in Nat
        BY <3>1, <4>1
      <4>6. F(n)[n] = ByteValues * F(n)[n - 1]
        <5> HIDE DEF step
        <5> QED BY <4>4, <4>5, <1>1
      <4>7. g[n] = F(n)[n] /\ g[n - 1] = F(n - 1)[n - 1]
        BY <4>1
      <4> HIDE DEF g
      <4> QED BY <4>3, <4>6, <4>7, <3>3
    <3> HIDE DEF g
    <3> QED BY <3>2, <3>3
  <2> DEFINE h == [n \in Nat |-> IF n = 0 THEN 1 ELSE ByteValues * g[n - 1]]
  <2>2. h = [n \in Nat |-> h[n]] /\ \A n \in Nat : h[n] = IF n = 0 THEN 1 ELSE ByteValues * g[n - 1]
    OBVIOUS
  <2>3. g = [n \in Nat |-> g[n]]
    OBVIOUS
  <2>4. \A n \in Nat : g[n] = h[n]
    <3> HIDE DEF g, h
    <3> QED BY <2>1, <2>2
  <2>5. g = h
    <3> HIDE DEF g, h
    <3> QED BY <2>2, <2>3, <2>4
  <2> QED BY <2>5
<1>4. Power = [n \in Nat |-> IF n = 0 THEN 1 ELSE ByteValues * Power[n - 1]]
  <2> HIDE DEF g
  <2> QED BY <1>3 DEF Power
<1>5. \A n \in Nat : Power[n] = IF n = 0 THEN 1 ELSE ByteValues * Power[n - 1]
  BY <1>4
<1>6. Power[0] = 1
  BY <1>5
<1>7. \A n \in Nat : Power[n + 1] = ByteValues * Power[n]
  <2> TAKE n \in Nat
  <2>1. n + 1 \in Nat /\ n + 1 # 0 /\ (n + 1) - 1 = n
    OBVIOUS
  <2> QED BY <1>5, <2>1
<1> DEFINE S == {n \in Nat : Power[n] \in Nat}
<1>8. 0 \in S
  BY <1>6
<1>9. ASSUME NEW n \in Nat, n \in S PROVE n + 1 \in S
  BY <1>0, <1>7, <1>9
<1> HIDE DEF S
<1>10. \A n \in Nat : n \in S
  BY <1>8, <1>9, SetInduction
<1> QED BY <1>6, <1>7, <1>10 DEF S

(* A power of the number of byte values is positive.                       *)
LEMMA PowerPositive == \A n \in Nat : Power[n] \in Nat /\ Power[n] > 0
<1> DEFINE S == {n \in Nat : Power[n] > 0}
<1>1. 0 \in S
  BY PowerDef
<1>2. ASSUME NEW n \in Nat, n \in S PROVE n + 1 \in S
  <2>1. Power[n] \in Nat /\ Power[n] > 0 /\ ByteValues \in Nat /\ ByteValues > 0
    BY <1>2, PowerDef, WidthsAssumption
  <2>2. ByteValues * Power[n] > 0
    BY <2>1
  <2> QED BY <2>2, PowerDef
<1> HIDE DEF S
<1>3. \A n \in Nat : n \in S
  BY <1>1, <1>2, SetInduction
<1> QED BY <1>3, PowerDef DEF S

(* How many values a width holds.                                          *)
LEMMA WidthModulus ==
    ASSUME NEW w \in Nat \ {0}
    PROVE  /\ Modulus(w) \in Nat /\ Modulus(w) > 0
           /\ ZL_maxValueForWidth(w) \in Nat /\ ZL_maxValueForWidth(w) = Modulus(w) - 1
<1>1. w \in Nat
  OBVIOUS
<1> QED BY <1>1, PowerPositive DEF Modulus, ZL_maxValueForWidth

(* ZL_readLE64_N(), from the last byte to the first.                       *)
LEMMA ReadLEStates ==
    ASSUME NEW bytes \in Seq(Nat)
    PROVE  \E f \in [0..Len(bytes) -> Nat] :
             /\ ReadLE(bytes) = f[Len(bytes)]
             /\ f[0] = 0
             /\ \A n \in 1..Len(bytes) : f[n] = bytes[Len(bytes) + 1 - n] + ByteValues * f[n - 1]
<1> DEFINE N == Len(bytes)
           T == Nat
           base == 0
           E(k, x) == bytes[Len(bytes) + 1 - k] + ByteValues * x
           step == [p \in (1..N) \X T |-> E(p[1], p[2])]
           value == CHOOSE f : f = [n \in 0..N |-> IF n = 0 THEN base ELSE E(n, f[n - 1])]
<1>1. N \in Nat
  OBVIOUS
<1>2. base \in T
  OBVIOUS
<1>3. ASSUME NEW k \in 1..N, NEW x \in T PROVE E(k, x) \in T
  <2>1. Len(bytes) + 1 - k \in 1..Len(bytes) /\ ByteValues \in Nat
    BY WidthsAssumption
  <2>2. bytes[Len(bytes) + 1 - k] \in Nat
    BY <2>1
  <2> QED BY <2>1, <2>2
<1>4. value = CHOOSE f : f = [n \in 0..N |-> IF n = 0 THEN base ELSE E(n, f[n - 1])]
  OBVIOUS
<1>5. ReadLE(bytes) = value[Len(bytes)]
  BY DEF ReadLE
<1> HIDE DEF N, T, base, E, value
<1>6. ASSUME NEW k \in 1..N, NEW x \in T PROVE step[<<k, x>>] = E(k, x)
  OBVIOUS
<1> HIDE DEF step
<1>7. PICK f \in [0..N -> T] : IsLoop(f, base, step, N)
  <2>1. \A k \in 1..N : \A x \in T : step[<<k, x>>] \in T
    <3> TAKE k \in 1..N
    <3> TAKE x \in T
    <3> QED BY <1>3, <1>6
  <2> QED BY <1>1, <1>2, <2>1, LoopExists
<1>8. f[0] = base /\ \A n \in 1..N : f[n] = E(n, f[n - 1])
  <2>1. LoopTurns(f, base, step, N, T)
    BY <1>1, <1>7, LoopFacts
  <2> QED BY <1>6, <2>1 DEF LoopTurns
<1>9. value = [n \in 0..N |-> IF n = 0 THEN base ELSE E(n, value[n - 1])]
  <2>1. f = [n \in 0..N |-> IF n = 0 THEN base ELSE E(n, f[n - 1])]
    BY <1>1, <1>7, <1>8
  <2> QED BY <1>4, <2>1
<1>10. value[0] = base /\ \A n \in 1..N : value[n] = E(n, value[n - 1])
  <2>1. 0 \in 0..N /\ \A n \in 1..N : n \in 0..N /\ n # 0
    BY <1>1
  <2> QED BY <1>9, <2>1
<1>11. value = [n \in 0..N |-> value[n]]
  BY <1>9
<1>12. f = value
  <2>1. ASSUME NEW n \in 1..N, f[n - 1] = value[n - 1] PROVE f[n] = value[n]
    BY <1>8, <1>10, <2>1
  <2>2. f = [n \in 0..N |-> f[n]] /\ f[0] = value[0]
    BY <1>7, <1>8, <1>10
  <2>3. SameTurns(f, value, N)
    BY <1>11, <2>1, <2>2 DEF SameTurns
  <2> QED BY <1>1, <2>3, SameLoop
<1> QED BY <1>5, <1>7, <1>8, <1>12 DEF N, T, base, E

(* The partial sums of a sequence.                                         *)
LEMMA SumStates ==
    ASSUME NEW s \in Seq(Nat)
    PROVE  \E f \in [0..Len(s) -> Nat] :
             /\ Sums(s) = f
             /\ f[0] = 0
             /\ \A n \in 1..Len(s) : f[n] = f[n - 1] + s[n]
<1> DEFINE N == Len(s)
           T == Nat
           base == 0
           E(k, x) == x + s[k]
           step == [p \in (1..N) \X T |-> E(p[1], p[2])]
           value == CHOOSE f : f = [n \in 0..N |-> IF n = 0 THEN base ELSE E(n, f[n - 1])]
<1>1. N \in Nat
  OBVIOUS
<1>2. base \in T
  OBVIOUS
<1>3. ASSUME NEW k \in 1..N, NEW x \in T PROVE E(k, x) \in T
    OBVIOUS
<1>4. value = CHOOSE f : f = [n \in 0..N |-> IF n = 0 THEN base ELSE E(n, f[n - 1])]
  OBVIOUS
<1>5. Sums(s) = value
  BY DEF Sums
<1> HIDE DEF N, T, base, E, value
<1>6. ASSUME NEW k \in 1..N, NEW x \in T PROVE step[<<k, x>>] = E(k, x)
  OBVIOUS
<1> HIDE DEF step
<1>7. PICK f \in [0..N -> T] : IsLoop(f, base, step, N)
  <2>1. \A k \in 1..N : \A x \in T : step[<<k, x>>] \in T
    <3> TAKE k \in 1..N
    <3> TAKE x \in T
    <3> QED BY <1>3, <1>6
  <2> QED BY <1>1, <1>2, <2>1, LoopExists
<1>8. f[0] = base /\ \A n \in 1..N : f[n] = E(n, f[n - 1])
  <2>1. LoopTurns(f, base, step, N, T)
    BY <1>1, <1>7, LoopFacts
  <2> QED BY <1>6, <2>1 DEF LoopTurns
<1>9. value = [n \in 0..N |-> IF n = 0 THEN base ELSE E(n, value[n - 1])]
  <2>1. f = [n \in 0..N |-> IF n = 0 THEN base ELSE E(n, f[n - 1])]
    BY <1>1, <1>7, <1>8
  <2> QED BY <1>4, <2>1
<1>10. value[0] = base /\ \A n \in 1..N : value[n] = E(n, value[n - 1])
  <2>1. 0 \in 0..N /\ \A n \in 1..N : n \in 0..N /\ n # 0
    BY <1>1
  <2> QED BY <1>9, <2>1
<1>11. value = [n \in 0..N |-> value[n]]
  BY <1>9
<1>12. f = value
  <2>1. ASSUME NEW n \in 1..N, f[n - 1] = value[n - 1] PROVE f[n] = value[n]
    BY <1>8, <1>10, <2>1
  <2>2. f = [n \in 0..N |-> f[n]] /\ f[0] = value[0]
    BY <1>7, <1>8, <1>10
  <2>3. SameTurns(f, value, N)
    BY <1>11, <2>1, <2>2 DEF SameTurns
  <2> QED BY <1>1, <2>3, SameLoop
<1> QED BY <1>5, <1>7, <1>8, <1>12 DEF N, T, base, E

(* The partial concatenations of a sequence of sequences.                  *)
LEMMA ConcatStates ==
    ASSUME NEW V, NEW seqs \in Seq(Seq(V))
    PROVE  \E f \in [0..Len(seqs) -> Seq(V)] :
             /\ Concats(seqs) = f
             /\ f[0] = <<>>
             /\ \A n \in 1..Len(seqs) : f[n] = f[n - 1] \o seqs[n]
<1> DEFINE N == Len(seqs)
           T == Seq(V)
           base == <<>>
           E(k, x) == x \o seqs[k]
           step == [p \in (1..N) \X T |-> E(p[1], p[2])]
           value == CHOOSE f : f = [n \in 0..N |-> IF n = 0 THEN base ELSE E(n, f[n - 1])]
<1>1. N \in Nat
  OBVIOUS
<1>2. base \in T
  OBVIOUS
<1>3. ASSUME NEW k \in 1..N, NEW x \in T PROVE E(k, x) \in T
    OBVIOUS
<1>4. value = CHOOSE f : f = [n \in 0..N |-> IF n = 0 THEN base ELSE E(n, f[n - 1])]
  OBVIOUS
<1>5. Concats(seqs) = value
  BY DEF Concats
<1> HIDE DEF N, T, base, E, value
<1>6. ASSUME NEW k \in 1..N, NEW x \in T PROVE step[<<k, x>>] = E(k, x)
  OBVIOUS
<1> HIDE DEF step
<1>7. PICK f \in [0..N -> T] : IsLoop(f, base, step, N)
  <2>1. \A k \in 1..N : \A x \in T : step[<<k, x>>] \in T
    <3> TAKE k \in 1..N
    <3> TAKE x \in T
    <3> QED BY <1>3, <1>6
  <2> QED BY <1>1, <1>2, <2>1, LoopExists
<1>8. f[0] = base /\ \A n \in 1..N : f[n] = E(n, f[n - 1])
  <2>1. LoopTurns(f, base, step, N, T)
    BY <1>1, <1>7, LoopFacts
  <2> QED BY <1>6, <2>1 DEF LoopTurns
<1>9. value = [n \in 0..N |-> IF n = 0 THEN base ELSE E(n, value[n - 1])]
  <2>1. f = [n \in 0..N |-> IF n = 0 THEN base ELSE E(n, f[n - 1])]
    BY <1>1, <1>7, <1>8
  <2> QED BY <1>4, <2>1
<1>10. value[0] = base /\ \A n \in 1..N : value[n] = E(n, value[n - 1])
  <2>1. 0 \in 0..N /\ \A n \in 1..N : n \in 0..N /\ n # 0
    BY <1>1
  <2> QED BY <1>9, <2>1
<1>11. value = [n \in 0..N |-> value[n]]
  BY <1>9
<1>12. f = value
  <2>1. ASSUME NEW n \in 1..N, f[n - 1] = value[n - 1] PROVE f[n] = value[n]
    BY <1>8, <1>10, <2>1
  <2>2. f = [n \in 0..N |-> f[n]] /\ f[0] = value[0]
    BY <1>7, <1>8, <1>10
  <2>3. SameTurns(f, value, N)
    BY <1>11, <2>1, <2>2 DEF SameTurns
  <2> QED BY <1>1, <2>3, SameLoop
<1> QED BY <1>5, <1>7, <1>8, <1>12 DEF N, T, base, E

(* ZS_deltaDecode(): the element after n deltas.                            *)
LEMMA DeltaStates ==
    ASSUME NEW deltas \in Seq(Nat), NEW first \in Nat, NEW width \in Nat \ {0}
    PROVE  \E f \in [0..Len(deltas) -> Nat] :
             /\ ZS_deltaDecode(first, deltas, width) = [n \in 1..Len(deltas) + 1 |-> f[n - 1]]
             /\ f[0] = first
             /\ \A n \in 1..Len(deltas) : f[n] = Cast(f[n - 1] + deltas[n], width)
<1> DEFINE N == Len(deltas)
           T == Nat
           base == first
           E(k, x) == Cast(x + deltas[k], width)
           step == [p \in (1..N) \X T |-> E(p[1], p[2])]
           value == CHOOSE f : f = [n \in 0..N |-> IF n = 0 THEN base ELSE E(n, f[n - 1])]
<1>1. N \in Nat
  OBVIOUS
<1>2. base \in T
  OBVIOUS
<1>3. ASSUME NEW k \in 1..N, NEW x \in T PROVE E(k, x) \in T
  <2>1. x + deltas[k] \in Nat
    OBVIOUS
  <2>2. Modulus(width) \in Nat /\ Modulus(width) > 0
    BY WidthModulus
  <2> QED BY <2>1, <2>2 DEF Cast
<1>4. value = CHOOSE f : f = [n \in 0..N |-> IF n = 0 THEN base ELSE E(n, f[n - 1])]
  OBVIOUS
<1>5. ZS_deltaDecode(first, deltas, width) = [n \in 1..Len(deltas) + 1 |-> value[n - 1]]
  BY DEF ZS_deltaDecode
<1> HIDE DEF N, T, base, E, value
<1>6. ASSUME NEW k \in 1..N, NEW x \in T PROVE step[<<k, x>>] = E(k, x)
  OBVIOUS
<1> HIDE DEF step
<1>7. PICK f \in [0..N -> T] : IsLoop(f, base, step, N)
  <2>1. \A k \in 1..N : \A x \in T : step[<<k, x>>] \in T
    <3> TAKE k \in 1..N
    <3> TAKE x \in T
    <3> QED BY <1>3, <1>6
  <2> QED BY <1>1, <1>2, <2>1, LoopExists
<1>8. f[0] = base /\ \A n \in 1..N : f[n] = E(n, f[n - 1])
  <2>1. LoopTurns(f, base, step, N, T)
    BY <1>1, <1>7, LoopFacts
  <2> QED BY <1>6, <2>1 DEF LoopTurns
<1>9. value = [n \in 0..N |-> IF n = 0 THEN base ELSE E(n, value[n - 1])]
  <2>1. f = [n \in 0..N |-> IF n = 0 THEN base ELSE E(n, f[n - 1])]
    BY <1>1, <1>7, <1>8
  <2> QED BY <1>4, <2>1
<1>10. value[0] = base /\ \A n \in 1..N : value[n] = E(n, value[n - 1])
  <2>1. 0 \in 0..N /\ \A n \in 1..N : n \in 0..N /\ n # 0
    BY <1>1
  <2> QED BY <1>9, <2>1
<1>11. value = [n \in 0..N |-> value[n]]
  BY <1>9
<1>12. f = value
  <2>1. ASSUME NEW n \in 1..N, f[n - 1] = value[n - 1] PROVE f[n] = value[n]
    BY <1>8, <1>10, <2>1
  <2>2. f = [n \in 0..N |-> f[n]] /\ f[0] = value[0]
    BY <1>7, <1>8, <1>10
  <2>3. SameTurns(f, value, N)
    BY <1>11, <2>1, <2>2 DEF SameTurns
  <2> QED BY <1>1, <2>3, SameLoop
<1> QED BY <1>5, <1>7, <1>8, <1>12 DEF N, T, base, E

(* The quotient and the remainder are determined.                          *)
LEMMA DivUnique ==
    ASSUME NEW a \in Nat, NEW d \in Nat, d > 0, NEW q \in Nat, NEW r \in Nat, r < d, a = d * q + r
    PROVE  a \div d = q /\ a % d = r
<1>1. a \div d \in Nat /\ a % d \in Nat /\ a % d < d /\ a = d * (a \div d) + (a % d)
  OBVIOUS
<1> DEFINE p == a \div d
<1>2. p \in Nat /\ a % d \in Nat
  BY <1>1
<1>3. d * p + (a % d) = d * q + r
  BY <1>1
<1> HIDE DEF p
<1>4. ~ (p >= q + 1)
  <2> SUFFICES ASSUME p >= q + 1 PROVE FALSE
    OBVIOUS
  <2>1. PICK e \in Nat : p = q + 1 + e
    <3>1. p - q - 1 \in Nat /\ p = q + 1 + (p - q - 1)
      BY <1>2
    <3> QED BY <3>1
  <2>2. d * p = d * q + d + d * e /\ d * e \in Nat /\ d * q \in Nat
    BY <2>1
  <2> QED BY <1>1, <1>2, <1>3, <2>2
<1>5. ~ (q >= p + 1)
  <2> SUFFICES ASSUME q >= p + 1 PROVE FALSE
    OBVIOUS
  <2>1. PICK e \in Nat : q = p + 1 + e
    <3>1. q - p - 1 \in Nat /\ q = p + 1 + (q - p - 1)
      BY <1>2
    <3> QED BY <3>1
  <2>2. d * q = d * p + d + d * e /\ d * e \in Nat /\ d * p \in Nat
    BY <1>2, <2>1
  <2> QED BY <1>1, <1>2, <1>3, <2>2
<1>6. p = q
  BY <1>2, <1>4, <1>5
<1>7. a % d = r
  <2>1. d * q \in Nat
    OBVIOUS
  <2> QED BY <1>2, <1>3, <1>6, <2>1
<1> QED BY <1>6, <1>7 DEF p

(* Dividing twice is dividing by the product.                              *)
LEMMA DivTwice ==
    ASSUME NEW v \in Nat, NEW P \in Nat, P > 0, NEW B \in Nat, B > 0
    PROVE  v \div (B * P) = (v \div P) \div B
<1> DEFINE q == v \div P
           r == v % P
           q2 == q \div B
           r2 == q % B
<1>1. q \in Nat /\ r \in Nat /\ r < P /\ v = P * q + r
  OBVIOUS
<1> HIDE DEF q, r
<1>2. q2 \in Nat /\ r2 \in Nat /\ r2 < B /\ q = B * q2 + r2
  BY <1>1
<1> HIDE DEF q2, r2
<1>3. P * r2 + r \in Nat /\ B * P \in Nat /\ B * P > 0
  BY <1>1, <1>2
<1>4. P * r2 + r < B * P
  <2>1. PICK e \in Nat : B = r2 + 1 + e
    <3>1. B - r2 - 1 \in Nat /\ B = r2 + 1 + (B - r2 - 1)
      BY <1>2
    <3> QED BY <3>1
  <2>2. B * P = P * r2 + P + P * e /\ P * e \in Nat /\ P * r2 \in Nat
    BY <1>2, <2>1
  <2> QED BY <1>1, <2>2
<1>5. v = (B * P) * q2 + (P * r2 + r)
  <2>1. P * q = P * (B * q2) + P * r2
    BY <1>1, <1>2
  <2>2. P * (B * q2) = (B * P) * q2
    BY <1>2
  <2> QED BY <1>1, <1>2, <2>1, <2>2
<1>6. v \div (B * P) = q2
  BY <1>2, <1>3, <1>4, <1>5, DivUnique
<1> QED BY <1>6 DEF q, q2

(* What ZL_writeLE64_N() writes ZL_readLE64_N() reads.                     *)
LEMMA ReadsLE ==
    ASSUME NEW n \in Nat, NEW v \in Nat, v < Power[n]
    PROVE  /\ LE(v, n) \in Seq(Nat) /\ Len(LE(v, n)) = n
           /\ ReadLE(LE(v, n)) = v
<1> DEFINE bytes == LE(v, n)
<1>0. ByteValues \in Nat /\ ByteValues > 0
  BY WidthsAssumption
<1>1. \A i \in 1..n : v \div Power[i - 1] \in Nat /\ (v \div Power[i - 1]) % ByteValues \in Nat
  <2> TAKE i \in 1..n
  <2>1. Power[i - 1] \in Nat /\ Power[i - 1] > 0
    <3>1. i - 1 \in Nat
      OBVIOUS
    <3> QED BY <3>1, PowerPositive
  <2>2. v \div Power[i - 1] \in Nat
    BY <2>1
  <2> QED BY <1>0, <2>2
<1>2. bytes = [i \in 1..n |-> (v \div Power[i - 1]) % ByteValues]
  BY DEF LE, Modulus
<1>3. bytes \in [1..n -> Nat]
  BY <1>1, <1>2
<1>4. bytes \in Seq(Nat) /\ Len(bytes) = n /\ \A i \in 1..n : bytes[i] = (v \div Power[i - 1]) % ByteValues
  BY <1>2, <1>3
<1> HIDE DEF bytes
<1>5. PICK f \in [0..n -> Nat] :
          /\ ReadLE(bytes) = f[n] /\ f[0] = 0
          /\ \A k \in 1..n : f[k] = bytes[n + 1 - k] + ByteValues * f[k - 1]
  BY <1>4, ReadLEStates
<1> DEFINE S == {i \in 0..n : f[i] = v \div Power[n - i]}
<1>6. 0 \in S
  <2>1. v \div Power[n] = 0
    <3>1. Power[n] \in Nat /\ Power[n] > 0 /\ v = Power[n] * 0 + v
      BY PowerPositive
    <3> QED BY <3>1, DivUnique
  <2> QED BY <1>5, <2>1
<1>7. ASSUME NEW i \in 1..n, i - 1 \in S PROVE i \in S
  <2> DEFINE P == Power[n - i]
             q == v \div P
  <2>1. n - i \in Nat /\ n - (i - 1) = (n - i) + 1 /\ n + 1 - i \in 1..n /\ (n + 1 - i) - 1 = n - i
    OBVIOUS
  <2>2. P \in Nat /\ P > 0 /\ Power[n - (i - 1)] = ByteValues * P
    BY <2>1, PowerDef, PowerPositive
  <2>3. f[i - 1] = v \div (ByteValues * P)
    BY <1>7, <2>2
  <2>4. bytes[n + 1 - i] = q % ByteValues
    BY <1>4, <2>1
  <2> HIDE DEF P
  <2>5. v \div (ByteValues * P) = q \div ByteValues
    BY <1>0, <2>2, DivTwice
  <2>6. q \in Nat
    BY <2>2
  <2> HIDE DEF q
  <2>7. f[i] = (q % ByteValues) + ByteValues * (q \div ByteValues)
    BY <1>5, <2>3, <2>4, <2>5
  <2>8. f[i] = q
    BY <1>0, <2>6, <2>7
  <2> QED BY <2>8 DEF q, P
<1> HIDE DEF S
<1>8. \A i \in 0..n : i \in S
  BY <1>6, <1>7, LoopInduction
<1>9. f[n] = v \div Power[0] /\ Power[0] = 1
  <2>1. n \in 0..n /\ n - n = 0
    OBVIOUS
  <2>2. n \in S
    BY <1>8, <2>1
  <2> QED BY <2>1, <2>2, PowerDef DEF S
<1>10. v \div 1 = v
  OBVIOUS
<1> QED BY <1>4, <1>5, <1>9, <1>10 DEF bytes

(* A function on 1..N is a sequence.                                       *)
LEMMA FunctionIsSeq ==
    ASSUME NEW V, NEW n \in Nat, NEW s \in [1..n -> V]
    PROVE  s \in Seq(V) /\ Len(s) = n
OBVIOUS

(* Sequences of the same length with the same elements are equal.          *)
LEMMA SeqsEqual ==
    ASSUME NEW V, NEW s \in Seq(V), NEW t \in Seq(V), Len(s) = Len(t),
           \A i \in 1..Len(s) : s[i] = t[i]
    PROVE  s = t
OBVIOUS

LEMMA AppendFacts ==
    ASSUME NEW V, NEW s \in Seq(V), NEW v \in V
    PROVE  /\ Append(s, v) \in Seq(V) /\ Len(Append(s, v)) = Len(s) + 1
           /\ \A i \in 1..Len(s) : Append(s, v)[i] = s[i]
           /\ Append(s, v)[Len(s) + 1] = v
OBVIOUS

(* An accepted output is written in full, with elements of the streams.    *)
Written(r) == r.ok => r.elts \in Seq(Nat) /\ Len(r.elts) = r.room

(* The elements a width holds.                                             *)
Elements(width) == Seq(0..ZL_maxValueForWidth(width))

(* The elements of an input are numbers below the modulus.                 *)
LEMMA ElementsFit ==
    ASSUME NEW w \in Nat \ {0}, NEW src \in Elements(w)
    PROVE  /\ src \in Seq(Nat) /\ Len(src) \in Nat /\ DOMAIN src = 1..Len(src)
           /\ \A i \in 1..Len(src) : src[i] \in Nat /\ src[i] < Modulus(w)
<1>1. Modulus(w) \in Nat /\ ZL_maxValueForWidth(w) = Modulus(w) - 1
  BY WidthModulus
<1>2. \A x \in 0..ZL_maxValueForWidth(w) : x \in Nat /\ x < Modulus(w)
  BY <1>1
<1>3. src \in Seq(0..ZL_maxValueForWidth(w))
  BY DEF Elements
<1>4. \A i \in 1..Len(src) : src[i] \in 0..ZL_maxValueForWidth(w)
  <2> DEFINE V == 0..ZL_maxValueForWidth(w)
  <2>1. src \in Seq(V)
    BY <1>3
  <2> HIDE DEF V
  <2>2. \A i \in 1..Len(src) : src[i] \in V
    BY <2>1
  <2> QED BY <2>2 DEF V
<1>5. src \in Seq(Nat)
  <2>1. src \in [1..Len(src) -> Nat] /\ Len(src) \in Nat
    BY <1>2, <1>3, <1>4
  <2> QED BY <2>1
<1> QED BY <1>2, <1>4, <1>5

LEMMA ReadLENat ==
    ASSUME NEW bytes \in Seq(Nat)
    PROVE  ReadLE(bytes) \in Nat
<1>1. PICK f \in [0..Len(bytes) -> Nat] : ReadLE(bytes) = f[Len(bytes)]
  BY ReadLEStates
<1> QED BY <1>1

LEMMA ReadLEEmpty == ReadLE(<<>>) = 0
<1>1. <<>> \in Seq(Nat) /\ Len(<<>>) = 0
  OBVIOUS
<1>2. PICK f \in [0..0 -> Nat] : ReadLE(<<>>) = f[0] /\ f[0] = 0
  BY <1>1, ReadLEStates
<1> QED BY <1>2

LEMMA CastSmall ==
    ASSUME NEW w \in Nat \ {0}, NEW v \in Nat, v < Modulus(w)
    PROVE  Cast(v, w) = v
<1>1. Modulus(w) \in Nat /\ Modulus(w) > 0
  BY WidthModulus
<1> QED BY <1>1 DEF Cast

LEMMA CastNat ==
    ASSUME NEW w \in Nat \ {0}, NEW v \in Int
    PROVE  Cast(v, w) \in Nat /\ Cast(v, w) < Modulus(w)
<1>1. Modulus(w) \in Nat /\ Modulus(w) > 0
  BY WidthModulus
<1> QED BY <1>1 DEF Cast

-----------------------------------------------------------------------------
(* delta.                                                                  *)
LEMMA DeltaUndone ==
    ASSUME NEW M \in Nat, M > 0, NEW a \in Nat, a < M, NEW b \in Nat, b < M
    PROVE  (a + ((b - a) % M)) % M = b
<1>1. CASE b >= a
  <2>1. (b - a) % M = b - a
    BY <1>1
  <2>2. a + (b - a) = b /\ b % M = b
    OBVIOUS
  <2> QED BY <2>1, <2>2
<1>2. CASE b < a
  <2>1. (b - a) % M = b - a + M
    BY <1>2
  <2>2. a + (b - a + M) = b + M
    OBVIOUS
  <2>3. (b + M) % M = b
    OBVIOUS
  <2> QED BY <2>1, <2>2, <2>3
<1> QED BY <1>1, <1>2

(* Summing the deltas restores the elements.                               *)
LEMMA DeltaDecodes ==
    ASSUME NEW width \in Nat \ {0}, NEW src \in Elements(width), src # <<>>
    PROVE  /\ ZS_deltaEncode(src, width) \in Seq(Nat)
           /\ Len(ZS_deltaEncode(src, width)) = Len(src) - 1
           /\ ZS_deltaDecode(src[1], ZS_deltaEncode(src, width), width) = src
<1> DEFINE N == Len(src) - 1
           deltas == ZS_deltaEncode(src, width)
           M == Modulus(width)
<1>1. /\ src \in Seq(Nat) /\ Len(src) \in Nat /\ Len(src) > 0 /\ N \in Nat
      /\ \A i \in 1..Len(src) : src[i] \in Nat /\ src[i] < M
  BY ElementsFit
<1>2. M \in Nat /\ M > 0
  BY WidthModulus
<1>3. deltas = [n \in 1..N |-> Cast(src[n + 1] - src[n], width)]
  BY DEF ZS_deltaEncode
<1> HIDE DEF M, deltas
<1>4. \A n \in 1..N : src[n + 1] - src[n] \in Int /\ Cast(src[n + 1] - src[n], width) \in Nat
  <2> TAKE n \in 1..N
  <2>1. src[n + 1] - src[n] \in Int
    <3>1. n \in 1..Len(src) /\ n + 1 \in 1..Len(src)
      BY <1>1
    <3> QED BY <1>1, <3>1
  <2> QED BY <2>1, CastNat
<1>5. deltas \in Seq(Nat) /\ Len(deltas) = N /\ \A n \in 1..N : deltas[n] = (src[n + 1] - src[n]) % M
  <2>1. deltas \in [1..N -> Nat]
    BY <1>3, <1>4
  <2>2. deltas \in Seq(Nat) /\ Len(deltas) = N
    <3>1. N \in Nat
      BY <1>1
    <3> HIDE DEF N
    <3> QED BY <2>1, <3>1
  <2> QED BY <1>3, <2>2 DEF Cast, M
<1>6. PICK f \in [0..N -> Nat] :
          /\ ZS_deltaDecode(src[1], deltas, width) = [n \in 1..N + 1 |-> f[n - 1]]
          /\ f[0] = src[1]
          /\ \A n \in 1..N : f[n] = Cast(f[n - 1] + deltas[n], width)
  <2>1. src[1] \in Nat
    BY <1>1
  <2>2. \E f \in [0..Len(deltas) -> Nat] :
          /\ ZS_deltaDecode(src[1], deltas, width) = [n \in 1..Len(deltas) + 1 |-> f[n - 1]]
          /\ f[0] = src[1]
          /\ \A n \in 1..Len(deltas) : f[n] = Cast(f[n - 1] + deltas[n], width)
    BY <1>5, <2>1, DeltaStates, Zenon
  <2>3. Len(deltas) = N
    BY <1>5
  <2> HIDE DEF N
  <2> QED BY <2>2, <2>3, Zenon
<1> DEFINE S == {n \in 0..N : f[n] = src[n + 1]}
<1>7. 0 \in S
  BY <1>1, <1>6
<1>8. ASSUME NEW n \in 1..N, n - 1 \in S PROVE n \in S
  <2>1. n \in 0..N /\ (n - 1) + 1 = n /\ n \in 1..Len(src) /\ n + 1 \in 1..Len(src)
    BY <1>1
  <2>2. f[n - 1] = src[n]
    BY <1>8, <2>1
  <2>3. f[n] = (src[n] + ((src[n + 1] - src[n]) % M)) % M
    BY <1>5, <1>6, <2>2 DEF Cast, M
  <2>4. f[n] = src[n + 1]
    BY <1>1, <1>2, <2>1, <2>3, DeltaUndone
  <2> QED BY <2>1, <2>4
<1> HIDE DEF S
<1>9. \A n \in 0..N : n \in S
  BY <1>1, <1>7, <1>8, LoopInduction
<1>10. \A n \in 1..N + 1 : f[n - 1] = src[n]
  <2> TAKE n \in 1..N + 1
  <2>1. n - 1 \in 0..N /\ (n - 1) + 1 = n
    BY <1>1
  <2> QED BY <1>9, <2>1 DEF S
<1>11. [n \in 1..N + 1 |-> f[n - 1]] = src
  <2>1. N + 1 = Len(src) /\ src = [n \in 1..Len(src) |-> src[n]]
    BY <1>1
  <2> QED BY <1>10, <2>1
<1> QED BY <1>5, <1>6, <1>11 DEF deltas

(* delta: what EI_delta_int() sends decodes to the input.                  *)
LEMMA DeltaRoundTrip ==
    ASSUME NEW width \in Nat \ {0}, NEW src \in Elements(width), NEW version \in Nat
    PROVE  DI_delta_int(EI_delta_int(src, width, version).header,
                        EI_delta_int(src, width, version).streams, version)
              = Made(width, src, Len(src))
<1> DEFINE out == EI_delta_int(src, width, version)
           deltas == ZS_deltaEncode(src, width)
<1>1. src \in Seq(Nat) /\ Len(src) \in Nat
  BY ElementsFit
<1>2. CASE src = <<>>
  <2>1. out.header = <<>> /\ out.streams[1].width = width /\ out.streams[1].elts = <<>>
    BY <1>2 DEF EI_delta_int, Sent, Stream
  <2> HIDE DEF out
  <2>2. DI_delta_int(out.header, out.streams, version) = Made(width, <<>>, 0)
    BY <2>1 DEF DI_delta_int
  <2> QED BY <1>2, <2>2 DEF out
<1>3. CASE src # <<>>
  <2> USE <1>3
  <2>1. /\ deltas \in Seq(Nat) /\ Len(deltas) = Len(src) - 1
        /\ ZS_deltaDecode(src[1], deltas, width) = src
    BY DeltaDecodes
  <2>2. Len(src) > 0 /\ src[1] \in Nat /\ src[1] < Modulus(width)
    BY ElementsFit
  <2> HIDE DEF deltas
  <2>3. CASE version < ZL_DELTA_HEADER_VERSION
    <3>1. /\ out.streams[1].width = width
          /\ out.streams[1].elts = <<src[1]>> \o deltas
      BY <2>3 DEF EI_delta_int, Sent, Stream, deltas
    <3> HIDE DEF out
    <3> DEFINE elts == <<src[1]>> \o deltas
    <3>2. elts # <<>> /\ Head(elts) = src[1] /\ Tail(elts) = deltas /\ Len(elts) = Len(src)
      BY <1>1, <2>1, <2>2
    <3>3. out.streams[1].elts = elts
      BY <3>1
    <3> HIDE DEF elts
    <3>4. DI_delta_int(out.header, out.streams, version) = Made(width, ZS_deltaDecode(src[1], deltas, width), Len(src))
      BY <2>3, <3>1, <3>2, <3>3 DEF DI_delta_int
    <3> QED BY <2>1, <3>4 DEF out
  <2>4. CASE ~(version < ZL_DELTA_HEADER_VERSION)
    <3>1. /\ out.header = LE(src[1], width)
          /\ out.streams[1].width = width
          /\ out.streams[1].elts = deltas
      BY <2>4 DEF EI_delta_int, Sent, Stream, deltas
    <3>2. Len(out.header) = width /\ ReadLE(out.header) = src[1]
      BY <2>2, <3>1, ReadsLE DEF Modulus
    <3>3. out.header # <<>>
      BY <3>2
    <3> HIDE DEF out
    <3>4. DI_delta_int(out.header, out.streams, version) = Made(width, ZS_deltaDecode(src[1], deltas, width), Len(deltas) + 1)
      BY <2>4, <3>1, <3>2, <3>3 DEF DI_delta_int
    <3>5. Len(deltas) + 1 = Len(src)
      BY <1>1, <2>1
    <3> QED BY <2>1, <3>4, <3>5 DEF out
  <2> QED BY <2>3, <2>4
<1> QED BY <1>2, <1>3

(* As many elements are decoded as there are deltas, and one more.         *)
LEMMA DeltaWritten ==
    ASSUME NEW width \in Nat \ {0}, NEW first \in Nat, NEW deltas \in Seq(Nat)
    PROVE  /\ ZS_deltaDecode(first, deltas, width) \in Seq(Nat)
           /\ Len(ZS_deltaDecode(first, deltas, width)) = Len(deltas) + 1
<1> DEFINE N == Len(deltas)
<1>1. N \in Nat
  OBVIOUS
<1>2. PICK f \in [0..N -> Nat] : ZS_deltaDecode(first, deltas, width) = [n \in 1..N + 1 |-> f[n - 1]]
  <2>1. \E f \in [0..N -> Nat] :
          /\ ZS_deltaDecode(first, deltas, width) = [n \in 1..N + 1 |-> f[n - 1]]
          /\ f[0] = first
          /\ \A n \in 1..N : f[n] = Cast(f[n - 1] + deltas[n], width)
    BY DeltaStates, Zenon
  <2> HIDE DEF N
  <2> QED BY <2>1, Zenon
<1> HIDE DEF N
<1>3. [n \in 1..N + 1 |-> f[n - 1]] \in [1..N + 1 -> Nat]
  <2>1. ASSUME NEW n \in 1..N + 1 PROVE f[n - 1] \in Nat
    <3>1. n - 1 \in 0..N
      BY <1>1
    <3> QED BY <3>1
  <2> QED BY <2>1
<1>4. N + 1 \in Nat
  BY <1>1
<1> QED BY <1>2, <1>3, <1>4 DEF N

(* delta: an accepted output is written in full.                           *)
LEMMA DeltaAccepted ==
    ASSUME NEW header \in Seq(Nat), NEW streams, NEW version \in Nat,
           streams[1].width \in Nat \ {0}, streams[1].elts \in Seq(Nat)
    PROVE  Written(DI_delta_int(header, streams, version))
<1> DEFINE elts == streams[1].elts
           width == streams[1].width
<1>1. elts \in Seq(Nat) /\ width \in Nat \ {0} /\ Len(elts) \in Nat
  OBVIOUS
<1>2. CASE version < ZL_DELTA_HEADER_VERSION
  <2>1. CASE elts = <<>>
    <3>1. DI_delta_int(header, streams, version) = Made(width, <<>>, 0)
      BY <1>2, <2>1 DEF DI_delta_int
    <3> QED BY <3>1 DEF Made, Written
  <2>2. CASE elts # <<>>
    <3>1. DI_delta_int(header, streams, version) = Made(width, ZS_deltaDecode(Head(elts), Tail(elts), width), Len(elts))
      BY <1>2, <2>2 DEF DI_delta_int
    <3> HIDE DEF elts, width
    <3>2. Head(elts) \in Nat /\ Tail(elts) \in Seq(Nat) /\ Len(Tail(elts)) + 1 = Len(elts)
      BY <1>1, <2>2
    <3> DEFINE r == ZS_deltaDecode(Head(elts), Tail(elts), width)
    <3>3. r \in Seq(Nat) /\ Len(r) = Len(Tail(elts)) + 1
      BY <1>1, <3>2, DeltaWritten
    <3>4. DI_delta_int(header, streams, version) = Made(width, r, Len(elts))
      BY <3>1
    <3> HIDE DEF r
    <3>5. Len(r) = Len(elts)
      BY <3>2, <3>3
    <3> QED BY <3>3, <3>4, <3>5 DEF Made, Written
  <2> QED BY <2>1, <2>2
<1>3. CASE ~(version < ZL_DELTA_HEADER_VERSION) /\ header = <<>>
  <2>1. DI_delta_int(header, streams, version) = IF elts = <<>> THEN Made(width, <<>>, 0) ELSE Corrupt
    BY <1>3 DEF DI_delta_int
  <2> QED BY <2>1 DEF Made, Corrupt, Written
<1>4. CASE ~(version < ZL_DELTA_HEADER_VERSION) /\ header # <<>>
  <2>1. DI_delta_int(header, streams, version) =
           IF Len(header) # width THEN Corrupt
           ELSE Made(width, ZS_deltaDecode(ReadLE(header), elts, width), Len(elts) + 1)
    BY <1>4 DEF DI_delta_int
  <2>2. ReadLE(header) \in Nat
    BY ReadLENat
  <2> HIDE DEF elts, width
  <2>3. Written(Made(width, ZS_deltaDecode(ReadLE(header), elts, width), Len(elts) + 1))
    BY <1>1, <2>2, DeltaWritten DEF Made, Written
  <2>4. Written(Corrupt)
    BY DEF Corrupt, Written
  <2> QED BY <2>1, <2>3, <2>4
<1> QED BY <1>2, <1>3, <1>4

LEMMA LeastOf ==
    ASSUME NEW T \in SUBSET Nat, T # {}
    PROVE  Min(T) \in T /\ \A n \in T : Min(T) <= n
<1>1. \E m \in T : \A n \in T : m <= n
  BY LeastNumber
<1> QED BY <1>1 DEF Min

LEMMA GreatestOf ==
    ASSUME NEW T \in SUBSET Nat, T # {}, NEW bound \in Nat, \A n \in T : n <= bound
    PROVE  Max(T) \in T /\ \A n \in T : n <= Max(T)
<1> DEFINE D == {bound - n : n \in T}
<1>1. D \in SUBSET Nat /\ D # {}
  OBVIOUS
<1>2. PICK d \in D : \A e \in D : d <= e
  <2> HIDE DEF D
  <2> QED BY <1>1, LeastNumber
<1>3. PICK m \in T : d = bound - m
  BY <1>2
<1>4. \A n \in T : m >= n
  <2> TAKE n \in T
  <2>1. bound - n \in D
    OBVIOUS
  <2>2. bound - m <= bound - n
    BY <1>2, <1>3, <2>1
  <2> QED BY <2>2
<1> HIDE DEF D
<1>5. \E x \in T : \A n \in T : x >= n
  BY <1>4
<1>6. Max(T) \in T /\ \A n \in T : Max(T) >= n
  BY <1>5 DEF Max
<1>7. \A n \in T : n \in Nat
  OBVIOUS
<1> QED BY <1>6, <1>7

LEMMA LeastOfTwo ==
    ASSUME NEW a \in Nat, NEW b \in Nat
    PROVE  Min({a, b}) \in Nat /\ Min({a, b}) <= a /\ Min({a, b}) <= b /\ Min({a, b}) \in {a, b}
<1>1. {a, b} \in SUBSET Nat /\ {a, b} # {}
  OBVIOUS
<1> QED BY <1>1, LeastOf

LEMMA GreatestOfTwo ==
    ASSUME NEW a \in Nat, NEW b \in Nat
    PROVE  Max({a, b}) \in Nat /\ a <= Max({a, b}) /\ b <= Max({a, b}) /\ Max({a, b}) \in {a, b}
<1>1. {a, b} \in SUBSET Nat /\ {a, b} # {} /\ a + b \in Nat /\ \A n \in {a, b} : n <= a + b
  OBVIOUS
<1> QED BY <1>1, GreatestOf

-----------------------------------------------------------------------------
(* zigzag.                                                                 *)
LEMMA ZigzagUndone ==
    ASSUME NEW w \in Nat \ {0}, NEW n \in Nat, n < Modulus(w)
    PROVE  ZL_zigzagEncode(n, w) \in Nat /\ ZL_zigzagDecode(ZL_zigzagEncode(n, w), w) = n
<1> DEFINE M == Modulus(w)
<1>1. M \in Nat /\ M > 0 /\ ZL_maxValueForWidth(w) = M - 1 /\ n < M
  BY WidthModulus
<1>2. ZL_zigzagEncode(n, w) = IF 2 * n >= M THEN M - 1 - ((2 * n) % M) ELSE (2 * n) % M
  BY <1>1 DEF ZL_zigzagEncode, Inverted, Cast
<1>3. \A z : ZL_zigzagDecode(z, w) = IF z % 2 = 1 THEN M - 1 - (z \div 2) ELSE z \div 2
  BY <1>1 DEF ZL_zigzagDecode, Inverted
<1> HIDE DEF M
<1>4. CASE 2 * n >= M
  <2>1. (2 * n) % M = 2 * n - M
    BY <1>1, <1>4
  <2>2. ZL_zigzagEncode(n, w) = 2 * (M - 1 - n) + 1 /\ M - 1 - n \in Nat
    BY <1>1, <1>2, <1>4, <2>1
  <2> QED BY <1>1, <1>3, <2>2
<1>5. CASE ~(2 * n >= M)
  <2>1. (2 * n) % M = 2 * n
    BY <1>1, <1>5
  <2> QED BY <1>1, <1>2, <1>3, <1>5, <2>1
<1> QED BY <1>4, <1>5

(* zigzag: what EI_zigzag_num() sends decodes to the input.                *)
LEMMA ZigzagRoundTrip ==
    ASSUME NEW width \in Nat \ {0}, NEW src \in Elements(width)
    PROVE  DI_zigzag_num(EI_zigzag_num(src, width).streams) = Made(width, src, Len(src))
<1> DEFINE enc == [i \in DOMAIN src |-> ZL_zigzagEncode(src[i], width)]
           out == EI_zigzag_num(src, width)
<1>1. /\ src \in Seq(Nat) /\ Len(src) \in Nat /\ DOMAIN src = 1..Len(src)
      /\ \A i \in 1..Len(src) : src[i] \in Nat /\ src[i] < Modulus(width)
  BY ElementsFit
<1>2. out.streams[1].width = width /\ out.streams[1].elts = enc
  BY DEF EI_zigzag_num, Sent, Stream
<1>3. \A i \in 1..Len(src) : enc[i] \in Nat /\ ZL_zigzagDecode(enc[i], width) = src[i]
  <2> TAKE i \in 1..Len(src)
  <2> QED BY <1>1, ZigzagUndone
<1>4. enc \in Seq(Nat) /\ Len(enc) = Len(src) /\ DOMAIN enc = 1..Len(src)
  <2>1. enc \in [1..Len(src) -> Nat]
    BY <1>1, <1>3
  <2> HIDE DEF enc
  <2> QED BY <1>1, <2>1
<1>5. DI_zigzag_num(out.streams) = Made(width, [i \in DOMAIN enc |-> ZL_zigzagDecode(enc[i], width)], Len(enc))
  <2> HIDE DEF out, enc
  <2> QED BY <1>2 DEF DI_zigzag_num
<1> HIDE DEF out, enc
<1>6. [i \in DOMAIN enc |-> ZL_zigzagDecode(enc[i], width)] = src
  <2>1. src = [i \in 1..Len(src) |-> src[i]]
    BY <1>1
  <2> QED BY <1>3, <1>4, <2>1
<1> QED BY <1>4, <1>5, <1>6 DEF out

(* zigzag: an accepted output is written in full.                          *)
LEMMA ZigzagAccepted ==
    ASSUME NEW streams, streams[1].width \in Nat \ {0}, streams[1].elts \in Elements(streams[1].width)
    PROVE  Written(DI_zigzag_num(streams))
<1> DEFINE elts == streams[1].elts
           w == streams[1].width
           dec == [i \in DOMAIN elts |-> ZL_zigzagDecode(elts[i], w)]
<1>1. /\ elts \in Seq(Nat) /\ Len(elts) \in Nat /\ DOMAIN elts = 1..Len(elts)
      /\ \A i \in 1..Len(elts) : elts[i] \in Nat /\ elts[i] < Modulus(w)
  BY ElementsFit
<1>2. Modulus(w) \in Nat /\ ZL_maxValueForWidth(w) = Modulus(w) - 1
  BY WidthModulus
<1>3. DI_zigzag_num(streams) = Made(w, dec, Len(elts))
  BY DEF DI_zigzag_num
<1> HIDE DEF elts, w
<1>4. ASSUME NEW i \in 1..Len(elts) PROVE ZL_zigzagDecode(elts[i], w) \in Nat
  <2>1. elts[i] \in Nat /\ elts[i] < Modulus(w)
    BY <1>1
  <2> QED BY <1>2, <2>1 DEF ZL_zigzagDecode, Inverted
<1>5. dec \in [1..Len(elts) -> Nat]
  BY <1>1, <1>4
<1> HIDE DEF dec
<1>6. dec \in Seq(Nat) /\ Len(dec) = Len(elts)
  BY <1>1, <1>5
<1> QED BY <1>3, <1>6 DEF Made, Written

-----------------------------------------------------------------------------
(* range_pack.                                                             *)
LEMMA NarrowestWidth ==
    ASSUME NEW width \in Widths, NEW v \in Nat, v <= ZL_maxValueForWidth(width)
    PROVE  LET w == NUMOP_numericWidthForValue(v)
           IN  w \in Widths /\ w <= width /\ w \in Nat \ {0} /\ v < Modulus(w)
<1> DEFINE T == {w \in Widths : v <= ZL_maxValueForWidth(w)}
<1>1. T \in SUBSET Nat /\ T # {} /\ width \in T
  BY WidthsAssumption
<1>2. NUMOP_numericWidthForValue(v) = Min(T)
  BY DEF NUMOP_numericWidthForValue
<1>3. Min(T) \in T /\ Min(T) <= width
  <2> HIDE DEF T
  <2> QED BY <1>1, LeastOf
<1>4. Min(T) \in Widths /\ v <= ZL_maxValueForWidth(Min(T))
  BY <1>3
<1>5. Min(T) \in Nat \ {0}
  BY <1>4, WidthsAssumption
<1> HIDE DEF T
<1>6. v < Modulus(Min(T))
  <2>1. Modulus(Min(T)) \in Nat /\ ZL_maxValueForWidth(Min(T)) = Modulus(Min(T)) - 1
    BY <1>5, WidthModulus
  <2> QED BY <1>4, <2>1
<1> QED BY <1>2, <1>3, <1>4, <1>5, <1>6

(* The least and the greatest element bound the input.                     *)
LEMMA InputBounds ==
    ASSUME NEW width \in Nat \ {0}, NEW src \in Elements(width)
    PROVE  LET min == IF src = <<>> THEN 0 ELSE Min(ToSet(src))
               max == IF src = <<>> THEN 0 ELSE Max(ToSet(src))
           IN  /\ min \in Nat /\ max \in Nat /\ min <= max /\ max <= ZL_maxValueForWidth(width)
               /\ \A i \in 1..Len(src) : min <= src[i] /\ src[i] <= max
<1> DEFINE T == ToSet(src)
           B == ZL_maxValueForWidth(width)
<1>1. /\ src \in Seq(Nat) /\ Len(src) \in Nat /\ DOMAIN src = 1..Len(src)
      /\ \A i \in 1..Len(src) : src[i] \in Nat /\ src[i] < Modulus(width)
  BY ElementsFit
<1>2. B \in Nat /\ Modulus(width) \in Nat /\ B = Modulus(width) - 1
  BY WidthModulus
<1>3. T = {src[i] : i \in 1..Len(src)}
  BY <1>1 DEF ToSet
<1> HIDE DEF T, B
<1>4. T \in SUBSET Nat /\ \A v \in T : v <= B
  <2> SUFFICES ASSUME NEW v \in T PROVE v \in Nat /\ v <= B
    OBVIOUS
  <2>1. PICK i \in 1..Len(src) : v = src[i]
    BY <1>3
  <2> QED BY <1>1, <1>2, <2>1
<1>5. CASE src = <<>>
  <2>1. Len(src) = 0
    BY <1>5
  <2> QED BY <1>2, <1>5, <2>1 DEF B
<1>6. CASE src # <<>>
  <2>1. 1 \in 1..Len(src)
    BY <1>1, <1>6
  <2>2. T # {} /\ src[1] \in T
    BY <1>3, <2>1
  <2>3. Min(T) \in T /\ \A v \in T : Min(T) <= v
    BY <1>4, <2>2, LeastOf
  <2>4. Max(T) \in T /\ \A v \in T : v <= Max(T)
    BY <1>2, <1>4, <2>2, GreatestOf
  <2>5. \A i \in 1..Len(src) : src[i] \in T
    BY <1>3
  <2>6. Min(T) \in Nat /\ Max(T) \in Nat /\ Min(T) <= Max(T) /\ Max(T) <= B
    BY <1>4, <2>3, <2>4
  <2>7. \A i \in 1..Len(src) : Min(T) <= src[i] /\ src[i] <= Max(T)
    BY <2>3, <2>4, <2>5
  <2> QED BY <1>6, <2>6, <2>7 DEF T, B
<1> QED BY <1>5, <1>6

(* What EI_rangePack() sends: differences that fit the width it chose.     *)
LEMMA RangePackSends ==
    ASSUME NEW width \in Widths, NEW src \in Elements(width), NEW bound \in Nat
    PROVE  \E sub \in Nat, dw \in Widths, enc \in Seq(Nat) :
             /\ sub < Modulus(width) /\ dw <= width
             /\ Len(enc) = Len(src)
             /\ \A i \in 1..Len(src) : src[i] = enc[i] + sub /\ enc[i] < Modulus(dw)
             /\ EI_rangePack(src, width, bound) =
                   Sent(<<width>> \o (IF sub = 0 THEN <<>> ELSE LE(sub, width)), <<Stream(dw, enc)>>)
<1> DEFINE min == IF src = <<>> THEN 0 ELSE Min(ToSet(src))
           max == IF src = <<>> THEN 0 ELSE Max(ToSet(src))
           sub == Min({min, bound})
           dw == NUMOP_numericWidthForValue(max - sub)
           enc == [i \in DOMAIN src |-> Cast(src[i] - sub, dw)]
<1>0. width \in Nat \ {0}
  BY WidthsAssumption
<1>1. /\ src \in Seq(Nat) /\ Len(src) \in Nat /\ DOMAIN src = 1..Len(src)
      /\ \A i \in 1..Len(src) : src[i] \in Nat /\ src[i] < Modulus(width)
  BY <1>0, ElementsFit
<1>2. /\ min \in Nat /\ max \in Nat /\ min <= max /\ max <= ZL_maxValueForWidth(width)
      /\ \A i \in 1..Len(src) : min <= src[i] /\ src[i] <= max
  BY <1>0, InputBounds
<1>3. EI_rangePack(src, width, bound) =
         Sent(<<width>> \o (IF sub = 0 THEN <<>> ELSE LE(sub, width)), <<Stream(dw, enc)>>)
  BY DEF EI_rangePack
<1> HIDE DEF min, max
<1>4. sub \in Nat /\ sub <= min
  BY <1>2, LeastOfTwo
<1> HIDE DEF sub
<1>5. max - sub \in Nat /\ max - sub <= ZL_maxValueForWidth(width) /\ sub < Modulus(width)
  <2>1. Modulus(width) \in Nat /\ ZL_maxValueForWidth(width) = Modulus(width) - 1
    BY <1>0, WidthModulus
  <2> QED BY <1>2, <1>4, <2>1
<1>6. dw \in Widths /\ dw <= width /\ dw \in Nat \ {0} /\ max - sub < Modulus(dw)
  BY <1>5, NarrowestWidth
<1> HIDE DEF dw
<1>7. ASSUME NEW i \in 1..Len(src)
      PROVE  Cast(src[i] - sub, dw) = src[i] - sub /\ src[i] - sub \in Nat /\ src[i] - sub < Modulus(dw)
  <2>1. Modulus(dw) \in Nat
    BY <1>6, WidthModulus
  <2>2. src[i] - sub \in Nat /\ src[i] - sub < Modulus(dw)
    BY <1>1, <1>2, <1>4, <1>6, <2>1
  <2> QED BY <1>6, <2>2, CastSmall
<1>8. enc \in [1..Len(src) -> Nat] /\ \A i \in 1..Len(src) : enc[i] = src[i] - sub
  BY <1>1, <1>7
<1> HIDE DEF enc
<1>9. enc \in Seq(Nat) /\ Len(enc) = Len(src)
  BY <1>1, <1>8
<1>10. \A i \in 1..Len(src) : src[i] = enc[i] + sub /\ enc[i] < Modulus(dw)
  BY <1>1, <1>4, <1>7, <1>8
<1> QED BY <1>3, <1>4, <1>5, <1>6, <1>9, <1>10

(* range_pack: what EI_rangePack() sends decodes to the input.             *)
LEMMA RangePackRoundTrip ==
    ASSUME NEW width \in Widths, NEW src \in Elements(width), NEW bound \in Nat
    PROVE  DI_rangePack(EI_rangePack(src, width, bound).header,
                        EI_rangePack(src, width, bound).streams) = Made(width, src, Len(src))
<1>1. PICK sub \in Nat, dw \in Widths, enc \in Seq(Nat) :
         /\ sub < Modulus(width) /\ dw <= width
         /\ Len(enc) = Len(src)
         /\ \A i \in 1..Len(src) : src[i] = enc[i] + sub /\ enc[i] < Modulus(dw)
         /\ EI_rangePack(src, width, bound) =
               Sent(<<width>> \o (IF sub = 0 THEN <<>> ELSE LE(sub, width)), <<Stream(dw, enc)>>)
  BY RangePackSends
<1> DEFINE out == EI_rangePack(src, width, bound)
           rest == IF sub = 0 THEN <<>> ELSE LE(sub, width)
           dec == [i \in DOMAIN enc |-> Cast(enc[i] + sub, width)]
<1>0. width \in Nat \ {0} /\ dw \in Nat \ {0}
  BY WidthsAssumption
<1>2. /\ src \in Seq(Nat) /\ Len(src) \in Nat /\ DOMAIN src = 1..Len(src)
      /\ \A i \in 1..Len(src) : src[i] \in Nat /\ src[i] < Modulus(width)
  BY <1>0, ElementsFit
<1>3. rest \in Seq(Nat) /\ ReadLE(rest) = sub /\ (Len(rest) = 0 \/ Len(rest) = width)
  <2>1. CASE sub = 0
    BY <2>1, ReadLEEmpty
  <2>2. CASE sub # 0
    <3>1. sub < Power[width]
      BY <1>1 DEF Modulus
    <3> QED BY <1>0, <2>2, <3>1, ReadsLE
  <2> QED BY <2>1, <2>2
<1>4. out.header = <<width>> \o rest /\ out.streams[1].width = dw /\ out.streams[1].elts = enc
  BY <1>1 DEF Sent, Stream
<1> HIDE DEF rest, out
<1>5. /\ out.header # <<>> /\ out.header[1] = width /\ Tail(out.header) = rest
      /\ Len(out.header) = 1 + Len(rest)
  BY <1>0, <1>3, <1>4
<1>6. DI_rangePack(out.header, out.streams) = Made(width, dec, Len(enc))
  <2>1. ~ (width < dw)
    BY <1>0, <1>1
  <2>2. ~ (Len(out.header) > 1 /\ Len(out.header) # width + 1)
    BY <1>0, <1>3, <1>5
  <2> QED BY <1>3, <1>4, <1>5, <2>1, <2>2 DEF DI_rangePack
<1>7. dec = src
  <2>1. \A i \in 1..Len(src) : Cast(enc[i] + sub, width) = src[i]
    <3> TAKE i \in 1..Len(src)
    <3> QED BY <1>0, <1>1, <1>2, CastSmall
  <2>2. DOMAIN enc = 1..Len(src) /\ src = [i \in 1..Len(src) |-> src[i]]
    BY <1>1, <1>2
  <2> QED BY <2>1, <2>2
<1> HIDE DEF dec
<1> QED BY <1>1, <1>6, <1>7 DEF out

(* range_pack: an accepted output is written in full.                      *)
LEMMA RangePackAccepted ==
    ASSUME NEW header \in Seq(Nat), NEW streams, streams[1].elts \in Seq(Nat)
    PROVE  Written(DI_rangePack(header, streams))
<1> DEFINE r == DI_rangePack(header, streams)
           elts == streams[1].elts
<1>1. CASE header = <<>>
  <2>1. r = Corrupt
    BY <1>1 DEF DI_rangePack
  <2> QED BY <2>1 DEF Corrupt, Written
<1>2. CASE header # <<>>
  <2> DEFINE w == header[1]
             min == ReadLE(Tail(header))
             dec == [i \in DOMAIN elts |-> Cast(elts[i] + min, w)]
  <2>1. r = Corrupt \/ (w \in Widths /\ r = Made(w, dec, Len(elts)))
    BY <1>2 DEF DI_rangePack
  <2>2. min \in Nat
    <3>1. Tail(header) \in Seq(Nat)
      BY <1>2
    <3> QED BY <3>1, ReadLENat
  <2> HIDE DEF w, min
  <2>3. CASE w \in Widths
    <3>1. w \in Nat \ {0}
      BY <2>3, WidthsAssumption
    <3>2. \A i \in DOMAIN elts : Cast(elts[i] + min, w) \in Nat
      <4> TAKE i \in DOMAIN elts
      <4>1. elts[i] + min \in Int
        BY <2>2
      <4> QED BY <3>1, <4>1, CastNat
    <3>3. dec \in [1..Len(elts) -> Nat] /\ Len(elts) \in Nat
      BY <3>2
    <3> HIDE DEF dec
    <3>4. dec \in Seq(Nat) /\ Len(dec) = Len(elts)
      BY <3>3, FunctionIsSeq
    <3>5. Written(Made(w, dec, Len(elts)))
      BY <3>4 DEF Made, Written
    <3>6. Written(Corrupt)
      BY DEF Corrupt, Written
    <3> HIDE DEF r
    <3>7. Written(r)
      BY <2>1, <3>5, <3>6
    <3> QED BY <3>7 DEF r
  <2>4. CASE w \notin Widths
    <3>1. Written(Corrupt)
      BY DEF Corrupt, Written
    <3> QED BY <2>1, <2>4, <3>1
  <2> QED BY <2>3, <2>4
<1> QED BY <1>1, <1>2

-----------------------------------------------------------------------------
(* sentinel.                                                               *)
EncodeStates == [ok : BOOLEAN, values : Seq(Nat), exceptions : Seq(Nat)]
DecodeStates == [ok : BOOLEAN, output : Seq(Nat), excIdx : Nat]

(* The exceptions among the first n elements.                              *)
SentinelByteRun(f, src) ==
    /\ f \in [0..Len(src) -> Seq(Nat)]
    /\ ZL_sentinelByteEncode(src).exceptions = f[Len(src)]
    /\ f[0] = <<>>
    /\ \A n \in 1..Len(src) : f[n] = IF FitsByte(src[n]) THEN f[n - 1] ELSE Append(f[n - 1], src[n])

LEMMA SentinelByteStates ==
    ASSUME NEW src \in Seq(Nat)
    PROVE  \E f : SentinelByteRun(f, src)
<1> DEFINE N == Len(src)
           T == Seq(Nat)
           base == <<>>
           E(k, x) == IF FitsByte(src[k]) THEN x ELSE Append(x, src[k])
           step == [p \in (1..N) \X T |-> E(p[1], p[2])]
           value == CHOOSE f : f = [n \in 0..N |-> IF n = 0 THEN base ELSE E(n, f[n - 1])]
<1>1. N \in Nat
  OBVIOUS
<1>2. base \in T
  OBVIOUS
<1>3. ASSUME NEW k \in 1..N, NEW x \in T PROVE E(k, x) \in T
    OBVIOUS
<1>4. value = CHOOSE f : f = [n \in 0..N |-> IF n = 0 THEN base ELSE E(n, f[n - 1])]
  OBVIOUS
<1>5. ZL_sentinelByteEncode(src).exceptions = value[Len(src)]
  BY DEF ZL_sentinelByteEncode
<1> HIDE DEF N, T, base, E, value
<1>6. ASSUME NEW k \in 1..N, NEW x \in T PROVE step[<<k, x>>] = E(k, x)
  OBVIOUS
<1> HIDE DEF step
<1>7. PICK f \in [0..N -> T] : IsLoop(f, base, step, N)
  <2>1. \A k \in 1..N : \A x \in T : step[<<k, x>>] \in T
    <3> TAKE k \in 1..N
    <3> TAKE x \in T
    <3> QED BY <1>3, <1>6
  <2> QED BY <1>1, <1>2, <2>1, LoopExists
<1>8. f[0] = base /\ \A n \in 1..N : f[n] = E(n, f[n - 1])
  <2>1. LoopTurns(f, base, step, N, T)
    BY <1>1, <1>7, LoopFacts
  <2> QED BY <1>6, <2>1 DEF LoopTurns
<1>9. value = [n \in 0..N |-> IF n = 0 THEN base ELSE E(n, value[n - 1])]
  <2>1. f = [n \in 0..N |-> IF n = 0 THEN base ELSE E(n, f[n - 1])]
    BY <1>1, <1>7, <1>8
  <2> QED BY <1>4, <2>1
<1>10. value[0] = base /\ \A n \in 1..N : value[n] = E(n, value[n - 1])
  <2>1. 0 \in 0..N /\ \A n \in 1..N : n \in 0..N /\ n # 0
    BY <1>1
  <2> QED BY <1>9, <2>1
<1>11. value = [n \in 0..N |-> value[n]]
  BY <1>9
<1>12. f = value
  <2>1. ASSUME NEW n \in 1..N, f[n - 1] = value[n - 1] PROVE f[n] = value[n]
    BY <1>8, <1>10, <2>1
  <2>2. f = [n \in 0..N |-> f[n]] /\ f[0] = value[0]
    BY <1>7, <1>8, <1>10
  <2>3. SameTurns(f, value, N)
    BY <1>11, <2>1, <2>2 DEF SameTurns
  <2> QED BY <1>1, <2>3, SameLoop
<1>13. SentinelByteRun(f, src)
  BY <1>5, <1>7, <1>8, <1>12 DEF SentinelByteRun, N, T, base, E
<1> QED BY <1>13

(* ZL_sentinelEncode() after n elements.                                   *)
SentinelEncodeRun(f, src, indices, sentinel) ==
    /\ f \in [0..Len(src) -> EncodeStates]
    /\ ZL_sentinelEncode(src, indices, sentinel) = f[Len(src)]
    /\ f[0] = [ok |-> TRUE, values |-> <<>>, exceptions |-> <<>>]
    /\ \A n \in 1..Len(src) : f[n] = SentinelEncodeElement(f[n - 1], src[n], At(indices, Len(f[n - 1].exceptions) + 1) = n, sentinel)

LEMMA SentinelEncodeStates ==
    ASSUME NEW src \in Seq(Nat), NEW indices, NEW sentinel \in Nat
    PROVE  \E f : SentinelEncodeRun(f, src, indices, sentinel)
<1> DEFINE N == Len(src)
           T == EncodeStates
           base == [ok |-> TRUE, values |-> <<>>, exceptions |-> <<>>]
           E(k, x) == SentinelEncodeElement(x, src[k], At(indices, Len(x.exceptions) + 1) = k, sentinel)
           step == [p \in (1..N) \X T |-> E(p[1], p[2])]
           value == CHOOSE f : f = [n \in 0..N |-> IF n = 0 THEN base ELSE E(n, f[n - 1])]
<1>1. N \in Nat
  OBVIOUS
<1>2. base \in T
  BY DEF EncodeStates
<1>3. ASSUME NEW k \in 1..N, NEW x \in T PROVE E(k, x) \in T
  <2>1. x \in EncodeStates /\ src[k] \in Nat
    OBVIOUS
  <2>2. ASSUME NEW b \in BOOLEAN PROVE SentinelEncodeElement(x, src[k], b, sentinel) \in EncodeStates
    <3>1. CASE ~x.ok
      BY <2>1, <3>1 DEF SentinelEncodeElement
    <3>2. CASE x.ok /\ b
      <4>1. SentinelEncodeElement(x, src[k], b, sentinel) =
               [ok |-> TRUE, values |-> Append(x.values, sentinel), exceptions |-> Append(x.exceptions, src[k])]
        BY <3>2 DEF SentinelEncodeElement
      <4> QED BY <2>1, <4>1 DEF EncodeStates
    <3>3. CASE x.ok /\ ~b /\ src[k] = sentinel
      <4>1. SentinelEncodeElement(x, src[k], b, sentinel) = [x EXCEPT !.ok = FALSE]
        BY <3>3 DEF SentinelEncodeElement
      <4> QED BY <2>1, <4>1 DEF EncodeStates
    <3>4. CASE x.ok /\ ~b /\ src[k] # sentinel
      <4>1. SentinelEncodeElement(x, src[k], b, sentinel) =
               [ok |-> TRUE, values |-> Append(x.values, src[k]), exceptions |-> x.exceptions]
        BY <3>4 DEF SentinelEncodeElement
      <4> QED BY <2>1, <4>1 DEF EncodeStates
    <3> QED BY <3>1, <3>2, <3>3, <3>4
  <2> QED BY <2>2
<1>4. value = CHOOSE f : f = [n \in 0..N |-> IF n = 0 THEN base ELSE E(n, f[n - 1])]
  OBVIOUS
<1>5. ZL_sentinelEncode(src, indices, sentinel) = value[Len(src)]
  BY DEF ZL_sentinelEncode
<1> HIDE DEF N, T, base, E, value
<1>6. ASSUME NEW k \in 1..N, NEW x \in T PROVE step[<<k, x>>] = E(k, x)
  OBVIOUS
<1> HIDE DEF step
<1>7. PICK f \in [0..N -> T] : IsLoop(f, base, step, N)
  <2>1. \A k \in 1..N : \A x \in T : step[<<k, x>>] \in T
    <3> TAKE k \in 1..N
    <3> TAKE x \in T
    <3> QED BY <1>3, <1>6
  <2> QED BY <1>1, <1>2, <2>1, LoopExists
<1>8. f[0] = base /\ \A n \in 1..N : f[n] = E(n, f[n - 1])
  <2>1. LoopTurns(f, base, step, N, T)
    BY <1>1, <1>7, LoopFacts
  <2> QED BY <1>6, <2>1 DEF LoopTurns
<1>9. value = [n \in 0..N |-> IF n = 0 THEN base ELSE E(n, value[n - 1])]
  <2>1. f = [n \in 0..N |-> IF n = 0 THEN base ELSE E(n, f[n - 1])]
    BY <1>1, <1>7, <1>8
  <2> QED BY <1>4, <2>1
<1>10. value[0] = base /\ \A n \in 1..N : value[n] = E(n, value[n - 1])
  <2>1. 0 \in 0..N /\ \A n \in 1..N : n \in 0..N /\ n # 0
    BY <1>1
  <2> QED BY <1>9, <2>1
<1>11. value = [n \in 0..N |-> value[n]]
  BY <1>9
<1>12. f = value
  <2>1. ASSUME NEW n \in 1..N, f[n - 1] = value[n - 1] PROVE f[n] = value[n]
    BY <1>8, <1>10, <2>1
  <2>2. f = [n \in 0..N |-> f[n]] /\ f[0] = value[0]
    BY <1>7, <1>8, <1>10
  <2>3. SameTurns(f, value, N)
    BY <1>11, <2>1, <2>2 DEF SameTurns
  <2> QED BY <1>1, <2>3, SameLoop
<1>13. SentinelEncodeRun(f, src, indices, sentinel)
  BY <1>5, <1>7, <1>8, <1>12 DEF SentinelEncodeRun, N, T, base, E
<1> QED BY <1>13

(* ZL_sentinelDecode() after n values.                                     *)
SentinelDecodeRun(f, values, exceptions, sentinel) ==
    /\ f \in [0..Len(values) -> DecodeStates]
    /\ ZL_sentinelDecode(values, exceptions, sentinel) =
                   [ok |-> f[Len(values)].ok /\ f[Len(values)].excIdx = Len(exceptions),
                    output |-> f[Len(values)].output]
    /\ f[0] = [ok |-> TRUE, output |-> <<>>, excIdx |-> 0]
    /\ \A n \in 1..Len(values) : f[n] = SentinelDecodeElement(f[n - 1], values[n], exceptions, sentinel)

LEMMA SentinelDecodeStates ==
    ASSUME NEW values \in Seq(Nat), NEW exceptions \in Seq(Nat), NEW sentinel
    PROVE  \E f : SentinelDecodeRun(f, values, exceptions, sentinel)
<1> DEFINE N == Len(values)
           T == DecodeStates
           base == [ok |-> TRUE, output |-> <<>>, excIdx |-> 0]
           E(k, x) == SentinelDecodeElement(x, values[k], exceptions, sentinel)
           step == [p \in (1..N) \X T |-> E(p[1], p[2])]
           value == CHOOSE f : f = [n \in 0..N |-> IF n = 0 THEN base ELSE E(n, f[n - 1])]
<1>1. N \in Nat
  OBVIOUS
<1>2. base \in T
  BY DEF DecodeStates
<1>3. ASSUME NEW k \in 1..N, NEW x \in T PROVE E(k, x) \in T
  <2>1. x \in DecodeStates /\ values[k] \in Nat
    OBVIOUS
  <2>2. x.excIdx < Len(exceptions) => At(exceptions, x.excIdx + 1) \in Nat
    BY <2>1 DEF At, DecodeStates
  <2> QED BY <2>1, <2>2 DEF SentinelDecodeElement, DecodeStates
<1>4. value = CHOOSE f : f = [n \in 0..N |-> IF n = 0 THEN base ELSE E(n, f[n - 1])]
  OBVIOUS
<1>5. ZL_sentinelDecode(values, exceptions, sentinel) =
                   [ok |-> value[Len(values)].ok /\ value[Len(values)].excIdx = Len(exceptions),
                    output |-> value[Len(values)].output]
  BY DEF ZL_sentinelDecode
<1> HIDE DEF N, T, base, E, value
<1>6. ASSUME NEW k \in 1..N, NEW x \in T PROVE step[<<k, x>>] = E(k, x)
  OBVIOUS
<1> HIDE DEF step
<1>7. PICK f \in [0..N -> T] : IsLoop(f, base, step, N)
  <2>1. \A k \in 1..N : \A x \in T : step[<<k, x>>] \in T
    <3> TAKE k \in 1..N
    <3> TAKE x \in T
    <3> QED BY <1>3, <1>6
  <2> QED BY <1>1, <1>2, <2>1, LoopExists
<1>8. f[0] = base /\ \A n \in 1..N : f[n] = E(n, f[n - 1])
  <2>1. LoopTurns(f, base, step, N, T)
    BY <1>1, <1>7, LoopFacts
  <2> QED BY <1>6, <2>1 DEF LoopTurns
<1>9. value = [n \in 0..N |-> IF n = 0 THEN base ELSE E(n, value[n - 1])]
  <2>1. f = [n \in 0..N |-> IF n = 0 THEN base ELSE E(n, f[n - 1])]
    BY <1>1, <1>7, <1>8
  <2> QED BY <1>4, <2>1
<1>10. value[0] = base /\ \A n \in 1..N : value[n] = E(n, value[n - 1])
  <2>1. 0 \in 0..N /\ \A n \in 1..N : n \in 0..N /\ n # 0
    BY <1>1
  <2> QED BY <1>9, <2>1
<1>11. value = [n \in 0..N |-> value[n]]
  BY <1>9
<1>12. f = value
  <2>1. ASSUME NEW n \in 1..N, f[n - 1] = value[n - 1] PROVE f[n] = value[n]
    BY <1>8, <1>10, <2>1
  <2>2. f = [n \in 0..N |-> f[n]] /\ f[0] = value[0]
    BY <1>7, <1>8, <1>10
  <2>3. SameTurns(f, value, N)
    BY <1>11, <2>1, <2>2 DEF SameTurns
  <2> QED BY <1>1, <2>3, SameLoop
<1>13. SentinelDecodeRun(f, values, exceptions, sentinel)
  BY <1>5, <1>7, <1>8, <1>12 DEF SentinelDecodeRun, N, T, base, E
<1> QED BY <1>13

(* A sequence that a loop only appends to keeps what it has.               *)
OnlyAppends(g, N, V) ==
    /\ g \in [0..N -> Seq(V)]
    /\ \A n \in 1..N : g[n] = g[n - 1] \/ \E v \in V : g[n] = Append(g[n - 1], v)
Keeping(g, N) ==
    \A n \in 0..N : Len(g[n]) <= Len(g[N]) /\ \A i \in 1..Len(g[n]) : g[N][i] = g[n][i]

LEMMA OnlyGrows ==
    ASSUME NEW N \in Nat, NEW V, NEW g, OnlyAppends(g, N, V)
    PROVE  Keeping(g, N)
<1>0. /\ g \in [0..N -> Seq(V)]
      /\ \A n \in 1..N : g[n] = g[n - 1] \/ \E v \in V : g[n] = Append(g[n - 1], v)
  BY DEF OnlyAppends
<1> DEFINE Kept(n) == Len(g[n]) <= Len(g[N]) /\ \A i \in 1..Len(g[n]) : g[N][i] = g[n][i]
           S == {d \in 0..N : Kept(N - d)}
<1>1. 0 \in S
  BY <1>0
<1>2. ASSUME NEW d \in 1..N, d - 1 \in S PROVE d \in S
  <2> DEFINE n == N - d
  <2>1. n \in 0..N /\ n + 1 \in 1..N /\ (n + 1) - 1 = n /\ N - (d - 1) = n + 1
    OBVIOUS
  <2>2. g[n] \in Seq(V) /\ g[n + 1] \in Seq(V) /\ g[N] \in Seq(V)
    BY <1>0, <2>1
  <2>3. Kept(n + 1)
    BY <1>2, <2>1
  <2>4. g[n + 1] = g[n] \/ \E v \in V : g[n + 1] = Append(g[n], v)
    BY <1>0, <2>1
  <2> HIDE DEF n
  <2>5. Len(g[n]) <= Len(g[n + 1]) /\ \A i \in 1..Len(g[n]) : g[n + 1][i] = g[n][i]
    <3> DEFINE a == g[n]
               b == g[n + 1]
    <3>1. a \in Seq(V) /\ (b = a \/ \E v \in V : b = Append(a, v))
      BY <2>2, <2>4
    <3> HIDE DEF a, b
    <3>2. Len(a) <= Len(b) /\ \A i \in 1..Len(a) : b[i] = a[i]
      BY <3>1, AppendFacts
    <3> QED BY <3>2 DEF a, b
  <2>6. Kept(n)
    BY <2>2, <2>3, <2>5
  <2> QED BY <2>6 DEF n
<1> HIDE DEF S
<1>3. \A d \in 0..N : d \in S
  BY <1>1, <1>2, LoopInduction
<1>4. ASSUME NEW n \in 0..N PROVE Kept(n)
  <2>1. N - n \in 0..N /\ N - (N - n) = n
    OBVIOUS
  <2>2. N - n \in S
    BY <1>3, <2>1
  <2>3. Kept(N - (N - n))
    BY <2>2 DEF S
  <2> QED BY <2>1, <2>3
<1> QED BY <1>4 DEF Keeping

(* Every value is the element, or a sentinel for the next exception.       *)
Marks(src, values, exceptions, sentinel, e) ==
    /\ Len(values) = Len(src)
    /\ e \in [0..Len(src) -> Nat] /\ e[0] = 0 /\ e[Len(src)] = Len(exceptions)
    /\ \A n \in 1..Len(src) :
          \/ values[n] = src[n] /\ src[n] # sentinel /\ e[n] = e[n - 1]
          \/ /\ values[n] = sentinel /\ e[n] = e[n - 1] + 1
             /\ e[n] <= Len(exceptions) /\ exceptions[e[n]] = src[n]

(* Decoding marked values and their exceptions restores the elements.      *)
LEMMA SentinelUndone ==
    ASSUME NEW src \in Seq(Nat), NEW values \in Seq(Nat), NEW exceptions \in Seq(Nat),
           NEW sentinel \in Nat, NEW e, Marks(src, values, exceptions, sentinel, e)
    PROVE  ZL_sentinelDecode(values, exceptions, sentinel) = [ok |-> TRUE, output |-> src]
<1> DEFINE N == Len(values)
<1>1. N \in Nat /\ Len(src) = N
  BY DEF Marks
<1>0. PICK f : SentinelDecodeRun(f, values, exceptions, sentinel)
  BY SentinelDecodeStates
<1>2. /\ f \in [0..N -> DecodeStates]
      /\ ZL_sentinelDecode(values, exceptions, sentinel) =
            [ok |-> f[N].ok /\ f[N].excIdx = Len(exceptions), output |-> f[N].output]
      /\ f[0] = [ok |-> TRUE, output |-> <<>>, excIdx |-> 0]
      /\ \A n \in 1..N : f[n] = SentinelDecodeElement(f[n - 1], values[n], exceptions, sentinel)
  BY <1>0 DEF SentinelDecodeRun
<1> DEFINE Right(n) == /\ f[n].ok /\ f[n].excIdx = e[n] /\ Len(f[n].output) = n
                       /\ \A i \in 1..n : f[n].output[i] = src[i]
           S == {n \in 0..N : Right(n)}
<1>3. 0 \in S
  <2>1. f[0].ok /\ f[0].excIdx = 0 /\ f[0].output = <<>> /\ e[0] = 0
    BY <1>2 DEF Marks
  <2> QED BY <1>1, <2>1
<1>4. ASSUME NEW n \in 1..N, n - 1 \in S PROVE n \in S
  <2> DEFINE s == f[n - 1]
  <2>1. n \in 0..N /\ n - 1 \in 0..N /\ Right(n - 1)
    BY <1>1, <1>4
  <2>2. s \in DecodeStates /\ s.ok /\ s.excIdx = e[n - 1] /\ Len(s.output) = n - 1 /\ s.output \in Seq(Nat) /\ s.excIdx \in Nat
    BY <1>2, <2>1 DEF DecodeStates
  <2>3. f[n] = SentinelDecodeElement(s, values[n], exceptions, sentinel)
    BY <1>2
  <2>4. \A i \in 1..n - 1 : s.output[i] = src[i]
    BY <2>1
  <2>5. src[n] \in Nat
    <3>1. n \in 1..Len(src)
      BY <1>1
    <3> QED BY <3>1
  <2> HIDE DEF s
  <2>6. f[n].ok /\ f[n].excIdx = e[n] /\ f[n].output = Append(s.output, src[n])
    <3>1. CASE values[n] = src[n] /\ src[n] # sentinel /\ e[n] = e[n - 1]
      BY <2>2, <2>3, <3>1 DEF SentinelDecodeElement
    <3>2. CASE /\ values[n] = sentinel /\ e[n] = e[n - 1] + 1
               /\ e[n] <= Len(exceptions) /\ exceptions[e[n]] = src[n]
      <4>1. ~ (s.excIdx >= Len(exceptions)) /\ At(exceptions, s.excIdx + 1) = src[n] /\ s.excIdx + 1 = e[n]
        BY <2>2, <3>2 DEF At
      <4>2. f[n] = [ok |-> TRUE, output |-> Append(s.output, At(exceptions, s.excIdx + 1)),
                    excIdx |-> s.excIdx + 1]
        BY <2>2, <2>3, <3>2, <4>1 DEF SentinelDecodeElement
      <4> QED BY <4>1, <4>2
    <3> QED BY <3>1, <3>2 DEF Marks
  <2>7. Len(f[n].output) = n /\ \A i \in 1..n : f[n].output[i] = src[i]
    <3> DEFINE o == s.output
    <3>1. o \in Seq(Nat) /\ Len(o) = n - 1 /\ \A i \in 1..n - 1 : o[i] = src[i]
      BY <2>2, <2>4
    <3>2. f[n].output = Append(o, src[n])
      BY <2>6
    <3> HIDE DEF o
    <3>3. /\ Len(f[n].output) = n /\ f[n].output[n] = src[n]
          /\ \A i \in 1..n - 1 : f[n].output[i] = o[i]
      BY <1>1, <2>5, <3>1, <3>2, AppendFacts
    <3>4. ASSUME NEW i \in 1..n PROVE f[n].output[i] = src[i]
      <4>1. i = n \/ i \in 1..n - 1
        BY <1>1
      <4> QED BY <3>1, <3>3, <4>1
    <3> QED BY <3>3, <3>4
  <2> QED BY <2>1, <2>6, <2>7
<1> HIDE DEF S
<1>5. \A n \in 0..N : n \in S
  BY <1>1, <1>3, <1>4, LoopInduction
<1>6. Right(N)
  <2>1. N \in 0..N
    BY <1>1
  <2> QED BY <1>5, <2>1 DEF S
<1>7. f[N].output = src
  <2>1. f[N].output \in Seq(Nat)
    <3>1. N \in 0..N
      BY <1>1
    <3>2. f[N] \in DecodeStates
      BY <1>2, <3>1
    <3> QED BY <3>2 DEF DecodeStates
  <2> QED BY <1>1, <1>6, <2>1, SeqsEqual
<1>8. f[N].excIdx = Len(exceptions)
  BY <1>6 DEF Marks
<1> QED BY <1>2, <1>6, <1>7, <1>8

LEMMA SentinelDecodes ==
    ASSUME NEW src \in Seq(Nat), NEW values \in Seq(Nat), NEW exceptions \in Seq(Nat),
           NEW sentinel \in Nat, NEW e, Marks(src, values, exceptions, sentinel, e),
           NEW width \in Nat \ {0}, NEW vw \in Nat \ {0}, vw <= width, sentinel <= ZL_maxValueForWidth(vw),
           NEW header, header = <<sentinel>> \/ (header = <<>> /\ sentinel = ZL_maxValueForWidth(vw))
    PROVE  DI_sentinel(header, <<Stream(vw, values), Stream(width, exceptions)>>)
              = Made(width, src, Len(src))
<1> DEFINE streams == <<Stream(vw, values), Stream(width, exceptions)>>
<1>1. ZL_sentinelDecode(values, exceptions, sentinel) = [ok |-> TRUE, output |-> src]
  BY SentinelUndone
<1>2. /\ streams[1].width = vw /\ streams[1].elts = values
      /\ streams[2].width = width /\ streams[2].elts = exceptions
  BY DEF Stream
<1>3. (IF header = <<>> THEN ZL_maxValueForWidth(vw) ELSE header[1]) = sentinel
  OBVIOUS
<1>4. ~ (vw > width) /\ ~ (sentinel > ZL_maxValueForWidth(vw))
  <2>1. ZL_maxValueForWidth(vw) \in Nat
    BY WidthModulus
  <2> QED BY <2>1
<1>5. Len(values) = Len(src)
  BY DEF Marks
<1> HIDE DEF streams
<1>6. DI_sentinel(header, streams) = Made(width, src, Len(values))
  BY <1>1, <1>2, <1>3, <1>4 DEF DI_sentinel
<1> QED BY <1>5, <1>6 DEF streams

(* sentinel: what EI_sentinel_byte() sends decodes to the input.           *)
LEMMA SentinelByteRoundTrip ==
    ASSUME NEW width \in Nat \ {0}, NEW src \in Elements(width), EI_sentinel_byte(src, width).ok
    PROVE  DI_sentinel(EI_sentinel_byte(src, width).header, EI_sentinel_byte(src, width).streams)
              = Made(width, src, Len(src))
<1> DEFINE N == Len(src)
           max == ZL_maxValueForWidth(1)
           values == [i \in DOMAIN src |-> IF FitsByte(src[i]) THEN src[i] ELSE max]
<1>1. /\ src \in Seq(Nat) /\ N \in Nat /\ DOMAIN src = 1..N
      /\ \A i \in 1..N : src[i] \in Nat
  BY ElementsFit
<1>0. PICK f : SentinelByteRun(f, src)
  BY <1>1, SentinelByteStates
<1>2. /\ f \in [0..N -> Seq(Nat)]
      /\ ZL_sentinelByteEncode(src).exceptions = f[N]
      /\ f[0] = <<>>
      /\ \A n \in 1..N : f[n] = IF FitsByte(src[n]) THEN f[n - 1] ELSE Append(f[n - 1], src[n])
  BY <1>0 DEF SentinelByteRun
<1>3. max \in Nat
  BY WidthModulus
<1>4. /\ EI_sentinel_byte(src, width).header = <<>>
      /\ EI_sentinel_byte(src, width).streams = <<Stream(1, values), Stream(width, f[N])>>
  <2>1. width # 1
    BY DEF EI_sentinel_byte, NotSent
  <2>2. ZL_sentinelByteEncode(src).values = values
    BY DEF ZL_sentinelByteEncode
  <2> HIDE DEF values
  <2> QED BY <1>2, <2>1, <2>2 DEF EI_sentinel_byte, Sent
<1>5. values \in [1..N -> Nat] /\ \A i \in 1..N : values[i] = IF FitsByte(src[i]) THEN src[i] ELSE max
  <2> HIDE DEF max
  <2> QED BY <1>1, <1>3
<1> HIDE DEF values, max
<1>6. values \in Seq(Nat) /\ Len(values) = N
  BY <1>1, <1>5, FunctionIsSeq
<1> DEFINE e == [n \in 0..N |-> Len(f[n])]
<1>7. Marks(src, values, f[N], max, e)
  <2>1. N \in 0..N /\ 0 \in 0..N
    BY <1>1
  <2>2. e \in [0..N -> Nat] /\ e[0] = 0 /\ e[N] = Len(f[N])
    BY <1>2, <2>1
  <2>3. \A n \in 0..N : Len(f[n]) <= Len(f[N]) /\ \A i \in 1..Len(f[n]) : f[N][i] = f[n][i]
    <3>1. ASSUME NEW n \in 1..N PROVE f[n] = f[n - 1] \/ \E v \in Nat : f[n] = Append(f[n - 1], v)
      <4>1. src[n] \in Nat
        BY <1>1
      <4> QED BY <1>2, <4>1
    <3>2. OnlyAppends(f, N, Nat)
      BY <1>2, <3>1 DEF OnlyAppends
    <3> HIDE DEF N
    <3>3. Keeping(f, N)
      BY <1>1, <3>2, OnlyGrows
    <3> QED BY <3>3 DEF Keeping
  <2>4. ASSUME NEW n \in 1..N
        PROVE  \/ values[n] = src[n] /\ src[n] # max /\ e[n] = e[n - 1]
               \/ /\ values[n] = max /\ e[n] = e[n - 1] + 1
                  /\ e[n] <= Len(f[N]) /\ f[N][e[n]] = src[n]
    <3>1. n \in 0..N /\ n - 1 \in 0..N
      BY <1>1
    <3>2. e[n] = Len(f[n]) /\ e[n - 1] = Len(f[n - 1]) /\ f[n - 1] \in Seq(Nat) /\ src[n] \in Nat
      BY <1>1, <1>2, <3>1
    <3>3. CASE FitsByte(src[n])
      <4>1. src[n] # max
        BY <1>3, <3>2, <3>3 DEF FitsByte, max
      <4>2. f[n] = f[n - 1] /\ values[n] = src[n]
        BY <1>2, <1>5, <3>3
      <4> QED BY <3>2, <4>1, <4>2
    <3>4. CASE ~FitsByte(src[n])
      <4> DEFINE a == f[n - 1]
                 b == f[n]
      <4>1. b = Append(a, src[n]) /\ values[n] = max
        BY <1>2, <1>5, <3>4
      <4>2. a \in Seq(Nat) /\ e[n] = Len(b) /\ e[n - 1] = Len(a)
        BY <3>2
      <4>3. Len(b) <= Len(f[N]) /\ \A i \in 1..Len(b) : f[N][i] = b[i]
        BY <2>3, <3>1
      <4> HIDE DEF a, b, e
      <4>4. Len(b) = Len(a) + 1 /\ b[Len(b)] = src[n] /\ Len(b) \in 1..Len(b)
        BY <3>2, <4>1, <4>2, AppendFacts
      <4> QED BY <4>1, <4>2, <4>3, <4>4
    <3> QED BY <3>3, <3>4
  <2> HIDE DEF e
  <2> QED BY <1>6, <2>2, <2>4 DEF Marks
<1>8. DI_sentinel(<<>>, <<Stream(1, values), Stream(width, f[N])>>) = Made(width, src, Len(src))
  <2>1. f[N] \in Seq(Nat)
    BY <1>1, <1>2
  <2>2. 1 \in Nat \ {0} /\ 1 <= width /\ max = ZL_maxValueForWidth(1) /\ max <= ZL_maxValueForWidth(1)
    BY <1>3 DEF max
  <2> HIDE DEF e
  <2> QED BY <1>1, <1>3, <1>6, <1>7, <2>1, <2>2, SentinelDecodes
<1> QED BY <1>4, <1>8

(* sentinel: what EI_sentinel() sends decodes to the input.                *)
LEMMA SentinelRoundTrip ==
    ASSUME NEW width \in Nat \ {0}, NEW src \in Elements(width), NEW indices, NEW value \in Nat,
           EI_sentinel(src, width, indices, value).ok
    PROVE  DI_sentinel(EI_sentinel(src, width, indices, value).header,
                       EI_sentinel(src, width, indices, value).streams)
              = Made(width, src, Len(src))
<1> DEFINE N == Len(src)
           sentinel == Cast(value, width)
           Enc(s, n) == SentinelEncodeElement(s, src[n], At(indices, Len(s.exceptions) + 1) = n, sentinel)
<1>1. /\ src \in Seq(Nat) /\ N \in Nat /\ DOMAIN src = 1..N
      /\ \A i \in 1..N : src[i] \in Nat
  BY ElementsFit
<1>2. sentinel \in Nat /\ sentinel <= ZL_maxValueForWidth(width)
  <2>1. sentinel \in Nat /\ sentinel < Modulus(width)
    BY CastNat
  <2>2. Modulus(width) \in Nat /\ ZL_maxValueForWidth(width) = Modulus(width) - 1
    BY WidthModulus
  <2> QED BY <2>1, <2>2
<1>0. PICK f : SentinelEncodeRun(f, src, indices, sentinel)
  <2> HIDE DEF sentinel
  <2> QED BY <1>1, <1>2, SentinelEncodeStates
<1>3. /\ f \in [0..N -> EncodeStates]
      /\ ZL_sentinelEncode(src, indices, sentinel) = f[N]
      /\ f[0] = [ok |-> TRUE, values |-> <<>>, exceptions |-> <<>>]
      /\ \A n \in 1..N : f[n] = Enc(f[n - 1], n)
  BY <1>0 DEF SentinelEncodeRun
<1> DEFINE header == IF sentinel = ZL_maxValueForWidth(width) THEN <<>> ELSE <<sentinel>>
<1>4. /\ f[N].ok
      /\ EI_sentinel(src, width, indices, value).header = header
      /\ EI_sentinel(src, width, indices, value).streams
            = <<Stream(width, f[N].values), Stream(width, f[N].exceptions)>>
  <2>1. EI_sentinel(src, width, indices, value) =
           IF ~f[N].ok \/ Len(f[N].exceptions) # Len(indices) THEN NotSent
           ELSE Sent(header, <<Stream(width, f[N].values), Stream(width, f[N].exceptions)>>)
    BY <1>3 DEF EI_sentinel
  <2> HIDE DEF header
  <2>2. ~NotSent.ok
    BY DEF NotSent
  <2>3. ~ (~f[N].ok \/ Len(f[N].exceptions) # Len(indices))
    BY <2>1, <2>2
  <2> QED BY <2>1, <2>3 DEF Sent
<1> HIDE DEF sentinel
<1>5. \A n \in 0..N : f[n] \in EncodeStates /\ f[n].values \in Seq(Nat) /\ f[n].exceptions \in Seq(Nat) /\ f[n].ok \in BOOLEAN
  BY <1>3 DEF EncodeStates
<1>6. \A n \in 0..N : f[n].ok
  <2> DEFINE S == {d \in 0..N : f[N - d].ok}
  <2>1. 0 \in S
    BY <1>1, <1>4
  <2>2. ASSUME NEW d \in 1..N, d - 1 \in S PROVE d \in S
    <3> DEFINE n == N - d
    <3>1. n \in 0..N /\ n + 1 \in 1..N /\ (n + 1) - 1 = n /\ N - (d - 1) = n + 1 /\ d \in 0..N
      BY <1>1
    <3>2. f[n + 1].ok /\ f[n + 1] = Enc(f[n], n + 1)
      BY <1>3, <2>2, <3>1
    <3> HIDE DEF n
    <3>3. f[n].ok
      BY <1>5, <3>1, <3>2 DEF SentinelEncodeElement
    <3> QED BY <3>1, <3>3 DEF n
  <2> HIDE DEF S
  <2>3. \A d \in 0..N : d \in S
    BY <1>1, <2>1, <2>2, LoopInduction
  <2>4. ASSUME NEW n \in 0..N PROVE f[n].ok
    <3>1. N - n \in 0..N /\ N - (N - n) = n
      BY <1>1
    <3>2. f[N - (N - n)].ok
      BY <2>3, <3>1 DEF S
    <3> QED BY <3>1, <3>2
  <2> QED BY <2>4
<1>7. ASSUME NEW n \in 1..N
      PROVE  \/ /\ src[n] # sentinel /\ f[n].exceptions = f[n - 1].exceptions
                /\ f[n].values = Append(f[n - 1].values, src[n])
             \/ /\ f[n].exceptions = Append(f[n - 1].exceptions, src[n])
                /\ f[n].values = Append(f[n - 1].values, sentinel)
  <2>1. n \in 0..N /\ n - 1 \in 0..N
    BY <1>1
  <2>2. f[n - 1].ok /\ f[n].ok /\ f[n] = Enc(f[n - 1], n)
    BY <1>3, <1>6, <2>1
  <2> DEFINE b == At(indices, Len(f[n - 1].exceptions) + 1) = n
  <2>3. f[n] = SentinelEncodeElement(f[n - 1], src[n], b, sentinel)
    BY <2>2
  <2> HIDE DEF b
  <2>4. CASE b
    <3>1. f[n] = [ok |-> TRUE, values |-> Append(f[n - 1].values, sentinel),
                  exceptions |-> Append(f[n - 1].exceptions, src[n])]
      BY <2>2, <2>3, <2>4 DEF SentinelEncodeElement
    <3> QED BY <3>1
  <2>5. CASE ~b
    <3>1. CASE src[n] = sentinel
      BY <2>2, <2>3, <2>5, <3>1, <1>3, <2>1 DEF SentinelEncodeElement, EncodeStates
    <3>2. CASE src[n] # sentinel
      BY <2>2, <2>3, <2>5, <3>2 DEF SentinelEncodeElement
    <3> QED BY <3>1, <3>2
  <2> QED BY <2>4, <2>5
<1> DEFINE vals == [n \in 0..N |-> f[n].values]
           excs == [n \in 0..N |-> f[n].exceptions]
           e == [n \in 0..N |-> Len(excs[n])]
<1>8. vals \in [0..N -> Seq(Nat)] /\ excs \in [0..N -> Seq(Nat)] /\ vals[0] = <<>> /\ excs[0] = <<>>
  <2>1. 0 \in 0..N
    BY <1>1
  <2> QED BY <1>3, <1>5, <2>1
<1>9. ASSUME NEW n \in 1..N
      PROVE  /\ src[n] \in Nat /\ n \in 0..N /\ n - 1 \in 0..N
             /\ \/ src[n] # sentinel /\ excs[n] = excs[n - 1] /\ vals[n] = Append(vals[n - 1], src[n])
                \/ excs[n] = Append(excs[n - 1], src[n]) /\ vals[n] = Append(vals[n - 1], sentinel)
  <2>1. src[n] \in Nat /\ n \in 0..N /\ n - 1 \in 0..N
    BY <1>1
  <2> QED BY <1>7, <2>1
<1>10. N \in 0..N /\ vals[N] = f[N].values /\ excs[N] = f[N].exceptions /\ 0 \in 0..N
  BY <1>1
<1> HIDE DEF vals, excs
<1>11. \A n \in 0..N : Len(excs[n]) <= Len(excs[N]) /\ \A i \in 1..Len(excs[n]) : excs[N][i] = excs[n][i]
  <2>1. \A n \in 1..N : excs[n] = excs[n - 1] \/ \E v \in Nat : excs[n] = Append(excs[n - 1], v)
    BY <1>9
  <2>2. OnlyAppends(excs, N, Nat)
    BY <1>8, <2>1 DEF OnlyAppends
  <2> HIDE DEF N
  <2>3. Keeping(excs, N)
    BY <1>1, <2>2, OnlyGrows
  <2> QED BY <2>3 DEF Keeping
<1>12. \A n \in 0..N : Len(vals[n]) <= Len(vals[N]) /\ \A i \in 1..Len(vals[n]) : vals[N][i] = vals[n][i]
  <2>1. \A n \in 1..N : vals[n] = vals[n - 1] \/ \E v \in Nat : vals[n] = Append(vals[n - 1], v)
    BY <1>2, <1>9
  <2>2. OnlyAppends(vals, N, Nat)
    BY <1>8, <2>1 DEF OnlyAppends
  <2> HIDE DEF N
  <2>3. Keeping(vals, N)
    BY <1>1, <2>2, OnlyGrows
  <2> QED BY <2>3 DEF Keeping
<1>13. \A n \in 0..N : Len(vals[n]) = n
  <2> DEFINE S == {n \in 0..N : Len(vals[n]) = n}
  <2>1. 0 \in S
    BY <1>8, <1>10
  <2>2. ASSUME NEW n \in 1..N, n - 1 \in S PROVE n \in S
    <3>1. Len(vals[n - 1]) = n - 1 /\ vals[n - 1] \in Seq(Nat)
      BY <1>8, <1>9, <2>2
    <3>2. \E v \in Nat : vals[n] = Append(vals[n - 1], v)
      BY <1>2, <1>9
    <3>3. Len(vals[n]) = n
      BY <3>1, <3>2, AppendFacts
    <3> QED BY <1>9, <3>3
  <2> HIDE DEF S
  <2>3. \A n \in 0..N : n \in S
    BY <1>1, <2>1, <2>2, LoopInduction
  <2> QED BY <2>3 DEF S
<1>14. Marks(src, vals[N], excs[N], sentinel, e)
  <2>1. e \in [0..N -> Nat] /\ e[0] = 0 /\ e[N] = Len(excs[N])
    BY <1>8, <1>10
  <2>2. Len(vals[N]) = Len(src)
    BY <1>10, <1>13
  <2>3. ASSUME NEW n \in 1..N
        PROVE  \/ vals[N][n] = src[n] /\ src[n] # sentinel /\ e[n] = e[n - 1]
               \/ /\ vals[N][n] = sentinel /\ e[n] = e[n - 1] + 1
                  /\ e[n] <= Len(excs[N]) /\ excs[N][e[n]] = src[n]
    <3> DEFINE a == vals[n - 1]
               x == excs[n - 1]
               y == excs[n]
    <3>1. /\ src[n] \in Nat /\ n \in 0..N /\ n - 1 \in 0..N
          /\ a \in Seq(Nat) /\ x \in Seq(Nat) /\ Len(a) = n - 1
      BY <1>8, <1>9, <1>13
    <3>2. e[n] = Len(y) /\ e[n - 1] = Len(x)
      BY <3>1
    <3>3. n \in 1..Len(vals[n]) /\ vals[N][n] = vals[n][n]
      BY <1>12, <1>13, <3>1
    <3>4. Len(y) <= Len(excs[N]) /\ \A i \in 1..Len(y) : excs[N][i] = y[i]
      BY <1>11, <3>1
    <3>5. \/ src[n] # sentinel /\ y = x /\ vals[n] = Append(a, src[n])
          \/ y = Append(x, src[n]) /\ vals[n] = Append(a, sentinel)
      BY <1>9
    <3> HIDE DEF a, x, y, e
    <3>6. CASE src[n] # sentinel /\ y = x /\ vals[n] = Append(a, src[n])
      <4>1. vals[n][n] = src[n]
        BY <3>1, <3>6, AppendFacts
      <4> QED BY <3>2, <3>3, <3>6, <4>1
    <3>7. CASE y = Append(x, src[n]) /\ vals[n] = Append(a, sentinel)
      <4>1. vals[n][n] = sentinel
        BY <1>2, <3>1, <3>7, AppendFacts
      <4>2. Len(y) = Len(x) + 1 /\ y[Len(y)] = src[n] /\ Len(y) \in 1..Len(y)
        BY <3>1, <3>7, AppendFacts
      <4> QED BY <3>2, <3>3, <3>4, <4>1, <4>2
    <3> QED BY <3>5, <3>6, <3>7
  <2> HIDE DEF e
  <2> QED BY <2>1, <2>2, <2>3 DEF Marks
<1>15. header = <<sentinel>> \/ (header = <<>> /\ sentinel = ZL_maxValueForWidth(width))
  OBVIOUS
<1> HIDE DEF header, e
<1>16. DI_sentinel(header, <<Stream(width, vals[N]), Stream(width, excs[N])>>) = Made(width, src, Len(src))
  <2>1. vals[N] \in Seq(Nat) /\ excs[N] \in Seq(Nat) /\ width <= width
    BY <1>8, <1>10
  <2> QED BY <1>1, <1>2, <1>14, <1>15, <2>1, SentinelDecodes
<1> QED BY <1>4, <1>10, <1>16

(* sentinel: an accepted output is written in full.                        *)
LEMMA SentinelAccepted ==
    ASSUME NEW header \in Seq(Nat), NEW streams,
           streams[1].elts \in Seq(Nat), streams[2].elts \in Seq(Nat)
    PROVE  Written(DI_sentinel(header, streams))
<1> DEFINE values == streams[1].elts
           exceptions == streams[2].elts
           sentinel == IF header = <<>> THEN ZL_maxValueForWidth(streams[1].width) ELSE header[1]
           N == Len(values)
           kernel == ZL_sentinelDecode(values, exceptions, sentinel)
<1>1. DI_sentinel(header, streams) = Corrupt \/
         (kernel.ok /\ DI_sentinel(header, streams) = Made(streams[2].width, kernel.output, N))
  BY DEF DI_sentinel
<1>2. N \in Nat /\ values \in Seq(Nat) /\ exceptions \in Seq(Nat)
  OBVIOUS
<1> HIDE DEF values, exceptions, sentinel
<1>0. PICK f : SentinelDecodeRun(f, values, exceptions, sentinel)
  BY <1>2, SentinelDecodeStates
<1>3. /\ f \in [0..N -> DecodeStates]
      /\ kernel = [ok |-> f[N].ok /\ f[N].excIdx = Len(exceptions), output |-> f[N].output]
      /\ f[0] = [ok |-> TRUE, output |-> <<>>, excIdx |-> 0]
      /\ \A n \in 1..N : f[n] = SentinelDecodeElement(f[n - 1], values[n], exceptions, sentinel)
  BY <1>0 DEF SentinelDecodeRun
<1> HIDE DEF kernel
<1> DEFINE S == {n \in 0..N : f[n].ok => Len(f[n].output) = n}
<1>4. 0 \in S
  <2>1. 0 \in 0..N /\ f[0].output = <<>>
    BY <1>2, <1>3
  <2> QED BY <2>1
<1>5. ASSUME NEW n \in 1..N, n - 1 \in S PROVE n \in S
  <2> DEFINE s == f[n - 1]
             r == SentinelDecodeElement(s, values[n], exceptions, sentinel)
  <2>1. n \in 0..N /\ n - 1 \in 0..N /\ f[n] = r
    BY <1>2, <1>3
  <2>2. s \in DecodeStates /\ s.output \in Seq(Nat) /\ s.excIdx \in Nat /\ (s.ok => Len(s.output) = n - 1)
    BY <1>3, <1>5, <2>1 DEF DecodeStates
  <2>3. values[n] \in Nat
    BY <1>2
  <2> HIDE DEF s
  <2>4. r.ok => s.ok /\ \E v \in Nat : r.output = Append(s.output, v)
    <3>1. CASE ~s.ok
      BY <3>1 DEF SentinelDecodeElement
    <3>2. CASE s.ok /\ values[n] # sentinel
      BY <2>3, <3>2 DEF SentinelDecodeElement
    <3>3. CASE s.ok /\ values[n] = sentinel /\ s.excIdx >= Len(exceptions)
      BY <3>3 DEF SentinelDecodeElement
    <3>4. CASE s.ok /\ values[n] = sentinel /\ ~(s.excIdx >= Len(exceptions))
      <4>1. At(exceptions, s.excIdx + 1) \in Nat
        <5>1. s.excIdx + 1 \in 1..Len(exceptions)
          BY <1>2, <2>2, <3>4
        <5> QED BY <1>2, <5>1 DEF At
      <4>2. r.output = Append(s.output, At(exceptions, s.excIdx + 1))
        BY <3>4 DEF SentinelDecodeElement
      <4> QED BY <3>4, <4>1, <4>2
    <3> QED BY <3>1, <3>2, <3>3, <3>4
  <2> HIDE DEF r
  <2>5. r.ok => Len(r.output) = n
    <3> SUFFICES ASSUME r.ok PROVE Len(r.output) = n
      OBVIOUS
    <3>1. PICK v \in Nat : r.output = Append(s.output, v)
      BY <2>4
    <3> DEFINE o == s.output
    <3>2. o \in Seq(Nat) /\ Len(o) = n - 1 /\ r.output = Append(o, v)
      BY <2>2, <2>4, <3>1
    <3> HIDE DEF o
    <3> QED BY <3>2, AppendFacts
  <2> QED BY <2>1, <2>5
<1> HIDE DEF S
<1>6. \A n \in 0..N : n \in S
  BY <1>2, <1>4, <1>5, LoopInduction
<1>7. kernel.ok => kernel.output \in Seq(Nat) /\ Len(kernel.output) = N
  <2>1. N \in 0..N
    BY <1>2
  <2>2. f[N].ok => Len(f[N].output) = N
    BY <1>6, <2>1 DEF S
  <2>3. f[N] \in DecodeStates /\ f[N].output \in Seq(Nat)
    BY <1>3, <2>1 DEF DecodeStates
  <2> QED BY <1>3, <2>2, <2>3
<1>8. Written(Corrupt)
  BY DEF Corrupt, Written
<1>9. kernel.ok => Written(Made(streams[2].width, kernel.output, N))
  BY <1>7 DEF Made, Written
<1> QED BY <1>1, <1>8, <1>9

(* b is s followed by t.                                                   *)
IsJoin(b, s, t) ==
    /\ Len(b) = Len(s) + Len(t)
    /\ \A i \in 1..Len(s) : b[i] = s[i]
    /\ \A i \in 1..Len(t) : b[Len(s) + i] = t[i]

LEMMA JoinFacts ==
    ASSUME NEW V, NEW s \in Seq(V), NEW t \in Seq(V)
    PROVE  s \o t \in Seq(V) /\ IsJoin(s \o t, s, t)
<1>1. \A i \in 1..Len(t) : Len(s) + i \in 1..Len(s) + Len(t) /\ ~ (Len(s) + i <= Len(s)) /\ (Len(s) + i) - Len(s) = i
  OBVIOUS
<1> QED BY <1>1 DEF IsJoin

(* Sums and concatenations.                                                *)
LEMMA SumFacts ==
    ASSUME NEW s \in Seq(Nat)
    PROVE  /\ Sums(s) \in [0..Len(s) -> Nat] /\ Sums(s)[0] = 0
           /\ \A n \in 1..Len(s) : Sums(s)[n] = Sums(s)[n - 1] + s[n]
           /\ Sum(s) = Sums(s)[Len(s)] /\ Sum(s) \in Nat
<1>1. PICK f \in [0..Len(s) -> Nat] :
          Sums(s) = f /\ f[0] = 0 /\ \A n \in 1..Len(s) : f[n] = f[n - 1] + s[n]
  BY SumStates
<1>2. Len(s) \in 0..Len(s)
  OBVIOUS
<1> QED BY <1>1, <1>2 DEF Sum

LEMMA ConcatFacts ==
    ASSUME NEW V, NEW seqs \in Seq(Seq(V))
    PROVE  /\ Concats(seqs) \in [0..Len(seqs) -> Seq(V)] /\ Concats(seqs)[0] = <<>>
           /\ \A n \in 1..Len(seqs) : Concats(seqs)[n] = Concats(seqs)[n - 1] \o seqs[n]
           /\ Concat(seqs) = Concats(seqs)[Len(seqs)] /\ Concat(seqs) \in Seq(V)
<1>1. PICK f \in [0..Len(seqs) -> Seq(V)] :
          Concats(seqs) = f /\ f[0] = <<>> /\ \A n \in 1..Len(seqs) : f[n] = f[n - 1] \o seqs[n]
  BY ConcatStates
<1>2. Len(seqs) \in 0..Len(seqs)
  OBVIOUS
<1> QED BY <1>1, <1>2 DEF Concat

LEMMA ConcatAppend ==
    ASSUME NEW V, NEW seqs \in Seq(Seq(V)), NEW c \in Seq(V)
    PROVE  Concat(Append(seqs, c)) = Concat(seqs) \o c
<1> DEFINE more == Append(seqs, c)
           N == Len(seqs)
           f == Concats(seqs)
           g == Concats(more)
<1>1. /\ more \in Seq(Seq(V)) /\ Len(more) = N + 1 /\ N \in Nat
      /\ \A n \in 1..N : more[n] = seqs[n]
      /\ more[N + 1] = c
  OBVIOUS
<1> HIDE DEF more
<1>2. /\ f \in [0..N -> Seq(V)] /\ f[0] = <<>> /\ Concat(seqs) = f[N]
      /\ \A n \in 1..N : f[n] = f[n - 1] \o seqs[n]
  BY ConcatFacts
<1>3. /\ g[0] = <<>> /\ Concat(more) = g[N + 1]
      /\ \A n \in 1..N + 1 : g[n] = g[n - 1] \o more[n]
  BY <1>1, ConcatFacts
<1> HIDE DEF f, g, N
<1> DEFINE S == {n \in 0..N : f[n] = g[n]}
<1>4. 0 \in S
  BY <1>1, <1>2, <1>3
<1>5. ASSUME NEW n \in 1..N, n - 1 \in S PROVE n \in S
  <2>1. n \in 0..N /\ n \in 1..N + 1 /\ f[n - 1] = g[n - 1]
    BY <1>1, <1>5
  <2> QED BY <1>1, <1>2, <1>3, <2>1
<1> HIDE DEF S
<1>6. \A n \in 0..N : n \in S
  BY <1>1, <1>4, <1>5, LoopInduction
<1>7. f[N] = g[N]
  <2>1. N \in 0..N
    BY <1>1
  <2> QED BY <1>6, <2>1 DEF S
<1>8. g[N + 1] = g[N] \o c
  <2>1. N + 1 \in 1..N + 1 /\ (N + 1) - 1 = N
    BY <1>1
  <2> QED BY <1>1, <1>3, <2>1
<1> QED BY <1>2, <1>3, <1>7, <1>8 DEF more

LEMMA ConcatEmpty == Concat(<<>>) = <<>>
<1>1. <<>> \in Seq(Seq(Nat)) /\ Len(<<>>) = 0
  OBVIOUS
<1> QED BY <1>1, ConcatFacts

-----------------------------------------------------------------------------
(* sparse_num.                                                             *)
ScanStates == [run : Nat, maxDistance : Nat, numValues : Nat, numDistances : Nat]
SparseStates == [distances : Seq(Nat), values : Seq(Nat), elts : Nat, run : Nat]

(* ZL_sparseNumSelectDominant() after n elements.                          *)
Sampled(src) == IF Len(src) < SampleMax THEN Len(src) ELSE SampleMax
VoteRun(f, src, V) ==
    /\ f \in [0..Len(src) -> [candidate : V, votes : Nat]]
    /\ ZL_sparseNumSelectDominant(src) = (IF f[Sampled(src)].votes = 0 THEN 0 ELSE f[Sampled(src)].candidate)
    /\ f[0] = [candidate |-> 0, votes |-> 0]
    /\ \A n \in 1..Len(src) : f[n] = Vote(f[n - 1], src[n])

LEMMA VoteStates ==
    ASSUME NEW V, 0 \in V, NEW src \in Seq(V)
    PROVE  \E f : VoteRun(f, src, V)
<1> DEFINE N == Len(src)
           T == [candidate : V, votes : Nat]
           base == [candidate |-> 0, votes |-> 0]
           E(k, x) == Vote(x, src[k])
           step == [p \in (1..N) \X T |-> E(p[1], p[2])]
           value == CHOOSE f : f = [n \in 0..N |-> IF n = 0 THEN base ELSE E(n, f[n - 1])]
<1>1. N \in Nat
  OBVIOUS
<1>2. base \in T
  OBVIOUS
<1>3. ASSUME NEW k \in 1..N, NEW x \in T PROVE E(k, x) \in T
  <2>1. src[k] \in V
    OBVIOUS
  <2>2. CASE x.votes = 0
    BY <2>1, <2>2 DEF Vote
  <2>3. CASE x.votes # 0
    <3> DEFINE votes == IF src[k] = x.candidate THEN x.votes + 1 ELSE x.votes - 1
    <3>1. Vote(x, src[k]) = [candidate |-> x.candidate, votes |-> votes]
      BY <2>3 DEF Vote
    <3>2. votes \in Nat
      BY <2>3
    <3> HIDE DEF votes
    <3> QED BY <3>1, <3>2
  <2> QED BY <2>2, <2>3
<1>4. value = CHOOSE f : f = [n \in 0..N |-> IF n = 0 THEN base ELSE E(n, f[n - 1])]
  OBVIOUS
<1>5. ZL_sparseNumSelectDominant(src) = (IF value[Sampled(src)].votes = 0 THEN 0 ELSE value[Sampled(src)].candidate)
  BY DEF ZL_sparseNumSelectDominant, Sampled
<1> HIDE DEF N, T, base, E, value
<1>6. ASSUME NEW k \in 1..N, NEW x \in T PROVE step[<<k, x>>] = E(k, x)
  OBVIOUS
<1> HIDE DEF step
<1>7. PICK f \in [0..N -> T] : IsLoop(f, base, step, N)
  <2>1. \A k \in 1..N : \A x \in T : step[<<k, x>>] \in T
    <3> TAKE k \in 1..N
    <3> TAKE x \in T
    <3> QED BY <1>3, <1>6
  <2> QED BY <1>1, <1>2, <2>1, LoopExists
<1>8. f[0] = base /\ \A n \in 1..N : f[n] = E(n, f[n - 1])
  <2>1. LoopTurns(f, base, step, N, T)
    BY <1>1, <1>7, LoopFacts
  <2> QED BY <1>6, <2>1 DEF LoopTurns
<1>9. value = [n \in 0..N |-> IF n = 0 THEN base ELSE E(n, value[n - 1])]
  <2>1. f = [n \in 0..N |-> IF n = 0 THEN base ELSE E(n, f[n - 1])]
    BY <1>1, <1>7, <1>8
  <2> QED BY <1>4, <2>1
<1>10. value[0] = base /\ \A n \in 1..N : value[n] = E(n, value[n - 1])
  <2>1. 0 \in 0..N /\ \A n \in 1..N : n \in 0..N /\ n # 0
    BY <1>1
  <2> QED BY <1>9, <2>1
<1>11. value = [n \in 0..N |-> value[n]]
  BY <1>9
<1>12. f = value
  <2>1. ASSUME NEW n \in 1..N, f[n - 1] = value[n - 1] PROVE f[n] = value[n]
    BY <1>8, <1>10, <2>1
  <2>2. f = [n \in 0..N |-> f[n]] /\ f[0] = value[0]
    BY <1>7, <1>8, <1>10
  <2>3. SameTurns(f, value, N)
    BY <1>11, <2>1, <2>2 DEF SameTurns
  <2> QED BY <1>1, <2>3, SameLoop
<1>13. VoteRun(f, src, V)
  BY <1>5, <1>7, <1>8, <1>12 DEF VoteRun, N, T, base, E
<1> QED BY <1>13

(* ZL_sparseNumComputeEncodeInfo() after n elements.                       *)
ScanRun(f, src, dominant) ==
    /\ f \in [0..Len(src) -> ScanStates]
    /\ ZL_sparseNumComputeEncodeInfo(src, dominant) =
          [numDistances |-> f[Len(src)].numDistances + IF f[Len(src)].run > 0 THEN 1 ELSE 0,
           numValues |-> f[Len(src)].numValues,
           distanceWidth |-> DistanceWidth(Max({f[Len(src)].maxDistance, f[Len(src)].run}))]
    /\ f[0] = [run |-> 0, maxDistance |-> 0, numValues |-> 0, numDistances |-> 0]
    /\ \A n \in 1..Len(src) : f[n] = ScanElement(f[n - 1], src[n], dominant)

LEMMA ScanRunStates ==
    ASSUME NEW src \in Seq(Nat), NEW dominant \in Nat
    PROVE  \E f : ScanRun(f, src, dominant)
<1> DEFINE N == Len(src)
           T == ScanStates
           base == [run |-> 0, maxDistance |-> 0, numValues |-> 0, numDistances |-> 0]
           E(k, x) == ScanElement(x, src[k], dominant)
           step == [p \in (1..N) \X T |-> E(p[1], p[2])]
           value == CHOOSE f : f = [n \in 0..N |-> IF n = 0 THEN base ELSE E(n, f[n - 1])]
<1>1. N \in Nat
  OBVIOUS
<1>2. base \in T
  BY DEF ScanStates
<1>3. ASSUME NEW k \in 1..N, NEW x \in T PROVE E(k, x) \in T
  <2>1. x \in ScanStates /\ Max({x.maxDistance, x.run}) \in Nat
    BY GreatestOfTwo DEF ScanStates
  <2>2. CASE src[k] = dominant /\ x.run # LongestRun
    <3>1. ScanElement(x, src[k], dominant) = [x EXCEPT !.run = @ + 1]
      BY <2>2 DEF ScanElement
    <3>2. x.run + 1 \in Nat
      BY <2>1 DEF ScanStates
    <3>3. \A r \in Nat : [x EXCEPT !.run = r] \in ScanStates
      BY <2>1 DEF ScanStates
    <3> QED BY <3>1, <3>2, <3>3
  <2>3. CASE ~(src[k] = dominant /\ x.run # LongestRun)
    <3>1. ScanElement(x, src[k], dominant) =
             [run |-> 0, maxDistance |-> Max({x.maxDistance, x.run}),
              numValues |-> x.numValues + 1, numDistances |-> x.numDistances + 1]
      BY <2>3 DEF ScanElement
    <3> QED BY <2>1, <3>1 DEF ScanStates
  <2> QED BY <2>2, <2>3
<1>4. value = CHOOSE f : f = [n \in 0..N |-> IF n = 0 THEN base ELSE E(n, f[n - 1])]
  OBVIOUS
<1>5. ZL_sparseNumComputeEncodeInfo(src, dominant) =
          [numDistances |-> value[Len(src)].numDistances + IF value[Len(src)].run > 0 THEN 1 ELSE 0,
           numValues |-> value[Len(src)].numValues,
           distanceWidth |-> DistanceWidth(Max({value[Len(src)].maxDistance, value[Len(src)].run}))]
  BY DEF ZL_sparseNumComputeEncodeInfo
<1> HIDE DEF N, T, base, E, value
<1>6. ASSUME NEW k \in 1..N, NEW x \in T PROVE step[<<k, x>>] = E(k, x)
  OBVIOUS
<1> HIDE DEF step
<1>7. PICK f \in [0..N -> T] : IsLoop(f, base, step, N)
  <2>1. \A k \in 1..N : \A x \in T : step[<<k, x>>] \in T
    <3> TAKE k \in 1..N
    <3> TAKE x \in T
    <3> QED BY <1>3, <1>6
  <2> QED BY <1>1, <1>2, <2>1, LoopExists
<1>8. f[0] = base /\ \A n \in 1..N : f[n] = E(n, f[n - 1])
  <2>1. LoopTurns(f, base, step, N, T)
    BY <1>1, <1>7, LoopFacts
  <2> QED BY <1>6, <2>1 DEF LoopTurns
<1>9. value = [n \in 0..N |-> IF n = 0 THEN base ELSE E(n, value[n - 1])]
  <2>1. f = [n \in 0..N |-> IF n = 0 THEN base ELSE E(n, f[n - 1])]
    BY <1>1, <1>7, <1>8
  <2> QED BY <1>4, <2>1
<1>10. value[0] = base /\ \A n \in 1..N : value[n] = E(n, value[n - 1])
  <2>1. 0 \in 0..N /\ \A n \in 1..N : n \in 0..N /\ n # 0
    BY <1>1
  <2> QED BY <1>9, <2>1
<1>11. value = [n \in 0..N |-> value[n]]
  BY <1>9
<1>12. f = value
  <2>1. ASSUME NEW n \in 1..N, f[n - 1] = value[n - 1] PROVE f[n] = value[n]
    BY <1>8, <1>10, <2>1
  <2>2. f = [n \in 0..N |-> f[n]] /\ f[0] = value[0]
    BY <1>7, <1>8, <1>10
  <2>3. SameTurns(f, value, N)
    BY <1>11, <2>1, <2>2 DEF SameTurns
  <2> QED BY <1>1, <2>3, SameLoop
<1>13. ScanRun(f, src, dominant)
  BY <1>5, <1>7, <1>8, <1>12 DEF ScanRun, N, T, base, E
<1> QED BY <1>13

(* ZL_sparseNumEncode() after n elements.                                  *)
SparseEncodeRun(f, src, dominant, width) ==
    /\ f \in [0..Len(src) -> SparseStates]
    /\ ZL_sparseNumEncode(src, dominant, width) =
          [distances |-> IF f[Len(src)].elts < Len(src)
                         THEN Append(f[Len(src)].distances, WriteDistance(Len(src) - f[Len(src)].elts, width))
                         ELSE f[Len(src)].distances,
           values |-> f[Len(src)].values]
    /\ f[0] = [distances |-> <<>>, values |-> <<>>, elts |-> 0, run |-> 0]
    /\ \A n \in 1..Len(src) : f[n] = EncodeSparseElement(f[n - 1], n, src[n], dominant, width)

LEMMA SparseEncodeStates ==
    ASSUME NEW src \in Seq(Nat), NEW dominant \in Nat, NEW width \in DOMAIN DistanceMax
    PROVE  \E f : SparseEncodeRun(f, src, dominant, width)
<1> DEFINE N == Len(src)
           T == SparseStates
           base == [distances |-> <<>>, values |-> <<>>, elts |-> 0, run |-> 0]
           E(k, x) == EncodeSparseElement(x, k, src[k], dominant, width)
           step == [p \in (1..N) \X T |-> E(p[1], p[2])]
           value == CHOOSE f : f = [n \in 0..N |-> IF n = 0 THEN base ELSE E(n, f[n - 1])]
<1>1. N \in Nat
  OBVIOUS
<1>2. base \in T
  BY DEF SparseStates
<1>3. ASSUME NEW k \in 1..N, NEW x \in T PROVE E(k, x) \in T
  <2>1. x \in SparseStates /\ src[k] \in Nat /\ k \in Nat
    OBVIOUS
  <2>2. WriteDistance(x.run, width) \in Nat
    <3>1. DistanceMax[width] \in Nat /\ x.run \in Nat
      BY DistanceAssumption DEF SparseStates
    <3> QED BY <3>1 DEF WriteDistance
  <2> DEFINE d == WriteDistance(x.run, width)
             Cut(elts) == [distances |-> Append(x.distances, d),
                           values |-> Append(x.values, src[k]), elts |-> elts, run |-> 0]
  <2>3. d \in Nat
    BY <2>2
  <2>4. CASE src[k] # dominant
    <3>1. EncodeSparseElement(x, k, src[k], dominant, width) = Cut(x.elts + x.run + 1)
      BY <2>4 DEF EncodeSparseElement
    <3> HIDE DEF d
    <3> QED BY <2>1, <2>3, <3>1 DEF SparseStates
  <2>5. CASE src[k] = dominant /\ SplitFullRun(x.run, width)
    <3>1. EncodeSparseElement(x, k, src[k], dominant, width) = Cut(k)
      BY <2>5 DEF EncodeSparseElement
    <3> HIDE DEF d
    <3> QED BY <2>1, <2>3, <3>1 DEF SparseStates
  <2>6. CASE src[k] = dominant /\ ~SplitFullRun(x.run, width)
    <3>1. EncodeSparseElement(x, k, src[k], dominant, width) = [x EXCEPT !.run = @ + 1]
      BY <2>6 DEF EncodeSparseElement
    <3>2. x.run + 1 \in Nat
      BY <2>1 DEF SparseStates
    <3>3. \A r \in Nat : [x EXCEPT !.run = r] \in SparseStates
      BY <2>1 DEF SparseStates
    <3> QED BY <3>1, <3>2, <3>3
  <2> QED BY <2>4, <2>5, <2>6
<1>4. value = CHOOSE f : f = [n \in 0..N |-> IF n = 0 THEN base ELSE E(n, f[n - 1])]
  OBVIOUS
<1>5. ZL_sparseNumEncode(src, dominant, width) =
          [distances |-> IF value[Len(src)].elts < Len(src)
                         THEN Append(value[Len(src)].distances, WriteDistance(Len(src) - value[Len(src)].elts, width))
                         ELSE value[Len(src)].distances,
           values |-> value[Len(src)].values]
  BY DEF ZL_sparseNumEncode
<1> HIDE DEF N, T, base, E, value
<1>6. ASSUME NEW k \in 1..N, NEW x \in T PROVE step[<<k, x>>] = E(k, x)
  OBVIOUS
<1> HIDE DEF step
<1>7. PICK f \in [0..N -> T] : IsLoop(f, base, step, N)
  <2>1. \A k \in 1..N : \A x \in T : step[<<k, x>>] \in T
    <3> TAKE k \in 1..N
    <3> TAKE x \in T
    <3> QED BY <1>3, <1>6
  <2> QED BY <1>1, <1>2, <2>1, LoopExists
<1>8. f[0] = base /\ \A n \in 1..N : f[n] = E(n, f[n - 1])
  <2>1. LoopTurns(f, base, step, N, T)
    BY <1>1, <1>7, LoopFacts
  <2> QED BY <1>6, <2>1 DEF LoopTurns
<1>9. value = [n \in 0..N |-> IF n = 0 THEN base ELSE E(n, value[n - 1])]
  <2>1. f = [n \in 0..N |-> IF n = 0 THEN base ELSE E(n, f[n - 1])]
    BY <1>1, <1>7, <1>8
  <2> QED BY <1>4, <2>1
<1>10. value[0] = base /\ \A n \in 1..N : value[n] = E(n, value[n - 1])
  <2>1. 0 \in 0..N /\ \A n \in 1..N : n \in 0..N /\ n # 0
    BY <1>1
  <2> QED BY <1>9, <2>1
<1>11. value = [n \in 0..N |-> value[n]]
  BY <1>9
<1>12. f = value
  <2>1. ASSUME NEW n \in 1..N, f[n - 1] = value[n - 1] PROVE f[n] = value[n]
    BY <1>8, <1>10, <2>1
  <2>2. f = [n \in 0..N |-> f[n]] /\ f[0] = value[0]
    BY <1>7, <1>8, <1>10
  <2>3. SameTurns(f, value, N)
    BY <1>11, <2>1, <2>2 DEF SameTurns
  <2> QED BY <1>1, <2>3, SameLoop
<1>13. SparseEncodeRun(f, src, dominant, width)
  BY <1>5, <1>7, <1>8, <1>12 DEF SparseEncodeRun, N, T, base, E
<1> QED BY <1>13

(* The width of the distances holds the longest, and is the largest if a   *)
(* run was split.                                                          *)
LEMMA DistanceWidthFits ==
    ASSUME NEW D \in Nat, D <= LongestRun
    PROVE  /\ DistanceWidth(D) \in DOMAIN DistanceMax
           /\ D <= DistanceMax[DistanceWidth(D)]
           /\ D = LongestRun => DistanceWidth(D) = Len(DistanceMax)
<1> DEFINE L == Len(DistanceMax)
           T == {w \in DOMAIN DistanceMax : D <= DistanceMax[w]}
<1>1. L \in Nat \ {0} /\ DOMAIN DistanceMax = 1..L /\ LongestRun = DistanceMax[L] /\ L \in 1..L
  BY DistanceAssumption DEF LongestRun, Last
<1>2. \A w \in 1..L : DistanceMax[w] \in Nat
  BY <1>1, DistanceAssumption
<1>3. T \in SUBSET Nat /\ L \in T
  BY <1>1
<1>4. Min(T) \in T
  <2>1. T # {}
    BY <1>3
  <2> HIDE DEF T
  <2> QED BY <1>3, <2>1, LeastOf
<1>5. DistanceWidth(D) = Min(T)
  BY DEF DistanceWidth
<1>6. ASSUME D = LongestRun, NEW w \in T PROVE w = L
  <2>1. w \in 1..L /\ ~ (DistanceMax[w] < DistanceMax[L])
    BY <1>1, <1>2, <1>6
  <2>2. w < L => DistanceMax[w] < DistanceMax[L]
    BY <1>1, <2>1, DistanceAssumption
  <2> QED BY <1>1, <2>1, <2>2
<1> QED BY <1>4, <1>5, <1>6

(* No run is longer than the largest distance, none than the distance the  *)
(* first pass returns.                                                     *)
LEMMA RunsAreBounded ==
    ASSUME NEW src \in Seq(Nat), NEW dominant \in Nat, NEW f, ScanRun(f, src, dominant),
           NEW D, D = Max({f[Len(src)].maxDistance, f[Len(src)].run})
    PROVE  /\ D \in Nat /\ D <= LongestRun
           /\ \A n \in 0..Len(src) : f[n].run <= D /\ f[n].numValues = f[n].numDistances
<1> DEFINE N == Len(src)
<1>1. /\ N \in Nat /\ f \in [0..N -> ScanStates]
      /\ f[0] = [run |-> 0, maxDistance |-> 0, numValues |-> 0, numDistances |-> 0]
      /\ \A n \in 1..N : f[n] = ScanElement(f[n - 1], src[n], dominant)
  BY DEF ScanRun
<1>2. LongestRun \in Nat /\ LongestRun > 0
  <2>1. Len(DistanceMax) \in DOMAIN DistanceMax
    BY DistanceAssumption
  <2>2. DistanceMax[Len(DistanceMax)] \in Nat \ {0}
    BY <2>1, DistanceAssumption
  <2> QED BY <2>2 DEF LongestRun, Last
<1> DEFINE S == {n \in 0..N : /\ f[n].run <= LongestRun /\ f[n].maxDistance <= LongestRun
                                /\ f[n].numValues = f[n].numDistances}
<1>3. 0 \in S
  <2>1. 0 \in 0..N
    BY <1>1
  <2> QED BY <1>1, <1>2, <2>1
<1>4. ASSUME NEW n \in 1..N, NEW s, s = f[n - 1]
      PROVE  /\ n \in 0..N /\ n - 1 \in 0..N
             /\ s \in ScanStates /\ f[n] \in ScanStates
             /\ \/ /\ s.run # LongestRun
                   /\ f[n].run = s.run + 1 /\ f[n].maxDistance = s.maxDistance
                   /\ f[n].numValues = s.numValues /\ f[n].numDistances = s.numDistances
                \/ /\ f[n].run = 0 /\ f[n].maxDistance = Max({s.maxDistance, s.run})
                   /\ f[n].numValues = s.numValues + 1 /\ f[n].numDistances = s.numDistances + 1
  <2>1. n \in 0..N /\ n - 1 \in 0..N
    BY <1>1
  <2>2. f[n] = ScanElement(s, src[n], dominant) /\ s \in ScanStates /\ f[n] \in ScanStates
    BY <1>1, <1>4, <2>1
  <2>3. CASE src[n] = dominant /\ s.run # LongestRun
    <3>1. f[n] = [s EXCEPT !.run = @ + 1]
      BY <2>2, <2>3 DEF ScanElement
    <3> QED BY <2>1, <2>2, <2>3, <3>1 DEF ScanStates
  <2>4. CASE ~(src[n] = dominant /\ s.run # LongestRun)
    <3>1. f[n] = [run |-> 0, maxDistance |-> Max({s.maxDistance, s.run}),
                  numValues |-> s.numValues + 1, numDistances |-> s.numDistances + 1]
      BY <2>2, <2>4 DEF ScanElement
    <3> QED BY <2>1, <2>2, <3>1
  <2> QED BY <2>3, <2>4
<1>5. ASSUME NEW n \in 1..N, n - 1 \in S PROVE n \in S
  <2> DEFINE s == f[n - 1]
  <2>1. /\ n \in 0..N /\ s \in ScanStates /\ f[n] \in ScanStates
        /\ \/ /\ s.run # LongestRun
              /\ f[n].run = s.run + 1 /\ f[n].maxDistance = s.maxDistance
              /\ f[n].numValues = s.numValues /\ f[n].numDistances = s.numDistances
           \/ /\ f[n].run = 0 /\ f[n].maxDistance = Max({s.maxDistance, s.run})
              /\ f[n].numValues = s.numValues + 1 /\ f[n].numDistances = s.numDistances + 1
    BY <1>4
  <2>2. s.run <= LongestRun /\ s.maxDistance <= LongestRun /\ s.numValues = s.numDistances
    BY <1>5
  <2> HIDE DEF s
  <2>3. s.run \in Nat /\ s.maxDistance \in Nat /\ Max({s.maxDistance, s.run}) \in {s.maxDistance, s.run}
    BY <2>1, GreatestOfTwo DEF ScanStates
  <2>4. Max({s.maxDistance, s.run}) <= LongestRun
    BY <2>2, <2>3
  <2> QED BY <1>2, <2>1, <2>2, <2>3, <2>4
<1> HIDE DEF S
<1>6. \A n \in 0..N : n \in S
  BY <1>1, <1>3, <1>5, LoopInduction
<1> DEFINE Hi(n) == Max({f[n].maxDistance, f[n].run})
           B == {d \in 0..N : Hi(N - d) <= D}
<1>7. \A n \in 0..N : /\ Hi(n) \in Nat /\ f[n].run \in Nat /\ f[n].maxDistance \in Nat
                        /\ f[n].run <= Hi(n) /\ f[n].maxDistance <= Hi(n)
                        /\ Hi(n) \in {f[n].maxDistance, f[n].run}
  <2> TAKE n \in 0..N
  <2>1. f[n].run \in Nat /\ f[n].maxDistance \in Nat
    BY <1>1 DEF ScanStates
  <2> QED BY <2>1, GreatestOfTwo
<1>8. D = Hi(N) /\ N \in 0..N
  BY <1>1
<1> HIDE DEF Hi
<1>9. 0 \in B
  BY <1>1, <1>7, <1>8
<1>10. ASSUME NEW d \in 1..N, d - 1 \in B PROVE d \in B
  <2> DEFINE n == N - d
  <2>1. d \in 0..N /\ n \in 0..N /\ n + 1 \in 1..N /\ n + 1 \in 0..N /\ (n + 1) - 1 = n /\ N - (d - 1) = n + 1
    BY <1>1
  <2>2. Hi(n + 1) <= D
    BY <1>10, <2>1
  <2>3. /\ Hi(n) \in Nat /\ Hi(n + 1) \in Nat /\ f[n].run \in Nat /\ f[n + 1].run \in Nat
        /\ f[n + 1].run <= Hi(n + 1) /\ f[n + 1].maxDistance <= Hi(n + 1)
        /\ Hi(n) \in {f[n].maxDistance, f[n].run}
    BY <1>7, <2>1
  <2>4. \/ f[n + 1].run = f[n].run + 1 /\ f[n + 1].maxDistance = f[n].maxDistance
        \/ f[n + 1].maxDistance = Hi(n)
    <3> HIDE DEF n
    <3>1. n + 1 \in 1..N /\ f[n] = f[(n + 1) - 1]
      BY <2>1
    <3> QED BY <3>1, <1>4 DEF Hi
  <2> HIDE DEF n
  <2>5. Hi(n) <= Hi(n + 1)
    BY <2>3, <2>4
  <2>6. Hi(n) <= D
    BY <1>7, <1>8, <2>2, <2>3, <2>5
  <2> QED BY <2>1, <2>6 DEF n
<1> HIDE DEF B
<1>11. \A d \in 0..N : d \in B
  BY <1>1, <1>9, <1>10, LoopInduction
<1>12. ASSUME NEW n \in 0..N PROVE f[n].run <= D /\ f[n].numValues = f[n].numDistances
  <2>1. N - n \in 0..N /\ N - (N - n) = n
    BY <1>1
  <2>2. Hi(n) <= D
    BY <1>11, <2>1 DEF B
  <2>3. n \in S
    BY <1>6
  <2> QED BY <1>7, <1>8, <2>2, <2>3 DEF S
<1>13. D \in Nat /\ D <= LongestRun
  <2>1. N \in S
    BY <1>6, <1>8
  <2> QED BY <1>2, <1>7, <1>8, <2>1 DEF S
<1> QED BY <1>12, <1>13

(* What the decoder makes of one distance and the value after it, if any.  *)
Chunk(x, rest, dominant) == [k \in 1..x |-> dominant] \o rest
ValueAt(values, i) == IF i \in DOMAIN values THEN <<values[i]>> ELSE <<>>
Chunks(distances, values, dominant) ==
    [i \in DOMAIN distances |-> Chunk(distances[i], ValueAt(values, i), dominant)]

IsChunk(c, x, rest, dominant) ==
    /\ Len(c) = x + Len(rest)
    /\ \A k \in 1..x : c[k] = dominant
    /\ \A k \in 1..Len(rest) : c[x + k] = rest[k]

LEMMA ChunkFacts ==
    ASSUME NEW x \in Nat, NEW rest \in Seq(Nat), NEW dominant \in Nat
    PROVE  /\ Chunk(x, rest, dominant) \in Seq(Nat)
           /\ IsChunk(Chunk(x, rest, dominant), x, rest, dominant)
<1> DEFINE run == [k \in 1..x |-> dominant]
<1>1. run \in [1..x -> Nat] /\ \A k \in 1..x : run[k] = dominant
  OBVIOUS
<1>2. Chunk(x, rest, dominant) = run \o rest
  BY DEF Chunk
<1> HIDE DEF run
<1>3. run \in Seq(Nat) /\ Len(run) = x
  BY <1>1, FunctionIsSeq
<1>4. \A k \in 1..Len(rest) : (run \o rest)[x + k] = rest[k]
  <2> TAKE k \in 1..Len(rest)
  <2>1. x + k \in 1..(x + Len(rest)) /\ ~ (x + k <= x) /\ (x + k) - x = k
    OBVIOUS
  <2> QED BY <1>3, <2>1
<1>5. /\ run \o rest \in Seq(Nat) /\ Len(run \o rest) = x + Len(rest)
      /\ \A k \in 1..x : (run \o rest)[k] = dominant
  BY <1>1, <1>3
<1> QED BY <1>2, <1>4, <1>5 DEF IsChunk

LEMMA ValueAtFacts ==
    ASSUME NEW values \in Seq(Nat), NEW i \in Nat \ {0}
    PROVE  /\ ValueAt(values, i) \in Seq(Nat)
           /\ Len(ValueAt(values, i)) = IF i <= Len(values) THEN 1 ELSE 0
BY DEF ValueAt

LEMMA ChunksFacts ==
    ASSUME NEW distances \in Seq(Nat), NEW values \in Seq(Nat), NEW dominant \in Nat
    PROVE  /\ Chunks(distances, values, dominant) \in Seq(Seq(Nat))
           /\ Len(Chunks(distances, values, dominant)) = Len(distances)
           /\ ZL_sparseNumDecode(distances, values, dominant) = Concat(Chunks(distances, values, dominant))
<1> DEFINE c == Chunks(distances, values, dominant)
           N == Len(distances)
<1>1. N \in Nat /\ DOMAIN distances = 1..N
  OBVIOUS
<1>2. c = [i \in 1..N |-> Chunk(distances[i], ValueAt(values, i), dominant)]
  BY <1>1 DEF Chunks
<1>3. \A i \in 1..N : Chunk(distances[i], ValueAt(values, i), dominant) \in Seq(Nat)
  <2> TAKE i \in 1..N
  <2>1. distances[i] \in Nat /\ i \in Nat \ {0}
    OBVIOUS
  <2>2. ValueAt(values, i) \in Seq(Nat)
    BY <2>1, ValueAtFacts
  <2> QED BY <2>1, <2>2, ChunkFacts
<1>4. c \in [1..N -> Seq(Nat)]
  BY <1>2, <1>3
<1> HIDE DEF c
<1>5. c \in Seq(Seq(Nat)) /\ Len(c) = N
  BY <1>1, <1>4, FunctionIsSeq
<1>6. ZL_sparseNumDecode(distances, values, dominant) = Concat(c)
  BY DEF ZL_sparseNumDecode, c, Chunks, Chunk, ValueAt
<1> QED BY <1>5, <1>6 DEF c

(* One more distance, with a value or without, decodes to one more chunk.  *)
ChunksGrow(distances, values, dominant, x, y) ==
    /\ ZL_sparseNumDecode(Append(distances, x), Append(values, y), dominant)
          = ZL_sparseNumDecode(distances, values, dominant) \o Chunk(x, <<y>>, dominant)
    /\ ZL_sparseNumDecode(Append(distances, x), values, dominant)
          = ZL_sparseNumDecode(distances, values, dominant) \o Chunk(x, <<>>, dominant)

LEMMA ChunksAppend ==
    ASSUME NEW distances \in Seq(Nat), NEW values \in Seq(Nat), NEW dominant \in Nat,
           Len(distances) = Len(values), NEW x \in Nat, NEW y \in Nat
    PROVE  ChunksGrow(distances, values, dominant, x, y)
<1> DEFINE d == Append(distances, x)
           v == Append(values, y)
           N == Len(distances)
           c == Chunks(distances, values, dominant)
<1>1. /\ N \in Nat /\ Len(values) = N /\ DOMAIN distances = 1..N /\ DOMAIN values = 1..N
      /\ d \in Seq(Nat) /\ Len(d) = N + 1 /\ DOMAIN d = 1..N + 1 /\ d[N + 1] = x
      /\ \A i \in 1..N : d[i] = distances[i]
      /\ v \in Seq(Nat) /\ Len(v) = N + 1 /\ DOMAIN v = 1..N + 1 /\ v[N + 1] = y
      /\ \A i \in 1..N : v[i] = values[i]
  OBVIOUS
<1> HIDE DEF d, v
<1>2. ASSUME NEW w \in Seq(Nat), NEW rest \in Seq(Nat), rest = ValueAt(w, N + 1),
             \A i \in 1..N : i \in DOMAIN w /\ w[i] = values[i]
      PROVE  ZL_sparseNumDecode(d, w, dominant)
                 = ZL_sparseNumDecode(distances, values, dominant) \o Chunk(x, rest, dominant)
  <2> DEFINE e == Chunks(d, w, dominant)
             last == Chunk(x, rest, dominant)
  <2>1. e \in Seq(Seq(Nat)) /\ Len(e) = N + 1 /\ ZL_sparseNumDecode(d, w, dominant) = Concat(e)
    BY <1>1, ChunksFacts
  <2>2. c \in Seq(Seq(Nat)) /\ Len(c) = N /\ ZL_sparseNumDecode(distances, values, dominant) = Concat(c)
    BY ChunksFacts
  <2>3. last \in Seq(Nat)
    BY ChunkFacts
  <2>4. \A i \in 1..N : e[i] = c[i]
    <3> TAKE i \in 1..N
    <3>1. i \in 1..N + 1 /\ i \in DOMAIN w /\ w[i] = values[i] /\ i \in DOMAIN values /\ d[i] = distances[i]
      BY <1>1, <1>2
    <3>2. ValueAt(w, i) = ValueAt(values, i)
      BY <3>1 DEF ValueAt
    <3> QED BY <1>1, <3>1, <3>2 DEF Chunks
  <2>5. e[N + 1] = last
    <3>1. N + 1 \in 1..N + 1
      BY <1>1
    <3> QED BY <1>1, <1>2, <3>1 DEF Chunks
  <2> HIDE DEF e, c, last, N
  <2>6. e = Append(c, last)
    <3> DEFINE a == Append(c, last)
    <3>1. /\ a \in Seq(Seq(Nat)) /\ Len(a) = N + 1 /\ a[N + 1] = last
          /\ \A i \in 1..N : a[i] = c[i]
      BY <2>2, <2>3, AppendFacts
    <3> HIDE DEF a
    <3>2. \A i \in 1..N + 1 : e[i] = a[i]
      <4> TAKE i \in 1..N + 1
      <4>1. i = N + 1 \/ i \in 1..N
        BY <1>1
      <4> QED BY <2>4, <2>5, <3>1, <4>1
    <3>3. e = a
      BY <2>1, <3>1, <3>2, SeqsEqual
    <3> QED BY <3>3 DEF a
  <2>7. Concat(e) = Concat(c) \o last
    BY <2>2, <2>3, <2>6, ConcatAppend
  <2> QED BY <2>1, <2>2, <2>7 DEF last
<1>3. ZL_sparseNumDecode(d, v, dominant) = ZL_sparseNumDecode(distances, values, dominant) \o Chunk(x, <<y>>, dominant)
  <2>1. <<y>> \in Seq(Nat) /\ <<y>> = ValueAt(v, N + 1)
    BY <1>1 DEF ValueAt
  <2>2. \A i \in 1..N : i \in DOMAIN v /\ v[i] = values[i]
    <3> TAKE i \in 1..N
    <3>1. i \in 1..N + 1
      BY <1>1
    <3> QED BY <1>1, <3>1
  <2> HIDE DEF N
  <2> QED BY <1>1, <1>2, <2>1, <2>2
<1>4. ZL_sparseNumDecode(d, values, dominant) = ZL_sparseNumDecode(distances, values, dominant) \o Chunk(x, <<>>, dominant)
  <2>1. <<>> \in Seq(Nat) /\ <<>> = ValueAt(values, N + 1)
    BY <1>1 DEF ValueAt
  <2> QED BY <1>1, <1>2, <2>1
<1> QED BY <1>3, <1>4 DEF d, v, ChunksGrow

(* The decoder fills what it allocated.                                    *)
LEMMA SparseWritten ==
    ASSUME NEW distances \in Seq(Nat), NEW values \in Seq(Nat), NEW dominant \in Nat,
           Len(distances) \in {Len(values), Len(values) + 1}
    PROVE  /\ ZL_sparseNumDecode(distances, values, dominant) \in Seq(Nat)
           /\ Len(ZL_sparseNumDecode(distances, values, dominant)) = Len(values) + Sum(distances)
<1> DEFINE c == Chunks(distances, values, dominant)
           N == Len(distances)
           M == Len(values)
           f == Concats(c)
           g == Sums(distances)
<1>1. c \in Seq(Seq(Nat)) /\ Len(c) = N /\ ZL_sparseNumDecode(distances, values, dominant) = Concat(c)
  BY ChunksFacts
<1>2. N \in Nat /\ M \in Nat /\ N \in {M, M + 1} /\ DOMAIN distances = 1..N
  OBVIOUS
<1>3. \A i \in 1..N : c[i] \in Seq(Nat) /\ Len(c[i]) = distances[i] + (IF i <= M THEN 1 ELSE 0)
  <2> TAKE i \in 1..N
  <2> DEFINE rest == ValueAt(values, i)
  <2>1. distances[i] \in Nat /\ i \in Nat \ {0} /\ i \in DOMAIN distances
    OBVIOUS
  <2>2. rest \in Seq(Nat) /\ Len(rest) = IF i <= M THEN 1 ELSE 0
    BY <2>1, ValueAtFacts
  <2>3. c[i] = Chunk(distances[i], rest, dominant)
    BY <2>1 DEF Chunks
  <2> DEFINE x == distances[i]
             ci == Chunk(x, rest, dominant)
  <2>4. x \in Nat /\ c[i] = ci
    BY <2>1, <2>3
  <2> HIDE DEF rest, c, x
  <2>5. ci \in Seq(Nat) /\ Len(ci) = x + Len(rest)
    <3>1. rest \in Seq(Nat) /\ x \in Nat
      BY <2>2, <2>4
    <3> QED BY <3>1, ChunkFacts DEF IsChunk
  <2> HIDE DEF ci
  <2>6. c[i] \in Seq(Nat) /\ Len(c[i]) = x + (IF i <= M THEN 1 ELSE 0)
    BY <2>2, <2>4, <2>5
  <2> QED BY <2>6 DEF x
<1> HIDE DEF c
<1>4. /\ f \in [0..N -> Seq(Nat)] /\ f[0] = <<>> /\ Concat(c) = f[N]
      /\ \A n \in 1..N : f[n] = f[n - 1] \o c[n]
  BY <1>1, ConcatFacts
<1>5. /\ g \in [0..N -> Nat] /\ g[0] = 0 /\ Sum(distances) = g[N]
      /\ \A n \in 1..N : g[n] = g[n - 1] + distances[n]
  BY SumFacts
<1>12. \A i \in 1..N : distances[i] \in Nat
  OBVIOUS
<1> HIDE DEF f, g, N, M
<1> DEFINE S == {n \in 0..N : Len(f[n]) = g[n] + (IF n <= M THEN n ELSE M)}
<1>6. 0 \in S
  BY <1>2, <1>4, <1>5
<1>7. ASSUME NEW n \in 1..N, n - 1 \in S PROVE n \in S
  <2> DEFINE a == f[n - 1]
             b == c[n]
  <2>1. n \in 0..N /\ n - 1 \in 0..N
    BY <1>2
  <2>2. /\ f[n] = a \o b /\ a \in Seq(Nat) /\ b \in Seq(Nat)
        /\ Len(b) = distances[n] + (IF n <= M THEN 1 ELSE 0)
        /\ Len(a) = g[n - 1] + (IF n - 1 <= M THEN n - 1 ELSE M)
        /\ g[n] = g[n - 1] + distances[n] /\ g[n - 1] \in Nat /\ distances[n] \in Nat
    BY <1>3, <1>4, <1>5, <1>7, <1>12, <2>1
  <2> HIDE DEF a, b
  <2>3. Len(f[n]) = Len(a) + Len(b)
    <3>1. a \in Seq(Nat) /\ b \in Seq(Nat) /\ f[n] = a \o b
      BY <2>2
    <3> QED BY <3>1, JoinFacts DEF IsJoin
  <2> DEFINE p == distances[n]
             q == g[n - 1]
  <2>5. /\ Len(b) = p + (IF n <= M THEN 1 ELSE 0)
        /\ Len(a) = q + (IF n - 1 <= M THEN n - 1 ELSE M)
        /\ g[n] = q + p /\ q \in Nat /\ p \in Nat
    BY <2>2
  <2> HIDE DEF p, q
  <2>4. Len(f[n]) = g[n] + (IF n <= M THEN n ELSE M)
    <3>1. CASE n <= M
      BY <1>2, <2>3, <2>5, <3>1
    <3>2. CASE n > M
      <4>1. n - 1 = M /\ ~(n <= M)
        BY <1>2, <3>2
      <4> QED BY <1>2, <2>3, <2>5, <4>1
    <3> QED BY <1>2, <3>1, <3>2
  <2> QED BY <2>1, <2>4
<1> HIDE DEF S
<1>8. \A n \in 0..N : n \in S
  BY <1>2, <1>6, <1>7, LoopInduction
<1>9. N \in 0..N /\ f[N] \in Seq(Nat)
  BY <1>2, <1>4
<1>10. Len(f[N]) = g[N] + (IF N <= M THEN N ELSE M)
  BY <1>8, <1>9 DEF S
<1>11. g[N] \in Nat /\ Len(f[N]) = M + g[N]
  BY <1>2, <1>5, <1>9, <1>10
<1> QED BY <1>1, <1>4, <1>5, <1>9, <1>11 DEF M

(* sparse_num: an accepted output is written in full.                      *)
LEMMA SparseAccepted ==
    ASSUME NEW header \in Seq(Nat), NEW streams,
           streams[1].elts \in Seq(Nat), streams[2].elts \in Seq(Nat)
    PROVE  Written(DI_sparse_num(header, streams))
<1> DEFINE distances == streams[1].elts
           values == streams[2].elts
           out == ZL_sparseNumDecode(distances, values, ReadLE(header))
<1>1. DI_sparse_num(header, streams) = Corrupt \/
         (/\ Len(distances) \in {Len(values), Len(values) + 1}
          /\ DI_sparse_num(header, streams) = Made(streams[2].width, out, Len(values) + Sum(distances)))
  BY DEF DI_sparse_num, ZL_sparseNumDecodeOutputCount
<1>2. Written(Corrupt)
  BY DEF Corrupt, Written
<1>3. ASSUME Len(distances) \in {Len(values), Len(values) + 1}
      PROVE  Written(Made(streams[2].width, out, Len(values) + Sum(distances)))
  <2>1. distances \in Seq(Nat) /\ values \in Seq(Nat) /\ ReadLE(header) \in Nat
    BY ReadLENat
  <2>2. out \in Seq(Nat) /\ Len(out) = Len(values) + Sum(distances)
    BY <1>3, <2>1, SparseWritten
  <2> HIDE DEF out
  <2> QED BY <2>2 DEF Made, Written
<1> QED BY <1>1, <1>2, <1>3

(* o is the first n elements of src.                                       *)
Matches(o, src, n) == Len(o) = n /\ \A i \in 1..n : o[i] = src[i]
(* From there on, src has a run, or has the elements of a sequence.        *)
RunsOn(src, at, run, dominant) == \A i \in at + 1..at + run : src[i] = dominant
GoesOn(src, at, rest) == \A i \in 1..Len(rest) : src[at + i] = rest[i]

LEMMA ModSmall ==
    ASSUME NEW a \in Nat, NEW b \in Nat, a <= b
    PROVE  a % (b + 1) = a
OBVIOUS

(* The two passes after n elements: they count the same, and what the      *)
(* second wrote decodes to the elements behind the current run.            *)
SparseTracks(s, p, n, src, dominant) ==
    /\ s \in SparseStates /\ p \in ScanStates
    /\ s.run = p.run /\ s.elts + s.run = n
    /\ Len(s.distances) = p.numValues /\ Len(s.values) = p.numValues
    /\ Matches(ZL_sparseNumDecode(s.distances, s.values, dominant), src, s.elts)
    /\ RunsOn(src, s.elts, s.run, dominant)

(* A run that is written out, with the value after it.                     *)
LEMMA RunDecodes ==
    ASSUME NEW distances \in Seq(Nat), NEW values \in Seq(Nat), NEW dominant \in Nat,
           Len(distances) = Len(values), NEW src \in Seq(Nat), NEW elts \in Nat, NEW run \in Nat,
           NEW rest \in Seq(Nat), NEW o, o = ZL_sparseNumDecode(distances, values, dominant),
           Matches(o, src, elts), RunsOn(src, elts, run, dominant), GoesOn(src, elts + run, rest)
    PROVE  Matches(o \o Chunk(run, rest, dominant), src, elts + run + Len(rest))
<1> DEFINE c == Chunk(run, rest, dominant)
           b == o \o c
<1>1. o \in Seq(Nat)
  BY SparseWritten
<1>6. /\ Len(o) = elts /\ \A i \in 1..elts : o[i] = src[i]
      /\ \A i \in elts + 1..elts + run : src[i] = dominant
      /\ \A i \in 1..Len(rest) : src[elts + run + i] = rest[i]
  BY DEF Matches, RunsOn, GoesOn
<1>2. /\ c \in Seq(Nat) /\ Len(c) = run + Len(rest)
      /\ \A k \in 1..run : c[k] = dominant
      /\ \A k \in 1..Len(rest) : c[run + k] = rest[k]
  <2>1. c \in Seq(Nat) /\ IsChunk(c, run, rest, dominant)
    BY ChunkFacts
  <2> QED BY <2>1 DEF IsChunk
<1> HIDE DEF c
<1>3. /\ Len(b) = Len(o) + Len(c)
      /\ \A i \in 1..Len(o) : b[i] = o[i]
      /\ \A i \in 1..Len(c) : b[Len(o) + i] = c[i]
  <2>1. IsJoin(b, o, c)
    BY <1>1, <1>2, JoinFacts
  <2> QED BY <2>1 DEF IsJoin
<1> HIDE DEF b
<1> DEFINE m == Len(rest)
<1>4. m \in Nat /\ Len(b) = elts + run + m
  BY <1>2, <1>3, <1>6
<1>5. ASSUME NEW i \in 1..elts + run + m PROVE b[i] = src[i]
  <2>1. CASE i <= elts
    BY <1>3, <1>6, <2>1
  <2>2. CASE i > elts /\ i <= elts + run
    <3> DEFINE k == i - elts
    <3>1. k \in 1..run /\ i = elts + k /\ i \in elts + 1..elts + run /\ k \in 1..Len(c)
      BY <1>2, <1>4, <2>2
    <3> HIDE DEF k
    <3>2. b[elts + k] = c[k] /\ c[k] = dominant /\ src[i] = dominant
      BY <1>2, <1>3, <1>6, <3>1
    <3> QED BY <3>1, <3>2
  <2>3. CASE i > elts + run
    <3> DEFINE k == i - elts - run
    <3>1. k \in 1..m /\ i = elts + run + k /\ run + k \in 1..Len(c) /\ i = elts + (run + k)
      BY <1>2, <1>4, <2>3
    <3> HIDE DEF k
    <3>2. b[elts + (run + k)] = c[run + k]
      BY <1>3, <1>6, <3>1
    <3>3. c[run + k] = rest[k] /\ src[elts + run + k] = rest[k]
      BY <1>2, <1>6, <3>1
    <3> QED BY <3>1, <3>2, <3>3
  <2> QED BY <1>4, <2>1, <2>2, <2>3
<1> QED BY <1>4, <1>5 DEF b, c, Matches

(* One more element keeps the two passes together.                         *)
LEMMA SparseTurn ==
    ASSUME NEW src \in Seq(Nat), NEW dominant \in Nat, NEW n \in 1..Len(src),
           NEW width \in DOMAIN DistanceMax, NEW s, NEW p, SparseTracks(s, p, n - 1, src, dominant),
           p.run <= DistanceMax[width], p.run = LongestRun => width = Len(DistanceMax),
           NEW r \in SparseStates, r = EncodeSparseElement(s, n, src[n], dominant, width),
           NEW q \in ScanStates, q = ScanElement(p, src[n], dominant),
           p.numValues = p.numDistances
    PROVE  SparseTracks(r, q, n, src, dominant)
<1> DEFINE o == ZL_sparseNumDecode(s.distances, s.values, dominant)
<1>1. /\ s \in SparseStates /\ p \in ScanStates
      /\ s.run = p.run /\ s.elts + s.run = n - 1
      /\ Len(s.distances) = p.numValues /\ Len(s.values) = p.numValues
      /\ Matches(o, src, s.elts)
      /\ RunsOn(src, s.elts, s.run, dominant)
  BY DEF SparseTracks
<1>2. s.distances \in Seq(Nat) /\ s.values \in Seq(Nat) /\ s.elts \in Nat /\ s.run \in Nat /\ p.numValues \in Nat /\ p.run \in Nat
  BY <1>1 DEF SparseStates, ScanStates
<1>3. src[n] \in Nat /\ n \in Nat
  OBVIOUS
<1>4. WriteDistance(s.run, width) = s.run
  <2>1. DistanceMax[width] \in Nat
    BY DistanceAssumption
  <2>2. s.run <= DistanceMax[width] /\ s.run \in Nat
    BY <1>1, <1>2
  <2>3. s.run % (DistanceMax[width] + 1) = s.run
    BY <2>1, <2>2, ModSmall
  <2> QED BY <2>3 DEF WriteDistance
<1>5. SplitFullRun(s.run, width) <=> p.run = LongestRun
  BY <1>1 DEF SplitFullRun
<1>6. CASE src[n] = dominant /\ p.run # LongestRun
  <2>1. r = [s EXCEPT !.run = @ + 1] /\ q = [p EXCEPT !.run = @ + 1]
    BY <1>5, <1>6 DEF EncodeSparseElement, ScanElement
  <2>2. /\ r.run = s.run + 1 /\ r.elts = s.elts /\ r.distances = s.distances /\ r.values = s.values
        /\ q.run = p.run + 1 /\ q.numValues = p.numValues
    BY <1>1, <2>1 DEF SparseStates, ScanStates
  <2>4. r.elts + r.run = n
    <3> DEFINE e == s.elts
               u == s.run
    <3>1. e \in Nat /\ u \in Nat /\ e + u = n - 1 /\ r.elts = e /\ r.run = u + 1
      BY <1>1, <1>2, <2>2
    <3> HIDE DEF e, u
    <3> QED BY <1>3, <3>1
  <2>3. RunsOn(src, r.elts, r.run, dominant)
    <3>1. ASSUME NEW i \in r.elts + 1..r.elts + r.run PROVE src[i] = dominant
      <4>1. i = n \/ i \in s.elts + 1..s.elts + s.run
        BY <1>1, <1>2, <1>3, <2>2
      <4> QED BY <1>1, <1>6, <4>1 DEF RunsOn
    <3> QED BY <3>1 DEF RunsOn
  <2> QED BY <1>1, <2>2, <2>3, <2>4 DEF SparseTracks
<1>7. CASE ~(src[n] = dominant /\ p.run # LongestRun)
  <2>1. /\ r.distances = Append(s.distances, s.run) /\ r.values = Append(s.values, src[n])
        /\ r.elts = n /\ r.run = 0
    <3> DEFINE Cut(elts) == [distances |-> Append(s.distances, WriteDistance(s.run, width)),
                             values |-> Append(s.values, src[n]), elts |-> elts, run |-> 0]
    <3>1. CASE src[n] # dominant
      <4>1. r = Cut(s.elts + s.run + 1)
        BY <3>1 DEF EncodeSparseElement
      <4>2. s.elts + s.run + 1 = n
        BY <1>1, <1>2, <1>3
      <4> QED BY <1>4, <4>1, <4>2
    <3>2. CASE src[n] = dominant
      <4>1. r = Cut(n)
        BY <1>5, <1>7, <3>2 DEF EncodeSparseElement
      <4> QED BY <1>4, <4>1
    <3> QED BY <3>1, <3>2
  <2>2. q.run = 0 /\ q.numValues = p.numValues + 1
    <3>1. q = [run |-> 0, maxDistance |-> Max({p.maxDistance, p.run}),
               numValues |-> p.numValues + 1, numDistances |-> p.numDistances + 1]
      BY <1>7 DEF ScanElement
    <3> QED BY <3>1
  <2> DEFINE ds == s.distances
             vs == s.values
             v == src[n]
             run == s.run
             rest == <<v>>
             c == Chunk(run, rest, dominant)
  <2>3. Len(ds) = p.numValues /\ Len(vs) = p.numValues /\ ds \in Seq(Nat) /\ vs \in Seq(Nat) /\ v \in Nat
    BY <1>1, <1>2, <1>3
  <2>4. o = ZL_sparseNumDecode(ds, vs, dominant) /\ r.distances = Append(ds, s.run) /\ r.values = Append(vs, v)
    BY <2>1
  <2> HIDE DEF ds, vs, o, v, run
  <2>5. Len(r.distances) = q.numValues /\ Len(r.values) = q.numValues
    BY <1>2, <2>2, <2>3, <2>4, AppendFacts
  <2>6. ZL_sparseNumDecode(r.distances, r.values, dominant) = o \o c
    <3>1. Len(ds) = Len(vs) /\ run \in Nat /\ s.run = run
      BY <1>2, <2>3 DEF run
    <3>2. ZL_sparseNumDecode(Append(ds, run), Append(vs, v), dominant) = o \o c
      <4>1. ds \in Seq(Nat) /\ vs \in Seq(Nat) /\ v \in Nat /\ run \in Nat /\ Len(ds) = Len(vs)
        BY <2>3, <3>1
      <4>2. ZL_sparseNumDecode(Append(ds, run), Append(vs, v), dominant) = ZL_sparseNumDecode(ds, vs, dominant) \o Chunk(run, <<v>>, dominant)
        <5>1. ChunksGrow(ds, vs, dominant, run, v)
          BY <4>1, ChunksAppend
        <5> QED BY <5>1 DEF ChunksGrow
      <4> QED BY <2>4, <4>2
    <3> QED BY <2>4, <3>1, <3>2
  <2>7. Matches(o \o c, src, n)
    <3> DEFINE elts == s.elts
    <3>1. rest \in Seq(Nat) /\ Len(rest) = 1 /\ rest[1] = v
      BY <2>3
    <3>2. elts + run = n - 1 /\ elts \in Nat /\ run \in Nat /\ elts + run + 1 = n
      BY <1>1, <1>2, <1>3 DEF run
    <3>3. GoesOn(src, elts + run, rest)
      BY <3>1, <3>2 DEF GoesOn, v
    <3>4. Matches(o, src, elts) /\ RunsOn(src, elts, run, dominant)
      BY <1>1, <3>2 DEF run
    <3>5. Len(ds) = Len(vs)
      BY <2>3
    <3> HIDE DEF rest, elts
    <3>6. Matches(o \o Chunk(run, rest, dominant), src, elts + run + Len(rest))
      BY <2>3, <2>4, <3>1, <3>2, <3>3, <3>4, <3>5, RunDecodes
    <3> QED BY <3>1, <3>2, <3>6
  <2>8. r.elts + r.run = n /\ RunsOn(src, r.elts, r.run, dominant)
    BY <1>3, <2>1 DEF RunsOn
  <2> HIDE DEF c
  <2> QED BY <2>1, <2>2, <2>5, <2>6, <2>7, <2>8 DEF SparseTracks
<1> QED BY <1>6, <1>7

(* The passes agree, and what the second writes decodes to the input.      *)
SparseSends(src, dominant, info, kernel) ==
    /\ info.distanceWidth \in DOMAIN DistanceMax
    /\ kernel.distances \in Seq(Nat) /\ kernel.values \in Seq(Nat)
    /\ Len(kernel.distances) = info.numDistances /\ Len(kernel.values) = info.numValues
    /\ Len(kernel.distances) \in {Len(kernel.values), Len(kernel.values) + 1}
    /\ ZL_sparseNumDecode(kernel.distances, kernel.values, dominant) = src

LEMMA SparseKernel ==
    ASSUME NEW src \in Seq(Nat), NEW dominant \in Nat,
           NEW info, info = ZL_sparseNumComputeEncodeInfo(src, dominant),
           NEW kernel, kernel = ZL_sparseNumEncode(src, dominant, info.distanceWidth)
    PROVE  SparseSends(src, dominant, info, kernel)
<1> DEFINE N == Len(src)
           W == info.distanceWidth
<1>1. PICK f : ScanRun(f, src, dominant)
  BY ScanRunStates
<1> DEFINE D == Max({f[N].maxDistance, f[N].run})
<1>2. /\ N \in Nat /\ f \in [0..N -> ScanStates] /\ 0 \in 0..N /\ N \in 0..N
      /\ info = [numDistances |-> f[N].numDistances + IF f[N].run > 0 THEN 1 ELSE 0,
                 numValues |-> f[N].numValues, distanceWidth |-> DistanceWidth(D)]
      /\ f[0] = [run |-> 0, maxDistance |-> 0, numValues |-> 0, numDistances |-> 0]
      /\ \A n \in 1..N : f[n] = ScanElement(f[n - 1], src[n], dominant)
  BY <1>1 DEF ScanRun
<1>3. /\ D \in Nat /\ D <= LongestRun
      /\ \A n \in 0..N : f[n].run <= D /\ f[n].numValues = f[n].numDistances
  BY <1>1, RunsAreBounded
<1>4. W = DistanceWidth(D)
  BY <1>2
<1> HIDE DEF D
<1>5. /\ W \in DOMAIN DistanceMax /\ D <= DistanceMax[W] /\ DistanceMax[W] \in Nat
      /\ D = LongestRun => W = Len(DistanceMax)
  <2>1. /\ W \in DOMAIN DistanceMax /\ D <= DistanceMax[W]
        /\ D = LongestRun => W = Len(DistanceMax)
    BY <1>3, <1>4, DistanceWidthFits
  <2> QED BY <2>1, DistanceAssumption
<1> HIDE DEF W
<1>6. LongestRun \in Nat
  <2>1. Len(DistanceMax) \in DOMAIN DistanceMax
    BY DistanceAssumption
  <2> QED BY <2>1, DistanceAssumption DEF LongestRun, Last
<1>7. PICK g : SparseEncodeRun(g, src, dominant, W)
  BY <1>5, SparseEncodeStates
<1>8. /\ g \in [0..N -> SparseStates]
      /\ kernel = [distances |-> IF g[N].elts < N
                         THEN Append(g[N].distances, WriteDistance(N - g[N].elts, W))
                         ELSE g[N].distances,
                   values |-> g[N].values]
      /\ g[0] = [distances |-> <<>>, values |-> <<>>, elts |-> 0, run |-> 0]
      /\ \A n \in 1..N : g[n] = EncodeSparseElement(g[n - 1], n, src[n], dominant, W)
  <2>1. kernel = ZL_sparseNumEncode(src, dominant, W)
    BY DEF W
  <2> QED BY <1>7, <2>1 DEF SparseEncodeRun
<1> DEFINE S == {n \in 0..N : SparseTracks(g[n], f[n], n, src, dominant)}
<1>9. 0 \in S
  <2>1. /\ g[0] \in SparseStates /\ f[0] \in ScanStates
        /\ g[0].run = 0 /\ f[0].run = 0 /\ g[0].elts = 0 /\ f[0].numValues = 0
        /\ g[0].distances = <<>> /\ g[0].values = <<>>
    BY <1>2, <1>8
  <2>2. ZL_sparseNumDecode(<<>>, <<>>, dominant) = <<>>
    <3>1. <<>> \in Seq(Nat) /\ Len(<<>>) = 0
      OBVIOUS
    <3> DEFINE c == Chunks(<<>>, <<>>, dominant)
    <3>2. c \in Seq(Seq(Nat)) /\ Len(c) = 0 /\ ZL_sparseNumDecode(<<>>, <<>>, dominant) = Concat(c)
      BY <3>1, ChunksFacts
    <3> HIDE DEF c
    <3>3. c = <<>>
      BY <3>2
    <3> QED BY <3>2, <3>3, ConcatEmpty
  <2>3. Matches(<<>>, src, 0) /\ RunsOn(src, 0, 0, dominant)
    BY DEF Matches, RunsOn
  <2> DEFINE s == g[0]
             p == f[0]
  <2>4. /\ s \in SparseStates /\ p \in ScanStates
        /\ s.run = 0 /\ p.run = 0 /\ s.elts = 0 /\ p.numValues = 0
        /\ s.distances = <<>> /\ s.values = <<>> /\ Len(<<>>) = 0
    BY <2>1
  <2> HIDE DEF s, p
  <2>5. SparseTracks(s, p, 0, src, dominant)
    BY <2>2, <2>3, <2>4 DEF SparseTracks
  <2> QED BY <1>2, <2>5 DEF s, p
<1>10. ASSUME NEW n \in 1..N, n - 1 \in S PROVE n \in S
  <2> DEFINE s == g[n - 1]
             p == f[n - 1]
             r == g[n]
             q == f[n]
  <2>1. n \in 0..N /\ n - 1 \in 0..N
    BY <1>2
  <2>2. /\ SparseTracks(s, p, n - 1, src, dominant)
        /\ r \in SparseStates /\ r = EncodeSparseElement(s, n, src[n], dominant, W)
        /\ q \in ScanStates /\ q = ScanElement(p, src[n], dominant)
        /\ p.run <= D /\ p.numValues = p.numDistances /\ p.run \in Nat
    BY <1>2, <1>3, <1>8, <1>10, <2>1 DEF ScanStates
  <2> HIDE DEF s, p, r, q
  <2>3. p.run <= DistanceMax[W] /\ (p.run = LongestRun => W = Len(DistanceMax))
    BY <1>3, <1>5, <1>6, <2>2
  <2>4. SparseTracks(r, q, n, src, dominant)
    BY <1>5, <2>2, <2>3, SparseTurn
  <2> QED BY <2>1, <2>4 DEF r, q
<1> HIDE DEF S
<1>11. \A n \in 0..N : n \in S
  BY <1>2, <1>9, <1>10, LoopInduction
<1> DEFINE ds == g[N].distances
           vs == g[N].values
           e == g[N].elts
           run == g[N].run
           o == ZL_sparseNumDecode(ds, vs, dominant)
<1>12. /\ ds \in Seq(Nat) /\ vs \in Seq(Nat) /\ e \in Nat /\ run \in Nat /\ f[N].numValues \in Nat
       /\ run = f[N].run /\ e + run = N /\ Len(ds) = f[N].numValues /\ Len(vs) = f[N].numValues
       /\ Matches(o, src, e) /\ RunsOn(src, e, run, dominant)
       /\ run <= D /\ f[N].numValues = f[N].numDistances
  <2>1. SparseTracks(g[N], f[N], N, src, dominant)
    BY <1>2, <1>11 DEF S
  <2>2. g[N] \in SparseStates /\ f[N] \in ScanStates
    BY <2>1 DEF SparseTracks
  <2> QED BY <1>2, <1>3, <2>1, <2>2 DEF SparseTracks, SparseStates, ScanStates
<1>13. kernel.values = vs /\ info.numValues = f[N].numValues
  BY <1>2, <1>8
<1>14. \A d \in Seq(Nat) : Matches(d, src, N) => d = src
  BY <1>2, SeqsEqual DEF Matches
<1>15. CASE run = 0
  <2>1. kernel.distances = ds /\ info.numDistances = f[N].numValues /\ e = N
    BY <1>2, <1>8, <1>12, <1>15
  <2>2. o \in Seq(Nat)
    BY <1>12, SparseWritten
  <2> HIDE DEF ds, vs, e, run
  <2>3. o = src
    <3> HIDE DEF o
    <3> QED BY <1>12, <1>14, <2>1, <2>2
  <2> QED BY <1>5, <1>12, <1>13, <2>1, <2>3 DEF SparseSends, W
<1>16. CASE run # 0
  <2>1. e < N /\ N - e = run /\ run <= DistanceMax[W]
    BY <1>2, <1>3, <1>5, <1>12, <1>16
  <2>2. WriteDistance(N - e, W) = run
    BY <1>5, <1>12, <2>1, ModSmall DEF WriteDistance
  <2>3. kernel.distances = Append(ds, run)
    BY <1>8, <2>1, <2>2
  <2>4. info.numDistances = f[N].numValues + 1
    BY <1>2, <1>12, <1>16
  <2> HIDE DEF ds, vs, e, run, D
  <2>5. ChunksGrow(ds, vs, dominant, run, 0)
    BY <1>12, ChunksAppend
  <2>6. ZL_sparseNumDecode(Append(ds, run), vs, dominant) = o \o Chunk(run, <<>>, dominant)
    BY <2>5 DEF ChunksGrow
  <2>7. Append(ds, run) \in Seq(Nat) /\ Len(Append(ds, run)) = f[N].numValues + 1
    BY <1>12, AppendFacts
  <2>8. Matches(o \o Chunk(run, <<>>, dominant), src, N)
    <3>1. <<>> \in Seq(Nat) /\ GoesOn(src, e + run, <<>>) /\ e + run + Len(<<>>) = N
      BY <1>12 DEF GoesOn
    <3>2. Len(ds) = Len(vs)
      BY <1>12
    <3>3. Matches(o \o Chunk(run, <<>>, dominant), src, e + run + Len(<<>>))
      BY <1>12, <3>1, <3>2, RunDecodes
    <3> QED BY <3>1, <3>3
  <2>9. ZL_sparseNumDecode(kernel.distances, kernel.values, dominant) = src
    <3> DEFINE r == ZL_sparseNumDecode(kernel.distances, kernel.values, dominant)
    <3>1. r \in Seq(Nat)
      BY <1>12, <1>13, <2>3, <2>7, SparseWritten
    <3>2. Matches(r, src, N)
      BY <1>13, <2>3, <2>6, <2>8
    <3> HIDE DEF r
    <3>3. r = src
      BY <1>14, <3>1, <3>2
    <3> QED BY <3>3 DEF r
  <2> QED BY <1>5, <1>12, <1>13, <2>3, <2>4, <2>7, <2>9 DEF SparseSends, W
<1> QED BY <1>15, <1>16

(* What EI_sparse_num() sends for a dominant value that fits the width.    *)
SparseSent(out, src, width, dominant) ==
    LET info == ZL_sparseNumComputeEncodeInfo(src, dominant)
        kernel == ZL_sparseNumEncode(src, dominant, info.distanceWidth)
    IN  /\ out.ok /\ out.header \in Seq(Nat) /\ Len(out.header) <= width
        /\ ReadLE(out.header) = dominant
        /\ out.streams = <<Stream(info.distanceWidth, kernel.distances), Stream(width, kernel.values)>>
        /\ SparseSends(src, dominant, info, kernel)

LEMMA SparseHeader ==
    ASSUME NEW width \in Nat \ {0}, NEW src \in Seq(Nat),
           NEW dominant \in 0..ZL_maxValueForWidth(width)
    PROVE  SparseSent(EI_sparse_num(src, width, dominant), src, width, dominant)
<1> DEFINE info == ZL_sparseNumComputeEncodeInfo(src, dominant)
           kernel == ZL_sparseNumEncode(src, dominant, info.distanceWidth)
           T == {n \in 1..width : dominant <= ZL_maxValueForWidth(n)}
           header == IF dominant = 0 THEN <<>> ELSE LE(dominant, Min(T))
           out == EI_sparse_num(src, width, dominant)
<1>1. ZL_maxValueForWidth(width) \in Nat /\ dominant \in Nat /\ dominant <= ZL_maxValueForWidth(width)
  <2>1. ZL_maxValueForWidth(width) \in Nat
    BY WidthModulus
  <2> QED BY <2>1
<1>2. out = Sent(header, <<Stream(info.distanceWidth, kernel.distances), Stream(width, kernel.values)>>)
  BY DEF EI_sparse_num
<1>3. T \in SUBSET Nat /\ width \in T
  BY <1>1
<1>4. Min(T) \in T
  <2> HIDE DEF T
  <2>1. T # {}
    BY <1>3
  <2> QED BY <1>3, <2>1, LeastOf
<1>5. header \in Seq(Nat) /\ Len(header) <= width /\ ReadLE(header) = dominant
  <2>1. CASE dominant = 0
    BY <2>1, ReadLEEmpty
  <2>2. CASE dominant # 0
    <3> DEFINE m == Min(T)
    <3>1. m \in 1..width /\ dominant <= ZL_maxValueForWidth(m)
      BY <1>4
    <3> HIDE DEF m
    <3>2. m \in Nat \ {0} /\ m \in Nat /\ m <= width
      BY <3>1
    <3>3. dominant < Power[m]
      BY <1>1, <3>1, <3>2, WidthModulus DEF Modulus
    <3>4. LE(dominant, m) \in Seq(Nat) /\ Len(LE(dominant, m)) = m /\ ReadLE(LE(dominant, m)) = dominant
      BY <1>1, <3>2, <3>3, ReadsLE
    <3>5. header = LE(dominant, m)
      BY <2>2 DEF m
    <3> QED BY <3>2, <3>4, <3>5
  <2> QED BY <2>1, <2>2
<1>6. SparseSends(src, dominant, info, kernel)
  BY <1>1, SparseKernel
<1> HIDE DEF info, kernel, header
<1>7. out.ok /\ out.header = header /\ out.streams = <<Stream(info.distanceWidth, kernel.distances), Stream(width, kernel.values)>>
  BY <1>2 DEF Sent
<1> HIDE DEF out
<1> QED BY <1>5, <1>6, <1>7 DEF SparseSent, info, kernel, out

(* What it is sent decodes to the input.                                   *)
LEMMA SparseDecodes ==
    ASSUME NEW width \in Nat \ {0}, NEW src \in Seq(Nat), NEW dominant, NEW out,
           SparseSent(out, src, width, dominant)
    PROVE  DI_sparse_num(out.header, out.streams) = Made(width, src, Len(src))
<1> DEFINE info == ZL_sparseNumComputeEncodeInfo(src, dominant)
           kernel == ZL_sparseNumEncode(src, dominant, info.distanceWidth)
           w == info.distanceWidth
           ds == kernel.distances
           vs == kernel.values
<1>1. /\ out.header \in Seq(Nat) /\ Len(out.header) <= width /\ ReadLE(out.header) = dominant
      /\ out.streams = <<Stream(w, ds), Stream(width, vs)>>
  BY DEF SparseSent
<1>2. /\ w \in DOMAIN DistanceMax /\ ds \in Seq(Nat) /\ vs \in Seq(Nat)
      /\ Len(ds) \in {Len(vs), Len(vs) + 1} /\ ZL_sparseNumDecode(ds, vs, dominant) = src
  BY DEF SparseSent, SparseSends
<1>3. dominant \in Nat
  BY <1>1, ReadLENat
<1> HIDE DEF info, kernel, w, ds, vs
<1>4. /\ out.streams[1].width = w /\ out.streams[1].elts = ds
      /\ out.streams[2].width = width /\ out.streams[2].elts = vs
  BY <1>1 DEF Stream
<1>5. ~ (Len(out.header) > width)
  BY <1>1
<1>6. DI_sparse_num(out.header, out.streams) = Made(width, src, Len(vs) + Sum(ds))
  BY <1>1, <1>2, <1>4, <1>5 DEF DI_sparse_num, ZL_sparseNumDecodeOutputCount
<1>7. Len(src) = Len(vs) + Sum(ds)
  BY <1>2, <1>3, SparseWritten
<1> QED BY <1>6, <1>7

(* The dominant value is one of the input, or zero.                        *)
LEMMA DominantFits ==
    ASSUME NEW V, 0 \in V, NEW src \in Seq(V)
    PROVE  ZL_sparseNumSelectDominant(src) \in V
<1> DEFINE N == Sampled(src)
<1>1. PICK f : VoteRun(f, src, V)
  BY VoteStates
<1>2. f \in [0..Len(src) -> [candidate : V, votes : Nat]] /\ N \in 0..Len(src)
  BY <1>1, SampleAssumption DEF VoteRun, Sampled
<1>3. ZL_sparseNumSelectDominant(src) = (IF f[N].votes = 0 THEN 0 ELSE f[N].candidate)
  BY <1>1 DEF VoteRun
<1>4. f[N].candidate \in V
  BY <1>2
<1> QED BY <1>3, <1>4

(* What the two nodes of sparse_num send.                                  *)
LEMMA SparseZeroSends ==
    ASSUME NEW width \in Nat \ {0}, NEW src \in Elements(width)
    PROVE  SparseSent(EI_sparse_num(src, width, 0), src, width, 0)
<1>1. 0 \in 0..ZL_maxValueForWidth(width)
  BY WidthModulus
<1>2. src \in Seq(Nat)
  BY ElementsFit
<1> QED BY <1>1, <1>2, SparseHeader

LEMMA SparseAutoSends ==
    ASSUME NEW width \in Nat \ {0}, NEW src \in Elements(width), NEW explicit \in Nat \cup {Wild},
           EI_sparse_num_auto(src, width, explicit).ok
    PROVE  \E dominant : SparseSent(EI_sparse_num_auto(src, width, explicit), src, width, dominant)
<1> DEFINE V == 0..ZL_maxValueForWidth(width)
           Sends(d) == EI_sparse_num_auto(src, width, explicit) = EI_sparse_num(src, width, d)
<1>1. ZL_maxValueForWidth(width) \in Nat /\ 0 \in V
  BY WidthModulus
<1>2. src \in Seq(Nat) /\ src \in Seq(V)
  BY ElementsFit DEF Elements
<1>3. \E d \in V : Sends(d)
  <2>1. CASE explicit = Wild
    <3>1. ZL_sparseNumSelectDominant(src) \in V
      <4> HIDE DEF V
      <4> QED BY <1>1, <1>2, DominantFits
    <3>2. Sends(ZL_sparseNumSelectDominant(src))
      BY <2>1 DEF EI_sparse_num_auto
    <3> HIDE DEF V, Sends
    <3> QED BY <3>1, <3>2
  <2>2. CASE explicit # Wild
    <3>1. explicit \in Nat
      BY <2>2
    <3>2. ~ (explicit > ZL_maxValueForWidth(width))
      BY <2>2 DEF EI_sparse_num_auto, NotSent
    <3>3. Sends(IF src = <<>> THEN 0 ELSE explicit)
      BY <2>2, <3>2 DEF EI_sparse_num_auto
    <3>4. (IF src = <<>> THEN 0 ELSE explicit) \in V
      BY <1>1, <3>1, <3>2
    <3> HIDE DEF V, Sends
    <3> QED BY <3>3, <3>4
  <2> QED BY <2>1, <2>2
<1>4. PICK d \in V : Sends(d)
  BY <1>3
<1>5. SparseSent(EI_sparse_num(src, width, d), src, width, d)
  BY <1>2, <1>4, SparseHeader
<1> QED BY <1>4, <1>5

-----------------------------------------------------------------------------
(* prefix.                                                                 *)
LEMMA LesserOfInts ==
    ASSUME NEW a \in Int, NEW b \in Int
    PROVE  Min({a, b}) \in {a, b} /\ Min({a, b}) <= a /\ Min({a, b}) <= b
<1>1. \E x \in {a, b} : \A y \in {a, b} : x <= y
  <2>1. CASE a <= b
    BY <2>1
  <2>2. CASE b <= a
    BY <2>2
  <2> QED BY <2>1, <2>2
<1>2. Min({a, b}) \in {a, b} /\ \A y \in {a, b} : Min({a, b}) <= y
  BY <1>1 DEF Min
<1> QED BY <1>2

LEMMA GreaterOfInts ==
    ASSUME NEW a \in Int, NEW b \in Int
    PROVE  Max({a, b}) \in {a, b} /\ a <= Max({a, b}) /\ b <= Max({a, b})
<1>1. \E x \in {a, b} : \A y \in {a, b} : x >= y
  <2>1. CASE a <= b
    BY <2>1
  <2>2. CASE b <= a
    BY <2>2
  <2> QED BY <2>1, <2>2
<1>2. Max({a, b}) \in {a, b} /\ \A y \in {a, b} : Max({a, b}) >= y
  BY <1>1 DEF Max
<1>3. Max({a, b}) \in Int
  BY <1>2
<1> QED BY <1>2, <1>3

IsBytes(b, s, from, n) ==
    /\ Len(b) = (IF n >= 0 THEN n ELSE 0)
    /\ \A k \in 1..n : b[k] = At(s, from + k)

LEMMA AtInt ==
    ASSUME NEW s \in Seq(Int), NEW i \in Int
    PROVE  At(s, i) \in Int
BY DEF At, Wild

LEMMA BytesFacts ==
    ASSUME NEW s \in Seq(Int), NEW from \in Int, NEW n \in Int
    PROVE  Bytes(s, from, n) \in Seq(Int) /\ IsBytes(Bytes(s, from, n), s, from, n)
<1> DEFINE b == Bytes(s, from, n)
           m == IF n >= 0 THEN n ELSE 0
<1>1. m \in Nat /\ 1..n = 1..m
  OBVIOUS
<1>2. b = [k \in 1..n |-> At(s, from + k)]
  BY DEF Bytes
<1>3. \A k \in 1..n : At(s, from + k) \in Int
  <2> TAKE k \in 1..n
  <2>1. from + k \in Int
    OBVIOUS
  <2> QED BY <2>1, AtInt
<1>4. b \in [1..n -> Int] /\ \A k \in 1..n : b[k] = At(s, from + k)
  BY <1>2, <1>3
<1> HIDE DEF b
<1>5. b \in [1..m -> Int]
  BY <1>1, <1>4
<1>6. b \in Seq(Int) /\ Len(b) = m
  <2> HIDE DEF m
  <2> QED BY <1>1, <1>5, FunctionIsSeq
<1> QED BY <1>4, <1>6 DEF IsBytes, b

PrefixStates ==
    [ok : BOOLEAN, out : Seq(Seq(Int)), field : Seq(Int), vec : [1..Vector -> Int],
     consumed : Nat, produced : Nat, low : Int, high : Int, top : Int]

(* The bookkeeping that copying an element leaves alone.                   *)
Carries(c, s) ==
    /\ c \in PrefixStates
    /\ c.consumed = s.consumed /\ c.produced = s.produced /\ c.out = s.out

IsCopy(c, s, match, suffix) ==
    /\ Carries(c, s)
    /\ c.field = Bytes(s.field, 0, match) \o suffix
    /\ c.vec = s.vec /\ c.low = s.low /\ c.high = s.high /\ c.top = s.top

LEMMA PrefixCopyFacts ==
    ASSUME NEW s \in PrefixStates, NEW match \in Nat, NEW suffix \in Seq(Nat),
           NEW c, c = PrefixCopy(s, match, suffix)
    PROVE  IsCopy(c, s, match, suffix)
<1> DEFINE f == Bytes(s.field, 0, match) \o suffix
<1>1. c = [s EXCEPT !.field = f]
  BY DEF PrefixCopy
<1>2. f \in Seq(Int)
  <2> DEFINE b == Bytes(s.field, 0, match)
  <2>1. s.field \in Seq(Int)
    BY DEF PrefixStates
  <2>2. b \in Seq(Int)
    BY <2>1, BytesFacts
  <2>3. suffix \in Seq(Int)
    OBVIOUS
  <2> HIDE DEF b
  <2>4. b \o suffix \in Seq(Int)
    BY <2>2, <2>3, JoinFacts
  <2> QED BY <2>4 DEF b
<1> HIDE DEF f
<1>3. /\ c \in PrefixStates /\ c.field = f
      /\ c.vec = s.vec /\ c.consumed = s.consumed /\ c.produced = s.produced
      /\ c.low = s.low /\ c.high = s.high /\ c.top = s.top /\ c.out = s.out
  BY <1>1, <1>2 DEF PrefixStates
<1> QED BY <1>3 DEF f, IsCopy, Carries

BlendVec(s, match, all) ==
    [k \in 1..Vector |-> IF Keeps(match, k) THEN s.vec[k] ELSE At(all, s.consumed + k - match)]
BlendField(vec, match, suffix) ==
    Bytes(vec, 0, Min({Vector, match + Len(suffix)}))
        \o Bytes(suffix, Vector - match, match + Len(suffix) - Vector)

IsBlend(c, s, match, suffix, all) ==
    /\ Carries(c, s)
    /\ c.vec = BlendVec(s, match, all)
    /\ c.field = BlendField(c.vec, match, suffix)
    /\ c.low = Min({s.low, s.consumed - match})
    /\ c.high = Max({s.high, s.consumed - match + Vector})
    /\ c.top = Max({s.top, s.produced + Vector})

LEMMA PrefixBlendFacts ==
    ASSUME NEW s \in PrefixStates, NEW match \in Nat, NEW suffix \in Seq(Nat), NEW all \in Seq(Nat),
           NEW c, c = PrefixBlend(s, match, suffix, all)
    PROVE  IsBlend(c, s, match, suffix, all)
<1> DEFINE vec == BlendVec(s, match, all)
           f == BlendField(vec, match, suffix)
           low == Min({s.low, s.consumed - match})
           high == Max({s.high, s.consumed - match + Vector})
           top == Max({s.top, s.produced + Vector})
<1>1. c = [s EXCEPT !.field = f, !.vec = vec, !.low = low, !.high = high, !.top = top]
  BY DEF PrefixBlend, BlendVec, BlendField
<1>2. /\ s.consumed \in Nat /\ s.produced \in Nat /\ s.low \in Int /\ s.high \in Int /\ s.top \in Int
      /\ s.vec \in [1..Vector -> Int] /\ Vector \in Nat
  BY StringAssumption DEF PrefixStates
<1>3. low \in Int /\ high \in Int /\ top \in Int
  <2>1. ASSUME NEW a \in Int, NEW b \in Int PROVE Min({a, b}) \in Int /\ Max({a, b}) \in Int
    <3>1. Min({a, b}) \in {a, b} /\ Max({a, b}) \in {a, b}
      BY LesserOfInts, GreaterOfInts
    <3> QED BY <3>1
  <2>2. s.consumed - match \in Int /\ s.consumed - match + Vector \in Int /\ s.produced + Vector \in Int
    BY <1>2
  <2> QED BY <1>2, <2>1, <2>2
<1>4. vec \in [1..Vector -> Int]
  <2>1. \A k \in 1..Vector : At(all, s.consumed + k - match) \in Int
    <3> TAKE k \in 1..Vector
    <3>1. s.consumed + k - match \in Int /\ all \in Seq(Int)
      BY <1>2
    <3> QED BY <3>1, AtInt
  <2> QED BY <1>2, <2>1 DEF BlendVec
<1> HIDE DEF vec
<1>5. f \in Seq(Int)
  <2> DEFINE n == match + Len(suffix)
             m == match + Len(suffix) - Vector
             a == Bytes(vec, 0, Min({Vector, n}))
             b == Bytes(suffix, Vector - match, m)
  <2>5. f = a \o b
    BY DEF BlendField
  <2>1. vec \in Seq(Int) /\ suffix \in Seq(Int) /\ n \in Nat
    <3>1. vec \in Seq(Int)
      BY <1>2, <1>4, FunctionIsSeq
    <3> QED BY <3>1
  <2>6. m \in Int
    BY <1>2
  <2> HIDE DEF n, m
  <2>2. Min({Vector, n}) \in Int /\ Vector - match \in Int
    <3>1. Vector \in Int /\ n \in Int
      BY <1>2, <2>1
    <3>2. Min({Vector, n}) \in {Vector, n}
      BY <3>1, LesserOfInts
    <3> QED BY <3>1, <3>2
  <2>3. a \in Seq(Int) /\ b \in Seq(Int)
    BY <2>1, <2>2, <2>6, BytesFacts
  <2> HIDE DEF a, b
  <2>4. a \o b \in Seq(Int)
    BY <2>3, JoinFacts
  <2> QED BY <2>4, <2>5
<1> HIDE DEF f, low, high, top
<1>6. /\ c.field = f /\ c.vec = vec /\ c.low = low /\ c.high = high /\ c.top = top
      /\ c.consumed = s.consumed /\ c.produced = s.produced /\ c.out = s.out
  BY <1>1 DEF PrefixStates
<1>7. c \in PrefixStates
  BY <1>1, <1>3, <1>4, <1>5 DEF PrefixStates
<1> QED BY <1>6, <1>7 DEF f, low, high, top, vec, IsBlend, Carries

(* The bytes an element is copied with.                                    *)
Copied(s, match, suffix, all, vectors) ==
    IF vectors /\ match <= Vector THEN PrefixBlend(s, match, suffix, all)
    ELSE PrefixCopy(s, match, suffix)

LEMMA CopiedFacts ==
    ASSUME NEW s \in PrefixStates, NEW match \in Nat, NEW suffix \in Seq(Nat), NEW all \in Seq(Nat),
           NEW vectors \in BOOLEAN, NEW c, c = Copied(s, match, suffix, all, vectors)
    PROVE  Carries(c, s)
<1>1. CASE vectors /\ match <= Vector
  <2>1. c = PrefixBlend(s, match, suffix, all)
    BY <1>1 DEF Copied
  <2>2. IsBlend(c, s, match, suffix, all)
    BY <2>1, PrefixBlendFacts
  <2> QED BY <2>2 DEF IsBlend
<1>2. CASE ~(vectors /\ match <= Vector)
  <2>1. c = PrefixCopy(s, match, suffix)
    BY <1>2 DEF Copied
  <2>2. IsCopy(c, s, match, suffix)
    BY <2>1, PrefixCopyFacts
  <2> QED BY <2>2 DEF IsCopy
<1> QED BY <1>1, <1>2

(* One element, when no error occurred before it.                          *)
IsStopped(r, s, match) ==
    /\ ~s.ok => r = s
    /\ s.ok /\ match > Len(s.field) => r = [s EXCEPT !.ok = FALSE]

(* After an error, or if the match is too long, nothing is decoded.        *)
LEMMA PrefixElementStops ==
    ASSUME NEW s \in PrefixStates, NEW match \in Nat, NEW suffix \in Seq(Nat), NEW all \in Seq(Nat), NEW vectors \in BOOLEAN,
           NEW r, r = DecodePrefixElement(s, match, suffix, all, vectors)
    PROVE  IsStopped(r, s, match)
BY DEF DecodePrefixElement, MatchTooLong, IsStopped

(* r is s with one more element, whose bytes are in c.                     *)
IsElement(r, s, c, match, suffix) ==
    /\ r \in PrefixStates /\ (r.ok <=> match + Len(suffix) <= U32Max)
    /\ r.out = Append(s.out, r.field) /\ r.field = c.field /\ r.vec = c.vec
    /\ r.consumed = s.consumed + Len(suffix)
    /\ r.produced = s.produced + match + Len(suffix)

(* Wild copies reach a vector past the element.                            *)
Reaches(r, s, c, match, suffix, vectors) ==
    /\ r.low = c.low
    /\ r.high = c.high \/ (vectors /\ r.high = s.consumed + Len(suffix) + Vector)
    /\ r.top = c.top \/ (vectors /\ r.top = s.produced + match + Len(suffix) + Vector)

LEMMA ReachOfFacts ==
    ASSUME NEW a \in Int, NEW e \in Int, NEW wild \in BOOLEAN
    PROVE  /\ ReachOf(a, e, wild) \in Int
           /\ ReachOf(a, e, wild) = a \/ (wild /\ ReachOf(a, e, wild) = e + Vector)
<1>1. e + Vector \in Int
  BY StringAssumption
<1>2. Max({a, e + Vector}) \in {a, e + Vector}
  BY <1>1, GreaterOfInts
<1> QED BY <1>1, <1>2 DEF ReachOf

LEMMA PrefixElementCopies ==
    ASSUME NEW s \in PrefixStates, NEW match \in Nat, NEW suffix \in Seq(Nat), NEW all \in Seq(Nat), NEW vectors \in BOOLEAN,
           NEW r, r = DecodePrefixElement(s, match, suffix, all, vectors),
           s.ok, ~(match > Len(s.field)), NEW c, c = Copied(s, match, suffix, all, vectors)
    PROVE  IsElement(r, s, c, match, suffix) /\ Reaches(r, s, c, match, suffix, vectors)
<1> DEFINE b == match + Len(suffix) <= U32Max
           o == Append(s.out, c.field)
           x == s.consumed + Len(suffix)
           y == s.produced + match + Len(suffix)
           wild == vectors /\ match + Len(suffix) > Vector
           h == ReachOf(c.high, x, wild)
           t == ReachOf(c.top, y, wild)
<1>0. Carries(c, s)
  BY CopiedFacts
<1>1. /\ c \in PrefixStates /\ c.out = s.out
      /\ c.consumed = s.consumed /\ c.produced = s.produced
  BY <1>0 DEF Carries
<1>2. r = [c EXCEPT !.ok = b, !.out = Append(@, c.field), !.consumed = @ + Len(suffix),
                    !.produced = @ + match + Len(suffix),
                    !.high = ReachOf(@, x, wild), !.top = ReachOf(@, y, wild)]
  BY DEF DecodePrefixElement, MatchTooLong, Copied
<1>3. r = [c EXCEPT !.ok = b, !.out = o, !.consumed = x, !.produced = y, !.high = h, !.top = t]
  BY <1>1, <1>2 DEF PrefixStates
<1>4. /\ b \in BOOLEAN /\ x \in Nat /\ y \in Nat
  BY DEF PrefixStates
<1>5. o \in Seq(Seq(Int))
  <2> DEFINE so == s.out
             v == c.field
  <2>1. so \in Seq(Seq(Int)) /\ v \in Seq(Int)
    BY <1>1 DEF PrefixStates
  <2> HIDE DEF so, v
  <2>2. Append(so, v) \in Seq(Seq(Int))
    BY <2>1, AppendFacts
  <2> QED BY <2>2 DEF so, v
<1>8. /\ h \in Int /\ (h = c.high \/ (wild /\ h = x + Vector))
      /\ t \in Int /\ (t = c.top \/ (wild /\ t = y + Vector))
  <2>1. c.high \in Int /\ c.top \in Int /\ x \in Int /\ y \in Int /\ wild \in BOOLEAN
    BY <1>1, <1>4 DEF PrefixStates
  <2> HIDE DEF x, y, wild
  <2> QED BY <2>1, ReachOfFacts
<1> HIDE DEF b, o, x, y, h, t
<1>6. r \in PrefixStates
  BY <1>1, <1>3, <1>4, <1>5, <1>8 DEF PrefixStates
<1>7. /\ r.ok = b /\ r.out = o /\ r.consumed = x /\ r.produced = y /\ r.field = c.field /\ r.vec = c.vec
      /\ r.low = c.low /\ r.high = h /\ r.top = t
  BY <1>1, <1>3 DEF PrefixStates
<1>9. Reaches(r, s, c, match, suffix, vectors)
  BY <1>7, <1>8 DEF x, y, Reaches
<1> QED BY <1>6, <1>7, <1>9 DEF b, o, x, y, IsElement

Wildcopies(suffixes, vectorised) == IF vectorised THEN SafeWildcopies(suffixes) ELSE 0

(* ZS_decodePrefix() after n elements.                                     *)
PrefixDecodeRun(f, suffixes, sizes, vectorised) ==
    /\ f \in [0..Len(suffixes) -> PrefixStates]
    /\ ZS_decodePrefix(suffixes, sizes, vectorised) = f[Len(suffixes)]
    /\ f[0] = [ok |-> TRUE, out |-> <<>>, field |-> <<>>, vec |-> [i \in 1..Vector |-> 0],
                  consumed |-> 0, produced |-> 0, low |-> 0, high |-> 0, top |-> 0]
    /\ \A n \in 1..Len(suffixes) : f[n] = DecodePrefixElement(f[n - 1], sizes[n], suffixes[n], Concat(suffixes), n <= Wildcopies(suffixes, vectorised))

LEMMA PrefixDecodeStates ==
    ASSUME NEW suffixes \in Seq(Seq(Nat)), NEW sizes \in Seq(Nat), Len(sizes) = Len(suffixes), NEW vectorised
    PROVE  \E f : PrefixDecodeRun(f, suffixes, sizes, vectorised)
<1> DEFINE N == Len(suffixes)
           T == PrefixStates
           base == [ok |-> TRUE, out |-> <<>>, field |-> <<>>, vec |-> [i \in 1..Vector |-> 0],
                  consumed |-> 0, produced |-> 0, low |-> 0, high |-> 0, top |-> 0]
           E(k, x) == DecodePrefixElement(x, sizes[k], suffixes[k], Concat(suffixes), k <= Wildcopies(suffixes, vectorised))
           step == [p \in (1..N) \X T |-> E(p[1], p[2])]
           value == CHOOSE f : f = [n \in 0..N |-> IF n = 0 THEN base ELSE E(n, f[n - 1])]
<1>1. N \in Nat
  OBVIOUS
<1>2. base \in T
  BY StringAssumption DEF PrefixStates
<1>3. ASSUME NEW k \in 1..N, NEW x \in T PROVE E(k, x) \in T
  <2> DEFINE match == sizes[k]
             suffix == suffixes[k]
             all == Concat(suffixes)
             vectors == k <= Wildcopies(suffixes, vectorised)
             r == DecodePrefixElement(x, match, suffix, all, vectors)
  <2>1. x \in PrefixStates /\ match \in Nat /\ suffix \in Seq(Nat)
    OBVIOUS
  <2>2. all \in Seq(Nat)
    BY ConcatFacts
  <2>7. vectors \in BOOLEAN
    OBVIOUS
  <2> HIDE DEF match, suffix, all, vectors, N, T, r
  <2>8. IsStopped(r, x, match)
    BY <2>1, <2>2, <2>7, PrefixElementStops DEF r
  <2>6. r \in PrefixStates
    <3>1. CASE ~x.ok
      BY <2>1, <2>8, <3>1 DEF IsStopped
    <3>2. CASE x.ok /\ match > Len(x.field)
      <4>1. r = [x EXCEPT !.ok = FALSE]
        BY <2>8, <3>2 DEF IsStopped
      <4> QED BY <2>1, <4>1 DEF PrefixStates
    <3>3. CASE x.ok /\ ~(match > Len(x.field))
      <4>1. IsElement(r, x, Copied(x, match, suffix, all, vectors), match, suffix)
        BY <2>1, <2>2, <2>7, <3>3, PrefixElementCopies DEF r
      <4> QED BY <4>1 DEF IsElement
    <3> QED BY <3>1, <3>2, <3>3
  <2> QED BY <2>6 DEF r, match, suffix, all, vectors, T
<1>4. value = CHOOSE f : f = [n \in 0..N |-> IF n = 0 THEN base ELSE E(n, f[n - 1])]
  OBVIOUS
<1>5. ZS_decodePrefix(suffixes, sizes, vectorised) = value[Len(suffixes)]
  BY DEF ZS_decodePrefix, Wildcopies
<1> HIDE DEF N, T, base, E, value
<1>6. ASSUME NEW k \in 1..N, NEW x \in T PROVE step[<<k, x>>] = E(k, x)
  OBVIOUS
<1> HIDE DEF step
<1>7. PICK f \in [0..N -> T] : IsLoop(f, base, step, N)
  <2>1. \A k \in 1..N : \A x \in T : step[<<k, x>>] \in T
    <3> TAKE k \in 1..N
    <3> TAKE x \in T
    <3> QED BY <1>3, <1>6
  <2> QED BY <1>1, <1>2, <2>1, LoopExists
<1>8. f[0] = base /\ \A n \in 1..N : f[n] = E(n, f[n - 1])
  <2>1. LoopTurns(f, base, step, N, T)
    BY <1>1, <1>7, LoopFacts
  <2> QED BY <1>6, <2>1 DEF LoopTurns
<1>9. value = [n \in 0..N |-> IF n = 0 THEN base ELSE E(n, value[n - 1])]
  <2>1. f = [n \in 0..N |-> IF n = 0 THEN base ELSE E(n, f[n - 1])]
    BY <1>1, <1>7, <1>8
  <2> QED BY <1>4, <2>1
<1>10. value[0] = base /\ \A n \in 1..N : value[n] = E(n, value[n - 1])
  <2>1. 0 \in 0..N /\ \A n \in 1..N : n \in 0..N /\ n # 0
    BY <1>1
  <2> QED BY <1>9, <2>1
<1>11. value = [n \in 0..N |-> value[n]]
  BY <1>9
<1>12. f = value
  <2>1. ASSUME NEW n \in 1..N, f[n - 1] = value[n - 1] PROVE f[n] = value[n]
    BY <1>8, <1>10, <2>1
  <2>2. f = [n \in 0..N |-> f[n]] /\ f[0] = value[0]
    BY <1>7, <1>8, <1>10
  <2>3. SameTurns(f, value, N)
    BY <1>11, <2>1, <2>2 DEF SameTurns
  <2> QED BY <1>1, <2>3, SameLoop
<1>13. PrefixDecodeRun(f, suffixes, sizes, vectorised)
  BY <1>5, <1>7, <1>8, <1>12 DEF PrefixDecodeRun, N, T, base, E
<1> QED BY <1>13

(* The next string: match bytes of the one before, then the suffix.        *)
IsField(x, field, match, suffix) ==
    /\ x \in Seq(Int) /\ Len(x) = match + Len(suffix)
    /\ \A k \in 1..match : x[k] = field[k]
    /\ \A j \in 1..Len(suffix) : x[match + j] = suffix[j]

LEMMA FieldUnique ==
    ASSUME NEW field, NEW match \in Nat, NEW suffix \in Seq(Nat), NEW x, NEW y,
           IsField(x, field, match, suffix), IsField(y, field, match, suffix)
    PROVE  x = y
<1> DEFINE n == match + Len(suffix)
<1>1. Len(suffix) \in Nat /\ n \in Nat /\ x \in Seq(Int) /\ y \in Seq(Int) /\ Len(x) = n /\ Len(y) = n
  BY DEF IsField
<1>2. ASSUME NEW i \in 1..n PROVE x[i] = y[i]
  <2>1. CASE i <= match
    <3>1. i \in 1..match
      BY <1>1, <2>1
    <3> QED BY <3>1 DEF IsField
  <2>2. CASE i > match
    <3> DEFINE j == i - match
    <3>1. j \in 1..Len(suffix) /\ i = match + j
      BY <1>1, <2>2
    <3> HIDE DEF j
    <3>2. x[match + j] = suffix[j] /\ y[match + j] = suffix[j]
      BY <3>1 DEF IsField
    <3> QED BY <3>1, <3>2
  <2> QED BY <1>1, <2>1, <2>2
<1> HIDE DEF n
<1> QED BY <1>1, <1>2, SeqsEqual

LEMMA FieldNat ==
    ASSUME NEW field \in Seq(Nat), NEW match \in Nat, match <= Len(field), NEW suffix \in Seq(Nat), NEW x,
           IsField(x, field, match, suffix)
    PROVE  x \in Seq(Nat)
<1> DEFINE n == match + Len(suffix)
<1>1. Len(suffix) \in Nat /\ n \in Nat /\ x \in Seq(Int) /\ Len(x) = n
  BY DEF IsField
<1>2. ASSUME NEW i \in 1..n PROVE x[i] \in Nat
  <2>1. CASE i <= match
    <3>1. i \in 1..match /\ i \in 1..Len(field)
      BY <1>1, <2>1
    <3>2. x[i] = field[i]
      BY <3>1 DEF IsField
    <3> QED BY <3>1, <3>2
  <2>2. CASE i > match
    <3> DEFINE j == i - match
    <3>1. j \in 1..Len(suffix) /\ i = match + j
      BY <1>1, <2>2
    <3> HIDE DEF j
    <3>2. x[match + j] = suffix[j]
      BY <3>1 DEF IsField
    <3> QED BY <3>1, <3>2
  <2> QED BY <1>1, <2>1, <2>2
<1>3. x \in [1..n -> Nat]
  <2> HIDE DEF n
  <2> QED BY <1>1, <1>2
<1> HIDE DEF n
<1> QED BY <1>1, <1>3, FunctionIsSeq

LEMMA CopyField ==
    ASSUME NEW field \in Seq(Int), NEW match \in Nat, match <= Len(field), NEW suffix \in Seq(Nat)
    PROVE  IsField(Bytes(field, 0, match) \o suffix, field, match, suffix)
<1> DEFINE b == Bytes(field, 0, match)
           x == b \o suffix
<1>1. b \in Seq(Int) /\ IsBytes(b, field, 0, match)
  BY BytesFacts
<1>2. Len(b) = match /\ \A k \in 1..match : b[k] = field[k]
  <2>1. Len(b) = match
    BY <1>1 DEF IsBytes
  <2>2. ASSUME NEW k \in 1..match PROVE b[k] = field[k]
    <3>1. b[k] = At(field, 0 + k) /\ 0 + k = k /\ k \in DOMAIN field
      BY <1>1 DEF IsBytes
    <3> QED BY <3>1 DEF At
  <2> QED BY <2>1, <2>2
<1>3. suffix \in Seq(Int)
  OBVIOUS
<1> HIDE DEF b
<1>4. x \in Seq(Int) /\ IsJoin(x, b, suffix)
  BY <1>1, <1>3, JoinFacts
<1> HIDE DEF x
<1>5. IsField(x, field, match, suffix)
  BY <1>2, <1>4 DEF IsField, IsJoin
<1> QED BY <1>5 DEF x, b

(* The register holds the string, as far as it reaches.                    *)
VecHolds(vec, field) == \A k \in 1..Vector : k <= Len(field) => vec[k] = field[k]

LEMMA BlendedField ==
    ASSUME NEW s \in PrefixStates, NEW match \in Nat, match <= Len(s.field), match <= Vector,
           NEW suffix \in Seq(Nat), NEW all \in Seq(Nat), VecHolds(s.vec, s.field),
           GoesOn(all, s.consumed, suffix), s.consumed + Len(suffix) <= Len(all),
           NEW v, v = BlendVec(s, match, all)
    PROVE  /\ IsField(BlendField(v, match, suffix), s.field, match, suffix)
           /\ VecHolds(v, BlendField(v, match, suffix))
<1> DEFINE field == s.field
           m == Len(suffix)
           n == match + m
           p == Min({Vector, match + Len(suffix)})
           q == match + Len(suffix) - Vector
           a == Bytes(v, 0, p)
           b == Bytes(suffix, Vector - match, q)
           x == BlendField(v, match, suffix)
<1>1. /\ field \in Seq(Int) /\ s.consumed \in Nat /\ s.vec \in [1..Vector -> Int]
      /\ Vector \in Nat /\ m \in Nat /\ n \in Nat /\ match <= Len(field) /\ Len(field) \in Nat
  BY StringAssumption DEF PrefixStates
<1>2. x = a \o b
  BY DEF BlendField
<1>3. /\ p \in {Vector, n} /\ p <= Vector /\ p <= n /\ p \in Nat /\ q \in Int /\ q = n - Vector
  <2>1. Vector \in Int /\ n \in Int
    BY <1>1
  <2>2. p = Min({Vector, n})
    OBVIOUS
  <2>3. p \in {Vector, n} /\ p <= Vector /\ p <= n
    <3> HIDE DEF n, p
    <3> QED BY <2>1, <2>2, LesserOfInts
  <2>4. q \in Int /\ q = n - Vector
    BY <1>1
  <2> HIDE DEF n, p, q
  <2> QED BY <1>1, <2>3, <2>4
<1>4. ASSUME NEW k \in 1..Vector, k <= n
      PROVE  /\ k <= match => v[k] = field[k]
             /\ k > match => k - match \in 1..m /\ v[k] = suffix[k - match]
  <2>1. v[k] = IF Keeps(match, k) THEN s.vec[k] ELSE At(all, s.consumed + k - match)
    BY DEF BlendVec
  <2>2. CASE k <= match
    <3>1. v[k] = s.vec[k] /\ k <= Len(field)
      BY <1>1, <2>1, <2>2 DEF Keeps
    <3>2. v[k] = field[k]
      BY <3>1 DEF VecHolds
    <3> QED BY <1>1, <2>2, <3>2
  <2>3. CASE k > match
    <3> DEFINE j == k - match
    <3>1. j \in 1..m /\ s.consumed + k - match = s.consumed + j
      BY <1>1, <1>4, <2>3
    <3>2. v[k] = At(all, s.consumed + j)
      BY <1>1, <2>1, <2>3, <3>1 DEF Keeps
    <3> HIDE DEF j
    <3>3. s.consumed + j \in 1..Len(all) /\ all[s.consumed + j] = suffix[j]
      <4>1. s.consumed + j \in 1..Len(all)
        <5> DEFINE e == s.consumed
        <5>1. e \in Nat /\ j \in 1..m /\ m \in Nat /\ e + m <= Len(all) /\ Len(all) \in Nat
          BY <1>1, <3>1
        <5> HIDE DEF e, m
        <5>2. e + j \in 1..Len(all)
          BY <5>1
        <5> QED BY <5>2 DEF e
      <4> QED BY <3>1, <4>1 DEF GoesOn
    <3>4. v[k] = suffix[j]
      BY <3>2, <3>3 DEF At
    <3> QED BY <1>1, <2>3, <3>1, <3>4 DEF j
  <2> QED BY <1>1, <2>2, <2>3
<1>5. v \in Seq(Int) /\ Len(v) = Vector
  <2>1. \A k \in 1..Vector : At(all, s.consumed + k - match) \in Int
    <3> TAKE k \in 1..Vector
    <3>1. s.consumed + k - match \in Int /\ all \in Seq(Int)
      BY <1>1
    <3> QED BY <3>1, AtInt
  <2>2. v \in [1..Vector -> Int]
    BY <1>1, <2>1 DEF BlendVec
  <2> QED BY <1>1, <2>2, FunctionIsSeq
<1> HIDE DEF field, p, q
<1>6. a \in Seq(Int) /\ IsBytes(a, v, 0, p)
  BY <1>3, <1>5, BytesFacts
<1>7. b \in Seq(Int) /\ IsBytes(b, suffix, Vector - match, q)
  <2>1. suffix \in Seq(Int) /\ Vector - match \in Int
    BY <1>1
  <2> QED BY <1>3, <2>1, BytesFacts
<1> HIDE DEF a, b, x
<1>8. x \in Seq(Int) /\ IsJoin(x, a, b)
  BY <1>2, <1>6, <1>7, JoinFacts
<1>9. Len(a) = p /\ Len(b) = n - p /\ Len(x) = n
  <2>1. Len(a) = p
    BY <1>3, <1>6 DEF IsBytes
  <2>2. Len(b) = n - p
    <3> HIDE DEF n
    <3> QED BY <1>1, <1>3, <1>7 DEF IsBytes
  <2>3. Len(x) = Len(a) + Len(b)
    BY <1>8 DEF IsJoin
  <2> HIDE DEF n
  <2> QED BY <1>1, <1>3, <2>1, <2>2, <2>3
<1>10. ASSUME NEW k \in 1..p PROVE k \in 1..Vector /\ k <= n /\ x[k] = v[k]
  <2>1. k \in 1..Vector /\ k \in 1..Len(a) /\ k <= n
    <3> HIDE DEF n
    <3> QED BY <1>1, <1>3, <1>9
  <2>2. x[k] = a[k]
    BY <1>8, <2>1 DEF IsJoin
  <2>3. a[k] = At(v, 0 + k) /\ 0 + k = k
    BY <1>3, <1>6 DEF IsBytes
  <2>4. k \in DOMAIN v
    BY <1>5, <2>1
  <2> QED BY <2>1, <2>2, <2>3, <2>4 DEF At
<1>11. ASSUME NEW k \in 1..match PROVE x[k] = field[k]
  <2>1. k \in 1..p /\ k <= match
    BY <1>1, <1>3
  <2>2. k \in 1..Vector /\ k <= n /\ x[k] = v[k]
    BY <1>10, <2>1
  <2> QED BY <1>4, <2>1, <2>2
<1>12. ASSUME NEW j \in 1..m PROVE x[match + j] = suffix[j]
  <2> DEFINE k == match + j
  <2>0. k \in 1..n /\ k > match /\ k - match = j
    BY <1>1
  <2>1. CASE k <= p
    <3>1. k \in 1..p
      BY <1>3, <2>0, <2>1
    <3> HIDE DEF k
    <3>2. k \in 1..Vector /\ k <= n /\ x[k] = v[k]
      BY <1>10, <3>1
    <3>3. v[k] = suffix[k - match]
      BY <1>4, <2>0, <3>2
    <3> QED BY <2>0, <3>2, <3>3 DEF k
  <2>2. CASE k > p
    <3> DEFINE i == k - p
    <3>1. p = Vector /\ i \in 1..Len(b) /\ i \in 1..q /\ k = Len(a) + i
      BY <1>1, <1>3, <1>9, <2>0, <2>2
    <3>2. x[Len(a) + i] = b[i]
      <4> HIDE DEF i, k
      <4> QED BY <1>8, <3>1 DEF IsJoin
    <3>3. b[i] = At(suffix, (Vector - match) + i)
      <4> HIDE DEF i, k
      <4> QED BY <1>7, <3>1 DEF IsBytes
    <3>4. (Vector - match) + i = j /\ j \in DOMAIN suffix
      BY <1>1, <3>1
    <3>5. b[i] = suffix[j]
      <4> HIDE DEF i, k
      <4> QED BY <3>3, <3>4 DEF At
    <3> HIDE DEF i
    <3> QED BY <3>1, <3>2, <3>5
  <2>3. k <= p \/ k > p
    BY <1>1, <1>3
  <2> QED BY <2>1, <2>2, <2>3
<1>13. IsField(x, field, match, suffix)
  BY <1>8, <1>9, <1>11, <1>12 DEF IsField
<1>14. VecHolds(v, x)
  <2>1. ASSUME NEW k \in 1..Vector, k <= Len(x) PROVE v[k] = x[k]
    <3>1. k \in 1..p
      <4> HIDE DEF n
      <4> QED BY <1>1, <1>3, <1>9, <2>1
    <3> QED BY <1>10, <3>1
  <2> QED BY <2>1 DEF VecHolds
<1> QED BY <1>13, <1>14 DEF x, field

(* What the vector loads and stores of an element touch,                   *)
Touches(r, s, match, vectors) ==
    /\ r.low = s.low \/ r.low = s.consumed - match
    /\ r.high = s.high \/ (vectors /\ r.high = s.consumed - match + Vector)
    /\ r.top = s.top \/ (vectors /\ r.top = s.produced + Vector)

(* and its wild copies.                                                    *)
Touched(r, s, match, suffix, vectors) ==
    \E c : Touches(c, s, match, vectors) /\ Reaches(r, s, c, match, suffix, vectors)

(* The state lets the next element be decoded.                             *)
PrefixReady(s, suffix, all, vectors) ==
    /\ s.field \in Seq(Nat) /\ Len(s.field) <= s.consumed
    /\ GoesOn(all, s.consumed, suffix) /\ s.consumed + Len(suffix) <= Len(all)
    /\ vectors => VecHolds(s.vec, s.field)

(* One element: a vector build and one without write the same string.      *)
PrefixStepped(r, s, match, suffix, vectors) ==
    /\ IsElement(r, s, r, match, suffix)
    /\ IsField(r.field, s.field, match, suffix)
    /\ vectors => VecHolds(r.vec, r.field)
    /\ Touched(r, s, match, suffix, vectors)

LEMMA PrefixStep ==
    ASSUME NEW s \in PrefixStates, NEW match \in Nat, NEW suffix \in Seq(Nat), NEW all \in Seq(Nat),
           NEW vectors \in BOOLEAN, NEW r, r = DecodePrefixElement(s, match, suffix, all, vectors),
           s.ok, ~(match > Len(s.field)), PrefixReady(s, suffix, all, vectors)
    PROVE  PrefixStepped(r, s, match, suffix, vectors)
<1> DEFINE c == Copied(s, match, suffix, all, vectors)
<1>1. IsElement(r, s, c, match, suffix) /\ Reaches(r, s, c, match, suffix, vectors)
  BY PrefixElementCopies
<1>2. IsElement(r, s, r, match, suffix) /\ r.field = c.field /\ r.vec = c.vec
  BY <1>1 DEF IsElement
<1>3. s.field \in Seq(Int) /\ match <= Len(s.field) /\ s.field \in Seq(Nat)
  BY DEF PrefixStates, PrefixReady
<1>4. CASE vectors /\ match <= Vector
  <2>1. c = PrefixBlend(s, match, suffix, all)
    BY <1>4 DEF Copied
  <2> HIDE DEF c
  <2>2. IsBlend(c, s, match, suffix, all)
    BY <2>1, PrefixBlendFacts
  <2>3. c.vec = BlendVec(s, match, all) /\ c.field = BlendField(c.vec, match, suffix)
    BY <2>2 DEF IsBlend
  <2>4. VecHolds(s.vec, s.field) /\ GoesOn(all, s.consumed, suffix) /\ s.consumed + Len(suffix) <= Len(all)
    BY <1>4 DEF PrefixReady
  <2>5. IsField(c.field, s.field, match, suffix) /\ VecHolds(c.vec, c.field)
    BY <1>3, <1>4, <2>3, <2>4, BlendedField
  <2>6. Touches(c, s, match, vectors)
    <3> DEFINE x == s.consumed - match
               y == s.consumed - match + Vector
               z == s.produced + Vector
    <3>1. /\ c.low = Min({s.low, x}) /\ c.high = Max({s.high, y}) /\ c.top = Max({s.top, z})
      BY <2>2 DEF IsBlend
    <3>2. x \in Int /\ y \in Int /\ z \in Int /\ s.low \in Int /\ s.high \in Int /\ s.top \in Int
      BY StringAssumption DEF PrefixStates
    <3> HIDE DEF x, y, z
    <3>3. c.low \in {s.low, x} /\ c.high \in {s.high, y} /\ c.top \in {s.top, z}
      BY <3>1, <3>2, LesserOfInts, GreaterOfInts
    <3> QED BY <1>4, <3>3 DEF Touches, x, y, z
  <2>7. Touched(r, s, match, suffix, vectors)
    BY <1>1, <2>6 DEF Touched
  <2> QED BY <1>2, <2>5, <2>7 DEF PrefixStepped
<1>5. CASE ~(vectors /\ match <= Vector)
  <2>1. c = PrefixCopy(s, match, suffix)
    BY <1>5 DEF Copied
  <2> HIDE DEF c
  <2>2. IsCopy(c, s, match, suffix)
    BY <2>1, PrefixCopyFacts
  <2>3. /\ c.field = Bytes(s.field, 0, match) \o suffix /\ c.vec = s.vec
        /\ c.low = s.low /\ c.high = s.high /\ c.top = s.top
    BY <2>2 DEF IsCopy
  <2>4. IsField(c.field, s.field, match, suffix)
    BY <1>3, <2>3, CopyField
  <2>5. ASSUME vectors PROVE VecHolds(c.vec, c.field)
    <3>1. ASSUME NEW k \in 1..Vector, k <= Len(c.field) PROVE c.vec[k] = c.field[k]
      <4>1. k \in 1..match /\ k <= Len(s.field)
        <5>1. match > Vector /\ Vector \in Nat
          BY <1>5, <2>5, StringAssumption
        <5>2. Len(s.field) \in Nat
          BY <1>3
        <5> QED BY <1>3, <5>1, <5>2
      <4>2. s.vec[k] = s.field[k]
        BY <2>5, <4>1 DEF PrefixReady, VecHolds
      <4>3. c.field[k] = s.field[k]
        BY <2>4, <4>1 DEF IsField
      <4> QED BY <2>3, <4>2, <4>3
    <3> QED BY <3>1 DEF VecHolds
  <2>6. Touches(c, s, match, vectors)
    BY <2>3 DEF Touches
  <2>7. Touched(r, s, match, suffix, vectors)
    BY <1>1, <2>6 DEF Touched
  <2> QED BY <1>2, <2>4, <2>5, <2>7 DEF PrefixStepped
<1> QED BY <1>4, <1>5

(* The suffixes joined, one more at a time.                                *)
IsConcats(C, all, seqs) ==
    /\ C \in [0..Len(seqs) -> Seq(Nat)] /\ C[0] = <<>>
    /\ \A n \in 1..Len(seqs) : C[n] = C[n - 1] \o seqs[n]
    /\ all = C[Len(seqs)] /\ all \in Seq(Nat)

LEMMA NatConcats ==
    ASSUME NEW seqs \in Seq(Seq(Nat))
    PROVE  IsConcats(Concats(seqs), Concat(seqs), seqs)
<1>1. /\ Concats(seqs) \in [0..Len(seqs) -> Seq(Nat)] /\ Concats(seqs)[0] = <<>>
      /\ \A n \in 1..Len(seqs) : Concats(seqs)[n] = Concats(seqs)[n - 1] \o seqs[n]
      /\ Concat(seqs) = Concats(seqs)[Len(seqs)] /\ Concat(seqs) \in Seq(Nat)
  BY ConcatFacts
<1> QED BY <1>1 DEF IsConcats

(* b starts with a.                                                        *)
Begins(b, a) == Len(a) <= Len(b) /\ \A i \in 1..Len(a) : b[i] = a[i]

LEMMA ConcatBegins ==
    ASSUME NEW suffixes \in Seq(Seq(Nat)), NEW n \in 0..Len(suffixes)
    PROVE  Begins(Concat(suffixes), Concats(suffixes)[n])
<1> DEFINE N == Len(suffixes)
           C == Concats(suffixes)
<1>1. /\ C \in [0..N -> Seq(Nat)] /\ N \in Nat
      /\ \A k \in 1..N : C[k] = C[k - 1] \o suffixes[k]
      /\ Concat(suffixes) = C[N]
  <2>1. IsConcats(C, Concat(suffixes), suffixes)
    BY NatConcats
  <2>2. N \in Nat
    OBVIOUS
  <2> HIDE DEF C
  <2>3. /\ C \in [0..Len(suffixes) -> Seq(Nat)]
        /\ \A k \in 1..Len(suffixes) : C[k] = C[k - 1] \o suffixes[k]
        /\ Concat(suffixes) = C[Len(suffixes)]
    BY <2>1, Zenon DEF IsConcats
  <2> QED BY <2>2, <2>3, Zenon DEF N
<1>2. \A k \in 1..N : suffixes[k] \in Seq(Nat)
  OBVIOUS
<1> HIDE DEF C, N
<1> DEFINE S == {m \in 0..N : m >= n => Begins(C[m], C[n])}
<1>3. n \in 0..N /\ n \in Nat
  BY DEF N
<1>4. Begins(C[n], C[n])
  BY <1>1, <1>3 DEF Begins
<1>5. 0 \in S
  BY <1>1, <1>3, <1>4
<1>6. ASSUME NEW m \in 1..N, m - 1 \in S PROVE m \in S
  <2>1. m \in 0..N /\ m - 1 \in 0..N
    BY <1>1
  <2>2. CASE m < n
    BY <1>3, <2>1, <2>2
  <2>3. CASE m = n
    BY <1>4, <2>1, <2>3
  <2>4. CASE m > n
    <3> DEFINE a == C[n]
               b == C[m - 1]
               t == suffixes[m]
    <3>1. a \in Seq(Nat) /\ b \in Seq(Nat) /\ t \in Seq(Nat) /\ C[m] = b \o t
      BY <1>1, <1>2, <1>3, <2>1
    <3>2. Begins(b, a)
      BY <1>3, <1>6, <2>1, <2>4
    <3> HIDE DEF a, b, t
    <3>3. IsJoin(b \o t, b, t) /\ b \o t \in Seq(Nat)
      BY <3>1, JoinFacts
    <3> DEFINE j == b \o t
    <3> HIDE DEF j
    <3>4. Len(j) = Len(b) + Len(t) /\ \A i \in 1..Len(b) : j[i] = b[i]
      BY <3>3 DEF IsJoin, j
    <3>5. Len(a) <= Len(j)
      BY <3>1, <3>2, <3>4 DEF Begins
    <3>6. ASSUME NEW i \in 1..Len(a) PROVE j[i] = a[i]
      <4>1. i \in 1..Len(b) /\ b[i] = a[i]
        BY <3>1, <3>2 DEF Begins
      <4> QED BY <3>4, <4>1
    <3>7. Begins(j, a)
      BY <3>5, <3>6 DEF Begins
    <3> QED BY <2>1, <3>1, <3>7 DEF j, a
  <2> QED BY <1>3, <2>2, <2>3, <2>4
<1> HIDE DEF S
<1>7. \A m \in 0..N : m \in S
  BY <1>1, <1>5, <1>6, LoopInduction
<1>8. N \in S /\ N >= n
  BY <1>1, <1>3, <1>7
<1> QED BY <1>1, <1>8 DEF S, C

(* Where suffix n is among the suffixes.                                   *)
IsPlaced(suffixes, n) ==
    LET at == Len(Concats(suffixes)[n - 1])
    IN  /\ at \in Nat /\ Len(Concats(suffixes)[n]) = at + Len(suffixes[n])
        /\ at + Len(suffixes[n]) <= Len(Concat(suffixes))
        /\ GoesOn(Concat(suffixes), at, suffixes[n])

LEMMA SuffixPlaced ==
    ASSUME NEW suffixes \in Seq(Seq(Nat)), NEW n \in 1..Len(suffixes)
    PROVE  IsPlaced(suffixes, n)
<1> DEFINE N == Len(suffixes)
           C == Concats(suffixes)
           b == C[n - 1]
           t == suffixes[n]
           j == b \o t
           all == Concat(suffixes)
<1>1. /\ C \in [0..N -> Seq(Nat)] /\ N \in Nat /\ n - 1 \in 0..N /\ n \in 0..N
      /\ C[n] = C[n - 1] \o suffixes[n] /\ all \in Seq(Nat)
  <2>1. IsConcats(C, all, suffixes)
    BY NatConcats
  <2>2. n - 1 \in 0..N /\ n \in 0..N
    OBVIOUS
  <2> HIDE DEF C, all
  <2>3. /\ C \in [0..Len(suffixes) -> Seq(Nat)] /\ all \in Seq(Nat)
        /\ \A k \in 1..Len(suffixes) : C[k] = C[k - 1] \o suffixes[k]
    BY <2>1, Zenon DEF IsConcats
  <2>5. n \in 1..Len(suffixes) /\ N \in Nat
    OBVIOUS
  <2>4. C[n] = C[n - 1] \o suffixes[n]
    BY <2>3, <2>5, Zenon
  <2> QED BY <2>2, <2>3, <2>4, <2>5, Zenon
<1>2. b \in Seq(Nat) /\ t \in Seq(Nat) /\ C[n] = j
  <2> HIDE DEF C
  <2>0. C \in [0..N -> Seq(Nat)] /\ n - 1 \in 0..N
    BY <1>1
  <2>3. t \in Seq(Nat)
    OBVIOUS
  <2>4. b \in Seq(Nat)
    BY <2>0
  <2>1. b \in Seq(Nat) /\ t \in Seq(Nat)
    BY <2>3, <2>4
  <2> QED BY <1>1, <2>1, Zenon
<1>3. Begins(all, C[n])
  BY <1>1, ConcatBegins
<1> HIDE DEF C, b, t, all
<1>4. j \in Seq(Nat) /\ IsJoin(j, b, t)
  BY <1>2, JoinFacts
<1> HIDE DEF j
<1>5. /\ Len(j) = Len(b) + Len(t) /\ Len(b) \in Nat /\ Len(t) \in Nat /\ Len(j) <= Len(all)
      /\ \A i \in 1..Len(t) : j[Len(b) + i] = t[i]
      /\ \A i \in 1..Len(j) : all[i] = j[i]
  BY <1>2, <1>3, <1>4 DEF IsJoin, Begins
<1>6. ASSUME NEW i \in 1..Len(t) PROVE all[Len(b) + i] = t[i]
  <2>1. Len(b) + i \in 1..Len(j)
    <3> DEFINE x == Len(b)
               y == Len(t)
    <3>1. x \in Nat /\ y \in Nat /\ i \in 1..y /\ Len(j) = x + y
      BY <1>5
    <3> HIDE DEF x, y
    <3>2. x + i \in 1..Len(j)
      BY <3>1
    <3> QED BY <3>2 DEF x
  <2> QED BY <1>5, <2>1
<1>7. GoesOn(all, Len(b), t)
  BY <1>6 DEF GoesOn
<1> QED BY <1>2, <1>5, <1>7 DEF IsPlaced, C, b, t, all

LEMMA SumGrows ==
    ASSUME NEW s \in Seq(Nat), NEW n \in 0..Len(s)
    PROVE  Sums(s)[n] <= Sum(s)
<1> DEFINE N == Len(s)
           g == Sums(s)
           S == {m \in 0..N : m >= n => g[n] <= g[m]}
<1>1. /\ N \in Nat /\ g \in [0..N -> Nat] /\ Sum(s) = g[N]
      /\ \A k \in 1..N : g[k] = g[k - 1] + s[k]
  BY SumFacts
<1>2. \A k \in 1..N : s[k] \in Nat
  OBVIOUS
<1>3. n \in 0..N /\ n \in Nat
  OBVIOUS
<1> HIDE DEF g, N
<1>4. 0 \in S
  <2>1. g[n] \in Nat
    BY <1>1, <1>3
  <2>2. 0 >= n => n = 0
    BY <1>3
  <2> QED BY <1>1, <2>1, <2>2
<1>5. ASSUME NEW m \in 1..N, m - 1 \in S PROVE m \in S
  <2>1. m \in 0..N /\ m - 1 \in 0..N /\ g[m] \in Nat /\ g[m - 1] \in Nat /\ g[n] \in Nat /\ s[m] \in Nat
    BY <1>1, <1>2, <1>3
  <2>2. m >= n => m = n \/ m - 1 >= n
    BY <1>3
  <2>3. g[m] >= g[m - 1]
    BY <1>1, <2>1
  <2> QED BY <1>5, <2>1, <2>2, <2>3
<1> HIDE DEF S
<1>6. \A m \in 0..N : m \in S
  BY <1>1, <1>4, <1>5, LoopInduction
<1>7. N \in S /\ N >= n
  BY <1>1, <1>3, <1>6
<1> QED BY <1>1, <1>7 DEF S, g

(* The elements that may be copied with vectors have a vector of suffixes  *)
(* behind them.                                                            *)
LEMMA WildcopiesAreSafe ==
    ASSUME NEW suffixes \in Seq(Seq(Nat))
    PROVE  /\ SafeWildcopies(suffixes) \in 0..Len(suffixes)
           /\ \A n \in 1..SafeWildcopies(suffixes) :
                 Len(Concats(suffixes)[n]) + Vector <= Len(Concat(suffixes))
<1> DEFINE N == Len(suffixes)
           C == Concats(suffixes)
           all == Concat(suffixes)
           T == {0} \cup {n \in 1..N : Len(all) - Len(C[n]) >= Vector}
           w == Max(T)
<1>1. /\ C \in [0..N -> Seq(Nat)] /\ N \in Nat /\ all \in Seq(Nat)
  <2>1. IsConcats(C, all, suffixes)
    BY NatConcats
  <2> HIDE DEF C, all
  <2> QED BY <2>1 DEF IsConcats
<1>2. SafeWildcopies(suffixes) = w
  BY DEF SafeWildcopies
<1>3. T \in SUBSET Nat /\ T # {} /\ \A n \in T : n <= N
  BY <1>1
<1>4. w \in T
  <2> HIDE DEF T, N
  <2> QED BY <1>1, <1>3, GreatestOf
<1> HIDE DEF w
<1>5. w \in 0..N
  BY <1>1, <1>4
<1>6. ASSUME NEW n \in 1..w PROVE Len(C[n]) + Vector <= Len(all)
  <2>1. w \in 1..N /\ n \in 0..N /\ w \in 0..N
    BY <1>1, <1>5
  <2>2. Len(all) - Len(C[w]) >= Vector
    BY <1>4, <2>1
  <2>3. Len(C[n]) <= Len(C[w])
    <3> DEFINE S == {m \in 0..N : m >= n => Len(C[n]) <= Len(C[m])}
    <3>0. n \in 1..N /\ n \in Nat
      BY <1>1, <2>1
    <3>1. \A k \in 1..N : Len(C[k]) >= Len(C[k - 1])
      <4> TAKE k \in 1..N
      <4>1. IsPlaced(suffixes, k)
        BY SuffixPlaced
      <4>2. Len(C[k - 1]) \in Nat /\ Len(C[k]) = Len(C[k - 1]) + Len(suffixes[k]) /\ Len(suffixes[k]) \in Nat
        <5>1. Len(suffixes[k]) \in Nat
          OBVIOUS
        <5> QED BY <4>1, <5>1 DEF IsPlaced
      <4> DEFINE x == Len(C[k - 1])
                 y == Len(C[k])
                 z == Len(suffixes[k])
      <4>3. x \in Nat /\ y = x + z /\ z \in Nat
        BY <4>2
      <4> HIDE DEF x, y, z
      <4>4. y >= x
        BY <4>3
      <4> QED BY <4>4 DEF x, y
    <3>2. \A k \in 0..N : Len(C[k]) \in Nat
      BY <1>1
    <3> HIDE DEF C, N
    <3>3. 0 \in S
      BY <1>1, <3>0
    <3>4. ASSUME NEW m \in 1..N, m - 1 \in S PROVE m \in S
      <4>1. m \in 0..N /\ m - 1 \in 0..N
        BY <1>1
      <4>2. Len(C[m]) \in Nat /\ Len(C[m - 1]) \in Nat /\ Len(C[n]) \in Nat /\ Len(C[m]) >= Len(C[m - 1])
        BY <2>1, <3>1, <3>2, <4>1
      <4>3. m >= n => m = n \/ m - 1 >= n
        BY <3>0
      <4> QED BY <3>4, <4>1, <4>2, <4>3
    <3> HIDE DEF S
    <3>5. \A m \in 0..N : m \in S
      BY <1>1, <3>3, <3>4, LoopInduction
    <3>6. w \in S /\ w >= n
      BY <2>1, <3>5
    <3> QED BY <3>6 DEF S
  <2>4. Len(C[n]) \in Nat /\ Len(C[w]) \in Nat /\ Len(all) \in Nat /\ Vector \in Nat
    BY <1>1, <2>1, StringAssumption
  <2> QED BY <2>2, <2>3, <2>4
<1> QED BY <1>2, <1>5, <1>6

(* Whatever the streams, vectors stay inside the buffers.                  *)
PrefixSound(s, suffixes, sizes) ==
    /\ s \in PrefixStates
    /\ s.low >= 0 /\ s.high <= Len(Concat(suffixes))
    /\ s.top <= Len(Concat(suffixes)) + Sum(sizes)

(* Without an error so far: what n elements leave behind; wild of them     *)
(* may be copied with vectors.                                             *)
PrefixGood(s, n, suffixes, sizes, wild) ==
    s.ok => /\ s.field \in Seq(Nat) /\ s.out \in Seq(Seq(Nat)) /\ Len(s.out) = n
            /\ s.consumed = Len(Concats(suffixes)[n])
            /\ s.produced = s.consumed + Sums(sizes)[n]
            /\ Len(s.field) <= s.consumed
            /\ n <= wild => VecHolds(s.vec, s.field)

(* wild elements may be copied with vectors.                               *)
IsWild(wild, suffixes) ==
    /\ wild \in 0..Len(suffixes)
    /\ \A k \in 1..wild : Len(Concats(suffixes)[k]) + Vector <= Len(Concat(suffixes))

(* The element can be decoded in the state.                                *)
LEMMA PrefixIsReady ==
    ASSUME NEW suffixes \in Seq(Seq(Nat)), NEW sizes \in Seq(Nat), Len(sizes) = Len(suffixes),
           NEW n \in 1..Len(suffixes), NEW wild, IsWild(wild, suffixes), NEW s,
           PrefixGood(s, n - 1, suffixes, sizes, wild), s.ok
    PROVE  PrefixReady(s, suffixes[n], Concat(suffixes), n <= wild)
<1>1. IsPlaced(suffixes, n)
  BY SuffixPlaced
<1>2. /\ s.field \in Seq(Nat) /\ s.consumed = Len(Concats(suffixes)[n - 1])
      /\ Len(s.field) <= s.consumed
      /\ n - 1 <= wild => VecHolds(s.vec, s.field)
  BY DEF PrefixGood
<1>3. n <= wild => n - 1 <= wild
  BY DEF IsWild
<1>4. /\ GoesOn(Concat(suffixes), s.consumed, suffixes[n])
      /\ s.consumed + Len(suffixes[n]) <= Len(Concat(suffixes))
  BY <1>1, <1>2 DEF IsPlaced
<1> QED BY <1>2, <1>3, <1>4 DEF PrefixReady

(* One more element: its loads and stores stay inside.                     *)
LEMMA PrefixTurn ==
    ASSUME NEW suffixes \in Seq(Seq(Nat)), NEW sizes \in Seq(Nat), Len(sizes) = Len(suffixes),
           NEW n \in 1..Len(suffixes), NEW wild, IsWild(wild, suffixes), NEW s,
           PrefixSound(s, suffixes, sizes), PrefixGood(s, n - 1, suffixes, sizes, wild),
           NEW r, r = DecodePrefixElement(s, sizes[n], suffixes[n], Concat(suffixes), n <= wild)
    PROVE  PrefixSound(r, suffixes, sizes) /\ PrefixGood(r, n, suffixes, sizes, wild)
<1> DEFINE match == sizes[n]
           suffix == suffixes[n]
           all == Concat(suffixes)
           vectors == n <= wild
<1>1. /\ match \in Nat /\ suffix \in Seq(Nat) /\ vectors \in BOOLEAN /\ s \in PrefixStates
      /\ Len(suffix) \in Nat
  BY DEF PrefixSound
<1>2. all \in Seq(Nat) /\ Len(all) \in Nat
  <2>1. IsConcats(Concats(suffixes), all, suffixes)
    BY NatConcats
  <2>2. all \in Seq(Nat)
    BY <2>1 DEF IsConcats
  <2> QED BY <2>2
<1>3. s.ok => PrefixReady(s, suffix, all, vectors)
  BY PrefixIsReady
<1>4. r = DecodePrefixElement(s, match, suffix, all, vectors)
  OBVIOUS
<1>5. IsPlaced(suffixes, n)
  BY SuffixPlaced
<1>6. /\ Sums(sizes)[n] = Sums(sizes)[n - 1] + match /\ Sums(sizes)[n - 1] \in Nat
      /\ Sums(sizes)[n] <= Sum(sizes) /\ Sums(sizes)[n - 1] <= Sum(sizes) /\ Sum(sizes) \in Nat
      /\ Sums(sizes)[n] \in Nat
  <2>1. n \in 1..Len(sizes) /\ n \in 0..Len(sizes) /\ n - 1 \in 0..Len(sizes)
    OBVIOUS
  <2>2. Sums(sizes)[n] <= Sum(sizes) /\ Sums(sizes)[n - 1] <= Sum(sizes)
    BY <2>1, SumGrows
  <2>3. /\ Sums(sizes) \in [0..Len(sizes) -> Nat]
        /\ Sums(sizes)[n] = Sums(sizes)[n - 1] + sizes[n] /\ Sum(sizes) \in Nat
    BY <2>1, SumFacts
  <2> QED BY <2>1, <2>2, <2>3
<1>7. vectors => Len(Concats(suffixes)[n]) + Vector <= Len(all)
  <2>1. vectors => n \in 1..wild
    BY DEF IsWild
  <2> QED BY <2>1 DEF IsWild
<1> HIDE DEF match, suffix, all, vectors
<1>8. IsStopped(r, s, match)
  BY <1>1, <1>2, <1>4, PrefixElementStops
<1>9. CASE ~s.ok
  <2>1. r = s
    BY <1>8, <1>9 DEF IsStopped
  <2> QED BY <1>9, <2>1 DEF PrefixGood
<1>10. CASE s.ok /\ match > Len(s.field)
  <2>1. r = [s EXCEPT !.ok = FALSE]
    BY <1>8, <1>10 DEF IsStopped
  <2>2. ~r.ok /\ r \in PrefixStates /\ r.low = s.low /\ r.high = s.high /\ r.top = s.top
    BY <1>1, <2>1 DEF PrefixStates
  <2> QED BY <2>2 DEF PrefixGood, PrefixSound
<1>11. CASE s.ok /\ ~(match > Len(s.field))
  <2>1. PrefixStepped(r, s, match, suffix, vectors)
    BY <1>1, <1>2, <1>3, <1>4, <1>11, PrefixStep
  <2>2. /\ r \in PrefixStates /\ r.out = Append(s.out, r.field)
        /\ r.consumed = s.consumed + Len(suffix) /\ r.produced = s.produced + match + Len(suffix)
        /\ IsField(r.field, s.field, match, suffix)
        /\ vectors => VecHolds(r.vec, r.field)
        /\ Touched(r, s, match, suffix, vectors)
    BY <2>1 DEF PrefixStepped, IsElement
  <2>3. /\ s.field \in Seq(Nat) /\ s.out \in Seq(Seq(Nat)) /\ Len(s.out) = n - 1
        /\ s.consumed = Len(Concats(suffixes)[n - 1])
        /\ s.produced = s.consumed + Sums(sizes)[n - 1]
        /\ Len(s.field) <= s.consumed
    BY <1>11 DEF PrefixGood
  <2>4. /\ Len(Concats(suffixes)[n]) = s.consumed + Len(suffix) /\ s.consumed \in Nat
        /\ Len(Concats(suffixes)[n]) <= Len(all)
    BY <1>5, <2>3 DEF IsPlaced, suffix, all
  <2>5. r.field \in Seq(Nat) /\ Len(r.field) = match + Len(suffix)
    <3>1. match <= Len(s.field)
      BY <1>1, <1>11, <2>3
    <3>2. r.field \in Seq(Nat)
      BY <1>1, <2>2, <2>3, <3>1, FieldNat
    <3> QED BY <2>2, <3>2 DEF IsField
  <2>6. r.out \in Seq(Seq(Nat)) /\ Len(r.out) = n
    <3> DEFINE o == s.out
               v == r.field
    <3>1. o \in Seq(Seq(Nat)) /\ v \in Seq(Nat)
      BY <2>3, <2>5
    <3>4. Len(o) = n - 1 /\ r.out = Append(o, v)
      BY <2>2, <2>3
    <3> HIDE DEF o, v
    <3>2. Append(o, v) \in Seq(Seq(Nat)) /\ Len(Append(o, v)) = Len(o) + 1
      BY <3>1, AppendFacts
    <3> DEFINE y == Append(o, v)
    <3> HIDE DEF y
    <3>3. y \in Seq(Seq(Nat)) /\ Len(y) = n
      BY <3>2, <3>4 DEF y
    <3>5. r.out = y
      BY <3>4 DEF y
    <3> QED BY <3>3, <3>5
  <2>7. PrefixGood(r, n, suffixes, sizes, wild)
    <3>1. r.consumed = Len(Concats(suffixes)[n])
      BY <2>2, <2>4
    <3>2. r.produced = r.consumed + Sums(sizes)[n] /\ Len(r.field) <= r.consumed
      <4> DEFINE a == s.consumed
                 b == Sums(sizes)[n - 1]
                 c == Len(suffix)
                 d == Len(s.field)
      <4>1. /\ a \in Nat /\ b \in Nat /\ c \in Nat /\ match \in Nat /\ d \in Nat /\ d <= a /\ match <= d
            /\ r.consumed = a + c /\ r.produced = (a + b) + match + c
            /\ Sums(sizes)[n] = b + match /\ Len(r.field) = match + c
        <5>1. a \in Nat /\ b \in Nat /\ c \in Nat /\ match \in Nat /\ d \in Nat /\ d <= a
          BY <1>1, <1>6, <2>3, <2>4
        <5>2. match <= d
          BY <1>1, <1>11, <5>1
        <5>3. r.consumed = a + c /\ r.produced = (a + b) + match + c
          BY <2>2, <2>3
        <5>4. Sums(sizes)[n] = b + match /\ Len(r.field) = match + c
          BY <1>6, <2>5
        <5> QED BY <5>1, <5>2, <5>3, <5>4
      <4> HIDE DEF a, b, c, d
      <4> QED BY <4>1
    <3> QED BY <2>2, <2>5, <2>6, <3>1, <3>2 DEF PrefixGood, vectors
  <2>8. PrefixSound(r, suffixes, sizes)
    <3> DEFINE a == s.consumed
               b == Sums(sizes)[n - 1]
               c == Len(suffix)
               d == Len(s.field)
               A == Len(all)
               B == Sum(sizes)
    <3>1. /\ a \in Nat /\ b \in Nat /\ c \in Nat /\ match \in Nat /\ d \in Nat /\ d <= a /\ match <= d
          /\ A \in Nat /\ B \in Nat /\ b + match <= B /\ a + c <= A /\ Vector \in Nat
          /\ vectors => a + c + Vector <= A
      <4>1. vectors => a + c + Vector <= A
        BY <1>7, <2>4
      <4>2. a \in Nat /\ b \in Nat /\ c \in Nat /\ match \in Nat /\ d \in Nat /\ d <= a
        BY <1>1, <1>6, <2>3, <2>4
      <4>3. match <= d
        BY <1>1, <1>11, <4>2
      <4>4. A \in Nat /\ B \in Nat /\ b + match <= B /\ Vector \in Nat
        BY <1>2, <1>6, StringAssumption
      <4>5. a + c <= A
        BY <2>4
      <4> QED BY <4>1, <4>2, <4>3, <4>4, <4>5
    <3>2. /\ s.low \in Int /\ s.high \in Int /\ s.top \in Int
          /\ s.low >= 0 /\ s.high <= A /\ s.top <= A + B
      BY <1>1 DEF PrefixSound, PrefixStates, all
    <3>3. /\ r.low = s.low \/ r.low = a - match
          /\ \/ r.high = s.high
             \/ vectors /\ r.high \in {a - match + Vector, a + c + Vector}
          /\ \/ r.top = s.top
             \/ vectors /\ r.top \in {(a + b) + Vector, (a + b) + match + c + Vector}
      BY <2>2, <2>3 DEF Touched, Touches, Reaches
    <3> HIDE DEF a, b, c, d, A, B
    <3>4. r.low >= 0
      BY <3>1, <3>2, <3>3
    <3>5. r.high <= A
      BY <3>1, <3>2, <3>3
    <3>6. r.top <= A + B
      BY <3>1, <3>2, <3>3
    <3> QED BY <2>2, <3>4, <3>5, <3>6 DEF PrefixSound, A, B, all
  <2> QED BY <2>7, <2>8
<1> QED BY <1>9, <1>10, <1>11

LEMMA WildcopiesWild ==
    ASSUME NEW suffixes \in Seq(Seq(Nat)), NEW vectorised \in BOOLEAN
    PROVE  IsWild(Wildcopies(suffixes, vectorised), suffixes)
<1>1. CASE vectorised
  BY <1>1, WildcopiesAreSafe DEF IsWild, Wildcopies
<1>2. CASE ~vectorised
  <2>1. Wildcopies(suffixes, vectorised) = 0
    BY <1>2 DEF Wildcopies
  <2> QED BY <2>1 DEF IsWild
<1> QED BY <1>1, <1>2

(* So they do after every number of elements.                              *)
LEMMA PrefixRunKept ==
    ASSUME NEW suffixes \in Seq(Seq(Nat)), NEW sizes \in Seq(Nat), Len(sizes) = Len(suffixes),
           NEW vectorised \in BOOLEAN, NEW f, PrefixDecodeRun(f, suffixes, sizes, vectorised)
    PROVE  \A n \in 0..Len(suffixes) :
              /\ PrefixSound(f[n], suffixes, sizes)
              /\ PrefixGood(f[n], n, suffixes, sizes, Wildcopies(suffixes, vectorised))
<1> DEFINE N == Len(suffixes)
           w == Wildcopies(suffixes, vectorised)
           S == {n \in 0..N : PrefixSound(f[n], suffixes, sizes) /\ PrefixGood(f[n], n, suffixes, sizes, w)}
<1>1. N \in Nat /\ IsWild(w, suffixes)
  BY WildcopiesWild
<1>2. 0 \in S
  <2>1. 0 \in 0..N
    BY <1>1
  <2>2. /\ f[0] \in PrefixStates
        /\ f[0].out = <<>> /\ f[0].field = <<>> /\ f[0].consumed = 0 /\ f[0].produced = 0
        /\ f[0].low = 0 /\ f[0].high = 0 /\ f[0].top = 0
    <3>1. f[0] \in PrefixStates
      BY <2>1 DEF PrefixDecodeRun
    <3>2. f[0] = [ok |-> TRUE, out |-> <<>>, field |-> <<>>, vec |-> [i \in 1..Vector |-> 0],
                  consumed |-> 0, produced |-> 0, low |-> 0, high |-> 0, top |-> 0]
      BY Zenon DEF PrefixDecodeRun
    <3> QED BY <3>1, <3>2
  <2>3. Concats(suffixes)[0] = <<>> /\ Concat(suffixes) \in Seq(Nat)
    <3>1. IsConcats(Concats(suffixes), Concat(suffixes), suffixes)
      BY NatConcats
    <3> QED BY <3>1 DEF IsConcats
  <2>4. Sums(sizes)[0] = 0 /\ Sum(sizes) \in Nat
    BY SumFacts
  <2>5. Len(Concat(suffixes)) \in Nat
    BY <2>3
  <2>6. PrefixSound(f[0], suffixes, sizes)
    BY <2>2, <2>4, <2>5 DEF PrefixSound
  <2>7. PrefixGood(f[0], 0, suffixes, sizes, w)
    <3>1. f[0].field \in Seq(Nat) /\ f[0].out \in Seq(Seq(Nat)) /\ Len(f[0].out) = 0 /\ Len(f[0].field) = 0
      BY <2>2
    <3>2. Len(Concats(suffixes)[0]) = 0
      BY <2>3
    <3>3. VecHolds(f[0].vec, f[0].field)
      BY <3>1 DEF VecHolds
    <3> QED BY <2>2, <2>4, <3>1, <3>2, <3>3 DEF PrefixGood
  <2> QED BY <2>1, <2>6, <2>7
<1>3. ASSUME NEW n \in 1..N, n - 1 \in S PROVE n \in S
  <2>1. n \in 0..N
    BY <1>1
  <2>2. f[n] = DecodePrefixElement(f[n - 1], sizes[n], suffixes[n], Concat(suffixes), n <= w)
    BY DEF PrefixDecodeRun
  <2>3. PrefixSound(f[n - 1], suffixes, sizes) /\ PrefixGood(f[n - 1], n - 1, suffixes, sizes, w)
    BY <1>3
  <2> HIDE DEF w
  <2>4. PrefixSound(f[n], suffixes, sizes) /\ PrefixGood(f[n], n, suffixes, sizes, w)
    BY <1>1, <2>2, <2>3, PrefixTurn
  <2> QED BY <2>1, <2>4
<1> HIDE DEF S
<1>4. \A n \in 0..N : n \in S
  BY <1>1, <1>2, <1>3, LoopInduction
<1> QED BY <1>4 DEF S

(* Two builds decoded the same strings.                                    *)
PrefixSame(s, t) ==
    /\ s.ok <=> t.ok
    /\ s.ok => s.out = t.out /\ s.field = t.field

(* An error is never forgotten.                                            *)
LEMMA PrefixStays ==
    ASSUME NEW s \in PrefixStates, NEW r, NEW match, IsStopped(r, s, match),
           ~s.ok \/ match > Len(s.field)
    PROVE  ~r.ok
<1>1. CASE ~s.ok
  BY <1>1 DEF IsStopped
<1>2. CASE s.ok
  <2>1. r = [s EXCEPT !.ok = FALSE]
    BY <1>2 DEF IsStopped
  <2> QED BY <2>1 DEF PrefixStates
<1> QED BY <1>1, <1>2

(* The builds with and without vectors go on alike.                        *)
LEMMA PrefixLockstep ==
    ASSUME NEW s \in PrefixStates, NEW t \in PrefixStates, PrefixSame(s, t),
           NEW match \in Nat, NEW suffix \in Seq(Nat), NEW all \in Seq(Nat),
           NEW v \in BOOLEAN, NEW w \in BOOLEAN,
           s.ok => PrefixReady(s, suffix, all, v), t.ok => PrefixReady(t, suffix, all, w),
           NEW r, r = DecodePrefixElement(s, match, suffix, all, v),
           NEW q, q = DecodePrefixElement(t, match, suffix, all, w)
    PROVE  PrefixSame(r, q)
<1>1. IsStopped(r, s, match) /\ IsStopped(q, t, match)
  BY PrefixElementStops
<1>2. CASE ~s.ok \/ match > Len(s.field)
  <2>1. ~t.ok \/ match > Len(t.field)
    BY <1>2 DEF PrefixSame
  <2>2. ~r.ok
    BY <1>1, <1>2, PrefixStays
  <2>3. ~q.ok
    BY <1>1, <2>1, PrefixStays
  <2> QED BY <2>2, <2>3 DEF PrefixSame
<1>3. CASE s.ok /\ ~(match > Len(s.field))
  <2>1. t.ok /\ s.out = t.out /\ s.field = t.field
    BY <1>3 DEF PrefixSame
  <2>2. PrefixStepped(r, s, match, suffix, v)
    BY <1>3, PrefixStep
  <2>3. ~(match > Len(t.field))
    BY <1>3, <2>1
  <2>4. PrefixStepped(q, t, match, suffix, w)
    BY <2>1, <2>3, PrefixStep
  <2>5. /\ IsField(r.field, s.field, match, suffix) /\ IsField(q.field, s.field, match, suffix)
        /\ r.out = Append(s.out, r.field) /\ q.out = Append(s.out, q.field)
        /\ r.ok <=> match + Len(suffix) <= U32Max
        /\ q.ok <=> match + Len(suffix) <= U32Max
    BY <2>1, <2>2, <2>4 DEF PrefixStepped, IsElement
  <2>6. r.field = q.field
    BY <2>5, FieldUnique
  <2> QED BY <2>5, <2>6 DEF PrefixSame
<1> QED BY <1>2, <1>3

(* ZS_decodePrefix() with vectors and without.                             *)
PrefixBuildsAgree(suffixes, sizes) ==
    PrefixSame(ZS_decodePrefix(suffixes, sizes, TRUE), ZS_decodePrefix(suffixes, sizes, FALSE))

LEMMA PrefixBuilds ==
    ASSUME NEW suffixes \in Seq(Seq(Nat)), NEW sizes \in Seq(Nat), Len(sizes) = Len(suffixes)
    PROVE  PrefixBuildsAgree(suffixes, sizes)
<1> DEFINE N == Len(suffixes)
           all == Concat(suffixes)
           wt == Wildcopies(suffixes, TRUE)
           wf == Wildcopies(suffixes, FALSE)
<1>1. PICK f : PrefixDecodeRun(f, suffixes, sizes, TRUE)
  BY PrefixDecodeStates
<1>2. PICK g : PrefixDecodeRun(g, suffixes, sizes, FALSE)
  BY PrefixDecodeStates
<1>3. \A n \in 0..N : PrefixSound(f[n], suffixes, sizes) /\ PrefixGood(f[n], n, suffixes, sizes, wt)
  BY <1>1, PrefixRunKept
<1>4. \A n \in 0..N : PrefixSound(g[n], suffixes, sizes) /\ PrefixGood(g[n], n, suffixes, sizes, wf)
  BY <1>2, PrefixRunKept
<1>5. N \in Nat /\ all \in Seq(Nat)
  <2>1. IsConcats(Concats(suffixes), all, suffixes)
    BY NatConcats
  <2>2. all \in Seq(Nat)
    BY <2>1 DEF IsConcats
  <2> QED BY <2>2
<1>6. IsWild(wt, suffixes) /\ IsWild(wf, suffixes)
  BY WildcopiesWild
<1>7. \A n \in 1..N : f[n] = DecodePrefixElement(f[n - 1], sizes[n], suffixes[n], all, n <= wt)
  BY <1>1 DEF PrefixDecodeRun
<1>8. \A n \in 1..N : g[n] = DecodePrefixElement(g[n - 1], sizes[n], suffixes[n], all, n <= wf)
  BY <1>2 DEF PrefixDecodeRun
<1>9. f[0] = g[0]
  BY <1>1, <1>2, Zenon DEF PrefixDecodeRun
<1>10. ZS_decodePrefix(suffixes, sizes, TRUE) = f[N] /\ ZS_decodePrefix(suffixes, sizes, FALSE) = g[N]
  BY <1>1, <1>2, Zenon DEF PrefixDecodeRun
<1> DEFINE S == {n \in 0..N : PrefixSame(f[n], g[n])}
<1> HIDE DEF all, wt, wf
<1>11. 0 \in S
  <2>1. 0 \in 0..N
    BY <1>5
  <2> QED BY <1>9, <2>1 DEF PrefixSame
<1>12. ASSUME NEW n \in 1..N, n - 1 \in S PROVE n \in S
  <2> DEFINE s == f[n - 1]
             t == g[n - 1]
             match == sizes[n]
             suffix == suffixes[n]
             v == n <= wt
             w == n <= wf
  <2>1. n - 1 \in 0..N /\ n \in 0..N /\ match \in Nat /\ suffix \in Seq(Nat)
    BY <1>5
  <2>2. v \in BOOLEAN /\ w \in BOOLEAN
    OBVIOUS
  <2>3. /\ PrefixSound(s, suffixes, sizes) /\ PrefixGood(s, n - 1, suffixes, sizes, wt)
        /\ PrefixSound(t, suffixes, sizes) /\ PrefixGood(t, n - 1, suffixes, sizes, wf)
    BY <1>3, <1>4, <2>1
  <2>4. PrefixSame(s, t)
    BY <1>12
  <2>5. f[n] = DecodePrefixElement(s, match, suffix, all, v) /\ g[n] = DecodePrefixElement(t, match, suffix, all, w)
    BY <1>7, <1>8
  <2> HIDE DEF s, t
  <2>6. s.ok => PrefixReady(s, suffix, all, v)
    BY <1>6, <2>3, PrefixIsReady DEF all
  <2>7. t.ok => PrefixReady(t, suffix, all, w)
    BY <1>6, <2>3, PrefixIsReady DEF all
  <2>8. s \in PrefixStates /\ t \in PrefixStates
    BY <2>3 DEF PrefixSound
  <2> HIDE DEF match, suffix, v, w
  <2>9. PrefixSame(f[n], g[n])
    BY <1>5, <2>1, <2>2, <2>4, <2>5, <2>6, <2>7, <2>8, PrefixLockstep
  <2> QED BY <2>1, <2>9
<1> HIDE DEF S
<1>13. \A n \in 0..N : n \in S
  BY <1>5, <1>11, <1>12, LoopInduction
<1>14. N \in S
  BY <1>5, <1>13
<1> QED BY <1>10, <1>14 DEF S, PrefixBuildsAgree

(* What the loads and stores of a decoding touched.                        *)
PrefixInside(suffixes, sizes, kernel) ==
    /\ kernel.low >= 0 /\ kernel.high <= Len(Concat(suffixes))
    /\ kernel.top <= ZS_calcOriginalPrefixSize(suffixes, sizes)

LEMMA PrefixTouchesInside ==
    ASSUME NEW suffixes \in Seq(Seq(Nat)), NEW sizes \in Seq(Nat), Len(sizes) = Len(suffixes)
    PROVE  PrefixInside(suffixes, sizes, ZS_decodePrefix(suffixes, sizes, TRUE))
<1>1. PICK f : PrefixDecodeRun(f, suffixes, sizes, TRUE)
  BY PrefixDecodeStates
<1>2. Len(suffixes) \in 0..Len(suffixes)
  OBVIOUS
<1>3. PrefixSound(f[Len(suffixes)], suffixes, sizes)
  BY <1>1, <1>2, PrefixRunKept
<1>4. ZS_decodePrefix(suffixes, sizes, TRUE) = f[Len(suffixes)]
  BY <1>1, Zenon DEF PrefixDecodeRun
<1> QED BY <1>3, <1>4 DEF PrefixSound, PrefixInside, ZS_calcOriginalPrefixSize

(* Both builds make the same of the same streams.                          *)
LEMMA PrefixDecodersAgree ==
    ASSUME NEW streams, streams[1].elts \in Seq(Seq(Nat)), streams[2].elts \in Seq(Nat)
    PROVE  DI_prefix(streams, TRUE) = DI_prefix(streams, FALSE)
<1> DEFINE suffixes == streams[1].elts
           sizes == streams[2].elts
           kt == ZS_decodePrefix(suffixes, sizes, TRUE)
           kf == ZS_decodePrefix(suffixes, sizes, FALSE)
           refused == Len(sizes) # Len(suffixes) \/ streams[2].width # 4
<1>1. /\ DI_prefix(streams, TRUE) = IF refused \/ ~kt.ok THEN Corrupt ELSE Made(1, kt.out, Len(suffixes))
      /\ DI_prefix(streams, FALSE) = IF refused \/ ~kf.ok THEN Corrupt ELSE Made(1, kf.out, Len(suffixes))
  BY DEF DI_prefix
<1>2. CASE refused
  <2> HIDE DEF kt, kf
  <2> QED BY <1>1, <1>2
<1>3. CASE ~refused
  <2>1. PrefixBuildsAgree(suffixes, sizes)
    BY <1>3, PrefixBuilds
  <2>2. PrefixSame(kt, kf)
    BY <2>1 DEF PrefixBuildsAgree
  <2> HIDE DEF kt, kf, refused
  <2>3. CASE ~kt.ok
    <3>1. ~kf.ok
      BY <2>2, <2>3 DEF PrefixSame
    <3> QED BY <1>1, <2>3, <3>1
  <2>4. CASE kt.ok
    <3>1. kf.ok /\ kt.out = kf.out
      BY <2>2, <2>4 DEF PrefixSame
    <3>2. /\ DI_prefix(streams, TRUE) = Made(1, kt.out, Len(suffixes))
          /\ DI_prefix(streams, FALSE) = Made(1, kf.out, Len(suffixes))
      BY <1>1, <1>3, <2>4, <3>1
    <3> QED BY <3>1, <3>2
  <2> QED BY <2>3, <2>4
<1> QED BY <1>2, <1>3

(* An accepted output of prefix: as many strings as there were suffixes.   *)
StringsWritten(r) == r.ok => r.elts \in Seq(Seq(Nat)) /\ Len(r.elts) = r.room

(* prefix: every accepted string is written in full.                       *)
LEMMA PrefixAccepted ==
    ASSUME NEW streams, streams[1].elts \in Seq(Seq(Nat)), streams[2].elts \in Seq(Nat)
    PROVE  StringsWritten(DI_prefix(streams, TRUE))
<1> DEFINE suffixes == streams[1].elts
           sizes == streams[2].elts
           kt == ZS_decodePrefix(suffixes, sizes, TRUE)
           refused == Len(sizes) # Len(suffixes) \/ streams[2].width # 4
<1>1. DI_prefix(streams, TRUE) = IF refused \/ ~kt.ok THEN Corrupt ELSE Made(1, kt.out, Len(suffixes))
  BY DEF DI_prefix
<1>2. CASE refused \/ ~kt.ok
  <2> HIDE DEF kt, refused
  <2>1. DI_prefix(streams, TRUE) = Corrupt
    BY <1>1, <1>2
  <2>2. ~Corrupt.ok
    BY DEF Corrupt
  <2> QED BY <2>1, <2>2 DEF StringsWritten
<1>3. CASE ~(refused \/ ~kt.ok)
  <2>1. PICK f : PrefixDecodeRun(f, suffixes, sizes, TRUE)
    BY <1>3, PrefixDecodeStates
  <2>2. Len(suffixes) \in 0..Len(suffixes)
    OBVIOUS
  <2>3. PrefixGood(f[Len(suffixes)], Len(suffixes), suffixes, sizes, Wildcopies(suffixes, TRUE))
    BY <1>3, <2>1, <2>2, PrefixRunKept
  <2>4. kt = f[Len(suffixes)]
    BY <2>1, Zenon DEF PrefixDecodeRun
  <2> HIDE DEF kt
  <2>5. kt.out \in Seq(Seq(Nat)) /\ Len(kt.out) = Len(suffixes)
    BY <1>3, <2>3, <2>4 DEF PrefixGood
  <2>6. DI_prefix(streams, TRUE) = Made(1, kt.out, Len(suffixes))
    <3> HIDE DEF refused
    <3> QED BY <1>1, <1>3
  <2> DEFINE o == kt.out
             n == Len(suffixes)
  <2> HIDE DEF o, n
  <2>7. o \in Seq(Seq(Nat)) /\ Len(o) = n /\ DI_prefix(streams, TRUE) = Made(1, o, n)
    BY <2>5, <2>6 DEF o, n
  <2>8. Made(1, o, n).elts = o /\ Made(1, o, n).room = n
    BY DEF Made
  <2>9. StringsWritten(Made(1, o, n))
    BY <2>7, <2>8 DEF StringsWritten
  <2> QED BY <2>7, <2>9
<1> QED BY <1>2, <1>3

(* The encoder's matches and suffixes.                                     *)
LEMMA PrefixMatches ==
    ASSUME NEW prev \in Seq(Nat), NEW curr \in Seq(Nat)
    PROVE  /\ ZS_getPrefixMatchSize(prev, curr) \in Nat
           /\ ZS_getPrefixMatchSize(prev, curr) <= Len(prev)
           /\ ZS_getPrefixMatchSize(prev, curr) <= Len(curr)
           /\ \A k \in 1..ZS_getPrefixMatchSize(prev, curr) : curr[k] = prev[k]
<1> DEFINE p == Len(prev)
           c == Len(curr)
           m == Min({p, c})
           T == {n \in 0..m : SubSeq(prev, 1, n) = SubSeq(curr, 1, n)}
           x == Max(T)
<1>1. p \in Nat /\ c \in Nat
  OBVIOUS
<1>2. m \in Nat /\ m <= p /\ m <= c
  <2> HIDE DEF p, c
  <2> QED BY <1>1, LeastOfTwo
<1>3. ZS_getPrefixMatchSize(prev, curr) = x
  BY DEF ZS_getPrefixMatchSize
<1> HIDE DEF m
<1>4. 0 \in T
  <2>1. SubSeq(prev, 1, 0) = <<>> /\ SubSeq(curr, 1, 0) = <<>>
    OBVIOUS
  <2> QED BY <1>2, <2>1
<1>5. T \in SUBSET Nat /\ T # {} /\ \A n \in T : n <= m
  <2>1. T \in SUBSET (0..m)
    OBVIOUS
  <2> HIDE DEF T
  <2> QED BY <1>2, <1>4, <2>1
<1>6. x \in T
  <2> HIDE DEF T
  <2> QED BY <1>2, <1>5, GreatestOf
<1> HIDE DEF x
<1>7. x \in Nat /\ x <= p /\ x <= c /\ SubSeq(prev, 1, x) = SubSeq(curr, 1, x)
  BY <1>1, <1>2, <1>6
<1>8. ASSUME NEW k \in 1..x PROVE curr[k] = prev[k]
  <2>1. SubSeq(prev, 1, x)[k] = prev[k]
    BY <1>7
  <2>2. SubSeq(curr, 1, x)[k] = curr[k]
    BY <1>7
  <2> QED BY <1>7, <2>1, <2>2
<1> QED BY <1>3, <1>7, <1>8

(* The rest of a string.                                                   *)
IsRest(t, s, m) == /\ t \in Seq(Nat) /\ Len(t) = Len(s) - m
                   /\ \A j \in 1..Len(t) : t[j] = s[m + j]

LEMMA RestFacts ==
    ASSUME NEW s \in Seq(Nat), NEW m \in Nat, m <= Len(s)
    PROVE  IsRest(SubSeq(s, m + 1, Len(s)), s, m)
<1> DEFINE t == SubSeq(s, m + 1, Len(s))
<1>1. t \in Seq(Nat)
  OBVIOUS
<1>2. Len(t) = Len(s) - m
  OBVIOUS
<1>3. ASSUME NEW j \in 1..Len(t) PROVE t[j] = s[m + j]
  <2>1. j \in 1..Len(s) - m
    BY <1>2
  <2>2. t[j] = s[(m + 1) + j - 1]
    BY <2>1
  <2>3. (m + 1) + j - 1 = m + j
    OBVIOUS
  <2> QED BY <2>2, <2>3
<1> QED BY <1>1, <1>2, <1>3 DEF IsRest

(* A match and a suffix for every string of the input.                     *)
IsPrefixCoded(suffixes, sizes, src) ==
    /\ suffixes \in Seq(Seq(Nat)) /\ sizes \in Seq(Nat)
    /\ Len(suffixes) = Len(src) /\ Len(sizes) = Len(src)
    /\ \A n \in 1..Len(src) :
          /\ IsRest(suffixes[n], src[n], sizes[n]) /\ sizes[n] <= Len(src[n])
          /\ n = 1 => sizes[n] = 0
          /\ n > 1 => /\ sizes[n] <= Len(src[n - 1])
                      /\ \A k \in 1..sizes[n] : src[n][k] = src[n - 1][k]

LEMMA PrefixCodes ==
    ASSUME NEW src \in Seq(Seq(Nat))
    PROVE  \E suffixes, sizes :
              /\ IsPrefixCoded(suffixes, sizes, src)
              /\ EI_prefix(src) = Sent(<<>>, <<Stream(1, suffixes), Stream(4, sizes)>>)
<1> DEFINE N == Len(src)
           sizes == [i \in DOMAIN src |-> IF i = 1 THEN 0 ELSE ZS_getPrefixMatchSize(src[i - 1], src[i])]
           suffixes == [i \in DOMAIN src |-> SubSeq(src[i], sizes[i] + 1, Len(src[i]))]
<1>1. EI_prefix(src) = Sent(<<>>, <<Stream(1, suffixes), Stream(4, sizes)>>)
  BY DEF EI_prefix
<1>2. N \in Nat /\ DOMAIN src = 1..N /\ \A i \in 1..N : src[i] \in Seq(Nat)
  OBVIOUS
<1>3. \A i \in 1..N : sizes[i] = IF i = 1 THEN 0 ELSE ZS_getPrefixMatchSize(src[i - 1], src[i])
  OBVIOUS
<1>4. \A i \in 1..N : suffixes[i] = SubSeq(src[i], sizes[i] + 1, Len(src[i]))
  <2> HIDE DEF sizes
  <2> QED BY <1>2, Zenon
<1>5. sizes = [i \in 1..N |-> sizes[i]]
  OBVIOUS
<1>6. suffixes = [i \in 1..N |-> suffixes[i]]
  <2> HIDE DEF sizes
  <2> QED BY <1>2, Zenon
<1> HIDE DEF sizes, suffixes
<1>7. ASSUME NEW n \in 1..N
      PROVE  /\ sizes[n] \in Nat /\ sizes[n] <= Len(src[n])
             /\ n = 1 => sizes[n] = 0
             /\ n > 1 => /\ sizes[n] <= Len(src[n - 1])
                         /\ \A k \in 1..sizes[n] : src[n][k] = src[n - 1][k]
  <2>1. CASE n = 1
    <3>1. sizes[n] = 0 /\ Len(src[n]) \in Nat
      BY <1>2, <1>3, <2>1
    <3> QED BY <2>1, <3>1
  <2>2. CASE n > 1
    <3> DEFINE p == src[n - 1]
               c == src[n]
    <3>1. p \in Seq(Nat) /\ c \in Seq(Nat) /\ sizes[n] = ZS_getPrefixMatchSize(p, c)
      BY <1>2, <1>3, <2>2
    <3> HIDE DEF p, c
    <3>2. /\ sizes[n] \in Nat /\ sizes[n] <= Len(p) /\ sizes[n] <= Len(c)
          /\ \A k \in 1..sizes[n] : c[k] = p[k]
      BY <3>1, PrefixMatches
    <3> QED BY <2>2, <3>2 DEF p, c
  <2> QED BY <1>2, <2>1, <2>2
<1>8. ASSUME NEW n \in 1..N PROVE IsRest(suffixes[n], src[n], sizes[n])
  <2>1. src[n] \in Seq(Nat) /\ sizes[n] \in Nat /\ sizes[n] <= Len(src[n])
    BY <1>2, <1>7
  <2>2. suffixes[n] = SubSeq(src[n], sizes[n] + 1, Len(src[n]))
    BY <1>4
  <2> DEFINE s == src[n]
             m == sizes[n]
  <2> HIDE DEF s, m
  <2>3. s \in Seq(Nat) /\ m \in Nat /\ m <= Len(s) /\ suffixes[n] = SubSeq(s, m + 1, Len(s))
    BY <2>1, <2>2 DEF s, m
  <2>4. IsRest(suffixes[n], s, m)
    BY <2>3, RestFacts
  <2> QED BY <2>4 DEF s, m
<1>9. sizes \in [1..N -> Nat]
  BY <1>5, <1>7
<1>10. suffixes \in [1..N -> Seq(Nat)]
  <2>1. \A n \in 1..N : suffixes[n] \in Seq(Nat)
    BY <1>8 DEF IsRest
  <2> QED BY <1>6, <2>1
<1>11. sizes \in Seq(Nat) /\ Len(sizes) = N
  <2> HIDE DEF N
  <2> QED BY <1>2, <1>9, FunctionIsSeq
<1>12. suffixes \in Seq(Seq(Nat)) /\ Len(suffixes) = N
  <2> HIDE DEF N
  <2> QED BY <1>2, <1>10, FunctionIsSeq
<1>13. IsPrefixCoded(suffixes, sizes, src)
  BY <1>7, <1>8, <1>11, <1>12 DEF IsPrefixCoded
<1> QED BY <1>1, <1>13

(* The first n strings are decoded.                                        *)
PrefixTracks(s, n, src) ==
    /\ s.ok /\ Matches(s.out, src, n)
    /\ s.field = IF n = 0 THEN <<>> ELSE src[n]

(* One more match and suffix decode to one more string.                    *)
LEMMA PrefixTrackStep ==
    ASSUME NEW src \in Seq(Seq(Nat)), \A i \in 1..Len(src) : Len(src[i]) <= U32Max,
           NEW suffixes, NEW sizes, IsPrefixCoded(suffixes, sizes, src), NEW n \in 1..Len(src),
           NEW wild, IsWild(wild, suffixes), NEW s, PrefixSound(s, suffixes, sizes),
           PrefixGood(s, n - 1, suffixes, sizes, wild), PrefixTracks(s, n - 1, src),
           NEW r, r = DecodePrefixElement(s, sizes[n], suffixes[n], Concat(suffixes), n <= wild)
    PROVE  PrefixTracks(r, n, src)
<1> DEFINE match == sizes[n]
           suffix == suffixes[n]
           all == Concat(suffixes)
           vectors == n <= wild
           curr == src[n]
<1>1. /\ suffixes \in Seq(Seq(Nat)) /\ sizes \in Seq(Nat) /\ Len(suffixes) = Len(src) /\ Len(sizes) = Len(src)
      /\ IsRest(suffix, curr, match) /\ match <= Len(curr)
      /\ n = 1 => match = 0
      /\ n > 1 => match <= Len(src[n - 1]) /\ \A k \in 1..match : curr[k] = src[n - 1][k]
  BY DEF IsPrefixCoded
<1>2. /\ match \in Nat /\ suffix \in Seq(Nat) /\ vectors \in BOOLEAN /\ s \in PrefixStates /\ n \in Nat
      /\ curr \in Seq(Nat) /\ Len(curr) <= U32Max
  BY <1>1 DEF PrefixSound
<1>3. all \in Seq(Nat)
  <2>1. IsConcats(Concats(suffixes), all, suffixes)
    BY <1>1, NatConcats
  <2> QED BY <2>1 DEF IsConcats
<1>4. s.ok /\ Matches(s.out, src, n - 1) /\ s.field = IF n - 1 = 0 THEN <<>> ELSE src[n - 1]
  BY DEF PrefixTracks
<1>5. PrefixReady(s, suffix, all, vectors)
  BY <1>1, <1>4, PrefixIsReady
<1>6. r = DecodePrefixElement(s, match, suffix, all, vectors)
  OBVIOUS
<1>7. match <= Len(s.field) /\ \A k \in 1..match : curr[k] = s.field[k]
  <2>1. CASE n = 1
    <3>1. match = 0 /\ s.field = <<>>
      BY <1>1, <1>4, <2>1
    <3> QED BY <3>1
  <2>2. CASE n > 1
    <3>1. s.field = src[n - 1]
      BY <1>4, <2>2
    <3> HIDE DEF match, curr
    <3> QED BY <1>1, <2>2, <3>1
  <2> QED BY <1>2, <2>1, <2>2
<1>8. s.out \in Seq(Seq(Nat)) /\ Len(s.out) = n - 1 /\ s.field \in Seq(Nat)
  BY <1>4 DEF PrefixGood
<1> HIDE DEF match, suffix, all, vectors, curr
<1>9. ~(match > Len(s.field))
  BY <1>2, <1>7, <1>8
<1>10. PrefixStepped(r, s, match, suffix, vectors)
  BY <1>2, <1>3, <1>4, <1>5, <1>6, <1>9, PrefixStep
<1>11. /\ IsField(r.field, s.field, match, suffix) /\ r.out = Append(s.out, r.field)
       /\ r.ok <=> match + Len(suffix) <= U32Max
  BY <1>10 DEF PrefixStepped, IsElement
<1>12. Len(suffix) = Len(curr) - match /\ \A j \in 1..Len(suffix) : suffix[j] = curr[match + j]
  BY <1>1 DEF IsRest
<1>13. match + Len(suffix) = Len(curr)
  BY <1>2, <1>12
<1>14. r.ok
  BY <1>2, <1>11, <1>13
<1>15. IsField(curr, s.field, match, suffix)
  <2>1. curr \in Seq(Int)
    BY <1>2
  <2> QED BY <1>7, <1>12, <1>13, <2>1 DEF IsField
<1>16. r.field = curr
  BY <1>2, <1>11, <1>15, FieldUnique
<1>17. Matches(r.out, src, n)
  <2> DEFINE o == s.out
             y == Append(o, curr)
  <2>1. o \in Seq(Seq(Nat)) /\ Len(o) = n - 1 /\ r.out = y
    BY <1>8, <1>11, <1>16
  <2> HIDE DEF o
  <2>2. /\ Len(y) = Len(o) + 1 /\ y[Len(o) + 1] = curr
        /\ \A i \in 1..Len(o) : y[i] = o[i]
    BY <1>2, <2>1, AppendFacts
  <2> HIDE DEF y
  <2>3. Len(y) = n /\ y[n] = src[n]
    BY <1>2, <2>1, <2>2 DEF curr
  <2>4. \A i \in 1..n - 1 : o[i] = src[i]
    BY <1>4 DEF Matches, o
  <2>5. ASSUME NEW i \in 1..n PROVE y[i] = src[i]
    <3>1. i = n \/ i \in 1..n - 1
      OBVIOUS
    <3> QED BY <2>1, <2>2, <2>3, <2>4, <3>1
  <2> QED BY <2>1, <2>3, <2>5 DEF Matches
<1> QED BY <1>2, <1>14, <1>16, <1>17 DEF PrefixTracks, curr

(* What the encoder sends decodes to the input.                            *)
LEMMA PrefixRoundTrip ==
    ASSUME NEW src \in Seq(Seq(Nat)), \A i \in 1..Len(src) : Len(src[i]) <= U32Max
    PROVE  DI_prefix(EI_prefix(src).streams, TRUE) = Made(1, src, Len(src))
<1>1. PICK suffixes, sizes :
         /\ IsPrefixCoded(suffixes, sizes, src)
         /\ EI_prefix(src) = Sent(<<>>, <<Stream(1, suffixes), Stream(4, sizes)>>)
  BY PrefixCodes
<1> DEFINE N == Len(src)
           w == Wildcopies(suffixes, TRUE)
           kernel == ZS_decodePrefix(suffixes, sizes, TRUE)
<1>2. /\ suffixes \in Seq(Seq(Nat)) /\ sizes \in Seq(Nat)
      /\ Len(suffixes) = N /\ Len(sizes) = N /\ N \in Nat
  BY <1>1 DEF IsPrefixCoded
<1>3. PICK f : PrefixDecodeRun(f, suffixes, sizes, TRUE)
  BY <1>2, PrefixDecodeStates
<1>4. \A n \in 0..N : PrefixSound(f[n], suffixes, sizes) /\ PrefixGood(f[n], n, suffixes, sizes, w)
  BY <1>2, <1>3, PrefixRunKept
<1>5. IsWild(w, suffixes)
  BY <1>2, WildcopiesWild
<1>6. \A n \in 1..N : f[n] = DecodePrefixElement(f[n - 1], sizes[n], suffixes[n], Concat(suffixes), n <= w)
  BY <1>2, <1>3 DEF PrefixDecodeRun
<1>7. kernel = f[N]
  BY <1>2, <1>3, Zenon DEF PrefixDecodeRun
<1>8. f[0] = [ok |-> TRUE, out |-> <<>>, field |-> <<>>, vec |-> [i \in 1..Vector |-> 0],
              consumed |-> 0, produced |-> 0, low |-> 0, high |-> 0, top |-> 0]
  BY <1>3, Zenon DEF PrefixDecodeRun
<1> DEFINE S == {n \in 0..N : PrefixTracks(f[n], n, src)}
<1> HIDE DEF w
<1>9. 0 \in S
  <2>1. 0 \in 0..N
    BY <1>2
  <2>2. f[0].ok /\ f[0].out = <<>> /\ f[0].field = <<>>
    BY <1>8
  <2>3. Matches(f[0].out, src, 0)
    BY <2>2 DEF Matches
  <2> QED BY <2>1, <2>2, <2>3 DEF PrefixTracks
<1>10. ASSUME NEW n \in 1..N, n - 1 \in S PROVE n \in S
  <2>1. n - 1 \in 0..N /\ n \in 0..N
    BY <1>2
  <2>2. /\ PrefixSound(f[n - 1], suffixes, sizes) /\ PrefixGood(f[n - 1], n - 1, suffixes, sizes, w)
        /\ PrefixTracks(f[n - 1], n - 1, src)
    BY <1>4, <1>10, <2>1
  <2>3. f[n] = DecodePrefixElement(f[n - 1], sizes[n], suffixes[n], Concat(suffixes), n <= w)
    BY <1>6
  <2>4. PrefixTracks(f[n], n, src)
    BY <1>1, <1>5, <2>2, <2>3, PrefixTrackStep
  <2> QED BY <2>1, <2>4
<1> HIDE DEF S
<1>11. \A n \in 0..N : n \in S
  BY <1>2, <1>9, <1>10, LoopInduction
<1>12. N \in 0..N
  BY <1>2
<1>13. PrefixTracks(f[N], N, src) /\ PrefixGood(f[N], N, suffixes, sizes, w)
  BY <1>4, <1>11, <1>12 DEF S
<1> HIDE DEF kernel
<1>14. kernel.ok /\ kernel.out = src
  <2> DEFINE o == kernel.out
  <2>1. kernel.ok /\ Matches(o, src, N)
    BY <1>7, <1>13 DEF PrefixTracks
  <2>2. o \in Seq(Seq(Nat)) /\ Len(o) = N
    BY <1>7, <1>13, <2>1 DEF PrefixGood
  <2> HIDE DEF o
  <2>3. o = src
    <3>1. \A i \in 1..Len(o) : o[i] = src[i]
      BY <2>1, <2>2 DEF Matches
    <3> QED BY <2>2, <3>1, SeqsEqual
  <2> QED BY <2>1, <2>3 DEF o
<1> DEFINE streams == <<Stream(1, suffixes), Stream(4, sizes)>>
<1>15. EI_prefix(src).streams = streams
  BY <1>1 DEF Sent
<1>16. streams[1].elts = suffixes /\ streams[2].elts = sizes /\ streams[2].width = 4
  BY DEF Stream
<1> HIDE DEF streams
<1>17. DI_prefix(streams, TRUE) = Made(1, kernel.out, Len(suffixes))
  BY <1>2, <1>14, <1>16 DEF DI_prefix, kernel
<1> QED BY <1>2, <1>14, <1>15, <1>17

-----------------------------------------------------------------------------
(* merge_sorted: the heap.                                                 *)
HeapStates(L) == [heap : [1..L -> Nat], idx : 1..L]

IsSwap(g, h, i, j, L) ==
    /\ g \in [1..L -> Nat] /\ g[i] = h[j] /\ g[j] = h[i]
    /\ \A k \in 1..L : k # i /\ k # j => g[k] = h[k]

LEMMA SwapFacts ==
    ASSUME NEW L \in Nat, NEW h \in [1..L -> Nat], NEW i \in 1..L, NEW j \in 1..L
    PROVE  IsSwap(Swapped(h, i, j), h, i, j, L)
<1> DEFINE a == h[j]
           b == h[i]
           g == [h EXCEPT ![i] = a, ![j] = b]
<1>1. a \in Nat /\ b \in Nat
  OBVIOUS
<1>2. Swapped(h, i, j) = g
  BY DEF Swapped
<1>3. i = j => a = b
  OBVIOUS
<1>4. a = h[j] /\ b = h[i]
  OBVIOUS
<1> HIDE DEF a, b
<1>5. g \in [1..L -> Nat]
  BY <1>1
<1>6. g[i] = a /\ g[j] = b
  BY <1>3
<1>7. \A k \in 1..L : k # i /\ k # j => g[k] = h[k]
  OBVIOUS
<1> HIDE DEF g
<1> QED BY <1>2, <1>4, <1>5, <1>6, <1>7 DEF IsSwap

Cells(h, L) == {h[i] : i \in 1..L}
Unlike(h, L) == \A i, j \in 1..L : h[i] = h[j] => i = j

(* A swap keeps the values of the heap.                                    *)
LEMMA SwapKeeps ==
    ASSUME NEW L \in Nat, NEW h \in [1..L -> Nat], NEW i \in 1..L, NEW j \in 1..L,
           NEW g, IsSwap(g, h, i, j, L)
    PROVE  /\ Cells(g, L) = Cells(h, L)
           /\ Unlike(h, L) => Unlike(g, L)
<1>1. /\ g \in [1..L -> Nat] /\ g[i] = h[j] /\ g[j] = h[i]
      /\ \A k \in 1..L : k # i /\ k # j => g[k] = h[k]
  BY DEF IsSwap
<1> DEFINE t(k) == IF k = i THEN j ELSE IF k = j THEN i ELSE k
<1>2. \A k \in 1..L : t(k) \in 1..L /\ g[k] = h[t(k)] /\ h[k] = g[t(k)]
  BY <1>1
<1>3. \A k, m \in 1..L : t(k) = t(m) => k = m
  OBVIOUS
<1> HIDE DEF t
<1>4. Cells(g, L) = Cells(h, L)
  <2>1. \A k \in 1..L : g[k] \in Cells(h, L)
    BY <1>2 DEF Cells
  <2>2. \A k \in 1..L : h[k] \in Cells(g, L)
    BY <1>2 DEF Cells
  <2>3. \A v : v \in Cells(g, L) => v \in Cells(h, L)
    BY <2>1 DEF Cells
  <2>4. \A v : v \in Cells(h, L) => v \in Cells(g, L)
    BY <2>2 DEF Cells
  <2> QED BY <2>3, <2>4
<1>5. ASSUME Unlike(h, L) PROVE Unlike(g, L)
  <2> SUFFICES ASSUME NEW k \in 1..L, NEW m \in 1..L, g[k] = g[m] PROVE k = m
    BY DEF Unlike
  <2>1. h[t(k)] = h[t(m)] /\ t(k) \in 1..L /\ t(m) \in 1..L
    BY <1>2
  <2>2. t(k) = t(m)
    BY <1>5, <2>1 DEF Unlike
  <2> QED BY <1>3, <2>2
<1> QED BY <1>4, <1>5

(* One turn of heapifyUp().                                                *)
IsUp(r, s, L) ==
    LET p == s.idx \div 2
    IN  IF s.idx # 1 /\ s.heap[p] > s.heap[s.idx]
        THEN r.idx = p /\ p \in 1..L /\ IsSwap(r.heap, s.heap, p, s.idx, L)
        ELSE r = s

LEMMA SwapUpFacts ==
    ASSUME NEW L \in Nat, NEW s \in HeapStates(L)
    PROVE  SwapUp(s) \in HeapStates(L) /\ IsUp(SwapUp(s), s, L)
<1> DEFINE h == s.heap
           x == s.idx
           p == x \div 2
           g == Swapped(h, p, x)
<1>1. h \in [1..L -> Nat] /\ x \in 1..L /\ s = [heap |-> h, idx |-> x]
  BY DEF HeapStates
<1>2. SwapUp(s) = IF x # 1 /\ h[p] > h[x] THEN [heap |-> g, idx |-> p] ELSE s
  BY DEF SwapUp
<1>3. CASE x # 1 /\ h[p] > h[x]
  <2>1. p \in 1..L
    BY <1>1, <1>3
  <2> HIDE DEF p
  <2>2. IsSwap(g, h, p, x, L)
    BY <1>1, <2>1, SwapFacts
  <2>3. g \in [1..L -> Nat]
    BY <2>2 DEF IsSwap
  <2> HIDE DEF g
  <2>4. SwapUp(s) = [heap |-> g, idx |-> p]
    BY <1>2, <1>3
  <2>5. SwapUp(s) \in HeapStates(L)
    BY <2>1, <2>3, <2>4 DEF HeapStates
  <2>6. SwapUp(s).heap = g /\ SwapUp(s).idx = p
    BY <2>4
  <2>7. IsUp(SwapUp(s), s, L)
    BY <1>3, <2>1, <2>2, <2>6 DEF IsUp, p
  <2> QED BY <2>5, <2>7
<1>4. CASE ~(x # 1 /\ h[p] > h[x])
  <2>1. SwapUp(s) = s
    BY <1>2, <1>4
  <2> QED BY <1>4, <2>1 DEF IsUp
<1> QED BY <1>3, <1>4

(* heapifyUp() after n turns.                                              *)
HeapUpRun(f, heap, idx, L) ==
    /\ f \in [0..idx -> HeapStates(L)]
    /\ heapifyUp(heap, idx) = f[idx].heap
    /\ f[0] = [heap |-> heap, idx |-> idx]
    /\ \A n \in 1..idx : f[n] = SwapUp(f[n - 1])

LEMMA HeapUpStates ==
    ASSUME NEW L \in Nat, NEW heap \in [1..L -> Nat], NEW idx \in 1..L
    PROVE  \E f : HeapUpRun(f, heap, idx, L)
<1> DEFINE N == idx
           T == HeapStates(L)
           base == [heap |-> heap, idx |-> idx]
           E(k, x) == SwapUp(x)
           step == [p \in (1..N) \X T |-> E(p[1], p[2])]
           value == CHOOSE f : f = [n \in 0..N |-> IF n = 0 THEN base ELSE E(n, f[n - 1])]
<1>1. N \in Nat
  OBVIOUS
<1>2. base \in T
  BY DEF HeapStates
<1>3. ASSUME NEW k \in 1..N, NEW x \in T PROVE E(k, x) \in T
  BY SwapUpFacts
<1>4. value = CHOOSE f : f = [n \in 0..N |-> IF n = 0 THEN base ELSE E(n, f[n - 1])]
  OBVIOUS
<1>5. heapifyUp(heap, idx) = value[idx].heap
  BY DEF heapifyUp
<1> HIDE DEF N, T, base, E, value
<1>6. ASSUME NEW k \in 1..N, NEW x \in T PROVE step[<<k, x>>] = E(k, x)
  OBVIOUS
<1> HIDE DEF step
<1>7. PICK f \in [0..N -> T] : IsLoop(f, base, step, N)
  <2>1. \A k \in 1..N : \A x \in T : step[<<k, x>>] \in T
    <3> TAKE k \in 1..N
    <3> TAKE x \in T
    <3> QED BY <1>3, <1>6
  <2> QED BY <1>1, <1>2, <2>1, LoopExists
<1>8. f[0] = base /\ \A n \in 1..N : f[n] = E(n, f[n - 1])
  <2>1. LoopTurns(f, base, step, N, T)
    BY <1>1, <1>7, LoopFacts
  <2> QED BY <1>6, <2>1 DEF LoopTurns
<1>9. value = [n \in 0..N |-> IF n = 0 THEN base ELSE E(n, value[n - 1])]
  <2>1. f = [n \in 0..N |-> IF n = 0 THEN base ELSE E(n, f[n - 1])]
    BY <1>1, <1>7, <1>8
  <2> QED BY <1>4, <2>1
<1>10. value[0] = base /\ \A n \in 1..N : value[n] = E(n, value[n - 1])
  <2>1. 0 \in 0..N /\ \A n \in 1..N : n \in 0..N /\ n # 0
    BY <1>1
  <2> QED BY <1>9, <2>1
<1>11. value = [n \in 0..N |-> value[n]]
  BY <1>9
<1>12. f = value
  <2>1. ASSUME NEW n \in 1..N, f[n - 1] = value[n - 1] PROVE f[n] = value[n]
    BY <1>8, <1>10, <2>1
  <2>2. f = [n \in 0..N |-> f[n]] /\ f[0] = value[0]
    BY <1>7, <1>8, <1>10
  <2>3. SameTurns(f, value, N)
    BY <1>11, <2>1, <2>2 DEF SameTurns
  <2> QED BY <1>1, <2>3, SameLoop
<1>13. HeapUpRun(f, heap, idx, L)
  BY <1>5, <1>7, <1>8, <1>12 DEF HeapUpRun, N, T, base, E
<1> QED BY <1>13

(* Smallest of a position and its children.                                *)
IsSmallest(m, h, x, L) ==
    /\ m \in {x, 2 * x, 2 * x + 1} /\ m \in 1..L
    /\ \A j \in {x, 2 * x, 2 * x + 1} : j \in 1..L => h[m] <= h[j]

LEMMA SmallestChildFacts ==
    ASSUME NEW L \in Nat, NEW h \in [1..L -> Nat], NEW x \in 1..L
    PROVE  IsSmallest(SmallestChild(h, x), h, x, L)
<1> DEFINE C == {x, 2 * x, 2 * x + 1} \cap DOMAIN h
           V == {h[i] : i \in C}
           m == SmallestChild(h, x)
<1>1. DOMAIN h = 1..L /\ x \in C /\ \A i \in C : i \in 1..L
  OBVIOUS
<1>5. C = {j \in {x, 2 * x, 2 * x + 1} : j \in 1..L}
  BY <1>1
<1>2. m = CHOOSE i \in C : \A j \in C : h[i] <= h[j]
  BY DEF SmallestChild
<1> HIDE DEF C
<1>3. \E i \in C : \A j \in C : h[i] <= h[j]
  <2>1. V \in SUBSET Nat /\ V # {}
    BY <1>1
  <2>2. PICK v \in V : \A n \in V : v <= n
    <3> HIDE DEF V
    <3> QED BY <2>1, LeastNumber
  <2>3. PICK i \in C : v = h[i]
    BY <2>2
  <2> QED BY <2>2, <2>3
<1> HIDE DEF m
<1>4. m \in C /\ \A j \in C : h[m] <= h[j]
  BY <1>2, <1>3
<1>6. m \in {x, 2 * x, 2 * x + 1} /\ m \in 1..L
  BY <1>4, <1>5
<1>7. \A j \in {x, 2 * x, 2 * x + 1} : j \in 1..L => h[m] <= h[j]
  BY <1>4, <1>5
<1> QED BY <1>6, <1>7 DEF IsSmallest, m

(* One turn of heapifyDown().                                              *)
IsDown(r, s, L) ==
    LET m == SmallestChild(s.heap, s.idx)
    IN  /\ IsSmallest(m, s.heap, s.idx, L)
        /\ IF m # s.idx THEN r.idx = m /\ IsSwap(r.heap, s.heap, m, s.idx, L) ELSE r = s

LEMMA SwapDownFacts ==
    ASSUME NEW L \in Nat, NEW s \in HeapStates(L)
    PROVE  SwapDown(s) \in HeapStates(L) /\ IsDown(SwapDown(s), s, L)
<1> DEFINE h == s.heap
           x == s.idx
           m == SmallestChild(h, x)
           g == Swapped(h, m, x)
<1>1. h \in [1..L -> Nat] /\ x \in 1..L /\ s = [heap |-> h, idx |-> x]
  BY DEF HeapStates
<1>2. SwapDown(s) = IF m # x THEN [heap |-> g, idx |-> m] ELSE s
  BY DEF SwapDown
<1>3. IsSmallest(m, h, x, L)
  <2> HIDE DEF h, x
  <2> QED BY <1>1, SmallestChildFacts
<1>4. m \in 1..L
  BY <1>3 DEF IsSmallest
<1>5. IsSwap(g, h, m, x, L)
  <2> HIDE DEF m, h, x
  <2> QED BY <1>1, <1>4, SwapFacts
<1>6. g \in [1..L -> Nat]
  BY <1>5 DEF IsSwap
<1>7. CASE m # x
  <2> HIDE DEF g, m, h, x
  <2>1. SwapDown(s) = [heap |-> g, idx |-> m]
    BY <1>2, <1>7
  <2>2. SwapDown(s) \in HeapStates(L)
    BY <1>4, <1>6, <2>1 DEF HeapStates
  <2>3. SwapDown(s).heap = g /\ SwapDown(s).idx = m
    BY <2>1
  <2>4. IsDown(SwapDown(s), s, L)
    BY <1>3, <1>5, <1>7, <2>3 DEF IsDown, m, h, x
  <2> QED BY <2>2, <2>4
<1>8. CASE m = x
  <2>1. SwapDown(s) = s
    BY <1>2, <1>8
  <2>2. IsDown(SwapDown(s), s, L)
    BY <1>3, <1>8, <2>1 DEF IsDown
  <2> QED BY <2>1, <2>2
<1> QED BY <1>7, <1>8

(* heapifyDown() after n turns.                                            *)
HeapDownRun(f, heap, idx, L) ==
    /\ f \in [0..L -> HeapStates(L)]
    /\ heapifyDown(heap, idx) = f[L].heap
    /\ f[0] = [heap |-> heap, idx |-> idx]
    /\ \A n \in 1..L : f[n] = SwapDown(f[n - 1])

LEMMA HeapDownStates ==
    ASSUME NEW L \in Nat, NEW heap \in [1..L -> Nat], Len(heap) = L, NEW idx \in 1..L
    PROVE  \E f : HeapDownRun(f, heap, idx, L)
<1> DEFINE N == L
           T == HeapStates(L)
           base == [heap |-> heap, idx |-> idx]
           E(k, x) == SwapDown(x)
           step == [p \in (1..N) \X T |-> E(p[1], p[2])]
           value == CHOOSE f : f = [n \in 0..N |-> IF n = 0 THEN base ELSE E(n, f[n - 1])]
<1>1. N \in Nat
  OBVIOUS
<1>2. base \in T
  BY DEF HeapStates
<1>3. ASSUME NEW k \in 1..N, NEW x \in T PROVE E(k, x) \in T
  BY SwapDownFacts
<1>4. value = CHOOSE f : f = [n \in 0..N |-> IF n = 0 THEN base ELSE E(n, f[n - 1])]
  OBVIOUS
<1>5. heapifyDown(heap, idx) = value[L].heap
  BY DEF heapifyDown
<1> HIDE DEF N, T, base, E, value
<1>6. ASSUME NEW k \in 1..N, NEW x \in T PROVE step[<<k, x>>] = E(k, x)
  OBVIOUS
<1> HIDE DEF step
<1>7. PICK f \in [0..N -> T] : IsLoop(f, base, step, N)
  <2>1. \A k \in 1..N : \A x \in T : step[<<k, x>>] \in T
    <3> TAKE k \in 1..N
    <3> TAKE x \in T
    <3> QED BY <1>3, <1>6
  <2> QED BY <1>1, <1>2, <2>1, LoopExists
<1>8. f[0] = base /\ \A n \in 1..N : f[n] = E(n, f[n - 1])
  <2>1. LoopTurns(f, base, step, N, T)
    BY <1>1, <1>7, LoopFacts
  <2> QED BY <1>6, <2>1 DEF LoopTurns
<1>9. value = [n \in 0..N |-> IF n = 0 THEN base ELSE E(n, value[n - 1])]
  <2>1. f = [n \in 0..N |-> IF n = 0 THEN base ELSE E(n, f[n - 1])]
    BY <1>1, <1>7, <1>8
  <2> QED BY <1>4, <2>1
<1>10. value[0] = base /\ \A n \in 1..N : value[n] = E(n, value[n - 1])
  <2>1. 0 \in 0..N /\ \A n \in 1..N : n \in 0..N /\ n # 0
    BY <1>1
  <2> QED BY <1>9, <2>1
<1>11. value = [n \in 0..N |-> value[n]]
  BY <1>9
<1>12. f = value
  <2>1. ASSUME NEW n \in 1..N, f[n - 1] = value[n - 1] PROVE f[n] = value[n]
    BY <1>8, <1>10, <2>1
  <2>2. f = [n \in 0..N |-> f[n]] /\ f[0] = value[0]
    BY <1>7, <1>8, <1>10
  <2>3. SameTurns(f, value, N)
    BY <1>11, <2>1, <2>2 DEF SameTurns
  <2> QED BY <1>1, <2>3, SameLoop
<1>13. HeapDownRun(f, heap, idx, L)
  BY <1>5, <1>7, <1>8, <1>12 DEF HeapDownRun, N, T, base, E
<1> QED BY <1>13

(* The order of the heap, but between position x and its parent.           *)
OrderedBut(h, x, L) ==
    /\ \A i \in 2..L : i # x => h[i \div 2] <= h[i]
    /\ x # 1 => \A c \in 2..L : c \div 2 = x => h[x \div 2] <= h[c]

(* The order of the heap, but between position x and its children.         *)
OrderedAbove(h, x, L) ==
    /\ \A i \in 2..L : i \div 2 # x => h[i \div 2] <= h[i]
    /\ x # 1 => \A c \in 2..L : c \div 2 = x => h[x \div 2] <= h[c]

Ordered(h, L) == \A i \in 2..L : h[i \div 2] <= h[i]

(* The parent of a position comes before it.                               *)
LEMMA Halves ==
    ASSUME NEW i \in Nat, i >= 2
    PROVE  /\ i \div 2 \in Nat /\ i \div 2 >= 1 /\ i \div 2 < i
           /\ i = 2 * (i \div 2) \/ i = 2 * (i \div 2) + 1
OBVIOUS

(* One turn of heapifyUp() moves the misplaced value to its parent.        *)
LEMMA UpKeepsOrder ==
    ASSUME NEW L \in Nat, NEW h \in [1..L -> Nat], NEW x \in 2..L, NEW p \in 1..L,
           p = x \div 2, h[p] > h[x], OrderedBut(h, x, L), NEW g, IsSwap(g, h, p, x, L)
    PROVE  OrderedBut(g, p, L)
<1>1. /\ g \in [1..L -> Nat] /\ g[p] = h[x] /\ g[x] = h[p]
      /\ \A k \in 1..L : k # p /\ k # x => g[k] = h[k]
  BY DEF IsSwap
<1>2. /\ \A i \in 2..L : i # x => h[i \div 2] <= h[i]
      /\ \A c \in 2..L : c \div 2 = x => h[p] <= h[c]
  BY DEF OrderedBut
<1>3. x \in 1..L /\ p < x /\ h[p] \in Nat /\ h[x] \in Nat
  BY Halves
<1>4. ASSUME NEW i \in 2..L, i # p PROVE g[i \div 2] <= g[i]
  <2> DEFINE y == i \div 2
  <2>1. i \in 1..L /\ y \in 1..L /\ y < i /\ h[i] \in Nat /\ h[y] \in Nat
    BY Halves
  <2>6. y = i \div 2
    OBVIOUS
  <2> HIDE DEF y
  <2>2. CASE i = x
    BY <1>1, <1>3, <2>2, <2>6
  <2>3. CASE i # x /\ y = x
    <3>1. h[p] <= h[i] /\ g[i] = h[i] /\ g[y] = h[p]
      BY <1>1, <1>2, <1>4, <2>1, <2>3, <2>6
    <3> QED BY <2>6, <3>1
  <2>4. CASE i # x /\ y = p
    <3>1. h[p] <= h[i] /\ g[i] = h[i] /\ g[y] = h[x]
      BY <1>1, <1>2, <1>4, <2>1, <2>4, <2>6
    <3> QED BY <1>3, <2>1, <2>6, <3>1
  <2>5. CASE i # x /\ y # x /\ y # p
    <3>1. h[y] <= h[i] /\ g[i] = h[i] /\ g[y] = h[y]
      BY <1>1, <1>2, <1>4, <2>1, <2>5, <2>6
    <3> QED BY <2>6, <3>1
  <2> QED BY <2>2, <2>3, <2>4, <2>5
<1>5. ASSUME p # 1, NEW c \in 2..L, c \div 2 = p PROVE g[p \div 2] <= g[c]
  <2> DEFINE q == p \div 2
  <2>1. p >= 2 /\ p \in 2..L
    BY <1>5
  <2>2. q \in 1..L /\ q < p /\ h[q] \in Nat
    BY <2>1, Halves
  <2>3. h[q] <= h[p]
    BY <1>2, <1>3, <2>1
  <2>8. q = p \div 2
    OBVIOUS
  <2> HIDE DEF q
  <2>4. g[q] = h[q]
    BY <1>1, <1>3, <2>2
  <2>5. CASE c = x
    BY <1>1, <2>3, <2>4, <2>5, <2>8
  <2>6. CASE c # x
    <3>1. c \in 1..L /\ c # p /\ h[c] \in Nat
      BY <1>5, Halves
    <3>2. h[p] <= h[c] /\ g[c] = h[c]
      BY <1>1, <1>2, <1>5, <2>6, <3>1
    <3> QED BY <1>3, <2>2, <2>3, <2>4, <2>8, <3>1, <3>2
  <2> QED BY <2>5, <2>6
<1> QED BY <1>4, <1>5 DEF OrderedBut

(* One turn of heapifyDown() moves it to its smallest child.               *)
LEMMA DownKeepsOrder ==
    ASSUME NEW L \in Nat, NEW h \in [1..L -> Nat], NEW x \in 1..L, NEW m,
           IsSmallest(m, h, x, L), m # x, OrderedAbove(h, x, L), NEW g, IsSwap(g, h, m, x, L)
    PROVE  OrderedAbove(g, m, L)
<1>1. /\ g \in [1..L -> Nat] /\ g[m] = h[x] /\ g[x] = h[m]
      /\ \A k \in 1..L : k # m /\ k # x => g[k] = h[k]
  BY DEF IsSwap
<1>2. /\ \A i \in 2..L : i \div 2 # x => h[i \div 2] <= h[i]
      /\ x # 1 => \A c \in 2..L : c \div 2 = x => h[x \div 2] <= h[c]
  BY DEF OrderedAbove
<1>3. /\ m \in 2..L /\ m \div 2 = x /\ m > x /\ h[m] <= h[x]
      /\ \A c \in 2..L : c \div 2 = x => h[m] <= h[c]
  <2>1. m \in {2 * x, 2 * x + 1} /\ m \in 1..L
    BY DEF IsSmallest
  <2>2. m \in 2..L /\ m \div 2 = x /\ m > x
    BY <2>1
  <2>3. h[m] <= h[x]
    BY DEF IsSmallest
  <2>4. ASSUME NEW c \in 2..L, c \div 2 = x PROVE h[m] <= h[c]
    <3>1. c \in {2 * x, 2 * x + 1} /\ c \in 1..L
      BY <2>4
    <3> QED BY <3>1 DEF IsSmallest
  <2> QED BY <2>2, <2>3, <2>4
<1>4. h[m] \in Nat /\ h[x] \in Nat /\ m \in 1..L
  BY <1>3
<1>5. ASSUME NEW i \in 2..L, i \div 2 # m PROVE g[i \div 2] <= g[i]
  <2> DEFINE y == i \div 2
  <2>1. i \in 1..L /\ y \in 1..L /\ y < i /\ h[i] \in Nat /\ h[y] \in Nat
    BY Halves
  <2>2. y = i \div 2
    OBVIOUS
  <2> HIDE DEF y
  <2>3. CASE i = m
    <3>1. y = x /\ g[y] = h[m] /\ g[i] = h[x]
      BY <1>1, <1>3, <2>2, <2>3
    <3> QED BY <1>3, <2>2, <3>1
  <2>4. CASE i # m /\ y = x
    <3>2. i # x
      BY <2>1, <2>4
    <3>3. g[y] = h[m] /\ g[i] = h[i]
      BY <1>1, <2>1, <2>4, <3>2
    <3>4. h[m] <= h[i]
      BY <1>3, <2>2, <2>4
    <3>1. g[y] = h[m] /\ g[i] = h[i] /\ h[m] <= h[i]
      BY <3>3, <3>4
    <3> QED BY <2>2, <3>1
  <2>5. CASE i = x
    <3>1. x # 1 /\ h[y] <= h[m]
      BY <1>2, <1>3, <2>1, <2>2, <2>5
    <3>2. g[i] = h[m] /\ y # x /\ y # m
      BY <1>1, <1>3, <1>5, <2>1, <2>2, <2>5
    <3>3. g[y] = h[y]
      BY <1>1, <2>1, <3>2
    <3> QED BY <2>2, <3>1, <3>2, <3>3
  <2>6. CASE i # m /\ i # x /\ y # x
    <3>1. g[i] = h[i] /\ y # m
      BY <1>1, <1>5, <2>1, <2>2, <2>6
    <3>2. g[y] = h[y] /\ h[y] <= h[i]
      BY <1>1, <1>2, <2>1, <2>2, <2>6, <3>1
    <3> QED BY <2>2, <3>1, <3>2
  <2> QED BY <2>3, <2>4, <2>5, <2>6
<1>6. ASSUME NEW c \in 2..L, c \div 2 = m PROVE g[m \div 2] <= g[c]
  <2>1. c \in 1..L /\ c > m /\ c # x
    BY <1>3, <1>6, Halves
  <2>2. g[c] = h[c]
    BY <1>1, <1>3, <2>1
  <2>3. h[m] <= h[c]
    BY <1>2, <1>3, <1>6
  <2> QED BY <1>1, <1>3, <2>2, <2>3
<1> QED BY <1>5, <1>6 DEF OrderedAbove

(* What heapifying keeps and establishes.                                  *)
Heapified(g, h, L) ==
    /\ g \in [1..L -> Nat] /\ Ordered(g, L) /\ Cells(g, L) = Cells(h, L)
    /\ Unlike(h, L) => Unlike(g, L)

LEMMA UpHeapifies ==
    ASSUME NEW L \in Nat, NEW heap \in [1..L -> Nat], NEW idx \in 1..L, OrderedBut(heap, idx, L)
    PROVE  Heapified(heapifyUp(heap, idx), heap, L)
<1>1. PICK f : HeapUpRun(f, heap, idx, L)
  BY HeapUpStates
<1>2. /\ f \in [0..idx -> HeapStates(L)] /\ heapifyUp(heap, idx) = f[idx].heap
      /\ f[0] = [heap |-> heap, idx |-> idx] /\ \A n \in 1..idx : f[n] = SwapUp(f[n - 1])
  BY <1>1, Zenon DEF HeapUpRun
<1> DEFINE Rests(s) == s.idx = 1 \/ ~(s.heap[s.idx \div 2] > s.heap[s.idx])
           Keeps0(s) == /\ OrderedBut(s.heap, s.idx, L) /\ Cells(s.heap, L) = Cells(heap, L)
                        /\ Unlike(heap, L) => Unlike(s.heap, L)
           S == {n \in 0..idx : Keeps0(f[n]) /\ (Rests(f[n]) \/ f[n].idx <= idx - n)}
<1>3. idx \in Nat /\ 0 \in 0..idx /\ idx \in 0..idx
  OBVIOUS
<1>4. 0 \in S
  <2>1. f[0].heap = heap /\ f[0].idx = idx
    BY <1>2
  <2>2. f[0].idx <= idx - 0
    BY <1>3, <2>1
  <2> QED BY <1>3, <2>1, <2>2
<1>5. ASSUME NEW n \in 1..idx, n - 1 \in S PROVE n \in S
  <2> DEFINE s == f[n - 1]
             r == f[n]
             h == s.heap
             x == s.idx
             p == x \div 2
  <2>1. n \in 0..idx /\ n - 1 \in 0..idx
    BY <1>3
  <2>2. s \in HeapStates(L) /\ r = SwapUp(s)
    BY <1>2, <2>1
  <2>3. Keeps0(s) /\ (Rests(s) \/ x <= idx - (n - 1))
    BY <1>5
  <2> HIDE DEF s, r
  <2>4. IsUp(r, s, L) /\ r \in HeapStates(L)
    BY <2>2, SwapUpFacts
  <2>5. h \in [1..L -> Nat] /\ x \in 1..L
    BY <2>2 DEF HeapStates
  <2>6. CASE Rests(s)
    <3>1. r = s
      BY <2>4, <2>6 DEF IsUp
    <3> QED BY <2>1, <2>3, <2>6, <3>1 DEF r
  <2>7. CASE ~Rests(s)
    <3>1. x # 1 /\ h[p] > h[x] /\ r.idx = p /\ p \in 1..L /\ IsSwap(r.heap, h, p, x, L)
      BY <2>4, <2>7 DEF IsUp
    <3>2. OrderedBut(h, x, L) /\ x <= idx - (n - 1) /\ x \in 2..L
      BY <2>3, <2>5, <2>7, <3>1
    <3>6. p = x \div 2 /\ p < x
      BY <3>2, Halves
    <3> HIDE DEF h, x, p, Rests
    <3>3. OrderedBut(r.heap, p, L)
      BY <2>5, <3>1, <3>2, <3>6, UpKeepsOrder
    <3>4. Cells(r.heap, L) = Cells(h, L) /\ (Unlike(h, L) => Unlike(r.heap, L))
      BY <2>5, <3>1, SwapKeeps
    <3>7. Keeps0(r)
      BY <2>3, <3>1, <3>3, <3>4 DEF h
    <3>5. r.idx <= idx - n
      BY <2>5, <3>1, <3>2, <3>6
    <3> QED BY <2>1, <3>5, <3>7 DEF r
  <2> QED BY <2>6, <2>7
<1> HIDE DEF S
<1>6. \A n \in 0..idx : n \in S
  BY <1>3, <1>4, <1>5, LoopInduction
<1> DEFINE s == f[idx]
<1>7. s \in HeapStates(L) /\ Keeps0(s) /\ (Rests(s) \/ s.idx <= idx - idx)
  BY <1>2, <1>3, <1>6 DEF S
<1> HIDE DEF s
<1>8. s.heap \in [1..L -> Nat] /\ s.idx \in 1..L
  BY <1>7 DEF HeapStates
<1>9. Rests(s)
  <2>1. ~(s.idx <= idx - idx)
    BY <1>8
  <2> QED BY <1>7, <2>1
<1>10. Ordered(s.heap, L)
  <2>1. ASSUME NEW i \in 2..L PROVE s.heap[i \div 2] <= s.heap[i]
    <3>1. CASE i # s.idx
      BY <1>7, <3>1 DEF OrderedBut
    <3>2. CASE i = s.idx
      <4>1. i \div 2 \in 1..L /\ i \in 1..L /\ i # 1
        BY Halves
      <4>2. s.heap[i \div 2] \in Nat /\ s.heap[i] \in Nat
        BY <1>8, <4>1
      <4> QED BY <1>9, <3>2, <4>1, <4>2
    <3> QED BY <3>1, <3>2
  <2> QED BY <2>1 DEF Ordered
<1>11. Heapified(s.heap, heap, L)
  BY <1>7, <1>8, <1>10 DEF Heapified
<1> QED BY <1>2, <1>11 DEF s

LEMMA DownHeapifies ==
    ASSUME NEW L \in Nat, NEW heap \in [1..L -> Nat], Len(heap) = L, NEW idx \in 1..L, OrderedAbove(heap, idx, L)
    PROVE  Heapified(heapifyDown(heap, idx), heap, L)
<1>1. PICK f : HeapDownRun(f, heap, idx, L)
  BY HeapDownStates
<1>2. /\ f \in [0..L -> HeapStates(L)] /\ heapifyDown(heap, idx) = f[L].heap
      /\ f[0] = [heap |-> heap, idx |-> idx] /\ \A n \in 1..L : f[n] = SwapDown(f[n - 1])
  BY <1>1, Zenon DEF HeapDownRun
<1> DEFINE Rests(s) == SmallestChild(s.heap, s.idx) = s.idx
           Keeps0(s) == /\ OrderedAbove(s.heap, s.idx, L) /\ Cells(s.heap, L) = Cells(heap, L)
                        /\ Unlike(heap, L) => Unlike(s.heap, L)
           S == {n \in 0..L : Keeps0(f[n]) /\ (Rests(f[n]) \/ f[n].idx >= n + 1)}
<1>3. L \in Nat /\ 0 \in 0..L /\ L \in 0..L
  OBVIOUS
<1>4. 0 \in S
  <2>1. f[0].heap = heap /\ f[0].idx = idx
    BY <1>2
  <2>2. f[0].idx >= 0 + 1
    BY <1>3, <2>1
  <2> QED BY <1>3, <2>1, <2>2
<1>5. ASSUME NEW n \in 1..L, n - 1 \in S PROVE n \in S
  <2> DEFINE s == f[n - 1]
             r == f[n]
             h == s.heap
             x == s.idx
             m == SmallestChild(h, x)
  <2>1. n \in 0..L /\ n - 1 \in 0..L
    BY <1>3
  <2>2. s \in HeapStates(L) /\ r = SwapDown(s)
    BY <1>2, <2>1
  <2>3. Keeps0(s) /\ (Rests(s) \/ x >= (n - 1) + 1)
    BY <1>5
  <2> HIDE DEF s, r
  <2>4. IsDown(r, s, L) /\ r \in HeapStates(L)
    BY <2>2, SwapDownFacts
  <2>5. h \in [1..L -> Nat] /\ x \in 1..L
    BY <2>2 DEF HeapStates
  <2>6. CASE Rests(s)
    <3>1. r = s
      BY <2>4, <2>6 DEF IsDown
    <3> QED BY <2>1, <2>3, <2>6, <3>1 DEF r
  <2>7. CASE ~Rests(s)
    <3>1. m # x /\ r.idx = m /\ IsSwap(r.heap, h, m, x, L) /\ IsSmallest(m, h, x, L)
      BY <2>4, <2>7 DEF IsDown
    <3>2. OrderedAbove(h, x, L) /\ x >= (n - 1) + 1
      BY <2>3, <2>7
    <3> HIDE DEF h, x, m, Rests
    <3>6. m > x /\ m \in 1..L
      BY <2>5, <3>1 DEF IsSmallest
    <3>3. OrderedAbove(r.heap, m, L)
      BY <2>5, <3>1, <3>2, DownKeepsOrder
    <3>4. Cells(r.heap, L) = Cells(h, L) /\ (Unlike(h, L) => Unlike(r.heap, L))
      BY <2>5, <3>1, <3>6, SwapKeeps
    <3>7. Keeps0(r)
      BY <2>3, <3>1, <3>3, <3>4 DEF h
    <3>5. r.idx >= n + 1
      BY <2>5, <3>1, <3>2, <3>6
    <3> QED BY <2>1, <3>5, <3>7 DEF r
  <2> QED BY <2>6, <2>7
<1> HIDE DEF S
<1>6. \A n \in 0..L : n \in S
  BY <1>3, <1>4, <1>5, LoopInduction
<1> DEFINE s == f[L]
<1>7. s \in HeapStates(L) /\ Keeps0(s) /\ (Rests(s) \/ s.idx >= L + 1)
  BY <1>2, <1>3, <1>6 DEF S
<1> HIDE DEF s
<1>8. s.heap \in [1..L -> Nat] /\ s.idx \in 1..L
  BY <1>7 DEF HeapStates
<1>9. Rests(s)
  <2>1. ~(s.idx >= L + 1)
    BY <1>8
  <2> QED BY <1>7, <2>1
<1>10. Ordered(s.heap, L)
  <2> DEFINE h == s.heap
             x == s.idx
  <2>1. IsSmallest(x, h, x, L)
    <3>1. IsSmallest(SmallestChild(h, x), h, x, L)
      <4> HIDE DEF h, x
      <4> QED BY <1>8, SmallestChildFacts DEF h, x
    <3> QED BY <1>9, <3>1
  <2>2. OrderedAbove(h, x, L) /\ x \in 1..L
    BY <1>7, <1>8
  <2> HIDE DEF h, x
  <2>3. ASSUME NEW i \in 2..L PROVE h[i \div 2] <= h[i]
    <3>1. CASE i \div 2 # x
      BY <2>2, <3>1 DEF OrderedAbove
    <3>2. CASE i \div 2 = x
      <4>1. i \in {2 * x, 2 * x + 1} /\ i \in 1..L
        <5>1. i \in Nat /\ i >= 2 /\ i \in 1..L
          OBVIOUS
        <5>2. i = 2 * (i \div 2) \/ i = 2 * (i \div 2) + 1
          BY <5>1, Halves
        <5> QED BY <3>2, <5>1, <5>2
      <4> QED BY <2>1, <3>2, <4>1 DEF IsSmallest
    <3> QED BY <3>1, <3>2
  <2> QED BY <2>3 DEF Ordered, h
<1>11. Heapified(s.heap, heap, L)
  BY <1>7, <1>8, <1>10 DEF Heapified
<1> QED BY <1>2, <1>11 DEF s

(* A heap with no value twice.                                             *)
Heaps == {h \in Seq(Nat) : Unlike(h, Len(h)) /\ Ordered(h, Len(h))}

LEMMA ToSetCells ==
    ASSUME NEW V, NEW h \in Seq(V)
    PROVE  ToSet(h) = Cells(h, Len(h)) /\ h \in [1..Len(h) -> V] /\ Len(h) \in Nat /\ DOMAIN h = 1..Len(h)
BY DEF ToSet, Cells

(* The top of a heap is its least value.                                   *)
LEMMA HeapMin ==
    ASSUME NEW h \in Heaps
    PROVE  \A v \in ToSet(h) : h[1] <= v
<1> DEFINE L == Len(h)
           S == {n \in 0..L : \A i \in 1..n : h[1] <= h[i]}
<1>1. /\ h \in [1..L -> Nat] /\ L \in Nat /\ \A i \in 2..L : h[i \div 2] <= h[i]
      /\ ToSet(h) = Cells(h, L)
  <2>1. h \in Seq(Nat) /\ Ordered(h, L)
    BY DEF Heaps
  <2> QED BY <2>1, ToSetCells DEF Ordered
<1> HIDE DEF L
<1>2. 0 \in S
  BY <1>1
<1>3. ASSUME NEW n \in 1..L, n - 1 \in S PROVE n \in S
  <2>1. n \in 0..L
    BY <1>1
  <2>2. ASSUME NEW i \in 1..n PROVE h[1] <= h[i]
    <3>1. CASE i <= n - 1
      <4>1. i \in 1..n - 1
        BY <3>1
      <4> QED BY <1>3, <4>1
    <3>2. CASE i = 1
      <4>1. h[1] \in Nat
        BY <1>1, <3>2
      <4> QED BY <3>2, <4>1
    <3>3. CASE i = n /\ i # 1
      <4> DEFINE y == i \div 2
      <4>1. y \in 1..n - 1 /\ i \in 2..L
        BY <1>1, <3>3, Halves
      <4>2. h[y] <= h[i]
        BY <1>1, <4>1
      <4> HIDE DEF y
      <4>3. h[1] <= h[y]
        BY <1>3, <4>1
      <4>4. h[1] \in Nat /\ h[y] \in Nat /\ h[i] \in Nat
        BY <1>1, <4>1
      <4> QED BY <4>2, <4>3, <4>4
    <3> QED BY <3>1, <3>2, <3>3
  <2> QED BY <2>1, <2>2
<1> HIDE DEF S
<1>4. \A n \in 0..L : n \in S
  BY <1>1, <1>2, <1>3, LoopInduction
<1>5. L \in S
  BY <1>1, <1>4
<1> QED BY <1>1, <1>5 DEF S, Cells

LEMMA HeapifiedIsHeap ==
    ASSUME NEW L \in Nat, NEW h, NEW g, Heapified(g, h, L), Unlike(h, L)
    PROVE  g \in Heaps /\ ToSet(g) = Cells(h, L)
<1>1. g \in [1..L -> Nat] /\ Ordered(g, L) /\ Cells(g, L) = Cells(h, L) /\ Unlike(g, L)
  BY DEF Heapified
<1>2. g \in Seq(Nat) /\ Len(g) = L
  BY <1>1, FunctionIsSeq
<1>3. ToSet(g) = Cells(g, Len(g))
  BY <1>2, ToSetCells
<1> QED BY <1>1, <1>2, <1>3 DEF Heaps

(* Inserting a value yields a heap that has it.                            *)
LEMMA InsertFacts ==
    ASSUME NEW heap \in Heaps, NEW val \in Nat
    PROVE  /\ PQ_insert(heap, val) \in Heaps
           /\ ToSet(PQ_insert(heap, val)) = ToSet(heap) \cup {val}
<1>1. CASE val \in ToSet(heap)
  <2>1. PQ_insert(heap, val) = heap
    BY <1>1 DEF PQ_insert
  <2> QED BY <1>1, <2>1
<1>2. CASE val \notin ToSet(heap)
  <2> DEFINE N == Len(heap)
             L == N + 1
             h == Append(heap, val)
             g == heapifyUp(h, L)
  <2>1. PQ_insert(heap, val) = g
    BY <1>2 DEF PQ_insert
  <2>2. /\ heap \in Seq(Nat) /\ N \in Nat /\ Unlike(heap, N) /\ Ordered(heap, N)
        /\ ToSet(heap) = Cells(heap, N) /\ heap \in [1..N -> Nat]
    <3>1. heap \in Seq(Nat) /\ Unlike(heap, N) /\ Ordered(heap, N)
      BY DEF Heaps
    <3> QED BY <3>1, ToSetCells
  <2>3. /\ h \in Seq(Nat) /\ Len(h) = L /\ \A i \in 1..N : h[i] = heap[i]
        /\ h[N + 1] = val
    BY <2>2, AppendFacts
  <2>4. L \in Nat /\ L \in 1..L /\ L = N + 1
    BY <2>2
  <2> HIDE DEF N, L, h
  <2>5. h \in [1..L -> Nat] /\ h[L] = val
    BY <2>3, <2>4
  <2>6. OrderedBut(h, L, L)
    <3>1. ASSUME NEW i \in 2..L, i # L PROVE h[i \div 2] <= h[i]
      <4>1. i \in 2..N /\ i \in 1..N /\ i \div 2 \in 1..N
        BY <2>2, <2>4, <3>1, Halves
      <4>2. heap[i \div 2] <= heap[i]
        BY <2>2, <4>1 DEF Ordered
      <4> QED BY <2>3, <4>1, <4>2
    <3>2. ASSUME NEW c \in 2..L PROVE c \div 2 # L
      <4>1. c \in Nat /\ c >= 2 /\ c <= L
        BY <2>4
      <4>2. c \div 2 < c /\ c \div 2 \in Nat
        BY <4>1, Halves
      <4> QED BY <2>4, <4>1, <4>2
    <3> QED BY <3>1, <3>2 DEF OrderedBut
  <2>7. Heapified(g, h, L)
    BY <2>4, <2>5, <2>6, UpHeapifies
  <2>8. Unlike(h, L)
    <3>0. \A i \in 1..N : heap[i] # val
      BY <1>2, <2>2 DEF Cells
    <3> SUFFICES ASSUME NEW i \in 1..L, NEW j \in 1..L, h[i] = h[j] PROVE i = j
      BY DEF Unlike
    <3>1. CASE i \in 1..N /\ j \in 1..N
      BY <2>2, <2>3, <3>1 DEF Unlike
    <3>2. CASE i = L /\ j \in 1..N
      BY <2>3, <2>5, <3>0, <3>2
    <3>3. CASE j = L /\ i \in 1..N
      BY <2>3, <2>5, <3>0, <3>3
    <3>4. (i \in 1..N \/ i = L) /\ (j \in 1..N \/ j = L)
      BY <2>2, <2>4
    <3> QED BY <3>1, <3>2, <3>3, <3>4
  <2>9. Cells(h, L) = Cells(heap, N) \cup {val}
    <3>1. ASSUME NEW v PROVE v \in Cells(h, L) <=> v \in Cells(heap, N) \cup {val}
      <4>1. ASSUME v \in Cells(h, L) PROVE v \in Cells(heap, N) \cup {val}
        <5>1. PICK i \in 1..L : v = h[i]
          BY <4>1 DEF Cells
        <5>2. i \in 1..N \/ i = L
          BY <2>2, <2>4
        <5> QED BY <2>3, <2>5, <5>1, <5>2 DEF Cells
      <4>2. ASSUME v \in Cells(heap, N) PROVE v \in Cells(h, L)
        <5>1. PICK i \in 1..N : v = heap[i]
          BY <4>2 DEF Cells
        <5>2. i \in 1..L /\ v = h[i]
          BY <2>2, <2>3, <2>4, <5>1
        <5> QED BY <5>2 DEF Cells
      <4>3. val \in Cells(h, L)
        BY <2>4, <2>5 DEF Cells
      <4> QED BY <4>1, <4>2, <4>3
    <3> QED BY <3>1
  <2>10. g \in Heaps /\ ToSet(g) = Cells(h, L)
    BY <2>4, <2>7, <2>8, HeapifiedIsHeap
  <2> QED BY <2>1, <2>2, <2>9, <2>10
<1> QED BY <1>1, <1>2

(* Popping yields a heap without its least value.                          *)
LEMMA PopFacts ==
    ASSUME NEW heap \in Heaps, heap # <<>>
    PROVE  /\ PQ_popMin(heap) \in Heaps
           /\ ToSet(PQ_popMin(heap)) = ToSet(heap) \ {heap[1]}
<1> DEFINE L == Len(heap)
<1>1. /\ heap \in Seq(Nat) /\ L \in Nat /\ Unlike(heap, L) /\ Ordered(heap, L)
      /\ ToSet(heap) = Cells(heap, L) /\ heap \in [1..L -> Nat] /\ L # 0
  <2>1. heap \in Seq(Nat) /\ Unlike(heap, L) /\ Ordered(heap, L)
    BY DEF Heaps
  <2>2. L # 0
    BY <2>1
  <2> QED BY <2>1, <2>2, ToSetCells
<1>2. CASE L = 1
  <2>1. PQ_popMin(heap) = <<>>
    BY <1>2 DEF PQ_popMin
  <2>2. <<>> \in Heaps
    <3>1. <<>> \in Seq(Nat) /\ Len(<<>>) = 0
      OBVIOUS
    <3>2. Unlike(<<>>, 0) /\ Ordered(<<>>, 0)
      BY DEF Unlike, Ordered
    <3> QED BY <3>1, <3>2 DEF Heaps
  <2>3. ToSet(<<>>) = {}
    BY DEF ToSet
  <2>4. Cells(heap, L) = {heap[1]}
    <3> HIDE DEF L
    <3> QED BY <1>2 DEF Cells
  <2> QED BY <1>1, <2>1, <2>2, <2>3, <2>4
<1>3. CASE L # 1
  <2> DEFINE N == L - 1
             w == heap[L]
             h == [Front(heap) EXCEPT ![1] = w]
             g == heapifyDown(h, 1)
  <2>1. PQ_popMin(heap) = g
    BY <1>3 DEF PQ_popMin, Last
  <2>2. N \in Nat /\ N >= 1 /\ L = N + 1 /\ 1 \in 1..N /\ w \in Nat
    BY <1>1, <1>3
  <2>3. Front(heap) = [i \in 1..N |-> heap[i]]
    <3> DEFINE a == Front(heap)
               b == [i \in 1..N |-> heap[i]]
    <3>1. a \in Seq(Nat) /\ Len(a) = N /\ \A i \in 1..N : a[i] = heap[i]
      <4>1. a = SubSeq(heap, 1, N)
        BY DEF Front
      <4>2. N \in Nat /\ N <= Len(heap)
        BY <2>2
      <4> HIDE DEF N, a
      <4>3. SubSeq(heap, 1, N) \in Seq(Nat) /\ Len(SubSeq(heap, 1, N)) = N
        BY <1>1, <4>2
      <4>4. \A i \in 1..N : SubSeq(heap, 1, N)[i] = heap[i]
        BY <1>1, <4>2
      <4> QED BY <4>1, <4>3, <4>4
    <3>2. b \in [1..N -> Nat]
      BY <1>1, <2>2
    <3>3. \A i \in 1..N : b[i] = heap[i]
      OBVIOUS
    <3> HIDE DEF a, b
    <3>4. b \in Seq(Nat) /\ Len(b) = N
      <4> HIDE DEF N
      <4> QED BY <2>2, <3>2, FunctionIsSeq
    <3>5. a = b
      <4> HIDE DEF N
      <4>1. Len(a) = Len(b) /\ \A i \in 1..Len(a) : a[i] = b[i]
        BY <3>1, <3>3, <3>4
      <4> QED BY <3>1, <3>4, <4>1, SeqsEqual
    <3> QED BY <3>5 DEF a, b
  <2>4. /\ h \in [1..N -> Nat] /\ h[1] = w
        /\ \A i \in 2..N : h[i] = heap[i]
    <3> HIDE DEF w
    <3>1. \A i \in 1..N : heap[i] \in Nat
      BY <1>1, <2>2
    <3> HIDE DEF N
    <3> QED BY <2>2, <2>3, <3>1
  <2>12. w = heap[L]
    OBVIOUS
  <2> HIDE DEF h, w, N
  <2>5. Len(h) = N
    BY <2>2, <2>4, FunctionIsSeq
  <2>6. OrderedAbove(h, 1, N)
    <3>1. ASSUME NEW i \in 2..N, i \div 2 # 1 PROVE h[i \div 2] <= h[i]
      <4>1. i \in 2..L /\ i \div 2 \in 2..N
        BY <2>2, <3>1, Halves
      <4>2. heap[i \div 2] <= heap[i]
        BY <1>1, <4>1 DEF Ordered
      <4> QED BY <2>4, <4>1, <4>2
    <3> QED BY <3>1 DEF OrderedAbove
  <2>7. Heapified(g, h, N)
    BY <2>2, <2>4, <2>5, <2>6, DownHeapifies
  <2> DEFINE t(i) == IF i = 1 THEN L ELSE i
  <2>8. /\ \A i \in 1..N : h[i] = heap[t(i)] /\ t(i) \in 2..L
        /\ \A i, j \in 1..N : t(i) = t(j) => i = j
        /\ \A k \in 2..L : \E i \in 1..N : t(i) = k
    <3>1. ASSUME NEW i \in 1..N PROVE h[i] = heap[t(i)] /\ t(i) \in 2..L
      <4>1. CASE i = 1
        BY <1>1, <1>3, <2>4, <2>12, <4>1
      <4>2. CASE i # 1
        BY <1>1, <2>2, <2>4, <4>2
      <4> QED BY <4>1, <4>2
    <3>2. \A i, j \in 1..N : t(i) = t(j) => i = j
      BY <1>1, <2>2
    <3>3. ASSUME NEW k \in 2..L PROVE \E i \in 1..N : t(i) = k
      <4>1. CASE k = L
        BY <2>2, <4>1
      <4>2. CASE k # L
        <5>1. k \in 1..N /\ k # 1
          BY <1>1, <2>2, <4>2
        <5> QED BY <5>1
      <4> QED BY <4>1, <4>2
    <3> HIDE DEF t
    <3> QED BY <3>1, <3>2, <3>3
  <2> HIDE DEF t
  <2>9. Unlike(h, N)
    <3> SUFFICES ASSUME NEW i \in 1..N, NEW j \in 1..N, h[i] = h[j] PROVE i = j
      BY DEF Unlike
    <3>1. heap[t(i)] = heap[t(j)] /\ t(i) \in 1..L /\ t(j) \in 1..L
      BY <1>1, <2>8
    <3>2. t(i) = t(j)
      BY <1>1, <3>1 DEF Unlike
    <3> QED BY <2>8, <3>2
  <2>10. Cells(h, N) = Cells(heap, L) \ {heap[1]}
    <3>0. 1 \in 1..L
      BY <1>1
    <3>1. ASSUME NEW v, v \in Cells(h, N) PROVE v \in Cells(heap, L) \ {heap[1]}
      <4>1. PICK i \in 1..N : v = h[i]
        BY <3>1 DEF Cells
      <4>2. v = heap[t(i)] /\ t(i) \in 1..L /\ t(i) # 1
        BY <1>1, <2>8, <4>1
      <4>3. v # heap[1]
        BY <1>1, <3>0, <4>2 DEF Unlike
      <4> QED BY <4>2, <4>3 DEF Cells
    <3>2. ASSUME NEW v, v \in Cells(heap, L) \ {heap[1]} PROVE v \in Cells(h, N)
      <4>1. PICK k \in 1..L : v = heap[k]
        BY <3>2 DEF Cells
      <4>2. k \in 2..L
        BY <1>1, <3>2, <4>1
      <4>3. PICK i \in 1..N : t(i) = k
        BY <2>8, <4>2
      <4>4. v = h[i]
        BY <2>8, <4>1, <4>3
      <4> QED BY <4>4 DEF Cells
    <3> QED BY <3>1, <3>2
  <2>11. g \in Heaps /\ ToSet(g) = Cells(h, N)
    BY <2>2, <2>7, <2>9, HeapifiedIsHeap
  <2> QED BY <1>1, <2>1, <2>10, <2>11
<1> QED BY <1>2, <1>3

-----------------------------------------------------------------------------
(* merge_sorted: the sorted runs of the input.                             *)
RunPairs == [start : Nat, end : Nat]

IsGrown(y, x, k) ==
    /\ y \in Seq(RunPairs) /\ Len(y) = Len(x)
    /\ \A i \in 1..Len(x) : /\ y[i].start = x[i].start
                              /\ y[i].end = IF i = Len(x) THEN k ELSE x[i].end

LEMMA GrowFacts ==
    ASSUME NEW x \in Seq(RunPairs), NEW k \in Nat
    PROVE  IsGrown([x EXCEPT ![Len(x)].end = k], x, k)
<1> DEFINE L == Len(x)
           last == [x[L] EXCEPT !.end = k]
           y == [x EXCEPT ![Len(x)].end = k]
<1>1. L \in Nat /\ x \in [1..L -> RunPairs]
  OBVIOUS
<1>2. y = [i \in 1..L |-> IF i = L THEN last ELSE x[i]]
  BY <1>1
<1>3. L \in 1..L => last \in RunPairs /\ last.start = x[L].start /\ last.end = k
  <2>1. ASSUME L \in 1..L PROVE x[L] \in RunPairs
    BY <1>1, <2>1
  <2> QED BY <2>1 DEF RunPairs
<1> HIDE DEF y, last, L
<1>4. ASSUME NEW i \in 1..L
      PROVE  y[i] \in RunPairs /\ y[i].start = x[i].start /\ y[i].end = IF i = L THEN k ELSE x[i].end
  <2>1. CASE i = L
    <3>1. y[i] = last
      BY <1>2, <2>1
    <3> QED BY <1>3, <2>1, <3>1
  <2>2. CASE i # L
    <3>1. y[i] = x[i]
      BY <1>2, <2>2
    <3> QED BY <1>1, <2>2, <3>1
  <2> QED BY <2>1, <2>2
<1>5. y \in [1..L -> RunPairs]
  BY <1>2, <1>4
<1>6. y \in Seq(RunPairs) /\ Len(y) = L
  BY <1>1, <1>5, FunctionIsSeq
<1> QED BY <1>4, <1>6 DEF IsGrown, y, L

(* getSortedRuns() after n elements.                                       *)
RunsRun(f, src) ==
    /\ f \in [0..Len(src) -> Seq(RunPairs)]
    /\ getSortedRuns(src) = f[Len(src)]
    /\ f[0] = <<>>
    /\ \A n \in 1..Len(src) : f[n] = (IF n > 1 /\ src[n] > src[n - 1] THEN [f[n - 1] EXCEPT ![Len(f[n - 1])].end = n] ELSE Append(f[n - 1], [start |-> n - 1, end |-> n]))

LEMMA RunsStates ==
    ASSUME NEW src \in Seq(Nat)
    PROVE  \E f : RunsRun(f, src)
<1> DEFINE N == Len(src)
           T == Seq(RunPairs)
           base == <<>>
           E(k, x) == (IF k > 1 /\ src[k] > src[k - 1] THEN [x EXCEPT ![Len(x)].end = k] ELSE Append(x, [start |-> k - 1, end |-> k]))
           step == [p \in (1..N) \X T |-> E(p[1], p[2])]
           value == CHOOSE f : f = [n \in 0..N |-> IF n = 0 THEN base ELSE E(n, f[n - 1])]
<1>1. N \in Nat
  OBVIOUS
<1>2. base \in T
  OBVIOUS
<1>3. ASSUME NEW k \in 1..N, NEW x \in T PROVE E(k, x) \in T
  <2>1. x \in Seq(RunPairs) /\ k \in Nat /\ k - 1 \in Nat
    OBVIOUS
  <2>2. [x EXCEPT ![Len(x)].end = k] \in Seq(RunPairs)
    BY <2>1, GrowFacts DEF IsGrown
  <2>3. Append(x, [start |-> k - 1, end |-> k]) \in Seq(RunPairs)
    <3> DEFINE v == [start |-> k - 1, end |-> k]
    <3>1. v \in RunPairs
      BY <2>1 DEF RunPairs
    <3> HIDE DEF v
    <3>2. Append(x, v) \in Seq(RunPairs)
      BY <2>1, <3>1, AppendFacts
    <3> QED BY <3>2 DEF v
  <2> QED BY <2>2, <2>3
<1>4. value = CHOOSE f : f = [n \in 0..N |-> IF n = 0 THEN base ELSE E(n, f[n - 1])]
  OBVIOUS
<1>5. getSortedRuns(src) = value[Len(src)]
  BY DEF getSortedRuns
<1> HIDE DEF N, T, base, E, value
<1>6. ASSUME NEW k \in 1..N, NEW x \in T PROVE step[<<k, x>>] = E(k, x)
  OBVIOUS
<1> HIDE DEF step
<1>7. PICK f \in [0..N -> T] : IsLoop(f, base, step, N)
  <2>1. \A k \in 1..N : \A x \in T : step[<<k, x>>] \in T
    <3> TAKE k \in 1..N
    <3> TAKE x \in T
    <3> QED BY <1>3, <1>6
  <2> QED BY <1>1, <1>2, <2>1, LoopExists
<1>8. f[0] = base /\ \A n \in 1..N : f[n] = E(n, f[n - 1])
  <2>1. LoopTurns(f, base, step, N, T)
    BY <1>1, <1>7, LoopFacts
  <2> QED BY <1>6, <2>1 DEF LoopTurns
<1>9. value = [n \in 0..N |-> IF n = 0 THEN base ELSE E(n, value[n - 1])]
  <2>1. f = [n \in 0..N |-> IF n = 0 THEN base ELSE E(n, f[n - 1])]
    BY <1>1, <1>7, <1>8
  <2> QED BY <1>4, <2>1
<1>10. value[0] = base /\ \A n \in 1..N : value[n] = E(n, value[n - 1])
  <2>1. 0 \in 0..N /\ \A n \in 1..N : n \in 0..N /\ n # 0
    BY <1>1
  <2> QED BY <1>9, <2>1
<1>11. value = [n \in 0..N |-> value[n]]
  BY <1>9
<1>12. f = value
  <2>1. ASSUME NEW n \in 1..N, f[n - 1] = value[n - 1] PROVE f[n] = value[n]
    BY <1>8, <1>10, <2>1
  <2>2. f = [n \in 0..N |-> f[n]] /\ f[0] = value[0]
    BY <1>7, <1>8, <1>10
  <2>3. SameTurns(f, value, N)
    BY <1>11, <2>1, <2>2 DEF SameTurns
  <2> QED BY <1>1, <2>3, SameLoop
<1>13. RunsRun(f, src)
  BY <1>5, <1>7, <1>8, <1>12 DEF RunsRun, N, T, base, E
<1> QED BY <1>13

(* The runs partition the first n elements, and each is increasing.        *)
InRun(run, k) == run.start < k /\ k <= run.end

IsRuns(runs, src, n) ==
    /\ runs \in Seq(RunPairs)
    /\ Len(runs) = 0 <=> n = 0
    /\ n # 0 => runs[1].start = 0 /\ runs[Len(runs)].end = n
    /\ \A i \in 1..Len(runs) : runs[i].start < runs[i].end /\ runs[i].end <= n
    /\ \A i \in 1..Len(runs) : i # 1 => runs[i].start = runs[i - 1].end
    /\ \A i, j \in 1..Len(runs) : i < j => runs[i].end <= runs[j].start
    /\ \A k \in 1..n : \E i \in 1..Len(runs) : InRun(runs[i], k)
    /\ \A i \in 1..Len(runs) : \A j, k \in 1..n :
           InRun(runs[i], j) /\ InRun(runs[i], k) /\ j < k => src[j] < src[k]

(* One more element extends the last run, or begins one.                   *)
LEMMA RunsTurn ==
    ASSUME NEW src \in Seq(Nat), NEW n \in 1..Len(src), NEW x, IsRuns(x, src, n - 1), NEW y,
           y = IF n > 1 /\ src[n] > src[n - 1] THEN [x EXCEPT ![Len(x)].end = n]
               ELSE Append(x, [start |-> n - 1, end |-> n])
    PROVE  IsRuns(y, src, n)
<1> DEFINE L == Len(x)
           N == Len(src)
           m == n - 1
<1>1. n \in Nat /\ m \in Nat /\ N \in Nat /\ \A k \in 1..N : src[k] \in Nat
  OBVIOUS
<1>0. n = m + 1 /\ n <= N
  BY <1>1
<1>8. ASSUME NEW e \in Nat, e <= m PROVE e <= n /\ e < n /\ ~(n <= e)
  BY <1>0, <1>1, <1>8
<1>2. /\ x \in Seq(RunPairs) /\ L \in Nat /\ \A i \in 1..L : x[i].start \in Nat /\ x[i].end \in Nat
  <2>1. x \in Seq(RunPairs)
    BY DEF IsRuns
  <2>2. \A i \in 1..L : x[i] \in RunPairs
    BY <2>1
  <2> QED BY <2>1, <2>2 DEF RunPairs
<1>3. /\ L = 0 <=> m = 0
      /\ m # 0 => x[1].start = 0 /\ x[L].end = m
      /\ \A i \in 1..L : x[i].start < x[i].end /\ x[i].end <= m
      /\ \A i \in 1..L : i # 1 => x[i].start = x[i - 1].end
      /\ \A i, j \in 1..L : i < j => x[i].end <= x[j].start
  BY DEF IsRuns
<1>4. \A k \in 1..m : \E i \in 1..L : InRun(x[i], k)
  BY DEF IsRuns
<1>5. \A i \in 1..L : \A j, k \in 1..m : InRun(x[i], j) /\ InRun(x[i], k) /\ j < k => src[j] < src[k]
  BY DEF IsRuns
<1>6. CASE n > 1 /\ src[n] > src[n - 1]
  <2>1. IsGrown(y, x, n)
    <3>1. y = [x EXCEPT ![Len(x)].end = n]
      BY <1>6
    <3> QED BY <1>1, <1>2, <3>1, GrowFacts
  <2>2. /\ y \in Seq(RunPairs) /\ Len(y) = L
        /\ \A i \in 1..L : y[i].start = x[i].start /\ y[i].end = IF i = L THEN n ELSE x[i].end
    BY <2>1 DEF IsGrown
  <2>3. m # 0 /\ L # 0 /\ L \in 1..L /\ 1 \in 1..L /\ src[n] > src[m]
    BY <1>0, <1>1, <1>2, <1>3, <1>6
  <2> HIDE DEF L, N, m
  <2>4. y[1].start = 0 /\ y[L].end = n
    BY <1>3, <2>2, <2>3
  <2>5. ASSUME NEW i \in 1..L PROVE y[i].start < y[i].end /\ y[i].end <= n
    <3> DEFINE b == x[i].start
               e == x[i].end
    <3>1. b \in Nat /\ e \in Nat /\ b < e /\ e <= m /\ y[i].start = b
      BY <1>2, <1>3, <2>2
    <3>2. y[i].end = n \/ y[i].end = e
      BY <2>2
    <3> HIDE DEF b, e
    <3>3. e <= n /\ b < n /\ n <= n
      BY <1>0, <1>1, <3>1
    <3> QED BY <3>1, <3>2, <3>3
  <2>6. ASSUME NEW i \in 1..L, i # 1 PROVE y[i].start = y[i - 1].end
    <3>0. L \in Nat
      BY <1>2
    <3>1. i - 1 \in 1..L /\ i - 1 # L
      BY <2>6, <3>0
    <3> QED BY <1>3, <2>2, <2>6, <3>1
  <2>7. ASSUME NEW i \in 1..L, NEW j \in 1..L, i < j PROVE y[i].end <= y[j].start
    <3>0. L \in Nat
      BY <1>2
    <3>1. i # L
      BY <2>7, <3>0
    <3>2. x[i].end <= x[j].start
      BY <1>3, <2>7
    <3>3. y[i].end = x[i].end /\ y[j].start = x[j].start
      BY <2>2, <3>1
    <3> QED BY <3>2, <3>3
  <2>8. ASSUME NEW i \in 1..L, NEW k \in 1..n, k # n PROVE k \in 1..m /\ (InRun(y[i], k) <=> InRun(x[i], k))
    <3>1. k \in 1..m
      BY <1>0, <1>1, <2>8
    <3>2. CASE i # L
      BY <2>2, <3>1, <3>2 DEF InRun
    <3>3. CASE i = L
      <4>1. y[i].start = x[i].start /\ y[i].end = n /\ x[i].end = m
        BY <1>3, <2>2, <2>3, <3>3
      <4>2. k <= m /\ k <= n
        BY <1>0, <1>1, <3>1
      <4> QED BY <3>1, <4>1, <4>2 DEF InRun
    <3> QED BY <3>1, <3>2, <3>3
  <2>9. ASSUME NEW i \in 1..L, InRun(y[i], n) PROVE i = L
    <3>1. CASE i # L
      <4>1. y[i].end <= m
        BY <1>3, <2>2, <3>1
      <4>2. y[i].end \in Nat
        BY <1>2, <2>2, <3>1
      <4>3. ~(n <= y[i].end)
        BY <1>8, <4>1, <4>2
      <4> QED BY <2>9, <4>3 DEF InRun
    <3> QED BY <3>1
  <2>10. InRun(y[L], n)
    BY <1>0, <1>1, <1>2, <1>3, <2>2, <2>3 DEF InRun
  <2>11. ASSUME NEW k \in 1..n PROVE \E i \in 1..L : InRun(y[i], k)
    <3>1. CASE k = n
      BY <2>3, <2>10, <3>1
    <3>2. CASE k # n
      <4>1. k \in 1..m
        BY <1>0, <1>1, <3>2
      <4>2. PICK i \in 1..L : InRun(x[i], k)
        BY <1>4, <4>1
      <4> QED BY <2>8, <3>2, <4>2
    <3> QED BY <3>1, <3>2
  <2>12. ASSUME NEW i \in 1..L, NEW j \in 1..n, NEW k \in 1..n, InRun(y[i], j), InRun(y[i], k), j < k
         PROVE  src[j] < src[k]
    <3>1. j # n
      BY <1>1, <2>12
    <3>2. j \in 1..m /\ InRun(x[i], j)
      BY <2>8, <2>12, <3>1
    <3>3. CASE k # n
      <4>1. k \in 1..m /\ InRun(x[i], k)
        BY <2>8, <2>12, <3>3
      <4> QED BY <1>5, <2>12, <3>2, <4>1
    <3>4. CASE k = n
      <4>1. i = L
        BY <2>9, <2>12, <3>4
      <4>2. m \in 1..m /\ m \in 1..N /\ n \in 1..N /\ j \in 1..N
        BY <1>0, <1>1, <2>3, <3>2
      <4>3. InRun(x[L], m)
        BY <1>0, <1>1, <1>2, <1>3, <2>3 DEF InRun
      <4>4. j = m \/ j < m
        BY <1>1, <3>2
      <4>5. j < m => src[j] < src[m]
        BY <1>5, <3>2, <4>1, <4>2, <4>3
      <4>6. src[j] \in Nat /\ src[m] \in Nat /\ src[n] \in Nat
        BY <1>1, <4>2
      <4>7. src[j] < src[n]
        BY <2>3, <4>4, <4>5, <4>6
      <4> QED BY <3>4, <4>7
    <3> QED BY <3>3, <3>4
  <2>13. n # 0 /\ (Len(y) = 0 <=> n = 0)
    BY <1>0, <1>1, <2>2, <2>3
  <2> QED BY <2>2, <2>4, <2>5, <2>6, <2>7, <2>11, <2>12, <2>13 DEF IsRuns
<1>7. CASE ~(n > 1 /\ src[n] > src[n - 1])
  <2> DEFINE v == [start |-> n - 1, end |-> n]
             M == L + 1
  <2>1. y = Append(x, v) /\ v.start = m /\ v.end = n /\ v \in RunPairs
    BY <1>1, <1>7 DEF RunPairs
  <2> HIDE DEF v
  <2>2. /\ y \in Seq(RunPairs) /\ Len(y) = M /\ M \in Nat
        /\ y[M] = v /\ \A i \in 1..L : y[i] = x[i]
    <3>1. /\ Append(x, v) \in Seq(RunPairs) /\ Len(Append(x, v)) = Len(x) + 1
          /\ \A i \in 1..Len(x) : Append(x, v)[i] = x[i]
          /\ Append(x, v)[Len(x) + 1] = v
      BY <1>2, <2>1, AppendFacts
    <3> QED BY <1>2, <2>1, <3>1
  <2>3. \A i \in 1..M : i = M \/ i \in 1..L
    BY <1>2
  <2>14. M = L + 1 /\ M \in 1..M /\ 1 \in 1..M /\ n # 0 /\ M # 0
    BY <1>0, <1>1, <1>2
  <2> HIDE DEF L, N, m, M
  <2>4. y[1].start = 0
    <3>1. CASE L = 0
      BY <1>3, <2>1, <2>2, <2>14, <3>1
    <3>2. CASE L # 0
      <4>1. 1 \in 1..L
        BY <1>2, <3>2
      <4> QED BY <1>3, <2>2, <3>2, <4>1
    <3> QED BY <3>1, <3>2
  <2>5. ASSUME NEW i \in 1..M PROVE y[i].start < y[i].end /\ y[i].end <= n
    <3>1. CASE i = M
      BY <1>0, <1>1, <2>1, <2>2, <3>1
    <3>2. CASE i \in 1..L
      <4>1. y[i] = x[i] /\ x[i].start < x[i].end /\ x[i].end <= m /\ x[i].end \in Nat
        BY <1>2, <1>3, <2>2, <3>2
      <4>2. x[i].end <= n
        BY <1>8, <4>1
      <4> QED BY <4>1, <4>2
    <3> QED BY <2>3, <3>1, <3>2
  <2>6. ASSUME NEW i \in 1..M, i # 1 PROVE y[i].start = y[i - 1].end
    <3>1. i - 1 \in 1..L
      BY <1>2, <2>6, <2>14
    <3>2. CASE i = M
      <4>1. i - 1 = L /\ m # 0
        BY <1>2, <1>3, <2>6, <2>14, <3>2
      <4> QED BY <1>3, <2>1, <2>2, <3>1, <3>2, <4>1
    <3>3. CASE i \in 1..L
      BY <1>3, <2>2, <2>6, <3>1, <3>3
    <3> QED BY <2>3, <3>2, <3>3
  <2>7. ASSUME NEW i \in 1..M, NEW j \in 1..M, i < j PROVE y[i].end <= y[j].start
    <3>1. i \in 1..L
      BY <1>2, <2>7, <2>14
    <3>2. CASE j = M
      <4>1. y[i] = x[i] /\ x[i].end <= m
        BY <1>3, <2>2, <3>1
      <4> QED BY <2>1, <2>2, <3>2, <4>1
    <3>3. CASE j \in 1..L
      BY <1>3, <2>2, <2>7, <3>1, <3>3
    <3> QED BY <2>3, <3>2, <3>3
  <2>8. ASSUME NEW k \in 1..n PROVE k # n => k \in 1..m
    BY <1>0, <1>1
  <2>9. ASSUME NEW k \in 1..n, InRun(y[M], k) PROVE k = n
    BY <1>0, <1>1, <2>1, <2>2, <2>9 DEF InRun
  <2>10. InRun(y[M], n)
    BY <1>0, <1>1, <2>1, <2>2 DEF InRun
  <2>15. ASSUME NEW i \in 1..L, InRun(y[i], n) PROVE FALSE
    <3>1. y[i] = x[i] /\ x[i].end <= m /\ x[i].end \in Nat
      BY <1>2, <1>3, <2>2
    <3>2. ~(n <= x[i].end)
      BY <1>8, <3>1
    <3> QED BY <2>15, <3>1, <3>2 DEF InRun
  <2>11. ASSUME NEW k \in 1..n PROVE \E i \in 1..M : InRun(y[i], k)
    <3>1. CASE k = n
      BY <2>10, <2>14, <3>1
    <3>2. CASE k # n
      <4>1. k \in 1..m
        BY <2>8, <3>2
      <4>2. PICK i \in 1..L : InRun(x[i], k)
        BY <1>4, <4>1
      <4>3. i \in 1..M
        BY <1>2, <2>14
      <4> QED BY <2>2, <4>2, <4>3
    <3> QED BY <3>1, <3>2
  <2>12. ASSUME NEW i \in 1..M, NEW j \in 1..n, NEW k \in 1..n, InRun(y[i], j), InRun(y[i], k), j < k
         PROVE  src[j] < src[k]
    <3>1. CASE i = M
      <4>1. j = n /\ k = n
        BY <2>9, <2>12, <3>1
      <4> QED BY <1>1, <2>12, <4>1
    <3>2. CASE i \in 1..L
      <4>1. j # n /\ k # n
        BY <2>12, <2>15, <3>2
      <4>2. j \in 1..m /\ k \in 1..m
        BY <2>8, <4>1
      <4>3. InRun(x[i], j) /\ InRun(x[i], k)
        BY <2>2, <2>12, <3>2
      <4> QED BY <1>5, <2>12, <3>2, <4>2, <4>3
    <3> QED BY <2>3, <3>1, <3>2
  <2>13. y[M].end = n /\ (Len(y) = 0 <=> n = 0)
    BY <2>1, <2>2, <2>14
  <2> QED BY <2>2, <2>4, <2>5, <2>6, <2>7, <2>11, <2>12, <2>13 DEF IsRuns
<1> QED BY <1>6, <1>7

(* getSortedRuns() partitions the input into increasing runs.              *)
LEMMA RunsFacts ==
    ASSUME NEW src \in Seq(Nat)
    PROVE  IsRuns(getSortedRuns(src), src, Len(src))
<1>1. PICK f : RunsRun(f, src)
  BY RunsStates
<1> DEFINE N == Len(src)
           S == {n \in 0..N : IsRuns(f[n], src, n)}
<1>2. N \in Nat /\ N \in 0..N /\ 0 \in 0..N
  OBVIOUS
<1>3. /\ f[0] = <<>> /\ getSortedRuns(src) = f[N]
      /\ \A n \in 1..N : f[n] = IF n > 1 /\ src[n] > src[n - 1] THEN [f[n - 1] EXCEPT ![Len(f[n - 1])].end = n]
                                  ELSE Append(f[n - 1], [start |-> n - 1, end |-> n])
  BY <1>1, Zenon DEF RunsRun
<1>4. 0 \in S
  <2>1. IsRuns(<<>>, src, 0)
    <3>1. <<>> \in Seq(RunPairs) /\ Len(<<>>) = 0
      OBVIOUS
    <3> QED BY <3>1 DEF IsRuns
  <2> QED BY <1>2, <1>3, <2>1
<1>5. ASSUME NEW n \in 1..N, n - 1 \in S PROVE n \in S
  <2>1. n \in 0..N /\ IsRuns(f[n - 1], src, n - 1)
    BY <1>2, <1>5
  <2> DEFINE x == f[n - 1]
             y == f[n]
  <2>2. y = IF n > 1 /\ src[n] > src[n - 1] THEN [x EXCEPT ![Len(x)].end = n]
            ELSE Append(x, [start |-> n - 1, end |-> n])
    BY <1>3, Zenon
  <2>3. IsRuns(x, src, n - 1)
    BY <2>1
  <2> HIDE DEF x, y
  <2>4. IsRuns(y, src, n)
    BY <2>2, <2>3, RunsTurn
  <2> QED BY <2>1, <2>4 DEF y
<1> HIDE DEF S
<1>6. \A n \in 0..N : n \in S
  BY <1>2, <1>4, <1>5, LoopInduction
<1> QED BY <1>2, <1>3, <1>6 DEF S

(* Where the runs lie.                                                     *)
LEMMA RunBounds ==
    ASSUME NEW src \in Seq(Nat), NEW runs, IsRuns(runs, src, Len(src)), NEW b \in 1..Len(runs)
    PROVE  /\ runs[b].start \in Nat /\ runs[b].end \in Nat
           /\ runs[b].start < runs[b].end /\ runs[b].end <= Len(src)
<1>1. runs[b] \in RunPairs
  BY DEF IsRuns
<1>2. runs[b].start \in Nat /\ runs[b].end \in Nat
  BY <1>1 DEF RunPairs
<1>3. runs[b].start < runs[b].end /\ runs[b].end <= Len(src)
  BY DEF IsRuns
<1> QED BY <1>2, <1>3

(* How far the runs were merged.                                           *)
Positions(runs) ==
    {p \in [1..Len(runs) -> Nat] :
        \A b \in 1..Len(runs) : runs[b].start <= p[b] /\ p[b] <= runs[b].end}
HeadsOf(src, runs, p) ==
    {src[p[b] + 1] : b \in {c \in 1..Len(runs) : p[c] # runs[c].end}}

(* The head of a run that is not used up is one of its elements.           *)
LEMMA HeadIsElement ==
    ASSUME NEW src \in Seq(Nat), NEW runs, IsRuns(runs, src, Len(src)), NEW p \in Positions(runs),
           NEW b \in 1..Len(runs), p[b] # runs[b].end
    PROVE  /\ p[b] \in Nat /\ p[b] + 1 \in 1..Len(src) /\ src[p[b] + 1] \in Nat
           /\ InRun(runs[b], p[b] + 1) /\ p[b] < runs[b].end
<1> DEFINE e == runs[b].end
           s == runs[b].start
           q == p[b]
           N == Len(src)
<1>1. e \in Nat /\ s \in Nat /\ s < e /\ e <= N /\ N \in Nat
  BY RunBounds
<1>2. q \in Nat /\ s <= q /\ q <= e /\ q # e
  BY DEF Positions
<1> HIDE DEF e, s, q, N
<1>3. q + 1 \in 1..N /\ s < q + 1 /\ q + 1 <= e /\ q < e
  BY <1>1, <1>2
<1>4. src[q + 1] \in Nat
  BY <1>3 DEF N
<1> QED BY <1>2, <1>3, <1>4 DEF e, s, q, N, InRun

(* Heads() after n runs.                                                   *)
HeadsRun(f, src, runs) ==
    /\ f \in [0..Len(runs) -> Heaps]
    /\ Heads(src, runs) = f[Len(runs)]
    /\ f[0] = <<>>
    /\ \A n \in 1..Len(runs) : f[n] = PQ_insert(f[n - 1], src[runs[n].start + 1])

LEMMA HeadsStates ==
    ASSUME NEW src \in Seq(Nat), NEW runs, IsRuns(runs, src, Len(src)), Len(runs) \in Nat
    PROVE  \E f : HeadsRun(f, src, runs)
<1> DEFINE N == Len(runs)
           T == Heaps
           base == <<>>
           E(k, x) == PQ_insert(x, src[runs[k].start + 1])
           step == [p \in (1..N) \X T |-> E(p[1], p[2])]
           value == CHOOSE f : f = [n \in 0..N |-> IF n = 0 THEN base ELSE E(n, f[n - 1])]
<1>1. N \in Nat
  OBVIOUS
<1>2. base \in T
  <2>1. <<>> \in Seq(Nat) /\ Len(<<>>) = 0
    OBVIOUS
  <2>2. Unlike(<<>>, 0) /\ Ordered(<<>>, 0)
    BY DEF Unlike, Ordered
  <2> QED BY <2>1, <2>2 DEF Heaps
<1>3. ASSUME NEW k \in 1..N, NEW x \in T PROVE E(k, x) \in T
  <2>1. x \in Heaps
    OBVIOUS
  <2>2. src[runs[k].start + 1] \in Nat
    <3> DEFINE e == runs[k].end
               s == runs[k].start
    <3>1. e \in Nat /\ s \in Nat /\ s < e /\ e <= Len(src)
      BY RunBounds
    <3> HIDE DEF e, s
    <3>2. s + 1 \in 1..Len(src)
      BY <3>1
    <3>3. src[s + 1] \in Nat
      BY <3>2
    <3> QED BY <3>3 DEF s
  <2> DEFINE v == src[runs[k].start + 1]
  <2> HIDE DEF v
  <2>3. v \in Nat
    BY <2>2 DEF v
  <2>4. PQ_insert(x, v) \in Heaps
    BY <2>1, <2>3, InsertFacts
  <2> QED BY <2>4 DEF v
<1>4. value = CHOOSE f : f = [n \in 0..N |-> IF n = 0 THEN base ELSE E(n, f[n - 1])]
  OBVIOUS
<1>5. Heads(src, runs) = value[Len(runs)]
  BY DEF Heads
<1> HIDE DEF N, T, base, E, value
<1>6. ASSUME NEW k \in 1..N, NEW x \in T PROVE step[<<k, x>>] = E(k, x)
  OBVIOUS
<1> HIDE DEF step
<1>7. PICK f \in [0..N -> T] : IsLoop(f, base, step, N)
  <2>1. \A k \in 1..N : \A x \in T : step[<<k, x>>] \in T
    <3> TAKE k \in 1..N
    <3> TAKE x \in T
    <3> QED BY <1>3, <1>6
  <2> QED BY <1>1, <1>2, <2>1, LoopExists
<1>8. f[0] = base /\ \A n \in 1..N : f[n] = E(n, f[n - 1])
  <2>1. LoopTurns(f, base, step, N, T)
    BY <1>1, <1>7, LoopFacts
  <2> QED BY <1>6, <2>1 DEF LoopTurns
<1>9. value = [n \in 0..N |-> IF n = 0 THEN base ELSE E(n, value[n - 1])]
  <2>1. f = [n \in 0..N |-> IF n = 0 THEN base ELSE E(n, f[n - 1])]
    BY <1>1, <1>7, <1>8
  <2> QED BY <1>4, <2>1
<1>10. value[0] = base /\ \A n \in 1..N : value[n] = E(n, value[n - 1])
  <2>1. 0 \in 0..N /\ \A n \in 1..N : n \in 0..N /\ n # 0
    BY <1>1
  <2> QED BY <1>9, <2>1
<1>11. value = [n \in 0..N |-> value[n]]
  BY <1>9
<1>12. f = value
  <2>1. ASSUME NEW n \in 1..N, f[n - 1] = value[n - 1] PROVE f[n] = value[n]
    BY <1>8, <1>10, <2>1
  <2>2. f = [n \in 0..N |-> f[n]] /\ f[0] = value[0]
    BY <1>7, <1>8, <1>10
  <2>3. SameTurns(f, value, N)
    BY <1>11, <2>1, <2>2 DEF SameTurns
  <2> QED BY <1>1, <2>3, SameLoop
<1>13. HeadsRun(f, src, runs)
  BY <1>5, <1>7, <1>8, <1>12 DEF HeadsRun, N, T, base, E
<1> QED BY <1>13

LEMMA RunsLen ==
    ASSUME NEW src, NEW n, NEW runs, IsRuns(runs, src, n)
    PROVE  Len(runs) \in Nat /\ DOMAIN runs = 1..Len(runs)
<1>1. runs \in Seq(RunPairs)
  BY DEF IsRuns
<1> QED BY <1>1

(* The heap before the first turn.                                         *)
Starts(runs) == [i \in DOMAIN runs |-> runs[i].start]

LEMMA HeadsFacts ==
    ASSUME NEW src \in Seq(Nat), NEW runs, IsRuns(runs, src, Len(src))
    PROVE  /\ Heads(src, runs) \in Heaps /\ Starts(runs) \in Positions(runs)
           /\ ToSet(Heads(src, runs)) = HeadsOf(src, runs, Starts(runs))
<1> DEFINE R == Len(runs)
           p == Starts(runs)
           v(b) == src[runs[b].start + 1]
<1>1. R \in Nat /\ DOMAIN runs = 1..R
  BY RunsLen
<1>2. PICK f : HeadsRun(f, src, runs)
  BY <1>1, HeadsStates
<1>3. /\ f \in [0..R -> Heaps] /\ f[0] = <<>> /\ Heads(src, runs) = f[R]
      /\ \A n \in 1..R : f[n] = PQ_insert(f[n - 1], v(n))
  BY <1>2, Zenon DEF HeadsRun
<1>4. p \in [1..R -> Nat] /\ \A b \in 1..R : p[b] = runs[b].start
  <2>1. \A b \in 1..R : runs[b].start \in Nat
    BY RunBounds
  <2> QED BY <1>1, <2>1 DEF Starts
<1>5. ASSUME NEW b \in 1..R
      PROVE  /\ runs[b].start <= p[b] /\ p[b] <= runs[b].end /\ p[b] # runs[b].end
             /\ v(b) = src[p[b] + 1]
  <2>1. runs[b].start \in Nat /\ runs[b].end \in Nat /\ runs[b].start < runs[b].end
    BY RunBounds
  <2> QED BY <1>4, <2>1
<1>6. p \in Positions(runs)
  <2> HIDE DEF p
  <2> QED BY <1>4, <1>5 DEF Positions
<1>7. \A b \in 1..R : v(b) \in Nat
  <2> HIDE DEF p
  <2> TAKE b \in 1..R
  <2>1. p[b] # runs[b].end /\ v(b) = src[p[b] + 1]
    BY <1>5
  <2>2. src[p[b] + 1] \in Nat
    BY <1>6, <2>1, HeadIsElement
  <2> QED BY <2>1, <2>2
<1> DEFINE S == {n \in 0..R : ToSet(f[n]) = {v(b) : b \in 1..n}}
<1>12. 0 \in 0..R /\ R \in 0..R
  BY <1>1
<1> HIDE DEF v, R, p
<1>8. 0 \in S
  <2>1. ToSet(<<>>) = {}
    BY DEF ToSet
  <2>2. {v(b) : b \in 1..0} = {}
    OBVIOUS
  <2> QED BY <1>3, <1>12, <2>1, <2>2
<1>9. ASSUME NEW n \in 1..R, n - 1 \in S PROVE n \in S
  <2>1. n - 1 \in 0..R /\ n \in 0..R /\ n \in Nat
    BY <1>1
  <2>2. f[n - 1] \in Heaps /\ v(n) \in Nat /\ f[n] = PQ_insert(f[n - 1], v(n))
    BY <1>3, <1>7, <2>1
  <2>3. ToSet(f[n]) = ToSet(f[n - 1]) \cup {v(n)}
    BY <2>2, InsertFacts
  <2>4. ToSet(f[n - 1]) = {v(b) : b \in 1..n - 1}
    BY <1>9
  <2>5. {v(b) : b \in 1..n - 1} \cup {v(n)} = {v(b) : b \in 1..n}
    <3>1. \A b \in 1..n : b = n \/ b \in 1..n - 1
      BY <2>1
    <3>2. n \in 1..n /\ \A b \in 1..n - 1 : b \in 1..n
      BY <2>1
    <3> QED BY <3>1, <3>2
  <2> QED BY <2>1, <2>3, <2>4, <2>5
<1> HIDE DEF S
<1>10. \A n \in 0..R : n \in S
  BY <1>1, <1>8, <1>9, LoopInduction
<1>11. ToSet(f[R]) = {v(b) : b \in 1..R} /\ f[R] \in Heaps
  BY <1>3, <1>10, <1>12 DEF S
<1>13. {v(b) : b \in 1..R} = HeadsOf(src, runs, p)
  <2>1. {c \in 1..R : p[c] # runs[c].end} = 1..R
    BY <1>5
  <2>2. {v(b) : b \in 1..R} = {src[p[b] + 1] : b \in 1..R}
    BY <1>5
  <2>3. HeadsOf(src, runs, p) = {src[p[b] + 1] : b \in {c \in 1..R : p[c] # runs[c].end}}
    BY DEF HeadsOf, R
  <2> QED BY <2>1, <2>2, <2>3
<1> QED BY <1>3, <1>6, <1>11, <1>13 DEF p

(* The inner loop.                                                         *)
TurnStates(runs) == [heap : Heaps, pos : Positions(runs), bitset : SUBSET (1..Len(runs))]

Advances(src, runs, p, b, min) == p[b] # runs[b].end /\ src[p[b] + 1] = min

IsAdvanced(r, x, src, runs, i, min) ==
    /\ r \in TurnStates(runs)
    /\ ~Advances(src, runs, x.pos, i, min) => r = x
    /\ Advances(src, runs, x.pos, i, min) =>
          /\ r.bitset = x.bitset \cup {i}
          /\ r.pos[i] = x.pos[i] + 1 /\ \A b \in 1..Len(runs) : b # i => r.pos[b] = x.pos[b]
          /\ r.heap = IF x.pos[i] + 1 = runs[i].end THEN x.heap ELSE PQ_insert(x.heap, src[x.pos[i] + 2])
          /\ x.pos[i] + 1 # runs[i].end => src[x.pos[i] + 2] \in Nat

LEMMA AdvanceFacts ==
    ASSUME NEW src \in Seq(Nat), NEW runs, IsRuns(runs, src, Len(src)), NEW x \in TurnStates(runs),
           NEW i \in 1..Len(runs), NEW min, NEW r, r = AdvanceRun(x, src, i, runs[i].end, min)
    PROVE  IsAdvanced(r, x, src, runs, i, min)
<1> DEFINE p == x.pos
           e == runs[i].end
           s == runs[i].start
           q == p[i]
           R == Len(runs)
<1>1. x.heap \in Heaps /\ p \in Positions(runs) /\ x.bitset \in SUBSET (1..R)
  BY DEF TurnStates
<1>2. CASE ~Advances(src, runs, p, i, min)
  <2>1. r = x
    BY <1>2 DEF AdvanceRun, Advances
  <2> QED BY <1>2, <2>1 DEF IsAdvanced
<1>3. CASE Advances(src, runs, p, i, min)
  <2> DEFINE h == IF q + 1 = e THEN x.heap ELSE PQ_insert(x.heap, src[q + 2])
             t == [p EXCEPT ![i] = @ + 1]
             w == x.bitset \cup {i}
  <2>1. r = [heap |-> h, pos |-> t, bitset |-> w]
    BY <1>3 DEF AdvanceRun, Advances
  <2>2. e \in Nat /\ s \in Nat /\ s < e /\ e <= Len(src) /\ Len(src) \in Nat
    BY RunBounds
  <2>3. q \in Nat /\ s <= q /\ q <= e /\ q # e
    BY <1>1, <1>3 DEF Positions, Advances
  <2> HIDE DEF e, s, q
  <2>4. q + 1 \in Nat /\ s <= q + 1 /\ q + 1 <= e
    BY <2>2, <2>3
  <2>5. q + 1 # e => src[q + 2] \in Nat
    <3>1. ASSUME q + 1 # e PROVE q + 2 \in 1..Len(src)
      BY <2>2, <2>3, <2>4, <3>1
    <3> QED BY <3>1
  <2>6. h \in Heaps
    <3>1. CASE q + 1 = e
      BY <1>1, <3>1
    <3>2. CASE q + 1 # e
      <4> DEFINE v == src[q + 2]
      <4>1. v \in Nat /\ h = PQ_insert(x.heap, v)
        BY <2>5, <3>2
      <4> HIDE DEF v, h
      <4>2. PQ_insert(x.heap, v) \in Heaps
        BY <1>1, <4>1, InsertFacts
      <4> QED BY <4>1, <4>2
    <3> QED BY <3>1, <3>2
  <2>7. /\ t \in [1..R -> Nat] /\ t[i] = q + 1 /\ \A b \in 1..R : b # i => t[b] = p[b]
    <3>1. p \in [1..R -> Nat]
      BY <1>1 DEF Positions
    <3> HIDE DEF p
    <3> QED BY <2>3, <3>1 DEF q
  <2>8. t \in Positions(runs)
    <3>1. ASSUME NEW b \in 1..R PROVE runs[b].start <= t[b] /\ t[b] <= runs[b].end
      <4>1. CASE b = i
        BY <2>4, <2>7, <4>1 DEF s, e
      <4>2. CASE b # i
        BY <1>1, <2>7, <4>2 DEF Positions
      <4> QED BY <4>1, <4>2
    <3> HIDE DEF t
    <3> QED BY <2>7, <3>1 DEF Positions
  <2> HIDE DEF h, t, R
  <2>9. w \in SUBSET (1..R)
    BY <1>1 DEF R
  <2> HIDE DEF w
  <2>10. r \in TurnStates(runs) /\ r.heap = h /\ r.pos = t /\ r.bitset = w
    BY <2>1, <2>6, <2>8, <2>9 DEF TurnStates, R
  <2> QED BY <1>3, <2>5, <2>7, <2>10 DEF IsAdvanced, w, h, q, e, R
<1> QED BY <1>2, <1>3

(* The inner loop of ZL_MergeSorted_merge() after n runs.                  *)
TurnRun(f, m, src, runs) ==
    /\ f \in [0..Len(runs) -> TurnStates(runs)]
    /\ MergeTurn(m, src, runs) = [heap |-> f[Len(runs)].heap, pos |-> f[Len(runs)].pos, merged |-> Append(m.merged, m.heap[1]), bitsets |-> Append(m.bitsets, f[Len(runs)].bitset)]
    /\ f[0] = [heap |-> PQ_popMin(m.heap), pos |-> m.pos, bitset |-> {}]
    /\ \A n \in 1..Len(runs) : f[n] = AdvanceRun(f[n - 1], src, n, runs[n].end, m.heap[1])

LEMMA TurnRunStates ==
    ASSUME NEW src \in Seq(Nat), NEW runs, IsRuns(runs, src, Len(src)), Len(runs) \in Nat, NEW m,
           m.heap \in Heaps, m.heap # <<>>, m.pos \in Positions(runs)
    PROVE  \E f : TurnRun(f, m, src, runs)
<1> DEFINE N == Len(runs)
           T == TurnStates(runs)
           base == [heap |-> PQ_popMin(m.heap), pos |-> m.pos, bitset |-> {}]
           E(k, x) == AdvanceRun(x, src, k, runs[k].end, m.heap[1])
           step == [p \in (1..N) \X T |-> E(p[1], p[2])]
           value == CHOOSE f : f = [n \in 0..N |-> IF n = 0 THEN base ELSE E(n, f[n - 1])]
<1>1. N \in Nat
  OBVIOUS
<1>2. base \in T
  <2>1. PQ_popMin(m.heap) \in Heaps
    BY PopFacts
  <2> QED BY <2>1 DEF TurnStates
<1>3. ASSUME NEW k \in 1..N, NEW x \in T PROVE E(k, x) \in T
  <2> DEFINE r == AdvanceRun(x, src, k, runs[k].end, m.heap[1])
  <2>1. IsAdvanced(r, x, src, runs, k, m.heap[1])
    BY AdvanceFacts
  <2>2. r \in TurnStates(runs)
    BY <2>1 DEF IsAdvanced
  <2> QED BY <2>2
<1>4. value = CHOOSE f : f = [n \in 0..N |-> IF n = 0 THEN base ELSE E(n, f[n - 1])]
  OBVIOUS
<1>5. MergeTurn(m, src, runs) = [heap |-> value[Len(runs)].heap, pos |-> value[Len(runs)].pos, merged |-> Append(m.merged, m.heap[1]), bitsets |-> Append(m.bitsets, value[Len(runs)].bitset)]
  BY DEF MergeTurn
<1> HIDE DEF N, T, base, E, value
<1>6. ASSUME NEW k \in 1..N, NEW x \in T PROVE step[<<k, x>>] = E(k, x)
  OBVIOUS
<1> HIDE DEF step
<1>7. PICK f \in [0..N -> T] : IsLoop(f, base, step, N)
  <2>1. \A k \in 1..N : \A x \in T : step[<<k, x>>] \in T
    <3> TAKE k \in 1..N
    <3> TAKE x \in T
    <3> QED BY <1>3, <1>6
  <2> QED BY <1>1, <1>2, <2>1, LoopExists
<1>8. f[0] = base /\ \A n \in 1..N : f[n] = E(n, f[n - 1])
  <2>1. LoopTurns(f, base, step, N, T)
    BY <1>1, <1>7, LoopFacts
  <2> QED BY <1>6, <2>1 DEF LoopTurns
<1>9. value = [n \in 0..N |-> IF n = 0 THEN base ELSE E(n, value[n - 1])]
  <2>1. f = [n \in 0..N |-> IF n = 0 THEN base ELSE E(n, f[n - 1])]
    BY <1>1, <1>7, <1>8
  <2> QED BY <1>4, <2>1
<1>10. value[0] = base /\ \A n \in 1..N : value[n] = E(n, value[n - 1])
  <2>1. 0 \in 0..N /\ \A n \in 1..N : n \in 0..N /\ n # 0
    BY <1>1
  <2> QED BY <1>9, <2>1
<1>11. value = [n \in 0..N |-> value[n]]
  BY <1>9
<1>12. f = value
  <2>1. ASSUME NEW n \in 1..N, f[n - 1] = value[n - 1] PROVE f[n] = value[n]
    BY <1>8, <1>10, <2>1
  <2>2. f = [n \in 0..N |-> f[n]] /\ f[0] = value[0]
    BY <1>7, <1>8, <1>10
  <2>3. SameTurns(f, value, N)
    BY <1>11, <2>1, <2>2 DEF SameTurns
  <2> QED BY <1>1, <2>3, SameLoop
<1>13. TurnRun(f, m, src, runs)
  BY <1>5, <1>7, <1>8, <1>12 DEF TurnRun, N, T, base, E
<1> QED BY <1>13

(* After n runs of a turn: those of the first n whose head is the value    *)
(* popped were advanced, and the heap holds the other heads.               *)
TurnKept(x, n, src, runs, p, min) ==
    /\ x \in TurnStates(runs)
    /\ \A b \in 1..Len(runs) :
          x.pos[b] = IF b <= n /\ Advances(src, runs, p, b, min) THEN p[b] + 1 ELSE p[b]
    /\ x.bitset = {b \in 1..n : Advances(src, runs, p, b, min)}
    /\ ToSet(x.heap) = HeadsOf(src, runs, x.pos) \ {min}

(* A run is increasing: what follows a head is larger.                     *)
LEMMA NextIsLarger ==
    ASSUME NEW src \in Seq(Nat), NEW runs, IsRuns(runs, src, Len(src)), NEW p \in Positions(runs),
           NEW b \in 1..Len(runs), p[b] # runs[b].end, NEW k \in Nat, p[b] + 1 < k, k <= runs[b].end
    PROVE  k \in 1..Len(src) /\ InRun(runs[b], k) /\ src[p[b] + 1] < src[k]
<1> DEFINE e == runs[b].end
           s == runs[b].start
           q == p[b]
           N == Len(src)
<1>1. e \in Nat /\ s \in Nat /\ s < e /\ e <= N /\ N \in Nat
  BY RunBounds
<1>2. q \in Nat /\ q + 1 \in 1..N /\ InRun(runs[b], q + 1)
  BY HeadIsElement
<1>3. s < q + 1 /\ q + 1 < k /\ k <= e
  BY <1>2 DEF InRun
<1> HIDE DEF e, s, q, N
<1>4. k \in 1..N /\ s < k
  BY <1>1, <1>2, <1>3
<1>5. InRun(runs[b], k)
  BY <1>3, <1>4 DEF InRun, s, e
<1>6. src[q + 1] < src[k]
  BY <1>2, <1>3, <1>4, <1>5 DEF IsRuns, N
<1> QED BY <1>4, <1>5, <1>6 DEF q, N

(* One more run of a turn.                                                 *)
LEMMA TurnStep ==
    ASSUME NEW src \in Seq(Nat), NEW runs, IsRuns(runs, src, Len(src)), NEW p \in Positions(runs),
           NEW min, NEW n \in 1..Len(runs), NEW x, TurnKept(x, n - 1, src, runs, p, min),
           NEW r, r = AdvanceRun(x, src, n, runs[n].end, min)
    PROVE  TurnKept(r, n, src, runs, p, min)
<1> DEFINE R == Len(runs)
           Adv(b) == Advances(src, runs, p, b, min)
<1>0. R \in Nat /\ n \in Nat /\ n \in 1..R
  BY RunsLen
<1>1. /\ x \in TurnStates(runs)
      /\ \A b \in 1..R : x.pos[b] = IF b <= n - 1 /\ Adv(b) THEN p[b] + 1 ELSE p[b]
      /\ x.bitset = {b \in 1..n - 1 : Adv(b)}
      /\ ToSet(x.heap) = HeadsOf(src, runs, x.pos) \ {min}
  BY DEF TurnKept
<1>2. IsAdvanced(r, x, src, runs, n, min)
  BY <1>1, AdvanceFacts
<1>3. x.pos[n] = p[n]
  BY <1>0, <1>1
<1>4. Advances(src, runs, x.pos, n, min) <=> Adv(n)
  BY <1>3 DEF Advances
<1>5. r \in TurnStates(runs)
  BY <1>2 DEF IsAdvanced
<1>6. x.heap \in Heaps /\ x.pos \in Positions(runs)
  BY <1>1 DEF TurnStates
<1>7. CASE ~Adv(n)
  <2>1. r = x
    BY <1>2, <1>4, <1>7 DEF IsAdvanced
  <2>2. \A b \in 1..R : (b <= n /\ Adv(b)) <=> (b <= n - 1 /\ Adv(b))
    <3> TAKE b \in 1..R
    <3>1. b <= n <=> b <= n - 1 \/ b = n
      BY <1>0
    <3> HIDE DEF Adv
    <3> QED BY <1>7, <3>1
  <2>3. {b \in 1..n : Adv(b)} = {b \in 1..n - 1 : Adv(b)}
    <3>1. \A b : b \in 1..n <=> b \in 1..n - 1 \/ b = n
      BY <1>0
    <3> HIDE DEF Adv
    <3> QED BY <1>7, <3>1
  <2>4. \A b \in 1..R : r.pos[b] = IF b <= n /\ Adv(b) THEN p[b] + 1 ELSE p[b]
    <3> HIDE DEF Adv
    <3> QED BY <1>1, <2>1, <2>2
  <2>5. r.bitset = {b \in 1..n : Adv(b)}
    BY <1>1, <2>1, <2>3
  <2>6. ToSet(r.heap) = HeadsOf(src, runs, r.pos) \ {min}
    BY <1>1, <2>1
  <2> QED BY <1>5, <2>4, <2>5, <2>6 DEF TurnKept
<1>8. CASE Adv(n)
  <2>1. /\ r.bitset = x.bitset \cup {n}
        /\ r.pos[n] = p[n] + 1 /\ \A b \in 1..R : b # n => r.pos[b] = x.pos[b]
        /\ r.heap = IF p[n] + 1 = runs[n].end THEN x.heap ELSE PQ_insert(x.heap, src[p[n] + 2])
        /\ p[n] + 1 # runs[n].end => src[p[n] + 2] \in Nat
    BY <1>2, <1>3, <1>4, <1>8 DEF IsAdvanced
  <2>2. ASSUME NEW b \in 1..R PROVE r.pos[b] = IF b <= n /\ Adv(b) THEN p[b] + 1 ELSE p[b]
    <3>1. CASE b = n
      <4> HIDE DEF Adv
      <4> QED BY <1>0, <1>8, <2>1, <3>1
    <3>2. CASE b # n
      <4>1. b <= n <=> b <= n - 1
        BY <1>0, <3>2
      <4> HIDE DEF Adv
      <4> QED BY <1>1, <2>1, <3>2, <4>1
    <3> QED BY <3>1, <3>2
  <2>3. r.bitset = {b \in 1..n : Adv(b)}
    <3>1. \A b : b \in 1..n <=> b \in 1..n - 1 \/ b = n
      BY <1>0
    <3> HIDE DEF Adv
    <3> QED BY <1>1, <1>8, <2>1, <3>1
  <2>4. p[n] # runs[n].end /\ src[p[n] + 1] = min
    BY <1>8 DEF Advances
  <2> DEFINE Open(t, b) == t[b] # runs[b].end
             H == HeadsOf(src, runs, x.pos)
             G == HeadsOf(src, runs, r.pos)
             q == p[n]
             e == runs[n].end
             v == src[q + 2]
  <2>5. \A y : y \in H <=> \E b \in 1..R : x.pos[b] # runs[b].end /\ y = src[x.pos[b] + 1]
    BY DEF HeadsOf
  <2>6. \A y : y \in G <=> \E b \in 1..R : r.pos[b] # runs[b].end /\ y = src[r.pos[b] + 1]
    BY DEF HeadsOf
  <2>7. q \in Nat /\ (q + 1) + 1 = q + 2 /\ e \in Nat /\ q < e
    <3>1. q \in Nat /\ q < e
      BY <2>4, HeadIsElement
    <3>2. e \in Nat
      BY RunBounds
    <3> QED BY <3>1, <3>2
  <2>8. q + 1 # e => v \in Nat /\ v # min
    <3>1. ASSUME q + 1 # e PROVE v \in Nat /\ v # min
      <4>0. q + 2 \in Nat /\ q + 1 < q + 2 /\ q + 2 <= e
        <5> HIDE DEF q, e
        <5> QED BY <2>7, <3>1
      <4>1. src[p[n] + 1] < src[p[n] + 2]
        BY <2>4, <4>0, NextIsLarger
      <4>2. v \in Nat
        BY <2>1, <3>1
      <4>3. src[p[n] + 1] \in Nat
        BY <2>4, HeadIsElement
      <4> QED BY <2>4, <4>1, <4>2, <4>3
    <3> QED BY <3>1
  <2> HIDE DEF H, G
  <2>9. ASSUME NEW y PROVE y \in G \ {min} <=> (y \in H \ {min} \/ (q + 1 # e /\ y = v))
    <3>1. ASSUME y \in G \ {min} PROVE y \in H \ {min} \/ (q + 1 # e /\ y = v)
      <4>1. PICK b \in 1..R : r.pos[b] # runs[b].end /\ y = src[r.pos[b] + 1]
        BY <2>6, <3>1
      <4>2. CASE b = n
        BY <2>1, <2>7, <4>1, <4>2
      <4>3. CASE b # n
        BY <2>1, <2>5, <3>1, <4>1, <4>3
      <4> QED BY <4>2, <4>3
    <3>2. ASSUME y \in H \ {min} PROVE y \in G \ {min}
      <4>1. PICK b \in 1..R : x.pos[b] # runs[b].end /\ y = src[x.pos[b] + 1]
        BY <2>5, <3>2
      <4>2. b # n
        BY <1>3, <2>4, <3>2, <4>1
      <4> QED BY <2>1, <2>6, <3>2, <4>1, <4>2
    <3>3. ASSUME q + 1 # e, y = v PROVE y \in G \ {min}
      <4>1. r.pos[n] # runs[n].end /\ y = src[r.pos[n] + 1]
        BY <2>1, <2>7, <3>3
      <4>2. y \in G
        BY <1>0, <2>6, <4>1
      <4>3. y # min
        BY <2>8, <3>3
      <4> QED BY <4>2, <4>3
    <3> QED BY <3>1, <3>2, <3>3
  <2>10. ToSet(r.heap) = G \ {min}
    <3>1. CASE q + 1 = e
      <4>1. r.heap = x.heap
        BY <2>1, <3>1
      <4>2. \A y : y \in G \ {min} <=> y \in H \ {min}
        <5> HIDE DEF q, e, v
        <5> QED BY <2>9, <3>1
      <4>3. ToSet(x.heap) = H \ {min}
        BY <1>1 DEF H
      <4> QED BY <4>1, <4>2, <4>3
    <3>2. CASE q + 1 # e
      <4>1. r.heap = PQ_insert(x.heap, v) /\ v \in Nat
        BY <2>1, <3>2
      <4>2. ToSet(x.heap) = H \ {min}
        BY <1>1 DEF H
      <4>5. \A y : y \in G \ {min} <=> (y \in H \ {min} \/ y = v)
        <5> HIDE DEF q, e, v
        <5> QED BY <2>9, <3>2
      <4> HIDE DEF v
      <4>3. ToSet(PQ_insert(x.heap, v)) = ToSet(x.heap) \cup {v}
        BY <1>6, <4>1, InsertFacts
      <4>4. G \ {min} = (H \ {min}) \cup {v}
        BY <4>5
      <4> QED BY <4>1, <4>2, <4>3, <4>4
    <3> QED BY <3>1, <3>2
  <2> QED BY <1>5, <2>2, <2>3, <2>10 DEF TurnKept, G
<1> QED BY <1>7, <1>8

(* What a turn does.                                                       *)
IsTurn(r, m, src, runs) ==
    LET min == m.heap[1]
        Adv(b) == Advances(src, runs, m.pos, b, min)
    IN  /\ r.heap \in Heaps /\ r.pos \in Positions(runs)
        /\ ToSet(r.heap) = HeadsOf(src, runs, r.pos) \ {min}
        /\ \A b \in 1..Len(runs) : r.pos[b] = IF Adv(b) THEN m.pos[b] + 1 ELSE m.pos[b]
        /\ r.merged = Append(m.merged, min)
        /\ r.bitsets = Append(m.bitsets, {b \in 1..Len(runs) : Adv(b)})

LEMMA TurnFacts ==
    ASSUME NEW src \in Seq(Nat), NEW runs, IsRuns(runs, src, Len(src)), NEW m,
           m.heap \in Heaps, m.heap # <<>>, m.pos \in Positions(runs),
           ToSet(m.heap) = HeadsOf(src, runs, m.pos),
           NEW r, r = MergeTurn(m, src, runs)
    PROVE  IsTurn(r, m, src, runs)
<1> DEFINE R == Len(runs)
           p == m.pos
           min == m.heap[1]
<1>1. R \in Nat /\ 0 \in 0..R /\ R \in 0..R
  <2>1. R \in Nat
    BY RunsLen
  <2> QED BY <2>1
<1>2. PICK f : TurnRun(f, m, src, runs)
  BY <1>1, TurnRunStates
<1>3. /\ f \in [0..R -> TurnStates(runs)]
      /\ r = [heap |-> f[R].heap, pos |-> f[R].pos, merged |-> Append(m.merged, min), bitsets |-> Append(m.bitsets, f[R].bitset)]
      /\ f[0] = [heap |-> PQ_popMin(m.heap), pos |-> m.pos, bitset |-> {}]
      /\ \A n \in 1..R : f[n] = AdvanceRun(f[n - 1], src, n, runs[n].end, min)
  BY <1>2, Zenon DEF TurnRun
<1> DEFINE S == {n \in 0..R : TurnKept(f[n], n, src, runs, p, min)}
<1>4. 0 \in S
  <2>1. f[0].heap = PQ_popMin(m.heap) /\ f[0].pos = p /\ f[0].bitset = {} /\ f[0] \in TurnStates(runs)
    <3>1. f[0] = [heap |-> PQ_popMin(m.heap), pos |-> p, bitset |-> {}] /\ f \in [0..R -> TurnStates(runs)]
      BY <1>3, Zenon
    <3>2. f[0] \in TurnStates(runs)
      BY <1>1, <3>1
    <3>3. f[0] = [heap |-> PQ_popMin(m.heap), pos |-> p, bitset |-> {}]
      BY <3>1, Zenon
    <3> QED BY <3>2, <3>3
  <2>2. ToSet(PQ_popMin(m.heap)) = ToSet(m.heap) \ {min}
    BY PopFacts
  <2>3. {b \in 1..0 : Advances(src, runs, p, b, min)} = {}
    OBVIOUS
  <2>4. \A b \in 1..R : ~(b <= 0)
    BY <1>1
  <2>5. \A b \in 1..R : f[0].pos[b] = IF b <= 0 /\ Advances(src, runs, p, b, min) THEN p[b] + 1 ELSE p[b]
    BY <2>1, <2>4
  <2>6. ToSet(f[0].heap) = HeadsOf(src, runs, f[0].pos) \ {min}
    BY <2>1, <2>2
  <2>7. TurnKept(f[0], 0, src, runs, p, min)
    <3> HIDE DEF min, p
    <3> QED BY <2>1, <2>3, <2>5, <2>6 DEF TurnKept
  <2> QED BY <1>1, <2>7
<1>5. ASSUME NEW n \in 1..R, n - 1 \in S PROVE n \in S
  <2>1. n \in 0..R
    BY <1>1
  <2>2. TurnKept(f[n - 1], n - 1, src, runs, p, min) /\ f[n] = AdvanceRun(f[n - 1], src, n, runs[n].end, min)
    BY <1>3, <1>5
  <2>3. TurnKept(f[n], n, src, runs, p, min)
    BY <2>2, TurnStep
  <2> QED BY <2>1, <2>3
<1> HIDE DEF S
<1>6. \A n \in 0..R : n \in S
  BY <1>1, <1>4, <1>5, LoopInduction
<1>7. TurnKept(f[R], R, src, runs, p, min)
  BY <1>1, <1>6 DEF S
<1> DEFINE x == f[R]
<1>10. /\ r.heap = x.heap /\ r.pos = x.pos
       /\ r.merged = Append(m.merged, min) /\ r.bitsets = Append(m.bitsets, x.bitset)
  BY <1>3
<1> HIDE DEF x
<1>8. /\ x.heap \in Heaps /\ x.pos \in Positions(runs)
      /\ ToSet(x.heap) = HeadsOf(src, runs, x.pos) \ {min}
      /\ x.bitset = {b \in 1..R : Advances(src, runs, p, b, min)}
  BY <1>7 DEF TurnKept, TurnStates, x
<1>9. ASSUME NEW b \in 1..R PROVE x.pos[b] = IF Advances(src, runs, p, b, min) THEN p[b] + 1 ELSE p[b]
  <2>1. b <= R
    BY <1>1
  <2> QED BY <1>7, <2>1 DEF TurnKept, x
<1> HIDE DEF min, p, R
<1> QED BY <1>8, <1>9, <1>10 DEF IsTurn, min, p, R

(* The runs that contain a value.                                          *)
RunsWith(src, runs, v) ==
    {b \in DOMAIN runs : \E k \in (runs[b].start + 1)..runs[b].end : v = src[k]}

(* Merging, between two turns.                                             *)
MergeStates(src, runs) ==
    {m \in [heap : Heaps, pos : Positions(runs), merged : Seq(Nat), bitsets : Seq(SUBSET (1..Len(runs)))] :
        /\ Len(m.bitsets) = Len(m.merged)
        /\ ToSet(m.heap) = HeadsOf(src, runs, m.pos)
        /\ \A i, j \in 1..Len(m.merged) : i < j => m.merged[i] < m.merged[j]
        /\ \A i \in 1..Len(m.merged) : \A h \in HeadsOf(src, runs, m.pos) : m.merged[i] < h
        /\ \A b \in 1..Len(runs) : \A k \in 1..Len(src) :
              runs[b].start < k /\ k <= m.pos[b] => src[k] \in Cells(m.merged, Len(m.merged))
        /\ \A i \in 1..Len(m.merged) : m.merged[i] \in Cells(src, Len(src))
        /\ \A i \in 1..Len(m.merged) : m.bitsets[i] = RunsWith(src, runs, m.merged[i])}

(* A run contains the least head exactly if that is its own head.          *)
LEMMA AdvancersHold ==
    ASSUME NEW src \in Seq(Nat), NEW runs, IsRuns(runs, src, Len(src)), NEW m \in MergeStates(src, runs),
           NEW min \in HeadsOf(src, runs, m.pos), \A h \in HeadsOf(src, runs, m.pos) : min <= h
    PROVE  {b \in 1..Len(runs) : Advances(src, runs, m.pos, b, min)} = RunsWith(src, runs, min)
<1> DEFINE p == m.pos
           R == Len(runs)
           H == HeadsOf(src, runs, p)
           N == Len(src)
<1>1. DOMAIN runs = 1..R /\ p \in Positions(runs) /\ min \in H /\ \A h \in H : min <= h
  BY RunsLen DEF MergeStates
<1>2. /\ m.merged \in Seq(Nat)
      /\ \A i \in 1..Len(m.merged) : \A h \in H : m.merged[i] < h
      /\ \A b \in 1..R : \A k \in 1..N :
            runs[b].start < k /\ k <= p[b] => src[k] \in Cells(m.merged, Len(m.merged))
  BY DEF MergeStates
<1>3. \A b \in 1..R : p[b] # runs[b].end => src[p[b] + 1] \in H
  BY DEF HeadsOf
<1>10. min \in Nat
  <2>1. PICK b \in 1..R : p[b] # runs[b].end /\ min = src[p[b] + 1]
    BY <1>1 DEF HeadsOf
  <2> QED BY <1>1, <2>1, HeadIsElement
<1> HIDE DEF p, R, H, N
<1>4. ASSUME NEW b \in 1..R, Advances(src, runs, p, b, min) PROVE b \in RunsWith(src, runs, min)
  <2>1. p[b] # runs[b].end /\ src[p[b] + 1] = min
    BY <1>4 DEF Advances
  <2>2. InRun(runs[b], p[b] + 1) /\ p[b] + 1 \in Nat
    BY <1>1, <2>1, HeadIsElement DEF R
  <2>3. runs[b].start \in Nat /\ runs[b].end \in Nat
    BY RunBounds DEF R
  <2>4. p[b] + 1 \in (runs[b].start + 1)..runs[b].end
    <3> DEFINE s == runs[b].start
               e == runs[b].end
               k == p[b] + 1
    <3>1. s \in Nat /\ e \in Nat /\ k \in Nat /\ s < k /\ k <= e
      BY <2>2, <2>3 DEF InRun
    <3> HIDE DEF s, e, k
    <3>2. k \in (s + 1)..e
      BY <3>1
    <3> QED BY <3>2 DEF s, e, k
  <2> QED BY <1>1, <2>1, <2>4 DEF RunsWith
<1>5. ASSUME NEW b \in RunsWith(src, runs, min) PROVE b \in 1..R /\ Advances(src, runs, p, b, min)
  <2>1. b \in 1..R /\ \E k \in (runs[b].start + 1)..runs[b].end : min = src[k]
    BY <1>1, <1>5 DEF RunsWith
  <2>2. PICK k \in (runs[b].start + 1)..runs[b].end : min = src[k]
    BY <2>1
  <2> DEFINE s == runs[b].start
             e == runs[b].end
             q == p[b]
  <2>3. s \in Nat /\ e \in Nat /\ s < e /\ e <= N /\ N \in Nat
    BY <2>1, RunBounds DEF R, N
  <2>4. q \in Nat /\ q <= e /\ s <= q
    BY <1>1, <2>1 DEF Positions, R
  <2>5. k \in Nat /\ s < k /\ k <= e /\ k \in 1..N
    <3> HIDE DEF s, e
    <3> QED BY <2>3 DEF s, e
  <2>6. ~(k <= q)
    <3> SUFFICES ASSUME k <= q PROVE FALSE
      OBVIOUS
    <3>1. min \in Cells(m.merged, Len(m.merged))
      BY <1>2, <2>1, <2>2, <2>5
    <3>2. PICK i \in 1..Len(m.merged) : min = m.merged[i]
      BY <3>1 DEF Cells
    <3>3. m.merged[i] < min
      BY <1>1, <1>2
    <3> QED BY <1>10, <3>2, <3>3
  <2>7. q # e
    <3> HIDE DEF q, e, s
    <3> QED BY <2>3, <2>4, <2>5, <2>6
  <2>8. src[q + 1] \in H /\ min <= src[q + 1] /\ src[q + 1] \in Nat
    <3>1. src[q + 1] \in H
      BY <1>3, <2>1, <2>7
    <3>2. src[q + 1] \in Nat
      BY <1>1, <2>1, <2>7, HeadIsElement DEF R
    <3> QED BY <1>1, <3>1, <3>2
  <2>9. ~(q + 1 < k)
    <3> SUFFICES ASSUME q + 1 < k PROVE FALSE
      OBVIOUS
    <3>1. src[p[b] + 1] < src[k]
      BY <1>1, <2>1, <2>5, <2>7, NextIsLarger DEF R
    <3> QED BY <1>10, <2>2, <2>8, <3>1
  <2>10. k = q + 1
    <3> HIDE DEF q, e, s
    <3> QED BY <2>4, <2>5, <2>6, <2>9
  <2> QED BY <2>1, <2>2, <2>7, <2>10 DEF Advances
<1>6. \A b : b \in {c \in 1..R : Advances(src, runs, p, c, min)} <=> b \in RunsWith(src, runs, min)
  BY <1>4, <1>5
<1>7. {c \in 1..R : Advances(src, runs, p, c, min)} = RunsWith(src, runs, min)
  BY <1>6
<1> QED BY <1>7 DEF p, R

(* A turn emits the least value left, with the runs that contain it.       *)
LEMMA MergeStep ==
    ASSUME NEW src \in Seq(Nat), NEW runs, IsRuns(runs, src, Len(src)), NEW m \in MergeStates(src, runs),
           m.heap # <<>>, NEW r, r = MergeTurn(m, src, runs)
    PROVE  r \in MergeStates(src, runs) /\ r.merged = Append(m.merged, m.heap[1])
<1> DEFINE p == m.pos
           q == r.pos
           R == Len(runs)
           H == HeadsOf(src, runs, p)
           G == HeadsOf(src, runs, q)
           N == Len(src)
           min == m.heap[1]
           Adv(b) == Advances(src, runs, p, b, min)
           M == Len(m.merged)
<1>1. /\ DOMAIN runs = 1..R /\ p \in Positions(runs) /\ m.heap \in Heaps
      /\ ToSet(m.heap) = H
  BY RunsLen DEF MergeStates
<1>2. /\ m.merged \in Seq(Nat) /\ m.bitsets \in Seq(SUBSET (1..R)) /\ Len(m.bitsets) = M
      /\ \A i, j \in 1..M : i < j => m.merged[i] < m.merged[j]
      /\ \A i \in 1..M : \A h \in H : m.merged[i] < h
      /\ \A b \in 1..R : \A k \in 1..N :
            runs[b].start < k /\ k <= p[b] => src[k] \in Cells(m.merged, M)
      /\ \A i \in 1..M : m.merged[i] \in Cells(src, N)
      /\ \A i \in 1..M : m.bitsets[i] = RunsWith(src, runs, m.merged[i])
  BY DEF MergeStates
<1>3. IsTurn(r, m, src, runs)
  BY <1>1, TurnFacts
<1>4. /\ r.heap \in Heaps /\ q \in Positions(runs) /\ ToSet(r.heap) = G \ {min}
      /\ \A b \in 1..R : q[b] = IF Adv(b) THEN p[b] + 1 ELSE p[b]
      /\ r.merged = Append(m.merged, min)
      /\ r.bitsets = Append(m.bitsets, {b \in 1..R : Adv(b)})
  BY <1>3 DEF IsTurn
<1>5. min \in H /\ \A h \in H : min <= h
  <2>1. \A v \in ToSet(m.heap) : m.heap[1] <= v
    BY <1>1, HeapMin
  <2>2. m.heap[1] \in ToSet(m.heap)
    <3>1. m.heap \in Seq(Nat)
      BY <1>1 DEF Heaps
    <3>2. 1 \in DOMAIN m.heap
      BY <3>1
    <3> QED BY <3>2 DEF ToSet
  <2> QED BY <1>1, <2>1, <2>2
<1>6. PICK a \in 1..R : p[a] # runs[a].end /\ min = src[p[a] + 1]
  BY <1>5 DEF HeadsOf
<1>7. min \in Nat /\ min \in Cells(src, N)
  <2>1. p[a] + 1 \in 1..N /\ src[p[a] + 1] \in Nat
    BY <1>1, <1>6, HeadIsElement
  <2> QED BY <1>6, <2>1 DEF Cells
<1>8. {b \in 1..R : Adv(b)} = RunsWith(src, runs, min)
  BY <1>5, AdvancersHold
<1>9. ASSUME NEW y \in G PROVE y > min /\ y \in Nat
  <2>1. PICK b \in 1..R : q[b] # runs[b].end /\ y = src[q[b] + 1]
    BY DEF HeadsOf
  <2>2. y \in Nat
    BY <1>4, <2>1, HeadIsElement
  <2>3. CASE Adv(b)
    <3>1. p[b] # runs[b].end /\ src[p[b] + 1] = min /\ q[b] = p[b] + 1
      BY <1>4, <2>3 DEF Advances
    <3>2. q[b] + 1 \in Nat /\ p[b] + 1 < q[b] + 1 /\ q[b] + 1 <= runs[b].end
      <4>1. p[b] \in Nat
        BY <1>1, <3>1, HeadIsElement
      <4>2. InRun(runs[b], q[b] + 1) /\ q[b] \in Nat
        BY <1>4, <2>1, HeadIsElement
      <4> HIDE DEF p, q
      <4> QED BY <3>1, <4>1, <4>2 DEF InRun
    <3>3. src[p[b] + 1] < src[q[b] + 1]
      <4> HIDE DEF p, q
      <4> QED BY <1>1, <3>1, <3>2, NextIsLarger
    <3> QED BY <1>7, <2>1, <2>2, <3>1, <3>3
  <2>4. CASE ~Adv(b)
    <3>1. q[b] = p[b] /\ p[b] # runs[b].end
      BY <1>4, <2>1, <2>4
    <3>2. y # min /\ y = src[p[b] + 1]
      BY <2>1, <2>4, <3>1 DEF Advances
    <3>3. y \in H
      BY <3>1, <3>2 DEF HeadsOf
    <3> QED BY <1>5, <1>7, <2>2, <3>2, <3>3
  <2> QED BY <2>3, <2>4
<1>10. ToSet(r.heap) = G
  <2>1. min \notin G
    <3> HIDE DEF G
    <3>1. ~(min > min)
      BY <1>7
    <3> QED BY <1>9, <3>1
  <2> QED BY <1>4, <2>1
<1> DEFINE x == m.merged
           z == r.merged
           w == {b \in 1..R : Adv(b)}
<1> HIDE DEF G, H, min
<1>11. /\ z \in Seq(Nat) /\ Len(z) = M + 1 /\ M \in Nat
       /\ \A i \in 1..M : z[i] = x[i] /\ z[M + 1] = min
  <2>1. x \in Seq(Nat) /\ z = Append(x, min)
    BY <1>2, <1>4
  <2>2. /\ Append(x, min) \in Seq(Nat) /\ Len(Append(x, min)) = Len(x) + 1
        /\ \A i \in 1..Len(x) : Append(x, min)[i] = x[i]
        /\ Append(x, min)[Len(x) + 1] = min
    <3> HIDE DEF x
    <3> QED BY <1>7, <2>1, AppendFacts
  <2>3. M = Len(x) /\ M \in Nat
    BY <2>1
  <2> HIDE DEF x, z, M
  <2> QED BY <2>1, <2>2, <2>3
<1>20. z[M + 1] = min
  <2>1. x \in Seq(Nat) /\ z = Append(x, min)
    BY <1>2, <1>4
  <2>2. Append(x, min)[Len(x) + 1] = min
    <3> HIDE DEF x
    <3> QED BY <1>7, <2>1, AppendFacts
  <2> QED BY <2>1, <2>2
<1>12. /\ r.bitsets \in Seq(SUBSET (1..R)) /\ Len(r.bitsets) = M + 1
       /\ \A i \in 1..M : r.bitsets[i] = m.bitsets[i]
  <2> DEFINE u == m.bitsets
  <2>1. u \in Seq(SUBSET (1..R)) /\ w \in SUBSET (1..R) /\ r.bitsets = Append(u, w) /\ Len(u) = M
    BY <1>2, <1>4
  <2> HIDE DEF u, w, R, M
  <2>2. /\ Append(u, w) \in Seq(SUBSET (1..R)) /\ Len(Append(u, w)) = Len(u) + 1
        /\ \A i \in 1..Len(u) : Append(u, w)[i] = u[i]
    BY <2>1, AppendFacts
  <2>3. /\ r.bitsets \in Seq(SUBSET (1..R)) /\ Len(r.bitsets) = M + 1
        /\ \A i \in 1..M : r.bitsets[i] = u[i]
    BY <2>1, <2>2
  <2> QED BY <2>3 DEF u
<1>21. r.bitsets[M + 1] = RunsWith(src, runs, min)
  <2> DEFINE u == m.bitsets
  <2>1. u \in Seq(SUBSET (1..R)) /\ w \in SUBSET (1..R) /\ r.bitsets = Append(u, w) /\ Len(u) = M
    BY <1>2, <1>4
  <2> HIDE DEF u, w, R, M
  <2>2. Append(u, w)[Len(u) + 1] = w
    BY <2>1, AppendFacts
  <2>3. r.bitsets[M + 1] = w
    BY <2>1, <2>2
  <2> QED BY <1>8, <2>3 DEF w, R
<1> HIDE DEF x, z, M, w
<1>13. \A i \in 1..M + 1 : i \in 1..M \/ i = M + 1
  BY <1>11
<1>14. Len(z) = M + 1 /\ z \in Seq(Nat) /\ M \in Nat /\ \A i \in 1..M : z[i] = x[i]
  BY <1>11
<1>15. ASSUME NEW i \in 1..M + 1, NEW j \in 1..M + 1, i < j PROVE z[i] < z[j]
  <2>1. i \in 1..M
    BY <1>14, <1>15
  <2>2. CASE j \in 1..M
    BY <1>2, <1>14, <1>15, <2>1, <2>2 DEF x, M
  <2>3. CASE j = M + 1
    <3>1. x[i] < min
      BY <1>2, <1>5, <2>1 DEF x, M
    <3> QED BY <1>14, <1>20, <2>1, <2>3, <3>1
  <2> QED BY <1>13, <2>2, <2>3
<1>16. ASSUME NEW i \in 1..M + 1, NEW h \in G PROVE z[i] < h
  <2>1. h > min /\ h \in Nat
    BY <1>9
  <2>2. CASE i = M + 1
    BY <1>7, <1>20, <2>1, <2>2
  <2>3. CASE i \in 1..M
    <3>1. x[i] < min
      BY <1>2, <1>5, <2>3 DEF x, M
    <3>2. z[i] = x[i]
      BY <1>14, <2>3
    <3>3. x[i] \in Nat
      BY <1>2, <2>3 DEF x, M
    <3> QED BY <1>7, <2>1, <3>1, <3>2, <3>3
  <2> QED BY <1>13, <2>2, <2>3
<1>17. ASSUME NEW b \in 1..R, NEW k \in 1..N, runs[b].start < k, k <= q[b]
       PROVE  src[k] \in Cells(z, M + 1)
  <2>0. \A i \in 1..M : i \in 1..M + 1
    BY <1>14
  <2>1. CASE k <= p[b]
    <3>1. src[k] \in Cells(x, M)
      BY <1>2, <1>17, <2>1 DEF x, M
    <3>2. PICK i \in 1..M : src[k] = x[i]
      BY <3>1 DEF Cells
    <3> QED BY <1>14, <2>0, <3>2 DEF Cells
  <2>2. CASE ~(k <= p[b])
    <3>0. p[b] \in Nat
      BY <1>1 DEF Positions
    <3>1. Adv(b) /\ k = p[b] + 1
      <4>1. CASE Adv(b)
        <5>1. q[b] = p[b] + 1
          BY <1>4, <4>1
        <5> HIDE DEF p, q, Adv
        <5> QED BY <1>17, <2>2, <3>0, <4>1, <5>1
      <4>2. CASE ~Adv(b)
        <5>1. q[b] = p[b]
          BY <1>4, <4>2
        <5> QED BY <1>17, <2>2, <5>1
      <4> QED BY <4>1, <4>2
    <3>2. src[k] = min
      BY <3>1 DEF Advances
    <3>3. M + 1 \in 1..M + 1
      BY <1>14
    <3> QED BY <1>20, <3>2, <3>3 DEF Cells
  <2> QED BY <2>1, <2>2
<1>18. ASSUME NEW i \in 1..M + 1 PROVE z[i] \in Cells(src, N)
  <2>1. CASE i \in 1..M
    BY <1>2, <1>14, <2>1 DEF x, M
  <2>2. CASE i = M + 1
    BY <1>7, <1>20, <2>2
  <2> QED BY <1>13, <2>1, <2>2
<1>19. ASSUME NEW i \in 1..M + 1 PROVE r.bitsets[i] = RunsWith(src, runs, z[i])
  <2>1. CASE i \in 1..M
    BY <1>2, <1>12, <1>14, <2>1 DEF x, M
  <2>2. CASE i = M + 1
    BY <1>20, <1>21, <2>2
  <2> QED BY <1>13, <2>1, <2>2
<1>22. r \in [heap : Heaps, pos : Positions(runs), merged : Seq(Nat), bitsets : Seq(SUBSET (1..Len(runs)))]
  <2>1. r = [heap |-> r.heap, pos |-> r.pos, merged |-> r.merged, bitsets |-> r.bitsets]
    BY DEF MergeTurn
  <2> QED BY <1>4, <1>12, <1>14, <2>1 DEF z
<1>23. Len(r.bitsets) = Len(z)
  BY <1>12, <1>14
<1> HIDE DEF p, q, R, N
<1>24. r \in MergeStates(src, runs)
  BY <1>10, <1>14, <1>15, <1>16, <1>17, <1>18, <1>19, <1>22, <1>23 DEF MergeStates, z, q, G, R, N
<1> QED BY <1>4, <1>24 DEF min

(* Distinct members of a sequence of N elements are at most N.             *)
LEMMA DistinctFit ==
    ASSUME NEW N \in Nat, NEW L \in Nat, NEW src, NEW z,
           \A i \in 1..L : z[i] \in Cells(src, N),
           \A i, j \in 1..L : i < j => z[i] # z[j]
    PROVE  L <= N
<1> DEFINE At1(i) == CHOOSE k \in 1..N : src[k] = z[i]
           f == [i \in 1..L |-> At1(i)]
<1>1. \A i \in 1..L : At1(i) \in 1..N /\ src[At1(i)] = z[i]
  BY DEF Cells
<1>2. f \in [1..L -> 1..N] /\ \A i \in 1..L : f[i] \in 1..N /\ src[f[i]] = z[i]
  <2> HIDE DEF At1
  <2> QED BY <1>1
<1> HIDE DEF f
<1>3. SUFFICES ASSUME ~(L <= N) PROVE FALSE
  OBVIOUS
<1>4. IsFiniteSet(1..L) /\ Cardinality(1..L) = L /\ IsFiniteSet(1..N) /\ Cardinality(1..N) = N
  <2>1. 1 \in Int /\ L \in Int /\ N \in Int
    OBVIOUS
  <2>2. IsFiniteSet(1..L) /\ Cardinality(1..L) = (IF 1 > L THEN 0 ELSE L - 1 + 1)
    BY <2>1, FS_Interval
  <2>3. IsFiniteSet(1..N) /\ Cardinality(1..N) = (IF 1 > N THEN 0 ELSE N - 1 + 1)
    BY <2>1, FS_Interval
  <2> QED BY <2>2, <2>3
<1>5. Cardinality(1..N) < Cardinality(1..L)
  BY <1>3, <1>4
<1>6. PICK i, j \in 1..L : i # j /\ f[i] = f[j]
  BY <1>2, <1>4, <1>5, FS_PigeonHole
<1>7. z[i] = z[j]
  BY <1>2, <1>6
<1>8. i < j \/ j < i
  BY <1>6
<1> QED BY <1>7, <1>8

(* The outer loop of ZL_MergeSorted_merge() after n turns.                 *)
MergeRun(f, src, runs) ==
    /\ f \in [0..Len(src) -> MergeStates(src, runs)]
    /\ ZL_MergeSorted_merge(src, runs) = f[Len(src)]
    /\ f[0] = [heap |-> Heads(src, runs), pos |-> [i \in DOMAIN runs |-> runs[i].start], merged |-> <<>>, bitsets |-> <<>>]
    /\ \A n \in 1..Len(src) : f[n] = IF f[n - 1].heap = <<>> THEN f[n - 1] ELSE MergeTurn(f[n - 1], src, runs)

LEMMA MergeRunStates ==
    ASSUME NEW src \in Seq(Nat), NEW runs, IsRuns(runs, src, Len(src))
    PROVE  \E f : MergeRun(f, src, runs)
<1> DEFINE N == Len(src)
           T == MergeStates(src, runs)
           base == [heap |-> Heads(src, runs), pos |-> [i \in DOMAIN runs |-> runs[i].start], merged |-> <<>>, bitsets |-> <<>>]
           E(k, x) == IF x.heap = <<>> THEN x ELSE MergeTurn(x, src, runs)
           step == [p \in (1..N) \X T |-> E(p[1], p[2])]
           value == CHOOSE f : f = [n \in 0..N |-> IF n = 0 THEN base ELSE E(n, f[n - 1])]
<1>1. N \in Nat
  OBVIOUS
<1>2. base \in T
  <2>1. /\ Heads(src, runs) \in Heaps /\ Starts(runs) \in Positions(runs)
          /\ ToSet(Heads(src, runs)) = HeadsOf(src, runs, Starts(runs))
    BY HeadsFacts
  <2>2. /\ Len(runs) \in Nat /\ DOMAIN runs = 1..Len(runs)
    BY RunsLen
  <2> DEFINE h == Heads(src, runs)
             p == Starts(runs)
             m == [heap |-> h, pos |-> p, merged |-> <<>>, bitsets |-> <<>>]
  <2>3. base = m
    BY DEF Starts
  <2>4. \A b \in 1..Len(runs) : p[b] = runs[b].start /\ p[b] \in Nat
    <3> TAKE b \in 1..Len(runs)
    <3>1. runs[b].start \in Nat
      BY RunBounds
    <3> QED BY <2>2, <3>1 DEF Starts
  <2> HIDE DEF h, p, base
  <2>5. m \in [heap : Heaps, pos : Positions(runs), merged : Seq(Nat), bitsets : Seq(SUBSET (1..Len(runs)))]
    BY <2>1 DEF h, p
  <2>6. /\ m.heap = h /\ m.pos = p /\ m.merged = <<>> /\ m.bitsets = <<>> /\ Len(m.merged) = 0 /\ Len(m.bitsets) = 0
        /\ 1..Len(m.merged) = {}
    OBVIOUS
  <2>7. \A b \in 1..Len(runs) : \A k \in 1..Len(src) : ~(runs[b].start < k /\ k <= m.pos[b])
    BY <2>4, <2>6
  <2>8. ToSet(m.heap) = HeadsOf(src, runs, m.pos)
    BY <2>1, <2>6 DEF h, p
  <2> HIDE DEF m
  <2>9. m \in MergeStates(src, runs)
    BY <2>5, <2>6, <2>7, <2>8 DEF MergeStates
  <2> QED BY <2>3, <2>9
<1>3. ASSUME NEW k \in 1..N, NEW x \in T PROVE E(k, x) \in T
  <2> DEFINE r == MergeTurn(x, src, runs)
  <2>1. CASE x.heap = <<>>
    BY <2>1
  <2>2. CASE x.heap # <<>>
    <3>1. r \in MergeStates(src, runs)
      BY <2>2, MergeStep
    <3> HIDE DEF r
    <3> QED BY <2>2, <3>1 DEF r
  <2> QED BY <2>1, <2>2
<1>4. value = CHOOSE f : f = [n \in 0..N |-> IF n = 0 THEN base ELSE E(n, f[n - 1])]
  OBVIOUS
<1>5. ZL_MergeSorted_merge(src, runs) = value[Len(src)]
  BY DEF ZL_MergeSorted_merge
<1> HIDE DEF N, T, base, E, value
<1>6. ASSUME NEW k \in 1..N, NEW x \in T PROVE step[<<k, x>>] = E(k, x)
  OBVIOUS
<1> HIDE DEF step
<1>7. PICK f \in [0..N -> T] : IsLoop(f, base, step, N)
  <2>1. \A k \in 1..N : \A x \in T : step[<<k, x>>] \in T
    <3> TAKE k \in 1..N
    <3> TAKE x \in T
    <3> QED BY <1>3, <1>6
  <2> QED BY <1>1, <1>2, <2>1, LoopExists
<1>8. f[0] = base /\ \A n \in 1..N : f[n] = E(n, f[n - 1])
  <2>1. LoopTurns(f, base, step, N, T)
    BY <1>1, <1>7, LoopFacts
  <2> QED BY <1>6, <2>1 DEF LoopTurns
<1>9. value = [n \in 0..N |-> IF n = 0 THEN base ELSE E(n, value[n - 1])]
  <2>1. f = [n \in 0..N |-> IF n = 0 THEN base ELSE E(n, f[n - 1])]
    BY <1>1, <1>7, <1>8
  <2> QED BY <1>4, <2>1
<1>10. value[0] = base /\ \A n \in 1..N : value[n] = E(n, value[n - 1])
  <2>1. 0 \in 0..N /\ \A n \in 1..N : n \in 0..N /\ n # 0
    BY <1>1
  <2> QED BY <1>9, <2>1
<1>11. value = [n \in 0..N |-> value[n]]
  BY <1>9
<1>12. f = value
  <2>1. ASSUME NEW n \in 1..N, f[n - 1] = value[n - 1] PROVE f[n] = value[n]
    BY <1>8, <1>10, <2>1
  <2>2. f = [n \in 0..N |-> f[n]] /\ f[0] = value[0]
    BY <1>7, <1>8, <1>10
  <2>3. SameTurns(f, value, N)
    BY <1>11, <2>1, <2>2 DEF SameTurns
  <2> QED BY <1>1, <2>3, SameLoop
<1>13. MergeRun(f, src, runs)
  BY <1>5, <1>7, <1>8, <1>12 DEF MergeRun, N, T, base, E
<1> QED BY <1>13


(* What ZL_MergeSorted_merge() leaves.                                     *)
IsMerged(m, src, runs) ==
    /\ m.merged \in Seq(Nat) /\ m.bitsets \in Seq(SUBSET (1..Len(runs)))
    /\ Len(m.bitsets) = Len(m.merged)
    /\ \A i, j \in 1..Len(m.merged) : i < j => m.merged[i] < m.merged[j]
    /\ Cells(m.merged, Len(m.merged)) = Cells(src, Len(src))
    /\ \A i \in 1..Len(m.merged) : m.bitsets[i] = RunsWith(src, runs, m.merged[i])

(* As many turns as elements empty the heap: every turn emits a new value. *)
LEMMA MergeEnds ==
    ASSUME NEW src \in Seq(Nat), NEW runs, IsRuns(runs, src, Len(src)), NEW f, MergeRun(f, src, runs)
    PROVE  f[Len(src)].heap = <<>>
<1> DEFINE N == Len(src)
           S == {n \in 0..N : f[n].heap = <<>> \/ Len(f[n].merged) = n}
<1>1. N \in Nat /\ 0 \in 0..N /\ N \in 0..N
  OBVIOUS
<1>2. f \in [0..N -> MergeStates(src, runs)]
  BY Zenon DEF MergeRun
<1>3. f[0] = [heap |-> Heads(src, runs), pos |-> [i \in DOMAIN runs |-> runs[i].start], merged |-> <<>>, bitsets |-> <<>>]
  BY Zenon DEF MergeRun
<1>4. \A n \in 1..N : f[n] = IF f[n - 1].heap = <<>> THEN f[n - 1] ELSE MergeTurn(f[n - 1], src, runs)
  BY Zenon DEF MergeRun
<1>5. 0 \in S
  <2>1. f[0].merged = <<>>
    BY <1>3
  <2> QED BY <1>1, <2>1
<1>6. ASSUME NEW n \in 1..N, n - 1 \in S PROVE n \in S
  <2>1. n \in 0..N /\ n - 1 \in 0..N /\ f[n - 1] \in MergeStates(src, runs)
    BY <1>1, <1>2
  <2>2. CASE f[n - 1].heap = <<>>
    BY <1>4, <2>1, <2>2
  <2>3. CASE f[n - 1].heap # <<>>
    <3> DEFINE m == f[n - 1]
               r == MergeTurn(m, src, runs)
    <3>1. Len(m.merged) = n - 1 /\ m.merged \in Seq(Nat) /\ m.heap \in Heaps
      BY <1>6, <2>1, <2>3 DEF MergeStates
    <3>2. r.merged = Append(m.merged, m.heap[1])
      BY <2>1, <2>3, MergeStep
    <3>3. f[n] = r
      BY <1>4, <2>3
    <3>7. m.heap \in Seq(Nat) /\ m.heap # <<>>
      BY <2>3, <3>1 DEF Heaps
    <3> HIDE DEF m, r
    <3>4. m.heap[1] \in Nat
      BY <3>7
    <3>5. Len(f[n].merged) = n
      BY <3>1, <3>2, <3>3, <3>4
    <3> QED BY <2>1, <3>5
  <2> QED BY <2>2, <2>3
<1> HIDE DEF S
<1>7. \A n \in 0..N : n \in S
  BY <1>1, <1>5, <1>6, LoopInduction
<1>8. N \in S
  BY <1>1, <1>7
<1> DEFINE m == f[N]
<1>9. m.heap = <<>> \/ Len(m.merged) = N
  BY <1>8 DEF S
<1>10. m \in MergeStates(src, runs)
  BY <1>1, <1>2
<1> HIDE DEF m, N
<1>11. CASE m.heap # <<>>
  <2> DEFINE v == m.heap[1]
             u == m.merged
             z == [i \in 1..N + 1 |-> IF i = N + 1 THEN v ELSE u[i]]
  <2>1. m.heap \in Heaps /\ m.heap \in Seq(Nat)
    BY <1>10 DEF MergeStates, Heaps
  <2>2. v \in ToSet(m.heap)
    BY <1>11, <2>1, ToSetCells DEF ToSet
  <2>3. v \in HeadsOf(src, runs, m.pos)
    BY <1>10, <2>2 DEF MergeStates
  <2>4. v \in Cells(src, N)
    <3>1. PICK b \in 1..Len(runs) : m.pos[b] # runs[b].end /\ v = src[m.pos[b] + 1]
      BY <2>3 DEF HeadsOf
    <3>2. m.pos \in Positions(runs)
      BY <1>10 DEF MergeStates
    <3>3. m.pos[b] + 1 \in 1..N
      BY <3>1, <3>2, HeadIsElement DEF N
    <3> QED BY <3>1, <3>3 DEF Cells
  <2>5. /\ u \in Seq(Nat) /\ Len(u) = N
        /\ \A i, j \in 1..N : i < j => u[i] < u[j]
        /\ \A i \in 1..N : u[i] < v
        /\ \A i \in 1..N : u[i] \in Cells(src, N)
    BY <1>9, <1>10, <1>11, <2>3 DEF MergeStates, N
  <2>6. v \in Nat /\ \A i \in 1..N : u[i] \in Nat
    BY <1>11, <2>1, <2>5 DEF Heaps
  <2> HIDE DEF u, v
  <2>7. \A i \in 1..N + 1 : z[i] = IF i = N + 1 THEN v ELSE u[i]
    OBVIOUS
  <2> HIDE DEF z
  <2>8. \A i \in 1..N + 1 : i # N + 1 => i \in 1..N
    BY <1>1
  <2>9. \A i \in 1..N + 1 : z[i] \in Cells(src, N)
    BY <2>4, <2>5, <2>7, <2>8
  <2>10. ASSUME NEW i \in 1..N + 1, NEW j \in 1..N + 1, i < j PROVE z[i] # z[j]
    <3>1. i \in 1..N
      BY <1>1, <2>10
    <3>2. z[i] = u[i] /\ u[i] \in Nat
      BY <1>1, <2>6, <2>7, <3>1
    <3>3. CASE j = N + 1
      BY <2>5, <2>6, <2>7, <3>1, <3>2, <3>3
    <3>4. CASE j # N + 1
      BY <2>5, <2>6, <2>7, <2>8, <2>10, <3>1, <3>2, <3>4
    <3> QED BY <3>3, <3>4
  <2>11. N + 1 \in Nat
    BY <1>1
  <2>12. N + 1 <= N
    BY <1>1, <2>9, <2>10, <2>11, DistinctFit
  <2> QED BY <1>1, <2>12
<1> QED BY <1>11 DEF m, N

(* The merge emits the values of the input, ascending, with their runs.    *)
LEMMA MergeFacts ==
    ASSUME NEW src \in Seq(Nat), NEW runs, IsRuns(runs, src, Len(src)),
           NEW m, m = ZL_MergeSorted_merge(src, runs)
    PROVE  IsMerged(m, src, runs)
<1> DEFINE N == Len(src)
<1>1. PICK f : MergeRun(f, src, runs)
  BY MergeRunStates
<1>2. m = f[N]
  BY <1>1, Zenon DEF MergeRun
<1>3. f \in [0..N -> MergeStates(src, runs)]
  BY <1>1, Zenon DEF MergeRun
<1>4. m \in MergeStates(src, runs)
  <2>1. N \in 0..N
    OBVIOUS
  <2> QED BY <1>2, <1>3, <2>1
<1>5. m.heap = <<>>
  BY <1>1, <1>2, MergeEnds
<1>6. HeadsOf(src, runs, m.pos) = {}
  <2>1. ToSet(m.heap) = {}
    BY <1>5 DEF ToSet
  <2> QED BY <1>4, <2>1 DEF MergeStates
<1>7. ASSUME NEW b \in 1..Len(runs) PROVE m.pos[b] = runs[b].end
  BY <1>6 DEF HeadsOf
<1>8. Cells(src, N) \subseteq Cells(m.merged, Len(m.merged))
  <2> SUFFICES ASSUME NEW k \in 1..N PROVE src[k] \in Cells(m.merged, Len(m.merged))
    BY DEF Cells
  <2>1. PICK b \in 1..Len(runs) : InRun(runs[b], k)
    BY DEF IsRuns
  <2>2. runs[b].start < k /\ k <= m.pos[b]
    BY <1>7, <2>1 DEF InRun
  <2> QED BY <1>4, <2>2 DEF MergeStates
<1>9. Cells(m.merged, Len(m.merged)) \subseteq Cells(src, N)
  BY <1>4 DEF MergeStates, Cells
<1> HIDE DEF N
<1> QED BY <1>4, <1>8, <1>9 DEF MergeStates, IsMerged, N

-----------------------------------------------------------------------------
(* The destinations of a split, one after the other.                       *)
LEMMA EndsFacts ==
    ASSUME NEW h \in Seq(Nat), NEW b \in 1..Len(h)
    PROVE  /\ Sums(h)[b - 1] \in Nat /\ Sums(h)[b] \in Nat
           /\ Sums(h)[b - 1] <= Sums(h)[b] /\ Sums(h)[b] <= Sum(h)
           /\ DestinationEnds(h)[b] = Sums(h)[b]
           /\ DestinationEnds(h)[b] - h[b] = Sums(h)[b - 1]
<1> DEFINE S == Sums(h)
           R == Len(h)
           q == h[b]
<1>1. S \in [0..R -> Nat] /\ S[b] = S[b - 1] + q
  BY SumFacts
<1>2. q \in Nat /\ b \in 0..R /\ b - 1 \in 0..R /\ DOMAIN h = 1..R
  OBVIOUS
<1>3. S[b] <= Sum(h)
  BY <1>2, SumGrows
<1>4. DestinationEnds(h)[b] = S[b]
  BY <1>2 DEF DestinationEnds
<1> HIDE DEF S, R, q
<1>5. S[b - 1] \in Nat /\ S[b] \in Nat
  BY <1>1, <1>2
<1>6. S[b - 1] <= S[b] /\ S[b] - q = S[b - 1]
  BY <1>1, <1>2, <1>5
<1> QED BY <1>3, <1>4, <1>5, <1>6 DEF S, q

(* Splitting, between two values.                                          *)
SplitStates(h) ==
    {s \in [dsts : [1..Len(h) -> Nat], out : [1..Sum(h) -> Nat \cup {Wild}]] :
        /\ \A b \in 1..Len(h) : Sums(h)[b - 1] <= s.dsts[b] /\ s.dsts[b] <= Sums(h)[b]
        /\ \A b \in 1..Len(h) : \A k \in 1..Sum(h) :
              Sums(h)[b - 1] < k /\ k <= s.dsts[b] => s.out[k] \in Nat}

(* A destination that is not full.                                         *)
Open(s, h, b) == s.dsts[b] # Sums(h)[b]

IsSplit(r, s, h, bitset, value) ==
    /\ r \in SplitStates(h)
    /\ \A b \in 1..Len(h) :
          r.dsts[b] = IF Open(s, h, b) /\ b \in bitset THEN s.dsts[b] + 1 ELSE s.dsts[b]
    /\ \A k \in 1..Sum(h) :
          r.out[k] = IF \E b \in 1..Len(h) : Open(s, h, b) /\ s.dsts[b] = k - 1 THEN value ELSE s.out[k]

(* Splitting one value keeps every destination within its bounds.          *)
LEMMA SplitFacts ==
    ASSUME NEW h \in Seq(Nat), NEW s \in SplitStates(h), NEW bitset, NEW value \in Nat,
           NEW r, r = SplitValue(s, DestinationEnds(h), bitset, value)
    PROVE  IsSplit(r, s, h, bitset, value)
<1> DEFINE R == Len(h)
           N == Sum(h)
           e == DestinationEnds(h)
           d == s.dsts
           o == s.out
           dd == [b \in 1..R |-> IF Open(s, h, b) /\ b \in bitset THEN d[b] + 1 ELSE d[b]]
           oo == [k \in 1..N |-> IF \E b \in 1..R : Open(s, h, b) /\ d[b] = k - 1 THEN value ELSE o[k]]
<1>1. DOMAIN e = 1..R /\ DOMAIN h = 1..R /\ R \in Nat
  BY DEF DestinationEnds
<1>2. s \in [dsts : [1..R -> Nat], out : [1..N -> Nat \cup {Wild}]]
  BY DEF SplitStates
<1>3. d \in [1..R -> Nat] /\ o \in [1..N -> Nat \cup {Wild}] /\ DOMAIN o = 1..N
  BY <1>2
<1>4. \A b \in 1..R : e[b] = Sums(h)[b]
  BY EndsFacts
<1>5. {b \in DOMAIN e : d[b] # e[b]} = {b \in 1..R : Open(s, h, b)}
  BY <1>1, <1>4 DEF Open
<1> DEFINE open == {b \in 1..R : Open(s, h, b)}
<1>6. r = [dsts |-> [b \in DOMAIN e |-> d[b] + IF b \in open \cap bitset THEN 1 ELSE 0],
           out |-> [k \in DOMAIN o |-> IF \E b \in open : d[b] = k - 1 THEN value ELSE o[k]]]
  BY <1>5, Zenon DEF SplitValue
<1>7. [b \in DOMAIN e |-> d[b] + IF b \in open \cap bitset THEN 1 ELSE 0] = dd
  <2>1. ASSUME NEW b \in 1..R
        PROVE  (d[b] + IF b \in open \cap bitset THEN 1 ELSE 0) = IF Open(s, h, b) /\ b \in bitset THEN d[b] + 1 ELSE d[b]
    <3>1. d[b] \in Nat
      BY <1>3
    <3>2. CASE Open(s, h, b) /\ b \in bitset
      BY <3>1, <3>2
    <3>3. CASE ~(Open(s, h, b) /\ b \in bitset)
      BY <3>1, <3>3
    <3> QED BY <3>2, <3>3
  <2> HIDE DEF e, d, open
  <2> QED BY <1>1, <2>1
<1>8. [k \in DOMAIN o |-> IF \E b \in open : d[b] = k - 1 THEN value ELSE o[k]] = oo
  <2>1. ASSUME NEW k PROVE (\E b \in open : d[b] = k - 1) <=> (\E b \in 1..R : Open(s, h, b) /\ d[b] = k - 1)
    OBVIOUS
  <2> HIDE DEF o, d, open
  <2> QED BY <1>3, <2>1
<1> HIDE DEF open, dd, oo, e
<1>17. r = [dsts |-> dd, out |-> oo]
  BY <1>6, <1>7, <1>8, Zenon
<1>9. r.dsts = dd /\ r.out = oo /\ r = [dsts |-> dd, out |-> oo]
  BY <1>17
<1>10. \A b \in 1..R : dd[b] = IF Open(s, h, b) /\ b \in bitset THEN d[b] + 1 ELSE d[b]
  BY DEF dd
<1>11. \A k \in 1..N : oo[k] = IF \E b \in 1..R : Open(s, h, b) /\ d[b] = k - 1 THEN value ELSE o[k]
  BY DEF oo
<1>12. dd \in [1..R -> Nat] /\ oo \in [1..N -> Nat \cup {Wild}]
  <2>1. dd \in [1..R -> Nat]
    BY <1>3 DEF dd
  <2>2. oo \in [1..N -> Nat \cup {Wild}]
    BY <1>3 DEF oo
  <2> QED BY <2>1, <2>2
<1>13. ASSUME NEW b \in 1..R
       PROVE  /\ Sums(h)[b - 1] <= dd[b] /\ dd[b] <= Sums(h)[b]
              /\ Sums(h)[b - 1] <= d[b] /\ d[b] <= Sums(h)[b]
              /\ d[b] \in Nat /\ Sums(h)[b - 1] \in Nat /\ Sums(h)[b] \in Nat
  <2> DEFINE lo == Sums(h)[b - 1]
             hi == Sums(h)[b]
             x == d[b]
  <2>1. lo \in Nat /\ hi \in Nat
    BY EndsFacts
  <2>2. lo <= x /\ x <= hi
    BY DEF SplitStates
  <2>3. x \in Nat
    BY <1>3
  <2>4. Open(s, h, b) <=> x # hi
    BY DEF Open
  <2>5. dd[b] = IF Open(s, h, b) /\ b \in bitset THEN x + 1 ELSE x
    BY <1>10
  <2> HIDE DEF lo, hi, x
  <2>6. lo <= dd[b] /\ dd[b] <= hi
    BY <2>1, <2>2, <2>3, <2>4, <2>5
  <2> QED BY <2>1, <2>2, <2>3, <2>6 DEF lo, hi, x
<1>14. ASSUME NEW b \in 1..R, NEW k \in 1..N, Sums(h)[b - 1] < k, k <= dd[b] PROVE oo[k] \in Nat
  <2>1. CASE k <= d[b]
    <3>1. o[k] \in Nat
      BY <1>14, <2>1 DEF SplitStates
    <3> QED BY <1>11, <3>1
  <2>2. CASE ~(k <= d[b])
    <3>1. d[b] \in Nat
      BY <1>13
    <3>2. Open(s, h, b) /\ dd[b] = d[b] + 1
      BY <1>10, <1>14, <2>2, <3>1
    <3>3. d[b] = k - 1
      <4> HIDE DEF d
      <4> QED BY <1>14, <2>2, <3>1, <3>2
    <3> QED BY <1>11, <3>2, <3>3
  <2> QED BY <2>1, <2>2
<1>15. r \in [dsts : [1..R -> Nat], out : [1..N -> Nat \cup {Wild}]]
  BY <1>9, <1>12
<1>16. r \in SplitStates(h)
  <2> HIDE DEF d, o
  <2> QED BY <1>9, <1>13, <1>14, <1>15 DEF SplitStates
<1> QED BY <1>9, <1>10, <1>11, <1>16 DEF IsSplit

(* ZL_MergeSorted_split() after n values.                                  *)
SplitRun(f, h, bitsets, merged) ==
    /\ f \in [0..Len(merged) -> SplitStates(h)]
    /\ ZL_MergeSorted_split(DestinationEnds(h), h, bitsets, merged) = f[Len(merged)]
    /\ f[0] = [dsts |-> [b \in DOMAIN DestinationEnds(h) |-> DestinationEnds(h)[b] - h[b]], out |-> [k \in 1..Sum(h) |-> Wild]]
    /\ \A n \in 1..Len(merged) : f[n] = SplitValue(f[n - 1], DestinationEnds(h), bitsets[n], merged[n])

LEMMA SplitRunStates ==
    ASSUME NEW h \in Seq(Nat), NEW bitsets, NEW merged \in Seq(Nat)
    PROVE  \E f : SplitRun(f, h, bitsets, merged)
<1> DEFINE N == Len(merged)
           T == SplitStates(h)
           base == [dsts |-> [b \in DOMAIN DestinationEnds(h) |-> DestinationEnds(h)[b] - h[b]], out |-> [k \in 1..Sum(h) |-> Wild]]
           E(k, x) == SplitValue(x, DestinationEnds(h), bitsets[k], merged[k])
           step == [p \in (1..N) \X T |-> E(p[1], p[2])]
           value == CHOOSE f : f = [n \in 0..N |-> IF n = 0 THEN base ELSE E(n, f[n - 1])]
<1>1. N \in Nat
  OBVIOUS
<1>2. base \in T
  <2> DEFINE d == [b \in DOMAIN DestinationEnds(h) |-> DestinationEnds(h)[b] - h[b]]
             o == [k \in 1..Sum(h) |-> Wild]
  <2>1. DOMAIN DestinationEnds(h) = 1..Len(h) /\ DOMAIN h = 1..Len(h)
    BY DEF DestinationEnds
  <2>2. ASSUME NEW b \in 1..Len(h)
        PROVE  /\ d[b] = Sums(h)[b - 1] /\ d[b] \in Nat /\ d[b] <= Sums(h)[b] /\ Sums(h)[b - 1] <= d[b]
    BY <2>1, EndsFacts
  <2>3. d \in [1..Len(h) -> Nat]
    <3>1. d = [b \in 1..Len(h) |-> d[b]]
      BY <2>1
    <3> HIDE DEF d
    <3> QED BY <2>2, <3>1
  <2>4. o \in [1..Sum(h) -> Nat \cup {Wild}]
    OBVIOUS
  <2>5. base = [dsts |-> d, out |-> o] /\ base.dsts = d /\ base.out = o
    OBVIOUS
  <2> HIDE DEF d, o, base
  <2>6. base \in [dsts : [1..Len(h) -> Nat], out : [1..Sum(h) -> Nat \cup {Wild}]]
    BY <2>3, <2>4, <2>5
  <2>7. ASSUME NEW b \in 1..Len(h), NEW k \in 1..Sum(h) PROVE ~(Sums(h)[b - 1] < k /\ k <= base.dsts[b])
    <3> DEFINE lo == Sums(h)[b - 1]
    <3>1. d[b] = lo /\ lo \in Nat
      BY <2>2
    <3> HIDE DEF lo
    <3> QED BY <2>5, <3>1 DEF lo
  <2> QED BY <2>2, <2>5, <2>6, <2>7 DEF SplitStates
<1>3. ASSUME NEW k \in 1..N, NEW x \in T PROVE E(k, x) \in T
  <2> DEFINE r == SplitValue(x, DestinationEnds(h), bitsets[k], merged[k])
  <2>1. merged[k] \in Nat
    OBVIOUS
  <2>2. IsSplit(r, x, h, bitsets[k], merged[k])
    BY <2>1, SplitFacts
  <2>3. r \in SplitStates(h)
    BY <2>2 DEF IsSplit
  <2> QED BY <2>3
<1>4. value = CHOOSE f : f = [n \in 0..N |-> IF n = 0 THEN base ELSE E(n, f[n - 1])]
  OBVIOUS
<1>5. ZL_MergeSorted_split(DestinationEnds(h), h, bitsets, merged) = value[Len(merged)]
  BY DEF ZL_MergeSorted_split
<1> HIDE DEF N, T, base, E, value
<1>6. ASSUME NEW k \in 1..N, NEW x \in T PROVE step[<<k, x>>] = E(k, x)
  OBVIOUS
<1> HIDE DEF step
<1>7. PICK f \in [0..N -> T] : IsLoop(f, base, step, N)
  <2>1. \A k \in 1..N : \A x \in T : step[<<k, x>>] \in T
    <3> TAKE k \in 1..N
    <3> TAKE x \in T
    <3> QED BY <1>3, <1>6
  <2> QED BY <1>1, <1>2, <2>1, LoopExists
<1>8. f[0] = base /\ \A n \in 1..N : f[n] = E(n, f[n - 1])
  <2>1. LoopTurns(f, base, step, N, T)
    BY <1>1, <1>7, LoopFacts
  <2> QED BY <1>6, <2>1 DEF LoopTurns
<1>9. value = [n \in 0..N |-> IF n = 0 THEN base ELSE E(n, value[n - 1])]
  <2>1. f = [n \in 0..N |-> IF n = 0 THEN base ELSE E(n, f[n - 1])]
    BY <1>1, <1>7, <1>8
  <2> QED BY <1>4, <2>1
<1>10. value[0] = base /\ \A n \in 1..N : value[n] = E(n, value[n - 1])
  <2>1. 0 \in 0..N /\ \A n \in 1..N : n \in 0..N /\ n # 0
    BY <1>1
  <2> QED BY <1>9, <2>1
<1>11. value = [n \in 0..N |-> value[n]]
  BY <1>9
<1>12. f = value
  <2>1. ASSUME NEW n \in 1..N, f[n - 1] = value[n - 1] PROVE f[n] = value[n]
    BY <1>8, <1>10, <2>1
  <2>2. f = [n \in 0..N |-> f[n]] /\ f[0] = value[0]
    BY <1>7, <1>8, <1>10
  <2>3. SameTurns(f, value, N)
    BY <1>11, <2>1, <2>2 DEF SameTurns
  <2> QED BY <1>1, <2>3, SameLoop
<1>13. SplitRun(f, h, bitsets, merged)
  BY <1>5, <1>7, <1>8, <1>12 DEF SplitRun, N, T, base, E
<1> QED BY <1>13


(* Every cell of the output belongs to a destination.                      *)
LEMMA CellsCovered ==
    ASSUME NEW h \in Seq(Nat), NEW k \in 1..Sum(h)
    PROVE  \E b \in 1..Len(h) : Sums(h)[b - 1] < k /\ k <= Sums(h)[b]
<1> DEFINE S == Sums(h)
           R == Len(h)
           T == {n \in 0..R : k <= S[n] => \E b \in 1..R : S[b - 1] < k /\ k <= S[b]}
<1>1. /\ S \in [0..R -> Nat] /\ S[0] = 0 /\ Sum(h) = S[R]
      /\ R \in Nat /\ 0 \in 0..R /\ R \in 0..R
  BY SumFacts
<1> HIDE DEF S, R
<1>2. 0 \in T
  <2>1. ~(k <= S[0])
    BY <1>1
  <2> QED BY <1>1, <2>1
<1>3. ASSUME NEW n \in 1..R, n - 1 \in T PROVE n \in T
  <2>1. n \in 0..R /\ n - 1 \in 0..R
    BY <1>1
  <2>2. S[n - 1] \in Nat
    BY <1>1, <2>1
  <2>3. CASE k <= S[n - 1]
    BY <1>3, <2>1, <2>3
  <2>4. CASE ~(k <= S[n - 1])
    <3>1. S[n - 1] < k
      BY <2>2, <2>4
    <3> QED BY <2>1, <3>1
  <2> QED BY <2>3, <2>4
<1> HIDE DEF T
<1>4. \A n \in 0..R : n \in T
  BY <1>1, <1>2, <1>3, LoopInduction
<1>5. R \in T
  BY <1>1, <1>4
<1>6. k <= S[R]
  BY <1>1
<1>7. \E b \in 1..R : S[b - 1] < k /\ k <= S[b]
  BY <1>5, <1>6 DEF T
<1> QED BY <1>7 DEF S, R

(* merge_sorted: streams that are accepted fill the whole output.          *)
LEMMA MergeSortedAccepted ==
    ASSUME NEW header \in Seq(Nat), NEW streams, streams[2].elts \in Seq(Nat)
    PROVE  Written(DI_mergeSorted(header, streams))
<1> DEFINE h == header
           ends == DestinationEnds(h)
           bitsets == streams[1].elts
           merged == streams[2].elts
           kernel == ZL_MergeSorted_split(ends, h, bitsets, merged)
           r == DI_mergeSorted(header, streams)
<1>1. PICK f : SplitRun(f, h, bitsets, merged)
  BY SplitRunStates
<1>2. kernel = f[Len(merged)] /\ f \in [0..Len(merged) -> SplitStates(h)]
  BY <1>1, Zenon DEF SplitRun
<1>3. kernel \in SplitStates(h)
  <2>1. Len(merged) \in 0..Len(merged)
    OBVIOUS
  <2> HIDE DEF kernel
  <2> QED BY <1>2, <2>1
<1>4. r = Corrupt \/ (AllFilled(kernel.dsts, ends) /\ r = Made(4, kernel.out, Sum(h)))
  <2> HIDE DEF kernel
  <2> QED BY DEF DI_mergeSorted, kernel
<1> HIDE DEF kernel, r
<1>5. CASE r = Corrupt
  BY <1>5 DEF Written, Corrupt, r
<1>6. CASE AllFilled(kernel.dsts, ends) /\ r = Made(4, kernel.out, Sum(h))
  <2>1. \A b \in 1..Len(h) : kernel.dsts[b] = Sums(h)[b]
    <3> TAKE b \in 1..Len(h)
    <3>1. b \in DOMAIN ends
      BY DEF DestinationEnds
    <3>2. kernel.dsts[b] = ends[b]
      BY <1>6, <3>1 DEF AllFilled
    <3>3. ends[b] = Sums(h)[b]
      BY EndsFacts
    <3> QED BY <3>2, <3>3
  <2>2. ASSUME NEW k \in 1..Sum(h) PROVE kernel.out[k] \in Nat
    <3>1. PICK b \in 1..Len(h) : Sums(h)[b - 1] < k /\ k <= Sums(h)[b]
      BY CellsCovered
    <3> QED BY <1>3, <2>1, <3>1 DEF SplitStates
  <2>3. kernel.out \in [1..Sum(h) -> Nat \cup {Wild}]
    BY <1>3 DEF SplitStates
  <2> DEFINE o == kernel.out
             N == Sum(h)
  <2>4. N \in Nat
    BY SumFacts
  <2> HIDE DEF o, N
  <2>5. o \in [1..N -> Nat]
    BY <2>2, <2>3 DEF o, N
  <2>6. o \in Seq(Nat) /\ Len(o) = N
    BY <2>4, <2>5, FunctionIsSeq
  <2>7. r.elts = o /\ r.room = N
    BY <1>6 DEF Made, o, N
  <2> QED BY <2>6, <2>7 DEF Written, r
<1> QED BY <1>4, <1>5, <1>6

(* The header: the sizes of the runs.                                      *)
SizesOf(runs) == [i \in DOMAIN runs |-> runs[i].end - runs[i].start]

LEMMA SizesFacts ==
    ASSUME NEW src \in Seq(Nat), NEW runs, IsRuns(runs, src, Len(src)), NEW h, h = SizesOf(runs)
    PROVE  /\ h \in Seq(Nat) /\ Len(h) = Len(runs) /\ Sum(h) = Len(src)
           /\ \A b \in 1..Len(runs) : Sums(h)[b] = runs[b].end /\ Sums(h)[b - 1] = runs[b].start
<1> DEFINE R == Len(runs)
           N == Len(src)
           S == Sums(h)
           E(b) == runs[b].end
           A(b) == runs[b].start
           T == {n \in 0..R : n # 0 => S[n] = E(n)}
<1>1. R \in Nat /\ DOMAIN runs = 1..R
  BY RunsLen
<1>2. ASSUME NEW b \in 1..R PROVE A(b) \in Nat /\ E(b) \in Nat /\ A(b) < E(b)
  BY RunBounds
<1>3. /\ \A b \in 1..R : b # 1 => A(b) = E(b - 1)
      /\ N # 0 => A(1) = 0 /\ E(R) = N
      /\ R = 0 <=> N = 0
  BY DEF IsRuns
<1>4. h = [b \in 1..R |-> E(b) - A(b)]
  BY <1>1 DEF SizesOf
<1>5. N \in Nat /\ 0 \in 0..R /\ R \in 0..R
  BY <1>1
<1> HIDE DEF R, N, E, A
<1>6. h \in [1..R -> Nat] /\ \A b \in 1..R : h[b] = E(b) - A(b)
  BY <1>2, <1>4
<1>7. h \in Seq(Nat) /\ Len(h) = R
  BY <1>1, <1>6, FunctionIsSeq
<1>8. /\ S \in [0..R -> Nat] /\ S[0] = 0 /\ Sum(h) = S[R]
      /\ \A n \in 1..R : S[n] = S[n - 1] + h[n]
  BY <1>7, SumFacts
<1> HIDE DEF S
<1>9. 0 \in T
  BY <1>5
<1>10. ASSUME NEW n \in 1..R, n - 1 \in T PROVE n \in T /\ S[n - 1] = A(n)
  <2>1. n \in 0..R /\ n - 1 \in 0..R /\ S[n] = S[n - 1] + h[n] /\ h[n] = E(n) - A(n)
    BY <1>1, <1>6, <1>8
  <2>2. E(n) \in Nat /\ A(n) \in Nat
    BY <1>2
  <2>3. S[n - 1] = A(n)
    <3>1. CASE n = 1
      <4>1. R # 0
        BY <3>1
      <4>2. A(1) = 0
        BY <1>3, <4>1
      <4> QED BY <1>8, <3>1, <4>2
    <3>2. CASE n # 1
      <4>1. n - 1 # 0
        BY <1>1, <3>2
      <4>2. S[n - 1] = E(n - 1)
        BY <1>10, <4>1
      <4> QED BY <1>3, <3>2, <4>2
    <3> QED BY <3>1, <3>2
  <2>4. S[n] = E(n)
    BY <2>1, <2>2, <2>3
  <2> QED BY <2>1, <2>3, <2>4
<1>11. \A n \in 0..R : n \in T
  <2> HIDE DEF T
  <2> QED BY <1>1, <1>9, <1>10, LoopInduction
<1>12. ASSUME NEW b \in 1..R PROVE S[b] = E(b) /\ S[b - 1] = A(b)
  <2>1. b \in 0..R /\ b - 1 \in 0..R /\ b # 0
    BY <1>1
  <2> QED BY <1>10, <1>11, <2>1
<1>13. Sum(h) = N
  <2>1. CASE R = 0
    BY <1>3, <1>8, <2>1
  <2>2. CASE R # 0
    <3>1. R \in 1..R
      BY <1>1, <2>2
    <3> QED BY <1>3, <1>8, <1>12, <2>2, <3>1
  <2> QED BY <2>1, <2>2
<1> QED BY <1>7, <1>12, <1>13 DEF R, N, S, E, A

(* What was split so far, against the input.                               *)
SplitGood(s, n, src, runs, merged) ==
    \A b \in 1..Len(runs) : \A k \in 1..Len(src) :
        InRun(runs[b], k) => IF k <= s.dsts[b] THEN s.out[k] = src[k] /\ src[k] \in Cells(merged, n)
                             ELSE src[k] \notin Cells(merged, n)

(* The first element a destination lacks is not below the next value.      *)
LEMMA NotBelow ==
    ASSUME NEW src \in Seq(Nat), NEW runs, NEW m, IsMerged(m, src, runs), NEW n \in 1..Len(m.merged),
           NEW k \in 1..Len(src), src[k] \notin Cells(m.merged, n - 1)
    PROVE  src[k] >= m.merged[n] /\ src[k] \in Nat /\ m.merged[n] \in Nat
<1> DEFINE z == m.merged
           L == Len(z)
<1>1. z \in Seq(Nat) /\ \A i, j \in 1..L : i < j => z[i] < z[j]
  BY DEF IsMerged
<1>2. src[k] \in Cells(z, L)
  <2>1. src[k] \in Cells(src, Len(src))
    BY DEF Cells
  <2> QED BY <2>1 DEF IsMerged
<1>3. PICK i \in 1..L : src[k] = z[i]
  BY <1>2 DEF Cells
<1>4. i \notin 1..n - 1
  BY <1>3 DEF Cells
<1>5. L \in Nat /\ n \in 1..L
  BY <1>1
<1>10. z[i] \in Nat
  BY <1>1
<1> HIDE DEF z
<1>11. z[n] \in Nat
  BY <1>1, <1>5
<1>6. z[i] \in Nat /\ z[n] \in Nat
  BY <1>10, <1>11
<1> HIDE DEF L
<1>7. i = n \/ n < i
  BY <1>4, <1>5
<1>8. CASE i = n
  BY <1>3, <1>6, <1>8 DEF z
<1>9. CASE n < i
  <2>1. z[n] < z[i]
    BY <1>1, <1>5, <1>9
  <2> QED BY <1>3, <1>6, <2>1 DEF z
<1> QED BY <1>7, <1>8, <1>9

(* The values of n cells are those of n - 1 cells and the last.            *)
LEMMA CellsGrow ==
    ASSUME NEW z, NEW n \in Nat, n # 0
    PROVE  Cells(z, n) = Cells(z, n - 1) \cup {z[n]}
<1>1. 1..n = (1..n - 1) \cup {n}
  OBVIOUS
<1> QED BY <1>1 DEF Cells

(* Runs do not overlap.                                                    *)
LEMMA RunsDisjoint ==
    ASSUME NEW src \in Seq(Nat), NEW runs, IsRuns(runs, src, Len(src)), NEW b \in 1..Len(runs),
           NEW c \in 1..Len(runs), NEW k \in Nat, InRun(runs[b], k), InRun(runs[c], k)
    PROVE  b = c
<1>1. ASSUME NEW i \in 1..Len(runs), NEW j \in 1..Len(runs), i < j, InRun(runs[i], k), InRun(runs[j], k)
      PROVE  FALSE
  <2> DEFINE e == runs[i].end
             s == runs[j].start
  <2>1. e \in Nat /\ s \in Nat
    BY RunBounds
  <2>2. e <= s
    BY <1>1 DEF IsRuns
  <2>3. k <= e /\ s < k
    BY <1>1 DEF InRun
  <2> HIDE DEF e, s
  <2> QED BY <2>1, <2>2, <2>3
<1>2. b < c \/ c < b \/ b = c
  <2>1. Len(runs) \in Nat
    BY RunsLen
  <2> QED BY <2>1
<1> QED BY <1>1, <1>2

(* A value goes to the destinations whose next element it is.              *)
LEMMA SplitTurn ==
    ASSUME NEW src \in Seq(Nat), NEW runs, IsRuns(runs, src, Len(src)), NEW m, IsMerged(m, src, runs),
           NEW n \in 1..Len(m.merged), NEW s \in SplitStates(SizesOf(runs)),
           SplitGood(s, n - 1, src, runs, m.merged),
           NEW r, IsSplit(r, s, SizesOf(runs), m.bitsets[n], m.merged[n])
    PROVE  SplitGood(r, n, src, runs, m.merged)
<1> DEFINE h == SizesOf(runs)
           R == Len(runs)
           N == Len(src)
           d == s.dsts
           z == m.merged
           v == z[n]
<1>1. /\ h \in Seq(Nat) /\ Len(h) = R /\ Sum(h) = N /\ R \in Nat /\ DOMAIN runs = 1..R
      /\ \A b \in 1..R : Sums(h)[b] = runs[b].end /\ Sums(h)[b - 1] = runs[b].start
  BY SizesFacts, RunsLen
<1>2. ASSUME NEW b \in 1..R
      PROVE  /\ d[b] \in Nat /\ runs[b].start <= d[b] /\ d[b] <= runs[b].end
             /\ runs[b].start \in Nat /\ runs[b].end \in Nat /\ runs[b].end <= N
             /\ Open(s, h, b) <=> d[b] # runs[b].end
  <2>1. d \in [1..R -> Nat]
    BY <1>1 DEF SplitStates
  <2>2. runs[b].start <= d[b] /\ d[b] <= runs[b].end
    BY <1>1 DEF SplitStates
  <2>3. runs[b].start \in Nat /\ runs[b].end \in Nat /\ runs[b].end <= N
    BY RunBounds
  <2>4. Open(s, h, b) <=> d[b] # runs[b].end
    BY <1>1 DEF Open
  <2> QED BY <2>1, <2>2, <2>3, <2>4
<1>3. /\ m.bitsets[n] = RunsWith(src, runs, v)
      /\ z \in Seq(Nat) /\ v \in Nat
      /\ \A i \in 1..n - 1 : z[i] # v
  <2>1. z \in Seq(Nat) /\ m.bitsets[n] = RunsWith(src, runs, v)
        /\ \A i, j \in 1..Len(z) : i < j => z[i] < z[j]
    BY DEF IsMerged
  <2>2. v \in Nat
    BY <2>1
  <2>3. ASSUME NEW i \in 1..n - 1 PROVE z[i] # v
    <3>1. i \in 1..Len(z) /\ i < n
      BY <2>1
    <3>2. z[i] < v /\ z[i] \in Nat
      BY <2>1, <3>1
    <3> HIDE DEF z, v
    <3> QED BY <2>2, <3>2
  <2> QED BY <2>1, <2>2, <2>3
<1>4. v \notin Cells(z, n - 1)
  BY <1>3 DEF Cells
<1>5. Cells(z, n) = Cells(z, n - 1) \cup {v}
  <2>1. n \in Nat /\ n # 0
    OBVIOUS
  <2> QED BY <2>1, CellsGrow
<1>6. ASSUME NEW b \in 1..R PROVE r.dsts[b] = IF Open(s, h, b) /\ b \in m.bitsets[n] THEN d[b] + 1 ELSE d[b]
  BY <1>1 DEF IsSplit
<1>7. ASSUME NEW k \in 1..N
      PROVE  r.out[k] = IF \E b \in 1..R : Open(s, h, b) /\ d[b] = k - 1 THEN v ELSE s.out[k]
  BY <1>1 DEF IsSplit
(* A run that contains the value has it next.                              *)
<1>8. ASSUME NEW b \in 1..R, NEW k \in 1..N, InRun(runs[b], k), src[k] = v
      PROVE  k = d[b] + 1 /\ Open(s, h, b)
  <2> DEFINE e == runs[b].end
             a == runs[b].start
             x == d[b]
  <2>1. x \in Nat /\ a <= x /\ x <= e /\ a \in Nat /\ e \in Nat /\ e <= N /\ (Open(s, h, b) <=> x # e)
    BY <1>2
  <2>2. ~(k <= x)
    <3>1. src[k] \notin Cells(z, n - 1)
      BY <1>4, <1>8
    <3> QED BY <1>8, <3>1 DEF SplitGood
  <2>3. a < k /\ k <= e
    BY <1>8 DEF InRun
  <2> HIDE DEF a, x, e
  <2>4. x + 1 <= k /\ x # e /\ x + 1 \in 1..N /\ a < x + 1 /\ x + 1 <= e /\ ~(x + 1 <= x)
    BY <2>1, <2>2, <2>3
  <2>5. InRun(runs[b], x + 1)
    BY <2>4 DEF InRun, a, e
  <2>6. src[x + 1] \notin Cells(z, n - 1)
    BY <2>4, <2>5 DEF SplitGood, x
  <2>7. src[x + 1] >= v /\ src[x + 1] \in Nat
    BY <2>4, <2>6, NotBelow
  <2>8. ~(x + 1 < k)
    <3> SUFFICES ASSUME x + 1 < k PROVE FALSE
      OBVIOUS
    <3>1. src[x + 1] < src[k]
      BY <1>8, <2>4, <2>5 DEF IsRuns
    <3> QED BY <1>3, <1>8, <2>7, <3>1
  <2>9. k = x + 1
    BY <2>1, <2>4, <2>8
  <2> QED BY <2>1, <2>4, <2>9 DEF x
<1> SUFFICES ASSUME NEW b \in 1..R, NEW k \in 1..N, InRun(runs[b], k)
             PROVE  IF k <= r.dsts[b] THEN r.out[k] = src[k] /\ src[k] \in Cells(z, n)
                    ELSE src[k] \notin Cells(z, n)
  BY DEF SplitGood
<1>9. d[b] \in Nat
  BY <1>2
<1>10. b \in m.bitsets[n] <=> \E j \in 1..N : InRun(runs[b], j) /\ src[j] = v
  <2>1. b \in RunsWith(src, runs, v) <=> \E j \in (runs[b].start + 1)..runs[b].end : v = src[j]
    BY <1>1 DEF RunsWith
  <2>2. ASSUME NEW j PROVE (j \in 1..N /\ InRun(runs[b], j)) <=> j \in (runs[b].start + 1)..runs[b].end
    <3> DEFINE e == runs[b].end
               a == runs[b].start
    <3>1. a \in Nat /\ e \in Nat /\ e <= N /\ N \in Nat
      BY <1>2
    <3>2. InRun(runs[b], j) <=> a < j /\ j <= e
      BY DEF InRun
    <3> HIDE DEF a, e, N
    <3>3. (j \in 1..N /\ a < j /\ j <= e) <=> j \in (a + 1)..e
      BY <3>1
    <3> QED BY <3>2, <3>3 DEF a, e
  <2>3. CASE b \in RunsWith(src, runs, v)
    <3>1. PICK j \in (runs[b].start + 1)..runs[b].end : v = src[j]
      BY <2>1, <2>3
    <3>2. j \in 1..N /\ InRun(runs[b], j)
      BY <2>2
    <3> QED BY <1>3, <2>3, <3>1, <3>2
  <2>4. ASSUME NEW j \in 1..N, InRun(runs[b], j), src[j] = v PROVE b \in RunsWith(src, runs, v)
    <3>1. j \in (runs[b].start + 1)..runs[b].end
      BY <2>2, <2>4
    <3> QED BY <2>1, <2>4, <3>1
  <2> QED BY <1>3, <2>3, <2>4
<1>11. CASE k <= d[b]
  <2>1. s.out[k] = src[k] /\ src[k] \in Cells(z, n - 1)
    BY <1>11 DEF SplitGood
  <2>2. k <= r.dsts[b]
    <3> DEFINE x == d[b]
               y == r.dsts[b]
    <3>1. y = x \/ y = x + 1
      BY <1>6
    <3>2. x \in Nat /\ k <= x /\ k \in Nat
      BY <1>9, <1>11
    <3> HIDE DEF x, y
    <3>3. k <= y
      BY <3>1, <3>2
    <3> QED BY <3>3 DEF y
  <2>3. ASSUME NEW c \in 1..R, Open(s, h, c), d[c] = k - 1 PROVE FALSE
    <3> DEFINE e == runs[c].end
               a == runs[c].start
               x == d[c]
    <3>1. x \in Nat /\ a <= x /\ x <= e /\ a \in Nat /\ e \in Nat /\ x # e /\ x = k - 1 /\ k \in Nat
      BY <1>2, <2>3
    <3> HIDE DEF a, e, x
    <3>2. a < k /\ k <= e
      BY <3>1
    <3>3. InRun(runs[c], k)
      BY <3>2 DEF InRun, a, e
    <3>4. b = c
      BY <3>1, <3>3, RunsDisjoint
    <3> QED BY <1>11, <3>1, <3>4 DEF x
  <2>4. r.out[k] = src[k]
    BY <1>7, <2>1, <2>3
  <2> QED BY <1>5, <2>1, <2>2, <2>4
<1>12. CASE ~(k <= d[b]) /\ src[k] = v
  <2>1. k = d[b] + 1 /\ Open(s, h, b)
    BY <1>8, <1>12
  <2>2. b \in m.bitsets[n]
    BY <1>10, <1>12
  <2>3. r.dsts[b] = k
    BY <1>6, <2>1, <2>2
  <2>4. d[b] = k - 1
    <3> DEFINE x == d[b]
    <3>1. x \in Nat /\ k = x + 1
      BY <1>9, <2>1
    <3> HIDE DEF x
    <3>2. x = k - 1
      BY <3>1
    <3> QED BY <3>2 DEF x
  <2>5. r.out[k] = v
    BY <1>7, <2>1, <2>4
  <2>6. k <= r.dsts[b]
    BY <2>3
  <2> QED BY <1>5, <1>12, <2>5, <2>6
<1>13. CASE ~(k <= d[b]) /\ src[k] # v
  <2>1. src[k] \notin Cells(z, n - 1)
    BY <1>13 DEF SplitGood
  <2>2. src[k] \notin Cells(z, n)
    BY <1>5, <1>13, <2>1
  <2>3. ~(k <= r.dsts[b])
    <3>1. CASE ~(Open(s, h, b) /\ b \in m.bitsets[n])
      <4>1. r.dsts[b] = d[b]
        BY <1>6, <3>1
      <4> QED BY <1>13, <4>1
    <3>2. CASE Open(s, h, b) /\ b \in m.bitsets[n]
      <4>1. PICK j \in 1..N : InRun(runs[b], j) /\ src[j] = v
        BY <1>10, <3>2
      <4>2. j = d[b] + 1
        BY <1>8, <4>1
      <4>3. k # j
        BY <1>13, <4>1
      <4>4. r.dsts[b] = d[b] + 1
        BY <1>6, <3>2
      <4> DEFINE x == d[b]
      <4>5. x \in Nat /\ ~(k <= x) /\ k # x + 1 /\ k \in Nat
        BY <1>9, <1>13, <4>2, <4>3
      <4> HIDE DEF x
      <4>6. ~(k <= x + 1)
        BY <4>5
      <4> QED BY <4>4, <4>6 DEF x
    <3> QED BY <3>1, <3>2
  <2> QED BY <2>2, <2>3
<1> QED BY <1>11, <1>12, <1>13

(* Splitting what was merged fills every destination with its run.         *)
LEMMA SplitUndoesMerge ==
    ASSUME NEW src \in Seq(Nat), NEW runs, IsRuns(runs, src, Len(src)), NEW m, IsMerged(m, src, runs),
           NEW h, h = SizesOf(runs),
           NEW kernel, kernel = ZL_MergeSorted_split(DestinationEnds(h), h, m.bitsets, m.merged)
    PROVE  AllFilled(kernel.dsts, DestinationEnds(h)) /\ kernel.out = src
<1> DEFINE z == m.merged
           L == Len(z)
           R == Len(runs)
           N == Len(src)
<1>1. /\ h \in Seq(Nat) /\ Len(h) = R /\ Sum(h) = N
      /\ \A b \in 1..R : Sums(h)[b] = runs[b].end /\ Sums(h)[b - 1] = runs[b].start
  BY SizesFacts
<1>2. z \in Seq(Nat) /\ L \in Nat /\ 0 \in 0..L /\ L \in 0..L
  BY DEF IsMerged
<1>3. PICK f : SplitRun(f, h, m.bitsets, z)
  BY <1>1, <1>2, SplitRunStates
<1>4. f \in [0..L -> SplitStates(h)]
  BY <1>3, Zenon DEF SplitRun
<1>5. kernel = f[L]
  BY <1>3, Zenon DEF SplitRun
<1>6. f[0] = [dsts |-> [b \in DOMAIN DestinationEnds(h) |-> DestinationEnds(h)[b] - h[b]], out |-> [k \in 1..Sum(h) |-> Wild]]
  BY <1>3, Zenon DEF SplitRun
<1>7. \A n \in 1..L : f[n] = SplitValue(f[n - 1], DestinationEnds(h), m.bitsets[n], z[n])
  BY <1>3, Zenon DEF SplitRun
<1> DEFINE S == {n \in 0..L : SplitGood(f[n], n, src, runs, z)}
<1>8. 0 \in S
  <2>1. Cells(z, 0) = {}
    BY DEF Cells
  <2>2. ASSUME NEW b \in 1..R, NEW k \in 1..N, InRun(runs[b], k) PROVE ~(k <= f[0].dsts[b])
    <3>1. b \in DOMAIN DestinationEnds(h)
      BY <1>1 DEF DestinationEnds
    <3>2. f[0].dsts[b] = DestinationEnds(h)[b] - h[b]
      BY <1>6, <3>1
    <3>3. f[0].dsts[b] = runs[b].start
      BY <1>1, <3>2, EndsFacts
    <3> DEFINE a == runs[b].start
    <3>4. a \in Nat /\ a < k
      BY <2>2, RunBounds DEF InRun
    <3> HIDE DEF a
    <3>5. ~(k <= a)
      BY <3>4
    <3> QED BY <3>3, <3>5 DEF a
  <2>3. SplitGood(f[0], 0, src, runs, z)
    BY <2>1, <2>2 DEF SplitGood
  <2> QED BY <1>2, <2>3
<1>9. ASSUME NEW n \in 1..L, n - 1 \in S PROVE n \in S
  <2>1. n \in 0..L /\ n - 1 \in 0..L /\ z[n] \in Nat
    BY <1>2
  <2>2. f[n - 1] \in SplitStates(h)
    BY <1>4, <2>1
  <2>3. IsSplit(f[n], f[n - 1], h, m.bitsets[n], z[n])
    BY <1>1, <1>7, <2>1, <2>2, SplitFacts
  <2>4. SplitGood(f[n - 1], n - 1, src, runs, z)
    BY <1>9
  <2>5. SplitGood(f[n], n, src, runs, z)
    BY <2>2, <2>3, <2>4, SplitTurn
  <2> QED BY <2>1, <2>5
<1> HIDE DEF S
<1>10. \A n \in 0..L : n \in S
  BY <1>2, <1>8, <1>9, LoopInduction
<1>11. SplitGood(kernel, L, src, runs, z)
  BY <1>2, <1>5, <1>10 DEF S
<1>12. kernel \in SplitStates(h)
  BY <1>2, <1>4, <1>5
<1>13. \A k \in 1..N : src[k] \in Cells(z, L)
  <2>1. \A k \in 1..N : src[k] \in Cells(src, N)
    BY DEF Cells
  <2> QED BY <2>1 DEF IsMerged
<1>14. ASSUME NEW b \in 1..R, NEW k \in 1..N, InRun(runs[b], k)
       PROVE  k <= kernel.dsts[b] /\ kernel.out[k] = src[k]
  BY <1>11, <1>13, <1>14 DEF SplitGood
<1>15. ASSUME NEW b \in 1..R PROVE kernel.dsts[b] = runs[b].end
  <2> DEFINE e == runs[b].end
             a == runs[b].start
             x == kernel.dsts[b]
  <2>1. a \in Nat /\ e \in Nat /\ a < e /\ e <= N /\ N \in Nat
    BY RunBounds
  <2>2. x <= e
    BY <1>1, <1>12 DEF SplitStates
  <2>3. x \in Nat
    BY <1>1, <1>12 DEF SplitStates
  <2>4. InRun(runs[b], e)
    BY <2>1 DEF InRun
  <2>5. e \in 1..N
    <3> HIDE DEF e, a, N
    <3> QED BY <2>1
  <2>6. e <= x
    BY <1>14, <2>4, <2>5
  <2> HIDE DEF e, x
  <2>7. x = e
    BY <2>1, <2>2, <2>3, <2>6
  <2> QED BY <2>7 DEF e, x
<1>16. AllFilled(kernel.dsts, DestinationEnds(h))
  <2>1. DOMAIN DestinationEnds(h) = 1..R
    BY <1>1 DEF DestinationEnds
  <2>2. \A b \in 1..R : DestinationEnds(h)[b] = runs[b].end
    BY <1>1, EndsFacts
  <2> QED BY <1>15, <2>1, <2>2 DEF AllFilled
<1>17. kernel.out = src
  <2> DEFINE o == kernel.out
  <2>1. o \in [1..N -> Nat \cup {Wild}]
    BY <1>1, <1>12 DEF SplitStates
  <2>2. \A k \in 1..N : o[k] = src[k]
    <3> TAKE k \in 1..N
    <3>1. PICK b \in 1..R : InRun(runs[b], k)
      BY DEF IsRuns
    <3> QED BY <1>14, <3>1
  <2>3. src \in [1..N -> Nat]
    OBVIOUS
  <2> HIDE DEF o, N
  <2>5. o = [k \in 1..N |-> o[k]] /\ src = [k \in 1..N |-> src[k]]
    BY <2>1, <2>3
  <2>4. o = src
    BY <2>2, <2>5
  <2> QED BY <2>4 DEF o
<1> QED BY <1>16, <1>17

(* Multiplication is monotonic.                                            *)
LEMMA TimesGrows ==
    ASSUME NEW a \in Nat, NEW b \in Nat, NEW c \in Nat, a <= b
    PROVE  a * c <= b * c
<1>1. PICK e \in Nat : b = a + e
  <2>1. b - a \in Nat /\ b = a + (b - a)
    OBVIOUS
  <2> QED BY <2>1
<1>2. b * c = a * c + e * c
  BY <1>1
<1>3. e * c \in Nat /\ a * c \in Nat
  OBVIOUS
<1> QED BY <1>2, <1>3

(* The check on the sizes: no run is longer than the merged values.        *)
LEMMA SizesAreSmall ==
    ASSUME NEW src \in Seq(Nat), NEW runs, IsRuns(runs, src, Len(src)), NEW m, IsMerged(m, src, runs)
    PROVE  Sum(SizesOf(runs)) <= Len(runs) * Len(m.merged)
<1> DEFINE h == SizesOf(runs)
           z == m.merged
           L == Len(z)
           R == Len(runs)
           N == Len(src)
           S == Sums(h)
<1>1. h \in Seq(Nat) /\ Len(h) = R /\ R \in Nat /\ DOMAIN runs = 1..R
  BY SizesFacts, RunsLen
<1>2. z \in Seq(Nat) /\ L \in Nat
  BY DEF IsMerged
<1>3. ASSUME NEW b \in 1..R PROVE h[b] <= L /\ h[b] \in Nat
  <2> DEFINE e == runs[b].end
             a == runs[b].start
             x == h[b]
             w == [i \in 1..x |-> src[a + i]]
  <2>1. a \in Nat /\ e \in Nat /\ a < e /\ e <= N /\ N \in Nat
    BY RunBounds
  <2>2. x = e - a
    BY <1>1 DEF SizesOf
  <2>3. \A i \in 1..x : w[i] = src[a + i]
    OBVIOUS
  <2>4. InRun(runs[b], a + 1) <=> a < a + 1 /\ a + 1 <= e
    BY DEF InRun
  <2>5. \A k : InRun(runs[b], k) <=> a < k /\ k <= e
    BY DEF InRun
  <2> HIDE DEF e, a, x, w, N
  <2>6. x \in Nat /\ \A i \in 1..x : a + i \in 1..N /\ a < a + i /\ a + i <= e
    BY <2>1, <2>2
  <2>7. \A i \in 1..x : w[i] \in Cells(z, L)
    <3> TAKE i \in 1..x
    <3>1. src[a + i] \in Cells(src, N)
      BY <2>6 DEF Cells
    <3>2. Cells(src, N) = Cells(z, L)
      BY DEF IsMerged, N
    <3> QED BY <2>3, <3>1, <3>2
  <2>8. ASSUME NEW i \in 1..x, NEW j \in 1..x, i < j PROVE w[i] # w[j]
    <3>1. a + i \in 1..N /\ a + j \in 1..N /\ a + i < a + j
      BY <2>1, <2>6, <2>8
    <3>2. InRun(runs[b], a + i) /\ InRun(runs[b], a + j)
      BY <2>5, <2>6
    <3>3. src[a + i] < src[a + j]
      BY <3>1, <3>2 DEF IsRuns, N
    <3>4. src[a + i] \in Nat /\ src[a + j] \in Nat
      BY <3>1 DEF N
    <3> QED BY <2>3, <3>3, <3>4
  <2>9. x <= L
    BY <1>2, <2>6, <2>7, <2>8, DistinctFit
  <2> QED BY <2>6, <2>9 DEF x
<1>4. /\ S \in [0..R -> Nat] /\ S[0] = 0 /\ Sum(h) = S[R]
      /\ \A n \in 1..R : S[n] = S[n - 1] + h[n]
  BY <1>1, SumFacts
<1> DEFINE T == {n \in 0..R : S[n] <= n * L}
<1> HIDE DEF h, S, R, L
<1>5. 0 \in T
  <2>1. 0 * L = 0 /\ 0 \in 0..R
    BY <1>1, <1>2
  <2> QED BY <1>4, <2>1
<1>6. ASSUME NEW n \in 1..R, n - 1 \in T PROVE n \in T
  <2>1. n \in 0..R /\ n - 1 \in 0..R /\ n - 1 \in Nat /\ n \in Nat
    BY <1>1
  <2>2. n * L = (n - 1) * L + L /\ (n - 1) * L \in Nat /\ n * L \in Nat
    BY <1>2, <2>1
  <2>3. S[n - 1] <= (n - 1) * L /\ S[n - 1] \in Nat /\ h[n] \in Nat /\ h[n] <= L
    BY <1>3, <1>4, <1>6, <2>1
  <2>4. S[n] = S[n - 1] + h[n]
    BY <1>4
  <2> DEFINE p == (n - 1) * L
             q == n * L
  <2> HIDE DEF p, q
  <2>5. S[n] <= q
    BY <1>2, <2>2, <2>3, <2>4 DEF p, q
  <2> QED BY <2>1, <2>5 DEF q
<1> HIDE DEF T
<1>7. \A n \in 0..R : n \in T
  BY <1>1, <1>5, <1>6, LoopInduction
<1>8. R \in T
  <2>1. R \in 0..R
    BY <1>1
  <2> QED BY <1>7, <2>1
<1>9. S[R] <= R * L
  BY <1>8 DEF T
<1> QED BY <1>4, <1>9 DEF h, R, L

LEMMA MaxRunsFacts ==
    /\ Max(BitsetWidths) \in BitsetWidths /\ Max(BitsetWidths) \in Nat
    /\ MaxRuns = Max(BitsetWidths) * BitsetBits /\ MaxRuns \in Nat
<1>1. PICK top \in BitsetWidths : \A w \in BitsetWidths : w <= top
  BY BitsetAssumption
<1>2. BitsetWidths \in SUBSET Nat /\ BitsetWidths # {} /\ top \in Nat /\ BitsetBits \in Nat
  BY <1>1, BitsetAssumption
<1>3. Max(BitsetWidths) \in BitsetWidths
  BY <1>1, <1>2, GreatestOf
<1>4. Max(BitsetWidths) \in Nat
  BY <1>2, <1>3
<1> DEFINE top2 == Max(BitsetWidths)
<1>5. MaxRuns = top2 * BitsetBits
  BY DEF MaxRuns
<1> HIDE DEF top2
<1>6. top2 * BitsetBits \in Nat
  BY <1>2, <1>4 DEF top2
<1> QED BY <1>3, <1>4, <1>5, <1>6 DEF top2

(* The bitset has a bit for every run.                                     *)
LEMMA BitsetIsWide ==
    ASSUME NEW R \in Nat, R <= MaxRuns
    PROVE  /\ BitsetWidth(R) \in BitsetWidths /\ BitsetWidth(R) \in Nat
           /\ R <= BitsetWidth(R) * BitsetBits
<1>0. BitsetBits \in Nat /\ BitsetWidths \subseteq Nat /\ {1, 2} \subseteq BitsetWidths
  BY BitsetAssumption
<1>1. CASE R = 0
  <2>1. BitsetWidth(R) = 2
    BY <1>1 DEF BitsetWidth
  <2> QED BY <1>0, <1>1, <2>1
<1>2. CASE R # 0
  <2> DEFINE W == {w \in BitsetWidths : w * BitsetBits >= R}
  <2>1. BitsetWidth(R) = Min(W)
    BY <1>2 DEF BitsetWidth
  <2> DEFINE top == Max(BitsetWidths)
  <2>2. top \in BitsetWidths /\ top \in Nat /\ MaxRuns = top * BitsetBits /\ MaxRuns \in Nat
    BY MaxRunsFacts
  <2> HIDE DEF top
  <2>4. top \in W
    BY <1>0, <2>2
  <2>5. W \in SUBSET Nat /\ W # {}
    BY <1>0, <2>4
  <2> HIDE DEF W
  <2>6. Min(W) \in W
    BY <2>5, LeastOf
  <2>7. Min(W) \in BitsetWidths /\ Min(W) * BitsetBits >= R
    BY <2>6 DEF W
  <2> DEFINE w == Min(W)
  <2>8. w \in BitsetWidths /\ w \in Nat /\ w * BitsetBits >= R
    BY <1>0, <2>7
  <2> HIDE DEF w
  <2>9. w * BitsetBits \in Nat
    BY <1>0, <2>8
  <2>10. R <= w * BitsetBits
    BY <2>8, <2>9
  <2> QED BY <2>1, <2>8, <2>10 DEF w
<1> QED BY <1>1, <1>2

(* merge_sorted: splitting undoes merging.                                 *)
LEMMA MergeSortedRoundTrip ==
    ASSUME NEW src \in Seq(Nat), NEW width, NEW out, out = EI_mergeSorted(src, width), out.ok
    PROVE  /\ DI_mergeSorted(out.header, out.streams) = Made(4, src, Len(src))
           /\ width = 4
<1> DEFINE runs == getSortedRuns(src)
           R == Len(runs)
           N == Len(src)
           m == ZL_MergeSorted_merge(src, runs)
           h == SizesOf(runs)
           bw == BitsetWidth(R)
           kernel == ZL_MergeSorted_split(DestinationEnds(h), h, m.bitsets, m.merged)
<1>1. IsRuns(runs, src, N)
  BY RunsFacts
<1>2. IsMerged(m, src, runs)
  BY <1>1, MergeFacts
<1>3. AllFilled(kernel.dsts, DestinationEnds(h)) /\ kernel.out = src
  BY <1>1, <1>2, SplitUndoesMerge
<1>4. width = 4 /\ ~(R > MaxRuns) /\ out = Sent(h, <<Stream(bw, m.bitsets), Stream(4, m.merged)>>)
  BY DEF EI_mergeSorted, NotSent, SizesOf
<1>5. h \in Seq(Nat) /\ Len(h) = R /\ Sum(h) = N /\ R \in Nat
  BY <1>1, SizesFacts, RunsLen
<1>6. Sum(h) <= R * Len(m.merged)
  BY <1>1, <1>2, SizesAreSmall
<1> HIDE DEF runs, R, m, h, kernel, bw
<1>7. MaxRuns \in Nat
  BY MaxRunsFacts
<1>8. R <= MaxRuns
  BY <1>4, <1>5, <1>7
<1>9. bw \in BitsetWidths /\ bw \in Nat /\ R <= bw * BitsetBits
  BY <1>5, <1>8, BitsetIsWide DEF bw
<1>10. Len(m.bitsets) = Len(m.merged) /\ Len(m.merged) \in Nat
  BY <1>2 DEF IsMerged
<1>11. bw * BitsetBits \in Nat
  BY <1>9, BitsetAssumption
<1>12. R * Len(m.merged) <= bw * BitsetBits * Len(m.bitsets)
  <2> DEFINE q == bw * BitsetBits
             L == Len(m.merged)
  <2>1. q \in Nat /\ R <= q /\ L \in Nat
    BY <1>9, <1>10, <1>11
  <2> HIDE DEF q, L
  <2>2. R * L <= q * L
    BY <1>5, <2>1, TimesGrows
  <2> QED BY <1>10, <2>2 DEF q, L
<1>13. Sum(h) <= bw * BitsetBits * Len(m.bitsets)
  <2> DEFINE p == R * Len(m.merged)
             q == bw * BitsetBits * Len(m.bitsets)
  <2>1. p \in Nat /\ q \in Nat /\ Sum(h) \in Nat
    BY <1>5, <1>10, <1>11
  <2>2. Sum(h) <= p /\ p <= q
    BY <1>6, <1>12
  <2> HIDE DEF p, q
  <2>3. Sum(h) <= q
    BY <2>1, <2>2
  <2> QED BY <2>3 DEF q
<1>14. DI_mergeSorted(out.header, out.streams) = Made(4, src, Len(src))
  <2> DEFINE st == out.streams
  <2>1. /\ out.header = h /\ st[1].width = bw /\ st[1].elts = m.bitsets
        /\ st[2].width = 4 /\ st[2].elts = m.merged
    BY <1>4 DEF Sent, Stream
  <2>2. /\ ~(Len(m.merged) # Len(m.bitsets)) /\ ~(Len(h) > MaxRuns) /\ ~(Len(h) > bw * BitsetBits)
        /\ ~(bw \notin BitsetWidths)
    BY <1>5, <1>7, <1>8, <1>9, <1>10, <1>11
  <2>3. ~(Sum(h) > bw * BitsetBits * Len(m.bitsets))
    <3> DEFINE q == bw * BitsetBits * Len(m.bitsets)
    <3>1. q \in Nat /\ Sum(h) \in Nat
      BY <1>5, <1>10, <1>11
    <3> HIDE DEF q
    <3> QED BY <1>13, <3>1 DEF q
  <2>4. DI_mergeSorted(h, st) = Made(4, kernel.out, Sum(h))
    <3> HIDE DEF st
    <3> QED BY <1>3, <2>1, <2>2, <2>3 DEF DI_mergeSorted, kernel
  <2> QED BY <1>3, <1>5, <2>1, <2>4
<1> QED BY <1>4, <1>14

-----------------------------------------------------------------------------
(* What a decoder may be handed, damaged or not: numbers in the header, as *)
(* many streams as the codec has, elements of the right kind in each.      *)
Alphabet(codec, k, width) ==
    IF codec = "merge_sorted" /\ k = 1 THEN SUBSET Nat
    ELSE IF codec = "prefix" /\ k = 1 THEN Seq(Nat)
    ELSE IF codec = "zigzag" THEN 0..ZL_maxValueForWidth(width)
    ELSE Nat
StreamCount(codec) == IF codec \in {"delta", "zigzag", "range_pack"} THEN 1 ELSE 2
IsStream(codec, k, s) ==
    /\ s = Stream(s.width, s.elts) /\ s.width \in Nat \ {0}
    /\ s.elts \in Seq(Alphabet(codec, k, s.width))
WellFormed(codec, out) ==
    /\ out = Sent(out.header, out.streams)
    /\ out.header \in Seq(Nat)
    /\ DOMAIN out.streams = 1..StreamCount(codec)
    /\ \A k \in 1..StreamCount(codec) : IsStream(codec, k, out.streams[k])

(* A codec with one stream.                                                *)
LEMMA OneStream ==
    ASSUME NEW codec \in {"delta", "zigzag", "range_pack"}, NEW header \in Seq(Nat), NEW w \in Nat \ {0},
           NEW e, e \in Seq(Alphabet(codec, 1, w)), NEW out, out = Sent(header, <<Stream(w, e)>>)
    PROVE  WellFormed(codec, out)
<1> DEFINE s == <<Stream(w, e)>>
<1>1. StreamCount(codec) = 1
  BY DEF StreamCount
<1>2. DOMAIN s = 1..1 /\ s[1] = Stream(w, e)
  OBVIOUS
<1>3. IsStream(codec, 1, s[1])
  <2>1. s[1].width = w /\ s[1].elts = e
    BY DEF Stream
  <2> HIDE DEF s
  <2> QED BY <1>2, <2>1 DEF IsStream
<1> HIDE DEF s
<1>4. out.header = header /\ out.streams = s /\ out = Sent(out.header, out.streams)
  BY DEF Sent, s
<1>5. \A k \in 1..1 : IsStream(codec, k, s[k])
  BY <1>3
<1> QED BY <1>1, <1>2, <1>4, <1>5 DEF WellFormed

(* A codec with two streams.                                               *)
LEMMA TwoStreams ==
    ASSUME NEW codec, codec \notin {"delta", "zigzag", "range_pack"}, NEW header \in Seq(Nat),
           NEW v \in Nat \ {0}, NEW d, d \in Seq(Alphabet(codec, 1, v)),
           NEW w \in Nat \ {0}, NEW e, e \in Seq(Alphabet(codec, 2, w)),
           NEW out, out = Sent(header, <<Stream(v, d), Stream(w, e)>>)
    PROVE  WellFormed(codec, out)
<1> DEFINE s == <<Stream(v, d), Stream(w, e)>>
<1>1. StreamCount(codec) = 2
  BY DEF StreamCount
<1>2. DOMAIN s = 1..2 /\ s[1] = Stream(v, d) /\ s[2] = Stream(w, e)
  OBVIOUS
<1>3. IsStream(codec, 1, s[1]) /\ IsStream(codec, 2, s[2])
  <2>1. s[1].width = v /\ s[1].elts = d /\ s[2].width = w /\ s[2].elts = e
    BY DEF Stream
  <2> HIDE DEF s
  <2> QED BY <1>2, <2>1 DEF IsStream
<1> HIDE DEF s
<1>4. out.header = header /\ out.streams = s /\ out = Sent(out.header, out.streams)
  BY DEF Sent, s
<1>5. \A k \in 1..2 : k = 1 \/ k = 2
  OBVIOUS
<1>6. \A k \in 1..2 : IsStream(codec, k, s[k])
  BY <1>3, <1>5
<1> QED BY <1>1, <1>2, <1>4, <1>6 DEF WellFormed

(* Every encoder sends well-formed streams.                                *)
LEMMA DeltaSends ==
    ASSUME NEW width \in Nat \ {0}, NEW src \in Elements(width), NEW version
    PROVE  WellFormed("delta", EI_delta_int(src, width, version))
<1> DEFINE out == EI_delta_int(src, width, version)
           deltas == ZS_deltaEncode(src, width)
<1>1. Alphabet("delta", 1, width) = Nat
  BY DEF Alphabet
<1>2. /\ src \in Seq(Nat) /\ Len(src) \in Nat
      /\ \A i \in 1..Len(src) : src[i] \in Nat /\ src[i] < Modulus(width)
  BY ElementsFit
<1>3. CASE src = <<>>
  <2>1. out = Sent(<<>>, <<Stream(width, <<>>)>>)
    BY <1>3 DEF EI_delta_int
  <2>2. <<>> \in Seq(Nat)
    OBVIOUS
  <2> HIDE DEF out
  <2>3. WellFormed("delta", out)
    BY <1>1, <2>1, <2>2, OneStream
  <2> QED BY <2>3 DEF out
<1>4. CASE src # <<>>
  <2>1. deltas \in Seq(Nat)
    BY <1>4, DeltaDecodes
  <2>2. 1 \in 1..Len(src)
    BY <1>2, <1>4
  <2>3. src[1] \in Nat /\ src[1] < Power[width]
    BY <1>2, <2>2 DEF Modulus
  <2>4. LE(src[1], width) \in Seq(Nat)
    BY <2>3, ReadsLE
  <2> HIDE DEF deltas
  <2>5. <<src[1]>> \o deltas \in Seq(Nat)
    BY <2>1, <2>3
  <2>6. \/ out = Sent(<<>>, <<Stream(width, <<src[1]>> \o deltas)>>)
        \/ out = Sent(LE(src[1], width), <<Stream(width, deltas)>>)
    BY <1>4, Zenon DEF EI_delta_int, deltas
  <2>7. <<>> \in Seq(Nat)
    OBVIOUS
  <2> HIDE DEF out
  <2>8. CASE out = Sent(<<>>, <<Stream(width, <<src[1]>> \o deltas)>>)
    <3> DEFINE e == <<src[1]>> \o deltas
    <3>1. e \in Seq(Nat) /\ out = Sent(<<>>, <<Stream(width, e)>>)
      BY <2>5, <2>8
    <3> HIDE DEF e
    <3> QED BY <1>1, <2>7, <3>1, OneStream DEF out
  <2>9. CASE out = Sent(LE(src[1], width), <<Stream(width, deltas)>>)
    BY <1>1, <2>1, <2>4, <2>9, OneStream DEF out
  <2> QED BY <2>6, <2>8, <2>9
<1> QED BY <1>3, <1>4

LEMMA ZigzagSends ==
    ASSUME NEW width \in Nat \ {0}, NEW src \in Elements(width)
    PROVE  WellFormed("zigzag", EI_zigzag_num(src, width))
<1> DEFINE M == ZL_maxValueForWidth(width)
           N == Len(src)
           e == [i \in DOMAIN src |-> ZL_zigzagEncode(src[i], width)]
<1>1. Alphabet("zigzag", 1, width) = 0..M
  BY DEF Alphabet
<1>2. /\ N \in Nat /\ DOMAIN src = 1..N
      /\ \A i \in 1..N : src[i] \in Nat /\ src[i] < Modulus(width)
  BY ElementsFit
<1>3. Modulus(width) \in Nat /\ Modulus(width) > 0 /\ M = Modulus(width) - 1
  BY WidthModulus
<1>4. ASSUME NEW v \in Nat PROVE ZL_zigzagEncode(v, width) \in 0..M
  <2> DEFINE c == Cast(2 * v, width)
  <2>1. c \in Nat /\ c < Modulus(width)
    <3>1. 2 * v \in Int
      OBVIOUS
    <3> QED BY <3>1, CastNat
  <2>2. ZL_zigzagEncode(v, width) = c \/ ZL_zigzagEncode(v, width) = M - c
    BY DEF ZL_zigzagEncode, Inverted
  <2> HIDE DEF c, M
  <2> QED BY <1>3, <2>1, <2>2
<1> HIDE DEF M, N
<1>5. e \in [1..N -> 0..M]
  BY <1>2, <1>4
<1>6. EI_zigzag_num(src, width) = Sent(<<>>, <<Stream(width, e)>>)
  BY DEF EI_zigzag_num
<1> HIDE DEF e
<1>7. e \in Seq(0..M)
  BY <1>2, <1>5, FunctionIsSeq
<1>8. <<>> \in Seq(Nat)
  OBVIOUS
<1> QED BY <1>1, <1>6, <1>7, <1>8, OneStream

LEMMA RangePackSendsStreams ==
    ASSUME NEW width \in Widths, NEW src \in Elements(width), NEW bound \in Nat
    PROVE  WellFormed("range_pack", EI_rangePack(src, width, bound))
<1>1. PICK sub \in Nat, dw \in Widths, enc \in Seq(Nat) :
         /\ sub < Modulus(width)
         /\ EI_rangePack(src, width, bound) =
               Sent(<<width>> \o (IF sub = 0 THEN <<>> ELSE LE(sub, width)), <<Stream(dw, enc)>>)
  BY RangePackSends
<1>2. width \in Nat \ {0} /\ dw \in Nat \ {0}
  BY WidthsAssumption
<1> DEFINE rest == IF sub = 0 THEN <<>> ELSE LE(sub, width)
           header == <<width>> \o rest
<1>3. rest \in Seq(Nat)
  <2>1. CASE sub = 0
    BY <2>1
  <2>2. CASE sub # 0
    <3>1. sub < Power[width]
      BY <1>1 DEF Modulus
    <3> QED BY <1>2, <2>2, <3>1, ReadsLE
  <2> QED BY <2>1, <2>2
<1>4. EI_rangePack(src, width, bound) = Sent(header, <<Stream(dw, enc)>>)
  BY <1>1
<1> HIDE DEF rest
<1>5. header \in Seq(Nat)
  BY <1>2, <1>3
<1> HIDE DEF header
<1>6. Alphabet("range_pack", 1, dw) = Nat
  BY DEF Alphabet
<1> QED BY <1>2, <1>4, <1>5, <1>6, OneStream

LEMMA SentinelAlphabet ==
    ASSUME NEW codec \in {"sentinel", "sparse_num"}, NEW k, NEW w
    PROVE  Alphabet(codec, k, w) = Nat
BY DEF Alphabet

LEMMA SentinelByteSends ==
    ASSUME NEW width \in Nat \ {0}, NEW src \in Elements(width), EI_sentinel_byte(src, width).ok
    PROVE  WellFormed("sentinel", EI_sentinel_byte(src, width))
<1> DEFINE N == Len(src)
           kernel == ZL_sentinelByteEncode(src)
           max == ZL_maxValueForWidth(1)
           values == [i \in DOMAIN src |-> IF FitsByte(src[i]) THEN src[i] ELSE max]
<1>1. /\ src \in Seq(Nat) /\ N \in Nat /\ DOMAIN src = 1..N
      /\ \A i \in 1..N : src[i] \in Nat
  BY ElementsFit
<1>2. PICK f : SentinelByteRun(f, src)
  BY <1>1, SentinelByteStates
<1>3. kernel.exceptions = f[N] /\ f \in [0..N -> Seq(Nat)]
  BY <1>2, Zenon DEF SentinelByteRun
<1>4. kernel.exceptions \in Seq(Nat)
  <2>1. N \in 0..N
    BY <1>1
  <2> QED BY <1>3, <2>1
<1>5. kernel.values = values
  BY DEF ZL_sentinelByteEncode
<1>6. max \in Nat
  BY WidthModulus
<1> HIDE DEF max, kernel
<1>7. values \in [1..N -> Nat]
  BY <1>1, <1>6
<1> HIDE DEF values
<1>8. values \in Seq(Nat)
  BY <1>1, <1>7, FunctionIsSeq
<1>9. width # 1
  BY DEF EI_sentinel_byte, NotSent
<1>10. EI_sentinel_byte(src, width) = Sent(<<>>, <<Stream(1, kernel.values), Stream(width, kernel.exceptions)>>)
  BY <1>9 DEF EI_sentinel_byte, kernel
<1>11. <<>> \in Seq(Nat) /\ 1 \in Nat \ {0} /\ "sentinel" \notin {"delta", "zigzag", "range_pack"}
  OBVIOUS
<1> QED BY <1>4, <1>5, <1>8, <1>10, <1>11, SentinelAlphabet, TwoStreams

LEMMA SentinelSends ==
    ASSUME NEW width \in Nat \ {0}, NEW src \in Elements(width), NEW indices, NEW value \in Nat,
           EI_sentinel(src, width, indices, value).ok
    PROVE  WellFormed("sentinel", EI_sentinel(src, width, indices, value))
<1> DEFINE N == Len(src)
           sentinel == Cast(value, width)
           kernel == ZL_sentinelEncode(src, indices, sentinel)
           out == EI_sentinel(src, width, indices, value)
           header == IF sentinel = ZL_maxValueForWidth(width) THEN <<>> ELSE <<sentinel>>
<1>1. src \in Seq(Nat) /\ N \in Nat /\ N \in 0..N
  BY ElementsFit
<1>2. sentinel \in Nat
  BY CastNat
<1>3. out = IF ~kernel.ok \/ Len(kernel.exceptions) # Len(indices) THEN NotSent
            ELSE Sent(header, <<Stream(width, kernel.values), Stream(width, kernel.exceptions)>>)
  BY DEF EI_sentinel
<1> HIDE DEF sentinel
<1>4. PICK f : SentinelEncodeRun(f, src, indices, sentinel)
  BY <1>1, <1>2, SentinelEncodeStates
<1>5. kernel = f[N] /\ f \in [0..N -> EncodeStates]
  BY <1>4, Zenon DEF SentinelEncodeRun
<1>6. kernel \in EncodeStates
  <2> HIDE DEF kernel
  <2> QED BY <1>1, <1>5
<1> HIDE DEF kernel, N
<1>7. kernel.values \in Seq(Nat) /\ kernel.exceptions \in Seq(Nat)
  BY <1>6 DEF EncodeStates
<1>8. header \in Seq(Nat)
  BY <1>2
<1> HIDE DEF header, out
<1>9. out = Sent(header, <<Stream(width, kernel.values), Stream(width, kernel.exceptions)>>)
  <2>1. ~NotSent.ok
    BY DEF NotSent
  <2>2. out.ok
    BY DEF out
  <2> QED BY <1>3, <2>1, <2>2
<1>10. "sentinel" \notin {"delta", "zigzag", "range_pack"}
  OBVIOUS
<1>11. WellFormed("sentinel", out)
  BY <1>7, <1>8, <1>9, <1>10, SentinelAlphabet, TwoStreams
<1> QED BY <1>11 DEF out

LEMMA SparseSendsStreams ==
    ASSUME NEW width \in Nat \ {0}, NEW src, NEW dominant, NEW out, SparseSent(out, src, width, dominant),
           out = Sent(out.header, out.streams)
    PROVE  WellFormed("sparse_num", out)
<1> DEFINE info == ZL_sparseNumComputeEncodeInfo(src, dominant)
           kernel == ZL_sparseNumEncode(src, dominant, info.distanceWidth)
           dw == info.distanceWidth
           st == <<Stream(dw, kernel.distances), Stream(width, kernel.values)>>
<1>1. /\ out.header \in Seq(Nat)
      /\ out.streams = st
      /\ SparseSends(src, dominant, info, kernel)
  BY Zenon DEF SparseSent
<1> HIDE DEF info, kernel
<1>2. dw \in DOMAIN DistanceMax /\ kernel.distances \in Seq(Nat) /\ kernel.values \in Seq(Nat)
  BY <1>1 DEF SparseSends
<1>3. dw \in Nat \ {0}
  BY <1>2, DistanceAssumption
<1>4. "sparse_num" \notin {"delta", "zigzag", "range_pack"}
  OBVIOUS
<1>5. out = Sent(out.header, <<Stream(dw, kernel.distances), Stream(width, kernel.values)>>)
  BY <1>1
<1> HIDE DEF dw
<1> QED BY <1>1, <1>2, <1>3, <1>4, <1>5, SentinelAlphabet, TwoStreams

LEMMA PrefixSendsStreams ==
    ASSUME NEW src \in Seq(Seq(Nat))
    PROVE  WellFormed("prefix", EI_prefix(src))
<1>1. PICK suffixes, sizes :
         /\ IsPrefixCoded(suffixes, sizes, src)
         /\ EI_prefix(src) = Sent(<<>>, <<Stream(1, suffixes), Stream(4, sizes)>>)
  BY PrefixCodes
<1>2. suffixes \in Seq(Seq(Nat)) /\ sizes \in Seq(Nat)
  BY <1>1 DEF IsPrefixCoded
<1>3. Alphabet("prefix", 1, 1) = Seq(Nat) /\ Alphabet("prefix", 2, 4) = Nat
  BY DEF Alphabet
<1>4. <<>> \in Seq(Nat) /\ 1 \in Nat \ {0} /\ 4 \in Nat \ {0} /\ "prefix" \notin {"delta", "zigzag", "range_pack"}
  OBVIOUS
<1> QED BY <1>1, <1>2, <1>3, <1>4, TwoStreams

LEMMA MergeSortedSends ==
    ASSUME NEW src \in Seq(Nat), NEW width, NEW out, out = EI_mergeSorted(src, width), out.ok
    PROVE  /\ WellFormed("merge_sorted", out)
           /\ IsMerged([merged |-> out.streams[2].elts, bitsets |-> out.streams[1].elts], src, getSortedRuns(src))
<1> DEFINE runs == getSortedRuns(src)
           R == Len(runs)
           N == Len(src)
           m == ZL_MergeSorted_merge(src, runs)
           h == SizesOf(runs)
           bw == BitsetWidth(R)
<1>1. IsRuns(runs, src, N)
  BY RunsFacts
<1>2. IsMerged(m, src, runs)
  BY <1>1, MergeFacts
<1>4. ~(R > MaxRuns) /\ out = Sent(h, <<Stream(bw, m.bitsets), Stream(4, m.merged)>>)
  BY DEF EI_mergeSorted, NotSent, SizesOf
<1>5. h \in Seq(Nat) /\ R \in Nat
  BY <1>1, SizesFacts, RunsLen
<1> HIDE DEF runs, R, m, h, bw
<1>8. R <= MaxRuns
  BY <1>4, <1>5, MaxRunsFacts
<1>9. bw \in BitsetWidths
  BY <1>5, <1>8, BitsetIsWide DEF bw
<1>10. bw \in Nat \ {0}
  BY <1>9, BitsetAssumption
<1>11. m.merged \in Seq(Nat) /\ m.bitsets \in Seq(SUBSET Nat)
  <2>1. m.merged \in Seq(Nat) /\ m.bitsets \in Seq(SUBSET (1..R))
    BY <1>2 DEF IsMerged, R
  <2> DEFINE s == m.bitsets
  <2>2. s \in Seq(SUBSET (1..R))
    BY <2>1
  <2> HIDE DEF s
  <2>3. \A i \in 1..Len(s) : s[i] \in SUBSET Nat
    BY <1>5, <2>2
  <2>4. s \in [1..Len(s) -> SUBSET Nat] /\ Len(s) \in Nat
    BY <2>2, <2>3
  <2>5. s \in Seq(SUBSET Nat)
    BY <2>4, FunctionIsSeq
  <2> QED BY <2>1, <2>5 DEF s
<1>12. Alphabet("merge_sorted", 1, bw) = SUBSET Nat /\ Alphabet("merge_sorted", 2, 4) = Nat
  BY DEF Alphabet
<1>13. 4 \in Nat \ {0} /\ "merge_sorted" \notin {"delta", "zigzag", "range_pack"}
  OBVIOUS
<1>14. WellFormed("merge_sorted", out)
  BY <1>4, <1>5, <1>10, <1>11, <1>12, <1>13, TwoStreams
<1>15. out.streams[2].elts = m.merged /\ out.streams[1].elts = m.bitsets
  BY <1>4 DEF Sent, Stream
<1>16. IsMerged([merged |-> m.merged, bitsets |-> m.bitsets], src, runs)
  <2> DEFINE x == [merged |-> m.merged, bitsets |-> m.bitsets]
  <2>1. x.merged = m.merged /\ x.bitsets = m.bitsets
    OBVIOUS
  <2> HIDE DEF x
  <2>2. IsMerged(x, src, runs)
    BY <1>2, <2>1 DEF IsMerged
  <2> QED BY <2>2 DEF x
<1> QED BY <1>14, <1>15, <1>16 DEF runs

CodecNames == {"delta", "zigzag", "range_pack", "sentinel", "merge_sorted", "sparse_num", "prefix"}

(* PassesAgree and MergedIsSortedUnion of one encoding.                    *)
Passes(in, out) ==
    LET distances == out.streams[1].elts
        dominant == ReadLE(out.header)
        info == ZL_sparseNumComputeEncodeInfo(in.elts, dominant)
    IN  /\ Len(distances) = info.numDistances
        /\ Len(out.streams[2].elts) = info.numValues
        /\ Sum(distances) + info.numValues = Len(in.elts)
SortedUnion(in, out) ==
    LET merged == out.streams[2].elts
        runs == getSortedRuns(in.elts)
    IN  /\ ToSet(merged) = ToSet(in.elts)
        /\ \A i, j \in DOMAIN merged : i < j => merged[i] < merged[j]
        /\ \A i \in DOMAIN merged :
               out.streams[1].elts[i] = {b \in DOMAIN runs :
                       \E k \in (runs[b].start + 1)..runs[b].end : merged[i] = in.elts[k]}

(* What an encoder promises of what it sends.                              *)
Decodes(codec, version, in, out) ==
    Decoder(codec, version, out.header, out.streams) = Made(in.width, in.elts, Len(in.elts))
Well(codec, version, out) ==
    /\ codec \in CodecNames /\ (codec = "delta" => version \in Nat)
    /\ WellFormed(codec, out)
Promised(codec, version, in, out) ==
    out.ok => /\ Well(codec, version, out) /\ Decodes(codec, version, in, out)
              /\ codec = "sparse_num" => Passes(in, out)
              /\ codec = "merge_sorted" => SortedUnion(in, out)

(* The numeric inputs.                                                     *)
LEMMA NumericInput ==
    ASSUME NEW in \in NumericInputs \cup SparseInputs
    PROVE  in.width \in Widths /\ in.width \in Nat \ {0} /\ in.elts \in Elements(in.width)
BY NumericAssumption, WidthsAssumption DEF Elements

(* delta keeps its promise.                                                *)
LEMMA DeltaPromised ==
    ASSUME NEW in \in NumericInputs, NEW version \in Versions
    PROVE  Promised("delta", version, in, EI_delta_int(in.elts, in.width, version))
<1> DEFINE out == EI_delta_int(in.elts, in.width, version)
<1>1. in.width \in Nat \ {0} /\ in.elts \in Elements(in.width) /\ version \in Nat
  BY NumericInput, NumbersAssumption
<1>2. WellFormed("delta", out)
  BY <1>1, DeltaSends
<1>3. DI_delta_int(out.header, out.streams, version) = Made(in.width, in.elts, Len(in.elts))
  BY <1>1, DeltaRoundTrip
<1> HIDE DEF out
<1>4. Decodes("delta", version, in, out)
  BY <1>3 DEF Decodes, Decoder
<1>5. Promised("delta", version, in, out)
  BY <1>1, <1>2, <1>4 DEF Promised, Well, CodecNames
<1> QED BY <1>5 DEF out

(* zigzag keeps its promise.                                               *)
LEMMA ZigzagPromised ==
    ASSUME NEW in \in NumericInputs, NEW version
    PROVE  Promised("zigzag", version, in, EI_zigzag_num(in.elts, in.width))
<1> DEFINE out == EI_zigzag_num(in.elts, in.width)
<1>1. in.width \in Nat \ {0} /\ in.elts \in Elements(in.width)
  BY NumericInput
<1>2. WellFormed("zigzag", out)
  BY <1>1, ZigzagSends
<1>3. DI_zigzag_num(out.streams) = Made(in.width, in.elts, Len(in.elts))
  BY <1>1, ZigzagRoundTrip
<1> HIDE DEF out
<1>4. Decodes("zigzag", version, in, out)
  BY <1>3 DEF Decodes, Decoder
<1>5. Promised("zigzag", version, in, out)
  BY <1>2, <1>4 DEF Promised, Well, CodecNames
<1> QED BY <1>5 DEF out

(* range_pack keeps its promise.                                           *)
LEMMA RangePackPromised ==
    ASSUME NEW in \in NumericInputs, NEW version,
           NEW bound \in Parameters \cup {ZL_maxValueForWidth(Max(Widths))}
    PROVE  Promised("range_pack", version, in, EI_rangePack(in.elts, in.width, bound))
<1> DEFINE out == EI_rangePack(in.elts, in.width, bound)
<1>1. in.width \in Widths /\ in.elts \in Elements(in.width)
  BY NumericInput
<1>2. bound \in Nat
  <2>1. PICK top \in Widths : \A w \in Widths : w <= top
    BY WidthsAssumption
  <2>2. Widths \in SUBSET Nat /\ Widths # {} /\ top \in Nat
    BY <2>1, WidthsAssumption
  <2>3. Max(Widths) \in Widths
    BY <2>1, <2>2, GreatestOf
  <2>4. Max(Widths) \in Nat \ {0}
    BY <2>3, WidthsAssumption
  <2>5. ZL_maxValueForWidth(Max(Widths)) \in Nat
    BY <2>4, WidthModulus
  <2> QED BY <2>5, NumbersAssumption
<1>3. WellFormed("range_pack", out)
  BY <1>1, <1>2, RangePackSendsStreams
<1>4. DI_rangePack(out.header, out.streams) = Made(in.width, in.elts, Len(in.elts))
  BY <1>1, <1>2, RangePackRoundTrip
<1> HIDE DEF out
<1>5. Decodes("range_pack", version, in, out)
  BY <1>4 DEF Decodes, Decoder
<1>6. Promised("range_pack", version, in, out)
  BY <1>3, <1>5 DEF Promised, Well, CodecNames
<1> QED BY <1>6 DEF out

(* sentinel keeps its promise, with byte values,                           *)
LEMMA SentinelBytePromised ==
    ASSUME NEW in \in NumericInputs, NEW version
    PROVE  Promised("sentinel", version, in, EI_sentinel_byte(in.elts, in.width))
<1> DEFINE out == EI_sentinel_byte(in.elts, in.width)
<1>1. in.width \in Nat \ {0} /\ in.elts \in Elements(in.width)
  BY NumericInput
<1>2. ASSUME out.ok PROVE WellFormed("sentinel", out)
  BY <1>1, <1>2, SentinelByteSends
<1>3. ASSUME out.ok PROVE DI_sentinel(out.header, out.streams) = Made(in.width, in.elts, Len(in.elts))
  BY <1>1, <1>3, SentinelByteRoundTrip
<1> HIDE DEF out
<1>4. ASSUME out.ok PROVE Decodes("sentinel", version, in, out)
  BY <1>3, <1>4 DEF Decodes, Decoder
<1>5. Promised("sentinel", version, in, out)
  BY <1>2, <1>4 DEF Promised, Well, CodecNames
<1> QED BY <1>5 DEF out

(* and with the exceptions and the sentinel the caller chose.              *)
LEMMA SentinelPromised ==
    ASSUME NEW in \in NumericInputs, NEW version, NEW indices, NEW value \in Parameters
    PROVE  Promised("sentinel", version, in, EI_sentinel(in.elts, in.width, indices, value))
<1> DEFINE out == EI_sentinel(in.elts, in.width, indices, value)
<1>1. in.width \in Nat \ {0} /\ in.elts \in Elements(in.width) /\ value \in Nat
  BY NumericInput, NumbersAssumption
<1>2. ASSUME out.ok PROVE WellFormed("sentinel", out)
  BY <1>1, <1>2, SentinelSends
<1>3. ASSUME out.ok PROVE DI_sentinel(out.header, out.streams) = Made(in.width, in.elts, Len(in.elts))
  BY <1>1, <1>3, SentinelRoundTrip
<1> HIDE DEF out
<1>4. ASSUME out.ok PROVE Decodes("sentinel", version, in, out)
  BY <1>3, <1>4 DEF Decodes, Decoder
<1>5. Promised("sentinel", version, in, out)
  BY <1>2, <1>4 DEF Promised, Well, CodecNames
<1> QED BY <1>5 DEF out

(* The two passes of sparse_num count the same.                            *)
LEMMA SparsePasses ==
    ASSUME NEW in, in.elts \in Seq(Nat), NEW width, NEW dominant, NEW out,
           SparseSent(out, in.elts, width, dominant)
    PROVE  Passes(in, out)
<1> DEFINE src == in.elts
           info == ZL_sparseNumComputeEncodeInfo(src, dominant)
           kernel == ZL_sparseNumEncode(src, dominant, info.distanceWidth)
           d == kernel.distances
           v == kernel.values
<1>1. /\ ReadLE(out.header) = dominant
      /\ out.streams = <<Stream(info.distanceWidth, d), Stream(width, v)>>
      /\ SparseSends(src, dominant, info, kernel)
  BY Zenon DEF SparseSent
<1> HIDE DEF kernel
<1>2. out.streams[1].elts = d /\ out.streams[2].elts = v
  BY <1>1 DEF Stream
<1>3. /\ d \in Seq(Nat) /\ v \in Seq(Nat) /\ Len(d) = info.numDistances /\ Len(v) = info.numValues
      /\ Len(d) \in {Len(v), Len(v) + 1} /\ ZL_sparseNumDecode(d, v, dominant) = src
  BY <1>1 DEF SparseSends
<1>4. dominant \in Nat
  <2>1. out.header \in Seq(Nat)
    BY Zenon DEF SparseSent
  <2> QED BY <1>1, <2>1, ReadLENat
<1> HIDE DEF d, v
<1>5. Len(src) = Len(v) + Sum(d)
  BY <1>3, <1>4, SparseWritten
<1>6. Sum(d) \in Nat /\ Len(v) \in Nat
  BY <1>3, SumFacts
<1>7. Sum(d) + info.numValues = Len(src)
  BY <1>3, <1>5, <1>6
<1> QED BY <1>1, <1>2, <1>3, <1>7, Zenon DEF Passes

LEMMA SparsePromisedFrom ==
    ASSUME NEW in \in SparseInputs, NEW version, NEW out, NEW dominant,
           out = Sent(out.header, out.streams), SparseSent(out, in.elts, in.width, dominant)
    PROVE  Promised("sparse_num", version, in, out)
<1>1. in.width \in Nat \ {0} /\ in.elts \in Seq(Nat)
  <2>1. in.width \in Nat \ {0} /\ in.elts \in Elements(in.width)
    BY NumericInput
  <2> QED BY <2>1, ElementsFit
<1>2. WellFormed("sparse_num", out)
  BY <1>1, SparseSendsStreams
<1>3. DI_sparse_num(out.header, out.streams) = Made(in.width, in.elts, Len(in.elts))
  BY <1>1, SparseDecodes
<1>4. Decodes("sparse_num", version, in, out)
  BY <1>3 DEF Decodes, Decoder
<1>5. Passes(in, out)
  BY <1>1, SparsePasses
<1> QED BY <1>2, <1>4, <1>5 DEF Promised, Well, CodecNames

LEMMA SparseShape ==
    ASSUME NEW src, NEW width, NEW dominant, NEW out, out = EI_sparse_num(src, width, dominant)
    PROVE  out = Sent(out.header, out.streams)
<1>1. \E header, streams : out = Sent(header, streams)
  BY DEF EI_sparse_num
<1> QED BY <1>1 DEF Sent

(* sparse_num keeps its promise, for both of its nodes.                    *)
LEMMA SparsePromised ==
    ASSUME NEW in \in SparseInputs, NEW version
    PROVE  /\ Promised("sparse_num", version, in, EI_sparse_num(in.elts, in.width, 0))
           /\ \A explicit \in Parameters \cup {Wild} :
                 Promised("sparse_num", version, in, EI_sparse_num_auto(in.elts, in.width, explicit))
<1>1. in.width \in Nat \ {0} /\ in.elts \in Elements(in.width)
  BY NumericInput
<1>2. Promised("sparse_num", version, in, EI_sparse_num(in.elts, in.width, 0))
  <2> DEFINE out == EI_sparse_num(in.elts, in.width, 0)
  <2>1. SparseSent(out, in.elts, in.width, 0)
    BY <1>1, SparseZeroSends
  <2>2. out = Sent(out.header, out.streams)
    BY SparseShape
  <2> HIDE DEF out
  <2>3. Promised("sparse_num", version, in, out)
    BY <2>1, <2>2, SparsePromisedFrom
  <2> QED BY <2>3 DEF out
<1>3. ASSUME NEW explicit \in Parameters \cup {Wild}
      PROVE  Promised("sparse_num", version, in, EI_sparse_num_auto(in.elts, in.width, explicit))
  <2> DEFINE out == EI_sparse_num_auto(in.elts, in.width, explicit)
  <2>1. CASE ~out.ok
    BY <2>1 DEF Promised
  <2>2. CASE out.ok
    <3>1. explicit \in Nat \cup {Wild}
      BY NumbersAssumption
    <3>2. PICK dominant : SparseSent(out, in.elts, in.width, dominant)
      BY <1>1, <2>2, <3>1, SparseAutoSends
    <3>3. out = NotSent \/ \E dom : out = EI_sparse_num(in.elts, in.width, dom)
      BY DEF EI_sparse_num_auto
    <3>4. out # NotSent
      BY <2>2 DEF NotSent
    <3> HIDE DEF out
    <3>5. out = Sent(out.header, out.streams)
      BY <3>3, <3>4, SparseShape
    <3>6. Promised("sparse_num", version, in, out)
      BY <3>2, <3>5, SparsePromisedFrom
    <3> QED BY <3>6 DEF out
  <2> QED BY <2>1, <2>2
<1> QED BY <1>2, <1>3

(* merge_sorted keeps its promise.                                         *)
LEMMA MergeSortedPromised ==
    ASSUME NEW in \in SortedInputs, NEW version
    PROVE  Promised("merge_sorted", version, in, EI_mergeSorted(in.elts, in.width))
<1> DEFINE out == EI_mergeSorted(in.elts, in.width)
           src == in.elts
           runs == getSortedRuns(src)
<1>1. src \in Seq(Nat)
  BY SortedAssumption
<1>2. CASE ~out.ok
  BY <1>2 DEF Promised
<1>3. CASE out.ok
  <2> DEFINE m == [merged |-> out.streams[2].elts, bitsets |-> out.streams[1].elts]
             z == out.streams[2].elts
  <2>1. WellFormed("merge_sorted", out) /\ IsMerged(m, src, runs)
    BY <1>1, <1>3, MergeSortedSends
  <2>2. DI_mergeSorted(out.header, out.streams) = Made(4, src, Len(src)) /\ in.width = 4
    BY <1>1, <1>3, MergeSortedRoundTrip
  <2> HIDE DEF out
  <2>3. Decodes("merge_sorted", version, in, out)
    BY <2>2 DEF Decodes, Decoder
  <2>4. m.merged = z /\ m.bitsets = out.streams[1].elts
    OBVIOUS
  <2> HIDE DEF m
  <2>5. /\ z \in Seq(Nat) /\ Cells(z, Len(z)) = Cells(src, Len(src))
        /\ \A i, j \in 1..Len(z) : i < j => z[i] < z[j]
        /\ \A i \in 1..Len(z) : out.streams[1].elts[i] = RunsWith(src, runs, z[i])
    BY <2>1, <2>4 DEF IsMerged
  <2>6. ToSet(z) = ToSet(src) /\ DOMAIN z = 1..Len(z)
    BY <1>1, <2>5, ToSetCells
  <2>7. SortedUnion(in, out)
    <3> HIDE DEF z, runs
    <3>1. \A i, j \in DOMAIN z : i < j => z[i] < z[j]
      BY <2>5, <2>6
    <3>2. \A i \in DOMAIN z : out.streams[1].elts[i] =
             {b \in DOMAIN runs : \E k \in (runs[b].start + 1)..runs[b].end : z[i] = src[k]}
      BY <2>5, <2>6 DEF RunsWith
    <3> QED BY <2>6, <3>1, <3>2, Zenon DEF SortedUnion, z, runs
  <2>8. Promised("merge_sorted", version, in, out)
    BY <2>1, <2>3, <2>7 DEF Promised, Well, CodecNames
  <2> QED BY <2>8 DEF out
<1> QED BY <1>2, <1>3

(* prefix keeps its promise.                                               *)
LEMMA PrefixPromised ==
    ASSUME NEW in \in StringInputs, NEW version
    PROVE  Promised("prefix", version, in, EI_prefix(in.elts))
<1> DEFINE out == EI_prefix(in.elts)
           src == in.elts
<1>1. src \in Seq(Seq(Nat)) /\ DOMAIN src = 1..Len(src) /\ \A i \in DOMAIN src : Len(src[i]) <= U32Max
  BY StringsAssumption
<1>2. in.width = 1
  <2>1. in = Stream(1, in.elts)
    BY StringsAssumption
  <2> QED BY <2>1 DEF Stream
<1>3. \A i \in 1..Len(src) : Len(src[i]) <= U32Max
  BY <1>1
<1>4. WellFormed("prefix", out)
  BY <1>1, PrefixSendsStreams
<1>5. DI_prefix(out.streams, TRUE) = Made(1, src, Len(src))
  BY <1>1, <1>3, PrefixRoundTrip
<1> HIDE DEF out
<1>6. Decodes("prefix", version, in, out)
  BY <1>2, <1>5 DEF Decodes, Decoder
<1>7. Promised("prefix", version, in, out)
  BY <1>4, <1>6 DEF Promised, Well, CodecNames
<1> QED BY <1>7 DEF out

(* The two kinds of damage: to an element, or to the length.               *)
LEMMA DamagedSeq ==
    ASSUME NEW V, NEW s \in Seq(V), NEW W \in SUBSET V, NEW t,
           \/ \E v \in W : t = Append(s, v)
           \/ s # <<>> /\ t = Front(s)
           \/ \E i \in DOMAIN s, v \in W : t = [s EXCEPT ![i] = v]
    PROVE  t \in Seq(V)
<1>1. CASE \E v \in W : t = Append(s, v)
  BY <1>1
<1>2. CASE s # <<>> /\ t = Front(s)
  <2>1. t = SubSeq(s, 1, Len(s) - 1)
    BY <1>2 DEF Front
  <2>2. Len(s) \in Nat /\ Len(s) # 0
    BY <1>2
  <2>3. \A i \in 1..Len(s) - 1 : s[i] \in V
    BY <2>2
  <2> QED BY <2>1, <2>2, <2>3
<1>3. CASE \E i \in DOMAIN s, v \in W : t = [s EXCEPT ![i] = v]
  <2>1. PICK i \in DOMAIN s, v \in W : t = [s EXCEPT ![i] = v]
    BY <1>3
  <2>2. s \in [1..Len(s) -> V] /\ Len(s) \in Nat /\ v \in V
    OBVIOUS
  <2> DEFINE n == Len(s)
  <2> HIDE DEF n
  <2>3. t \in [1..n -> V] /\ n \in Nat
    BY <2>1, <2>2 DEF n
  <2> QED BY <2>3, FunctionIsSeq
<1> QED BY <1>1, <1>2, <1>3

(* What an element turns into is of the element's kind.                    *)
LEMMA NoiseIsElement ==
    ASSUME WellFormed(job.codec, sent), NEW k \in 1..StreamCount(job.codec)
    PROVE  NoiseFor(k) \in SUBSET Alphabet(job.codec, k, sent.streams[k].width)
<1> DEFINE c == job.codec
           s == sent.streams[k]
           w == s.width
<1>1. IsStream(c, k, s)
  BY DEF WellFormed
<1>2. w \in Nat \ {0} /\ s.elts \in Seq(Alphabet(c, k, w))
  BY <1>1 DEF IsStream
<1>3. CASE c = "merge_sorted" /\ k = 1
  <2>1. Alphabet(c, k, w) = SUBSET Nat
    BY <1>3 DEF Alphabet
  <2>2. NoiseFor(k) = SUBSET (1..(w * BitsetBits))
    BY <1>3 DEF NoiseFor
  <2>3. \A x : 1..x \subseteq Nat
    OBVIOUS
  <2> HIDE DEF c, w
  <2> QED BY <2>1, <2>2, <2>3 DEF c, w
<1>4. CASE c = "prefix" /\ k = 1
  <2>1. Alphabet(c, k, w) = Seq(Nat)
    BY <1>4 DEF Alphabet
  <2>2. NoiseFor(k) = ToSet(s.elts)
    BY <1>4 DEF NoiseFor
  <2>3. s.elts \in Seq(Seq(Nat))
    BY <1>2, <2>1
  <2> DEFINE e == s.elts
  <2> HIDE DEF e, s, c
  <2>4. ToSet(e) \in SUBSET Seq(Nat)
    <3>1. ToSet(e) = Cells(e, Len(e)) /\ e \in [1..Len(e) -> Seq(Nat)]
      BY <2>3, ToSetCells DEF e
    <3> QED BY <3>1 DEF Cells
  <2> QED BY <2>1, <2>2, <2>4 DEF e, s, c
<1>5. CASE c = "sparse_num" /\ k = 1
  <2>1. Alphabet(c, k, w) = Nat
    BY <1>5 DEF Alphabet
  <2>2. NoiseFor(k) = 0..DistanceMax[w]
    BY <1>5 DEF NoiseFor
  <2>3. \A x : 0..x \subseteq Nat
    OBVIOUS
  <2> HIDE DEF c, w
  <2> QED BY <2>1, <2>2, <2>3 DEF c, w
<1>6. CASE /\ ~(c = "merge_sorted" /\ k = 1) /\ ~(c = "prefix" /\ k = 1) /\ ~(c = "sparse_num" /\ k = 1)
  <2>1. NoiseFor(k) = {Cast(v, w) : v \in Noise}
    BY <1>6 DEF NoiseFor
  <2>2. Alphabet(c, k, w) = Nat \/ Alphabet(c, k, w) = 0..ZL_maxValueForWidth(w)
    BY <1>6 DEF Alphabet
  <2>3. ASSUME NEW v \in Noise PROVE Cast(v, w) \in Nat /\ Cast(v, w) \in 0..ZL_maxValueForWidth(w)
    <3>1. v \in Int
      BY NumbersAssumption
    <3> DEFINE x == Cast(v, w)
               y == w
    <3>2. x \in Nat /\ x < Modulus(y)
      BY <1>2, <3>1, CastNat
    <3>3. Modulus(y) \in Nat /\ ZL_maxValueForWidth(y) = Modulus(y) - 1
      BY <1>2, WidthModulus
    <3> HIDE DEF x, y
    <3>4. x \in 0..ZL_maxValueForWidth(y)
      BY <3>2, <3>3
    <3> QED BY <3>2, <3>4 DEF x, y
  <2> HIDE DEF c, w
  <2> QED BY <2>1, <2>2, <2>3 DEF c, w
<1> QED BY <1>3, <1>4, <1>5, <1>6

(* Damage replaces the header or the streams.                              *)
LEMMA SentExcept ==
    ASSUME NEW x, NEW g, NEW s, x = Sent(g, s), NEW y
    PROVE  /\ [x EXCEPT !.header = y] = Sent(y, s) /\ [x EXCEPT !.streams = y] = Sent(g, y)
           /\ Sent(y, s).header = y /\ Sent(y, s).streams = s
           /\ Sent(g, y).header = g /\ Sent(g, y).streams = y
<1>0. x = [ok |-> TRUE, header |-> g, streams |-> s]
  BY DEF Sent
<1> DEFINE G == {g, y}
           T == {s, y}
<1>5. x \in [ok : BOOLEAN, header : G, streams : T] /\ y \in G /\ y \in T
  BY <1>0
<1> HIDE DEF G, T
<1>1. [x EXCEPT !.header = y] = Sent(y, s)
  <2>1. [x EXCEPT !.header = y] = [ok |-> x.ok, header |-> y, streams |-> x.streams]
    BY <1>5
  <2> QED BY <1>0, <2>1 DEF Sent
<1>2. [x EXCEPT !.streams = y] = Sent(g, y)
  <2>1. [x EXCEPT !.streams = y] = [ok |-> x.ok, header |-> x.header, streams |-> y]
    BY <1>5
  <2> QED BY <1>0, <2>1 DEF Sent
<1>3. Sent(y, s).header = y /\ Sent(y, s).streams = s
  BY DEF Sent
<1>4. Sent(g, y).header = g /\ Sent(g, y).streams = y
  BY DEF Sent
<1> QED BY <1>1, <1>2, <1>3, <1>4

(* Damage leaves the streams well-formed.                                  *)
LEMMA DamageKeeps ==
    ASSUME WellFormed(job.codec, sent), NEW t,
           \/ \E h \in DamagedHeaders : t = [sent EXCEPT !.header = h]
           \/ \E s \in DamagedStreams : t = [sent EXCEPT !.streams = s]
    PROVE  WellFormed(job.codec, t)
<1> DEFINE c == job.codec
           n == StreamCount(c)
<1>1. /\ sent = Sent(sent.header, sent.streams) /\ sent.header \in Seq(Nat)
      /\ DOMAIN sent.streams = 1..n
      /\ \A k \in 1..n : IsStream(c, k, sent.streams[k])
  BY DEF WellFormed
<1>2. CASE \E h \in DamagedHeaders : t = [sent EXCEPT !.header = h]
  <2>1. PICK h \in DamagedHeaders : t = [sent EXCEPT !.header = h]
    BY <1>2
  <2>2. h \in Seq(Nat)
    <3> DEFINE g == sent.header
    <3>1. \/ \E v \in Noise : h = Append(g, v)
          \/ g # <<>> /\ h = Front(g)
          \/ \E i \in DOMAIN g, v \in Noise : h = [g EXCEPT ![i] = v]
      BY DEF DamagedHeaders
    <3>2. Noise \in SUBSET Nat
      BY NumbersAssumption
    <3>3. g \in Seq(Nat)
      BY <1>1
    <3> HIDE DEF g
    <3> QED BY <3>1, <3>2, <3>3, DamagedSeq
  <2>3. t = Sent(h, sent.streams) /\ t.header = h /\ t.streams = sent.streams
    <3> DEFINE g == sent.header
               s == sent.streams
    <3>1. sent = Sent(g, s)
      BY <1>1
    <3> HIDE DEF g, s
    <3>2. t = Sent(h, s) /\ t.header = h /\ t.streams = s
      BY <2>1, <3>1, SentExcept
    <3> QED BY <3>2 DEF s
  <2> QED BY <1>1, <2>2, <2>3 DEF WellFormed
<1>3. CASE \E s \in DamagedStreams : t = [sent EXCEPT !.streams = s]
  <2>1. PICK s \in DamagedStreams : t = [sent EXCEPT !.streams = s]
    BY <1>3
  <2>2. t = Sent(sent.header, s) /\ t.header = sent.header /\ t.streams = s
    <3> DEFINE g == sent.header
               r == sent.streams
    <3>1. sent = Sent(g, r)
      BY <1>1
    <3> HIDE DEF g, r
    <3>2. t = Sent(g, s) /\ t.header = g /\ t.streams = s
      BY <2>1, <3>1, SentExcept
    <3> QED BY <3>2 DEF g
  <2> DEFINE st == sent.streams
             E(k) == st[k].elts
  <2>4. PICK k \in DOMAIN st : s \in {[st EXCEPT ![k].elts = d] : d \in DamagedElts(k)}
    BY DEF DamagedStreams
  <2>5. PICK d \in DamagedElts(k) : s = [st EXCEPT ![k].elts = d]
    BY <2>4
  <2>6. \/ \E v \in NoiseFor(k) : d = Append(E(k), v)
        \/ E(k) # <<>> /\ d = Front(E(k))
        \/ \E i \in DOMAIN E(k), v \in NoiseFor(k) : d = [E(k) EXCEPT ![i] = v]
    BY DEF DamagedElts
  <2>7. k \in 1..n /\ IsStream(c, k, st[k])
    BY <1>1
  <2> DEFINE w == st[k].width
             V == Alphabet(c, k, w)
             W == NoiseFor(k)
             e == E(k)
  <2>8. st[k] = Stream(w, e) /\ w \in Nat \ {0} /\ e \in Seq(V)
    BY <2>7 DEF IsStream
  <2>9. W \in SUBSET V
    BY <2>7, NoiseIsElement
  <2>10. d \in Seq(V)
    <3> HIDE DEF E, V, W, e
    <3>1. \/ \E v \in W : d = Append(e, v)
          \/ e # <<>> /\ d = Front(e)
          \/ \E i \in DOMAIN e, v \in W : d = [e EXCEPT ![i] = v]
      BY <2>6 DEF e, W
    <3> QED BY <2>8, <2>9, <3>1, DamagedSeq
  <2> HIDE DEF E
  <2>11. DOMAIN s = 1..n /\ \A j \in 1..n : j # k => s[j] = st[j]
    BY <1>1, <2>5
  <2>12. s[k] = [st[k] EXCEPT !.elts = d]
    BY <2>5
  <2> HIDE DEF st, w, e, V, W
  <2>13. s[k] = Stream(w, d)
    BY <2>8, <2>12 DEF Stream
  <2>14. s[k].width = w /\ s[k].elts = d
    BY <2>13 DEF Stream
  <2>15. IsStream(c, k, s[k])
    BY <2>8, <2>10, <2>13, <2>14 DEF IsStream, V
  <2>16. \A j \in 1..n : IsStream(c, j, s[j])
    BY <1>1, <2>11, <2>15 DEF st
  <2> QED BY <1>1, <2>2, <2>11, <2>16 DEF WellFormed
<1> QED BY <1>2, <1>3

-----------------------------------------------------------------------------
(* The invariant: what is on its way is well-formed, decodes to the input  *)
(* unless it was damaged, and what was decoded is the decoder's.           *)
Working == phase \in {"encoded", "decoded"}
SentIsWell == Working => Well(job.codec, job.version, sent)
SentDecodes == (Working /\ ~damaged) => Decodes(job.codec, job.version, job.input, sent)
ResultIsDecoded ==
    phase = "decoded" => result = Decoder(job.codec, job.version, sent.header, sent.streams)
CodecsInv == SentIsWell /\ SentDecodes /\ ResultIsDecoded /\ PassesAgree /\ MergedIsSortedUnion

(* An encoder that keeps its promise establishes the invariant.            *)
LEMMA EncodedKeeps ==
    ASSUME NEW codec, NEW version, NEW in, NEW out, Encoded(codec, version, in, out),
           Promised(codec, version, in, out)
    PROVE  CodecsInv'
<1>1. /\ job' = [codec |-> codec, version |-> version, input |-> in] /\ sent' = out
      /\ phase' = IF out.ok THEN "encoded" ELSE "refused"
  BY DEF Encoded
<1>2. job'.codec = codec /\ job'.version = version /\ job'.input = in
  BY <1>1
<1>3. CASE ~out.ok
  <2>1. phase' = "refused"
    BY <1>1, <1>3
  <2>2. phase' # "encoded" /\ phase' # "decoded"
    BY <2>1
  <2> QED BY <2>2 DEF CodecsInv, SentIsWell, SentDecodes, ResultIsDecoded, PassesAgree, MergedIsSortedUnion, Working
<1>4. CASE out.ok
  <2>1. phase' = "encoded" /\ phase' # "decoded"
    BY <1>1, <1>4
  <2>2. /\ Well(codec, version, out) /\ Decodes(codec, version, in, out)
        /\ codec = "sparse_num" => Passes(in, out)
        /\ codec = "merge_sorted" => SortedUnion(in, out)
    BY <1>4 DEF Promised
  <2>3. SentIsWell' /\ SentDecodes' /\ ResultIsDecoded'
    BY <1>1, <1>2, <2>1, <2>2 DEF SentIsWell, SentDecodes, ResultIsDecoded
  <2>4. PassesAgree'
    BY <1>1, <1>2, <2>2, Zenon DEF PassesAgree, Passes
  <2>5. MergedIsSortedUnion'
    <3>1. job'.codec = "merge_sorted" => SortedUnion(job'.input, sent')
      BY <1>1, <1>2, <2>2
    <3> QED BY <3>1, Zenon DEF MergedIsSortedUnion, SortedUnion
  <2> QED BY <2>3, <2>4, <2>5 DEF CodecsInv
<1> QED BY <1>3, <1>4

(* It holds before the first call,                                         *)
LEMMA CodecsInit == Init => CodecsInv
<1> SUFFICES ASSUME Init PROVE CodecsInv
  OBVIOUS
<1>1. phase = "idle"
  BY DEF Init
<1>2. phase # "encoded" /\ phase # "decoded"
  BY <1>1
<1> QED BY <1>2 DEF CodecsInv, SentIsWell, SentDecodes, ResultIsDecoded, PassesAgree, MergedIsSortedUnion, Working

(* and every encoder, the damage and the decoder keep it.                  *)
LEMMA CodecsNext == CodecsInv /\ [Next]_vars => CodecsInv'
<1> SUFFICES ASSUME CodecsInv, [Next]_vars PROVE CodecsInv'
  OBVIOUS
<1>1. CASE EncodeDelta
  <2>1. PICK in \in NumericInputs, version \in Versions :
           Encoded("delta", version, in, EI_delta_int(in.elts, in.width, version))
    BY <1>1 DEF EncodeDelta
  <2> QED BY <2>1, DeltaPromised, EncodedKeeps
<1>2. CASE EncodeZigzag
  <2>1. PICK in \in NumericInputs : Encoded("zigzag", Max(Versions), in, EI_zigzag_num(in.elts, in.width))
    BY <1>2 DEF EncodeZigzag
  <2> QED BY <2>1, ZigzagPromised, EncodedKeeps
<1>3. CASE EncodeRangePack
  <2>1. PICK in \in NumericInputs, bound \in Parameters \cup {ZL_maxValueForWidth(Max(Widths))} :
           Encoded("range_pack", Max(Versions), in, EI_rangePack(in.elts, in.width, bound))
    BY <1>3 DEF EncodeRangePack
  <2> QED BY <2>1, RangePackPromised, EncodedKeeps
<1>4. CASE EncodeSentinelByte
  <2>1. PICK in \in NumericInputs : Encoded("sentinel", Max(Versions), in, EI_sentinel_byte(in.elts, in.width))
    BY <1>4 DEF EncodeSentinelByte
  <2> QED BY <2>1, SentinelBytePromised, EncodedKeeps
<1>5. CASE EncodeSentinel
  <2>1. PICK in \in NumericInputs, value \in Parameters : \E indices \in Ascending(Len(in.elts) + 1) :
           Encoded("sentinel", Max(Versions), in, EI_sentinel(in.elts, in.width, indices, value))
    BY <1>5 DEF EncodeSentinel
  <2>2. PICK indices : Encoded("sentinel", Max(Versions), in, EI_sentinel(in.elts, in.width, indices, value))
    BY <2>1
  <2> QED BY <2>2, SentinelPromised, EncodedKeeps
<1>6. CASE EncodeMergeSorted
  <2>1. PICK in \in SortedInputs : Encoded("merge_sorted", Max(Versions), in, EI_mergeSorted(in.elts, in.width))
    BY <1>6 DEF EncodeMergeSorted
  <2> QED BY <2>1, MergeSortedPromised, EncodedKeeps
<1>7. CASE EncodeSparseNum
  <2>1. PICK in \in SparseInputs :
          \/ Encoded("sparse_num", Max(Versions), in, EI_sparse_num(in.elts, in.width, 0))
          \/ \E explicit \in Parameters \cup {Wild} :
               Encoded("sparse_num", Max(Versions), in, EI_sparse_num_auto(in.elts, in.width, explicit))
    BY <1>7 DEF EncodeSparseNum
  <2>2. /\ Promised("sparse_num", Max(Versions), in, EI_sparse_num(in.elts, in.width, 0))
        /\ \A explicit \in Parameters \cup {Wild} :
              Promised("sparse_num", Max(Versions), in, EI_sparse_num_auto(in.elts, in.width, explicit))
    BY SparsePromised
  <2>3. CASE Encoded("sparse_num", Max(Versions), in, EI_sparse_num(in.elts, in.width, 0))
    BY <2>2, <2>3, EncodedKeeps
  <2>4. CASE \E explicit \in Parameters \cup {Wild} :
               Encoded("sparse_num", Max(Versions), in, EI_sparse_num_auto(in.elts, in.width, explicit))
    <3>1. PICK explicit \in Parameters \cup {Wild} :
               Encoded("sparse_num", Max(Versions), in, EI_sparse_num_auto(in.elts, in.width, explicit))
      BY <2>4
    <3> QED BY <2>2, <3>1, EncodedKeeps
  <2> QED BY <2>1, <2>3, <2>4
<1>8. CASE EncodePrefix
  <2>1. PICK in \in StringInputs : Encoded("prefix", Max(Versions), in, EI_prefix(in.elts))
    BY <1>8 DEF EncodePrefix
  <2> QED BY <2>1, PrefixPromised, EncodedKeeps
<1>9. CASE Damage
  <2>1. /\ phase = "encoded" /\ phase' = phase /\ damaged' = TRUE /\ job' = job
        /\ \/ \E h \in DamagedHeaders : sent' = [sent EXCEPT !.header = h]
           \/ \E s \in DamagedStreams : sent' = [sent EXCEPT !.streams = s]
    BY <1>9 DEF Damage
  <2>2. Well(job.codec, job.version, sent)
    BY <2>1 DEF CodecsInv, SentIsWell, Working
  <2>3. WellFormed(job.codec, sent')
    <3>1. WellFormed(job.codec, sent)
      BY <2>2 DEF Well
    <3> QED BY <2>1, <3>1, DamageKeeps
  <2>4. SentIsWell'
    BY <2>1, <2>2, <2>3 DEF SentIsWell, Well
  <2> QED BY <2>1, <2>4 DEF CodecsInv, SentDecodes, ResultIsDecoded, PassesAgree, MergedIsSortedUnion
<1>10. CASE Decode
  <2>1. /\ phase = "encoded" /\ phase' = "decoded" /\ job' = job /\ sent' = sent /\ damaged' = damaged
        /\ result' = Decoder(job.codec, job.version, sent.header, sent.streams)
    BY <1>10 DEF Decode
  <2>2. SentIsWell' /\ SentDecodes'
    BY <2>1 DEF CodecsInv, SentIsWell, SentDecodes, Working
  <2>3. ResultIsDecoded'
    BY <2>1 DEF ResultIsDecoded
  <2>4. phase' # "encoded"
    BY <2>1
  <2> QED BY <2>2, <2>3, <2>4 DEF CodecsInv, PassesAgree, MergedIsSortedUnion
<1>11. CASE UNCHANGED vars
  <2>1. phase' = phase /\ job' = job /\ sent' = sent /\ damaged' = damaged /\ result' = result
    BY <1>11 DEF vars
  <2>2. SentIsWell' /\ SentDecodes' /\ ResultIsDecoded'
    BY <2>1 DEF CodecsInv, SentIsWell, SentDecodes, ResultIsDecoded, Working
  <2>3. PassesAgree' /\ MergedIsSortedUnion'
    BY <2>1 DEF CodecsInv, PassesAgree, MergedIsSortedUnion
  <2> QED BY <2>2, <2>3 DEF CodecsInv
<1> QED BY <1>1, <1>2, <1>3, <1>4, <1>5, <1>6, <1>7, <1>8, <1>9, <1>10, <1>11 DEF Next

(* The inductive invariant, for inputs of any length and any width: what an *)
(* encoder sends is well-formed, decodes to the input and meets the        *)
(* promises of sparse_num and merge_sorted; damage keeps it well-formed;   *)
(* what is returned is what the decoder makes of it.                       *)
THEOREM CodecsInductive == Spec => []CodecsInv
<1>1. Init => CodecsInv
  BY CodecsInit
<1>2. CodecsInv /\ [Next]_vars => CodecsInv'
  BY CodecsNext
<1> QED BY <1>1, <1>2, PTL DEF Spec

(* Every codec restores its input: what the decoder of delta, zigzag,      *)
(* range_pack, sentinel, sparse_num, merge_sorted or prefix makes of the   *)
(* undamaged header and streams of its encoder is the input, of its width. *)
THEOREM CodecsRoundTrip == Spec => []RoundTrip
<1>1. CodecsInv => RoundTrip
  <2> SUFFICES ASSUME CodecsInv, phase = "decoded", ~damaged
               PROVE  result.ok /\ result.elts = job.input.elts /\ result.width = job.input.width
    BY DEF RoundTrip
  <2>1. result = Made(job.input.width, job.input.elts, Len(job.input.elts))
    BY DEF CodecsInv, ResultIsDecoded, SentDecodes, Working, Decodes
  <2> QED BY <2>1 DEF Made
<1> QED BY <1>1, CodecsInductive, PTL

(* sparse_num: the pass that sizes the streams                             *)
(* (ZL_sparseNumComputeEncodeInfo) and the one that fills them             *)
(* (ZL_sparseNumEncode) count the same distances and values, which stand   *)
(* for all of the input, also where a run was longer than a distance.      *)
THEOREM SparsePassesAgree == Spec => []PassesAgree
<1>1. CodecsInv => PassesAgree
  BY DEF CodecsInv
<1> QED BY <1>1, CodecsInductive, PTL

(* merge_sorted: ZL_MergeSorted_merge() emits every value of the input     *)
(* once, in ascending order, each with the set of the runs that contain    *)
(* it, however many runs end or share a value in the same turn.            *)
THEOREM MergeYieldsSortedUnion == Spec => []MergedIsSortedUnion
<1>1. CodecsInv => MergedIsSortedUnion
  BY DEF CodecsInv
<1> QED BY <1>1, CodecsInductive, PTL

(* The elements of well-formed streams.                                    *)
LEMMA StreamTypes ==
    ASSUME NEW codec, NEW out, WellFormed(codec, out), NEW k \in 1..StreamCount(codec)
    PROVE  out.streams[k].width \in Nat \ {0}
           /\ out.streams[k].elts \in Seq(Alphabet(codec, k, out.streams[k].width))
BY DEF WellFormed, IsStream

(* A decoder that accepts its streams, damaged or not, has written every   *)
(* element of the output it allocated: no uninitialized memory is returned *)
(* (DI_delta_int() and the other decoders of the codecs modelled).         *)
THEOREM AcceptedStreamsAreWritten == Spec => []AcceptedIsWritten
<1>1. CodecsInv => AcceptedIsWritten
  <2> SUFFICES ASSUME CodecsInv, phase = "decoded", result.ok
               PROVE  /\ Len(result.elts) = result.room
                      /\ Wild \notin (IF job.codec = "prefix"
                                      THEN UNION {ToSet(s) : s \in ToSet(result.elts)}
                                      ELSE ToSet(result.elts))
    BY DEF AcceptedIsWritten
  <2> DEFINE c == job.codec
             h == sent.header
             st == sent.streams
             n == StreamCount(c)
             e1 == st[1].elts
             e2 == st[2].elts
             A(k) == Alphabet(c, k, st[k].width)
  <2>1. c \in CodecNames /\ (c = "delta" => job.version \in Nat) /\ WellFormed(c, sent)
    BY DEF CodecsInv, SentIsWell, Working, Well
  <2>2. h \in Seq(Nat)
    BY <2>1 DEF WellFormed
  <2>3. n \in {1, 2} /\ 1 \in 1..n
    BY DEF StreamCount
  <2>4. st[1].width \in Nat \ {0} /\ e1 \in Seq(A(1))
    BY <2>1, <2>3, StreamTypes
  <2>5. n = 2 => e2 \in Seq(A(2))
    <3>1. ASSUME n = 2 PROVE 2 \in 1..n
      BY <3>1
    <3> QED BY <2>1, <3>1, StreamTypes
  <2>6. result = Decoder(c, job.version, h, st)
    BY DEF CodecsInv, ResultIsDecoded
  <2>7. ASSUME Written(result), c # "prefix"
        PROVE  Len(result.elts) = result.room /\ Wild \notin ToSet(result.elts)
    <3> DEFINE e == result.elts
    <3>1. e \in Seq(Nat) /\ Len(e) = result.room
      BY <2>7 DEF Written
    <3> HIDE DEF e
    <3>2. ToSet(e) \subseteq Nat
      <4>1. ToSet(e) = Cells(e, Len(e)) /\ e \in [1..Len(e) -> Nat]
        BY <3>1, ToSetCells
      <4> QED BY <4>1 DEF Cells
    <3>3. Wild \notin Nat
      BY DEF Wild
    <3> QED BY <3>1, <3>2, <3>3 DEF e
  <2> HIDE DEF st, h
  <2>8. CASE c = "delta"
    <3>1. e1 \in Seq(Nat)
      BY <2>4, <2>8 DEF Alphabet
    <3>2. result = DI_delta_int(h, st, job.version)
      BY <2>6, <2>8 DEF Decoder
    <3>3. Written(result)
      BY <2>1, <2>2, <2>4, <2>8, <3>1, <3>2, DeltaAccepted
    <3> QED BY <2>7, <2>8, <3>3
  <2>9. CASE c = "zigzag"
    <3>1. e1 \in Elements(st[1].width)
      BY <2>4, <2>9 DEF Alphabet, Elements
    <3>2. result = DI_zigzag_num(st)
      BY <2>6, <2>9 DEF Decoder
    <3>3. Written(result)
      BY <2>4, <3>1, <3>2, ZigzagAccepted
    <3> QED BY <2>7, <2>9, <3>3
  <2>10. CASE c = "range_pack"
    <3>1. e1 \in Seq(Nat)
      BY <2>4, <2>10 DEF Alphabet
    <3>2. result = DI_rangePack(h, st)
      BY <2>6, <2>10 DEF Decoder
    <3>3. Written(result)
      BY <2>2, <3>1, <3>2, RangePackAccepted
    <3> QED BY <2>7, <2>10, <3>3
  <2>11. CASE c = "sentinel"
    <3>0. n = 2
      BY <2>11 DEF StreamCount
    <3>1. e1 \in Seq(Nat) /\ e2 \in Seq(Nat)
      BY <2>4, <2>5, <2>11, <3>0 DEF Alphabet
    <3>2. result = DI_sentinel(h, st)
      BY <2>6, <2>11 DEF Decoder
    <3>3. Written(result)
      BY <2>2, <3>1, <3>2, SentinelAccepted
    <3> QED BY <2>7, <2>11, <3>3
  <2>12. CASE c = "merge_sorted"
    <3>0. n = 2
      BY <2>12 DEF StreamCount
    <3>1. e2 \in Seq(Nat)
      BY <2>5, <2>12, <3>0 DEF Alphabet
    <3>2. result = DI_mergeSorted(h, st)
      BY <2>6, <2>12 DEF Decoder
    <3>3. Written(result)
      BY <2>2, <3>1, <3>2, MergeSortedAccepted
    <3> QED BY <2>7, <2>12, <3>3
  <2>13. CASE c = "sparse_num"
    <3>0. n = 2
      BY <2>13 DEF StreamCount
    <3>1. e1 \in Seq(Nat) /\ e2 \in Seq(Nat)
      BY <2>4, <2>5, <2>13, <3>0 DEF Alphabet
    <3>2. result = DI_sparse_num(h, st)
      BY <2>6, <2>13 DEF Decoder
    <3>3. Written(result)
      BY <2>2, <3>1, <3>2, SparseAccepted
    <3> QED BY <2>7, <2>13, <3>3
  <2>14. CASE c = "prefix"
    <3>0. n = 2
      BY <2>14 DEF StreamCount
    <3>1. e1 \in Seq(Seq(Nat)) /\ e2 \in Seq(Nat)
      BY <2>4, <2>5, <2>14, <3>0 DEF Alphabet
    <3>2. result = DI_prefix(st, TRUE)
      BY <2>6, <2>14 DEF Decoder
    <3>3. StringsWritten(result)
      BY <3>1, <3>2, PrefixAccepted
    <3> DEFINE e == result.elts
    <3>4. e \in Seq(Seq(Nat)) /\ Len(e) = result.room
      BY <3>3 DEF StringsWritten
    <3> HIDE DEF e
    <3>5. \A s \in ToSet(e) : s \in Seq(Nat)
      <4>1. ToSet(e) = Cells(e, Len(e)) /\ e \in [1..Len(e) -> Seq(Nat)]
        BY <3>4, ToSetCells
      <4> QED BY <4>1 DEF Cells
    <3>6. ASSUME NEW s \in ToSet(e) PROVE Wild \notin ToSet(s)
      <4>1. s \in Seq(Nat)
        BY <3>5
      <4>2. ToSet(s) = Cells(s, Len(s)) /\ s \in [1..Len(s) -> Nat]
        BY <4>1, ToSetCells
      <4>3. Wild \notin Nat
        BY DEF Wild
      <4> QED BY <4>2, <4>3 DEF Cells
    <3>7. Wild \notin UNION {ToSet(s) : s \in ToSet(e)}
      BY <3>6
    <3> QED BY <2>14, <3>4, <3>7 DEF e
  <2> QED BY <2>1, <2>8, <2>9, <2>10, <2>11, <2>12, <2>13, <2>14 DEF CodecNames
<1> QED BY <1>1, CodecsInductive, PTL

(* prefix: vector loads and stores and wild copies of ZS_decodePrefix()    *)
(* stay inside suffixes and output, for damaged streams too, and what they *)
(* write are the strings of the build without vectors.                     *)
THEOREM VectorsStayInside == Spec => []PrefixVectorsInside
<1>1. CodecsInv => PrefixVectorsInside
  <2> SUFFICES ASSUME CodecsInv, phase = "decoded", job.codec = "prefix" PROVE PrefixVectorsInside
    BY DEF PrefixVectorsInside
  <2> DEFINE st == sent.streams
             e1 == st[1].elts
             e2 == st[2].elts
  <2>1. WellFormed("prefix", sent)
    BY DEF CodecsInv, SentIsWell, Working, Well
  <2>2. StreamCount("prefix") = 2 /\ 1 \in 1..2 /\ 2 \in 1..2
    BY DEF StreamCount
  <2>3. e1 \in Seq(Seq(Nat)) /\ e2 \in Seq(Nat)
    <3>1. e1 \in Seq(Alphabet("prefix", 1, st[1].width))
      BY <2>1, <2>2, StreamTypes
    <3>2. e2 \in Seq(Alphabet("prefix", 2, st[2].width))
      BY <2>1, <2>2, StreamTypes
    <3>3. Alphabet("prefix", 1, st[1].width) = Seq(Nat) /\ Alphabet("prefix", 2, st[2].width) = Nat
      BY DEF Alphabet
    <3> HIDE DEF e1, e2
    <3> QED BY <3>1, <3>2, <3>3
  <2>4. DI_prefix(st, TRUE) = DI_prefix(st, FALSE)
    BY <2>3, PrefixDecodersAgree
  <2> HIDE DEF e1, e2
  <2>5. ASSUME Len(e2) = Len(e1) PROVE PrefixInside(e1, e2, ZS_decodePrefix(e1, e2, TRUE))
    BY <2>3, <2>5, PrefixTouchesInside
  <2> QED BY <2>4, <2>5, Zenon DEF PrefixVectorsInside, PrefixInside, e1, e2
<1> QED BY <1>1, CodecsInductive, PTL
=============================================================================
