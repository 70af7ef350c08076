---------------------------- MODULE Decoder_proofs ----------------------------
(***************************************************************************)
(* Proofs about the decoder of a chunk: the fused decoders (DecoderFusion) *)
(* and the concatenation into the output (AppendToOutput).                 *)
(*                                                                         *)
(* DecoderFusion: the table of fusions is proved first: what is inserted   *)
(* keeps it sorted, and the map built over a sorted table finds all.  Then *)
(* the layout of the transforms over the slots, the marks that fusing      *)
(* leaves on them, and last where the data is while they run.              *)
(*                                                                         *)
(* AppendToOutput: whatever the order the inputs of the concatenation are  *)
(* regenerated in, wherever they are written and however much is reserved, *)
(* the output holds them in their order, and a chunk is refused only if    *)
(* there is no room for it.                                                *)
(***************************************************************************)
EXTENDS DecoderFusion, AppendToOutput, FiniteSetTheorems, WellFoundedInduction, TLAPS

(* A set of numbers that is not empty has a least one: what Min() returns. *)
LEMMA LeastNat ==
    ASSUME NEW T, T \subseteq Nat, T # {}
    PROVE  \E x \in T : \A y \in T : x <= y
<1> DEFINE R == OpToRel(<, Nat)
<1>1. IsWellFoundedOn(R, Nat)
  BY NatLessThanWellFounded
<1>2. \A x, y \in Nat : <<x, y>> \in R <=> x < y
  BY DEF OpToRel
<1> HIDE DEF R
<1>3. \E x \in T : \A y \in T : ~(<<y, x>> \in R)
  BY <1>1, WFMin
<1>4. \A x, y \in T : ~(<<y, x>> \in R) => x <= y
  BY <1>2
<1> QED BY <1>3, <1>4

LEMMA MinIs ==
    ASSUME NEW T, T \subseteq Nat, T # {}
    PROVE  Min(T) \in T /\ \A y \in T : Min(T) <= y
BY LeastNat DEF Min

LEMMA MaxIs ==
    ASSUME NEW T, T \subseteq Nat, T # {}, NEW b \in Nat, \A x \in T : x <= b
    PROVE  Max(T) \in T /\ \A y \in T : y <= Max(T)
<1> DEFINE U == {n \in Nat : \A x \in T : x <= n}
<1>1. U \subseteq Nat /\ b \in U
  OBVIOUS
<1>2. PICK u \in U : \A n \in U : u <= n
  <2> HIDE DEF U
  <2> QED BY <1>1, LeastNat
<1>3. u \in Nat /\ \A x \in T : x <= u
  BY <1>2
<1>4. u \in T
  <2> SUFFICES ASSUME u \notin T PROVE FALSE
    OBVIOUS
  <2>1. \A x \in T : x < u
    BY <1>3
  <2>2. PICK x \in T : TRUE
    OBVIOUS
  <2>3. u - 1 \in Nat /\ \A y \in T : y <= u - 1
    BY <1>3, <2>1, <2>2
  <2>4. u - 1 \in U
    BY <2>3
  <2> QED BY <1>2, <1>3, <2>4
<1> QED BY <1>3, <1>4 DEF Max

-----------------------------------------------------------------------------
(* The table.                                                              *)

(* By parent, as decoder_fusion.h:186 says; the parents are all that the   *)
(* map depends on.                                                         *)
ByParent(fs) ==
    /\ Len(fs) \in Nat /\ DOMAIN fs = 1..Len(fs)
    /\ \A i \in DOMAIN fs : fs[i].parent \in Nat
    /\ \A i, j \in DOMAIN fs : i < j => fs[i].parent <= fs[j].parent

(* The range that starts at i is made of the fusions with i's parent.      *)
LEMMA RangeFinds ==
    ASSUME NEW fs, ByParent(fs), NEW i \in Starts(fs)
    PROVE  LET r == RangeOf(fs, i)
           IN  r.begin .. (r.begin + r.size - 1)
                 = {j \in DOMAIN fs : fs[j].parent = fs[i].parent}
<1> DEFINE S == {j \in Starts(fs) : j > i} \cup {Len(fs) + 1}
           m == Min(S)
           c == fs[i].parent
<1>1. i \in 1..Len(fs) /\ (i = 1 \/ fs[i - 1].parent # c) /\ Len(fs) \in Nat
  BY DEF Starts, ByParent
<1>2. S \subseteq Nat /\ S # {}
  BY <1>1 DEF Starts, ByParent
<1>3. m \in S /\ \A y \in S : m <= y
  BY <1>2, MinIs
<1>4. m \in (i + 1)..(Len(fs) + 1)
  BY <1>1, <1>3 DEF Starts, ByParent
<1>5. RangeOf(fs, i) = [begin |-> i, size |-> m - i]
  BY DEF RangeOf
<1>6. \A k \in (i + 1)..(m - 1) : k \notin Starts(fs)
  <2> SUFFICES ASSUME NEW k \in (i + 1)..(m - 1), k \in Starts(fs) PROVE FALSE
    OBVIOUS
  <2>1. k \in S
    BY <1>1, <1>4
  <2> HIDE DEF m, S
  <2> QED BY <1>1, <1>3, <1>4, <2>1
<1>7. m # Len(fs) + 1 => m \in Starts(fs)
  BY <1>3
<1> HIDE DEF m, S
<1>8. \A k \in i..(m - 1) : fs[k].parent = c
  <2> DEFINE T == {k \in i..(m - 1) : fs[k].parent # c}
  <2>1. T \subseteq Nat
    BY <1>1, <1>4
  <2>2. ASSUME T # {} PROVE FALSE
    <3>1. PICK k \in T : \A y \in T : k <= y
      <4> HIDE DEF T
      <4> QED BY <2>1, <2>2, LeastNat
    <3>2. k \in (i + 1)..(m - 1) /\ k - 1 \in i..(m - 1) /\ k - 1 \notin T
      BY <1>1, <1>4, <3>1
    <3>3. fs[k - 1].parent = c /\ fs[k].parent # c
      BY <3>1, <3>2
    <3>4. k \in Starts(fs)
      BY <1>1, <1>4, <3>2, <3>3 DEF Starts, ByParent
    <3> QED BY <1>6, <3>2, <3>4
  <2> QED BY <2>2
<1>9. \A k \in DOMAIN fs : fs[k].parent = c => k \in i..(m - 1)
  <2> SUFFICES ASSUME NEW k \in DOMAIN fs, fs[k].parent = c
               PROVE  k \in i..(m - 1)
    OBVIOUS
  <2>0. k \in 1..Len(fs)
    BY DEF ByParent
  <2>1. ASSUME k < i PROVE FALSE
    <3>1. i - 1 \in DOMAIN fs /\ i \in DOMAIN fs /\ k <= i - 1 /\ i - 1 < i
      BY <1>1, <2>0, <2>1 DEF ByParent
    <3>2. fs[i - 1].parent <= c /\ c <= fs[i - 1].parent /\ fs[i - 1].parent \in Nat /\ c \in Nat
      BY <3>1 DEF ByParent
    <3> QED BY <1>1, <2>0, <2>1, <3>2
  <2>2. ASSUME k >= m PROVE FALSE
    <3>1. m \in Starts(fs) /\ m \in DOMAIN fs /\ m - 1 \in i..(m - 1)
      BY <1>1, <1>4, <1>7, <2>0, <2>2 DEF ByParent
    <3>2. m # 1 /\ fs[m - 1].parent # fs[m].parent /\ fs[m - 1].parent = c
      BY <1>1, <1>4, <1>8, <3>1 DEF Starts
    <3>3. m - 1 \in DOMAIN fs /\ m - 1 < m
      BY <1>1, <1>4, <3>1 DEF ByParent
    <3>4. c <= fs[m].parent /\ fs[m].parent <= c /\ fs[m].parent \in Nat /\ c \in Nat
      BY <3>1, <3>2, <3>3, <2>0, <2>2 DEF ByParent
    <3> QED BY <3>2, <3>4
  <2> QED BY <1>1, <1>4, <2>0, <2>1, <2>2
<1>10. i..(m - 1) \subseteq DOMAIN fs
  BY <1>1, <1>4 DEF ByParent
<1>11. i..(m - 1) = {j \in DOMAIN fs : fs[j].parent = c}
  BY <1>8, <1>9, <1>10
<1>12. i + (m - i) - 1 = m - 1
  BY <1>1, <1>4
<1> QED BY <1>5, <1>11, <1>12

(* Every parent has a start.                                               *)
LEMMA StartsReach ==
    ASSUME NEW fs, ByParent(fs), NEW i \in DOMAIN fs
    PROVE  \E j \in Starts(fs) : fs[j].parent = fs[i].parent
<1> DEFINE T == {j \in DOMAIN fs : fs[j].parent = fs[i].parent}
<1>1. T \subseteq Nat /\ T # {}
  BY DEF ByParent
<1>2. PICK j \in T : \A y \in T : j <= y
  <2> HIDE DEF T
  <2> QED BY <1>1, LeastNat
<1>3. j \in 1..Len(fs) /\ Len(fs) \in Nat /\ DOMAIN fs = 1..Len(fs)
  BY <1>2 DEF ByParent
<1>4. j # 1 => j - 1 \in DOMAIN fs /\ j - 1 \notin T
  BY <1>2, <1>3
<1>5. j \in Starts(fs)
  BY <1>2, <1>4 DEF Starts
<1> QED BY <1>2, <1>5

LEMMA UpTo ==
    ASSUME NEW m \in Nat
    PROVE  IsFiniteSet(1..m) /\ Cardinality(1..m) = m
<1>1. 1 \in Int /\ m \in Int
  OBVIOUS
<1>2. IsFiniteSet(1..m) /\ Cardinality(1..m) = (IF 1 > m THEN 0 ELSE m - 1 + 1)
  BY <1>1, FS_Interval
<1> QED BY <1>2

(* The range r has the fusions of parent c, and only these.                *)
Found(r, fs, c) ==
    r.begin .. (r.begin + r.size - 1) = {j \in DOMAIN fs : fs[j].parent = c}

ParentsOf(fs) == {fs[i].parent : i \in DOMAIN fs}

(* What BuildMap() makes of a sorted table.                                *)
LEMMA MapFinds ==
    ASSUME NEW fs, ByParent(fs), NEW n \in Nat
    PROVE  /\ \A c \in DOMAIN BuildMap(fs, n) : Found(BuildMap(fs, n)[c], fs, c)
           /\ Cardinality(Starts(fs)) <= n => DOMAIN BuildMap(fs, n) = ParentsOf(fs)
           /\ Cardinality(Starts(fs)) \in Nat
           /\ Cardinality(Starts(fs)) <= Len(fs)
<1> DEFINE first == {i \in Starts(fs) : Cardinality({j \in Starts(fs) : j <= i}) <= n}
<1>0. BuildMap(fs, n) = [c \in {fs[i].parent : i \in first} |->
                            RangeOf(fs, CHOOSE i \in first : fs[i].parent = c)]
  BY DEF BuildMap
<1>1. Starts(fs) \subseteq 1..Len(fs) /\ Len(fs) \in Nat
  BY DEF Starts, ByParent
<1>2. IsFiniteSet(1..Len(fs)) /\ Cardinality(1..Len(fs)) = Len(fs)
  BY <1>1, UpTo
<1>3. IsFiniteSet(Starts(fs)) /\ Cardinality(Starts(fs)) <= Len(fs)
  BY <1>1, <1>2, FS_Subset
<1>4. Cardinality(Starts(fs)) \in Nat
  BY <1>3, FS_CardinalityType
<1>5. ASSUME Cardinality(Starts(fs)) <= n PROVE first = Starts(fs)
  <2> SUFFICES ASSUME NEW i \in Starts(fs)
               PROVE  Cardinality({j \in Starts(fs) : j <= i}) <= n
    OBVIOUS
  <2> DEFINE B == {j \in Starts(fs) : j <= i}
  <2>1. B \subseteq Starts(fs)
    OBVIOUS
  <2> HIDE DEF B
  <2>2. IsFiniteSet(B) /\ Cardinality(B) <= Cardinality(Starts(fs))
    BY <2>1, <1>3, FS_Subset
  <2>3. Cardinality(B) \in Nat
    BY <2>2, FS_CardinalityType
  <2>4. Cardinality(B) <= n
    BY <2>2, <2>3, <1>4, <1>5
  <2> QED BY <2>4 DEF B
<1>6. first \subseteq Starts(fs)
  OBVIOUS
<1> HIDE DEF first
<1>7. ASSUME NEW c \in {fs[i].parent : i \in first}
      PROVE  Found(BuildMap(fs, n)[c], fs, c)
  <2> DEFINE i == CHOOSE i \in first : fs[i].parent = c
  <2>1. i \in first /\ fs[i].parent = c
    OBVIOUS
  <2>2. BuildMap(fs, n)[c] = RangeOf(fs, i)
    BY <1>0
  <2> HIDE DEF i
  <2>3. i \in Starts(fs)
    BY <2>1, <1>6
  <2> QED BY <2>1, <2>2, <2>3, RangeFinds DEF Found
<1>8. DOMAIN BuildMap(fs, n) = {fs[i].parent : i \in first}
  BY <1>0
<1>9. {fs[i].parent : i \in Starts(fs)} = {fs[i].parent : i \in DOMAIN fs}
  <2>1. Starts(fs) \subseteq DOMAIN fs
    BY DEF Starts
  <2>2. \A i \in DOMAIN fs : \E j \in Starts(fs) : fs[j].parent = fs[i].parent
    BY StartsReach
  <2> QED BY <2>1, <2>2
<1>10. Cardinality(Starts(fs)) <= n => DOMAIN BuildMap(fs, n) = ParentsOf(fs)
  BY <1>5, <1>8, <1>9 DEF ParentsOf
<1>11. \A c \in DOMAIN BuildMap(fs, n) : Found(BuildMap(fs, n)[c], fs, c)
  BY <1>7, <1>8
<1> QED BY <1>3, <1>4, <1>10, <1>11

(* The table: sorted, in the order of registration for one parent, and     *)
(* made of descriptions that were found valid.                             *)
Registered == [parent : Nat, children : Seq([codec : Nat, indices : Seq(Nat)]), serial : Nat]

InOrder(fs) ==
    \A i, j \in DOMAIN fs : i < j =>
      \/ fs[i].parent < fs[j].parent
      \/ fs[i].parent = fs[j].parent /\ fs[i].serial < fs[j].serial

FusionsOK(fs, next) ==
    /\ fs \in Seq(Registered) /\ next \in Nat
    /\ InOrder(fs)
    /\ \A i \in DOMAIN fs : fs[i].serial < next /\ Valid(fs[i])

TableInv ==
    /\ table = [fusions |-> table.fusions, next |-> table.next, owned |-> table.owned,
                alive |-> table.alive, map |-> table.map, built |-> table.built]
    /\ FusionsOK(table.fusions, table.next)
    /\ LookupFindsAll

LEMMA EntriesTyped ==
    ASSUME NEW fs \in Seq(Registered)
    PROVE  /\ Len(fs) \in Nat /\ DOMAIN fs = 1..Len(fs) /\ DOMAIN fs \subseteq Nat
           /\ \A i \in DOMAIN fs :
                /\ fs[i] \in Registered
                /\ fs[i].parent \in Nat /\ fs[i].serial \in Nat
                /\ fs[i].children \in Seq([codec : Nat, indices : Seq(Nat)])
<1>1. Len(fs) \in Nat /\ DOMAIN fs = 1..Len(fs) /\ \A i \in DOMAIN fs : fs[i] \in Registered
  OBVIOUS
<1>2. \A f \in Registered : /\ f.parent \in Nat /\ f.serial \in Nat
                            /\ f.children \in Seq([codec : Nat, indices : Seq(Nat)])
  BY DEF Registered
<1> QED BY <1>1, <1>2

LEMMA Catenated ==
    ASSUME NEW S, NEW x \in Seq(S), NEW y \in Seq(S), NEW z, z = x \o y
    PROVE  /\ z \in Seq(S) /\ Len(z) = Len(x) + Len(y)
           /\ Len(x) \in Nat /\ Len(y) \in Nat
           /\ \A i \in 1..Len(x) : z[i] = x[i]
           /\ \A i \in (Len(x) + 1)..(Len(x) + Len(y)) : z[i] = y[i - Len(x)]
OBVIOUS

(* gs is fs with f inserted behind the first m.                            *)
IsSplice(gs, fs, f, m) ==
    /\ Len(gs) = Len(fs) + 1
    /\ \A i \in 1..Len(gs) :
         gs[i] = IF i <= m THEN fs[i] ELSE IF i = m + 1 THEN f ELSE fs[i - 1]

Splice(fs, f, m) == SubSeq(fs, 1, m) \o <<f>> \o SubSeq(fs, m + 1, Len(fs))

LEMMA Spliced ==
    ASSUME NEW S, NEW fs \in Seq(S), NEW f \in S, NEW m \in 0..Len(fs), NEW gs,
           gs = Splice(fs, f, m)
    PROVE  gs \in Seq(S) /\ IsSplice(gs, fs, f, m)
<1> DEFINE a == SubSeq(fs, 1, m)
           b == SubSeq(fs, m + 1, Len(fs))
<1>0. Len(fs) \in Nat /\ m \in Nat
  OBVIOUS
<1>1. a \in Seq(S) /\ Len(a) = m /\ \A i \in 1..m : a[i] = fs[i]
  OBVIOUS
<1>2. b \in Seq(S) /\ Len(b) = Len(fs) - m /\ \A i \in 1..Len(b) : b[i] = fs[m + i]
  OBVIOUS
<1>3. gs = a \o <<f>> \o b
  BY DEF Splice
<1> HIDE DEF a, b
<1> DEFINE af == a \o <<f>>
<1>4. af \in Seq(S) /\ Len(af) = m + 1 /\ \A i \in 1..(m + 1) : af[i] = IF i <= m THEN fs[i] ELSE f
  BY <1>1
<1>5. gs = af \o b
  BY <1>3
<1> HIDE DEF af
<1>6. /\ gs \in Seq(S) /\ Len(gs) = Len(fs) + 1
      /\ \A i \in 1..(m + 1) : gs[i] = af[i]
      /\ \A i \in (m + 2)..Len(gs) : gs[i] = b[i - (m + 1)]
  <2>1. /\ gs \in Seq(S) /\ Len(gs) = Len(af) + Len(b) /\ Len(af) \in Nat /\ Len(b) \in Nat
        /\ \A i \in 1..Len(af) : gs[i] = af[i]
        /\ \A i \in (Len(af) + 1)..(Len(af) + Len(b)) : gs[i] = b[i - Len(af)]
    <3>1. af \in Seq(S) /\ b \in Seq(S)
      BY <1>2, <1>4
    <3> QED BY <3>1, <1>5, Catenated
  <2>2. m + 1 + (Len(fs) - m) = Len(fs) + 1 /\ m + 1 + 1 = m + 2
    BY <1>0
  <2> QED BY <1>2, <1>4, <2>1, <2>2
<1>7. ASSUME NEW i \in 1..Len(gs)
      PROVE  gs[i] = IF i <= m THEN fs[i] ELSE IF i = m + 1 THEN f ELSE fs[i - 1]
  <2>1. CASE i <= m + 1
    BY <1>0, <1>2, <1>4, <1>5, <1>6, <2>1
  <2>2. CASE i > m + 1
    <3>0. i \in Nat /\ i \in (m + 2)..Len(gs)
      BY <1>0, <1>6, <2>2
    <3>1. gs[i] = b[i - (m + 1)] /\ i - (m + 1) \in 1..Len(b)
      <4>1. gs[i] = b[i - (m + 1)]
        BY <1>6, <3>0
      <4>2. Len(b) = Len(fs) - m /\ Len(gs) = Len(fs) + 1
        BY <1>2, <1>6
      <4>3. i - (m + 1) \in 1..Len(b)
        BY <1>0, <3>0, <4>2
      <4> QED BY <4>1, <4>3
    <3>2. m + (i - (m + 1)) = i - 1 /\ ~(i <= m) /\ i # m + 1
      BY <1>0, <2>2, <3>0
    <3>3. gs[i] = fs[m + (i - (m + 1))]
      BY <1>2, <3>1
    <3> QED BY <3>2, <3>3
  <2> QED BY <1>0, <1>6, <2>1, <2>2
<1> QED BY <1>6, <1>7 DEF IsSplice

LEMMA OrderIsByParent ==
    ASSUME NEW fs, NEW next, FusionsOK(fs, next)
    PROVE  ByParent(fs)
<1>1. /\ Len(fs) \in Nat /\ DOMAIN fs = 1..Len(fs)
      /\ \A i \in DOMAIN fs : fs[i].parent \in Nat
  BY EntriesTyped DEF FusionsOK
<1> QED BY <1>1 DEF ByParent, FusionsOK, InOrder

(* A table with what BuildMap() makes of it.                               *)
LEMMA BuiltTable ==
    ASSUME NEW fs, NEW next, FusionsOK(fs, next), NEW n \in Nat,
           table'.fusions = fs, table'.map = BuildMap(fs, n),
           table'.built => n = Cardinality(Starts(fs))
    PROVE  LookupFindsAll'
<1>1. ByParent(fs)
  BY OrderIsByParent
<1>2. \A i \in DOMAIN fs : fs[i].parent \in Nat /\ fs[i].serial \in Nat
  BY EntriesTyped DEF FusionsOK
<1>3. DOMAIN fs \subseteq Nat
  BY EntriesTyped DEF FusionsOK
<1>4. /\ \A c \in DOMAIN BuildMap(fs, n) : Found(BuildMap(fs, n)[c], fs, c)
      /\ Cardinality(Starts(fs)) <= n => DOMAIN BuildMap(fs, n) = ParentsOf(fs)
      /\ Cardinality(Starts(fs)) \in Nat
  BY <1>1, MapFinds
<1>5. ASSUME NEW c
      PROVE  \A i, j \in {k \in DOMAIN fs : fs[k].parent = c} :
               i < j => fs[i].serial < fs[j].serial
  BY <1>2 DEF FusionsOK, InOrder
<1>6. table'.built => DOMAIN table'.map = {fs[i].parent : i \in DOMAIN fs}
  BY <1>4 DEF ParentsOf
<1>7. ASSUME NEW c \in DOMAIN table'.map
      PROVE  table'.map[c].begin .. (table'.map[c].begin + table'.map[c].size - 1)
               = {k \in DOMAIN fs : fs[k].parent = c}
  BY <1>4, <1>7 DEF Found
<1> QED BY <1>5, <1>6, <1>7 DEF LookupFindsAll

(* The fusions with a parent up to p are the first ones, so that Position  *)
(* is right behind them.                                                   *)
LEMMA PositionSplits ==
    ASSUME NEW fs, ByParent(fs), NEW p \in Nat
    PROVE  \E m \in 0..Len(fs) :
             /\ Position(fs, p) = m + 1
             /\ \A i \in DOMAIN fs : fs[i].parent <= p <=> i <= m
<1> DEFINE T == {i \in 1..(Len(fs) + 1) : i = Len(fs) + 1 \/ p < fs[i].parent}
           L == {i \in DOMAIN fs : fs[i].parent <= p}
<1>0. Len(fs) \in Nat /\ DOMAIN fs = 1..Len(fs) /\ \A i \in DOMAIN fs : fs[i].parent \in Nat
  BY DEF ByParent
<1>1. T \subseteq Nat /\ Len(fs) + 1 \in T
  BY <1>0
<1>2. PICK k \in T : \A y \in T : k <= y
  <2> HIDE DEF T
  <2> QED BY <1>1, LeastNat
<1>3. k \in 1..(Len(fs) + 1) /\ k - 1 \in 0..Len(fs)
  BY <1>0, <1>2
<1>4. \A i \in DOMAIN fs : fs[i].parent <= p <=> i <= k - 1
  <2> SUFFICES ASSUME NEW i \in DOMAIN fs
               PROVE  fs[i].parent <= p <=> i <= k - 1
    OBVIOUS
  <2>0. i \in 1..Len(fs) /\ fs[i].parent \in Nat
    BY <1>0
  <2>1. ASSUME i <= k - 1 PROVE fs[i].parent <= p
    BY <1>0, <1>2, <1>3, <2>0, <2>1
  <2>2. ASSUME k <= i PROVE ~(fs[i].parent <= p)
    <3>1. k \in DOMAIN fs /\ p < fs[k].parent /\ fs[k].parent \in Nat
      BY <1>0, <1>2, <1>3, <2>0, <2>2
    <3>2. fs[k].parent <= fs[i].parent
      BY <1>3, <2>0, <2>2, <3>1 DEF ByParent
    <3> QED BY <2>0, <3>1, <3>2
  <2> QED BY <1>3, <2>0, <2>1, <2>2
<1> DEFINE m == k - 1
<1>5. m \in Nat /\ m \in 0..Len(fs) /\ L = 1..m
  BY <1>0, <1>3, <1>4
<1>6. Cardinality(L) = m
  <2> HIDE DEF L, m
  <2> QED BY <1>5, UpTo
<1>7. Position(fs, p) = m + 1
  BY <1>6 DEF Position
<1>8. \A i \in DOMAIN fs : fs[i].parent <= p <=> i <= m
  BY <1>4
<1> HIDE DEF m
<1> QED BY <1>5, <1>7, <1>8

(* ZL_DecoderFusionState_registerFusion() keeps the table sorted, the new  *)
(* fusion last of its parent's.                                            *)
LEMMA InsertKeeps ==
    ASSUME NEW fs, NEW next, FusionsOK(fs, next), NEW f \in Registered,
           f.serial = next, Valid(f)
    PROVE  FusionsOK(InsertAtPosition(fs, f), next + 1)
<1>1. ByParent(fs)
  BY OrderIsByParent
<1>2. fs \in Seq(Registered) /\ next \in Nat /\ f.parent \in Nat
  BY DEF FusionsOK, Registered
<1>3. PICK m \in 0..Len(fs) :
        /\ Position(fs, f.parent) = m + 1
        /\ \A i \in DOMAIN fs : fs[i].parent <= f.parent <=> i <= m
  BY <1>1, <1>2, PositionSplits
<1> DEFINE gs == InsertAtPosition(fs, f)
<1>4. gs = Splice(fs, f, m)
  <2>1. (m + 1) - 1 = m
    BY <1>2, <1>3
  <2> QED BY <1>3, <2>1 DEF InsertAtPosition, Splice
<1> HIDE DEF gs
<1>5. /\ gs \in Seq(Registered) /\ Len(gs) = Len(fs) + 1
      /\ \A i \in 1..Len(gs) :
           gs[i] = IF i <= m THEN fs[i] ELSE IF i = m + 1 THEN f ELSE fs[i - 1]
  <2>1. gs \in Seq(Registered) /\ IsSplice(gs, fs, f, m)
    BY <1>2, <1>3, <1>4, Spliced
  <2> QED BY <2>1 DEF IsSplice
<1>6. DOMAIN gs = 1..(Len(fs) + 1) /\ DOMAIN fs = 1..Len(fs) /\ Len(fs) \in Nat
  BY <1>2, <1>5
<1>7. \A i \in DOMAIN fs : fs[i].parent \in Nat /\ fs[i].serial \in Nat /\ fs[i].serial < next
  BY <1>2, EntriesTyped DEF FusionsOK
<1>8. \A i \in DOMAIN gs : gs[i].serial < next + 1 /\ Valid(gs[i])
  <2> SUFFICES ASSUME NEW i \in DOMAIN gs PROVE gs[i].serial < next + 1 /\ Valid(gs[i])
    OBVIOUS
  <2>1. CASE i <= m
    <3>1. gs[i] = fs[i] /\ i \in DOMAIN fs
      BY <1>3, <1>5, <1>6, <2>1
    <3> QED BY <3>1, <1>2, <1>7 DEF FusionsOK
  <2>2. CASE i = m + 1
    <3>1. gs[i] = f
      BY <1>3, <1>5, <1>6, <2>2
    <3> QED BY <3>1, <1>2
  <2>3. CASE i > m + 1
    <3>1. gs[i] = fs[i - 1] /\ i - 1 \in DOMAIN fs
      BY <1>3, <1>5, <1>6, <2>3
    <3> QED BY <3>1, <1>2, <1>7 DEF FusionsOK
  <2> QED BY <1>3, <1>6, <2>1, <2>2, <2>3
<1>9. InOrder(gs)
  <2> SUFFICES ASSUME NEW i \in DOMAIN gs, NEW j \in DOMAIN gs, i < j
               PROVE  \/ gs[i].parent < gs[j].parent
                      \/ gs[i].parent = gs[j].parent /\ gs[i].serial < gs[j].serial
    BY DEF InOrder
  <2> DEFINE Old(k) == IF k <= m THEN k ELSE k - 1
  <2>1. \A k \in DOMAIN gs : k # m + 1 => gs[k] = fs[Old(k)] /\ Old(k) \in DOMAIN fs
    BY <1>3, <1>5, <1>6
  <2>2. gs[m + 1] = f
    BY <1>3, <1>5, <1>6
  <2>3. CASE i # m + 1 /\ j # m + 1
    <3>1. Old(i) < Old(j)
      BY <1>3, <1>6, <2>3
    <3>2. \/ fs[Old(i)].parent < fs[Old(j)].parent
          \/ fs[Old(i)].parent = fs[Old(j)].parent /\ fs[Old(i)].serial < fs[Old(j)].serial
      <4> HIDE DEF Old
      <4> QED BY <2>1, <2>3, <3>1 DEF FusionsOK, InOrder
    <3> QED BY <2>1, <2>3, <3>2
  <2>4. CASE i = m + 1
    <3>1. j # m + 1 /\ j > m + 1 /\ Old(j) \in DOMAIN fs /\ ~(Old(j) <= m)
      BY <1>3, <1>6, <2>1, <2>4
    <3>2. f.parent < fs[Old(j)].parent
      BY <1>2, <1>3, <1>7, <3>1
    <3> QED BY <2>1, <2>2, <2>4, <3>1, <3>2
  <2>5. CASE j = m + 1
    <3>1. i # m + 1 /\ i <= m /\ Old(i) \in DOMAIN fs /\ Old(i) <= m
      BY <1>3, <1>6, <2>1, <2>5
    <3>2. fs[Old(i)].parent <= f.parent /\ fs[Old(i)].serial < f.serial
      BY <1>2, <1>3, <1>7, <3>1
    <3> QED BY <1>2, <1>7, <2>1, <2>2, <2>5, <3>1, <3>2
  <2> QED BY <2>3, <2>4, <2>5
<1> QED BY <1>2, <1>5, <1>8, <1>9 DEF FusionsOK, gs

LEMMA InitTable == Init => TableInv
<1> SUFFICES ASSUME Init PROVE TableInv
  OBVIOUS
<1> DEFINE fs == Numbered(BuiltIn)
<1>1. /\ table = [fusions |-> fs, next |-> Len(BuiltIn) + 1, owned |-> FALSE, alive |-> TRUE,
                  map |-> BuildMap(BuiltIn, Len(BuiltIn)), built |-> TRUE]
  BY DEF Init
<1>2. BuiltIn \in Seq(Descs) /\ Len(BuiltIn) \in Nat /\ DOMAIN BuiltIn = 1..Len(BuiltIn)
  BY FusionAssumption
<1>3. \A i \in DOMAIN BuiltIn :
        /\ BuiltIn[i].parent \in Nat
        /\ BuiltIn[i].children \in Seq([codec : Nat, indices : Seq(Nat)])
  <2>1. \A i \in DOMAIN BuiltIn : BuiltIn[i] \in Descs
    BY <1>2
  <2> QED BY <2>1 DEF Descs
<1>4. /\ DOMAIN fs = DOMAIN BuiltIn
      /\ \A i \in DOMAIN fs : fs[i] = [parent |-> BuiltIn[i].parent,
                                       children |-> BuiltIn[i].children, serial |-> i]
  BY DEF Numbered
<1> HIDE DEF fs
<1>5. fs \in Seq(Registered) /\ Len(fs) = Len(BuiltIn)
  <2>1. \A i \in 1..Len(BuiltIn) : fs[i] \in Registered
    BY <1>2, <1>3, <1>4 DEF Registered
  <2>2. fs = [i \in 1..Len(BuiltIn) |-> fs[i]]
    BY <1>2 DEF fs, Numbered
  <2>3. fs \in [1..Len(BuiltIn) -> Registered]
    BY <2>1, <2>2
  <2> QED BY <1>2, <2>3
<1>6. \A i, j \in DOMAIN BuiltIn : i <= j => BuiltIn[i].parent <= BuiltIn[j].parent
  <2> SUFFICES ASSUME NEW i \in DOMAIN BuiltIn, NEW j \in DOMAIN BuiltIn, i <= j,
                      ~(BuiltIn[i].parent <= BuiltIn[j].parent)
               PROVE  FALSE
    OBVIOUS
  <2> DEFINE T == {k \in i..j : ~(BuiltIn[i].parent <= BuiltIn[k].parent)}
  <2>0. i \in Nat /\ j \in Nat /\ i >= 1 /\ j <= Len(BuiltIn)
    BY <1>2
  <2>1. T \subseteq Nat /\ j \in T
    BY <2>0
  <2>2. PICK k \in T : \A y \in T : k <= y
    <3> HIDE DEF T
    <3> QED BY <2>1, LeastNat
  <2>3. k \in i..j /\ ~(BuiltIn[i].parent <= BuiltIn[k].parent)
    BY <2>2
  <2>4. k # i
    BY <1>3, <2>3
  <2>5. k - 1 \in i..j /\ k \in DOMAIN BuiltIn /\ k - 1 \in DOMAIN BuiltIn /\ k > 1
    BY <1>2, <2>0, <2>3, <2>4
  <2>6. BuiltIn[i].parent <= BuiltIn[k - 1].parent
    BY <2>0, <2>2, <2>3, <2>5
  <2>7. BuiltIn[k - 1].parent <= BuiltIn[k].parent
    BY <2>5, FusionAssumption
  <2> QED BY <1>3, <2>3, <2>5, <2>6, <2>7
<1>7. InOrder(fs)
  <2> SUFFICES ASSUME NEW i \in DOMAIN fs, NEW j \in DOMAIN fs, i < j
               PROVE  \/ fs[i].parent < fs[j].parent
                      \/ fs[i].parent = fs[j].parent /\ fs[i].serial < fs[j].serial
    BY DEF InOrder
  <2>1. i \in Nat /\ j \in Nat
    BY <1>2, <1>4
  <2>2. fs[i].parent = BuiltIn[i].parent /\ fs[j].parent = BuiltIn[j].parent
        /\ fs[i].serial = i /\ fs[j].serial = j
    BY <1>4
  <2>3. BuiltIn[i].parent <= BuiltIn[j].parent
    BY <1>4, <1>6, <2>1
  <2>4. BuiltIn[i].parent \in Nat /\ BuiltIn[j].parent \in Nat
    BY <1>3, <1>4
  <2> QED BY <2>2, <2>3, <2>4
<1>8. \A i \in DOMAIN fs : fs[i].serial < Len(BuiltIn) + 1
  BY <1>2, <1>4
<1>9. \A i \in DOMAIN fs : Valid(fs[i])
  <2> SUFFICES ASSUME NEW i \in DOMAIN fs PROVE Valid(fs[i])
    OBVIOUS
  <2>1. Valid(BuiltIn[i])
    BY <1>4, FusionAssumption
  <2>2. fs[i].parent = BuiltIn[i].parent /\ fs[i].children = BuiltIn[i].children
    BY <1>4
  <2> QED BY <2>1, <2>2 DEF Valid
<1>10. FusionsOK(fs, Len(BuiltIn) + 1)
  BY <1>2, <1>5, <1>7, <1>8, <1>9 DEF FusionsOK
<1>11. ByParent(BuiltIn)
  BY <1>2, <1>3, <1>6 DEF ByParent
<1>12. /\ \A c \in DOMAIN BuildMap(BuiltIn, Len(BuiltIn)) :
            Found(BuildMap(BuiltIn, Len(BuiltIn))[c], BuiltIn, c)
       /\ DOMAIN BuildMap(BuiltIn, Len(BuiltIn)) = ParentsOf(BuiltIn)
  BY <1>2, <1>11, MapFinds
<1>13. ASSUME NEW c \in DOMAIN table.map
       PROVE  table.map[c].begin .. (table.map[c].begin + table.map[c].size - 1)
                = {k \in DOMAIN fs : fs[k].parent = c}
  <2>1. {k \in DOMAIN fs : fs[k].parent = c} = {k \in DOMAIN BuiltIn : BuiltIn[k].parent = c}
    BY <1>4
  <2> QED BY <1>1, <1>12, <1>13, <2>1 DEF Found
<1>14. DOMAIN table.map = {fs[i].parent : i \in DOMAIN fs}
  <2>1. ParentsOf(BuiltIn) = {fs[i].parent : i \in DOMAIN fs}
    BY <1>4 DEF ParentsOf
  <2> QED BY <1>1, <1>12, <2>1
<1>15. ASSUME NEW c
       PROVE  \A i, j \in {k \in DOMAIN fs : fs[k].parent = c} :
                i < j => fs[i].serial < fs[j].serial
  BY <1>4
<1>16. LookupFindsAll
  <2>1. table.fusions = fs
    BY <1>1
  <2> QED BY <1>13, <1>14, <1>15, <2>1 DEF LookupFindsAll
<1> QED BY <1>1, <1>10, <1>16 DEF TableInv

LEMMA RegisterTable ==
    ASSUME TableInv, NEW f \in Fusions, RegisterFusion(f)
    PROVE  TableInv'
<1> DEFINE g == [parent |-> f.parent, children |-> f.children, serial |-> table.next]
           fs == InsertAtPosition(table.fusions, g)
<1>1. CASE \E moves \in {ReallocMoves, FALSE} :
             table' = [table EXCEPT !.alive = @ /\ ~(table.owned /\ moves)]
  <2>1. /\ table' = [fusions |-> table'.fusions, next |-> table'.next, owned |-> table'.owned,
                     alive |-> table'.alive, map |-> table'.map, built |-> table'.built]
        /\ table'.fusions = table.fusions /\ table'.next = table.next
        /\ table'.map = table.map /\ table'.built = table.built
    BY <1>1 DEF TableInv
  <2> QED BY <2>1 DEF TableInv, LookupFindsAll
<1>2. CASE \E n \in 0..Cardinality(Starts(fs)) :
             table' = [fusions |-> fs, next |-> table.next + 1, owned |-> TRUE,
                       alive |-> TRUE, map |-> BuildMap(fs, n),
                       built |-> n = Cardinality(Starts(fs))]
  <2>1. f \in Descs /\ Valid(f)
    BY FusionAssumption DEF RegisterFusion
  <2>2. g \in Registered /\ g.serial = table.next
    BY <2>1 DEF Descs, Registered, TableInv, FusionsOK
  <2>3. Valid(g)
    <3>1. g.parent = f.parent /\ g.children = f.children
      OBVIOUS
    <3> HIDE DEF g
    <3> QED BY <2>1, <3>1 DEF Valid
  <2> HIDE DEF g
  <2>4. FusionsOK(fs, table.next + 1)
    BY <2>2, <2>3, InsertKeeps DEF TableInv
  <2> HIDE DEF fs
  <2>5. PICK n \in 0..Cardinality(Starts(fs)) :
             table' = [fusions |-> fs, next |-> table.next + 1, owned |-> TRUE,
                       alive |-> TRUE, map |-> BuildMap(fs, n),
                       built |-> n = Cardinality(Starts(fs))]
    BY <1>2
  <2>6. n \in Nat
    BY <2>5
  <2>7. table'.fusions = fs /\ table'.map = BuildMap(fs, n) /\ table'.next = table.next + 1
        /\ (table'.built => n = Cardinality(Starts(fs)))
    BY <2>5
  <2>8. LookupFindsAll'
    BY <2>4, <2>6, <2>7, BuiltTable
  <2>9. table' = [fusions |-> table'.fusions, next |-> table'.next, owned |-> table'.owned,
                  alive |-> table'.alive, map |-> table'.map, built |-> table'.built]
    BY <2>5
  <2> QED BY <2>4, <2>7, <2>8, <2>9 DEF TableInv
<1> QED BY <1>1, <1>2 DEF RegisterFusion

LEMMA ClearTable == TableInv /\ ClearFusions => TableInv'
<1> SUFFICES ASSUME TableInv, ClearFusions PROVE TableInv'
  OBVIOUS
<1>1. table' = [fusions |-> <<>>, next |-> 1, owned |-> FALSE, alive |-> TRUE,
                map |-> <<>>, built |-> TRUE]
  BY DEF ClearFusions
<1>2. FusionsOK(<<>>, 1)
  BY DEF FusionsOK, InOrder
<1>3. DOMAIN table'.map = {} /\ DOMAIN table'.fusions = {}
  BY <1>1
<1>4. LookupFindsAll'
  BY <1>3 DEF LookupFindsAll
<1> QED BY <1>1, <1>2, <1>4 DEF TableInv

-----------------------------------------------------------------------------
(* The layout of the transforms ns over the slots, which pr says who       *)
(* regenerates.                                                            *)

NodeType == [id : Nat, std : BOOLEAN, base : Nat, nin : Nat, regens : Seq(Nat),
             fusion : Seq(Registered)]

Regenerates(pr, total, t, n) ==
    \A r \in DOMAIN n.regens :
      EndIdx(n) <= n.regens[r] /\ n.regens[r] < total /\ pr[n.regens[r]] = t

Layout(ns, pr, total, outs) ==
    /\ ns \in Seq(NodeType) /\ total \in Nat /\ outs \in Nat
    /\ pr \in [0..(total - 1) -> 0..Len(ns)]
    /\ Ends(ns) + outs <= total
    /\ \A t \in 1..Len(ns) : EndIdx(ns[t]) <= Ends(ns)
    /\ \A t, u \in 1..Len(ns) : t < u => EndIdx(ns[t]) <= ns[u].base
    /\ \A q \in Nat : q < Ends(ns) => \E t \in 1..Len(ns) : q \in InputSlots(ns[t])
    /\ \A t \in 1..Len(ns) : Regenerates(pr, total, t, ns[t])
    /\ \A q \in 0..(total - 1) : pr[q] # STORE => q \in RegenSlots(ns[pr[q]])

LEMMA NodesTyped ==
    ASSUME NEW ns \in Seq(NodeType)
    PROVE  /\ Len(ns) \in Nat /\ DOMAIN ns = 1..Len(ns) /\ DOMAIN ns \subseteq Nat
           /\ Ends(ns) \in Nat
           /\ \A t \in 1..Len(ns) :
                /\ ns[t] \in NodeType
                /\ ns[t].base \in Nat /\ ns[t].nin \in Nat /\ EndIdx(ns[t]) \in Nat
                /\ ns[t].id \in Nat /\ ns[t].std \in BOOLEAN
                /\ ns[t].regens \in Seq(Nat) /\ ns[t].fusion \in Seq(Registered)
<1>1. Len(ns) \in Nat /\ DOMAIN ns = 1..Len(ns) /\ \A t \in 1..Len(ns) : ns[t] \in NodeType
  OBVIOUS
<1>2. \A n \in NodeType :
        /\ n.base \in Nat /\ n.nin \in Nat /\ EndIdx(n) \in Nat
        /\ n.id \in Nat /\ n.std \in BOOLEAN
        /\ n.regens \in Seq(Nat) /\ n.fusion \in Seq(Registered)
  BY DEF NodeType, EndIdx
<1>3. Ends(ns) \in Nat
  <2>1. CASE ns = <<>>
    BY <2>1 DEF Ends
  <2>2. CASE ns # <<>>
    <3>1. Len(ns) \in 1..Len(ns)
      BY <2>2
    <3> QED BY <1>1, <1>2, <2>2, <3>1 DEF Ends
  <2> QED BY <2>1, <2>2
<1> QED BY <1>1, <1>2, <1>3

(* What the layout says of the slots: a slot is the input of one transform *)
(* at most, regenerated by the one that pr names, and that one is earlier. *)
LEMMA InputsDisjoint ==
    ASSUME NEW ns, NEW pr, NEW total, NEW outs, Layout(ns, pr, total, outs),
           NEW t \in 1..Len(ns), NEW u \in 1..Len(ns), NEW q,
           q \in InputSlots(ns[t]), q \in InputSlots(ns[u])
    PROVE  t = u
<1>1. /\ ns[t].base \in Nat /\ EndIdx(ns[t]) \in Nat
      /\ ns[u].base \in Nat /\ EndIdx(ns[u]) \in Nat /\ t \in Nat /\ u \in Nat
  BY NodesTyped DEF Layout
<1>2. /\ t < u => EndIdx(ns[t]) <= ns[u].base
      /\ u < t => EndIdx(ns[u]) <= ns[t].base
  BY DEF Layout
<1> QED BY <1>1, <1>2 DEF InputSlots

LEMMA InputsInside ==
    ASSUME NEW ns, NEW pr, NEW total, NEW outs, Layout(ns, pr, total, outs),
           NEW t \in 1..Len(ns), NEW q \in InputSlots(ns[t])
    PROVE  q \in Nat /\ q < Ends(ns) /\ q < total /\ q + outs < total /\ q \in DOMAIN pr
<1>1. /\ ns[t].base \in Nat /\ EndIdx(ns[t]) \in Nat /\ Ends(ns) \in Nat
      /\ total \in Nat /\ outs \in Nat
  BY NodesTyped DEF Layout
<1>2. EndIdx(ns[t]) <= Ends(ns) /\ Ends(ns) + outs <= total /\ DOMAIN pr = 0..(total - 1)
  BY DEF Layout
<1>3. q \in Nat /\ q < EndIdx(ns[t])
  BY <1>1 DEF InputSlots
<1> QED BY <1>1, <1>2, <1>3

LEMMA ProducerOf ==
    ASSUME NEW ns, NEW pr, NEW total, NEW outs, Layout(ns, pr, total, outs),
           NEW t \in 1..Len(ns), NEW q
    PROVE  q \in RegenSlots(ns[t]) <=> q \in DOMAIN pr /\ pr[q] = t
<1>1. ns[t].regens \in Seq(Nat) /\ Len(ns) \in Nat /\ ns[t].nin \in Nat /\ EndIdx(ns[t]) \in Nat
      /\ total \in Nat
  BY NodesTyped DEF Layout
<1>2. ASSUME q \in RegenSlots(ns[t]) PROVE q \in DOMAIN pr /\ pr[q] = t
  <2>1. PICK r \in DOMAIN ns[t].regens : q = ns[t].regens[r]
    BY <1>2 DEF RegenSlots
  <2>2. EndIdx(ns[t]) <= q /\ q < total /\ pr[q] = t
    BY <2>1 DEF Layout, Regenerates
  <2>3. q \in Nat
    BY <1>1, <2>1
  <2>4. q \in 0..(total - 1)
    BY <1>1, <2>2, <2>3
  <2> QED BY <2>2, <2>4 DEF Layout
<1>3. ASSUME q \in DOMAIN pr, pr[q] = t PROVE q \in RegenSlots(ns[t])
  <2>1. q \in 0..(total - 1) /\ pr[q] # STORE
    BY <1>1, <1>3 DEF Layout, STORE
  <2> QED BY <1>3, <2>1 DEF Layout
<1> QED BY <1>2, <1>3

LEMMA ProducedBefore ==
    ASSUME NEW ns, NEW pr, NEW total, NEW outs, Layout(ns, pr, total, outs),
           NEW t \in 1..Len(ns), NEW u \in 1..Len(ns), NEW q,
           q \in RegenSlots(ns[u]), q \in InputSlots(ns[t])
    PROVE  u < t
<1>1. /\ ns[t].base \in Nat /\ ns[t].nin \in Nat /\ EndIdx(ns[t]) \in Nat
      /\ ns[u].base \in Nat /\ ns[u].nin \in Nat /\ EndIdx(ns[u]) \in Nat
      /\ t \in Nat /\ u \in Nat /\ ns[u].regens \in Seq(Nat)
  BY NodesTyped DEF Layout
<1>2. t < u => EndIdx(ns[t]) <= ns[u].base
  BY DEF Layout
<1>3. PICK r \in DOMAIN ns[u].regens : q = ns[u].regens[r]
  BY DEF RegenSlots
<1>4. EndIdx(ns[u]) <= q /\ q \in Nat
  <2>1. q \in Nat
    BY <1>1, <1>3
  <2>2. Regenerates(pr, total, u, ns[u])
    BY DEF Layout
  <2> QED BY <1>3, <2>1, <2>2 DEF Regenerates
<1>5. q < EndIdx(ns[t])
  BY <1>1 DEF InputSlots
<1>6. ns[u].base <= EndIdx(ns[u])
  BY <1>1 DEF EndIdx
<1>7. ~(t < u)
  BY <1>1, <1>2, <1>4, <1>5, <1>6
<1>8. t # u
  BY <1>1, <1>4, <1>5
<1> QED BY <1>1, <1>7, <1>8

(* gs is ns but for the marks.                                             *)
SameSlots(gs, ns) ==
    /\ gs \in Seq(NodeType) /\ Len(gs) = Len(ns)
    /\ \A t \in 1..Len(ns) :
         /\ gs[t].id = ns[t].id /\ gs[t].std = ns[t].std
         /\ gs[t].base = ns[t].base /\ gs[t].nin = ns[t].nin /\ gs[t].regens = ns[t].regens

(* The producers once the transform n has been added as number t.          *)
Produced(pr, t, n) ==
    [q \in DOMAIN pr |-> IF q \in RegenSlots(n) THEN t ELSE pr[q]]

(* The checks that AddTransform makes.                                     *)
Fits(ns, pr, total, outs, n) ==
    /\ n \in NodeType /\ n.base = Ends(ns)
    /\ EndIdx(n) + outs <= total
    /\ \A r \in DOMAIN n.regens :
         EndIdx(n) <= n.regens[r] /\ n.regens[r] < total /\ pr[n.regens[r]] = STORE

LEMMA EmptyLayout ==
    ASSUME NEW total \in Nat, NEW outs \in Nat, outs <= total,
           NEW pr, pr = [q \in 0..(total - 1) |-> STORE]
    PROVE  Layout(<<>>, pr, total, outs)
<1>1. <<>> \in Seq(NodeType) /\ Len(<<>>) = 0 /\ Ends(<<>>) = 0
  BY DEF Ends
<1>2. 1..Len(<<>>) = {} /\ 0 + outs = outs
  BY <1>1
<1>3. pr \in [0..(total - 1) -> 0..Len(<<>>)]
  BY <1>1 DEF STORE
<1>4. \A q \in 0..(total - 1) : pr[q] = STORE
  OBVIOUS
<1>5. \A q \in Nat : ~(q < 0)
  OBVIOUS
<1> QED BY <1>1, <1>2, <1>3, <1>4, <1>5 DEF Layout

LEMMA AppendNode ==
    ASSUME NEW S, NEW gs \in Seq(S), NEW n \in S, NEW hs, hs = Append(gs, n)
    PROVE  /\ hs \in Seq(S) /\ Len(hs) = Len(gs) + 1 /\ Len(gs) \in Nat /\ hs # <<>>
           /\ \A t \in 1..Len(gs) : hs[t] = gs[t]
           /\ hs[Len(gs) + 1] = n
OBVIOUS

LEMMA AddLayout ==
    ASSUME NEW ns, NEW pr, NEW total, NEW outs, Layout(ns, pr, total, outs),
           NEW n, Fits(ns, pr, total, outs, n),
           NEW gs, SameSlots(gs, ns), NEW hs, hs = Append(gs, n),
           NEW qr, qr = Produced(pr, Len(ns) + 1, n)
    PROVE  Layout(hs, qr, total, outs)
<1> DEFINE T == Len(ns) + 1
<1>1. /\ n \in NodeType /\ n.base \in Nat /\ n.nin \in Nat /\ n.regens \in Seq(Nat)
      /\ EndIdx(n) = Ends(ns) + n.nin /\ EndIdx(n) \in Nat /\ Ends(ns) \in Nat
      /\ Len(ns) \in Nat /\ total \in Nat /\ outs \in Nat
  BY NodesTyped DEF Layout, Fits, NodeType, EndIdx
<1>2. /\ hs \in Seq(NodeType) /\ Len(hs) = T /\ hs[T] = n /\ hs # <<>>
      /\ \A t \in 1..Len(ns) : hs[t] = gs[t]
  BY <1>1, AppendNode DEF SameSlots
<1>3. \A t \in 1..Len(ns) :
        /\ EndIdx(hs[t]) = EndIdx(ns[t]) /\ hs[t].base = ns[t].base
        /\ InputSlots(hs[t]) = InputSlots(ns[t])
        /\ hs[t].regens = ns[t].regens /\ RegenSlots(hs[t]) = RegenSlots(ns[t])
  BY <1>2 DEF SameSlots, EndIdx, InputSlots, RegenSlots
<1>4. \A t \in 1..T : t \in 1..Len(ns) \/ t = T
  BY <1>1
<1>5. Ends(hs) = EndIdx(n)
  BY <1>2 DEF Ends
<1>6. DOMAIN pr = 0..(total - 1)
  BY DEF Layout
<1>7. \A q \in 0..(total - 1) :
        qr[q] = IF q \in RegenSlots(n) THEN T ELSE pr[q]
  BY <1>6 DEF Produced
<1>8. qr \in [0..(total - 1) -> 0..Len(hs)]
  <2>1. DOMAIN qr = 0..(total - 1) /\ qr = [q \in 0..(total - 1) |-> qr[q]]
    BY <1>6 DEF Produced
  <2>2. \A q \in 0..(total - 1) : pr[q] \in 0..Len(ns)
    BY DEF Layout
  <2>3. T \in 0..Len(hs) /\ \A x \in 0..Len(ns) : x \in 0..Len(hs)
    BY <1>1, <1>2
  <2>4. \A q \in 0..(total - 1) : qr[q] \in 0..Len(hs)
    <3> HIDE DEF T
    <3> QED BY <1>7, <2>2, <2>3
  <2> QED BY <2>1, <2>4
<1>9. \A r \in DOMAIN n.regens :
        /\ n.regens[r] \in 0..(total - 1) /\ EndIdx(n) <= n.regens[r]
        /\ pr[n.regens[r]] = STORE
  BY <1>1 DEF Fits
<1>10. \A q \in RegenSlots(n) : q \in 0..(total - 1) /\ pr[q] = STORE
  BY <1>9 DEF RegenSlots
<1>11. \A t \in 1..Len(ns) : EndIdx(ns[t]) \in Nat /\ EndIdx(ns[t]) <= Ends(ns)
  BY NodesTyped DEF Layout
<1>12. \A t \in 1..Len(hs) : EndIdx(hs[t]) <= Ends(hs)
  BY <1>1, <1>2, <1>3, <1>4, <1>5, <1>11
<1>13. \A t, u \in 1..Len(hs) : t < u => EndIdx(hs[t]) <= hs[u].base
  <2> SUFFICES ASSUME NEW t \in 1..Len(hs), NEW u \in 1..Len(hs), t < u
               PROVE  EndIdx(hs[t]) <= hs[u].base
    OBVIOUS
  <2>1. t \in 1..Len(ns)
    BY <1>1, <1>2
  <2>2. CASE u = T
    BY <1>2, <1>3, <1>11, <2>1, <2>2 DEF Fits
  <2>3. CASE u \in 1..Len(ns)
    BY <1>3, <2>1, <2>3 DEF Layout
  <2> QED BY <1>2, <1>4, <2>2, <2>3
<1>14. ASSUME NEW q \in Nat, q < Ends(hs)
       PROVE  \E t \in 1..Len(hs) : q \in InputSlots(hs[t])
  <2>1. CASE q < Ends(ns)
    <3>1. PICK t \in 1..Len(ns) : q \in InputSlots(ns[t])
      BY <2>1 DEF Layout
    <3>2. t \in 1..Len(hs) /\ q \in InputSlots(hs[t])
      BY <1>1, <1>2, <1>3, <3>1
    <3> QED BY <3>2
  <2>2. CASE Ends(ns) <= q
    <3>1. q \in InputSlots(n)
      BY <1>1, <1>5, <1>14, <2>2 DEF InputSlots, Fits
    <3>2. T \in 1..Len(hs) /\ q \in InputSlots(hs[T])
      BY <1>1, <1>2, <3>1
    <3> QED BY <3>2
  <2> QED BY <1>1, <2>1, <2>2
<1>15. ASSUME NEW t \in 1..Len(hs)
       PROVE  Regenerates(qr, total, t, hs[t])
  <2>1. CASE t = T
    <3>1. \A r \in DOMAIN n.regens : n.regens[r] \in RegenSlots(n)
      BY DEF RegenSlots
    <3>2. \A r \in DOMAIN n.regens : n.regens[r] < total /\ qr[n.regens[r]] = T
      BY <1>1, <1>7, <1>9, <3>1
    <3> QED BY <1>2, <1>9, <2>1, <3>2 DEF Regenerates
  <2>2. CASE t \in 1..Len(ns)
    <3>1. Regenerates(pr, total, t, ns[t]) /\ ns[t].regens \in Seq(Nat) /\ t \in Nat /\ t # STORE
          /\ EndIdx(ns[t]) \in Nat
      BY <2>2, NodesTyped DEF Layout, STORE
    <3>2. ASSUME NEW r \in DOMAIN ns[t].regens
          PROVE  /\ EndIdx(ns[t]) <= ns[t].regens[r] /\ ns[t].regens[r] < total
                 /\ qr[ns[t].regens[r]] = t
      <4>1. /\ EndIdx(ns[t]) <= ns[t].regens[r] /\ ns[t].regens[r] < total
            /\ pr[ns[t].regens[r]] = t
        BY <3>1 DEF Regenerates
      <4>2. ns[t].regens[r] \in Nat
        BY <3>1
      <4>3. ns[t].regens[r] \in 0..(total - 1)
        BY <1>1, <4>1, <4>2
      <4>4. ns[t].regens[r] \notin RegenSlots(n)
        BY <1>10, <3>1, <4>1
      <4> QED BY <1>7, <4>1, <4>3, <4>4
    <3> QED BY <1>3, <2>2, <3>2 DEF Regenerates
  <2> QED BY <1>2, <1>4, <2>1, <2>2
<1>16. ASSUME NEW q \in 0..(total - 1), qr[q] # STORE
       PROVE  q \in RegenSlots(hs[qr[q]])
  <2>1. CASE q \in RegenSlots(n)
    BY <1>2, <1>7, <2>1
  <2>2. CASE q \notin RegenSlots(n)
    <3>1. qr[q] = pr[q] /\ pr[q] # STORE /\ pr[q] \in 0..Len(ns)
      BY <1>7, <1>16, <2>2 DEF Layout
    <3>2. pr[q] \in 1..Len(ns)
      BY <1>1, <3>1 DEF STORE
    <3>3. q \in RegenSlots(ns[pr[q]])
      BY <3>1 DEF Layout
    <3> QED BY <1>3, <3>1, <3>2, <3>3
  <2> QED BY <2>1, <2>2
<1>17. Ends(hs) + outs <= total
  BY <1>5 DEF Fits
<1> QED BY <1>1, <1>2, <1>8, <1>12, <1>13, <1>14, <1>15, <1>16, <1>17 DEF Layout

-----------------------------------------------------------------------------
(* The marks that fusing leaves on the transforms.                         *)

KidAt(ns, pr, t, c) == GetProducerNodeIdx(ns[t].fusion[1].children[c], ns[t], pr)
IsKid(n) == n.fusion # <<>> /\ ~IsParent(n)
ChildOf(ns, pr, t, p) ==
    IsParent(ns[p]) /\ \E c \in DOMAIN ns[p].fusion[1].children : t = KidAt(ns, pr, p, c)

(* Child c of the parent t is wired as the pattern says.                   *)
Wired(ns, pr, t, c) ==
    LET child == ns[t].fusion[1].children[c]
        k == KidAt(ns, pr, t, c)
    IN  /\ k \in 1..(t - 1)
        /\ ns[k].id = child.codec /\ ns[k].fusion = ns[t].fusion
        /\ child.indices[1] < ns[t].nin
        /\ Len(ns[k].regens) = Len(child.indices)
        /\ \A r \in 1..Len(child.indices) :
             /\ child.indices[r] < ns[t].nin
             /\ ns[k].regens[r] = InputSlot(ns[t], child.indices[r])

OneFusion(n) == n.fusion # <<>> => Len(n.fusion) = 1 /\ Valid(n.fusion[1])

Fused(ns, pr) ==
    /\ \A t \in 1..Len(ns) : OneFusion(ns[t])
    /\ \A t \in 1..Len(ns) : IsParent(ns[t]) =>
         \A c \in DOMAIN ns[t].fusion[1].children : Wired(ns, pr, t, c)
    /\ \A t \in 1..Len(ns) : IsKid(ns[t]) => \E p \in 1..Len(ns) : ChildOf(ns, pr, t, p)

LEMMA ElementOf ==
    ASSUME NEW S, NEW x \in Seq(S)
    PROVE  Len(x) \in Nat /\ DOMAIN x = 1..Len(x) /\ \A i \in 1..Len(x) : x[i] \in S
OBVIOUS

(* What ZL_DecoderFusionDesc_validate() gives.                             *)
LEMMA ValidChildren ==
    ASSUME NEW f, Valid(f), f.children \in Seq([codec : Nat, indices : Seq(Nat)]),
           NEW c \in DOMAIN f.children
    PROVE  /\ f.children[c].codec # f.parent
           /\ f.children[c].indices \in Seq(Nat) /\ Len(f.children[c].indices) \in Nat
           /\ 1 \in 1..Len(f.children[c].indices)
           /\ \A r \in 1..Len(f.children[c].indices) : f.children[c].indices[r] \in Nat
           /\ \A r, s \in 1..Len(f.children[c].indices) :
                f.children[c].indices[r] = f.children[c].indices[s] => r = s
<1> DEFINE is == f.children[c].indices
           uses == UNION {{<<d, r>> : r \in DOMAIN f.children[d].indices} :
                             d \in DOMAIN f.children}
<1>1. f.children[c] \in [codec : Nat, indices : Seq(Nat)]
  BY ElementOf
<1>2. is \in Seq(Nat) /\ Len(is) \in Nat /\ DOMAIN is = 1..Len(is)
  BY <1>1
<1>3. f.children[c].codec # f.parent /\ is # <<>>
  BY DEF Valid
<1>4. \A u, v \in uses :
        f.children[u[1]].indices[u[2]] = f.children[v[1]].indices[v[2]] => u = v
  BY DEF Valid
<1>5. \A r \in 1..Len(is) : <<c, r>> \in uses
  BY <1>2
<1> HIDE DEF uses
<1>6. ASSUME NEW r \in 1..Len(is), NEW s \in 1..Len(is), is[r] = is[s] PROVE r = s
  <2>1. <<c, r>> = <<c, s>>
    BY <1>4, <1>5, <1>6
  <2> QED BY <2>1
<1>7. 1 \in 1..Len(is)
  BY <1>2, <1>3
<1>8. \A r \in 1..Len(is) : is[r] \in Nat
  <2> HIDE DEF is
  <2> QED BY <1>2, ElementOf
<1> QED BY <1>2, <1>3, <1>6, <1>7, <1>8

(* The fusion that MaybeFuse() picks is one of the table and matches.      *)
Fusing(ns, pr, n) ==
    n.fusion = <<>> \/ \E f \in Registered :
      /\ n.fusion = <<f>> /\ Valid(f) /\ Matches(f, ns, pr, n)

(* A parent's input that it gets from a child.                             *)
LEMMA MatchedChild ==
    ASSUME NEW ns, NEW pr, NEW total, NEW outs, Layout(ns, pr, total, outs),
           NEW n, Fits(ns, pr, total, outs, n),
           NEW qr, qr = Produced(pr, Len(ns) + 1, n),
           NEW f \in Registered, Valid(f), Matches(f, ns, qr, n),
           NEW c \in DOMAIN f.children, NEW k, k = GetProducerNodeIdx(f.children[c], n, qr)
    PROVE  /\ k \in 1..Len(ns)
           /\ ns[k].id = f.children[c].codec /\ ns[k].fusion = <<>>
           /\ f.children[c].indices[1] < n.nin
           /\ Len(ns[k].regens) = Len(f.children[c].indices)
           /\ \A r \in 1..Len(f.children[c].indices) :
                /\ f.children[c].indices[r] < n.nin
                /\ ns[k].regens[r] = InputSlot(n, f.children[c].indices[r])
<1> DEFINE is == f.children[c].indices
           q == InputSlot(n, is[1])
<1>1. /\ f.children[c].codec # f.parent
      /\ is \in Seq(Nat) /\ Len(is) \in Nat /\ 1 \in 1..Len(is)
      /\ \A r \in 1..Len(is) : is[r] \in Nat
      /\ \A r, s \in 1..Len(is) : is[r] = is[s] => r = s
  BY ValidChildren DEF Registered
<1>2. /\ is[1] < n.nin /\ k # STORE /\ ns[k].id = f.children[c].codec
      /\ ns[k].fusion = <<>> /\ Len(ns[k].regens) = Len(is)
      /\ \A r \in 2..Len(is) : is[r] < n.nin /\ ns[k].regens[r] = InputSlot(n, is[r])
  BY DEF Matches, Unfused, OthersMapped
<1>3. k = qr[q]
  BY DEF GetProducerNodeIdx
<1>4. /\ n.base \in Nat /\ n.nin \in Nat /\ EndIdx(n) \in Nat /\ EndIdx(n) >= n.nin
      /\ n.regens \in Seq(Nat) /\ total \in Nat /\ outs \in Nat /\ EndIdx(n) + outs <= total
      /\ Len(ns) \in Nat
  BY NodesTyped DEF Layout, Fits, NodeType, EndIdx
<1>5. \A j \in Nat : j < n.nin => InputSlot(n, j) = (EndIdx(n) - 1) - j /\ InputSlot(n, j) \in Nat
                                  /\ InputSlot(n, j) < EndIdx(n)
  BY <1>4 DEF InputSlot
<1>6. is[1] \in Nat
  BY <1>1
<1> HIDE DEF is
<1>7. q \in Nat /\ q < EndIdx(n) /\ q \in 0..(total - 1)
  BY <1>2, <1>4, <1>5, <1>6
<1>8. q \notin RegenSlots(n)
  <2>1. \A r \in DOMAIN n.regens : EndIdx(n) <= n.regens[r] /\ n.regens[r] \in Nat
    BY <1>4 DEF Fits
  <2> HIDE DEF q
  <2> QED BY <1>4, <1>7, <2>1 DEF RegenSlots
<1> HIDE DEF q
<1>9. k = pr[q] /\ k \in 0..Len(ns)
  BY <1>3, <1>7, <1>8 DEF Layout, Produced
<1>10. k \in 1..Len(ns)
  BY <1>2, <1>4, <1>9 DEF STORE
<1>11. q \in RegenSlots(ns[k]) /\ ns[k].regens \in Seq(Nat)
  BY <1>2, <1>7, <1>9, <1>10, NodesTyped DEF Layout
<1>12. PICK r \in DOMAIN ns[k].regens : q = ns[k].regens[r]
  BY <1>11 DEF RegenSlots
<1>13. r \in 1..Len(is)
  BY <1>2, <1>11, <1>12
<1>14. r = 1
  <2> SUFFICES ASSUME r # 1 PROVE FALSE
    OBVIOUS
  <2>1. r \in 2..Len(is)
    BY <1>1, <1>13
  <2>2. is[r] < n.nin /\ q = InputSlot(n, is[r]) /\ is[r] \in Nat
    BY <1>1, <1>2, <1>12, <1>13, <2>1
  <2>3. q = (EndIdx(n) - 1) - is[r] /\ q = (EndIdx(n) - 1) - is[1]
    BY <1>2, <1>5, <1>6, <2>2 DEF q
  <2>4. is[r] = is[1]
    BY <1>4, <1>6, <2>2, <2>3
  <2> QED BY <1>1, <1>13, <2>4
<1>15. \A s \in 1..Len(is) : is[s] < n.nin /\ ns[k].regens[s] = InputSlot(n, is[s])
  <2> SUFFICES ASSUME NEW s \in 1..Len(is)
               PROVE  is[s] < n.nin /\ ns[k].regens[s] = InputSlot(n, is[s])
    OBVIOUS
  <2>1. CASE s = 1
    BY <1>2, <1>12, <1>14, <2>1 DEF q
  <2>2. CASE s \in 2..Len(is)
    BY <1>2, <2>2
  <2> QED BY <1>1, <2>1, <2>2
<1> QED BY <1>2, <1>10, <1>15 DEF is

(* Marking leaves the layout alone, and marks only transforms that are in  *)
(* no fusion yet.                                                          *)
LEMMA MarkedIs ==
    ASSUME NEW ns, NEW pr, NEW total, NEW outs, Layout(ns, pr, total, outs),
           NEW n, Fits(ns, pr, total, outs, n),
           NEW qr, qr = Produced(pr, Len(ns) + 1, n), Fusing(ns, qr, n),
           NEW gs, gs = Marked(ns, qr, n)
    PROVE  /\ SameSlots(gs, ns)
           /\ \A t \in 1..Len(ns) : ns[t].fusion # <<>> => gs[t].fusion = ns[t].fusion
           /\ n.fusion = <<>> => \A t \in 1..Len(ns) : gs[t].fusion = ns[t].fusion
           /\ n.fusion # <<>> => \A t \in 1..Len(ns) :
                gs[t].fusion = IF \E c \in DOMAIN n.fusion[1].children :
                                     t = GetProducerNodeIdx(n.fusion[1].children[c], n, qr)
                               THEN n.fusion ELSE ns[t].fusion
<1>1. ns \in Seq(NodeType) /\ n \in NodeType /\ Len(ns) \in Nat /\ DOMAIN ns = 1..Len(ns)
      /\ \A t \in 1..Len(ns) : ns[t] \in NodeType
  BY ElementOf DEF Layout, Fits
<1>2. CASE n.fusion = <<>>
  <2>1. gs = ns
    BY <1>2 DEF Marked
  <2> QED BY <1>1, <1>2, <2>1 DEF SameSlots
<1>3. CASE n.fusion # <<>>
  <2>1. PICK f \in Registered : n.fusion = <<f>> /\ Valid(f) /\ Matches(f, ns, qr, n)
    BY <1>3 DEF Fusing
  <2>2. n.fusion[1] = f /\ n.fusion \in Seq(Registered)
    BY <1>1, <2>1 DEF NodeType
  <2> DEFINE Kid(t) == \E c \in DOMAIN f.children : t = GetProducerNodeIdx(f.children[c], n, qr)
  <2>3. gs = [t \in 1..Len(ns) |->
                IF Kid(t) THEN [ns[t] EXCEPT !.fusion = n.fusion] ELSE ns[t]]
    BY <1>1, <1>3, <2>2 DEF Marked, Kids
  <2> HIDE DEF Kid
  <2>4. \A t \in 1..Len(ns) :
          /\ gs[t] \in NodeType
          /\ gs[t].fusion = IF Kid(t) THEN n.fusion ELSE ns[t].fusion
          /\ gs[t].id = ns[t].id /\ gs[t].std = ns[t].std
          /\ gs[t].base = ns[t].base /\ gs[t].nin = ns[t].nin /\ gs[t].regens = ns[t].regens
    <3> SUFFICES ASSUME NEW t \in 1..Len(ns)
                 PROVE  /\ gs[t] \in NodeType
                        /\ gs[t].fusion = IF Kid(t) THEN n.fusion ELSE ns[t].fusion
                        /\ gs[t].id = ns[t].id /\ gs[t].std = ns[t].std
                        /\ gs[t].base = ns[t].base /\ gs[t].nin = ns[t].nin
                        /\ gs[t].regens = ns[t].regens
      OBVIOUS
    <3>1. CASE Kid(t)
      <4>1. gs[t] = [ns[t] EXCEPT !.fusion = n.fusion] /\ ns[t] \in NodeType
        BY <1>1, <2>3, <3>1
      <4> QED BY <2>2, <3>1, <4>1 DEF NodeType
    <3>2. CASE ~Kid(t)
      BY <1>1, <2>3, <3>2
    <3> QED BY <3>1, <3>2
  <2>5. gs \in Seq(NodeType) /\ Len(gs) = Len(ns)
    <3>1. gs \in [1..Len(ns) -> NodeType]
      BY <2>3, <2>4
    <3> QED BY <1>1, <3>1
  <2>6. \A t \in 1..Len(ns) : Kid(t) => ns[t].fusion = <<>>
    BY <2>1, MatchedChild DEF Kid
  <2> QED BY <1>3, <2>2, <2>4, <2>5, <2>6 DEF SameSlots, Kid
<1> QED BY <1>2, <1>3

LEMMA ParentFusion ==
    ASSUME NEW ns, NEW pr, NEW total, NEW outs, Layout(ns, pr, total, outs), Fused(ns, pr),
           NEW t \in 1..Len(ns), IsParent(ns[t])
    PROVE  /\ ns[t].fusion[1] \in Registered /\ Valid(ns[t].fusion[1]) /\ ns[t].fusion # <<>>
           /\ ns[t].fusion[1].children \in Seq([codec : Nat, indices : Seq(Nat)])
           /\ ns[t].id = ns[t].fusion[1].parent
<1>1. ns[t].fusion # <<>> /\ ns[t].fusion \in Seq(Registered)
      /\ ns[t].id = ns[t].fusion[1].parent
  BY NodesTyped DEF IsParent, Layout
<1>2. Len(ns[t].fusion) = 1 /\ Valid(ns[t].fusion[1])
  BY <1>1 DEF Fused, OneFusion
<1>3. ns[t].fusion[1] \in Registered
  BY <1>1, <1>2, ElementOf
<1> QED BY <1>1, <1>2, <1>3 DEF Registered

LEMMA AddFused ==
    ASSUME NEW ns, NEW pr, NEW total, NEW outs, Layout(ns, pr, total, outs), Fused(ns, pr),
           NEW n, Fits(ns, pr, total, outs, n),
           NEW qr, qr = Produced(pr, Len(ns) + 1, n), Fusing(ns, qr, n),
           NEW gs, gs = Marked(ns, qr, n), NEW hs, hs = Append(gs, n)
    PROVE  Fused(hs, qr)
<1> DEFINE T == Len(ns) + 1
           Kid(t) == \E c \in DOMAIN n.fusion[1].children :
                        t = GetProducerNodeIdx(n.fusion[1].children[c], n, qr)
<1>1. /\ SameSlots(gs, ns)
      /\ \A t \in 1..Len(ns) : ns[t].fusion # <<>> => gs[t].fusion = ns[t].fusion
      /\ n.fusion = <<>> => \A t \in 1..Len(ns) : gs[t].fusion = ns[t].fusion
      /\ n.fusion # <<>> => \A t \in 1..Len(ns) :
           gs[t].fusion = IF Kid(t) THEN n.fusion ELSE ns[t].fusion
  BY MarkedIs
<1>2. /\ n \in NodeType /\ n.nin \in Nat /\ n.regens \in Seq(Nat)
      /\ EndIdx(n) = Ends(ns) + n.nin /\ EndIdx(n) \in Nat /\ Ends(ns) \in Nat
      /\ Len(ns) \in Nat /\ total \in Nat /\ outs \in Nat /\ EndIdx(n) + outs <= total
      /\ n.fusion \in Seq(Registered) /\ n.id \in Nat
  BY NodesTyped DEF Layout, Fits, NodeType, EndIdx
<1>3. /\ Len(hs) = T /\ hs[T] = n
      /\ \A t \in 1..Len(ns) : hs[t] = gs[t]
  BY <1>1, <1>2, AppendNode DEF SameSlots
<1>4. \A t \in 1..T : t \in 1..Len(ns) \/ t = T
  BY <1>2
<1>5. \A t \in 1..Len(ns) :
        /\ hs[t].id = ns[t].id /\ hs[t].nin = ns[t].nin /\ hs[t].regens = ns[t].regens
        /\ EndIdx(hs[t]) = EndIdx(ns[t]) /\ (ns[t].fusion # <<>> => hs[t].fusion = ns[t].fusion)
  BY <1>1, <1>3 DEF SameSlots, EndIdx
<1>6. ASSUME n.fusion # <<>>
      PROVE  \E f \in Registered : /\ n.fusion = <<f>> /\ n.fusion[1] = f /\ Valid(f)
                                   /\ Matches(f, ns, qr, n) /\ n.id = f.parent
  <2>1. PICK f \in Registered : n.fusion = <<f>> /\ Valid(f) /\ Matches(f, ns, qr, n)
    BY <1>6 DEF Fusing
  <2>2. n.fusion[1] = f /\ n.id = f.parent
    BY <2>1 DEF Matches
  <2> QED BY <2>1, <2>2
(* The kids of the new parent.                                             *)
<1>7. ASSUME NEW t \in 1..Len(ns), n.fusion # <<>>, Kid(t)
      PROVE  hs[t].fusion = n.fusion /\ ~IsParent(hs[t]) /\ ns[t].fusion = <<>>
  <2>1. PICK f \in Registered : /\ n.fusion = <<f>> /\ n.fusion[1] = f /\ Valid(f)
                                /\ Matches(f, ns, qr, n)
    BY <1>6, <1>7
  <2>2. PICK c \in DOMAIN f.children : t = GetProducerNodeIdx(f.children[c], n, qr)
    BY <1>7, <2>1
  <2>3. ns[t].id = f.children[c].codec /\ ns[t].fusion = <<>>
    BY <2>1, <2>2, MatchedChild
  <2>4. f.children[c].codec # f.parent
    BY <2>1, ValidChildren DEF Registered
  <2>5. hs[t].fusion = n.fusion
    <3> HIDE DEF Kid
    <3> QED BY <1>1, <1>3, <1>7
  <2>6. hs[t].id # hs[t].fusion[1].parent
    BY <1>5, <2>1, <2>3, <2>4, <2>5
  <2> QED BY <2>3, <2>5, <2>6 DEF IsParent
<1>8. ASSUME NEW t \in 1..Len(ns), hs[t].fusion # <<>>, ns[t].fusion = <<>>
      PROVE  n.fusion # <<>> /\ Kid(t)
  <2> HIDE DEF Kid
  <2> QED BY <1>1, <1>3, <1>8
<1> HIDE DEF Kid
<1>9. ASSUME NEW t \in 1..Len(ns), IsParent(hs[t])
      PROVE  IsParent(ns[t]) /\ hs[t].fusion = ns[t].fusion /\ ns[t].fusion # <<>>
  <2>1. hs[t].fusion # <<>>
    BY <1>9 DEF IsParent
  <2>2. ns[t].fusion # <<>>
    BY <1>7, <1>8, <1>9, <2>1
  <2> QED BY <1>5, <1>9, <2>2 DEF IsParent
<1>10. ASSUME NEW t \in 1..Len(ns), IsParent(ns[t])
       PROVE  IsParent(hs[t]) /\ hs[t].fusion = ns[t].fusion
  BY <1>5, <1>10 DEF IsParent
(* The producers of the inputs of earlier transforms stay.                 *)
<1>11. ASSUME NEW t \in 1..Len(ns), NEW j \in Nat, j < ns[t].nin
       PROVE  /\ InputSlot(hs[t], j) = InputSlot(ns[t], j)
              /\ qr[InputSlot(hs[t], j)] = pr[InputSlot(ns[t], j)]
  <2> DEFINE q == InputSlot(ns[t], j)
  <2>1. /\ EndIdx(ns[t]) \in Nat /\ ns[t].nin \in Nat /\ ns[t].nin <= EndIdx(ns[t])
        /\ EndIdx(ns[t]) <= Ends(ns)
    BY NodesTyped DEF Layout, EndIdx
  <2>2. q = (EndIdx(ns[t]) - 1) - j /\ InputSlot(hs[t], j) = q
    BY <1>5 DEF InputSlot
  <2> HIDE DEF q
  <2>3. q \in Nat /\ q < EndIdx(n) /\ q \in 0..(total - 1)
    <3>1. q \in Nat /\ q < EndIdx(ns[t])
      BY <1>11, <2>1, <2>2
    <3>2. EndIdx(ns[t]) <= EndIdx(n) /\ EndIdx(n) <= total
      BY <1>2, <2>1
    <3> QED BY <1>2, <2>1, <3>1, <3>2
  <2>4. \A r \in DOMAIN n.regens : EndIdx(n) <= n.regens[r] /\ n.regens[r] \in Nat
    <3>1. \A r \in DOMAIN n.regens : n.regens[r] \in Nat
      BY <1>2, ElementOf
    <3> QED BY <3>1 DEF Fits
  <2>5. q \notin RegenSlots(n)
    BY <1>2, <2>3, <2>4 DEF RegenSlots
  <2>6. qr[q] = pr[q]
    BY <2>3, <2>5 DEF Produced, Layout
  <2> QED BY <2>2, <2>6 DEF q
<1>12. ASSUME NEW t \in 1..Len(ns), IsParent(ns[t]),
              NEW c \in DOMAIN ns[t].fusion[1].children
       PROVE  KidAt(hs, qr, t, c) = KidAt(ns, pr, t, c) /\ Wired(hs, qr, t, c)
  <2> DEFINE child == ns[t].fusion[1].children[c]
             k == KidAt(ns, pr, t, c)
  <2>1. Wired(ns, pr, t, c) /\ ns[t].fusion # <<>>
    BY <1>12 DEF Fused, IsParent
  <2>2. /\ child.indices \in Seq(Nat) /\ Len(child.indices) \in Nat
        /\ 1 \in 1..Len(child.indices)
        /\ \A r \in 1..Len(child.indices) : child.indices[r] \in Nat
    BY <1>12, ParentFusion, ValidChildren
  <2>3. /\ k \in 1..(t - 1)
        /\ ns[k].id = child.codec /\ ns[k].fusion = ns[t].fusion
        /\ child.indices[1] < ns[t].nin
        /\ Len(ns[k].regens) = Len(child.indices)
        /\ \A r \in 1..Len(child.indices) :
             /\ child.indices[r] < ns[t].nin
             /\ ns[k].regens[r] = InputSlot(ns[t], child.indices[r])
    BY <2>1 DEF Wired
  <2>4. hs[t].fusion = ns[t].fusion /\ hs[t].nin = ns[t].nin
    BY <1>5, <1>10, <1>12
  <2>5. KidAt(hs, qr, t, c) = k
    <3>1. child.indices[1] \in Nat
      BY <2>2
    <3>2. qr[InputSlot(hs[t], child.indices[1])] = pr[InputSlot(ns[t], child.indices[1])]
      BY <1>11, <2>3, <3>1
    <3> QED BY <2>4, <3>2 DEF KidAt, GetProducerNodeIdx
  <2>6. k \in 1..Len(ns)
    BY <1>2, <2>3
  <2> HIDE DEF k, child
  <2>7. hs[k].id = child.codec /\ hs[k].fusion = ns[t].fusion /\ hs[k].regens = ns[k].regens
    BY <1>5, <2>1, <2>3, <2>6
  <2>8. \A r \in 1..Len(child.indices) :
             /\ child.indices[r] < hs[t].nin
             /\ hs[k].regens[r] = InputSlot(hs[t], child.indices[r])
    BY <1>11, <2>2, <2>3, <2>4, <2>7
  <2>9. hs[t].fusion[1].children[c] = child
    BY <2>4 DEF child
  <2>10. Wired(hs, qr, t, c)
    BY <2>3, <2>4, <2>5, <2>7, <2>8, <2>9 DEF Wired
  <2> QED BY <2>5, <2>10 DEF k
<1>13. ASSUME n.fusion # <<>>, NEW c \in DOMAIN n.fusion[1].children
       PROVE  Wired(hs, qr, T, c)
  <2>1. PICK f \in Registered : /\ n.fusion = <<f>> /\ n.fusion[1] = f /\ Valid(f)
                                /\ Matches(f, ns, qr, n)
    BY <1>6, <1>13
  <2> DEFINE child == f.children[c]
             k == GetProducerNodeIdx(child, n, qr)
  <2>2. /\ k \in 1..Len(ns)
        /\ ns[k].id = child.codec /\ ns[k].fusion = <<>>
        /\ child.indices[1] < n.nin
        /\ Len(ns[k].regens) = Len(child.indices)
        /\ \A r \in 1..Len(child.indices) :
             child.indices[r] < n.nin /\ ns[k].regens[r] = InputSlot(n, child.indices[r])
    BY <1>13, <2>1, MatchedChild
  <2>3. Kid(k)
    BY <1>13, <2>1 DEF Kid
  <2>4. KidAt(hs, qr, T, c) = k /\ hs[T].fusion[1].children[c] = child
    BY <1>3, <2>1 DEF KidAt
  <2> HIDE DEF k, child
  <2>5. hs[k].id = child.codec /\ hs[k].regens = ns[k].regens /\ hs[k].fusion = hs[T].fusion
    BY <1>3, <1>5, <1>7, <1>13, <2>2, <2>3
  <2>6. k \in 1..(T - 1)
    BY <1>2, <2>2
  <2>7. Len(hs[k].regens) = Len(child.indices)
        /\ \A r \in 1..Len(child.indices) :
             child.indices[r] < n.nin /\ hs[k].regens[r] = InputSlot(n, child.indices[r])
    BY <2>2, <2>5
  <2> HIDE DEF T
  <2> QED BY <1>3, <2>2, <2>4, <2>5, <2>6, <2>7 DEF Wired
<1>14. \A t \in 1..Len(hs) : OneFusion(hs[t])
  <2> SUFFICES ASSUME NEW t \in 1..Len(hs), hs[t].fusion # <<>>
               PROVE  Len(hs[t].fusion) = 1 /\ Valid(hs[t].fusion[1])
    BY DEF OneFusion
  <2>1. ASSUME n.fusion # <<>> PROVE Len(n.fusion) = 1 /\ Valid(n.fusion[1])
    <3>1. PICK f \in Registered : n.fusion = <<f>> /\ n.fusion[1] = f /\ Valid(f)
      BY <1>6, <2>1
    <3> QED BY <3>1
  <2>2. CASE t = T
    BY <1>3, <2>1, <2>2
  <2>3. CASE t \in 1..Len(ns) /\ ns[t].fusion = <<>>
    <3>1. hs[t].fusion = n.fusion
      BY <1>7, <1>8, <2>3
    <3> QED BY <2>1, <3>1
  <2>4. CASE t \in 1..Len(ns) /\ ns[t].fusion # <<>>
    <3>1. hs[t].fusion = ns[t].fusion
      BY <1>5, <2>4
    <3> QED BY <2>4, <3>1 DEF Fused, OneFusion
  <2> QED BY <1>3, <1>4, <2>2, <2>3, <2>4
<1>15. ASSUME NEW t \in 1..Len(hs), IsParent(hs[t]), NEW c \in DOMAIN hs[t].fusion[1].children
       PROVE  Wired(hs, qr, t, c)
  <2>1. CASE t = T
    BY <1>3, <1>13, <1>15, <2>1 DEF IsParent
  <2>2. CASE t \in 1..Len(ns)
    BY <1>9, <1>12, <1>15, <2>2
  <2> QED BY <1>3, <1>4, <2>1, <2>2
<1>16. ASSUME NEW t \in 1..Len(hs), IsKid(hs[t])
       PROVE  \E p \in 1..Len(hs) : ChildOf(hs, qr, t, p)
  <2>1. t # T
    BY <1>3, <1>6, <1>16 DEF IsKid, IsParent
  <2>2. t \in 1..Len(ns)
    BY <1>3, <1>4, <2>1
  <2>3. hs[t].fusion # <<>>
    BY <1>16 DEF IsKid
  <2>4. CASE ns[t].fusion = <<>>
    <3>1. n.fusion # <<>> /\ Kid(t)
      BY <1>8, <2>2, <2>3, <2>4
    <3>2. IsParent(n)
      BY <1>6, <3>1 DEF IsParent
    <3>3. ChildOf(hs, qr, t, T)
      BY <1>3, <3>1, <3>2 DEF ChildOf, KidAt, Kid
    <3>4. T \in 1..Len(hs)
      BY <1>2, <1>3
    <3> QED BY <3>3, <3>4
  <2>5. CASE ns[t].fusion # <<>>
    <3>1. IsKid(ns[t])
      BY <1>5, <1>10, <1>16, <2>2, <2>5 DEF IsKid
    <3>2. PICK p \in 1..Len(ns) : ChildOf(ns, pr, t, p)
      BY <2>2, <3>1 DEF Fused
    <3>3. IsParent(ns[p]) /\ IsParent(hs[p]) /\ hs[p].fusion = ns[p].fusion
      BY <1>10, <3>2 DEF ChildOf
    <3>4. \A c \in DOMAIN ns[p].fusion[1].children : KidAt(hs, qr, p, c) = KidAt(ns, pr, p, c)
      BY <1>12, <3>3
    <3>5. ChildOf(hs, qr, t, p)
      BY <3>2, <3>3, <3>4 DEF ChildOf
    <3>6. p \in 1..Len(hs)
      BY <1>2, <1>3
    <3> QED BY <3>5, <3>6
  <2> QED BY <2>4, <2>5
<1> QED BY <1>14, <1>15, <1>16 DEF Fused

(* Whether a fusion matches does not depend on the mark of the parent.     *)
LEMMA MatchesSame ==
    ASSUME NEW f, NEW ns, NEW pr, NEW n, NEW m, Matches(f, ns, pr, n),
           m.id = n.id, m.std = n.std, m.base = n.base, m.nin = n.nin
    PROVE  Matches(f, ns, pr, m)
<1>1. EndIdx(m) = EndIdx(n) /\ \A k : InputSlot(m, k) = InputSlot(n, k)
  BY DEF EndIdx, InputSlot
<1>2. \A c : GetProducerNodeIdx(c, m, pr) = GetProducerNodeIdx(c, n, pr)
  BY <1>1 DEF GetProducerNodeIdx
<1>3. \A c, u : OthersMapped(c, u, m) <=> OthersMapped(c, u, n)
  BY <1>1 DEF OthersMapped
<1> QED BY <1>2, <1>3 DEF Matches

LEMMA MaybeFuseIs ==
    ASSUME TableInv, NEW ns, NEW pr, NEW n
    PROVE  \/ MaybeFuse(ns, pr, n) = <<>>
           \/ \E f \in Registered :
                MaybeFuse(ns, pr, n) = <<f>> /\ Valid(f) /\ Matches(f, ns, pr, n)
<1> SUFFICES ASSUME MaybeFuse(ns, pr, n) # <<>>
             PROVE  \E f \in Registered :
                      MaybeFuse(ns, pr, n) = <<f>> /\ Valid(f) /\ Matches(f, ns, pr, n)
  OBVIOUS
<1> DEFINE range == table.map[n.id]
           found == range.begin .. (range.begin + range.size - 1)
           hits == {i \in found : Matches(table.fusions[i], ns, pr, n)}
           i == Min(hits)
<1>1. /\ n.id \in DOMAIN table.map /\ hits # {}
      /\ MaybeFuse(ns, pr, n) = <<table.fusions[i]>>
  BY DEF MaybeFuse
<1>2. found = {j \in DOMAIN table.fusions : table.fusions[j].parent = n.id}
  BY <1>1 DEF TableInv, LookupFindsAll
<1>3. table.fusions \in Seq(Registered)
      /\ \A j \in DOMAIN table.fusions : Valid(table.fusions[j])
  BY DEF TableInv, FusionsOK
<1>4. \A j \in DOMAIN table.fusions : j \in Nat /\ table.fusions[j] \in Registered
  BY <1>3, EntriesTyped
<1> HIDE DEF found
<1>5. hits \subseteq Nat
  BY <1>2, <1>4
<1>6. i \in hits
  <2> HIDE DEF hits
  <2> QED BY <1>1, <1>5, MinIs
<1> HIDE DEF i
<1>7. i \in DOMAIN table.fusions /\ Matches(table.fusions[i], ns, pr, n)
  BY <1>2, <1>6
<1> QED BY <1>1, <1>3, <1>4, <1>7

(* The chunk while its transforms are read and run.                        *)
ChunkInv ==
    /\ chunk = [total |-> chunk.total, outs |-> chunk.outs, fuse |-> chunk.fuse,
                nodes |-> chunk.nodes, producer |-> chunk.producer]
    /\ Layout(chunk.nodes, chunk.producer, chunk.total, chunk.outs)
    /\ Fused(chunk.nodes, chunk.producer)

LEMMA EmptyFused == ASSUME NEW pr PROVE Fused(<<>>, pr)
<1>1. 1..Len(<<>>) = {}
  OBVIOUS
<1> QED BY <1>1 DEF Fused

LEMMA InitChunk == Init => ChunkInv
<1> SUFFICES ASSUME Init PROVE ChunkInv
  OBVIOUS
<1>1. chunk = [total |-> 0, outs |-> 0, fuse |-> FALSE, nodes |-> <<>>, producer |-> <<>>]
  BY DEF Init, NoChunk
<1>2. <<>> = [q \in 0..(0 - 1) |-> STORE]
  <2>1. 0..(0 - 1) = {} /\ DOMAIN <<>> = {}
    OBVIOUS
  <2> QED BY <2>1
<1>3. Layout(<<>>, <<>>, 0, 0)
  <2>1. ASSUME NEW e, e = [q \in 0..(0 - 1) |-> STORE] PROVE Layout(<<>>, e, 0, 0)
    <3>1. 0 \in Nat /\ 0 <= 0
      OBVIOUS
    <3> QED BY <2>1, <3>1, EmptyLayout
  <2> QED BY <1>2, <2>1
<1> QED BY <1>1, <1>3, EmptyFused DEF ChunkInv

LEMMA BeginChunkInv == BeginChunk => ChunkInv'
<1> SUFFICES ASSUME BeginChunk PROVE ChunkInv'
  OBVIOUS
<1>1. PICK total \in 1..MaxStreams, outs \in 1..MaxOutputs, fuse \in BOOLEAN :
         /\ outs <= total
         /\ chunk' = [total |-> total, outs |-> outs, fuse |-> fuse, nodes |-> <<>>,
                      producer |-> [q \in 0..(total - 1) |-> STORE]]
  BY DEF BeginChunk
<1>2. total \in Nat /\ outs \in Nat /\ outs <= total
  BY <1>1, FusionAssumption
<1> DEFINE pr == [q \in 0..(total - 1) |-> STORE]
<1>3. Layout(<<>>, pr, total, outs)
  BY <1>2, EmptyLayout
<1> HIDE DEF pr
<1>4. Fused(<<>>, pr)
  BY EmptyFused
<1>5. chunk' = [total |-> total, outs |-> outs, fuse |-> fuse, nodes |-> <<>>, producer |-> pr]
  BY <1>1 DEF pr
<1> QED BY <1>3, <1>4, <1>5 DEF ChunkInv

LEMMA AddTransformInv ==
    ASSUME TableInv, ChunkInv, AddTransform
    PROVE  ChunkInv'
<1> DEFINE ns == chunk.nodes
           pr == chunk.producer
           base == Ends(ns)
           N(tr, nin, regens) ==
             [id |-> tr.id, std |-> tr.std, base |-> base, nin |-> nin,
              regens |-> <<>> \o regens, fusion |-> <<>>]
<1>1. CASE chunk' = chunk
  BY <1>1 DEF ChunkInv
<1>2. CASE chunk' # chunk
  <2> DEFINE Step(tr, nin, regens) ==
           LET n == N(tr, nin, regens)
               t == Len(ns) + 1
               producer == [q \in DOMAIN pr |-> IF q \in RegenSlots(n) THEN t ELSE pr[q]]
               m == [n EXCEPT !.fusion = MaybeFuse(ns, producer, n)]
           IN  \/ /\ Accepted(n)
                  /\ chunk' = [chunk EXCEPT
                        !.nodes = Append(Marked(ns, producer, m), m), !.producer = producer]
                  /\ UNCHANGED <<table, data, stage, call, phase>>
               \/ ~Accepted(n) /\ Fail
  <2>0. \E tr \in Transforms : \E nin \in tr.ins, k \in tr.regens :
          \E regens \in [1..k -> (base + nin)..chunk.total] : Step(tr, nin, regens)
    BY DEF AddTransform
  <2> HIDE DEF Step, base
  <2>1. PICK tr \in Transforms : \E nin \in tr.ins, k \in tr.regens :
          \E regens \in [1..k -> (base + nin)..chunk.total] : Step(tr, nin, regens)
    BY <2>0
  <2>2. PICK nin \in tr.ins, k \in tr.regens :
          \E regens \in [1..k -> (base + nin)..chunk.total] : Step(tr, nin, regens)
    BY <2>1
  <2>3. PICK regens \in [1..k -> (base + nin)..chunk.total] : Step(tr, nin, regens)
    BY <2>2
  <2> DEFINE n == N(tr, nin, regens)
             qr == Produced(pr, Len(ns) + 1, n)
             F == MaybeFuse(ns, qr, n)
             m == [n EXCEPT !.fusion = F]
             gs == Marked(ns, qr, m)
             hs == Append(gs, m)
  <2>4. Accepted(n) /\ chunk' = [chunk EXCEPT !.nodes = hs, !.producer = qr]
    BY <1>2, <2>3 DEF Step, Produced, Fail
  <2>5. /\ tr.id \in Nat /\ tr.std \in BOOLEAN /\ nin \in Nat /\ k \in Nat
    <3>1. tr \in Decoders
      BY FusionAssumption
    <3> QED BY <3>1 DEF Decoders
  <2>6. base \in Nat /\ chunk.total \in Nat /\ chunk.outs \in Nat
    BY NodesTyped DEF ChunkInv, Layout, base
  <2>7. regens \in Seq(Nat) /\ \A r \in DOMAIN regens : base + nin <= regens[r]
    <3>1. \A r \in 1..k : regens[r] \in (base + nin)..chunk.total
      BY <2>3
    <3>2. regens \in [1..k -> Nat]
      BY <2>5, <2>6
    <3>3. regens \in Seq(Nat)
      BY <2>5, <3>2
    <3> QED BY <2>5, <2>6, <3>1, <3>3
  <2>8. <<>> \o regens = regens
    BY <2>7
  <2>9. n = [id |-> tr.id, std |-> tr.std, base |-> base, nin |-> nin,
             regens |-> regens, fusion |-> <<>>]
    BY <2>8
  <2> HIDE DEF n, base
  <2>10. F = <<>> \/ \E f \in Registered : F = <<f>> /\ Valid(f) /\ Matches(f, ns, qr, n)
    BY MaybeFuseIs DEF ChunkInv
  <2> HIDE DEF F
  <2>11. F \in Seq(Registered)
    <3>1. <<>> \in Seq(Registered) /\ \A f \in Registered : <<f>> \in Seq(Registered)
      OBVIOUS
    <3> QED BY <2>10, <3>1
  <2>12. m = [id |-> tr.id, std |-> tr.std, base |-> base, nin |-> nin,
              regens |-> regens, fusion |-> F]
    BY <2>9
  <2> HIDE DEF m
  <2>13. /\ m.id = n.id /\ m.std = n.std /\ m.base = n.base /\ m.nin = n.nin
         /\ m.regens = n.regens /\ m.fusion = F /\ m.base = base /\ m.nin = nin
         /\ m.regens = regens
    BY <2>9, <2>12
  <2>14. m \in NodeType
    BY <2>5, <2>6, <2>7, <2>11, <2>12 DEF NodeType
  <2>15. EndIdx(m) = EndIdx(n) /\ EndIdx(m) = base + nin /\ RegenSlots(m) = RegenSlots(n)
    BY <2>13 DEF EndIdx, RegenSlots
  <2>16. Fits(ns, pr, chunk.total, chunk.outs, m)
    <3>1. EndIdx(m) <= chunk.total - chunk.outs
      BY <2>4, <2>15 DEF Accepted
    <3>2. EndIdx(m) \in Nat
      BY <2>5, <2>6, <2>15
    <3>3. EndIdx(m) + chunk.outs <= chunk.total
      BY <2>6, <3>1, <3>2
    <3>4. \A r \in DOMAIN m.regens : m.regens[r] < chunk.total /\ pr[m.regens[r]] = STORE
      BY <2>4, <2>13 DEF Accepted
    <3>5. \A r \in DOMAIN m.regens : EndIdx(m) <= m.regens[r]
      BY <2>7, <2>13, <2>15
    <3> QED BY <2>13, <2>14, <3>3, <3>4, <3>5 DEF Fits, base
  <2>17. qr = Produced(pr, Len(ns) + 1, m)
    BY <2>15 DEF Produced
  <2> HIDE DEF qr
  <2>18. Fusing(ns, qr, m)
    <3>1. ASSUME NEW f \in Registered, Matches(f, ns, qr, n) PROVE Matches(f, ns, qr, m)
      BY <2>13, <3>1, MatchesSame
    <3> QED BY <2>10, <2>13, <3>1 DEF Fusing
  <2> DEFINE total == chunk.total
             outs == chunk.outs
  <2>19. Layout(ns, pr, total, outs) /\ Fused(ns, pr) /\ Fits(ns, pr, total, outs, m)
    BY <2>16 DEF ChunkInv
  <2>20. /\ chunk'.nodes = hs /\ chunk'.producer = qr /\ chunk'.total = total
         /\ chunk'.outs = outs
         /\ chunk' = [total |-> chunk'.total, outs |-> chunk'.outs, fuse |-> chunk'.fuse,
                      nodes |-> chunk'.nodes, producer |-> chunk'.producer]
    <3> HIDE DEF hs
    <3> QED BY <2>4 DEF ChunkInv
  <2> HIDE DEF ns, pr, total, outs
  <2>21. SameSlots(gs, ns)
    BY <2>17, <2>18, <2>19, MarkedIs
  <2>22. Fused(hs, qr)
    BY <2>17, <2>18, <2>19, AddFused
  <2> HIDE DEF gs
  <2>23. Layout(hs, qr, total, outs)
    BY <2>17, <2>19, <2>21, AddLayout
  <2> HIDE DEF hs
  <2> QED BY <2>20, <2>22, <2>23 DEF ChunkInv
<1> QED BY <1>1, <1>2

-----------------------------------------------------------------------------
(* Where the data is.                                                      *)

(* When it is the turn of s: the transforms that ran, a child with its     *)
(* parent; and the slots that have data, regenerated but not consumed yet. *)
Ran(ns, pr, s, t) ==
    /\ t < s
    /\ IsKid(ns[t]) => \E p \in 1..Len(ns) : p < s /\ ChildOf(ns, pr, t, p)
There(ns, pr, s, q) ==
    /\ pr[q] = STORE \/ Ran(ns, pr, s, pr[q])
    /\ \A t \in 1..Len(ns) : q \in InputSlots(ns[t]) => ~Ran(ns, pr, s, t)

(* The transforms that run at the turn of s, which is not a child.         *)
Group(ns, pr, s) == {t \in 1..Len(ns) : t = s \/ ChildOf(ns, pr, t, s)}

LEMMA KidFacts ==
    ASSUME NEW ns, NEW pr, NEW total, NEW outs, Layout(ns, pr, total, outs), Fused(ns, pr),
           NEW t, NEW p \in 1..Len(ns), ChildOf(ns, pr, t, p)
    PROVE  /\ t \in 1..Len(ns) /\ t < p /\ IsKid(ns[t])
           /\ RegenSlots(ns[t]) \subseteq InputSlots(ns[p]) /\ RegenSlots(ns[t]) # {}
<1>1. IsParent(ns[p])
  BY DEF ChildOf
<1>2. PICK c \in DOMAIN ns[p].fusion[1].children : t = KidAt(ns, pr, p, c)
  BY DEF ChildOf
<1> DEFINE f == ns[p].fusion[1]
           is == f.children[c].indices
<1>3. /\ Valid(f) /\ ns[p].fusion # <<>>
      /\ f.children \in Seq([codec : Nat, indices : Seq(Nat)]) /\ ns[p].id = f.parent
  BY <1>1, ParentFusion
<1>4. /\ f.children[c].codec # f.parent
      /\ is \in Seq(Nat) /\ Len(is) \in Nat /\ 1 \in 1..Len(is)
      /\ \A r \in 1..Len(is) : is[r] \in Nat
  BY <1>3, ValidChildren
<1>5. /\ t \in 1..(p - 1)
      /\ ns[t].id = f.children[c].codec /\ ns[t].fusion = ns[p].fusion
      /\ Len(ns[t].regens) = Len(is)
      /\ \A r \in 1..Len(is) :
           is[r] < ns[p].nin /\ ns[t].regens[r] = InputSlot(ns[p], is[r])
  BY <1>1, <1>2 DEF Fused, Wired
<1>6. t \in 1..Len(ns) /\ t < p
  <2>1. Len(ns) \in Nat
    BY NodesTyped DEF Layout
  <2> QED BY <1>5, <2>1
<1>7. IsKid(ns[t])
  BY <1>3, <1>4, <1>5 DEF IsKid, IsParent
<1>8. /\ ns[p].base \in Nat /\ ns[p].nin \in Nat /\ EndIdx(ns[p]) = ns[p].base + ns[p].nin
      /\ ns[t].regens \in Seq(Nat)
  BY <1>6, NodesTyped DEF Layout, EndIdx
<1>9. \A j \in Nat : j < ns[p].nin => InputSlot(ns[p], j) \in InputSlots(ns[p])
  BY <1>8 DEF InputSlot, InputSlots
<1>10. DOMAIN ns[t].regens = 1..Len(is)
  BY <1>5, <1>8
<1> HIDE DEF is
<1>11. \A r \in 1..Len(is) : ns[t].regens[r] \in InputSlots(ns[p])
  BY <1>4, <1>5, <1>9
<1>12. RegenSlots(ns[t]) \subseteq InputSlots(ns[p])
  BY <1>10, <1>11 DEF RegenSlots
<1>13. ns[t].regens[1] \in RegenSlots(ns[t])
  BY <1>4, <1>10 DEF RegenSlots
<1> QED BY <1>6, <1>7, <1>12, <1>13

LEMMA OneParent ==
    ASSUME NEW ns, NEW pr, NEW total, NEW outs, Layout(ns, pr, total, outs), Fused(ns, pr),
           NEW t, NEW p \in 1..Len(ns), NEW v \in 1..Len(ns),
           ChildOf(ns, pr, t, p), ChildOf(ns, pr, t, v)
    PROVE  p = v
<1>1. /\ RegenSlots(ns[t]) # {} /\ RegenSlots(ns[t]) \subseteq InputSlots(ns[p])
      /\ RegenSlots(ns[t]) \subseteq InputSlots(ns[v])
  BY KidFacts
<1>2. PICK q : q \in InputSlots(ns[p]) /\ q \in InputSlots(ns[v])
  BY <1>1
<1> QED BY <1>2, InputsDisjoint

(* Nothing of a group ran before its turn.                                 *)
LEMMA GroupWaits ==
    ASSUME NEW ns, NEW pr, NEW total, NEW outs, Layout(ns, pr, total, outs), Fused(ns, pr),
           NEW s \in 1..Len(ns), NEW t \in Group(ns, pr, s)
    PROVE  ~Ran(ns, pr, s, t) /\ t \in 1..Len(ns) /\ t <= s
<1>0. Len(ns) \in Nat /\ s \in Nat /\ t \in 1..Len(ns)
  BY NodesTyped DEF Layout, Group
<1>1. CASE t = s
  BY <1>0, <1>1 DEF Ran
<1>2. CASE ChildOf(ns, pr, t, s)
  <2>1. IsKid(ns[t]) /\ t < s
    BY <1>2, KidFacts
  <2>2. \A p \in 1..Len(ns) : ChildOf(ns, pr, t, p) => p = s
    BY <1>2, OneParent
  <2>3. ~(s < s)
    BY <1>0
  <2> QED BY <1>0, <2>1, <2>2, <2>3 DEF Ran
<1> QED BY <1>1, <1>2 DEF Group

LEMMA RanNext ==
    ASSUME NEW ns, NEW pr, NEW total, NEW outs, Layout(ns, pr, total, outs), Fused(ns, pr),
           NEW s \in 1..Len(ns), NEW t \in 1..Len(ns)
    PROVE  /\ IsKid(ns[s]) => (Ran(ns, pr, s + 1, t) <=> Ran(ns, pr, s, t))
           /\ ~IsKid(ns[s]) => (Ran(ns, pr, s + 1, t) <=>
                                  Ran(ns, pr, s, t) \/ t \in Group(ns, pr, s))
<1>0. Len(ns) \in Nat /\ s \in Nat /\ t \in Nat
  BY NodesTyped DEF Layout
<1>1. t < s + 1 <=> t < s \/ t = s
  BY <1>0
<1>2. \A p \in 1..Len(ns) : p < s + 1 <=> p < s \/ p = s
  BY <1>0
<1>3. ChildOf(ns, pr, t, s) => IsKid(ns[t]) /\ t < s
  BY KidFacts
<1>4. ~(s < s) /\ ~ChildOf(ns, pr, s, s)
  BY <1>0, KidFacts
<1>5. IsKid(ns[s]) => ~ChildOf(ns, pr, t, s)
  BY DEF IsKid, ChildOf
<1>6. \A p \in 1..Len(ns) : ChildOf(ns, pr, s, p) => ~(p < s)
  <2> SUFFICES ASSUME NEW p \in 1..Len(ns), ChildOf(ns, pr, s, p) PROVE ~(p < s)
    OBVIOUS
  <2>1. s < p
    BY KidFacts
  <2> QED BY <1>0, <2>1
<1>7. CASE t = s
  <2>1. IsKid(ns[s]) => ~Ran(ns, pr, s + 1, s)
    BY <1>2, <1>4, <1>6 DEF Ran
  <2>2. ~Ran(ns, pr, s, s)
    BY <1>4 DEF Ran
  <2>3. ~IsKid(ns[s]) => Ran(ns, pr, s + 1, s)
    BY <1>1, <1>7 DEF Ran
  <2>4. s \in Group(ns, pr, s)
    BY DEF Group
  <2> QED BY <1>7, <2>1, <2>2, <2>3, <2>4
<1>8. CASE t # s
  <2>1. Ran(ns, pr, s + 1, t) <=> Ran(ns, pr, s, t) \/ ChildOf(ns, pr, t, s)
    BY <1>1, <1>2, <1>3, <1>8 DEF Ran
  <2>2. t \in Group(ns, pr, s) <=> ChildOf(ns, pr, t, s)
    BY <1>8 DEF Group
  <2> QED BY <1>5, <2>1, <2>2
<1> QED BY <1>7, <1>8

(* A skipped child changes nothing; any other turn regenerates what s does *)
(* and frees the inputs of the group.                                      *)
LEMMA ThereSkip ==
    ASSUME NEW ns, NEW pr, NEW total, NEW outs, Layout(ns, pr, total, outs), Fused(ns, pr),
           NEW s \in 1..Len(ns), IsKid(ns[s]), NEW q \in DOMAIN pr
    PROVE  There(ns, pr, s + 1, q) <=> There(ns, pr, s, q)
<1>1. \A t \in 1..Len(ns) : Ran(ns, pr, s + 1, t) <=> Ran(ns, pr, s, t)
  BY RanNext
<1>2. pr[q] = STORE \/ pr[q] \in 1..Len(ns)
  <2>1. pr[q] \in 0..Len(ns) /\ Len(ns) \in Nat
    BY NodesTyped DEF Layout
  <2> QED BY <2>1 DEF STORE
<1> QED BY <1>1, <1>2 DEF There

LEMMA ThereNext ==
    ASSUME NEW ns, NEW pr, NEW total, NEW outs, Layout(ns, pr, total, outs), Fused(ns, pr),
           NEW s \in 1..Len(ns), ~IsKid(ns[s]), NEW q \in DOMAIN pr
    PROVE  There(ns, pr, s + 1, q) <=>
             /\ There(ns, pr, s, q) \/ q \in RegenSlots(ns[s])
             /\ \A t \in Group(ns, pr, s) : q \notin InputSlots(ns[t])
<1>1. \A t \in 1..Len(ns) :
        Ran(ns, pr, s + 1, t) <=> Ran(ns, pr, s, t) \/ t \in Group(ns, pr, s)
  BY RanNext
<1>2. (pr[q] = STORE \/ pr[q] \in 1..Len(ns)) /\ s # STORE
  <2>1. pr[q] \in 0..Len(ns) /\ Len(ns) \in Nat
    BY NodesTyped DEF Layout
  <2> QED BY <2>1 DEF STORE
<1>3. Group(ns, pr, s) \subseteq 1..Len(ns)
  BY DEF Group
<1>4. CASE \E t \in Group(ns, pr, s) : q \in InputSlots(ns[t])
  BY <1>1, <1>3, <1>4 DEF There
<1>5. CASE \A t \in Group(ns, pr, s) : q \notin InputSlots(ns[t])
  <2>1. q \in RegenSlots(ns[s]) <=> pr[q] = s
    BY ProducerOf
  <2>2. ASSUME NEW k \in 1..Len(ns), k # s, k \in Group(ns, pr, s), pr[q] = k PROVE FALSE
    <3>1. ChildOf(ns, pr, k, s)
      BY <2>2 DEF Group
    <3>2. q \in RegenSlots(ns[k])
      BY <2>2, ProducerOf
    <3>3. q \in InputSlots(ns[s])
      BY <3>1, <3>2, KidFacts
    <3>4. s \in Group(ns, pr, s)
      BY DEF Group
    <3> QED BY <1>5, <3>3, <3>4
  <2>3. ASSUME NEW t \in 1..Len(ns), q \in InputSlots(ns[t])
        PROVE  Ran(ns, pr, s + 1, t) <=> Ran(ns, pr, s, t)
    BY <1>1, <1>5, <2>3
  <2>4. ASSUME q \in RegenSlots(ns[s]), NEW t \in 1..Len(ns), q \in InputSlots(ns[t])
        PROVE  ~Ran(ns, pr, s, t)
    <3>1. s < t /\ s \in Nat /\ t \in Nat
      BY <2>4, ProducedBefore, NodesTyped DEF Layout
    <3> QED BY <3>1 DEF Ran
  <2>5. CASE q \in RegenSlots(ns[s])
    <3>1. Ran(ns, pr, s + 1, pr[q])
      BY <1>1, <2>1, <2>5 DEF Group
    <3> QED BY <1>5, <2>3, <2>4, <2>5, <3>1 DEF There
  <2>6. CASE q \notin RegenSlots(ns[s])
    <3>1. pr[q] # STORE => (Ran(ns, pr, s + 1, pr[q]) <=> Ran(ns, pr, s, pr[q]))
      BY <1>1, <1>2, <2>1, <2>2, <2>6
    <3> QED BY <1>5, <2>3, <2>6, <3>1 DEF There
  <2> QED BY <2>5, <2>6
<1> QED BY <1>4, <1>5

(* The codecs of a fused call are the group.                               *)
CallOf(ns, pr, s) == Append(Kids(ns[s].fusion[1], ns[s], pr), s)
IsGroup(kids, G) ==
    /\ \A i \in DOMAIN kids : kids[i] \in G
    /\ \A t \in G : \E i \in DOMAIN kids : kids[i] = t

LEMMA CallIsGroup ==
    ASSUME NEW ns, NEW pr, NEW total, NEW outs, Layout(ns, pr, total, outs), Fused(ns, pr),
           NEW s \in 1..Len(ns), IsParent(ns[s]), NEW kids, kids = CallOf(ns, pr, s)
    PROVE  IsGroup(kids, Group(ns, pr, s))
<1> DEFINE f == ns[s].fusion[1]
           m == Len(f.children)
           ks == Kids(f, ns[s], pr)
<1>1. f.children \in Seq([codec : Nat, indices : Seq(Nat)])
  BY ParentFusion
<1>2. m \in Nat /\ DOMAIN f.children = 1..m
  BY <1>1
<1>3. ks = [c \in 1..m |-> KidAt(ns, pr, s, c)]
  BY <1>2 DEF Kids, KidAt
<1>4. \A c \in 1..m : ChildOf(ns, pr, KidAt(ns, pr, s, c), s)
  BY <1>2 DEF ChildOf
<1>5. \A c \in 1..m : KidAt(ns, pr, s, c) \in 1..Len(ns)
  BY <1>4, KidFacts
<1>6. \A t : ChildOf(ns, pr, t, s) => \E c \in 1..m : t = KidAt(ns, pr, s, c)
  BY <1>2 DEF ChildOf
<1> HIDE DEF m, f
<1>7. ks \in Seq(1..Len(ns)) /\ Len(ks) = m
  <2>1. ks \in [1..m -> 1..Len(ns)]
    BY <1>3, <1>5
  <2> QED BY <1>2, <2>1
<1>8. \A c \in 1..m : ks[c] = KidAt(ns, pr, s, c)
  BY <1>3
<1>9. kids = Append(ks, s)
  BY DEF f, CallOf
<1> HIDE DEF ks
<1>10. /\ Len(kids) = m + 1 /\ DOMAIN kids = 1..(m + 1)
       /\ \A c \in 1..m : kids[c] = ks[c]
       /\ kids[m + 1] = s
  BY <1>2, <1>7, <1>9
<1>11. \A i \in 1..(m + 1) : i \in 1..m \/ i = m + 1
  BY <1>2
<1>12. \A i \in 1..m : i \in 1..(m + 1)
  BY <1>2
<1>13. m + 1 \in 1..(m + 1)
  BY <1>2
<1>14. \A i \in DOMAIN kids : kids[i] \in Group(ns, pr, s)
  BY <1>4, <1>5, <1>8, <1>10, <1>11 DEF Group
<1>15. ASSUME NEW t \in Group(ns, pr, s) PROVE \E i \in DOMAIN kids : kids[i] = t
  <2>1. CASE t = s
    BY <1>10, <1>13, <2>1
  <2>2. CASE ChildOf(ns, pr, t, s)
    BY <1>6, <1>8, <1>10, <1>12, <2>2
  <2> QED BY <2>1, <2>2 DEF Group
<1> QED BY <1>14, <1>15 DEF IsGroup

(* What a fused decoder may change before its end.                         *)
Touched == Consumed(call.kids) \cup RegenSlots(Node)

DataInv ==
    LET ns == chunk.nodes
        pr == chunk.producer
    IN  /\ phase \in {"run", "fused", "done"} =>
             /\ stage \in Nat /\ stage >= 1 /\ stage <= Len(ns) + 1
             /\ data \in [DOMAIN pr -> BOOLEAN]
        /\ phase = "done" => stage = Len(ns) + 1
        /\ phase \in {"run", "done"} =>
             \A q \in DOMAIN pr : data[q] <=> There(ns, pr, stage, q)
        /\ phase = "fused" =>
             /\ stage <= Len(ns) /\ IsParent(Node)
             /\ call.kids = Append(Kids(Node.fusion[1], Node, pr), stage)
             /\ \A q \in DOMAIN pr : q \notin Touched => (data[q] <=> There(ns, pr, stage, q))

Inv == TableInv /\ ChunkInv /\ DataInv

LEMMA DataFrom ==
    ASSUME phase' \notin {"run", "fused", "done"} PROVE DataInv'
BY DEF DataInv

LEMMA DataStays ==
    ASSUME DataInv, UNCHANGED <<chunk, data, stage, call, phase>> PROVE DataInv'
BY DEF DataInv, Touched, Consumed, Node

LEMMA FillStoredData ==
    ASSUME ChunkInv, DataInv, FillStored PROVE DataInv'
<1> DEFINE ns == chunk.nodes
           pr == chunk.producer
<1>1. CASE Fail
  BY <1>1, DataFrom DEF Fail
<1>2. CASE /\ data' = [q \in DOMAIN pr |-> pr[q] = STORE]
           /\ stage' = 1 /\ phase' = "run" /\ UNCHANGED <<table, chunk, call>>
  <2>1. chunk' = chunk
    BY <1>2
  <2>2. data' \in [DOMAIN pr -> BOOLEAN]
    BY <1>2
  <2>3. Len(ns) \in Nat /\ Layout(ns, pr, chunk.total, chunk.outs)
    BY NodesTyped DEF ChunkInv, Layout
  <2>4. \A t \in 0..Len(ns) : ~(t < 1) \/ t = 0
    OBVIOUS
  <2>5. \A t \in 1..Len(ns) : ~Ran(ns, pr, 1, t)
    BY <2>3 DEF Ran
  <2>6. ASSUME NEW q \in DOMAIN pr PROVE There(ns, pr, 1, q) <=> pr[q] = STORE
    <3>1. pr[q] \in 0..Len(ns)
      BY <2>3 DEF Layout
    <3>2. pr[q] = STORE \/ pr[q] \in 1..Len(ns)
      BY <2>3, <3>1 DEF STORE
    <3> QED BY <2>5, <3>2 DEF There
  <2>7. \A q \in DOMAIN pr : data'[q] <=> pr[q] = STORE
    BY <1>2
  <2>8. \A q \in DOMAIN pr : data'[q] <=> There(ns, pr, stage', q)
    BY <1>2, <2>6, <2>7
  <2>9. stage' \in Nat /\ stage' >= 1 /\ stage' <= Len(ns) + 1
    BY <1>2, <2>3
  <2> QED BY <1>2, <2>1, <2>2, <2>8, <2>9 DEF DataInv
<1> QED BY <1>1, <1>2 DEF FillStored

(* The state at a turn, named as the lemmas name it.                       *)
LEMMA AtTurn ==
    ASSUME ChunkInv, DataInv, phase \in {"run", "fused"}, stage <= Len(chunk.nodes)
    PROVE  /\ Layout(chunk.nodes, chunk.producer, chunk.total, chunk.outs)
           /\ Fused(chunk.nodes, chunk.producer)
           /\ stage \in 1..Len(chunk.nodes) /\ Len(chunk.nodes) \in Nat /\ stage \in Nat
           /\ stage + 1 \in Nat /\ stage + 1 >= 1 /\ stage + 1 <= Len(chunk.nodes) + 1
           /\ data \in [DOMAIN chunk.producer -> BOOLEAN]
           /\ DOMAIN data = DOMAIN chunk.producer
<1>1. Layout(chunk.nodes, chunk.producer, chunk.total, chunk.outs) /\ Fused(chunk.nodes, chunk.producer)
  BY DEF ChunkInv
<1>2. Len(chunk.nodes) \in Nat
  BY <1>1, NodesTyped DEF Layout
<1>3. stage \in Nat /\ stage >= 1 /\ data \in [DOMAIN chunk.producer -> BOOLEAN]
  BY DEF DataInv
<1> QED BY <1>1, <1>2, <1>3

LEMMA RunDecoderData ==
    ASSUME ChunkInv, DataInv, RunDecoder PROVE DataInv'
<1> DEFINE ns == chunk.nodes
           pr == chunk.producer
<1>1. CASE Fail
  BY <1>1, DataFrom DEF Fail
<1>2. CASE /\ data' = RunNode(data, Node) /\ stage' = stage + 1
           /\ UNCHANGED <<table, chunk, call, phase>>
  <2>1. phase = "run" /\ stage <= Len(ns) /\ ns[stage].fusion = <<>>
    BY DEF RunDecoder, Turn, Node
  <2>2. /\ Layout(ns, pr, chunk.total, chunk.outs) /\ Fused(ns, pr)
        /\ stage \in 1..Len(ns)
        /\ stage + 1 \in Nat /\ stage + 1 >= 1 /\ stage + 1 <= Len(ns) + 1
        /\ DOMAIN data = DOMAIN pr /\ data \in [DOMAIN pr -> BOOLEAN]
    BY <2>1, AtTurn
  <2>3. data' = [q \in DOMAIN pr |-> (data[q] \/ q \in RegenSlots(ns[stage]))
                                       /\ q \notin InputSlots(ns[stage])]
    <3>1. Created(data, RegenSlots(ns[stage])) =
            [q \in DOMAIN pr |-> data[q] \/ q \in RegenSlots(ns[stage])]
      BY <2>2 DEF Created
    <3> QED BY <1>2, <3>1 DEF RunNode, Freed, Node
  <2>4. data' \in [DOMAIN pr -> BOOLEAN]
    BY <2>3
  <2>5. ~IsKid(ns[stage]) /\ ~IsParent(ns[stage])
    BY <2>1 DEF IsKid, IsParent
  <2>6. Group(ns, pr, stage) = {stage}
    BY <2>2, <2>5 DEF Group, ChildOf
  <2>7. ASSUME NEW q \in DOMAIN pr
        PROVE  data'[q] <=> There(ns, pr, stage + 1, q)
    <3>1. data[q] <=> There(ns, pr, stage, q)
      BY <2>1 DEF DataInv
    <3>2. There(ns, pr, stage + 1, q) <=>
            /\ There(ns, pr, stage, q) \/ q \in RegenSlots(ns[stage])
            /\ \A t \in Group(ns, pr, stage) : q \notin InputSlots(ns[t])
      BY <2>2, <2>5, ThereNext
    <3>3. data'[q] <=> (data[q] \/ q \in RegenSlots(ns[stage])) /\ q \notin InputSlots(ns[stage])
      BY <2>3
    <3> QED BY <2>6, <3>1, <3>2, <3>3
  <2>8. chunk' = chunk /\ phase' = "run" /\ stage' = stage + 1
    BY <1>2, <2>1
  <2> QED BY <2>2, <2>4, <2>7, <2>8 DEF DataInv
<1> QED BY <1>1, <1>2 DEF RunDecoder

LEMMA SkipChildData ==
    ASSUME ChunkInv, DataInv, SkipChild PROVE DataInv'
<1> DEFINE ns == chunk.nodes
           pr == chunk.producer
<1>1. phase = "run" /\ stage <= Len(ns) /\ IsKid(ns[stage])
  BY DEF SkipChild, Turn, Node, IsKid
<1>2. /\ Layout(ns, pr, chunk.total, chunk.outs) /\ Fused(ns, pr)
      /\ stage \in 1..Len(ns)
      /\ stage + 1 \in Nat /\ stage + 1 >= 1 /\ stage + 1 <= Len(ns) + 1
      /\ data \in [DOMAIN pr -> BOOLEAN]
  BY <1>1, AtTurn
<1>3. chunk' = chunk /\ phase' = "run" /\ stage' = stage + 1 /\ data' = data
  BY <1>1 DEF SkipChild
<1>4. ASSUME NEW q \in DOMAIN pr PROVE data[q] <=> There(ns, pr, stage + 1, q)
  <2>1. data[q] <=> There(ns, pr, stage, q)
    BY <1>1 DEF DataInv
  <2> QED BY <1>1, <1>2, <2>1, ThereSkip
<1> QED BY <1>2, <1>3, <1>4 DEF DataInv

LEMMA StartFusedData ==
    ASSUME ChunkInv, DataInv, StartFused PROVE DataInv'
<1> DEFINE ns == chunk.nodes
           pr == chunk.producer
<1>1. CASE Fail
  BY <1>1, DataFrom DEF Fail
<1>2. CASE ~Fail
  <2>1. phase = "run" /\ stage <= Len(ns) /\ IsParent(ns[stage])
    BY DEF StartFused, Turn, Node
  <2>2. /\ chunk' = chunk /\ phase' = "fused" /\ stage' = stage /\ data' = data
        /\ call'.kids = Append(Kids(Node.fusion[1], Node, pr), stage)
    BY <1>2 DEF StartFused
  <2>3. Node' = Node /\ Node = ns[stage]
    BY <2>2 DEF Node
  <2>4. \A q \in DOMAIN pr : data[q] <=> There(ns, pr, stage, q)
    BY <2>1 DEF DataInv
  <2>5. stage \in Nat /\ stage >= 1 /\ stage <= Len(ns) + 1 /\ data \in [DOMAIN pr -> BOOLEAN]
    BY <2>1 DEF DataInv
  <2> QED BY <2>1, <2>2, <2>3, <2>4, <2>5 DEF DataInv
<1> QED BY <1>1, <1>2

(* While a fused decoder is under way.                                     *)
LEMMA InCall ==
    ASSUME ChunkInv, DataInv, phase = "fused"
    PROVE  /\ Layout(chunk.nodes, chunk.producer, chunk.total, chunk.outs)
           /\ Fused(chunk.nodes, chunk.producer)
           /\ stage \in 1..Len(chunk.nodes) /\ IsParent(chunk.nodes[stage])
           /\ ~IsKid(chunk.nodes[stage]) /\ Node = chunk.nodes[stage]
           /\ stage + 1 \in Nat /\ stage + 1 >= 1 /\ stage + 1 <= Len(chunk.nodes) + 1
           /\ DOMAIN data = DOMAIN chunk.producer /\ data \in [DOMAIN chunk.producer -> BOOLEAN]
           /\ \A i \in DOMAIN call.kids :
                /\ InputSlots(Codec(i)) \subseteq Touched
                /\ RegenSlots(Codec(i)) \subseteq Touched
           /\ \A q : q \in Consumed(call.kids) <=>
                \E t \in Group(chunk.nodes, chunk.producer, stage) :
                  q \in InputSlots(chunk.nodes[t])
<1> DEFINE ns == chunk.nodes
           pr == chunk.producer
<1>1. stage <= Len(ns) /\ IsParent(ns[stage]) /\ Node = ns[stage]
      /\ call.kids = Append(Kids(ns[stage].fusion[1], ns[stage], pr), stage)
  BY DEF DataInv, Node
<1>2. /\ Layout(ns, pr, chunk.total, chunk.outs) /\ Fused(ns, pr)
      /\ stage \in 1..Len(ns)
      /\ stage + 1 \in Nat /\ stage + 1 >= 1 /\ stage + 1 <= Len(ns) + 1
      /\ DOMAIN data = DOMAIN pr /\ data \in [DOMAIN pr -> BOOLEAN]
  BY <1>1, AtTurn
<1> DEFINE kids == call.kids
<1>3. /\ \A i \in DOMAIN kids : kids[i] \in Group(ns, pr, stage)
      /\ \A t \in Group(ns, pr, stage) : \E i \in DOMAIN kids : kids[i] = t
  <2> DEFINE total == chunk.total
             outs == chunk.outs
  <2>1. /\ Layout(ns, pr, total, outs) /\ Fused(ns, pr) /\ stage \in 1..Len(ns)
        /\ IsParent(ns[stage]) /\ kids = CallOf(ns, pr, stage)
    BY <1>1, <1>2 DEF CallOf
  <2> HIDE DEF ns, pr, total, outs, kids
  <2>2. IsGroup(kids, Group(ns, pr, stage))
    BY <2>1, CallIsGroup
  <2> QED BY <2>2 DEF IsGroup
<1> HIDE DEF kids
<1>4. Consumed(kids) = UNION {InputSlots(ns[kids[i]]) : i \in DOMAIN kids}
  BY DEF Consumed
<1>5. \A q : q \in Consumed(kids) <=> \E i \in DOMAIN kids : q \in InputSlots(ns[kids[i]])
  BY <1>4
<1>6. \A q : q \in Consumed(kids) <=>
        \E t \in Group(ns, pr, stage) : q \in InputSlots(ns[t])
  BY <1>3, <1>5 DEF kids
<1>7. ASSUME NEW i \in DOMAIN call.kids
      PROVE  InputSlots(Codec(i)) \subseteq Touched /\ RegenSlots(Codec(i)) \subseteq Touched
  <2> DEFINE t == call.kids[i]
  <2>1. t \in Group(ns, pr, stage) /\ Codec(i) = ns[t]
    BY <1>3 DEF Codec, kids
  <2> HIDE DEF t
  <2>2. InputSlots(ns[t]) \subseteq Consumed(kids)
    BY <1>6, <2>1
  <2>3. CASE t = stage
    BY <1>1, <2>1, <2>2, <2>3 DEF Touched, kids
  <2>4. CASE ChildOf(ns, pr, t, stage)
    <3>1. RegenSlots(ns[t]) \subseteq InputSlots(ns[stage])
      BY <1>2, <2>4, KidFacts
    <3>2. stage \in Group(ns, pr, stage)
      BY <1>2 DEF Group
    <3>3. InputSlots(ns[stage]) \subseteq Consumed(kids)
      BY <1>6, <3>2
    <3> QED BY <2>1, <2>2, <3>1, <3>3 DEF Touched, kids
  <2> QED BY <2>1, <2>3, <2>4 DEF Group
<1>8. ~IsKid(ns[stage])
  BY <1>1 DEF IsKid
<1> QED BY <1>1, <1>2, <1>6, <1>7, <1>8 DEF kids

(* The fused decoder changes what it may change.                           *)
LEMMA InCallData ==
    ASSUME ChunkInv, DataInv, phase = "fused", UNCHANGED <<table, chunk, stage, call, phase>>,
           data' \in [DOMAIN chunk.producer -> BOOLEAN],
           \A q \in DOMAIN chunk.producer : q \notin Touched => (data'[q] <=> data[q])
    PROVE  DataInv'
<1>1. Touched' = Touched /\ Node' = Node
  BY DEF Touched, Consumed, Node
<1>2. chunk' = chunk /\ phase' = "fused" /\ stage' = stage /\ call' = call
  OBVIOUS
<1>3. /\ stage \in Nat /\ stage >= 1 /\ stage <= Len(chunk.nodes) + 1
      /\ stage <= Len(chunk.nodes) /\ IsParent(Node)
      /\ call.kids = Append(Kids(Node.fusion[1], Node, chunk.producer), stage)
  BY DEF DataInv
<1>4. \A q \in DOMAIN chunk.producer : q \notin Touched =>
        (data'[q] <=> There(chunk.nodes, chunk.producer, stage, q))
  BY DEF DataInv
<1> QED BY <1>1, <1>2, <1>3, <1>4 DEF DataInv

LEMMA RunCodecData ==
    ASSUME ChunkInv, DataInv, NEW i \in DOMAIN call.kids, RunCodec(i) \/ SupplyChild(i)
    PROVE  DataInv'
<1> DEFINE pr == chunk.producer
           R == RegenSlots(Codec(i))
           I == InputSlots(Codec(i))
<1>1. phase = "fused" /\ UNCHANGED <<table, chunk, stage, call, phase>>
  BY DEF RunCodec, SupplyChild
<1>2. /\ I \subseteq Touched /\ R \subseteq Touched
      /\ DOMAIN data = DOMAIN pr /\ data \in [DOMAIN pr -> BOOLEAN]
  BY <1>1, InCall
<1> HIDE DEF R, I
<1>3. CASE RunCodec(i)
  <2>1. Created(data, R) = [q \in DOMAIN pr |-> data[q] \/ q \in R]
    BY <1>2 DEF Created
  <2>2. data' = [q \in DOMAIN pr |-> (data[q] \/ q \in R) /\ q \notin I]
    BY <1>3, <2>1 DEF RunCodec, RunNode, Freed, R, I
  <2>3. data' \in [DOMAIN pr -> BOOLEAN]
    BY <2>2
  <2>4. \A q \in DOMAIN pr : q \notin Touched => (data'[q] <=> data[q])
    BY <1>2, <2>2
  <2> QED BY <1>1, <2>3, <2>4, InCallData
<1>4. CASE SupplyChild(i)
  <2>1. data' = [q \in DOMAIN pr |-> data[q] \/ q \in R]
    BY <1>2, <1>4 DEF SupplyChild, Created, R
  <2>3. data' \in [DOMAIN pr -> BOOLEAN]
    BY <2>1
  <2>4. \A q \in DOMAIN pr : q \notin Touched => (data'[q] <=> data[q])
    BY <1>2, <2>1
  <2> QED BY <1>1, <2>3, <2>4, InCallData
<1> QED BY <1>3, <1>4

LEMMA EndFusedData ==
    ASSUME ChunkInv, DataInv, EndFused PROVE DataInv'
<1> DEFINE ns == chunk.nodes
           pr == chunk.producer
           C == Consumed(call.kids)
<1>1. CASE Fail
  BY <1>1, DataFrom DEF Fail
<1>2. CASE /\ data' = Freed(Created(data, RegenSlots(Node)), C)
           /\ stage' = stage + 1 /\ call' = NoCall /\ phase' = "run"
           /\ UNCHANGED <<table, chunk>>
  <2>1. phase = "fused"
    BY DEF EndFused
  <2>2. /\ Layout(ns, pr, chunk.total, chunk.outs) /\ Fused(ns, pr)
        /\ stage \in 1..Len(ns) /\ ~IsKid(ns[stage]) /\ Node = ns[stage]
        /\ stage + 1 \in Nat /\ stage + 1 >= 1 /\ stage + 1 <= Len(ns) + 1
        /\ DOMAIN data = DOMAIN pr /\ data \in [DOMAIN pr -> BOOLEAN]
        /\ \A q : q \in C <=> \E t \in Group(ns, pr, stage) : q \in InputSlots(ns[t])
    BY <2>1, InCall
  <2> HIDE DEF C
  <2>3. data' = [q \in DOMAIN pr |-> (data[q] \/ q \in RegenSlots(ns[stage])) /\ q \notin C]
    <3>1. Created(data, RegenSlots(ns[stage])) =
            [q \in DOMAIN pr |-> data[q] \/ q \in RegenSlots(ns[stage])]
      BY <2>2 DEF Created
    <3> QED BY <1>2, <2>2, <3>1 DEF Freed
  <2>4. data' \in [DOMAIN pr -> BOOLEAN]
    BY <2>3
  <2>5. ASSUME NEW q \in DOMAIN pr
        PROVE  data'[q] <=> There(ns, pr, stage + 1, q)
    <3>1. There(ns, pr, stage + 1, q) <=>
            /\ There(ns, pr, stage, q) \/ q \in RegenSlots(ns[stage])
            /\ \A t \in Group(ns, pr, stage) : q \notin InputSlots(ns[t])
      BY <2>2, ThereNext
    <3>2. data'[q] <=> (data[q] \/ q \in RegenSlots(ns[stage])) /\ q \notin C
      BY <2>3
    <3>3. q \notin C /\ q \notin RegenSlots(ns[stage]) =>
            (data[q] <=> There(ns, pr, stage, q))
      BY <2>1, <2>2 DEF DataInv, Touched, C
    <3> QED BY <2>2, <3>1, <3>2, <3>3
  <2>6. chunk' = chunk
    BY <1>2
  <2> QED BY <1>2, <2>2, <2>4, <2>5, <2>6 DEF DataInv
<1> QED BY <1>1, <1>2 DEF EndFused

LEMMA EndChunkData ==
    ASSUME ChunkInv, DataInv, EndChunk PROVE DataInv'
<1>1. /\ phase = "run" /\ stage > Len(chunk.nodes) /\ phase' = "done"
      /\ UNCHANGED <<table, chunk, data, stage, call>>
  BY DEF EndChunk
<1>2. Len(chunk.nodes) \in Nat
  BY NodesTyped DEF ChunkInv, Layout
<1>3. stage \in Nat /\ stage >= 1 /\ stage <= Len(chunk.nodes) + 1
      /\ data \in [DOMAIN chunk.producer -> BOOLEAN]
      /\ \A q \in DOMAIN chunk.producer :
           data[q] <=> There(chunk.nodes, chunk.producer, stage, q)
  BY <1>1 DEF DataInv
<1>4. stage = Len(chunk.nodes) + 1
  BY <1>1, <1>2, <1>3
<1> QED BY <1>1, <1>3, <1>4 DEF DataInv

-----------------------------------------------------------------------------
(* The invariant is inductive.                                             *)

LEMMA InitInv == Init => Inv
<1> SUFFICES ASSUME Init PROVE Inv
  OBVIOUS
<1>1. DataInv
  BY DEF Init, DataInv
<1> QED BY <1>1, InitTable, InitChunk DEF Inv

LEMMA TableStays == ASSUME TableInv, table' = table PROVE TableInv'
BY DEF TableInv, LookupFindsAll

LEMMA ChunkStays == ASSUME ChunkInv, chunk' = chunk PROVE ChunkInv'
BY DEF ChunkInv

LEMMA NextInv == Inv /\ [Next]_vars => Inv'
<1> SUFFICES ASSUME Inv, [Next]_vars PROVE Inv'
  OBVIOUS
<1> USE DEF Inv
<1>1. ASSUME NEW f \in Fusions, RegisterFusion(f) PROVE Inv'
  <2>1. UNCHANGED <<chunk, data, stage, call, phase>>
    BY <1>1 DEF RegisterFusion
  <2> QED BY <1>1, <2>1, RegisterTable, ChunkStays, DataStays
<1>2. CASE ClearFusions
  <2>1. UNCHANGED <<chunk, data, stage, call, phase>>
    BY <1>2 DEF ClearFusions
  <2> QED BY <1>2, <2>1, ClearTable, ChunkStays, DataStays
<1>3. CASE BeginChunk
  <2>1. phase' = "header" /\ table' = table
    BY <1>3 DEF BeginChunk
  <2> QED BY <1>3, <2>1, TableStays, BeginChunkInv, DataFrom
<1>4. CASE AddTransform
  <2>1. table' = table /\ phase' \notin {"run", "fused", "done"}
    BY <1>4 DEF AddTransform, Fail
  <2> QED BY <1>4, <2>1, TableStays, AddTransformInv, DataFrom
<1>5. CASE FillStored
  <2>1. table' = table /\ chunk' = chunk
    BY <1>5 DEF FillStored, Fail
  <2> QED BY <1>5, <2>1, TableStays, ChunkStays, FillStoredData
<1>6. CASE RunDecoder
  <2>1. table' = table /\ chunk' = chunk
    BY <1>6 DEF RunDecoder, Fail
  <2> QED BY <1>6, <2>1, TableStays, ChunkStays, RunDecoderData
<1>7. CASE SkipChild
  <2>1. table' = table /\ chunk' = chunk
    BY <1>7 DEF SkipChild
  <2> QED BY <1>7, <2>1, TableStays, ChunkStays, SkipChildData
<1>8. CASE StartFused
  <2>1. table' = table /\ chunk' = chunk
    BY <1>8 DEF StartFused, Fail
  <2> QED BY <1>8, <2>1, TableStays, ChunkStays, StartFusedData
<1>9. ASSUME NEW i \in DOMAIN call.kids, RunCodec(i) \/ SupplyChild(i) PROVE Inv'
  <2>1. table' = table /\ chunk' = chunk
    BY <1>9 DEF RunCodec, SupplyChild
  <2> QED BY <1>9, <2>1, TableStays, ChunkStays, RunCodecData
<1>10. CASE EndFused
  <2>1. table' = table /\ chunk' = chunk
    BY <1>10 DEF EndFused, Fail
  <2> QED BY <1>10, <2>1, TableStays, ChunkStays, EndFusedData
<1>11. CASE EndChunk
  <2>1. table' = table /\ chunk' = chunk
    BY <1>11 DEF EndChunk
  <2> QED BY <1>11, <2>1, TableStays, ChunkStays, EndChunkData
<1>12. CASE UNCHANGED vars
  <2>1. table' = table /\ UNCHANGED <<chunk, data, stage, call, phase>>
    BY <1>12 DEF vars
  <2> QED BY <2>1, TableStays, ChunkStays, DataStays
<1> QED
  BY <1>1, <1>2, <1>3, <1>4, <1>5, <1>6, <1>7, <1>8, <1>9, <1>10, <1>11, <1>12 DEF Next

(* The invariant holds always: the table as registrations and clearings    *)
(* leave it, the marks of a chunk, and which streams are there.            *)
THEOREM Inductive == Spec => []Inv
<1>1. Init => Inv
  BY InitInv
<1>2. Inv /\ [Next]_vars => Inv'
  BY NextInv
<1> QED BY <1>1, <1>2, PTL DEF Spec

(* ZL_DecoderFusionState_buildMap() finds all of a parent's fusions, in    *)
(* the order of registration, after any registrations and clearings.       *)
THEOREM MapFindsFusions == Spec => []LookupFindsAll
<1>1. Inv => LookupFindsAll
  BY DEF Inv, TableInv
<1> QED BY <1>1, Inductive, PTL

(* A fused child is wired as the pattern says, the first stream included,  *)
(* which ZL_DecoderFusionDesc_fuseIfMatches() never compares.              *)
THEOREM FusionsMatch == Spec => []FusedAsWired
<1>1. ASSUME Inv PROVE FusedAsWired
  <2> DEFINE ns == chunk.nodes
             pr == chunk.producer
  <2>1. Layout(ns, pr, chunk.total, chunk.outs) /\ Fused(ns, pr)
    BY <1>1 DEF Inv, ChunkInv
  <2>2. ns \in Seq(NodeType) /\ Len(ns) \in Nat /\ DOMAIN ns = 1..Len(ns)
    BY <2>1, NodesTyped DEF Layout
  <2> SUFFICES ASSUME NEW t \in Parents, NEW c \in DOMAIN ns[t].fusion[1].children
               PROVE  ns[KidsOf(t)[c]].regens =
                        [r \in DOMAIN ns[t].fusion[1].children[c].indices |->
                           InputSlot(ns[t], ns[t].fusion[1].children[c].indices[r])]
    BY DEF FusedAsWired
  <2> DEFINE is == ns[t].fusion[1].children[c].indices
             k == KidAt(ns, pr, t, c)
  <2>3. t \in 1..Len(ns) /\ IsParent(ns[t])
    BY <2>2 DEF Parents
  <2>4. KidsOf(t)[c] = k
    BY DEF KidsOf, Kids, KidAt
  <2>5. is \in Seq(Nat) /\ Len(is) \in Nat
    BY <2>1, <2>3, ParentFusion, ValidChildren
  <2>6. /\ k \in 1..(t - 1) /\ Len(ns[k].regens) = Len(is)
        /\ \A r \in 1..Len(is) : ns[k].regens[r] = InputSlot(ns[t], is[r])
    BY <2>1, <2>3 DEF Fused, Wired
  <2>7. k \in 1..Len(ns)
    BY <2>2, <2>3, <2>6
  <2>8. ns[k].regens \in Seq(Nat)
    BY <2>2, <2>7, NodesTyped
  <2> HIDE DEF is, k
  <2>9. ns[k].regens = [r \in 1..Len(is) |-> ns[k].regens[r]] /\ DOMAIN is = 1..Len(is)
    BY <2>5, <2>6, <2>8
  <2>10. ns[k].regens = [r \in DOMAIN is |-> InputSlot(ns[t], is[r])]
    BY <2>6, <2>9
  <2> QED BY <2>4, <2>10 DEF is
<1> QED BY <1>1, Inductive, PTL

(* A decoder, fused or not, finds all of its inputs, and no stream where   *)
(* it makes one (DCTX_validateNodeInputs()).                               *)
THEOREM DecodersFindInputs == Spec => []InputsPresent
<1>1. ASSUME Inv PROVE InputsPresent
  <2> DEFINE ns == chunk.nodes
             pr == chunk.producer
             s == stage
             G == Group(ns, pr, s)
             kids == IF IsParent(Node) THEN {KidsOf(s)[c] : c \in DOMAIN KidsOf(s)} ELSE {}
             fed == UNION {RegenSlots(ns[t]) : t \in kids}
             needed == (UNION {InputSlots(ns[t]) : t \in kids \cup {s}}) \ fed
  <2> SUFFICES ASSUME Turn, Node.fusion = <<>> \/ IsParent(Node)
               PROVE  /\ \A q \in needed : data[q]
                      /\ \A q \in RegenSlots(Node) \cup fed : ~data[q]
    BY DEF InputsPresent
  <2>1. ChunkInv /\ DataInv /\ phase = "run" /\ s <= Len(ns) /\ Node = ns[s]
    BY <1>1 DEF Inv, Turn, Node
  <2>2. /\ Layout(ns, pr, chunk.total, chunk.outs) /\ Fused(ns, pr) /\ s \in 1..Len(ns)
        /\ Len(ns) \in Nat
    BY <2>1, AtTurn
  <2>3. \A t : t \in kids <=> ChildOf(ns, pr, t, s)
    <3>1. CASE IsParent(ns[s])
      <4>1. KidsOf(s) = [c \in DOMAIN ns[s].fusion[1].children |-> KidAt(ns, pr, s, c)]
        BY DEF KidsOf, Kids, KidAt
      <4>2. kids = {KidAt(ns, pr, s, c) : c \in DOMAIN ns[s].fusion[1].children}
        BY <2>1, <3>1, <4>1
      <4> QED BY <3>1, <4>2 DEF ChildOf
    <3>2. CASE ~IsParent(ns[s])
      BY <2>1, <3>2 DEF ChildOf
    <3> QED BY <3>1, <3>2
  <2>4. ~IsKid(ns[s])
    BY <2>1 DEF IsKid
  <2> HIDE DEF kids
  <2>5. \A t \in kids : t \in 1..Len(ns) /\ IsKid(ns[t]) /\ t \in G
    BY <2>2, <2>3, KidFacts DEF Group
  <2>6. s \in G
    BY <2>2 DEF Group
  <2>7. \A q \in DOMAIN pr : data[q] <=> There(ns, pr, s, q)
    BY <2>1 DEF DataInv
  <2>8. ASSUME NEW t \in 1..Len(ns), NEW q \in RegenSlots(ns[t]), t \in G PROVE ~data[q]
    <3>1. q \in DOMAIN pr /\ pr[q] = t
      BY <2>2, <2>8, ProducerOf
    <3>2. ~Ran(ns, pr, s, t) /\ t # STORE
      BY <2>2, <2>8, GroupWaits DEF STORE
    <3> QED BY <2>7, <3>1, <3>2 DEF There
  <2>9. \A q \in RegenSlots(Node) \cup fed : ~data[q]
    BY <2>1, <2>2, <2>5, <2>6, <2>8
  <2>10. ASSUME NEW t \in kids \cup {s}, NEW q \in InputSlots(ns[t]), q \notin fed PROVE data[q]
    <3>1. t \in 1..Len(ns) /\ t \in G
      BY <2>2, <2>5, <2>6
    <3>2. q \in DOMAIN pr
      BY <2>2, <3>1, InputsInside
    <3>3. \A v \in 1..Len(ns) : q \in InputSlots(ns[v]) => ~Ran(ns, pr, s, v)
      <4> SUFFICES ASSUME NEW v \in 1..Len(ns), q \in InputSlots(ns[v])
                   PROVE  ~Ran(ns, pr, s, v)
        OBVIOUS
      <4>1. v = t
        BY <2>2, <3>1, <2>10, InputsDisjoint
      <4> QED BY <2>2, <3>1, <4>1, GroupWaits
    <3>4. ASSUME pr[q] # STORE PROVE Ran(ns, pr, s, pr[q])
      <4> DEFINE u == pr[q]
      <4>1. u \in 1..Len(ns)
        <5>1. u \in 0..Len(ns)
          BY <2>2, <3>2 DEF Layout
        <5> QED BY <2>2, <3>4, <5>1 DEF STORE
      <4>2. q \in RegenSlots(ns[u])
        BY <2>2, <3>2, <4>1, ProducerOf
      <4> HIDE DEF u
      <4>3. u < t
        BY <2>2, <2>10, <3>1, <4>1, <4>2, ProducedBefore
      <4>4. t <= s /\ s \in Nat
        BY <2>2, <3>1, GroupWaits
      <4>5. u < s
        BY <2>2, <3>1, <4>1, <4>3, <4>4
      <4>6. ASSUME IsKid(ns[u]) PROVE FALSE
        <5>1. PICK p \in 1..Len(ns) : ChildOf(ns, pr, u, p)
          BY <2>2, <4>1, <4>6 DEF Fused
        <5>2. q \in InputSlots(ns[p])
          BY <2>2, <4>2, <5>1, KidFacts
        <5>3. p = t
          BY <2>2, <2>10, <3>1, <5>2, InputsDisjoint
        <5>4. IsParent(ns[t])
          BY <5>1, <5>3 DEF ChildOf
        <5>5. t = s
          BY <2>5, <5>4 DEF IsKid
        <5>6. u \in kids
          BY <2>3, <5>1, <5>3, <5>5
        <5> QED BY <2>10, <4>2, <5>6
      <4> QED BY <4>5, <4>6 DEF Ran, u
    <3>5. There(ns, pr, s, q)
      BY <3>3, <3>4 DEF There
    <3> QED BY <2>7, <3>2, <3>5
  <2> QED BY <2>9, <2>10
<1> QED BY <1>1, Inductive, PTL

(* When the chunk is decoded every output is there and every input of a    *)
(* transform was freed, whatever was fused.                                *)
THEOREM ChunksDecode == Spec => []ChunkDecoded
<1>1. ASSUME Inv PROVE ChunkDecoded
  <2> DEFINE ns == chunk.nodes
             pr == chunk.producer
  <2> SUFFICES ASSUME phase = "done", NEW q \in DOMAIN data
               PROVE  /\ q >= chunk.total - chunk.outs => data[q]
                      /\ q < Ends(ns) => ~data[q]
    BY DEF ChunkDecoded
  <2>1. /\ Layout(ns, pr, chunk.total, chunk.outs) /\ Fused(ns, pr)
        /\ stage = Len(ns) + 1 /\ data \in [DOMAIN pr -> BOOLEAN]
        /\ \A j \in DOMAIN pr : data[j] <=> There(ns, pr, stage, j)
    BY <1>1 DEF Inv, ChunkInv, DataInv
  <2>2. q \in DOMAIN pr
    BY <2>1
  <2>3. Len(ns) \in Nat /\ chunk.total \in Nat /\ chunk.outs \in Nat /\ q \in Nat
    BY <2>1, <2>2, NodesTyped DEF Layout
  <2>4. \A t \in 1..Len(ns) : Ran(ns, pr, stage, t)
    <3> SUFFICES ASSUME NEW t \in 1..Len(ns) PROVE Ran(ns, pr, stage, t)
      OBVIOUS
    <3>1. \A p \in 1..Len(ns) : p < stage
      BY <2>1, <2>3
    <3>2. IsKid(ns[t]) => \E p \in 1..Len(ns) : ChildOf(ns, pr, t, p)
      BY <2>1 DEF Fused
    <3> QED BY <3>1, <3>2 DEF Ran
  <2>5. ASSUME q >= chunk.total - chunk.outs PROVE data[q]
    <3>1. pr[q] \in 0..Len(ns)
      BY <2>1, <2>2 DEF Layout
    <3>2. pr[q] = STORE \/ pr[q] \in 1..Len(ns)
      BY <2>3, <3>1 DEF STORE
    <3>3. ASSUME NEW t \in 1..Len(ns), q \in InputSlots(ns[t]) PROVE FALSE
      <4>1. q + chunk.outs < chunk.total
        BY <2>1, <3>3, InputsInside
      <4> QED BY <2>3, <2>5, <4>1
    <3>4. There(ns, pr, stage, q)
      BY <2>4, <3>2, <3>3 DEF There
    <3> QED BY <2>1, <2>2, <3>4
  <2>6. ASSUME q < Ends(ns) PROVE ~data[q]
    <3>1. PICK t \in 1..Len(ns) : q \in InputSlots(ns[t])
      BY <2>1, <2>3, <2>6 DEF Layout
    <3>2. ~There(ns, pr, stage, q)
      BY <2>4, <3>1 DEF There
    <3> QED BY <2>1, <2>2, <3>2
  <2> QED BY <2>5, <2>6
<1> QED BY <1>1, Inductive, PTL

-----------------------------------------------------------------------------
(* The operators of the model.                                             *)

(* Inputs do not overlap, and come one after the other.                    *)
LEMMA CutsGrow ==
    ASSUME NEW c \in Cuts
    PROVE  /\ \A i \in 0..NbInputs : c[i] \in Nat
           /\ c[0] = 0
           /\ \A i, j \in 0..NbInputs : i <= j => c[i] <= c[j]
<1>1. /\ NbInputs \in Nat /\ MaxSize \in Nat
      /\ \A i \in 0..NbInputs : c[i] \in 0..(NbInputs * MaxSize)
      /\ c[0] = 0 /\ \A i \in 1..NbInputs : c[i - 1] <= c[i]
  BY AppendAssumption DEF Cuts, Inputs
<1>2. \A i \in 0..NbInputs : c[i] \in Nat
  <2>1. NbInputs * MaxSize \in Nat
    BY <1>1
  <2> QED BY <1>1, <2>1
<1>3. ASSUME NEW i \in 0..NbInputs, NEW j \in 0..NbInputs, i <= j, ~(c[i] <= c[j])
      PROVE  FALSE
  <2> DEFINE T == {k \in i..j : ~(c[i] <= c[k])}
  <2>1. T \subseteq Nat /\ j \in T
    BY <1>1, <1>3
  <2>2. PICK k \in T : \A y \in T : k <= y
    <3> HIDE DEF T
    <3> QED BY <2>1, LeastNat
  <2>3. k \in i..j /\ ~(c[i] <= c[k]) /\ k \in 0..NbInputs
    BY <1>1, <2>2
  <2>4. k # i
    BY <1>2, <2>3
  <2>5. k - 1 \in i..j /\ k - 1 \in 0..NbInputs /\ k \in 1..NbInputs /\ k - 1 < k
    BY <1>1, <2>3, <2>4
  <2>6. c[i] <= c[k - 1]
    BY <2>2, <2>3, <2>5
  <2>7. c[k - 1] <= c[k]
    BY <1>1, <2>5
  <2> QED BY <1>2, <2>3, <2>5, <2>6, <2>7
<1> QED BY <1>1, <1>2, <1>3

LEMMA SeqOfFunction ==
    ASSUME NEW n \in Nat, NEW x \in [1..n -> Nat]
    PROVE  x \in Seq(Nat) /\ Len(x) = n /\ DOMAIN x = 1..n
OBVIOUS

(* A write within the buffer.                                              *)
IsWrite(w, M, mem, ptr, n, bytes) ==
    /\ w \in [1..M -> Nat]
    /\ \A p \in 1..M : ptr <= p /\ p < ptr + n => w[p] = bytes[p - ptr + 1]
    /\ \A p \in 1..M : ~(ptr <= p /\ p < ptr + n) => w[p] = mem[p]

LEMMA WriteIs ==
    ASSUME NEW M \in Nat, NEW mem \in [1..M -> Nat], NEW ptr \in Nat, ptr >= 1,
           NEW n \in Nat, ptr + n <= M + 1, NEW bytes \in [1..n -> Nat]
    PROVE  IsWrite(Write(mem, ptr, bytes), M, mem, ptr, n, bytes)
<1> DEFINE places == ptr..(ptr + Len(bytes) - 1)
           w == Write(mem, ptr, bytes)
<1>1. Len(bytes) = n
  BY SeqOfFunction
<1>2. places = ptr..(ptr + n - 1) /\ \A p \in places : p \in 1..M
  BY <1>1
<1>3. (DOMAIN mem) \cup places = 1..M
  BY <1>2
<1>4. w = [p \in 1..M |-> IF p \in places THEN bytes[p - ptr + 1] ELSE mem[p]]
  BY <1>3 DEF Write
<1>5. \A p \in 1..M : p \in places <=> ptr <= p /\ p < ptr + n
  BY <1>2
<1> HIDE DEF places, w
<1>6. ASSUME NEW p \in 1..M
      PROVE  /\ ptr <= p /\ p < ptr + n => w[p] = bytes[p - ptr + 1] /\ w[p] \in Nat
             /\ ~(ptr <= p /\ p < ptr + n) => w[p] = mem[p] /\ w[p] \in Nat
  <2>1. CASE ptr <= p /\ p < ptr + n
    <3>1. w[p] = bytes[p - ptr + 1]
      BY <1>4, <1>5, <2>1
    <3>2. p - ptr + 1 \in 1..n
      BY <2>1
    <3> QED BY <2>1, <3>1, <3>2
  <2>2. CASE ~(ptr <= p /\ p < ptr + n)
    BY <1>4, <1>5, <2>2
  <2> QED BY <2>1, <2>2
<1>7. w \in [1..M -> Nat]
  BY <1>4, <1>6
<1> QED BY <1>6, <1>7 DEF w, IsWrite

LEMMA ContentIs ==
    ASSUME cut \in Cuts, before \in Nat,
           NEW i \in 1..(NbInputs + 1), NEW j \in 0..NbInputs, i - 1 <= j
    PROVE  /\ cut[j] - cut[i - 1] \in Nat
           /\ Content(i, j) \in [1..(cut[j] - cut[i - 1]) -> Nat]
           /\ Len(Content(i, j)) = cut[j] - cut[i - 1]
           /\ \A k \in 1..(cut[j] - cut[i - 1]) : Content(i, j)[k] = before + cut[i - 1] + k
<1>1. i - 1 \in 0..NbInputs /\ NbInputs \in Nat
  BY AppendAssumption
<1>2. cut[i - 1] \in Nat /\ cut[j] \in Nat /\ cut[i - 1] <= cut[j]
  BY <1>1, CutsGrow
<1> DEFINE n == cut[j] - cut[i - 1]
<1>3. n \in Nat
  BY <1>2
<1>4. Content(i, j) = [k \in 1..n |-> before + cut[i - 1] + k]
  BY DEF Content
<1> HIDE DEF n
<1>5. Content(i, j) \in [1..n -> Nat] /\ \A k \in 1..n : Content(i, j)[k] = before + cut[i - 1] + k
  BY <1>2, <1>3, <1>4
<1>6. Len(Content(i, j)) = n
  BY <1>3, <1>5, SeqOfFunction
<1> QED BY <1>3, <1>5, <1>6 DEF n

-----------------------------------------------------------------------------
(* The invariant of the optimization's state s over a buffer of M bytes.   *)

Records(M) ==
    [mem : [1..M -> Nat], head : Nat, tail : Nat, headPtr : Nat, tailPtr : Nat,
     data : [Inputs -> Stream]]

(* Where the head and the tail are, what is in them, and which inputs were *)
(* moved.                                                                  *)
Ranges(s, M) ==
    /\ 1 <= s.head /\ s.head <= s.tail /\ s.tail <= NbInputs + 1
    /\ s.headPtr = before + cut[s.head - 1] + 1
    /\ s.tailPtr + cut[NbInputs] = M + 1 + cut[s.tail - 1]
    /\ s.headPtr <= s.tailPtr
Bytes(s, M) ==
    \A p \in 1..M :
      /\ p < s.headPtr => s.mem[p] = p
      /\ s.tailPtr <= p => s.mem[p] + M = p + before + cut[NbInputs]
Moved(s) == \A i \in Inputs : s.data[i].is = "freed" <=> i < s.head \/ s.tail <= i

(* A stream written in place is the next of the head, within the gap and,  *)
(* once committed, all there.                                              *)
InPlaceOK(s, M) ==
    \A i \in Inputs : s.data[i].ptr # 0 =>
      /\ i = s.head /\ s.data[i].ptr = s.headPtr
      /\ s.data[i].is \in {"created", "committed"}
      /\ s.data[i].is = "created" => Size(i) <= s.data[i].capacity /\ s.data[i].capacity <= Gap(s)
      /\ s.data[i].is = "committed" =>
           /\ Size(i) <= Gap(s)
           /\ \A p \in 1..M : s.headPtr <= p /\ p < s.headPtr + Size(i) => s.mem[p] = p

Good(s, M) ==
    /\ s \in Records(M) /\ Ranges(s, M) /\ Bytes(s, M) /\ Moved(s) /\ InPlaceOK(s, M)

(* Whether the inputs may be moved: nothing is being written in place.     *)
Settled(s) == \A i \in Inputs : s.data[i].is = "created" => s.data[i].ptr = 0

(* How far CommitInputs() goes.                                            *)
Waiting(s) == {i \in s.head..(s.tail - 1) : ~Ready(s, i)}
HeadOf(s) == Min({s.tail} \cup Waiting(s))
TailOf(s) == Max({HeadOf(s)} \cup {i + 1 : i \in Waiting(s)})

LEMMA HowFar ==
    ASSUME NEW s, s.head \in Nat, s.tail \in Nat, s.head <= s.tail
    PROVE  /\ HeadOf(s) \in Nat /\ s.head <= HeadOf(s) /\ HeadOf(s) <= TailOf(s)
           /\ TailOf(s) \in Nat /\ TailOf(s) <= s.tail
           /\ \A i \in Nat : s.head <= i /\ i < HeadOf(s) => Ready(s, i)
           /\ \A i \in Nat : TailOf(s) <= i /\ i < s.tail => Ready(s, i)
           /\ HeadOf(s) < TailOf(s) => HeadOf(s) < s.tail /\ ~Ready(s, HeadOf(s))
           /\ s.head < s.tail /\ ~Ready(s, s.head) => HeadOf(s) = s.head
<1> DEFINE W == Waiting(s)
           h == HeadOf(s)
           T == {h} \cup {i + 1 : i \in W}
           t == TailOf(s)
<1>1. /\ \A i \in W : i \in Nat /\ s.head <= i /\ i < s.tail /\ ~Ready(s, i)
      /\ \A i \in Nat : s.head <= i /\ i < s.tail /\ ~Ready(s, i) => i \in W
  BY DEF Waiting
<1>2. h = Min({s.tail} \cup W)
  BY DEF HeadOf
<1>3. t = Max(T)
  BY DEF TailOf
<1> HIDE DEF W, h, t
<1>4. h \in {s.tail} \cup W /\ \A y \in {s.tail} \cup W : h <= y
  <2>1. {s.tail} \cup W \subseteq Nat /\ {s.tail} \cup W # {}
    BY <1>1
  <2> QED BY <1>2, <2>1, MinIs
<1>5. h \in Nat /\ s.head <= h /\ h <= s.tail
  BY <1>1, <1>4
<1>6. T \subseteq Nat /\ T # {} /\ \A x \in T : x <= s.tail
  BY <1>1, <1>5
<1>7. t \in T /\ \A y \in T : y <= t
  <2> HIDE DEF T
  <2> QED BY <1>3, <1>6, MaxIs
<1>8. t \in Nat /\ h <= t /\ t <= s.tail
  BY <1>5, <1>6, <1>7
<1>9. \A i \in Nat : s.head <= i /\ i < h => Ready(s, i)
  BY <1>1, <1>4, <1>5
<1>10. \A i \in Nat : t <= i /\ i < s.tail => Ready(s, i)
  <2> SUFFICES ASSUME NEW i \in Nat, t <= i, i < s.tail, ~Ready(s, i) PROVE FALSE
    OBVIOUS
  <2>1. i \in W
    BY <1>1, <1>5, <1>8
  <2>2. i + 1 \in T
    BY <2>1
  <2> QED BY <1>7, <1>8, <2>2
<1>11. h < t => h < s.tail /\ ~Ready(s, h)
  <2>1. h < t => h < s.tail
    BY <1>5, <1>8
  <2>2. h < s.tail => h \in W
    BY <1>4, <1>5
  <2> QED BY <1>1, <2>1, <2>2
<1>12. s.head < s.tail /\ ~Ready(s, s.head) => h = s.head
  <2>1. s.head < s.tail /\ ~Ready(s, s.head) => s.head \in W
    BY <1>1
  <2> QED BY <1>4, <1>5, <2>1
<1> QED BY <1>5, <1>8, <1>9, <1>10, <1>11, <1>12 DEF h, t

(* What moving the inputs that are ready gives: an error only if the chunk *)
(* does not fit, and otherwise a state with nothing in place.              *)
Moves(s, c, M) ==
    /\ ~Failed(c) /\ Good(c, M)
    /\ \A i \in Inputs :
         /\ c.data[i].ptr = 0
         /\ c.data[i] = s.data[i] \/ (s.data[i].is = "committed" /\ c.data[i] = FreedStream)
    /\ s.head < s.tail /\ ~Ready(s, s.head) => c.head = s.head
    /\ c.head < c.tail => c.head < s.tail /\ ~Ready(s, c.head)

LEMMA Indexes ==
    ASSUME NEW n \in Nat, NEW a \in Nat, NEW h \in Nat, NEW t \in Nat, NEW b \in Nat,
           1 <= a, a <= h, h <= t, t <= b, b <= n + 1
    PROVE  /\ a - 1 \in 0..n /\ h - 1 \in 0..n /\ t - 1 \in 0..n /\ b - 1 \in 0..n /\ n \in 0..n
           /\ a - 1 <= h - 1 /\ h - 1 <= t - 1 /\ t - 1 <= b - 1 /\ b - 1 <= n
           /\ a \in 1..(n + 1) /\ t \in 1..(n + 1)
OBVIOUS

(* Where the head, at hp, and the tail, at tp, come to lie in a buffer of  *)
(* M bytes when the inputs between the cuts ca and cb and between cc and   *)
(* cd are moved to them, e bytes of the first ones being there already.    *)
PlacesAre(bf, M, hp, tp, e, ca, cb, cc, cd, cz, x, y, n, m, q) ==
    /\ bf \in Nat /\ M \in Nat /\ hp \in Nat /\ tp \in Nat /\ e \in Nat
    /\ ca \in Nat /\ cb \in Nat /\ cc \in Nat /\ cd \in Nat /\ cz \in Nat
    /\ ca <= cb /\ cb <= cc /\ cc <= cd /\ cd <= cz
    /\ hp = bf + ca + 1 /\ tp + cz = M + 1 + cd /\ e <= cb - ca
    /\ (cb - ca) + (cd - cc) <= tp - hp
    /\ x = hp + (cb - ca) /\ y = tp - (cd - cc) /\ n = (cb - ca) - e /\ m = cd - cc /\ q = hp + e

LEMMA Places ==
    ASSUME NEW bf, NEW M, NEW hp, NEW tp, NEW e, NEW ca, NEW cb, NEW cc, NEW cd, NEW cz,
           NEW x, NEW y, NEW n, NEW m, NEW q,
           PlacesAre(bf, M, hp, tp, e, ca, cb, cc, cd, cz, x, y, n, m, q)
    PROVE  /\ x \in Nat /\ y \in Nat /\ x <= y /\ x >= 1 /\ y >= 1
           /\ tp <= M + 1 /\ hp <= x /\ y <= tp /\ x <= M + 1
           /\ x = bf + cb + 1 /\ y + cz = M + 1 + cc
           /\ n \in Nat /\ q \in Nat /\ q >= 1 /\ q + n = x
           /\ m \in Nat /\ y + m = tp /\ q <= x
           /\ \A p \in 1..M : q <= p /\ p < x =>
                 p - q + 1 \in 1..n /\ bf + ca + (e + (p - q + 1)) = p
           /\ \A p \in 1..M : y <= p /\ p < tp =>
                 p - y + 1 \in 1..m /\ (bf + cc + (p - y + 1)) + M = p + bf + cz
<1> USE DEF PlacesAre
<1>1. /\ x \in Nat /\ y \in Nat /\ x <= y /\ x >= 1 /\ y >= 1
      /\ tp <= M + 1 /\ hp <= x /\ y <= tp /\ x <= M + 1
  OBVIOUS
<1>2. /\ x = bf + cb + 1 /\ y + cz = M + 1 + cc
      /\ n \in Nat /\ q \in Nat /\ q >= 1 /\ q + n = x
      /\ m \in Nat /\ y + m = tp /\ q <= x
  OBVIOUS
<1>3. ASSUME NEW p \in 1..M, q <= p, p < x
      PROVE  p - q + 1 \in 1..n /\ bf + ca + (e + (p - q + 1)) = p
  BY <1>3
<1>4. ASSUME NEW p \in 1..M, y <= p, p < tp
      PROVE  p - y + 1 \in 1..m /\ (bf + cc + (p - y + 1)) + M = p + bf + cz
  BY <1>4
<1> QED BY <1>1, <1>2, <1>3, <1>4

(* Inputs that do not fit between the head and the tail leave no room for  *)
(* all of them.                                                            *)
LEMMA NoRoom ==
    ASSUME NEW bf \in Nat, NEW M \in Nat, NEW hp \in Nat, NEW tp \in Nat, NEW ca \in Nat,
           NEW cb \in Nat, NEW cc \in Nat, NEW cd \in Nat, NEW cz \in Nat,
           cb <= cc, hp = bf + ca + 1, tp + cz = M + 1 + cd,
           (cb - ca) + (cd - cc) > tp - hp
    PROVE  M < bf + cz
OBVIOUS

(* The end of a sequence of n numbers, after the first e.                  *)
RestOf(f, e, n) == SubSeq(f, e + 1, n)
LEMMA RestIs ==
    ASSUME NEW n \in Nat, NEW f \in [1..n -> Nat], NEW e \in Nat, e <= n
    PROVE  /\ RestOf(f, e, n) \in [1..(n - e) -> Nat]
           /\ \A k \in 1..(n - e) : RestOf(f, e, n)[k] = f[e + k]
<1>1. f \in Seq(Nat) /\ Len(f) = n
  BY SeqOfFunction
<1> DEFINE g == RestOf(f, e, n)
           m == n - e
<1>2. g \in Seq(Nat) /\ Len(g) = m
  BY <1>1 DEF RestOf
<1>3. \A k \in 1..m : g[k] = f[e + k]
  BY <1>1 DEF RestOf
<1>4. \A k \in 1..m : e + k \in 1..n
  OBVIOUS
<1>5. DOMAIN g = 1..m /\ g = [k \in DOMAIN g |-> g[k]]
  BY <1>2
<1> HIDE DEF g, m
<1>6. \A k \in 1..m : g[k] \in Nat
  BY <1>3, <1>4
<1>7. g \in [1..m -> Nat]
  BY <1>5, <1>6
<1> QED BY <1>3, <1>7 DEF g, m

LEMMA CommitMoves ==
    ASSUME cut \in Cuts, before \in Nat, NEW M \in Nat, NEW s, Good(s, M), Settled(s),
           NEW c, c = CommitInputs(s)
    PROVE  \/ Failed(c) /\ M < before + cut[NbInputs]
           \/ Moves(s, c, M)
<1> DEFINE h == HeadOf(s)
           t == TailOf(s)
           ca == cut[s.head - 1]
           cb == cut[h - 1]
           cc == cut[t - 1]
           cd == cut[s.tail - 1]
           cz == cut[NbInputs]
           front == Content(s.head, h - 1)
           back == Content(t, s.tail - 1)
           e == IF s.head < h /\ s.data[s.head].ptr = s.headPtr THEN Size(s.head) ELSE 0
           copied == SubSeq(front, e + 1, Len(front))
           mem1 == Write(s.mem, s.headPtr + e, copied)
           mem2 == Write(mem1, s.tailPtr - Len(back), back)
           dat == [i \in Inputs |->
                     IF i \in (s.head..(h - 1)) \cup (t..(s.tail - 1)) THEN FreedStream ELSE s.data[i]]
<1>0. NbInputs \in Nat
  BY AppendAssumption
<1>1. /\ s.mem \in [1..M -> Nat] /\ s.head \in Nat /\ s.tail \in Nat /\ s.headPtr \in Nat
      /\ s.tailPtr \in Nat /\ s.data \in [Inputs -> Stream]
  BY DEF Good, Records
<1>2. /\ 1 <= s.head /\ s.head <= s.tail /\ s.tail <= NbInputs + 1
      /\ s.headPtr = before + ca + 1 /\ s.tailPtr + cz = M + 1 + cd /\ s.headPtr <= s.tailPtr
  BY DEF Good, Ranges
<1>3. /\ h \in Nat /\ s.head <= h /\ h <= t /\ t \in Nat /\ t <= s.tail
      /\ \A i \in Nat : s.head <= i /\ i < h => Ready(s, i)
      /\ \A i \in Nat : t <= i /\ i < s.tail => Ready(s, i)
      /\ h < t => h < s.tail /\ ~Ready(s, h)
      /\ s.head < s.tail /\ ~Ready(s, s.head) => h = s.head
  BY <1>1, <1>2, HowFar
<1>4. c = IF TooLarge(s, Len(front) + Len(back)) THEN Fails(s)
          ELSE [mem |-> mem2, head |-> h, tail |-> t, headPtr |-> s.headPtr + Len(front),
                tailPtr |-> s.tailPtr - Len(back), data |-> dat]
  BY DEF CommitInputs, HeadOf, TailOf, Waiting
<1> HIDE DEF h, t
<1>5. /\ s.head - 1 \in 0..NbInputs /\ h - 1 \in 0..NbInputs /\ t - 1 \in 0..NbInputs
      /\ s.tail - 1 \in 0..NbInputs /\ NbInputs \in 0..NbInputs
      /\ s.head - 1 <= h - 1 /\ h - 1 <= t - 1 /\ t - 1 <= s.tail - 1 /\ s.tail - 1 <= NbInputs
      /\ s.head \in 1..(NbInputs + 1) /\ t \in 1..(NbInputs + 1)
  <2> HIDE DEF ca, cd, cz
  <2>1. s.head \in Nat /\ s.tail \in Nat /\ 1 <= s.head /\ s.tail <= NbInputs + 1
    BY <1>1, <1>2
  <2>2. h \in Nat /\ t \in Nat /\ s.head <= h /\ h <= t /\ t <= s.tail
    BY <1>3
  <2> QED BY <1>0, <2>1, <2>2, Indexes
<1>6. /\ ca \in Nat /\ cb \in Nat /\ cc \in Nat /\ cd \in Nat /\ cz \in Nat
      /\ ca <= cb /\ cb <= cc /\ cc <= cd /\ cd <= cz
  BY <1>5, CutsGrow
<1>7. /\ front \in [1..(cb - ca) -> Nat] /\ Len(front) = cb - ca
      /\ \A k \in 1..(cb - ca) : front[k] = before + ca + k
  BY <1>5, ContentIs
<1>8. /\ back \in [1..(cd - cc) -> Nat] /\ Len(back) = cd - cc
      /\ \A k \in 1..(cd - cc) : back[k] = before + cc + k
  BY <1>5, ContentIs
<1>9. s.head < h => s.head \in Inputs /\ Size(s.head) \in Nat /\ Size(s.head) <= cb - ca
  <2> SUFFICES ASSUME s.head < h
               PROVE  s.head \in Inputs /\ Size(s.head) \in Nat /\ Size(s.head) <= cb - ca
    OBVIOUS
  <2>1. s.head \in 0..NbInputs /\ s.head <= h - 1 /\ s.head \in 1..NbInputs
    BY <1>1, <1>2, <1>3, <1>5
  <2>2. cut[s.head] \in Nat /\ ca <= cut[s.head] /\ cut[s.head] <= cb
    <3>1. s.head - 1 <= s.head
      BY <1>1
    <3> QED BY <1>5, <2>1, <3>1, CutsGrow
  <2> QED BY <1>6, <2>1, <2>2 DEF Size, Inputs
<1>10. e \in Nat /\ e <= cb - ca
  BY <1>6, <1>9
(* What was written in place is there.                                     *)
<1>11. \A p \in 1..M : s.headPtr <= p /\ p < s.headPtr + e => s.mem[p] = p
  <2>1. CASE s.head < h /\ s.data[s.head].ptr = s.headPtr
    <3>1. s.head \in Inputs /\ s.data[s.head].ptr # 0 /\ e = Size(s.head)
      BY <1>1, <1>2, <1>6, <1>9, <2>1
    <3>2. s.data[s.head].is = "committed"
      BY <1>1, <1>3, <2>1 DEF Ready
    <3> QED BY <3>1, <3>2 DEF Good, InPlaceOK
  <2>2. CASE ~(s.head < h /\ s.data[s.head].ptr = s.headPtr)
    <3>1. e = 0
      BY <2>2
    <3> HIDE DEF e
    <3> QED BY <1>1, <3>1
  <2> QED BY <2>1, <2>2
<1> HIDE DEF front, back, e
<1>12. CASE TooLarge(s, Len(front) + Len(back))
  <2>1. c.headPtr = 0
    <3>1. c = [s EXCEPT !.headPtr = 0] /\ s \in Records(M)
      BY <1>4, <1>12 DEF Fails, Good
    <3> QED BY <3>1 DEF Records
  <2>2. (cb - ca) + (cd - cc) > s.tailPtr - s.headPtr
    BY <1>7, <1>8, <1>12 DEF TooLarge, Gap
  <2>3. M < before + cz
    <3> HIDE DEF ca, cb, cc, cd, cz
    <3>1. s.headPtr \in Nat /\ s.tailPtr \in Nat
      BY <1>1
    <3>2. s.headPtr = before + ca + 1 /\ s.tailPtr + cz = M + 1 + cd
      BY <1>2
    <3>3. ca \in Nat /\ cb \in Nat /\ cc \in Nat /\ cd \in Nat /\ cz \in Nat /\ cb <= cc
      BY <1>6
    <3> QED BY <2>2, <3>1, <3>2, <3>3, NoRoom
  <2> QED BY <2>1, <2>3 DEF Failed
<1>13. CASE ~TooLarge(s, Len(front) + Len(back))
  <2>1. c = [mem |-> mem2, head |-> h, tail |-> t, headPtr |-> s.headPtr + (cb - ca),
             tailPtr |-> s.tailPtr - (cd - cc), data |-> dat]
    BY <1>4, <1>7, <1>8, <1>13
  <2>2. (cb - ca) + (cd - cc) <= s.tailPtr - s.headPtr
    <3>1. ~((cb - ca) + (cd - cc) > s.tailPtr - s.headPtr)
      BY <1>7, <1>8, <1>13 DEF TooLarge, Gap
    <3> HIDE DEF ca, cb, cc, cd, cz
    <3> QED BY <1>1, <1>6, <3>1
  <2> HIDE DEF ca, cb, cc, cd, cz
  <2> DEFINE x == s.headPtr + (cb - ca)
             y == s.tailPtr - (cd - cc)
             n == (cb - ca) - e
             m == cd - cc
             q == s.headPtr + e
  <2> HIDE DEF x, y, n, m, q
  <2>3. /\ x \in Nat /\ y \in Nat /\ x <= y /\ x >= 1 /\ y >= 1
        /\ s.tailPtr <= M + 1 /\ s.headPtr <= x /\ y <= s.tailPtr /\ x <= M + 1
        /\ x = before + cb + 1 /\ y + cz = M + 1 + cc
        /\ n \in Nat /\ q \in Nat /\ q >= 1 /\ q + n = x
        /\ m \in Nat /\ y + m = s.tailPtr /\ q <= x
        /\ \A p \in 1..M : q <= p /\ p < x =>
              p - q + 1 \in 1..n /\ before + ca + (e + (p - q + 1)) = p
        /\ \A p \in 1..M : y <= p /\ p < s.tailPtr =>
              p - y + 1 \in 1..m /\ (before + cc + (p - y + 1)) + M = p + before + cz
    <3>1. PlacesAre(before, M, s.headPtr, s.tailPtr, e, ca, cb, cc, cd, cz, x, y, n, m, q)
      BY <1>1, <1>2, <1>6, <1>10, <2>2 DEF PlacesAre, x, y, n, m, q
    <3> QED BY <3>1, Places
  <2>4. /\ copied \in [1..n -> Nat]
        /\ \A k \in 1..n : copied[k] = before + ca + (e + k)
    <3> DEFINE l == cb - ca
    <3>1. l \in Nat /\ e <= l /\ n = l - e /\ front \in [1..l -> Nat] /\ copied = RestOf(front, e, l)
      BY <1>6, <1>7, <1>10 DEF n, RestOf
    <3>2. \A k \in 1..l : front[k] = before + ca + k
      BY <1>7
    <3> HIDE DEF copied, l
    <3>3. copied \in [1..n -> Nat] /\ \A k \in 1..n : copied[k] = front[e + k]
      BY <1>10, <3>1, RestIs
    <3>4. \A k \in 1..n : e + k \in 1..l
      BY <1>10, <3>1
    <3> QED BY <3>2, <3>3, <3>4
  <2> HIDE DEF copied
  <2>5. /\ mem1 \in [1..M -> Nat]
        /\ \A p \in 1..M : q <= p /\ p < x => mem1[p] = copied[p - q + 1]
        /\ \A p \in 1..M : ~(q <= p /\ p < x) => mem1[p] = s.mem[p]
    <3>1. mem1 = Write(s.mem, q, copied)
      BY DEF q
    <3> HIDE DEF mem1
    <3>2. q + n <= M + 1
      BY <2>3
    <3>3. IsWrite(mem1, M, s.mem, q, n, copied)
      BY <1>1, <2>3, <2>4, <3>1, <3>2, WriteIs
    <3> QED BY <2>3, <3>3 DEF IsWrite
  <2>6. mem2 = Write(mem1, y, back)
    BY <1>8 DEF y
  <2> HIDE DEF mem1, mem2
  <2>7. /\ mem2 \in [1..M -> Nat]
        /\ \A p \in 1..M : y <= p /\ p < s.tailPtr => mem2[p] = back[p - y + 1]
        /\ \A p \in 1..M : ~(y <= p /\ p < s.tailPtr) => mem2[p] = mem1[p]
    <3>1. back \in [1..m -> Nat] /\ y + m <= M + 1
      BY <1>8, <2>3 DEF m
    <3>2. IsWrite(mem2, M, mem1, y, m, back)
      BY <2>3, <2>5, <2>6, <3>1, WriteIs
    <3> QED BY <2>3, <3>2 DEF IsWrite
  <2>8. ASSUME NEW p \in 1..M, p < x PROVE mem2[p] = p
    <3>1. mem2[p] = mem1[p]
      BY <2>3, <2>7, <2>8
    <3>2. CASE q <= p
      <4>1. mem1[p] = copied[p - q + 1] /\ p - q + 1 \in 1..n
        BY <2>3, <2>5, <2>8, <3>2
      <4>2. copied[p - q + 1] = before + ca + (e + (p - q + 1))
        BY <2>4, <4>1
      <4> QED BY <2>3, <2>8, <3>1, <3>2, <4>1, <4>2
    <3>3. CASE p < q
      <4>1. mem1[p] = s.mem[p]
        BY <2>3, <2>5, <3>3
      <4>2. s.mem[p] = p
        BY <1>1, <1>10, <1>11, <3>3 DEF Good, Bytes, q
      <4> QED BY <3>1, <4>1, <4>2
    <3> QED BY <2>3, <3>2, <3>3
  <2>9. ASSUME NEW p \in 1..M, y <= p PROVE mem2[p] + M = p + before + cz
    <3>1. CASE p < s.tailPtr
      <4>1. mem2[p] = back[p - y + 1] /\ p - y + 1 \in 1..m
        BY <2>3, <2>7, <2>9, <3>1
      <4>2. back[p - y + 1] = before + cc + (p - y + 1)
        BY <1>8, <4>1 DEF m
      <4> QED BY <2>3, <2>9, <3>1, <4>1, <4>2
    <3>2. CASE s.tailPtr <= p
      <4>1. mem2[p] = mem1[p]
        BY <1>1, <2>3, <2>7, <3>2
      <4>2. mem1[p] = s.mem[p]
        <5>1. x \in Nat /\ s.tailPtr \in Nat /\ x <= s.tailPtr
          BY <1>1, <2>3
        <5>2. ~(p < x)
          BY <3>2, <5>1
        <5> QED BY <2>5, <5>2
      <4>3. s.mem[p] + M = p + before + cz
        BY <3>2 DEF Good, Bytes, cz
      <4> QED BY <4>1, <4>2, <4>3
    <3> QED BY <1>1, <3>1, <3>2
  <2>10. /\ c.mem = mem2 /\ c.head = h /\ c.tail = t /\ c.headPtr = x /\ c.tailPtr = y
         /\ c.data = dat
    BY <2>1 DEF x, y
  <2>11. \A i \in Inputs :
           dat[i] = IF (s.head <= i /\ i < h) \/ (t <= i /\ i < s.tail) THEN FreedStream ELSE s.data[i]
    BY <1>1, <1>3 DEF Inputs
  <2>12. ASSUME NEW i \in Inputs
         PROVE  /\ dat[i] \in Stream
                /\ dat[i].ptr = 0
                /\ dat[i] = s.data[i] \/ (s.data[i].is = "committed" /\ dat[i] = FreedStream)
                /\ dat[i].is = "freed" <=> i < h \/ t <= i
    <3>0. i \in Nat
      BY DEF Inputs
    <3>1. CASE (s.head <= i /\ i < h) \/ (t <= i /\ i < s.tail)
      <4>1. dat[i] = FreedStream /\ s.data[i].is = "committed"
        BY <1>3, <2>11, <3>0, <3>1 DEF Ready
      <4> QED BY <3>1, <4>1 DEF FreedStream, Stream
    <3>2. CASE ~((s.head <= i /\ i < h) \/ (t <= i /\ i < s.tail))
      <4>1. dat[i] = s.data[i] /\ dat[i] \in Stream
        BY <1>1, <2>11, <3>2
      <4>2. s.data[i].is = "freed" <=> i < s.head \/ s.tail <= i
        BY DEF Good, Moved
      <4>3. dat[i].is = "freed" <=> i < h \/ t <= i
        BY <1>1, <1>3, <3>0, <3>2, <4>1, <4>2
      <4>4. ASSUME s.data[i].ptr # 0 PROVE FALSE
        <5>1. i = s.head /\ s.data[i].is \in {"created", "committed"}
          BY <4>4 DEF Good, InPlaceOK
        <5>2. s.data[i].is = "committed"
          BY <4>4, <5>1 DEF Settled
        <5>3. ~(i < s.head \/ s.tail <= i)
          BY <4>2, <5>2
        <5>4. Ready(s, i)
          BY <5>2 DEF Ready
        <5>5. h = s.head /\ h < s.tail
          BY <1>1, <1>3, <3>0, <3>2, <5>1, <5>3
        <5>6. ~(h < t)
          BY <1>3, <5>1, <5>4, <5>5
        <5>7. h = t /\ t <= i /\ i < s.tail
          BY <1>1, <1>3, <3>0, <5>1, <5>3, <5>5, <5>6
        <5> QED BY <3>2, <5>7
      <4>5. dat[i].ptr = 0
        <5>1. s.data[i].ptr = 0
          BY <4>4
        <5> HIDE DEF dat
        <5> QED BY <4>1, <5>1
      <4> HIDE DEF dat
      <4> QED BY <4>1, <4>3, <4>5
    <3> QED BY <3>1, <3>2
  <2>13. c \in Records(M)
    <3>1. dat \in [Inputs -> Stream]
      <4> SUFFICES ASSUME NEW i \in Inputs PROVE dat[i] \in Stream
        OBVIOUS
      <4> QED BY <2>12
    <3> HIDE DEF dat
    <3>2. c = [mem |-> mem2, head |-> h, tail |-> t, headPtr |-> x, tailPtr |-> y, data |-> dat]
      BY <2>1 DEF x, y
    <3> QED BY <1>3, <2>3, <2>7, <3>1, <3>2 DEF Records
  <2> HIDE DEF dat
  <2>14. Ranges(c, M)
    <3>1. 1 <= h /\ t <= NbInputs + 1
      BY <1>0, <1>1, <1>2, <1>3
    <3>2. /\ c.headPtr = before + cut[c.head - 1] + 1
          /\ c.tailPtr + cut[NbInputs] = M + 1 + cut[c.tail - 1]
      BY <2>3, <2>10 DEF cb, cc, cz
    <3> QED BY <1>3, <2>3, <2>10, <3>1, <3>2 DEF Ranges
  <2>15. Bytes(c, M)
    BY <2>8, <2>9, <2>10 DEF Bytes, cz
  <2>16. Moved(c) /\ InPlaceOK(c, M)
    BY <2>10, <2>12 DEF Moved, InPlaceOK
  <2>17. ~Failed(c)
    BY <2>3, <2>10 DEF Failed
  <2>18. \A i \in Inputs :
           /\ c.data[i].ptr = 0
           /\ c.data[i] = s.data[i] \/ (s.data[i].is = "committed" /\ c.data[i] = FreedStream)
    BY <2>10, <2>12
  <2> QED BY <1>3, <2>10, <2>13, <2>14, <2>15, <2>16, <2>17, <2>18 DEF Moves, Good
<1> QED BY <1>12, <1>13

-----------------------------------------------------------------------------
(* The inductive invariant.                                                *)

(* While the chunk is decoded, only the running decoder has streams that   *)
(* are not committed.                                                      *)
Held(s, run, M) ==
    /\ Good(s, M)
    /\ \A i \in Inputs : s.data[i].is = "created" => i \in run

(* The chunk is decoded: all of the buffer up to headPtr is in its place.  *)
Whole(s, M) ==
    /\ s \in Records(M)
    /\ 1 <= s.head /\ s.head <= s.tail /\ s.tail <= NbInputs + 1
    /\ s.headPtr = before + cut[NbInputs] + 1 /\ s.headPtr <= M + 1
    /\ \A p \in 1..M : p < s.headPtr => s.mem[p] = p
    /\ \A i \in Inputs : s.data[i].ptr = 0

(* A decoder is still at its outputs, and the slot of one is empty again.  *)
Emptied == \E i \in running : st.data[i].is = "freed"

AppendInv ==
    /\ cut \in Cuts /\ before \in 0..MaxBefore /\ running \subseteq Inputs
    /\ status \in {"decode", "done", "error"}
    /\ \E M \in Nat :
         /\ status \in {"decode", "error"} => Held(st, running, M)
         /\ status = "done" => Whole(st, M)
         /\ status = "error" => M < before + cut[NbInputs] \/ Emptied

LEMMA LenOf ==
    ASSUME NEW M \in Nat, NEW s \in Records(M)
    PROVE  s.mem \in [1..M -> Nat] /\ s.mem \in Seq(Nat) /\ Len(s.mem) = M
<1>1. s.mem \in [1..M -> Nat]
  BY DEF Records
<1> QED BY <1>1, SeqOfFunction

LEMMA AppendInitInv == AppendInit => AppendInv
<1> SUFFICES ASSUME AppendInit PROVE AppendInv
  OBVIOUS
<1>0. NbInputs \in Nat /\ NbInputs >= 1 /\ cut \in Cuts /\ before \in Nat /\ before \in 0..MaxBefore
  BY AppendAssumption DEF AppendInit
<1> DEFINE S(capacity, inFrame) ==
      [mem |-> [p \in 1..(before + capacity) |-> IF p <= before THEN p ELSE Garbage],
       head |-> 1, tail |-> NbInputs + 1,
       headPtr |-> before + 1, tailPtr |-> before + 1 + capacity,
       data |-> [i \in Inputs |-> IF i \in inFrame THEN Stored ELSE Absent]]
<1>1. PICK capacity \in 0..(Len(Chunk) + Spare), inFrame \in SUBSET Inputs : st = S(capacity, inFrame)
  BY DEF AppendInit
<1>2. capacity \in Nat
  <2>1. Len(Chunk) \in Nat
    <3>1. 1 \in 1..(NbInputs + 1) /\ NbInputs \in 0..NbInputs /\ 1 - 1 <= NbInputs
      BY <1>0
    <3> QED BY <1>0, <3>1, ContentIs DEF Chunk
  <2> QED BY <1>1, <2>1, AppendAssumption
<1> DEFINE M == before + capacity
           dat == [i \in Inputs |-> IF i \in inFrame THEN Stored ELSE Absent]
           mem == [p \in 1..M |-> IF p <= before THEN p ELSE Garbage]
<1>3. M \in Nat
  BY <1>0, <1>2
<1>4. mem \in [1..M -> Nat] /\ \A p \in 1..M : p <= before => mem[p] = p
  BY DEF Garbage
<1>5. \A i \in Inputs : dat[i] \in Stream /\ dat[i].ptr = 0 /\ dat[i].is \notin {"freed", "created"}
  BY DEF Stream, Stored, Absent
<1>6. dat \in [Inputs -> Stream]
  BY <1>5
<1>7. /\ st.mem = mem /\ st.head = 1 /\ st.tail = NbInputs + 1 /\ st.headPtr = before + 1
      /\ st.tailPtr = M + 1 /\ st.data = dat
      /\ st = [mem |-> mem, head |-> 1, tail |-> NbInputs + 1, headPtr |-> before + 1,
               tailPtr |-> M + 1, data |-> dat]
  <2>1. before + 1 + capacity = M + 1
    BY <1>0, <1>2
  <2> QED BY <1>1, <2>1
<1> HIDE DEF mem, dat, M
<1>8. st \in Records(M)
  BY <1>0, <1>3, <1>4, <1>6, <1>7 DEF Records
<1>9. Ranges(st, M)
  <2>1. cut[1 - 1] = 0 /\ cut[NbInputs] \in Nat /\ (NbInputs + 1) - 1 = NbInputs
    BY <1>0, CutsGrow
  <2>2. before + 1 <= M + 1
    BY <1>0, <1>2 DEF M
  <2> QED BY <1>0, <1>3, <1>7, <2>1, <2>2 DEF Ranges
<1>10. Bytes(st, M)
  BY <1>0, <1>3, <1>4, <1>7 DEF Bytes
<1>11. Moved(st) /\ InPlaceOK(st, M)
  BY <1>0, <1>5, <1>7 DEF Moved, InPlaceOK, Inputs
<1>12. Held(st, running, M)
  BY <1>5, <1>7, <1>8, <1>9, <1>10, <1>11 DEF Held, Good
<1> QED BY <1>0, <1>3, <1>12 DEF AppendInv, AppendInit

(* A stream that is not in the buffer, or a new one at the head of it,     *)
(* takes the place of one that has not been moved.                         *)
LEMMA StreamSet ==
    ASSUME cut \in Cuts, before \in Nat, NEW M \in Nat, NEW s, Good(s, M),
           NEW i \in Inputs, s.data[i].is # "freed", NEW d \in Stream, d.is # "freed",
           \/ d.ptr = 0
           \/ /\ d.ptr = s.headPtr /\ i = s.head /\ d.is = "created"
              /\ Size(i) <= d.capacity /\ d.capacity <= Gap(s),
           NEW r, r = [s EXCEPT !.data[i] = d]
    PROVE  Good(r, M) /\ ~Failed(r)
<1>1. s \in Records(M)
  BY DEF Good
<1>2. s.data \in [Inputs -> Stream]
  BY <1>1 DEF Records
<1>3. /\ r.mem = s.mem /\ r.head = s.head /\ r.tail = s.tail /\ r.headPtr = s.headPtr
      /\ r.tailPtr = s.tailPtr /\ r.data = [s.data EXCEPT ![i] = d]
      /\ r = [s EXCEPT !.data = r.data]
  BY <1>1 DEF Records
<1>4. r.data[i] = d /\ r.data \in [Inputs -> Stream] /\ \A j \in Inputs : j # i => r.data[j] = s.data[j]
  BY <1>2, <1>3
<1>5. r \in Records(M)
  BY <1>1, <1>3, <1>4 DEF Records
<1>6. Ranges(r, M) /\ Bytes(r, M) /\ Gap(r) = Gap(s)
  BY <1>3 DEF Good, Ranges, Bytes, Gap
<1>7. Moved(r)
  BY <1>3, <1>4 DEF Good, Moved
<1>8. ASSUME NEW j \in Inputs, r.data[j].ptr # 0
      PROVE  /\ j = r.head /\ r.data[j].ptr = r.headPtr
             /\ r.data[j].is \in {"created", "committed"}
             /\ r.data[j].is = "created" => Size(j) <= r.data[j].capacity /\ r.data[j].capacity <= Gap(r)
             /\ r.data[j].is = "committed" =>
                  /\ Size(j) <= Gap(r)
                  /\ \A p \in 1..M : r.headPtr <= p /\ p < r.headPtr + Size(j) => r.mem[p] = p
  <2>1. CASE j = i
    BY <1>3, <1>4, <1>6, <1>8, <2>1
  <2>2. CASE j # i
    <3>1. r.data[j] = s.data[j]
      BY <1>4, <2>2
    <3> QED BY <1>3, <1>6, <1>8, <3>1 DEF Good, InPlaceOK
  <2> QED BY <2>1, <2>2
<1>9. InPlaceOK(r, M)
  BY <1>8 DEF InPlaceOK
<1>10. ~Failed(r)
  <2>1. cut[s.head - 1] \in Nat
    <3>1. s.head - 1 \in 0..NbInputs
      BY <1>1, AppendAssumption DEF Good, Ranges, Records
    <3> QED BY <3>1, CutsGrow
  <2> QED BY <1>3, <2>1 DEF Failed, Good, Ranges
<1> QED BY <1>5, <1>6, <1>7, <1>9, <1>10 DEF Good

LEMMA SizeIs ==
    ASSUME cut \in Cuts, NEW i \in Inputs
    PROVE  /\ Size(i) \in Nat /\ cut[i - 1] \in Nat /\ cut[i] \in Nat
           /\ cut[i] = cut[i - 1] + Size(i)
<1>1. i \in 0..NbInputs /\ i - 1 \in 0..NbInputs /\ i - 1 <= i
  BY AppendAssumption DEF Inputs
<1>2. cut[i] \in Nat /\ cut[i - 1] \in Nat /\ cut[i - 1] <= cut[i]
  BY <1>1, CutsGrow
<1> QED BY <1>2 DEF Size

(* Nothing is in place while no decoder runs.                              *)
LEMMA Idle ==
    ASSUME NEW M, NEW s, Held(s, {}, M)
    PROVE  Settled(s)
BY DEF Held, Settled

(* What a step must show.                                                  *)
LEMMA StepInv ==
    ASSUME AppendInv, UNCHANGED <<cut, before>>, NEW M \in Nat, running' \subseteq Inputs,
           status' \in {"decode", "done", "error"},
           status' \in {"decode", "error"} => Held(st', running', M),
           status' = "done" => Whole(st', M),
           status' = "error" => M < before + cut[NbInputs] \/ Emptied'
    PROVE  AppendInv'
<1>1. Held(st', running', M) => Held(st, running, M)'
  BY DEF Held, Good, Records, Ranges, Bytes, Moved, InPlaceOK, Size, Gap
<1>2. Whole(st', M) => Whole(st, M)'
  BY DEF Whole, Records
<1>3. cut' \in Cuts /\ before' \in 0..MaxBefore
  BY DEF AppendInv
<1>4. /\ (status \in {"decode", "error"} => Held(st, running, M))'
      /\ (status = "done" => Whole(st, M))'
      /\ (status = "error" => M < before + cut[NbInputs] \/ Emptied)'
  BY <1>1, <1>2
<1> QED BY <1>3, <1>4 DEF AppendInv, Cuts, Inputs

(* While the chunk is decoded.                                             *)
LEMMA Decoding ==
    ASSUME AppendInv, status = "decode"
    PROVE  /\ cut \in Cuts /\ before \in Nat /\ running \subseteq Inputs
           /\ \E M \in Nat : Held(st, running, M)
BY AppendAssumption DEF AppendInv

(* Moving what is ready creates no stream.                                 *)
LEMMA MovesHolds ==
    ASSUME NEW M, NEW s, NEW c, NEW run, Moves(s, c, M), Held(s, run, M)
    PROVE  Held(c, run, M)
<1>1. ASSUME NEW i \in Inputs, c.data[i].is = "created" PROVE i \in run
  <2>1. c.data[i] # FreedStream
    BY <1>1 DEF FreedStream
  <2>2. s.data[i].is = "created"
    BY <1>1, <2>1 DEF Moves
  <2> QED BY <2>2 DEF Held
<1> QED BY <1>1 DEF Held, Moves

LEMMA StartStep ==
    ASSUME AppendInv, NEW group \in SUBSET Inputs, NEW single \in BOOLEAN, StartDecoder(group, single)
    PROVE  AppendInv'
<1>1. /\ cut \in Cuts /\ before \in Nat /\ status = "decode" /\ running = {}
      /\ UNCHANGED <<cut, before>>
  BY Decoding DEF StartDecoder
<1>2. PICK M \in Nat : Held(st, running, M)
  BY <1>1, Decoding
<1>3. Settled(st) /\ Good(st, M)
  BY <1>1, <1>2, Idle DEF Held
<1> DEFINE s == IF single THEN CommitInputs(st) ELSE st
<1>4. \/ Failed(s) /\ status' = "error" /\ st' = st /\ running' = running
      \/ ~Failed(s) /\ st' = s /\ running' = group /\ status' = status
  BY DEF StartDecoder
<1>5. ~Failed(st)
  <2>1. cut[st.head - 1] \in Nat
    <3>1. st.head - 1 \in 0..NbInputs
      BY <1>3, AppendAssumption DEF Good, Ranges, Records
    <3> QED BY <1>1, <3>1, CutsGrow
  <2> QED BY <1>1, <1>3, <2>1 DEF Failed, Good, Ranges
<1>6. Failed(s) => M < before + cut[NbInputs]
  BY <1>1, <1>3, <1>5, CommitMoves DEF Moves
<1>7. ~Failed(s) => Held(s, {}, M)
  <2>1. CASE single
    <3>1. ~Failed(s) => Moves(st, s, M)
      BY <1>1, <1>3, <2>1, CommitMoves
    <3> HIDE DEF s
    <3> QED BY <1>1, <1>2, <3>1, MovesHolds
  <2>2. CASE ~single
    BY <1>1, <1>2, <2>2
  <2> QED BY <2>1, <2>2
<1> HIDE DEF s
<1>8. CASE Failed(s)
  <2>1. Held(st', running', M) /\ status' = "error" /\ M < before + cut[NbInputs] /\ running' \subseteq Inputs
    BY <1>1, <1>2, <1>4, <1>6, <1>8
  <2> QED BY <1>1, <2>1, StepInv
<1>9. CASE ~Failed(s)
  <2>1. Held(st', running', M) /\ status' = "decode" /\ running' \subseteq Inputs
    BY <1>1, <1>4, <1>7, <1>9 DEF Held
  <2> QED BY <1>1, <2>1, StepInv
<1> QED BY <1>8, <1>9

LEMMA NewStreamStep ==
    ASSUME AppendInv, NEW i \in Inputs, NEW extra \in 0..MaxReserve, NewStream(i, Size(i) + extra)
    PROVE  AppendInv'
<1>1. /\ cut \in Cuts /\ before \in Nat /\ status = "decode" /\ i \in running /\ running \subseteq Inputs
      /\ st.data[i].is = "absent" /\ UNCHANGED <<cut, before, running>>
  BY Decoding DEF NewStream
<1>2. PICK M \in Nat : Held(st, running, M)
  BY <1>1, Decoding
<1> DEFINE cap == Size(i) + extra
           s == NewStreamHook(st, i, cap)
           k == CommitInputs(st)
           d(q) == [is |-> "created", ptr |-> q, capacity |-> cap]
<1>3. cap \in Nat /\ Size(i) \in Nat /\ Size(i) <= cap
  BY <1>1, SizeIs, AppendAssumption
<1>4. \/ Failed(s) /\ status' = "error" /\ st' = st
      \/ ~Failed(s) /\ st' = s /\ status' = status
  BY DEF NewStream
<1>5. s = IF OutOfOrder(st, i) THEN Create(st, i, 0, cap)
          ELSE IF Failed(k) THEN k
          ELSE IF cap > Gap(k) THEN Create(k, i, 0, cap)
          ELSE Create(k, i, k.headPtr, cap)
  BY DEF NewStreamHook
<1> HIDE DEF cap, s, k
<1>6. ASSUME NEW r, NEW q \in Nat, Held(r, running, M), r.data[i].is = "absent",
             q = 0 \/ (q = r.headPtr /\ i = r.head /\ cap <= Gap(r)), s = Create(r, i, q, cap)
      PROVE  ~Failed(s) /\ Held(s, running, M)
  <2>1. Good(r, M) /\ r.data \in [Inputs -> Stream] /\ r \in Records(M)
    BY <1>6 DEF Held, Good, Records
  <2>2. d(q) \in Stream /\ d(q).is = "created" /\ d(q).ptr = q /\ d(q).capacity = cap
    BY <1>3, <1>6 DEF Stream
  <2>3. s = [r EXCEPT !.data[i] = d(q)]
    BY <1>6 DEF Create
  <2> HIDE DEF d
  <2>4. Good(s, M) /\ ~Failed(s)
    BY <1>1, <1>3, <1>6, <2>1, <2>2, <2>3, StreamSet
  <2>5. \A j \in Inputs : j # i => s.data[j] = r.data[j]
    BY <2>1, <2>3 DEF Records
  <2> QED BY <1>1, <1>6, <2>4, <2>5 DEF Held
<1>7. CASE OutOfOrder(st, i)
  <2>1. s = Create(st, i, 0, cap)
    BY <1>5, <1>7
  <2>2. ~Failed(s) /\ Held(s, running, M)
    BY <1>1, <1>2, <1>6, <2>1
  <2>3. Held(st', running', M) /\ status' = "decode" /\ running' \subseteq Inputs
    BY <1>1, <1>4, <2>2
  <2> QED BY <1>1, <2>3, StepInv
<1>8. CASE ~OutOfOrder(st, i)
  <2>0. Good(st, M) /\ i = st.head
    BY <1>2, <1>8 DEF Held, OutOfOrder
  <2>1. Settled(st)
    <3> SUFFICES ASSUME NEW j \in Inputs, st.data[j].is = "created", st.data[j].ptr # 0 PROVE FALSE
      BY DEF Settled
    <3>1. j = i
      BY <2>0 DEF Good, InPlaceOK
    <3> QED BY <1>1, <3>1
  <2>2. \/ Failed(k) /\ M < before + cut[NbInputs]
        \/ Moves(st, k, M)
    BY <1>1, <2>0, <2>1, CommitMoves DEF k
  <2>3. CASE Failed(k)
    <3>1. s = k /\ M < before + cut[NbInputs]
      BY <1>5, <1>8, <2>2, <2>3 DEF Moves
    <3>2. Held(st', running', M) /\ status' = "error" /\ running' \subseteq Inputs
      BY <1>1, <1>2, <1>4, <2>3, <3>1
    <3> QED BY <1>1, <3>1, <3>2, StepInv
  <2>4. CASE ~Failed(k)
    <3>1. Moves(st, k, M)
      BY <2>2, <2>4
    <3>2. k.head = st.head
      <4>1. ~Ready(st, st.head)
        BY <1>1, <2>0 DEF Ready
      <4>2. st.head < st.tail
        <5>1. ~(st.tail <= i) /\ i \in Nat /\ st.tail \in Nat
          BY <1>1, <2>0 DEF Good, Moved, Records, Inputs
        <5> QED BY <2>0, <5>1
      <4> QED BY <3>1, <4>1, <4>2 DEF Moves
    <3>3. k.data[i].is = "absent"
      BY <1>1, <3>1 DEF Moves
    <3>4. Held(k, running, M) /\ k.headPtr \in Nat /\ Gap(k) \in Nat
      <4>1. Held(k, running, M)
        BY <1>2, <3>1, MovesHolds
      <4>2. k.headPtr \in Nat /\ k.tailPtr \in Nat /\ k.headPtr <= k.tailPtr
        BY <4>1 DEF Held, Good, Records, Ranges
      <4> QED BY <4>1, <4>2 DEF Gap
    <3>5. \/ s = Create(k, i, 0, cap)
          \/ cap <= Gap(k) /\ s = Create(k, i, k.headPtr, cap)
      BY <1>3, <1>5, <1>8, <2>4, <3>4
    <3>6. ~Failed(s) /\ Held(s, running, M)
      <4>1. CASE s = Create(k, i, 0, cap)
        BY <1>6, <3>3, <3>4, <4>1
      <4>2. CASE cap <= Gap(k) /\ s = Create(k, i, k.headPtr, cap)
        BY <1>6, <2>0, <3>2, <3>3, <3>4, <4>2
      <4> QED BY <3>5, <4>1, <4>2
    <3>7. Held(st', running', M) /\ status' = "decode" /\ running' \subseteq Inputs
      BY <1>1, <1>4, <3>6
    <3> QED BY <1>1, <3>7, StepInv
  <2> QED BY <2>3, <2>4
<1> QED BY <1>7, <1>8

LEMMA RefStep ==
    ASSUME AppendInv, NEW i \in Inputs, RefStream(i)
    PROVE  AppendInv'
<1>1. /\ cut \in Cuts /\ before \in Nat /\ status = "decode" /\ i \in running /\ running \subseteq Inputs
      /\ st.data[i].is = "absent" /\ UNCHANGED <<cut, before, running, status>>
      /\ st' = [st EXCEPT !.data[i] = Stored]
  BY Decoding DEF RefStream
<1>2. PICK M \in Nat : Held(st, running, M)
  BY <1>1, Decoding
<1>3. Stored \in Stream /\ Stored.is = "committed" /\ Stored.ptr = 0
  BY DEF Stream, Stored
<1>4. Good(st, M) /\ st \in Records(M)
  BY <1>2 DEF Held, Good
<1>5. Good(st', M)
  BY <1>1, <1>3, <1>4, StreamSet
<1>6. st'.data[i] = Stored /\ \A j \in Inputs : j # i => st'.data[j] = st.data[j]
  BY <1>1, <1>4 DEF Records
<1>7. Held(st', running', M)
  BY <1>1, <1>2, <1>3, <1>5, <1>6 DEF Held
<1> QED BY <1>1, <1>7, StepInv

(* The stream is written: in its own memory, or at the head of the gap,    *)
(* where it stays within what it reserved.                                 *)
GapOf(bf, M, hp, tp, ca, cb, cz) ==
    /\ bf \in Nat /\ M \in Nat /\ hp \in Nat /\ tp \in Nat
    /\ ca \in Nat /\ cb \in Nat /\ cz \in Nat /\ cb <= cz
    /\ hp = bf + ca + 1 /\ tp + cz = M + 1 + cb /\ hp <= tp

LEMMA GapIs ==
    ASSUME NEW bf, NEW M, NEW hp, NEW tp, NEW ca, NEW cb, NEW cz, GapOf(bf, M, hp, tp, ca, cb, cz)
    PROVE  /\ hp >= 1 /\ tp <= M + 1 /\ tp - hp \in Nat /\ hp + (tp - hp) = tp
           /\ M + 1 - tp \in Nat /\ tp - 1 \in Nat /\ tp - 1 <= M /\ (tp - 1) + 1 = tp
           /\ M + 1 - tp = M - (tp - 1) /\ hp + (M + 1 - tp) <= M + 1
           /\ ca = cb => hp + (M + 1 - tp) = bf + cz + 1
BY DEF GapOf

LEMMA WithinIs ==
    ASSUME NEW b \in Nat, NEW ca \in Nat, NEW q \in Nat, NEW z \in Nat, NEW n \in Nat, z <= n,
           q = b + ca + 1, NEW p \in Nat, q <= p, p < q + z
    PROVE  /\ p - q + 1 \in 1..n /\ p - q + 1 <= z /\ p < q + n
           /\ b + ca + (p - q + 1) = p
OBVIOUS

LEMMA CommitStep ==
    ASSUME AppendInv, NEW i \in Inputs, CommitStream(i)
    PROVE  AppendInv'
<1> DEFINE d == st.data[i]
           bytes == [k \in 1..d.capacity |->
                       IF k <= Size(i) THEN before + cut[i - 1] + k ELSE Garbage]
           mem == IF d.ptr = 0 THEN st.mem ELSE Write(st.mem, d.ptr, bytes)
           dat == [st.data EXCEPT ![i].is = "committed"]
<1>1. /\ cut \in Cuts /\ before \in Nat /\ status = "decode" /\ running \subseteq Inputs
      /\ d.is = "created" /\ UNCHANGED <<cut, before, running, status>>
      /\ st' = [st EXCEPT !.data[i].is = "committed", !.mem = mem]
  BY Decoding DEF CommitStream
<1>2. PICK M \in Nat : Held(st, running, M)
  BY <1>1, Decoding
<1>3. Good(st, M) /\ st \in Records(M)
  BY <1>2 DEF Held, Good
<1>4. /\ st.mem \in [1..M -> Nat] /\ st.head \in Nat /\ st.tail \in Nat /\ st.headPtr \in Nat
      /\ st.tailPtr \in Nat /\ st.data \in [Inputs -> Stream] /\ d \in Stream
      /\ d.ptr \in Nat /\ d.capacity \in Nat
  BY <1>3 DEF Records, Stream
<1>5. /\ st'.mem = mem /\ st'.head = st.head /\ st'.tail = st.tail /\ st'.headPtr = st.headPtr
      /\ st'.tailPtr = st.tailPtr /\ st'.data = dat
      /\ st' = [mem |-> mem, head |-> st.head, tail |-> st.tail, headPtr |-> st.headPtr,
                tailPtr |-> st.tailPtr, data |-> dat]
  <2> HIDE DEF mem
  <2>1. st' = [st EXCEPT !.data = dat, !.mem = mem]
    BY <1>1
  <2> HIDE DEF dat
  <2> QED BY <1>3, <2>1 DEF Records
<1>6. /\ dat[i].is = "committed" /\ dat[i].ptr = d.ptr /\ dat[i] \in Stream
      /\ \A j \in Inputs : j # i => dat[j] = st.data[j]
      /\ dat \in [Inputs -> Stream]
  <2>1. dat[i] = [d EXCEPT !.is = "committed"] /\ \A j \in Inputs : j # i => dat[j] = st.data[j]
    BY <1>4
  <2>2. dat[i].is = "committed" /\ dat[i].ptr = d.ptr /\ dat[i] \in Stream
    BY <1>4, <2>1 DEF Stream
  <2>3. dat \in [Inputs -> Stream]
    <3>1. \A j \in Inputs : dat[j] \in Stream
      BY <1>4, <2>1, <2>2
    <3>2. dat = [j \in Inputs |-> dat[j]]
      BY <1>4
    <3> HIDE DEF dat
    <3> QED BY <3>1, <3>2
  <2> QED BY <2>1, <2>2, <2>3
<1>7. Size(i) \in Nat /\ cut[i - 1] \in Nat
  BY <1>1, SizeIs
<1>8. /\ st.headPtr >= 1 /\ st.headPtr <= st.tailPtr /\ st.tailPtr <= M + 1 /\ Gap(st) \in Nat
      /\ st.headPtr + Gap(st) = st.tailPtr
  <2>1. /\ 1 <= st.head /\ st.head <= st.tail /\ st.tail <= NbInputs + 1
        /\ st.headPtr = before + cut[st.head - 1] + 1
        /\ st.tailPtr + cut[NbInputs] = M + 1 + cut[st.tail - 1] /\ st.headPtr <= st.tailPtr
    BY <1>3 DEF Good, Ranges
  <2>2. NbInputs \in Nat /\ NbInputs \in 0..NbInputs /\ st.head - 1 \in 0..NbInputs
        /\ st.tail - 1 \in 0..NbInputs /\ st.tail - 1 <= NbInputs
    BY <1>4, <2>1, AppendAssumption
  <2>3. cut[st.head - 1] \in Nat /\ cut[st.tail - 1] \in Nat /\ cut[NbInputs] \in Nat
        /\ cut[st.tail - 1] <= cut[NbInputs]
    BY <1>1, <2>2, CutsGrow
  <2>4. /\ st.headPtr >= 1 /\ st.tailPtr <= M + 1 /\ st.tailPtr - st.headPtr \in Nat
        /\ st.headPtr + (st.tailPtr - st.headPtr) = st.tailPtr
    <3>1. GapOf(before, M, st.headPtr, st.tailPtr, cut[st.head - 1], cut[st.tail - 1], cut[NbInputs])
      BY <1>1, <1>4, <2>1, <2>3 DEF GapOf
    <3> QED BY <3>1, GapIs
  <2> QED BY <2>1, <2>4 DEF Gap
<1>9. d.ptr # 0 =>
        /\ i = st.head /\ d.ptr = st.headPtr /\ Size(i) <= d.capacity /\ d.capacity <= Gap(st)
        /\ st.headPtr = before + cut[i - 1] + 1
  BY <1>1, <1>3 DEF Good, InPlaceOK, Ranges
<1>10. /\ mem \in [1..M -> Nat]
       /\ \A p \in 1..M : p < st.headPtr \/ st.tailPtr <= p => mem[p] = st.mem[p]
       /\ d.ptr # 0 =>
            \A p \in 1..M : st.headPtr <= p /\ p < st.headPtr + Size(i) => mem[p] = p
  <2>1. CASE d.ptr = 0
    <3>1. mem = st.mem
      BY <2>1
    <3> HIDE DEF mem
    <3> QED BY <1>4, <2>1, <3>1
  <2>2. CASE d.ptr # 0
    <3> DEFINE n == d.capacity
               q == st.headPtr
    <3>1. bytes \in [1..n -> Nat]
      BY <1>1, <1>7 DEF Garbage
    <3>2. \A k \in 1..n : k <= Size(i) => bytes[k] = before + cut[i - 1] + k
      OBVIOUS
    <3>3. mem = Write(st.mem, q, bytes)
      BY <1>9, <2>2
    <3>0. q \in Nat /\ q = before + cut[i - 1] + 1
      BY <1>4, <1>9, <2>2
    <3> HIDE DEF mem, bytes, n
    <3>4. n \in Nat /\ q + n <= M + 1 /\ q + n <= st.tailPtr /\ Size(i) <= n
      BY <1>4, <1>8, <1>9, <2>2 DEF n
    <3>5. IsWrite(mem, M, st.mem, q, n, bytes)
      BY <1>4, <1>8, <3>1, <3>3, <3>4, WriteIs
    <3>6. \A p \in 1..M : p < q \/ st.tailPtr <= p => mem[p] = st.mem[p]
      BY <1>4, <3>4, <3>5 DEF IsWrite
    <3>7. ASSUME NEW p \in 1..M, q <= p, p < q + Size(i) PROVE mem[p] = p
      <4>1. /\ p - q + 1 \in 1..n /\ p - q + 1 <= Size(i) /\ p < q + n
            /\ before + cut[i - 1] + (p - q + 1) = p
        <5>1. p \in Nat
          OBVIOUS
        <5> HIDE DEF q
        <5> QED BY <1>1, <1>7, <3>0, <3>4, <3>7, <5>1, WithinIs
      <4>2. mem[p] = bytes[p - q + 1]
        BY <3>5, <3>7, <4>1 DEF IsWrite
      <4>3. bytes[p - q + 1] = before + cut[i - 1] + (p - q + 1)
        BY <3>2, <4>1
      <4> QED BY <4>1, <4>2, <4>3
    <3> QED BY <3>5, <3>6, <3>7 DEF IsWrite
  <2> QED BY <2>1, <2>2
<1> HIDE DEF mem, dat
<1>11. st' \in Records(M)
  BY <1>4, <1>5, <1>6, <1>10 DEF Records
<1>12. Ranges(st', M) /\ Gap(st') = Gap(st)
  BY <1>3, <1>5 DEF Good, Ranges, Gap
<1>13. Bytes(st', M)
  BY <1>3, <1>5, <1>10 DEF Good, Bytes
<1>14. Moved(st')
  BY <1>1, <1>3, <1>5, <1>6 DEF Good, Moved
<1>15. InPlaceOK(st', M)
  <2> SUFFICES ASSUME NEW j \in Inputs, st'.data[j].ptr # 0
               PROVE  /\ j = st'.head /\ st'.data[j].ptr = st'.headPtr
                      /\ st'.data[j].is \in {"created", "committed"}
                      /\ st'.data[j].is = "created" =>
                           Size(j) <= st'.data[j].capacity /\ st'.data[j].capacity <= Gap(st')
                      /\ st'.data[j].is = "committed" =>
                           /\ Size(j) <= Gap(st')
                           /\ \A p \in 1..M : st'.headPtr <= p /\ p < st'.headPtr + Size(j) => st'.mem[p] = p
    BY DEF InPlaceOK
  <2>1. CASE j = i
    <3>1. d.ptr # 0 /\ st'.data[j].is = "committed" /\ st'.data[j].ptr = d.ptr
      BY <1>5, <1>6, <2>1
    <3>2. Size(i) <= Gap(st')
      BY <1>4, <1>7, <1>8, <1>9, <1>12, <3>1
    <3> QED BY <1>5, <1>9, <1>10, <2>1, <3>1, <3>2
  <2>2. CASE j # i
    <3>1. st.data[j].ptr # 0 /\ st'.data[j] = st.data[j]
      BY <1>5, <1>6, <2>2
    <3>2. j = st.head /\ st.data[j].ptr = st.headPtr /\ st.data[j].is \in {"created", "committed"}
      BY <1>3, <3>1 DEF Good, InPlaceOK
    <3>3. d.ptr = 0
      BY <1>9, <2>2, <3>2
    <3>4. mem = st.mem
      BY <3>3 DEF mem
    <3> QED BY <1>3, <1>5, <1>12, <3>1, <3>4 DEF Good, InPlaceOK
  <2> QED BY <2>1, <2>2
<1>16. Held(st', running', M)
  BY <1>1, <1>2, <1>5, <1>6, <1>11, <1>12, <1>13, <1>14, <1>15 DEF Held, Good
<1> QED BY <1>1, <1>16, StepInv

LEMMA EndStep ==
    ASSUME AppendInv, EndDecoder
    PROVE  AppendInv'
<1>1. /\ status = "decode" /\ UNCHANGED <<cut, before, st>>
      /\ \A i \in running : st.data[i].is \notin {"absent", "created"}
      /\ \/ running' = {} /\ status' = status
         \/ running' = running /\ status' = "error" /\ ~OutputsThere
  BY DEF EndDecoder
<1>2. PICK M \in Nat : Held(st, running, M)
  BY <1>1, Decoding
<1>3. Held(st', running', M) /\ running' \subseteq Inputs /\ status' \in {"decode", "error"}
  BY <1>1, <1>2, Decoding DEF Held
<1>4. status' = "error" => Emptied'
  BY <1>1 DEF OutputsThere, Emptied
<1> QED BY <1>1, <1>3, <1>4, StepInv

(* The tail joins the head.                                                *)
LEMMA JoinIs ==
    ASSUME cut \in Cuts, before \in Nat, NEW M \in Nat, NEW s, Good(s, M), s.head = s.tail,
           \A i \in Inputs : s.data[i].ptr = 0,
           NEW r, r = [s EXCEPT !.mem = JoinTail(s), !.headPtr = @ + (Len(s.mem) + 1 - s.tailPtr)]
    PROVE  Whole(r, M)
<1>0. s \in Records(M)
  BY DEF Good
<1>1. /\ s.mem \in [1..M -> Nat] /\ Len(s.mem) = M /\ s.head \in Nat /\ s.tail \in Nat
      /\ s.headPtr \in Nat /\ s.tailPtr \in Nat /\ s.data \in [Inputs -> Stream]
  BY <1>0, LenOf DEF Records
<1> DEFINE cb == cut[s.head - 1]
           cz == cut[NbInputs]
           n == M + 1 - s.tailPtr
           e == s.tailPtr - 1
           bytes == SubSeq(s.mem, s.tailPtr, M)
           mem == JoinTail(s)
           hp == s.headPtr
           tp == s.tailPtr
<1>2. /\ 1 <= s.head /\ s.tail <= NbInputs + 1
      /\ hp = before + cb + 1 /\ tp + cz = M + 1 + cb /\ hp <= tp
  BY DEF Good, Ranges
<1>3. cb \in Nat /\ cz \in Nat /\ cb <= cz
  <2>1. NbInputs \in Nat /\ NbInputs \in 0..NbInputs /\ s.head - 1 \in 0..NbInputs /\ s.head - 1 <= NbInputs
    BY <1>1, <1>2, AppendAssumption
  <2> QED BY <2>1, CutsGrow
<1> HIDE DEF cb, cz
<1>4. /\ n \in Nat /\ e \in Nat /\ e <= M /\ e + 1 = tp /\ n = M - e /\ hp >= 1 /\ hp + n <= M + 1
      /\ hp + n = before + cz + 1
  <2>1. GapOf(before, M, hp, tp, cb, cb, cz)
    BY <1>1, <1>2, <1>3 DEF GapOf
  <2> QED BY <2>1, GapIs
<1> HIDE DEF n, e
<1>5. bytes \in [1..n -> Nat] /\ \A k \in 1..n : bytes[k] = s.mem[e + k]
  <2>1. bytes = RestOf(s.mem, e, M)
    BY <1>4 DEF RestOf
  <2> HIDE DEF bytes, hp, tp
  <2>2. e \in Nat /\ e <= M /\ n = M - e
    BY <1>4
  <2>3. bytes \in [1..(M - e) -> Nat] /\ \A k \in 1..(M - e) : bytes[k] = s.mem[e + k]
    BY <1>1, <2>1, <2>2, RestIs
  <2> QED BY <2>2, <2>3
<1>6. mem = Write(s.mem, hp, bytes)
  BY <1>1 DEF JoinTail
<1> HIDE DEF bytes, mem, hp, tp
<1>7. IsWrite(mem, M, s.mem, hp, n, bytes)
  <2>1. hp \in Nat
    BY <1>1 DEF hp
  <2> QED BY <1>1, <1>4, <1>5, <1>6, <2>1, WriteIs
<1>8. ASSUME NEW p \in 1..M, p < hp + n PROVE mem[p] = p
  <2>0. hp \in Nat /\ tp \in Nat
    BY <1>1 DEF hp, tp
  <2>1. CASE p < hp
    <3>1. mem[p] = s.mem[p]
      BY <1>4, <1>7, <2>0, <2>1 DEF IsWrite
    <3>2. s.mem[p] = p
      BY <2>1 DEF Good, Bytes, hp
    <3> QED BY <3>1, <3>2
  <2>2. CASE hp <= p
    <3> DEFINE k == p - hp + 1
               g == e + k
    <3>1. mem[p] = bytes[k]
      BY <1>7, <1>8, <2>2 DEF IsWrite
    <3>2. k \in 1..n /\ g \in 1..M /\ tp <= g
      BY <1>4, <1>8, <2>0, <2>2
    <3>3. bytes[k] = s.mem[g]
      <4> HIDE DEF k
      <4> QED BY <1>5, <3>2
    <3>4. g + before + cz = p + M
      BY <1>2, <1>3, <1>4, <2>0
    <3> HIDE DEF k, g
    <3>5. s.mem[g] + M = g + before + cz /\ s.mem[g] \in Nat
      BY <1>1, <3>2 DEF Good, Bytes, tp, cz
    <3> QED BY <3>1, <3>3, <3>4, <3>5
  <2> QED BY <2>0, <2>1, <2>2
<1>9. /\ r.mem = mem /\ r.head = s.head /\ r.tail = s.tail /\ r.tailPtr = s.tailPtr
      /\ r.data = s.data /\ r.headPtr = hp + n /\ r \in Records(M)
  <2>1. r = [s EXCEPT !.mem = mem, !.headPtr = hp + n]
    BY <1>1 DEF mem, hp, n
  <2>2. hp + n \in Nat
    BY <1>1, <1>4 DEF hp
  <2>3. mem \in [1..M -> Nat]
    BY <1>7 DEF IsWrite
  <2> QED BY <1>0, <2>1, <2>2, <2>3 DEF Records
<1> QED BY <1>1, <1>2, <1>4, <1>8, <1>9 DEF Whole, cz

LEMMA ConcatStep ==
    ASSUME AppendInv, RunConcat
    PROVE  AppendInv'
<1> DEFINE s == CommitInputs(st)
<1>1. /\ cut \in Cuts /\ before \in Nat /\ status = "decode" /\ running = {}
      /\ UNCHANGED <<cut, before, running>>
      /\ \A i \in Inputs : st.data[i].is # "absent"
  BY Decoding DEF RunConcat
<1>2. \/ (Failed(s) \/ s.head # s.tail) /\ status' = "error" /\ st' = st
      \/ /\ ~Failed(s) /\ s.head = s.tail /\ status' = "done"
         /\ st' = [s EXCEPT !.mem = JoinTail(s), !.headPtr = @ + (Len(s.mem) + 1 - s.tailPtr)]
  BY DEF RunConcat
<1>3. PICK M \in Nat : Held(st, running, M)
  BY <1>1, Decoding
<1>4. Settled(st) /\ Good(st, M)
  BY <1>1, <1>3, Idle DEF Held
<1>5. \/ Failed(s) /\ M < before + cut[NbInputs]
      \/ Moves(st, s, M)
  BY <1>1, <1>4, CommitMoves
<1> HIDE DEF s
(* Every input is ready, so that all of them are moved.                    *)
<1>6. Moves(st, s, M) => s.head = s.tail
  <2> SUFFICES ASSUME Moves(st, s, M), s.head # s.tail PROVE FALSE
    OBVIOUS
  <2>1. s.head \in Nat /\ s.tail \in Nat /\ 1 <= s.head /\ s.head < s.tail /\ s.tail <= NbInputs + 1
    BY AppendAssumption DEF Moves, Good, Records, Ranges
  <2>2. s.head \in Inputs
    BY <2>1, AppendAssumption DEF Inputs
  <2>3. s.data[s.head].is # "freed"
    BY <2>1, <2>2 DEF Moves, Good, Moved
  <2>4. s.data[s.head] = st.data[s.head]
    BY <2>2, <2>3 DEF Moves, FreedStream
  <2>5. st.data[s.head].is \in {"absent", "created", "committed", "freed"}
    BY <1>4, <2>2 DEF Good, Records, Stream
  <2>6. st.data[s.head].is # "created"
    BY <1>1, <1>3, <2>2 DEF Held
  <2>7. ~Ready(st, s.head)
    BY <2>1 DEF Moves
  <2> QED BY <1>1, <2>2, <2>3, <2>4, <2>5, <2>6, <2>7 DEF Ready
<1>7. CASE Failed(s)
  <2>1. M < before + cut[NbInputs] /\ st' = st /\ status' = "error"
    BY <1>2, <1>5, <1>7 DEF Moves
  <2>2. Held(st', running', M)
    BY <1>1, <1>3, <2>1
  <2> QED BY <1>1, <2>1, <2>2, StepInv
<1>8. CASE ~Failed(s)
  <2>1. Moves(st, s, M) /\ s.head = s.tail
    BY <1>5, <1>6, <1>8
  <2>2. /\ status' = "done"
        /\ st' = [s EXCEPT !.mem = JoinTail(s), !.headPtr = @ + (Len(s.mem) + 1 - s.tailPtr)]
    BY <1>2, <1>8, <2>1
  <2>3. Good(s, M) /\ \A i \in Inputs : s.data[i].ptr = 0
    BY <2>1 DEF Moves
  <2>4. Whole(st', M)
    BY <1>1, <2>1, <2>2, <2>3, JoinIs
  <2> QED BY <1>1, <2>2, <2>4, StepInv
<1> QED BY <1>7, <1>8

(* The invariant is inductive.                                             *)
THEOREM AppendInductive == AppendSpec => []AppendInv
<1>1. AppendInv /\ [AppendNext]_appendVars => AppendInv'
  <2> SUFFICES ASSUME AppendInv, [AppendNext]_appendVars PROVE AppendInv'
    OBVIOUS
  <2>1. CASE UNCHANGED appendVars
    <3>1. cut' = cut /\ before' = before /\ st' = st /\ running' = running /\ status' = status
      BY <2>1 DEF appendVars
    <3>2. PICK M \in Nat : /\ status \in {"decode", "error"} => Held(st, running, M)
                           /\ status = "done" => Whole(st, M)
                           /\ status = "error" => M < before + cut[NbInputs] \/ Emptied
      BY DEF AppendInv
    <3>3. status' \in {"decode", "error"} => Held(st', running', M)
      BY <3>1, <3>2
    <3>4. status' = "done" => Whole(st', M)
      BY <3>1, <3>2
    <3>5. status' = "error" => M < before + cut[NbInputs] \/ Emptied'
      BY <3>1, <3>2 DEF Emptied
    <3>6. running' \subseteq Inputs /\ status' \in {"decode", "done", "error"}
      BY <3>1 DEF AppendInv
    <3> QED BY <3>1, <3>3, <3>4, <3>5, <3>6, StepInv
  <2>2. CASE \E group \in SUBSET Inputs, single \in BOOLEAN : StartDecoder(group, single)
    BY <2>2, StartStep
  <2>3. CASE \E i \in Inputs, extra \in 0..MaxReserve : NewStream(i, Size(i) + extra)
    BY <2>3, NewStreamStep
  <2>4. CASE \E i \in Inputs : RefStream(i)
    BY <2>4, RefStep
  <2>5. CASE \E i \in Inputs : CommitStream(i)
    BY <2>5, CommitStep
  <2> QED BY <2>1, <2>2, <2>3, <2>4, <2>5, EndStep, ConcatStep DEF AppendNext, Finished
<1> QED BY <1>1, AppendInitInv, PTL DEF AppendSpec

-----------------------------------------------------------------------------
(* What the invariant gives.                                               *)

LEMMA SameSeq ==
    ASSUME NEW x \in Seq(Nat), NEW y \in Seq(Nat), Len(x) = Len(y),
           \A k \in 1..Len(x) : x[k] = y[k]
    PROVE  x = y
OBVIOUS

IsCat(c, x, y, m, n) ==
    /\ c \in Seq(Nat) /\ Len(c) = m + n
    /\ \A k \in 1..m : c[k] = x[k]
    /\ \A k \in (m + 1)..(m + n) : c[k] = y[k - m]

LEMMA CatIs ==
    ASSUME NEW x \in Seq(Nat), NEW y \in Seq(Nat), NEW m \in Nat, NEW n \in Nat,
           Len(x) = m, Len(y) = n
    PROVE  IsCat(x \o y, x, y, m, n)
<1>1. x \o y \in Seq(Nat) /\ Len(x \o y) = m + n
  OBVIOUS
<1>2. ASSUME NEW k \in 1..m PROVE (x \o y)[k] = x[k]
  <2>1. k \in 1..(Len(x) + Len(y)) /\ k <= Len(x)
    OBVIOUS
  <2> QED BY <2>1
<1>3. ASSUME NEW k \in (m + 1)..(m + n) PROVE (x \o y)[k] = y[k - m]
  <2>1. k \in 1..(Len(x) + Len(y)) /\ k > Len(x) /\ k - m = k - Len(x)
    OBVIOUS
  <2> QED BY <2>1
<1> QED BY <1>1, <1>2, <1>3 DEF IsCat

(* The output up to the end of input j, as a sequence: each byte at its    *)
(* place.                                                                  *)
LEMMA OutputUpTo ==
    ASSUME cut \in Cuts, before \in Nat, NEW j \in 0..NbInputs,
           NEW M \in Nat, NEW mem \in [1..M -> Nat], NEW l \in Nat, l = before + cut[j], l <= M,
           \A p \in 1..M : p < l + 1 => mem[p] = p
    PROVE  SubSeq(mem, 1, l) = Before \o Content(1, j)
<1> DEFINE n == cut[j]
           x == Before
           y == Content(1, j)
           z == SubSeq(mem, 1, l)
<1>1. n \in Nat /\ n = cut[j] - cut[1 - 1] /\ cut[1 - 1] = 0
  BY CutsGrow
<1>2. y \in [1..n -> Nat] /\ \A k \in 1..n : y[k] = before + k
  <2>1. 1 \in 1..(NbInputs + 1) /\ 1 - 1 <= j
    BY AppendAssumption
  <2>2. y \in [1..n -> Nat] /\ \A k \in 1..n : y[k] = before + cut[1 - 1] + k
    BY <1>1, <2>1, ContentIs
  <2> QED BY <1>1, <2>2
<1>3. y \in Seq(Nat) /\ Len(y) = n
  <2> HIDE DEF n, y
  <2> QED BY <1>1, <1>2, SeqOfFunction
<1>4. x \in Seq(Nat) /\ Len(x) = before /\ \A k \in 1..before : x[k] = k
  BY DEF Before
<1>5. z \in Seq(Nat) /\ Len(z) = l /\ \A k \in 1..l : z[k] = mem[k]
  <2>1. mem \in Seq(Nat) /\ Len(mem) = M
    BY SeqOfFunction
  <2> QED BY <2>1
<1> HIDE DEF n, x, y, z
<1> DEFINE c == x \o y
<1>0. l = before + n
  BY DEF n
<1>6. /\ c \in Seq(Nat) /\ Len(c) = before + n
      /\ \A k \in 1..before : c[k] = x[k]
      /\ \A k \in (before + 1)..(before + n) : c[k] = y[k - before]
  <2>1. IsCat(c, x, y, before, n)
    BY <1>1, <1>3, <1>4, CatIs
  <2> QED BY <2>1 DEF IsCat
<1> HIDE DEF c
<1>7. ASSUME NEW k \in 1..l PROVE z[k] = c[k]
  <2>1. z[k] = k
    <3>1. k \in 1..M /\ k < l + 1
      OBVIOUS
    <3> QED BY <1>5, <3>1
  <2>2. CASE k <= before
    <3>1. k \in 1..before
      BY <2>2
    <3> QED BY <1>4, <1>6, <2>1, <3>1
  <2>3. CASE before < k
    <3>1. k - before \in 1..n /\ k \in (before + 1)..(before + n) /\ before + (k - before) = k
      BY <1>0, <1>1, <2>3
    <3>2. c[k] = y[k - before]
      BY <1>6, <3>1
    <3>3. y[k - before] = before + (k - before)
      BY <1>2, <3>1
    <3> QED BY <2>1, <3>1, <3>2, <3>3
  <2>4. k \in Nat
    OBVIOUS
  <2> QED BY <2>2, <2>3, <2>4
<1>8. z = c
  BY <1>0, <1>5, <1>6, <1>7, SameSeq
<1> QED BY <1>8 DEF x, y, z, c

(* The bytes from the tail on, as a sequence.                              *)
LEMMA OutputFrom ==
    ASSUME cut \in Cuts, before \in Nat, NEW M \in Nat, NEW s, Good(s, M)
    PROVE  SubSeq(s.mem, s.tailPtr, M) = Content(s.tail, NbInputs)
<1>0. s \in Records(M) /\ NbInputs \in Nat
  BY AppendAssumption DEF Good
<1>1. /\ s.mem \in [1..M -> Nat] /\ s.head \in Nat /\ s.tail \in Nat
      /\ s.headPtr \in Nat /\ s.tailPtr \in Nat
  BY <1>0 DEF Records
<1> DEFINE ca == cut[s.head - 1]
           cb == cut[s.tail - 1]
           cz == cut[NbInputs]
           n == cz - cb
           e == s.tailPtr - 1
           x == Content(s.tail, NbInputs)
           z == SubSeq(s.mem, s.tailPtr, M)
<1>2. /\ 1 <= s.head /\ s.head <= s.tail /\ s.tail <= NbInputs + 1
      /\ s.headPtr = before + ca + 1 /\ s.tailPtr + cz = M + 1 + cb /\ s.headPtr <= s.tailPtr
  BY DEF Good, Ranges
<1>3. /\ NbInputs \in 0..NbInputs /\ s.head - 1 \in 0..NbInputs /\ s.tail - 1 \in 0..NbInputs
      /\ s.tail - 1 <= NbInputs /\ s.tail \in 1..(NbInputs + 1)
  <2> HIDE DEF ca, cb, cz
  <2> QED BY <1>0, <1>1, <1>2, Indexes
<1>4. ca \in Nat /\ cb \in Nat /\ cz \in Nat /\ cb <= cz
  BY <1>3, CutsGrow
<1>5. x \in [1..n -> Nat] /\ \A k \in 1..n : x[k] = before + cb + k
  BY <1>3, ContentIs
<1> HIDE DEF ca, cb, cz, x
<1>a. s.tailPtr \in Nat /\ s.tailPtr + cz = M + 1 + cb /\ cb \in Nat /\ cz \in Nat
  BY <1>1, <1>2, <1>4
<1>b. e + cz = M + cb
  BY <1>a
<1>6. /\ s.tailPtr >= 1 /\ e \in Nat /\ e <= M /\ e + 1 = s.tailPtr /\ M + 1 - s.tailPtr = M - e
      /\ n = M - e
  <2>1. GapOf(before, M, s.headPtr, s.tailPtr, ca, cb, cz)
    BY <1>1, <1>2, <1>4 DEF GapOf
  <2>2. /\ s.headPtr >= 1 /\ e \in Nat /\ e <= M /\ e + 1 = s.tailPtr /\ M + 1 - s.tailPtr = M - e
    BY <2>1, GapIs
  <2>3. n = M + 1 - s.tailPtr
    BY <1>a
  <2> QED BY <1>1, <1>2, <2>2, <2>3
<1>7. z \in [1..n -> Nat] /\ \A k \in 1..n : z[k] = s.mem[e + k]
  <2>1. z = RestOf(s.mem, e, M)
    BY <1>6 DEF RestOf
  <2> HIDE DEF z, n, e
  <2>2. e \in Nat /\ e <= M /\ n = M - e
    BY <1>6
  <2>3. z \in [1..(M - e) -> Nat] /\ \A k \in 1..(M - e) : z[k] = s.mem[e + k]
    BY <1>1, <2>1, <2>2, RestIs
  <2> QED BY <2>2, <2>3
<1>8. ASSUME NEW k \in 1..n PROVE z[k] = x[k]
  <2> DEFINE p == e + k
  <2>0. n \in Nat /\ k \in 1..n
    BY <1>4
  <2>1. p \in 1..M /\ s.tailPtr <= p
    <3> HIDE DEF n, e
    <3> QED BY <1>1, <1>6, <2>0
  <2>2. z[k] = s.mem[p]
    <3> HIDE DEF z, n, e
    <3> QED BY <1>7
  <2>3. s.mem[p] + M = p + before + cz /\ s.mem[p] \in Nat
    <3> HIDE DEF p
    <3> QED BY <1>1, <2>1 DEF Good, Bytes, cz
  <2>4. x[k] = before + cb + k
    <3> HIDE DEF n
    <3> QED BY <1>5
  <2>5. p + before + cz = (before + cb + k) + M
    <3> HIDE DEF e
    <3> QED BY <1>4, <1>6, <1>b, <2>0
  <2> HIDE DEF p, z, e
  <2> QED BY <1>4, <2>2, <2>3, <2>4, <2>5
<1> HIDE DEF z, n
<1>9. z = x
  <2>1. z = [k \in 1..n |-> z[k]] /\ x = [k \in 1..n |-> x[k]]
    BY <1>5, <1>7
  <2> QED BY <1>8, <2>1
<1> QED BY <1>9 DEF z, x

LEMMA ChunkLen ==
    ASSUME cut \in Cuts, before \in Nat
    PROVE  Len(Chunk) = cut[NbInputs] /\ cut[NbInputs] \in Nat
<1>1. NbInputs \in Nat /\ NbInputs \in 0..NbInputs /\ 1 \in 1..(NbInputs + 1) /\ 1 - 1 <= NbInputs
  BY AppendAssumption
<1>2. cut[1 - 1] = 0 /\ cut[NbInputs] \in Nat
  BY <1>1, CutsGrow
<1>3. Len(Content(1, NbInputs)) = cut[NbInputs] - cut[1 - 1]
  BY <1>1, ContentIs
<1> QED BY <1>2, <1>3 DEF Chunk

(* The state of the optimization has its type: the cursors of commitInputs *)
(* (decompress2.c:504) stay within the inputs.                             *)
THEOREM TypeCorrect == AppendSpec => []TypeOK
<1>1. AppendInv => TypeOK
  <2> SUFFICES ASSUME AppendInv PROVE TypeOK
    OBVIOUS
  <2>1. PICK M \in Nat : /\ st \in Records(M)
                         /\ 1 <= st.head /\ st.head <= st.tail /\ st.tail <= NbInputs + 1
    BY DEF AppendInv, Held, Good, Ranges, Whole
  <2>2. st.mem \in Seq(Nat)
    BY <2>1, LenOf
  <2>3. /\ st.head \in Nat /\ st.tail \in Nat /\ st.headPtr \in Nat /\ st.tailPtr \in Nat
        /\ st.data \in [Inputs -> Stream]
    BY <2>1 DEF Records
  <2>4. st.head \in 1..(NbInputs + 1) /\ st.tail \in 1..(NbInputs + 1)
    BY <2>1, <2>3, AppendAssumption
  <2> QED BY <2>2, <2>3, <2>4 DEF TypeOK, AppendInv
<1> QED BY <1>1, AppendInductive, PTL

(* A chunk that is decoded is the concatenation of the inputs in their     *)
(* order, after what the output held, for every number and size of inputs, *)
(* every order they are regenerated in and every capacity reserved.        *)
THEOREM ChunkInOrder == AppendSpec => []ConcatInOrder
<1>1. AppendInv => ConcatInOrder
  <2> SUFFICES ASSUME AppendInv, status = "done"
               PROVE  SubSeq(st.mem, 1, st.headPtr - 1) = Before \o Chunk
    BY DEF ConcatInOrder
  <2>1. cut \in Cuts /\ before \in Nat
    BY AppendAssumption DEF AppendInv
  <2>2. PICK M \in Nat : Whole(st, M)
    BY DEF AppendInv
  <2> DEFINE l == st.headPtr - 1
             mem == st.mem
  <2>3. /\ mem \in [1..M -> Nat] /\ st.headPtr = before + cut[NbInputs] + 1 /\ st.headPtr <= M + 1
        /\ \A p \in 1..M : p < st.headPtr => mem[p] = p
    BY <2>2, LenOf DEF Whole
  <2>4. cut[NbInputs] \in Nat /\ NbInputs \in 0..NbInputs
    BY <2>1, ChunkLen, AppendAssumption
  <2>5. l \in Nat /\ l = before + cut[NbInputs] /\ l <= M /\ st.headPtr = l + 1
    BY <2>1, <2>3, <2>4
  <2> HIDE DEF l, mem
  <2>6. SubSeq(mem, 1, l) = Before \o Content(1, NbInputs)
    BY <2>1, <2>3, <2>4, <2>5, OutputUpTo
  <2> QED BY <2>6 DEF Chunk, l, mem
<1> QED BY <1>1, AppendInductive, PTL

(* What was moved is never overwritten, and the assertion of commitInput() *)
(* holds: a stream written in place is the next of the head, and what it   *)
(* reserved fits in the gap.                                               *)
THEOREM MovedStay == AppendSpec => []MovedBytesIntact
<1>1. AppendInv => MovedBytesIntact
  <2> SUFFICES ASSUME AppendInv PROVE MovedBytesIntact
    OBVIOUS
  <2>1. cut \in Cuts /\ before \in Nat
    BY AppendAssumption DEF AppendInv
  <2>2. ASSUME status = "decode"
        PROVE  /\ SubSeq(st.mem, 1, st.headPtr - 1) = Before \o Content(1, st.head - 1)
               /\ SubSeq(st.mem, st.tailPtr, Len(st.mem)) = Content(st.tail, NbInputs)
    <3>1. PICK M \in Nat : Good(st, M)
      BY <2>2 DEF AppendInv, Held
    <3>2. st.mem \in [1..M -> Nat] /\ Len(st.mem) = M /\ st.head \in Nat /\ st.tail \in Nat
          /\ st.headPtr \in Nat /\ st.tailPtr \in Nat
      BY <3>1, LenOf DEF Good, Records
    <3> DEFINE l == st.headPtr - 1
               mem == st.mem
               j == st.head - 1
               cz == cut[NbInputs]
    <3>3. /\ 1 <= st.head /\ st.head <= st.tail /\ st.tail <= NbInputs + 1
          /\ st.headPtr = before + cut[j] + 1 /\ st.tailPtr + cz = M + 1 + cut[st.tail - 1]
          /\ st.headPtr <= st.tailPtr /\ \A p \in 1..M : p < st.headPtr => mem[p] = p
      BY <3>1 DEF Good, Ranges, Bytes
    <3>4. /\ NbInputs \in Nat /\ NbInputs \in 0..NbInputs /\ j \in 0..NbInputs
          /\ st.tail - 1 \in 0..NbInputs /\ st.tail - 1 <= NbInputs
      <4> HIDE DEF cz
      <4> QED BY <3>2, <3>3, AppendAssumption
    <3>5. cut[j] \in Nat /\ cz \in Nat /\ cut[st.tail - 1] \in Nat /\ cut[st.tail - 1] <= cz
      <4> HIDE DEF j
      <4> QED BY <2>1, <3>4, CutsGrow
    <3>6. st.tailPtr <= M + 1
      <4>1. GapOf(before, M, st.headPtr, st.tailPtr, cut[j], cut[st.tail - 1], cz)
        BY <2>1, <3>2, <3>3, <3>5 DEF GapOf
      <4> QED BY <4>1, GapIs
    <3> HIDE DEF j, cz
    <3>7. l \in Nat /\ l = before + cut[j] /\ l <= M /\ st.headPtr = l + 1
      <4>1. /\ st.headPtr \in Nat /\ cut[j] \in Nat /\ before \in Nat /\ st.tailPtr \in Nat
            /\ st.headPtr = before + cut[j] + 1 /\ st.headPtr <= st.tailPtr /\ st.tailPtr <= M + 1
        BY <2>1, <3>2, <3>3, <3>5, <3>6
      <4> QED BY <4>1
    <3>8. SubSeq(mem, 1, l) = Before \o Content(1, j)
      <4> HIDE DEF l, mem
      <4>1. mem \in [1..M -> Nat] /\ \A p \in 1..M : p < l + 1 => mem[p] = p
        BY <3>2, <3>3, <3>7 DEF mem
      <4> QED BY <2>1, <3>4, <3>7, <4>1, OutputUpTo
    <3>9. SubSeq(st.mem, st.tailPtr, Len(st.mem)) = Content(st.tail, NbInputs)
      BY <2>1, <3>1, <3>2, OutputFrom
    <3> QED BY <3>8, <3>9 DEF j
  <2>3. InPlaceIsNext
    <3>1. CASE status = "done"
      BY <3>1 DEF AppendInv, Whole, InPlaceIsNext
    <3>2. CASE status \in {"decode", "error"}
      <4>1. PICK M \in Nat : InPlaceOK(st, M)
        BY <3>2 DEF AppendInv, Held, Good
      <4> QED BY <4>1 DEF InPlaceOK, InPlaceIsNext
    <3> QED BY <3>1, <3>2 DEF AppendInv
  <2> QED BY <2>2, <2>3 DEF MovedBytesIntact
<1> QED BY <1>1, AppendInductive, PTL

-----------------------------------------------------------------------------
(* Why a slot can be empty again while its decoder runs.                   *)

(* The stream was moved to the tail when the decoder created the head.     *)
EarlyInv ==
    status # "done" =>
      \A i \in running : st.data[i].is = "freed" =>
        /\ st.head \in running /\ st.head < i /\ st.tail <= i
        /\ st.data[st.head].is # "absent"

(* Creating the head moves inputs to the tail only.                        *)
LEMMA HeadStays ==
    ASSUME AppendInv, status = "decode", NEW i \in Inputs, st.data[i].is = "absent", i = st.head,
           ~Failed(CommitInputs(st))
    PROVE  /\ \E M \in Nat : Good(st, M) /\ Moves(st, CommitInputs(st), M)
           /\ CommitInputs(st).head = i
<1> DEFINE k == CommitInputs(st)
<1>1. cut \in Cuts /\ before \in Nat
  BY Decoding
<1>2. PICK M \in Nat : Held(st, running, M)
  BY Decoding
<1>3. Good(st, M)
  BY <1>2 DEF Held
<1>4. Settled(st)
  <2> SUFFICES ASSUME NEW j \in Inputs, st.data[j].is = "created", st.data[j].ptr # 0 PROVE FALSE
    BY DEF Settled
  <2>1. j = i
    BY <1>3 DEF Good, InPlaceOK
  <2> QED BY <2>1
<1>5. Moves(st, k, M)
  BY <1>1, <1>3, <1>4, CommitMoves
<1>6. ~Ready(st, st.head)
  BY DEF Ready
<1>7. st.head < st.tail
  <2>1. ~(st.tail <= i) /\ i \in Nat /\ st.tail \in Nat
    BY <1>3 DEF Good, Moved, Records, Inputs
  <2> QED BY <2>1
<1> HIDE DEF k
<1>8. k.head = i
  BY <1>5, <1>6, <1>7 DEF Moves
<1> QED BY <1>3, <1>5, <1>8 DEF k

LEMMA StartEarly ==
    ASSUME AppendInv, NEW group \in SUBSET Inputs, NEW single \in BOOLEAN, StartDecoder(group, single)
    PROVE  EarlyInv'
<1>1. /\ cut \in Cuts /\ before \in Nat /\ status = "decode" /\ running = {}
      /\ \A i \in group : st.data[i].is = "absent"
  BY Decoding DEF StartDecoder
<1>2. PICK M \in Nat : Held(st, running, M)
  BY <1>1, Decoding
<1>3. Settled(st) /\ Good(st, M)
  BY <1>1, <1>2, Idle DEF Held
<1> DEFINE s == IF single THEN CommitInputs(st) ELSE st
<1>4. \/ running' = {}
      \/ ~Failed(s) /\ st' = s /\ running' = group
  BY <1>1 DEF StartDecoder
<1>5. ~Failed(s) => \A i \in group : s.data[i].is = "absent"
  <2>1. CASE single
    <3>1. ~Failed(s) => Moves(st, s, M)
      BY <1>1, <1>3, <2>1, CommitMoves
    <3> HIDE DEF s
    <3> QED BY <1>1, <3>1 DEF Moves
  <2>2. CASE ~single
    BY <1>1, <2>2
  <2> QED BY <2>1, <2>2
<1> HIDE DEF s
<1> QED BY <1>4, <1>5 DEF EarlyInv

LEMMA NewStreamEarly ==
    ASSUME AppendInv, EarlyInv, NEW i \in Inputs, NEW extra \in 0..MaxReserve,
           NewStream(i, Size(i) + extra)
    PROVE  EarlyInv'
<1>1. /\ status = "decode" /\ i \in running /\ running \subseteq Inputs
      /\ st.data[i].is = "absent" /\ running' = running
  BY Decoding DEF NewStream
<1> DEFINE cap == Size(i) + extra
           s == NewStreamHook(st, i, cap)
           k == CommitInputs(st)
<1>2. \/ Failed(s) /\ st' = st
      \/ ~Failed(s) /\ st' = s
  BY DEF NewStream
<1>3. s = IF OutOfOrder(st, i) THEN Create(st, i, 0, cap)
          ELSE IF Failed(k) THEN k
          ELSE IF cap > Gap(k) THEN Create(k, i, 0, cap)
          ELSE Create(k, i, k.headPtr, cap)
  BY DEF NewStreamHook
<1>4. ASSUME NEW M \in Nat, NEW r \in Records(M), NEW q, s = Create(r, i, q, cap)
      PROVE  /\ s.head = r.head /\ s.tail = r.tail /\ s.data[i].is = "created"
             /\ \A j \in Inputs : j # i => s.data[j] = r.data[j]
  <2> HIDE DEF s, cap
  <2> QED BY <1>4 DEF Create, Records
<1> HIDE DEF cap, s
<1>5. CASE st' = st
  BY <1>1, <1>5 DEF EarlyInv
<1>6. CASE st' = s /\ OutOfOrder(st, i)
  <2>1. PICK M \in Nat : st \in Records(M) /\ Good(st, M)
    BY <1>1, Decoding DEF Held, Good
  <2>2. /\ s.head = st.head /\ s.tail = st.tail /\ s.data[i].is = "created"
        /\ \A j \in Inputs : j # i => s.data[j] = st.data[j]
    BY <1>3, <1>4, <1>6, <2>1
  <2> SUFFICES ASSUME NEW j \in running, s.data[j].is = "freed"
               PROVE  /\ st.head \in running /\ st.head < j /\ st.tail <= j
                      /\ s.data[st.head].is # "absent"
    BY <1>1, <1>6, <2>2 DEF EarlyInv
  <2>3. j # i /\ st.data[j].is = "freed"
    BY <1>1, <2>2
  <2>4. st.head \in running /\ st.head < j /\ st.tail <= j /\ st.data[st.head].is # "absent"
    BY <1>1, <2>3 DEF EarlyInv
  <2> QED BY <1>1, <2>2, <2>4
<1>7. CASE st' = s /\ ~Failed(s) /\ ~OutOfOrder(st, i)
  <2>1. i = st.head /\ ~Failed(k)
    BY <1>3, <1>7 DEF OutOfOrder
  <2>2. PICK M \in Nat : Good(st, M) /\ Moves(st, k, M)
    BY <1>1, <2>1, HeadStays
  <2>3. k.head = i
    BY <1>1, <2>1, HeadStays
  <2>4. k \in Records(M) /\ Moved(k) /\ Moved(st) /\ st.head \in Nat /\ k.tail \in Nat
    BY <2>2 DEF Moves, Good, Records
  <2> HIDE DEF k
  <2>5. \E q : s = Create(k, i, q, cap)
    BY <1>3, <1>7, <2>1
  <2>6. /\ s.head = i /\ s.tail = k.tail /\ s.data[i].is = "created"
        /\ \A j \in Inputs : j # i => s.data[j] = k.data[j]
    BY <1>4, <2>3, <2>4, <2>5
  <2>7. i < k.tail
    <3>1. k.data[i].is # "freed"
      BY <1>1, <2>2 DEF Moves
    <3> QED BY <2>4, <3>1 DEF Moved, Inputs
  <2>8. ASSUME NEW j \in running, s.data[j].is = "freed"
        PROVE  i < j /\ k.tail <= j
    <3>1. j \in Inputs /\ j # i /\ k.data[j].is = "freed"
      BY <1>1, <2>6, <2>8
    <3>2. j < i \/ k.tail <= j
      BY <2>3, <2>4, <3>1 DEF Moved
    <3>3. ~(j < i)
      <4> SUFFICES ASSUME j < i PROVE FALSE
        OBVIOUS
      <4>1. st.data[j].is = "freed"
        BY <2>1, <2>4, <3>1 DEF Moved
      <4> QED BY <1>1, <2>1, <4>1 DEF EarlyInv
    <3> QED BY <2>4, <2>7, <3>1, <3>2, <3>3 DEF Inputs
  <2> QED BY <1>1, <1>7, <2>6, <2>8 DEF EarlyInv
<1> QED BY <1>2, <1>5, <1>6, <1>7

(* A step that changes neither the cursors nor the running decoder, and    *)
(* neither empties a slot nor makes one absent.                            *)
LEMMA EarlyStays ==
    ASSUME EarlyInv, status = "decode", running' = running, st'.head = st.head, st'.tail = st.tail,
           running \subseteq Inputs,
           \A i \in Inputs : /\ st'.data[i].is = "freed" => st.data[i].is = "freed"
                             /\ st'.data[i].is = "absent" => st.data[i].is = "absent"
    PROVE  EarlyInv'
<1> SUFFICES ASSUME NEW i \in running, st'.data[i].is = "freed"
             PROVE  /\ st.head \in running /\ st.head < i /\ st.tail <= i
                    /\ st'.data[st.head].is # "absent"
  BY DEF EarlyInv
<1>1. i \in Inputs
  OBVIOUS
<1>2. st.data[i].is = "freed"
  BY <1>1
<1>3. st.head \in running /\ st.head < i /\ st.tail <= i /\ st.data[st.head].is # "absent"
  BY <1>2 DEF EarlyInv
<1>4. st.head \in Inputs
  BY <1>3
<1> QED BY <1>3, <1>4

LEMMA NextEarly == AppendInv /\ EarlyInv /\ [AppendNext]_appendVars => EarlyInv'
<1> SUFFICES ASSUME AppendInv, EarlyInv, [AppendNext]_appendVars PROVE EarlyInv'
  OBVIOUS
<1>1. CASE UNCHANGED appendVars
  BY <1>1 DEF appendVars, EarlyInv
<1>2. CASE \E group \in SUBSET Inputs, single \in BOOLEAN : StartDecoder(group, single)
  BY <1>2, StartEarly
<1>3. CASE \E i \in Inputs, extra \in 0..MaxReserve : NewStream(i, Size(i) + extra)
  BY <1>3, NewStreamEarly
<1>4. ASSUME NEW i \in Inputs, RefStream(i) \/ CommitStream(i) PROVE EarlyInv'
  <2>1. status = "decode" /\ running' = running
    BY <1>4 DEF RefStream, CommitStream
  <2>2. PICK M \in Nat : st \in Records(M)
    BY <2>1, Decoding DEF Held, Good
  <2>3. running \subseteq Inputs
    BY <2>1, Decoding
  <2>4. /\ st'.head = st.head /\ st'.tail = st.tail
        /\ \A j \in Inputs : st'.data[j] = st.data[j] \/ st'.data[j].is = "committed"
    <3>1. DOMAIN st.data = Inputs /\ st.data[i] \in Stream
      BY <2>2 DEF Records
    <3>2. CASE RefStream(i)
      <4>1. st' = [st EXCEPT !.data = [st.data EXCEPT ![i] = Stored]]
        BY <3>2 DEF RefStream
      <4>2. st'.head = st.head /\ st'.tail = st.tail /\ st'.data = [st.data EXCEPT ![i] = Stored]
        BY <2>2, <4>1 DEF Records
      <4> QED BY <3>1, <4>2 DEF Stored
    <3>3. CASE CommitStream(i)
      <4>1. PICK m : st' = [st EXCEPT !.data = [st.data EXCEPT ![i].is = "committed"], !.mem = m]
        BY <3>3 DEF CommitStream
      <4>2. /\ st'.head = st.head /\ st'.tail = st.tail
            /\ st'.data = [st.data EXCEPT ![i].is = "committed"]
        BY <2>2, <4>1 DEF Records
      <4> QED BY <3>1, <4>2 DEF Stream
    <3> QED BY <1>4, <3>2, <3>3
  <2> QED BY <2>1, <2>3, <2>4, EarlyStays
<1>5. CASE EndDecoder
  BY <1>5 DEF EndDecoder, EarlyInv
<1>6. CASE RunConcat
  BY <1>6 DEF RunConcat, EarlyInv
<1> QED BY <1>1, <1>2, <1>3, <1>4, <1>5, <1>6 DEF AppendNext, Finished

(* A chunk is refused only when the output has no room for it, or when a   *)
(* decoder of several outputs created the first input that is missing      *)
(* while a later output of its own was committed: what is reserved in      *)
(* excess, and the order the decoders come in, never make one fail.        *)
THEOREM RefusalsJustified == AppendSpec => []RefusedForRoomOrOrder
<1>1. AppendInv /\ EarlyInv => RefusedForRoomOrOrder
  <2> SUFFICES ASSUME AppendInv, EarlyInv, status = "error", ~MovedWhileRunning
               PROVE  before + Len(Chunk) > Len(st.mem)
    BY DEF RefusedForRoomOrOrder
  <2>1. cut \in Cuts /\ before \in Nat
    BY AppendAssumption DEF AppendInv
  <2>2. ~Emptied
    BY DEF Emptied, EarlyInv, MovedWhileRunning
  <2>3. PICK M \in Nat : st \in Records(M) /\ M < before + cut[NbInputs]
    BY <2>2 DEF AppendInv, Held, Good
  <2>4. Len(st.mem) = M
    BY <2>3, LenOf
  <2>5. Len(Chunk) = cut[NbInputs] /\ cut[NbInputs] \in Nat
    BY <2>1, ChunkLen
  <2> QED BY <2>1, <2>3, <2>4, <2>5
<1>2. AppendInit => EarlyInv
  BY DEF AppendInit, EarlyInv
<1>3. AppendSpec => []EarlyInv
  BY <1>2, NextEarly, AppendInductive, PTL DEF AppendSpec
<1> QED BY <1>1, <1>3, AppendInductive, PTL
=============================================================================
