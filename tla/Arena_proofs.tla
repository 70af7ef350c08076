------------------------------ MODULE Arena_proofs ------------------------------
(***************************************************************************)
(* Proofs about Arena, for any alignment of at least 2, any red zone, any  *)
(* sizes of the buffer, of requests and of size_t, and any plan.           *)
(***************************************************************************)
EXTENDS Arena, TLAPS, FiniteSetTheorems, SequenceTheorems

USE ArenaAssumption

-----------------------------------------------------------------------------
(* The inductive invariant, in four parts.                                 *)

(* The heap arena: the vector and the places are inverse to each other.    *)
HeapOK ==
    /\ IsFiniteSet(blocks) /\ blocks \subseteq Nat
    /\ ptrs \in Seq(blocks) /\ Len(ptrs) = Cardinality(blocks)
    /\ index \in [blocks -> 1..Len(ptrs)]
    /\ \A b \in blocks : ptrs[index[b]] = b
    /\ \A i \in 1..Len(ptrs) : index[ptrs[i]] = i

(* The primary buffer.                                                     *)
BufferOK ==
    /\ pba \in [there : BOOLEAN, cap : Nat, used : Nat, would : Nat,
                usage : Nat, wasted : Nat]
    /\ pba.used <= pba.cap
    /\ CapacityOfBuffer

(* The slices, which are numbered by the requests of the session.          *)
SlicesOK ==
    /\ asked \in Nat
    /\ slices \subseteq [no : Nat, off : Nat, size : Nat, alive : BOOLEAN]
    /\ \A s \in slices : s.no < asked
    /\ SlicesApart

PlanOK == plan \in Seq(Nat)

IInv == HeapOK /\ BufferOK /\ SlicesOK /\ PlanOK

-----------------------------------------------------------------------------
(* Arithmetic.                                                             *)

(* Rounding up gives a multiple of the alignment that is not below.        *)
LEMMA AlignedUp ==
    ASSUME NEW n \in Nat
    PROVE  /\ Aligned(n) \in Nat
           /\ Aligned(n) >= n
           /\ Aligned(n) % Alignment = 0
<1> DEFINE q == (n + (Alignment - 1)) \div Alignment
<1>1. q \in Nat
  OBVIOUS
<1>2. q * Alignment > n - 1
  OBVIOUS
<1>3. (q * Alignment) % Alignment = 0
  BY <1>1
<1>4. QED
  BY <1>1, <1>2, <1>3 DEF Aligned

(* The maximum of three and of two numbers.                                *)
LEMMA LargestOfThree ==
    ASSUME NEW a \in Nat, NEW b \in Nat, NEW c \in Nat
    PROVE  /\ Max({a, b, c}) \in Nat
           /\ Max({a, b, c}) >= a /\ Max({a, b, c}) >= b /\ Max({a, b, c}) >= c
BY DEF Max

LEMMA LargestOfTwo ==
    ASSUME NEW a \in Nat, NEW b \in Nat
    PROVE  Max({a, b}) \in Nat /\ Max({a, b}) >= a /\ Max({a, b}) >= b
BY DEF Max

(* Sizes are numbers, whatever is asked for, and sums wrap around.         *)
LEMMA SizeTypes ==
    ASSUME NEW request \in Nat
    PROVE  /\ Size(request) \in Nat /\ Needed(request) \in Nat
           /\ Needed(request) >= Size(request) + 1
BY DEF Size, Needed

LEMMA AddType ==
    ASSUME NEW a \in Nat, NEW b \in Nat
    PROVE  Add(a, b) \in Nat
BY DEF Add

-----------------------------------------------------------------------------
(* The heap arena.                                                         *)

(* There is a number that no block has.                                    *)
LEMMA NewBlockIsNew ==
    ASSUME HeapOK
    PROVE  NewBlock \in Nat /\ NewBlock \notin blocks
<1>1. /\ IsFiniteSet(blocks)
      /\ Cardinality(blocks) \in Nat
  BY FS_CardinalityType DEF HeapOK
<1> DEFINE S == 1..(Cardinality(blocks) + 1)
<1>2. IsFiniteSet(S) /\ Cardinality(S) = Cardinality(blocks) + 1
  BY <1>1, FS_Interval
<1>3. ~(S \subseteq blocks)
  <2>1. ASSUME S \subseteq blocks PROVE Cardinality(S) <= Cardinality(blocks)
    BY <1>1, <2>1, FS_Subset
  <2>2. QED
    BY <1>1, <1>2, <2>1
<1>4. \E b \in S : b \notin blocks
  BY <1>3
<1>5. NewBlock \in S /\ NewBlock \notin blocks
  BY <1>4 DEF NewBlock
<1>6. QED
  BY <1>1, <1>5

(* A block is added at the end of the vector.                              *)
LEMMA HeapMallocKeeps ==
    ASSUME HeapOK, NEW size, HeapMalloc(size)
    PROVE  HeapOK'
<1> DEFINE b == NewBlock
<1>1. b \in Nat /\ b \notin blocks
  BY NewBlockIsNew
<1>2. /\ blocks' = blocks \cup {b}
      /\ index' = [c \in DOMAIN index \cup {b} |->
                     IF c = b THEN Len(ptrs) + 1 ELSE index[c]]
      /\ ptrs' = Append(ptrs, b)
  BY DEF HeapMalloc
<1>3. /\ IsFiniteSet(blocks') /\ blocks' \subseteq Nat
      /\ Cardinality(blocks') = Cardinality(blocks) + 1
  BY <1>1, <1>2, FS_AddElement DEF HeapOK
<1>4. /\ ptrs \in Seq(blocks') /\ Len(ptrs) \in Nat
  BY <1>2 DEF HeapOK
<1>5. /\ ptrs' \in Seq(blocks') /\ Len(ptrs') = Len(ptrs) + 1
      /\ \A i \in 1..Len(ptrs) : ptrs'[i] = ptrs[i]
      /\ ptrs'[Len(ptrs) + 1] = b
  BY <1>2, <1>4, AppendProperties
<1>6. /\ index' \in [blocks' -> 1..Len(ptrs')]
      /\ index'[b] = Len(ptrs) + 1
      /\ \A c \in blocks : index'[c] = index[c]
  BY <1>1, <1>2, <1>4, <1>5 DEF HeapOK
<1>7. \A c \in blocks' : ptrs'[index'[c]] = c
  BY <1>2, <1>4, <1>5, <1>6 DEF HeapOK
<1>8. \A i \in 1..Len(ptrs') : index'[ptrs'[i]] = i
  <2> SUFFICES ASSUME NEW i \in 1..Len(ptrs') PROVE index'[ptrs'[i]] = i
    OBVIOUS
  <2>1. CASE i = Len(ptrs) + 1
    BY <2>1, <1>5, <1>6
  <2>2. CASE i # Len(ptrs) + 1
    <3>1. i \in 1..Len(ptrs) /\ ptrs'[i] = ptrs[i] /\ ptrs[i] \in blocks
      BY <2>2, <1>4, <1>5 DEF HeapOK
    <3>2. QED
      BY <3>1, <1>6 DEF HeapOK
  <2>3. QED
    BY <2>1, <2>2
<1>9. QED
  BY <1>3, <1>5, <1>6, <1>7, <1>8 DEF HeapOK

(* A block is released: the last one takes its place and remembers it.     *)
LEMMA HeapFreeKeeps ==
    ASSUME HeapOK, NEW b \in blocks, HeapFree(b)
    PROVE  HeapOK'
<1> DEFINE n == Len(ptrs)
           last == ptrs[n]
           moved == [ptrs EXCEPT ![index[b]] = last]
<1>1. /\ n \in Nat /\ index[b] \in 1..n /\ ptrs[index[b]] = b
      /\ n \in 1..n /\ n - 1 \in Nat
      /\ last \in blocks /\ index[last] = n
  BY DEF HeapOK
<1>2. /\ moved \in Seq(blocks) /\ Len(moved) = n
      /\ \A i \in 1..n : moved[i] = IF i = index[b] THEN last ELSE ptrs[i]
  BY <1>1, ExceptSeq DEF HeapOK
<1>3. /\ ptrs' = SubSeq(moved, 1, n - 1)
      /\ index' = [c \in DOMAIN index \ {b} |->
                     IF c = last THEN index[b] ELSE index[c]]
      /\ blocks' = blocks \ {b}
  BY DEF HeapFree, Without
<1>4. /\ IsFiniteSet(blocks') /\ blocks' \subseteq Nat
      /\ Cardinality(blocks') = n - 1
  BY <1>1, <1>3, FS_RemoveElement DEF HeapOK
<1>5. \A i \in 1..(n - 1) : moved[i] \in blocks'
  <2> SUFFICES ASSUME NEW i \in 1..(n - 1) PROVE moved[i] \in blocks /\ moved[i] # b
    BY <1>3
  <2>1. i \in 1..n /\ moved[i] \in blocks
    BY <1>1, <1>2
  <2>2. CASE i = index[b]
    <3>1. moved[i] = last
      BY <1>2, <2>1, <2>2
    <3>2. last # b
      BY <1>1, <2>2
    <3>3. QED
      BY <2>1, <3>1, <3>2
  <2>3. CASE i # index[b]
    <3>1. moved[i] = ptrs[i] /\ index[ptrs[i]] = i
      BY <1>2, <2>1, <2>3 DEF HeapOK
    <3>2. QED
      BY <2>1, <2>3, <3>1
  <2>4. QED
    BY <2>2, <2>3
<1>6. /\ ptrs' \in Seq(blocks') /\ Len(ptrs') = n - 1
      /\ \A i \in 1..(n - 1) : ptrs'[i] = moved[i]
  <2>1. /\ ptrs' \in Seq(blocks) /\ Len(ptrs') = n - 1
        /\ \A i \in 1..(n - 1) : ptrs'[i] = moved[i]
    BY <1>1, <1>2, <1>3
  <2>2. \A i \in 1..Len(ptrs') : ptrs'[i] \in blocks'
    BY <1>5, <2>1
  <2>3. QED
    BY <2>1, <2>2
<1>7. /\ DOMAIN index' = blocks'
      /\ \A c \in blocks' : index'[c] = IF c = last THEN index[b] ELSE index[c]
  BY <1>3 DEF HeapOK
<1>8. \A c \in blocks' : /\ index'[c] \in 1..(n - 1)
                         /\ ptrs'[index'[c]] = c
  <2> SUFFICES ASSUME NEW c \in blocks'
               PROVE  index'[c] \in 1..(n - 1) /\ ptrs'[index'[c]] = c
    OBVIOUS
  <2>1. c \in blocks /\ c # b /\ index[c] \in 1..n /\ ptrs[index[c]] = c
    BY <1>3 DEF HeapOK
  <2>2. CASE c = last
    <3>1. index'[c] = index[b] /\ index[b] # n
      BY <1>1, <1>7, <2>1, <2>2
    <3>2. index[b] \in 1..(n - 1) /\ moved[index[b]] = last
      BY <1>1, <1>2, <3>1
    <3>3. QED
      BY <1>6, <2>2, <3>1, <3>2
  <2>3. CASE c # last
    <3>1. index'[c] = index[c] /\ index[c] # n /\ index[c] # index[b]
      BY <1>1, <1>7, <2>1, <2>3
    <3>2. index[c] \in 1..(n - 1) /\ moved[index[c]] = c
      BY <1>1, <1>2, <2>1, <3>1
    <3>3. QED
      BY <1>6, <3>1, <3>2
  <2>4. QED
    BY <2>2, <2>3
<1>9. \A i \in 1..(n - 1) : index'[ptrs'[i]] = i
  <2> SUFFICES ASSUME NEW i \in 1..(n - 1) PROVE index'[ptrs'[i]] = i
    OBVIOUS
  <2>1. ptrs'[i] = moved[i] /\ moved[i] \in blocks' /\ i \in 1..n
    BY <1>1, <1>5, <1>6
  <2>2. CASE i = index[b]
    BY <1>2, <1>7, <2>1, <2>2
  <2>3. CASE i # index[b]
    <3>1. moved[i] = ptrs[i] /\ index[ptrs[i]] = i
      BY <1>2, <2>1, <2>3 DEF HeapOK
    <3>2. ptrs[i] # last
      BY <1>1, <3>1
    <3>3. QED
      BY <1>7, <2>1, <3>1, <3>2
  <2>4. QED
    BY <2>2, <2>3
<1>10. index' \in [blocks' -> 1..Len(ptrs')]
  <2>1. \A c \in blocks' : index'[c] \in 1..Len(ptrs')
    BY <1>6, <1>8
  <2>2. index' = [c \in blocks' |-> index'[c]]
    BY <1>3 DEF HeapOK
  <2>3. QED
    BY <2>1, <2>2
<1>11. QED
  BY <1>4, <1>6, <1>8, <1>9, <1>10 DEF HeapOK

(* A block is enlarged elsewhere: it keeps its place.                      *)
LEMMA HeapMoveKeeps ==
    ASSUME HeapOK, NEW b \in blocks, HeapMove(b)
    PROVE  HeapOK'
<1> DEFINE n == NewBlock
<1>1. n \in Nat /\ n \notin blocks
  BY NewBlockIsNew
<1>2. /\ ptrs' = [ptrs EXCEPT ![index[b]] = n]
      /\ index' = [c \in (DOMAIN index \ {b}) \cup {n} |->
                     IF c = n THEN index[b] ELSE index[c]]
      /\ blocks' = (blocks \ {b}) \cup {n}
  BY DEF HeapMove
<1>3. /\ Len(ptrs) \in Nat /\ index[b] \in 1..Len(ptrs) /\ ptrs[index[b]] = b
  BY DEF HeapOK
<1>4. /\ IsFiniteSet(blocks') /\ blocks' \subseteq Nat
      /\ Cardinality(blocks') = Cardinality(blocks)
  <2>1. /\ IsFiniteSet(blocks \ {b})
        /\ Cardinality(blocks \ {b}) = Cardinality(blocks) - 1
    BY FS_RemoveElement DEF HeapOK
  <2>2. /\ IsFiniteSet(blocks')
        /\ Cardinality(blocks') = Cardinality(blocks \ {b}) + 1
    BY <1>1, <1>2, <2>1, FS_AddElement
  <2>3. Cardinality(blocks) \in Nat
    BY FS_CardinalityType DEF HeapOK
  <2>4. QED
    BY <1>1, <1>2, <2>1, <2>2, <2>3 DEF HeapOK
<1>5. /\ ptrs' \in Seq(blocks \cup {n}) /\ Len(ptrs') = Len(ptrs)
      /\ \A i \in 1..Len(ptrs) : ptrs'[i] = IF i = index[b] THEN n ELSE ptrs[i]
  <2>1. ptrs \in Seq(blocks \cup {n})
    BY DEF HeapOK
  <2>2. QED
    BY <1>2, <1>3, <2>1, ExceptSeq
<1>6. ptrs' \in Seq(blocks')
  <2>1. \A i \in 1..Len(ptrs') : ptrs'[i] \in blocks'
    <3> SUFFICES ASSUME NEW i \in 1..Len(ptrs') PROVE ptrs'[i] \in blocks'
      OBVIOUS
    <3>1. ptrs[i] \in blocks /\ index[ptrs[i]] = i
      BY <1>5 DEF HeapOK
    <3>2. QED
      BY <1>2, <1>5, <3>1
  <2>2. QED
    BY <1>5, <2>1
<1>7. /\ DOMAIN index' = blocks'
      /\ index'[n] = index[b]
      /\ \A c \in blocks \ {b} : index'[c] = index[c]
  BY <1>1, <1>2 DEF HeapOK
<1>8. \A c \in blocks' : index'[c] \in 1..Len(ptrs') /\ ptrs'[index'[c]] = c
  <2> SUFFICES ASSUME NEW c \in blocks'
               PROVE  index'[c] \in 1..Len(ptrs') /\ ptrs'[index'[c]] = c
    OBVIOUS
  <2>1. CASE c = n
    BY <1>3, <1>5, <1>7, <2>1
  <2>2. CASE c # n
    <3>1. c \in blocks /\ c # b
      BY <1>2, <2>2
    <3>2. index[c] \in 1..Len(ptrs) /\ ptrs[index[c]] = c
      BY <3>1 DEF HeapOK
    <3>3. index[c] # index[b]
      BY <1>3, <3>1, <3>2
    <3>4. QED
      BY <1>5, <1>7, <3>1, <3>2, <3>3
  <2>3. QED
    BY <2>1, <2>2
<1>9. \A i \in 1..Len(ptrs') : index'[ptrs'[i]] = i
  <2> SUFFICES ASSUME NEW i \in 1..Len(ptrs') PROVE index'[ptrs'[i]] = i
    OBVIOUS
  <2>1. ptrs[i] \in blocks /\ index[ptrs[i]] = i
    BY <1>5 DEF HeapOK
  <2>2. QED
    BY <1>5, <1>7, <2>1
<1>10. index' \in [blocks' -> 1..Len(ptrs')]
  <2>1. index' = [c \in blocks' |-> index'[c]]
    BY <1>2 DEF HeapOK
  <2>2. QED
    BY <1>8, <2>1
<1>11. QED
  BY <1>4, <1>5, <1>6, <1>8, <1>9, <1>10 DEF HeapOK

(* The session ends: nothing is left.                                      *)
LEMMA HeapEmptyOK ==
    ASSUME ptrs' = <<>>, index' = <<>>, blocks' = {}
    PROVE  HeapOK'
<1>1. IsFiniteSet({}) /\ Cardinality({}) = 0
  BY FS_EmptySet
<1>2. <<>> \in [{} -> 1..0]
  OBVIOUS
<1>3. QED
  BY <1>1, <1>2 DEF HeapOK

-----------------------------------------------------------------------------
(* The primary buffer and its slices.                                      *)

(* The first request of a session finds no slice in use.                   *)
LEMMA FirstRequest ==
    ASSUME BufferOK, SlicesOK, NEW request, MustResize(request)
    PROVE  slices = {} /\ pba.used = 0
BY DEF MustResize, SlicesOK, SlicesApart, BufferOK

(* A request served by a new buffer.                                       *)
LEMMA NewBufferKeeps ==
    ASSUME BufferOK, SlicesOK, NEW request \in Nat,
           FromNewBuffer(request), asked' = asked + 1
    PROVE  BufferOK' /\ SlicesOK'
<1> DEFINE need == Needed(request)
           cap == ToAllocate(request)
           new == Slice(0, request)
<1>1. slices = {}
  BY FirstRequest DEF FromNewBuffer
<1>2. need \in Nat /\ Size(request) \in Nat /\ need >= Size(request) + 1
  BY SizeTypes
<1>3. pba.cap \in Nat /\ pba.would \in Nat /\ pba.usage \in Nat
  BY DEF BufferOK
<1>4. cap \in Nat /\ cap >= need /\ cap > 0
  <2>1. Add(pba.cap, pba.would) \in Nat
    BY <1>3, AddType
  <2>2. cap \in Nat /\ cap >= need /\ cap >= PBuffSizeMin
    BY <1>2, <2>1, LargestOfThree DEF ToAllocate
  <2>3. QED
    BY <2>2
<1>5. Add(pba.usage, need) \in Nat
  BY <1>2, <1>3, AddType
<1>6. pba' = [pba EXCEPT !.there = TRUE, !.cap = cap, !.used = need,
                         !.would = 0, !.usage = Add(pba.usage, need)]
  BY DEF FromNewBuffer, Resized, BufferOK
<1>7. BufferOK' /\ pba'.there /\ pba'.cap = cap /\ pba'.used = need
  BY <1>2, <1>4, <1>5, <1>6 DEF BufferOK, CapacityOfBuffer
<1>8. slices' = {new}
  BY <1>1 DEF FromNewBuffer, Orphaned
<1>9. new \in [no : Nat, off : Nat, size : Nat, alive : BOOLEAN]
  BY <1>2 DEF Slice, SlicesOK
<1>10. /\ new.no = asked /\ new.off = 0 /\ new.size = Size(request) /\ new.alive
  BY DEF Slice
<1>11. 0 % Alignment = 0
  OBVIOUS
<1>12. SlicesApart'
  BY <1>2, <1>4, <1>7, <1>8, <1>10, <1>11 DEF SlicesApart, InPrimaryBuffer, SlicesOK
<1>13. QED
  BY <1>7, <1>8, <1>9, <1>10, <1>12 DEF SlicesOK

(* A slice of the buffer: it starts at or after what is used, and inside.  *)
LEMMA FromBufferKeeps ==
    ASSUME BufferOK, SlicesOK, NEW request \in Nat,
           FromBuffer(request), asked' = asked + 1
    PROVE  BufferOK' /\ SlicesOK'
<1> DEFINE need == Needed(request)
           size == Size(request)
           start == Aligned(pba.used)
           new == Slice(start, request)
<1>1. need \in Nat /\ size \in Nat /\ need >= size + 1
  BY SizeTypes
<1>2. /\ pba.cap \in Nat /\ pba.used \in Nat /\ pba.usage \in Nat
      /\ asked \in Nat
  BY DEF BufferOK, SlicesOK
<1>3. start \in Nat /\ start >= pba.used /\ start % Alignment = 0
  BY <1>2, AlignedUp
<1>4. pba.used = 0 => start = 0
  BY DEF Aligned
<1>5. pba.cap - pba.used >= need /\ start + size <= pba.cap /\ start < pba.cap
  <2>1. Max({size, 1}) \in Nat /\ Max({size, 1}) >= size /\ Max({size, 1}) >= 1
    BY <1>1, LargestOfTwo
  <2>2. pba.cap - pba.used >= need /\ start + Max({size, 1}) <= pba.cap
    BY DEF FromBuffer, Fits
  <2>3. QED
    BY <1>1, <1>2, <1>3, <2>1, <2>2
<1> DEFINE used == UsedAfter(request)
<1>6. /\ used \in Nat /\ used <= pba.cap /\ used > 0
      /\ used >= start + size
  <2>1. CASE pba.used = 0
    <3>1. used = size + 1 /\ start = 0
      BY <1>1, <1>4, <2>1 DEF UsedAfter
    <3>2. QED
      BY <1>1, <1>2, <1>5, <2>1, <3>1
  <2>2. CASE pba.used # 0
    <3>1. used = start + size
      BY <1>1, <1>3, <2>2 DEF UsedAfter
    <3>2. QED
      BY <1>1, <1>2, <1>3, <1>5, <2>2, <3>1
  <2>3. QED
    BY <2>1, <2>2
<1>7. Add(pba.usage, need) \in Nat
  BY <1>1, <1>2, AddType
<1>8. pba' = [pba EXCEPT !.used = used, !.usage = Add(pba.usage, need)]
  BY DEF FromBuffer
<1>9. /\ BufferOK' /\ pba'.there /\ pba'.cap = pba.cap /\ pba'.used = used
  <2> HIDE DEF used, need
  <2>1. /\ pba' \in [there : BOOLEAN, cap : Nat, used : Nat, would : Nat,
                     usage : Nat, wasted : Nat]
        /\ pba'.there = pba.there /\ pba'.cap = pba.cap /\ pba'.used = used
    BY <1>6, <1>7, <1>8 DEF BufferOK
  <2>2. pba.cap > 0
    BY <1>2, <1>6
  <2>3. pba.there
    BY <2>2 DEF BufferOK, CapacityOfBuffer
  <2>4. QED
    BY <1>6, <2>1, <2>2, <2>3 DEF BufferOK, CapacityOfBuffer
<1>10. slices' = slices \cup {new}
  BY DEF FromBuffer
<1>11. /\ new \in [no : Nat, off : Nat, size : Nat, alive : BOOLEAN]
       /\ new.no = asked /\ new.off = start /\ new.size = size /\ new.alive
  BY <1>1, <1>2, <1>3 DEF Slice
<1>12. ASSUME NEW s \in slices'
       PROVE  /\ s.alive /\ s.off < pba'.cap
              /\ s.off % Alignment = 0 /\ s.off + s.size <= pba'.cap
              /\ pba'.used > 0 /\ s.off + s.size <= pba'.used
              /\ s.no < asked'
  <2>1. CASE s = new
    BY <1>2, <1>3, <1>5, <1>6, <1>9, <1>11, <2>1
  <2>2. CASE s \in slices
    <3>1. /\ s.no \in Nat /\ s.off \in Nat /\ s.size \in Nat /\ s.no < asked
          /\ s.alive /\ s.off < pba.cap /\ s.off % Alignment = 0
          /\ s.off + s.size <= pba.used
      BY <2>2 DEF SlicesOK, SlicesApart, InPrimaryBuffer
    <3>2. QED
      BY <1>1, <1>2, <1>3, <1>6, <1>9, <3>1
  <2>3. QED
    BY <1>10, <2>1, <2>2
<1>13. ASSUME NEW s \in slices', NEW t \in slices', s.no < t.no
       PROVE  s.off + s.size <= t.off
  <2>1. CASE t = new
    <3>1. s \in slices
      BY <1>2, <1>10, <1>11, <1>13, <2>1
    <3>2. /\ s.off \in Nat /\ s.size \in Nat /\ s.off + s.size <= pba.used
      BY <3>1 DEF SlicesOK, SlicesApart
    <3>3. QED
      BY <1>2, <1>3, <1>11, <2>1, <3>2
  <2>2. CASE t \in slices
    <3>1. t.no \in Nat /\ t.no < asked
      BY <2>2 DEF SlicesOK
    <3>2. s \in slices
      BY <1>2, <1>10, <1>11, <1>13, <3>1
    <3>3. QED
      BY <1>13, <2>2, <3>2 DEF SlicesOK, SlicesApart
  <2>3. QED
    BY <1>10, <2>1, <2>2
<1>14. SlicesApart'
  BY <1>9, <1>12, <1>13 DEF SlicesApart, InPrimaryBuffer
<1>15. slices' \subseteq [no : Nat, off : Nat, size : Nat, alive : BOOLEAN]
  BY <1>10, <1>11 DEF SlicesOK
<1>16. QED
  BY <1>2, <1>9, <1>12, <1>14, <1>15 DEF SlicesOK

(* The slices when the buffer stays as it is and some of them are left.    *)
LEMMA FewerSlices ==
    ASSUME SlicesOK, slices' \subseteq slices, asked' \in Nat, asked' >= asked,
           pba'.there = pba.there, pba'.cap = pba.cap, pba'.used = pba.used
    PROVE  SlicesOK'
<1>1. SlicesApart'
  BY DEF SlicesOK, SlicesApart, InPrimaryBuffer
<1>2. \A s \in slices' : s.no < asked'
  BY DEF SlicesOK
<1>3. QED
  BY <1>1, <1>2 DEF SlicesOK

LEMMA NoSlices ==
    ASSUME slices' = {}, asked' \in Nat
    PROVE  SlicesOK'
BY DEF SlicesOK, SlicesApart

(* A request that goes to the heap arena, or is refused.                   *)
LEMMA FromHeapKeeps ==
    ASSUME HeapOK, BufferOK, SlicesOK, NEW request \in Nat,
           FromHeap(request), asked' = asked + 1
    PROVE  HeapOK' /\ BufferOK' /\ SlicesOK'
<1> DEFINE p == IF MustResize(request) THEN NoBuffer ELSE pba
<1>1. Needed(request) \in Nat
  BY SizeTypes
<1>2. /\ p \in [there : BOOLEAN, cap : Nat, used : Nat, would : Nat,
                usage : Nat, wasted : Nat]
      /\ p.used <= p.cap /\ (p.there <=> p.cap > 0)
  <2>1. CASE MustResize(request)
    <3>1. p = [pba EXCEPT !.there = FALSE, !.cap = 0, !.used = 0, !.would = 0]
      BY <2>1 DEF NoBuffer
    <3> HIDE DEF p
    <3>2. /\ p \in [there : BOOLEAN, cap : Nat, used : Nat, would : Nat,
                    usage : Nat, wasted : Nat]
          /\ p.there = FALSE /\ p.cap = 0 /\ p.used = 0
      BY <3>1 DEF BufferOK
    <3>3. QED
      BY <3>2
  <2>2. CASE ~MustResize(request)
    BY <2>2 DEF BufferOK, CapacityOfBuffer
  <2>3. QED
    BY <2>1, <2>2
<1>3. Add(p.would, Needed(request)) \in Nat /\ Add(p.usage, Needed(request)) \in Nat
  BY <1>1, <1>2, AddType
<1>4. \/ pba' = [p EXCEPT !.usage = Add(p.usage, Needed(request))]
      \/ pba' = [p EXCEPT !.would = Add(p.would, Needed(request)),
                          !.usage = Add(p.usage, Needed(request))]
  BY DEF FromHeap
<1>5. /\ BufferOK'
      /\ pba'.there = p.there /\ pba'.cap = p.cap /\ pba'.used = p.used
  BY <1>2, <1>3, <1>4 DEF BufferOK, CapacityOfBuffer
<1>6. SlicesOK'
  <2>1. asked' \in Nat /\ asked' >= asked
    BY DEF SlicesOK
  <2>2. CASE MustResize(request)
    <3>1. slices' = {}
      BY <2>2, FirstRequest DEF FromHeap, Orphaned
    <3>2. QED
      BY <2>1, <3>1, NoSlices
  <2>3. CASE ~MustResize(request)
    BY <1>5, <2>1, <2>3, FewerSlices DEF FromHeap
  <2>4. QED
    BY <2>2, <2>3
<1>7. HeapOK'
  <2>1. CASE HeapMalloc(request)
    BY <2>1, HeapMallocKeeps
  <2>2. CASE UNCHANGED heap
    BY <2>2 DEF heap, HeapOK
  <2>3. QED
    BY <2>1, <2>2 DEF FromHeap
<1>8. QED
  BY <1>5, <1>6, <1>7

(* Any request, of a user who does as it likes or of a steady one.         *)
LEMMA RequestKeeps ==
    ASSUME HeapOK, BufferOK, SlicesOK, NEW request \in Nat, asked' = asked + 1,
           FromNewBuffer(request) \/ FromBuffer(request) \/ FromHeap(request)
    PROVE  HeapOK' /\ BufferOK' /\ SlicesOK'
<1>1. CASE FromNewBuffer(request)
  BY <1>1, NewBufferKeeps DEF FromNewBuffer, heap, HeapOK
<1>2. CASE FromBuffer(request)
  BY <1>2, FromBufferKeeps DEF FromBuffer, heap, HeapOK
<1>3. CASE FromHeap(request)
  BY <1>3, FromHeapKeeps
<1>4. QED
  BY <1>1, <1>2, <1>3

(* The end of a session: a buffer is halved only if it is at least 2, so   *)
(* that some of it is left.                                                *)
LEMMA ResetKeeps ==
    ASSUME BufferOK, NEW shrinks \in BOOLEAN, pba' = Reset(pba, shrinks)
    PROVE  BufferOK'
<1> DEFINE halved == Wasted(pba) > SizeDown
<1>1. /\ pba.cap \in Nat /\ pba.usage \in Nat /\ pba.wasted \in Nat
      /\ pba.would \in Nat /\ pba.there \in BOOLEAN /\ (pba.there <=> pba.cap > 0)
  BY DEF BufferOK, CapacityOfBuffer
<1>2. Wasted(pba) \in Nat
  BY <1>1 DEF Wasted
<1>3. pba.cap \div 2 \in Nat
  BY <1>1
<1>4. halved => pba.cap \div 2 > 0 /\ pba.cap > 0
  <2>1. halved => TooLarge(pba)
    BY <1>1 DEF Wasted
  <2>2. TooLarge(pba) => pba.cap \div 2 > 0
    BY <1>1, <1>3 DEF TooLarge
  <2>3. pba.cap \div 2 > 0 => pba.cap > 0
    BY <1>1
  <2>4. QED
    BY <2>1, <2>2, <2>3
<1>5. CASE halved /\ shrinks
  <2>1. pba' = [there |-> pba.there, cap |-> pba.cap \div 2, used |-> 0,
                would |-> pba.would, usage |-> 0, wasted |-> 0]
    BY <1>1, <1>5 DEF Reset
  <2>2. QED
    <3> DEFINE half == pba.cap \div 2
    <3> HIDE DEF half
    <3>1. half \in Nat /\ half > 0 /\ pba.there
      BY <1>1, <1>3, <1>4, <1>5 DEF half
    <3>2. pba' = [there |-> pba.there, cap |-> half, used |-> 0,
                  would |-> pba.would, usage |-> 0, wasted |-> 0]
      BY <2>1 DEF half
    <3>3. QED
      BY <1>1, <3>1, <3>2 DEF BufferOK, CapacityOfBuffer
<1>6. CASE halved /\ ~shrinks
  <2>1. pba' = [there |-> FALSE, cap |-> 0, used |-> 0,
                would |-> pba.would, usage |-> 0, wasted |-> 0]
    BY <1>1, <1>6 DEF Reset
  <2>2. QED
    BY <1>1, <2>1 DEF BufferOK, CapacityOfBuffer
<1>7. CASE ~halved
  <2>1. pba' = [there |-> pba.there, cap |-> pba.cap, used |-> 0,
                would |-> pba.would, usage |-> 0, wasted |-> Wasted(pba)]
    BY <1>1, <1>7 DEF Reset
  <2>2. QED
    BY <1>1, <1>2, <2>1 DEF BufferOK, CapacityOfBuffer
<1>8. QED
  BY <1>5, <1>6, <1>7

LEMMA FreeAllKeeps ==
    ASSUME BufferOK, NEW shrinks \in BOOLEAN, FreeAll(shrinks)
    PROVE  HeapOK' /\ BufferOK' /\ SlicesOK'
BY HeapEmptyOK, ResetKeeps, NoSlices DEF FreeAll

-----------------------------------------------------------------------------
(* The theorems.                                                           *)

LEMMA InitOK == Init => IInv
<1> SUFFICES ASSUME Init PROVE IInv
  OBVIOUS
<1>1. IsFiniteSet({}) /\ Cardinality({}) = 0 /\ <<>> \in [{} -> 1..0]
  BY FS_EmptySet
<1>2. HeapOK
  BY <1>1 DEF Init, HeapOK
<1>3. BufferOK
  BY DEF Init, Fresh, BufferOK, CapacityOfBuffer
<1>4. SlicesOK
  BY DEF Init, SlicesOK, SlicesApart
<1>5. PlanOK
  BY DEF Init, PlanOK
<1>6. QED
  BY <1>2, <1>3, <1>4, <1>5 DEF IInv

(* What the user of an arena may do preserves the invariant.               *)
LEMMA AnyUseKeeps == IInv /\ AnyUse => IInv'
<1> SUFFICES ASSUME IInv, AnyUse PROVE IInv'
  OBVIOUS
<1> USE DEF IInv
<1>1. Sizes \subseteq Nat
  OBVIOUS
<1>2. ASSUME NEW r \in Sizes, Request(r), UNCHANGED plan PROVE IInv'
  BY <1>1, <1>2, RequestKeeps DEF Request, PlanOK
<1>3. ASSUME NEW s \in slices, NEW r \in Sizes, ReallocSlice(s, r) PROVE IInv'
  <2>1. HeapOK'
    BY <1>3, HeapMallocKeeps DEF ReallocSlice
  <2>2. BufferOK' /\ PlanOK'
    BY <1>3 DEF ReallocSlice, BufferOK, CapacityOfBuffer, PlanOK
  <2>3. SlicesOK'
    <3>1. asked' \in Nat /\ asked' >= asked
      BY <1>3 DEF ReallocSlice, SlicesOK
    <3>2. QED
      BY <1>3, <3>1, FewerSlices DEF ReallocSlice
  <2>4. QED
    BY <2>1, <2>2, <2>3
<1>4. ASSUME NEW b \in blocks, NEW r \in Sizes, ReallocBlock(b, r) PROVE IInv'
  <2>1. HeapOK'
    BY <1>4, HeapMoveKeeps DEF ReallocBlock
  <2>2. BufferOK' /\ SlicesOK' /\ PlanOK'
    BY <1>4 DEF ReallocBlock, BufferOK, CapacityOfBuffer, SlicesOK, SlicesApart,
                InPrimaryBuffer, PlanOK
  <2>3. QED
    BY <2>1, <2>2
<1>5. ASSUME NEW r \in Sizes, ReallocNull(r) PROVE IInv'
  <2>1. HeapOK'
    BY <1>5, HeapMallocKeeps DEF ReallocNull
  <2>2. BufferOK' /\ PlanOK'
    BY <1>5 DEF ReallocNull, BufferOK, CapacityOfBuffer, PlanOK
  <2>3. SlicesOK'
    <3>1. asked' \in Nat /\ asked' >= asked
      BY <1>5 DEF ReallocNull, SlicesOK
    <3>2. QED
      BY <1>5, <3>1, FewerSlices DEF ReallocNull
  <2>4. QED
    BY <2>1, <2>2, <2>3
<1>6. ASSUME NEW s \in slices, FreeSlice(s) PROVE IInv'
  <2>1. HeapOK' /\ BufferOK' /\ PlanOK'
    BY <1>6 DEF FreeSlice, HeapOK, BufferOK, CapacityOfBuffer, PlanOK
  <2>2. asked' \in Nat /\ asked' >= asked
    BY <1>6 DEF FreeSlice, SlicesOK
  <2>3. SlicesOK'
    BY <1>6, <2>2, FewerSlices DEF FreeSlice
  <2>4. QED
    BY <2>1, <2>3
<1>7. ASSUME NEW b \in blocks, FreeBlock(b) PROVE IInv'
  <2>1. HeapOK'
    BY <1>7, HeapFreeKeeps DEF FreeBlock
  <2>2. BufferOK' /\ SlicesOK' /\ PlanOK'
    BY <1>7 DEF FreeBlock, BufferOK, CapacityOfBuffer, SlicesOK, SlicesApart,
                InPrimaryBuffer, PlanOK
  <2>3. QED
    BY <2>1, <2>2
<1>8. ASSUME NEW shrinks \in BOOLEAN, FreeAll(shrinks) PROVE IInv'
  BY <1>8, FreeAllKeeps DEF FreeAll, PlanOK
<1>9. CASE FreeArena
  <2>1. HeapOK' /\ SlicesOK'
    BY <1>9, HeapEmptyOK, NoSlices DEF FreeArena
  <2>2. BufferOK' /\ PlanOK'
    BY <1>9 DEF FreeArena, Fresh, BufferOK, CapacityOfBuffer, PlanOK
  <2>3. QED
    BY <2>1, <2>2
<1>10. QED
  BY <1>2, <1>3, <1>4, <1>5, <1>6, <1>7, <1>8, <1>9 DEF AnyUse

LEMMA StepKeeps == IInv /\ [Next]_vars => IInv'
<1> SUFFICES ASSUME IInv, [Next]_vars PROVE IInv'
  OBVIOUS
<1>1. CASE AnyUse
  BY <1>1, AnyUseKeeps
<1>2. CASE Settle
  <2>1. plan' \in Seq(0..(SizeMax \div 2))
    BY <1>2, PlansAssumption DEF Settle
  <2>2. PlanOK'
    BY <2>1 DEF PlanOK
  <2>3. QED
    BY <1>2, <2>2 DEF Settle, IInv, HeapOK, BufferOK, CapacityOfBuffer,
                      SlicesOK, SlicesApart, InPrimaryBuffer
<1>3. CASE SteadyRequest
  <2> DEFINE r == plan[asked + 1]
  <2>1. r \in Nat
    BY <1>3 DEF SteadyRequest, IInv, PlanOK, SlicesOK
  <2>2. asked' = asked + 1 /\ plan' = plan
    BY <1>3 DEF SteadyRequest
  <2>3. FromNewBuffer(r) \/ FromBuffer(r) \/ FromHeap(r)
    BY <1>3 DEF SteadyRequest
  <2>4. HeapOK' /\ BufferOK' /\ SlicesOK'
    BY <2>1, <2>2, <2>3, RequestKeeps DEF IInv
  <2>5. QED
    BY <2>2, <2>4 DEF IInv, PlanOK
<1>4. CASE SteadyEnd
  BY <1>4, FreeAllKeeps DEF SteadyEnd, FreeAll, IInv, PlanOK
<1>5. CASE UNCHANGED vars
  BY <1>5 DEF vars, IInv, HeapOK, BufferOK, CapacityOfBuffer, SlicesOK,
              SlicesApart, InPrimaryBuffer, PlanOK
<1>6. QED
  BY <1>1, <1>2, <1>3, <1>4, <1>5 DEF Next

(* The invariant holds always.                                             *)
THEOREM Inductive == Spec => []IInv
BY InitOK, StepKeeps, PTL DEF Spec

(* Slices in use never overlap, lie in the buffer that is there and are    *)
(* recognized by free() and realloc() (ALLOC_StackArena_malloc).           *)
THEOREM SlicesNeverOverlap == Spec => []SlicesApart
<1>1. IInv => SlicesApart
  BY DEF IInv, SlicesOK
<1>2. QED
  BY <1>1, Inductive, PTL

(* The heap arena holds each block in use once, where the block says, in   *)
(* any order of allocations, releases and moves (ALLOC_HeapArena).         *)
THEOREM HeapArenaExact == Spec => []BackupExact
<1>1. IInv => BackupExact
  BY DEF IInv, HeapOK, BackupExact
<1>2. QED
  BY <1>1, Inductive, PTL

(* The buffer is never resized to nothing, and its capacity is 0 exactly   *)
(* when there is none (ALLOC_StackArena_freeAllSegments).                  *)
THEOREM CapacityIsOfBuffer == Spec => []CapacityOfBuffer
<1>1. IInv => CapacityOfBuffer
  BY DEF IInv, BufferOK
<1>2. QED
  BY <1>1, Inductive, PTL
=============================================================================
