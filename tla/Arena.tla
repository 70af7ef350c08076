--------------------------------- MODULE Arena ---------------------------------
(***************************************************************************)
(* The arenas of common/allocation.c.  A stack arena hands out slices of   *)
(* one primary buffer and sends what does not fit to a heap arena.  All    *)
(* of it is released at once at the end of a session; the buffer is kept,  *)
(* grows at the first request of the next session if the last one did not  *)
(* fit, and is halved when it was too large for long enough.               *)
(*                                                                         *)
(* Pointers are numbers: a slice is known by its offset, a heap block by   *)
(* its identity.  Whoever uses the arena may ask for any size, release and *)
(* enlarge in any order, and end the session at any time; malloc() and     *)
(* realloc() may fail.                                                     *)
(***************************************************************************)
EXTENDS Naturals, Sequences, FiniteSetsExt, Functions

CONSTANTS
    Alignment,     \* of slices (16)
    RedZone,       \* ZL_REDZONE_SIZE: 0, or 128 in builds with poisoning
    PBuffSizeMin,  \* pBuffSizeMin (4080)
    PBuffSizeMax,  \* ALLOC_STACK_SIZE_MAX
    SizeDown,      \* PBUFF_SIZEDOWN_THRESHOLD
    SizeMax,       \* the largest size_t
    Sizes,         \* the sizes that are requested
    MaxRequests,   \* bound: requests of a session
    Plans          \* sequences of sizes that a steady user repeats

ASSUME ArenaAssumption ==
    /\ Alignment \in Nat /\ Alignment > 1
    /\ RedZone \in Nat /\ SizeDown \in Nat
    /\ PBuffSizeMin \in Nat \ {0} /\ PBuffSizeMax \in Nat /\ SizeMax \in Nat
    /\ PBuffSizeMax < SizeMax
    /\ Sizes \subseteq 0..SizeMax /\ MaxRequests \in Nat

(* A steady user asks for what memory there is.                            *)
ASSUME PlansAssumption == Plans \subseteq Seq(0..(SizeMax \div 2))

VARIABLES
    pba,     \* StackArena: [there, cap, used, would, usage, wasted]
    ptrs,    \* heapBackup.ptrs: the blocks, in a vector
    index,   \* HeapMeta.index of each block
    slices,  \* slices that are in use: [no, off, size, alive]
    blocks,  \* heap blocks in use
    asked,   \* requests of the session
    plan     \* <<>> or the requests that every session repeats

vars == <<pba, ptrs, index, slices, blocks, asked, plan>>
heap == <<ptrs, index, blocks>>

(* ALLOC_StackArena_create()                                               *)
Fresh == [there |-> FALSE, cap |-> 0, used |-> 0, would |-> 0, usage |-> 0, wasted |-> 0]

Init ==
    /\ pba = Fresh
    /\ ptrs = <<>> /\ index = <<>> /\ slices = {} /\ blocks = {}
    /\ asked = 0 /\ plan = <<>>

-----------------------------------------------------------------------------
(* The heap arena.                                                         *)

NewBlock == CHOOSE b \in 1..(Cardinality(blocks) + 1) : b \notin blocks

(* malloc() gives no more than half of the address space.                  *)
Obtainable(size) == size <= SizeMax \div 2

(* ALLOC_HeapArena_malloc(): the block is pushed to the vector, or freed   *)
(* again when that fails.                                                  *)
HeapMalloc(size) ==
    /\ Obtainable(size)
    /\ LET b == NewBlock IN
       /\ blocks' = blocks \cup {b}
       /\ index' = [c \in DOMAIN index \cup {b} |->
                      IF c = b THEN Len(ptrs) + 1 ELSE index[c]]
       /\ ptrs' = Append(ptrs, b)

(* ALLOC_HeapArena_freeSegment(): the last block takes the place.          *)
FaultyWithout(b) ==
    LET last == ptrs[Len(ptrs)]
    IN  [vector |-> SubSeq([ptrs EXCEPT ![index[b]] = last], 1, Len(ptrs) - 1),
         places |-> [c \in DOMAIN index \ {b} |-> index[c]]]
Without(b) ==
    LET last == ptrs[Len(ptrs)]
    IN  [vector |-> SubSeq([ptrs EXCEPT ![index[b]] = last], 1, Len(ptrs) - 1),
         places |-> [c \in DOMAIN index \ {b} |->
                       IF c = last THEN index[b] ELSE index[c]]]

HeapFree(b) ==
    /\ ptrs' = Without(b).vector
    /\ index' = Without(b).places
    /\ blocks' = blocks \ {b}

(* ALLOC_HeapArena_realloc(), when realloc() moves the block               *)
HeapMove(b) ==
    LET n == NewBlock IN
    /\ ptrs' = [ptrs EXCEPT ![index[b]] = n]
    /\ index' = [c \in (DOMAIN index \ {b}) \cup {n} |->
                   IF c = n THEN index[b] ELSE index[c]]
    /\ blocks' = (blocks \ {b}) \cup {n}

-----------------------------------------------------------------------------
(* ALLOC_StackArena_malloc(), and ALLOC_StackArena_calloc(), which clears  *)
(* what it gets.                                                           *)

Size(request) == request + RedZone
Needed(request) == Size(request) + (Alignment - 1)
Overflows(request) == Needed(request) > SizeMax
Add(a, b) == (a + b) % (SizeMax + 1)
Aligned(n) == ((n + (Alignment - 1)) \div Alignment) * Alignment

(* The first request of a session finds the buffer too small, or the last  *)
(* session did.                                                            *)
MustResize(request) ==
    /\ pba.used = 0
    /\ pba.cap - pba.used < Needed(request) \/ pba.would > 0

ToAllocate(request) ==
    Max({Add(pba.cap, pba.would), Needed(request), PBuffSizeMin})

(* Slices of a buffer that was freed or moved refer to nothing.            *)
Orphaned(ss) == {[s EXCEPT !.alive = FALSE] : s \in ss}
Slice(off, request) ==
    [no |-> asked, off |-> off, size |-> Size(request), alive |-> TRUE]

FaultyResized(request, used) ==
    [pba EXCEPT !.there = TRUE, !.cap = ToAllocate(request), !.used = used]
Resized(request, used) ==
    [pba EXCEPT !.there = TRUE, !.cap = ToAllocate(request), !.used = used,
                !.would = 0]

FromNewBuffer(request) ==
    /\ MustResize(request)
    /\ ToAllocate(request) <= PBuffSizeMax
    /\ pba' = [Resized(request, Needed(request)) EXCEPT !.usage = Add(@, Needed(request))]
    /\ slices' = Orphaned(slices) \cup {Slice(0, request)}
    /\ UNCHANGED heap

(* Even an empty slice starts inside of the buffer, and the first one of a *)
(* session moves used.                                                     *)
FaultyFits(request) ==
    /\ pba.cap - pba.used >= Needed(request)
    /\ Aligned(pba.used) + Size(request) <= pba.cap
Fits(request) ==
    /\ pba.cap - pba.used >= Needed(request)
    /\ Aligned(pba.used) + Max({Size(request), 1}) <= pba.cap

UsedAfter(request) ==
    Aligned(pba.used) + Size(request) + (IF pba.used = 0 THEN 1 ELSE 0)

FromBuffer(request) ==
    /\ ~MustResize(request) /\ Fits(request)
    /\ pba' = [pba EXCEPT !.used = UsedAfter(request), !.usage = Add(@, Needed(request))]
    /\ slices' = slices \cup {Slice(Aligned(pba.used), request)}
    /\ UNCHANGED heap

(* The buffer is freed, and there is no new one.                           *)
NoBuffer == [pba EXCEPT !.there = FALSE, !.cap = 0, !.used = 0, !.would = 0]

(* The request is refused, because of the limit of the arena, or goes to   *)
(* the heap arena: what it would have needed is then counted, whether or   *)
(* not there is memory.                                                    *)
FromHeap(request) ==
    LET resize == MustResize(request)
        p == IF resize THEN NoBuffer ELSE pba
    IN  /\ resize \/ ~Fits(request)
        /\ slices' = IF resize THEN Orphaned(slices) ELSE slices
        /\ \/ /\ pba' = [p EXCEPT !.usage = Add(@, Needed(request))]
              /\ UNCHANGED heap
           \/ /\ pba' = [p EXCEPT !.would = Add(@, Needed(request)),
                                  !.usage = Add(@, Needed(request))]
              /\ HeapMalloc(request) \/ UNCHANGED heap

Request(request) ==
    /\ ~Overflows(request)
    /\ asked < MaxRequests /\ asked' = asked + 1
    /\ FromNewBuffer(request) \/ FromBuffer(request) \/ FromHeap(request)

-----------------------------------------------------------------------------
(* ALLOC_StackArena_inPrimaryBuffer()                                      *)
InPrimaryBuffer(s) == pba.there /\ s.off < pba.cap

(* ALLOC_StackArena_realloc(): a slice is copied to the heap arena, a      *)
(* block is enlarged there, in place or not, and NULL is a new block.      *)
ReallocSlice(s, size) ==
    /\ InPrimaryBuffer(s)
    /\ asked < MaxRequests /\ asked' = asked + 1
    /\ HeapMalloc(size)
    /\ slices' = slices \ {s}
    /\ UNCHANGED <<pba, plan>>

ReallocBlock(b, size) ==
    /\ Obtainable(size)
    /\ HeapMove(b)
    /\ UNCHANGED <<pba, slices, asked, plan>>

ReallocNull(size) ==
    /\ asked < MaxRequests /\ asked' = asked + 1
    /\ HeapMalloc(size)
    /\ UNCHANGED <<pba, slices, plan>>

(* ALLOC_StackArena_freeSegment()                                          *)
FreeSlice(s) ==
    /\ InPrimaryBuffer(s)
    /\ slices' = slices \ {s}
    /\ UNCHANGED <<pba, ptrs, index, blocks, asked, plan>>

FreeBlock(b) ==
    /\ HeapFree(b)
    /\ UNCHANGED <<pba, slices, asked, plan>>

(* ALLOC_StackArena_freeAllSegments(): realloc() of the smaller buffer may *)
(* fail; realloc() to nothing frees it.                                    *)
FaultyTooLarge(p) == p.usage <= p.cap \div 2
TooLarge(p) == p.usage < p.cap \div 2
Wasted(p) == IF TooLarge(p) THEN p.wasted + p.cap ELSE 0

Reset(p, shrinks) ==
    LET halved == Wasted(p) > SizeDown
        cap == IF ~halved THEN p.cap ELSE IF shrinks THEN p.cap \div 2 ELSE 0
    IN  [there |-> p.there /\ (~halved \/ shrinks), cap |-> cap, used |-> 0,
         would |-> p.would, usage |-> 0,
         wasted |-> IF halved THEN 0 ELSE Wasted(p)]

FreeAll(shrinks) ==
    /\ pba' = Reset(pba, shrinks)
    /\ ptrs' = <<>> /\ index' = <<>> /\ blocks' = {} /\ slices' = {}
    /\ asked' = 0
    /\ UNCHANGED plan

(* ALLOC_StackArena_freeArena(), then perhaps another arena                *)
FreeArena ==
    /\ pba' = Fresh
    /\ ptrs' = <<>> /\ index' = <<>> /\ blocks' = {} /\ slices' = {}
    /\ asked' = 0
    /\ UNCHANGED plan

-----------------------------------------------------------------------------
Unsteady == plan = <<>>

AnyUse ==
    /\ Unsteady
    /\ \/ \E r \in Sizes : Request(r) /\ UNCHANGED plan
       \/ \E s \in slices, r \in Sizes : ReallocSlice(s, r)
       \/ \E b \in blocks, r \in Sizes : ReallocBlock(b, r)
       \/ \E r \in Sizes : ReallocNull(r)
       \/ \E s \in slices : FreeSlice(s)
       \/ \E b \in blocks : FreeBlock(b)
       \/ \E shrinks \in BOOLEAN : FreeAll(shrinks)
       \/ FreeArena

(* From some session on the user asks for the same sizes in every session, *)
(* and memory does not run out.                                            *)
Settle ==
    /\ Unsteady /\ asked = 0
    /\ \E p \in Plans : plan' = p
    /\ UNCHANGED <<pba, ptrs, index, slices, blocks, asked>>

SteadyRequest ==
    /\ ~Unsteady /\ asked < Len(plan) /\ asked' = asked + 1
    /\ LET r == plan[asked + 1] IN
       \/ FromNewBuffer(r)
       \/ FromBuffer(r)
       \/ /\ MustResize(r) => ToAllocate(r) > PBuffSizeMax
          /\ FromHeap(r) /\ blocks' # blocks
    /\ UNCHANGED plan

SteadyEnd ==
    /\ ~Unsteady /\ asked = Len(plan)
    /\ FreeAll(TRUE)

Next == AnyUse \/ Settle \/ SteadyRequest \/ SteadyEnd
Spec == Init /\ [][Next]_vars /\ WF_vars(SteadyRequest \/ SteadyEnd)

-----------------------------------------------------------------------------
(* Properties.                                                             *)

(* Slices in use are in a buffer that is there, aligned, inside of it, and *)
(* apart from each other, red zones included; the address of each is one   *)
(* that free() and realloc() take for a slice, although an empty slice has *)
(* no byte and pBuffUsed alone says whether a session has begun            *)
(* (allocation.c:566, 620, 634).                                           *)
SlicesApart ==
    /\ \A s \in slices :
         /\ s.alive /\ InPrimaryBuffer(s)
         /\ s.off % Alignment = 0 /\ s.off + s.size <= pba.cap
         /\ pba.used > 0 /\ s.off + s.size <= pba.used
    /\ \A s, t \in slices :
         s.no < t.no => s.off + s.size <= t.off

(* The vector of the heap arena holds each block in use once, at the place *)
(* that the block remembers: freeAll() leaks nothing, and free() and       *)
(* realloc() of a block touch no other (allocation.c:296, 318).            *)
BackupExact ==
    /\ DOMAIN index = blocks
    /\ Len(ptrs) = Cardinality(blocks)
    /\ \A b \in blocks : index[b] \in 1..Len(ptrs) /\ ptrs[index[b]] = b

(* The capacity is that of a buffer that is there, also after any number   *)
(* of halvings and failures: the buffer is never resized to nothing, which *)
(* realloc() answers with NULL after it has freed it, and                  *)
(* freeAllSegments() would free it again (allocation.c:760).               *)
CapacityOfBuffer == pba.there <=> pba.cap > 0

Total(p) == FoldFunction(+, 0, [i \in DOMAIN p |-> Needed(p[i])])
Spills == blocks # {} /\ plan # <<>> /\ 2 * Total(plan) <= PBuffSizeMax

(* A user that asks for the same sizes in every session is served from the *)
(* primary buffer, eventually and for good, if they take up to half of the *)
(* largest buffer: neither growth after a spill nor halving undoes the     *)
(* other (allocation.c:577).  Beyond half of it they may, as growth past   *)
(* the maximum gives up the buffer.                                        *)
SettlesInBuffer == <>[]~Spills
=============================================================================
