---------------------------- MODULE CodecCache_proofs ----------------------------
(***************************************************************************)
(* Proofs about CodecCache, for any nodes, parameters, inputs and          *)
(* budgets and any nesting of trials.                                      *)
(*                                                                         *)
(* The argument: a stream refers to a cache of its own context, of one     *)
(* that it is derived from, or of the user, and never to the cache of a    *)
(* context above.  A private cache is emptied or freed only while its      *)
(* context is the top one and has no stream, and the user's cache only     *)
(* while nothing runs: so that what Dangle() marks is always empty.        *)
(*                                                                         *)
(* What a cache stores comes from an eligible run of one input.  Such a    *)
(* run reads nothing that its key does not have, except behind a pointer   *)
(* in its copied parameters.                                               *)
(***************************************************************************)
EXTENDS CodecCache, TLAPS, FiniteSetTheorems

-----------------------------------------------------------------------------
(* The inductive invariant.                                                *)

Cache == [alive : BOOLEAN, max : Nat, bytes : Nat, insert : BOOLEAN,
          map : SUBSET Entries]
Ctx == [attached : Owners \cup {None}, budget : Nat, active : BOOLEAN,
        frames : Seq(BOOLEAN), streams : SUBSET Streams, global : GlobalParams]

(* The hidden state that an eligible run reads, and its result as far as   *)
(* its key and the state b behind its pointers determine it.               *)
Behind(bytes) == IF bytes \in Pointing THEN {"pointer"} ELSE {}
MadeOf(key, b) ==
    [code |-> key.code, local |-> key.local, global |-> key.global,
     input |-> [bytes |-> key.bytes, lens |-> 0, more |-> 0], lens |-> 0,
     state |-> [q \in Behind(key.local) |-> b]]

EntryOK(e) ==
    /\ e.key.code \notin StringMakers
    /\ \E b \in BOOLEAN : e.result = MadeOf(e.key, b)

CacheOK(c) ==
    /\ c \in Cache /\ IsFiniteSet(c.map)
    /\ \A e \in c.map : EntryOK(e)
    /\ \A d, e \in c.map : d.key = e.key => d = e
    /\ c.bytes = Weight(c.map) /\ c.bytes <= c.max

CachesOK(cc) ==
    /\ cc \in [Owners -> Cache]
    /\ \A o \in Owners : CacheOK(cc[o])
    /\ cc[User].alive

(* The streams of the context at position i refer to nothing above it.     *)
StreamsOK(c, i) ==
    \A ref \in c.streams : ref = None \/ ref \in 0..i

(* It borrows from the user or from below, and what it uses is alive.      *)
UsesOK(cc, c, i) ==
    /\ c.attached # None => c.attached < i /\ cc[c.attached].alive
    /\ c.active => cc[i].alive

CtxsOK(cs, cc) ==
    /\ cs \in Seq(Ctx) /\ Len(cs) \in 1..(MaxNesting + 1)
    /\ \A i \in 1..Len(cs) : StreamsOK(cs[i], i) /\ UsesOK(cc, cs[i], i)

IdleOK ==
    /\ phase \in {"idle", "compress"} /\ hidden \in [Kinds -> BOOLEAN]
    /\ phase = "idle" => Len(ctxs) = 1 /\ ctxs[1].streams = {}

IInv == CachesOK(caches) /\ CtxsOK(ctxs, caches) /\ IdleOK

-----------------------------------------------------------------------------
(* Caches.                                                                 *)

LEMMA OwnerFacts ==
    /\ MaxNesting \in Nat
    /\ Owners = 0..(MaxNesting + 1) /\ User \in Owners /\ User = 0
    /\ None \notin Owners /\ Dangling \notin Owners /\ Dangling # None
    /\ None \in Nat
BY CodecCacheAssumption DEF Owners, User, None, Dangling

LEMMA NewCacheOK ==
    ASSUME NEW max \in Nat
    PROVE  CacheOK(NewCache(max)) /\ NewCache(max).alive
<1>1. IsFiniteSet({}) /\ Cardinality({}) = 0
  BY FS_EmptySet
<1>2. {e \in {} : e.key.bytes \notin EmptyOutput} = {}
  OBVIOUS
<1>3. Weight({}) = 0
  BY <1>1, <1>2 DEF Weight
<1>4. QED
  BY <1>1, <1>3 DEF CacheOK, NewCache, Cache

LEMMA NoCacheOK == CacheOK(NoCache)
<1>1. IsFiniteSet({}) /\ Cardinality({}) = 0
  BY FS_EmptySet
<1>2. {e \in {} : e.key.bytes \notin EmptyOutput} = {}
  OBVIOUS
<1>3. Weight({}) = 0
  BY <1>1, <1>2 DEF Weight
<1>4. QED
  BY <1>1, <1>3 DEF CacheOK, NoCache, Cache

(* Putting a cache in place of another.                                    *)
LEMMA PutCache ==
    ASSUME NEW cc, CachesOK(cc), NEW o \in Owners, NEW c, CacheOK(c),
           o = User => c.alive
    PROVE  CachesOK([cc EXCEPT ![o] = c])
BY OwnerFacts DEF CachesOK, CacheOK

LEMMA ResetCacheOK ==
    ASSUME NEW c, CacheOK(c)
    PROVE  CacheOK(ResetCache(c)) /\ ResetCache(c).alive = c.alive
<1>1. c.max \in Nat /\ c.alive \in BOOLEAN
  BY DEF CacheOK, Cache
<1>2. CASE c.alive
  BY <1>1, <1>2, NewCacheOK DEF ResetCache
<1>3. CASE ~c.alive
  BY <1>3 DEF ResetCache
<1>4. QED
  BY <1>2, <1>3

LEMMA SetInsertOK ==
    ASSUME NEW c, CacheOK(c), NEW b \in BOOLEAN
    PROVE  /\ CacheOK([c EXCEPT !.insert = b])
           /\ [c EXCEPT !.insert = b].alive = c.alive
BY DEF CacheOK, Cache

(* Results with a field replaced.                                          *)
LEMMA SameRecord ==
    ASSUME NEW a, NEW b, NEW c, NEW d, NEW f, NEW st, NEW r,
           r = [code |-> a, local |-> b, global |-> c, input |-> d,
                lens |-> f, state |-> st]
    PROVE  /\ [r EXCEPT !.lens = f] = r
           /\ \A s : [r EXCEPT !.state = s] =
                       [code |-> a, local |-> b, global |-> c, input |-> d,
                        lens |-> f, state |-> s]
<1>1. [r EXCEPT !.lens = f] = r
  OBVIOUS
<1>2. ASSUME NEW s
      PROVE  [r EXCEPT !.state = s] =
               [code |-> a, local |-> b, global |-> c, input |-> d,
                lens |-> f, state |-> s]
  OBVIOUS
<1>3. QED
  BY <1>1, <1>2

(* The result of an eligible run.                                          *)
LEMMA EligibleRun ==
    ASSUME NEW g \in GlobalParams, NEW k \in RunsOf(g), Eligible(k), k.input.more = 0,
           hidden \in [Kinds -> BOOLEAN], k.node.code \notin StringMakers
    PROVE  /\ KeyOf(k) \in Keys /\ KeyOf(k).bytes = k.input.bytes
           /\ KeyOf(k).code = k.node.code /\ KeyOf(k).local = k.local.bytes
           /\ ResultOf(k) \in Results
           /\ ResultOf(k) = MadeOf(KeyOf(k), hidden["pointer"])
           /\ Snapshot(ResultOf(k)) = ResultOf(k)
<1>1. /\ k.node \in Nodes /\ k.local \in LocalParams /\ k.global = g
      /\ k.input \in Inputs
  BY DEF RunsOf
<1>2. k.input = [bytes |-> k.input.bytes, lens |-> 0, more |-> 0]
  BY <1>1, CodecCacheAssumption DEF Eligible
<1>3. Reads(k) = Behind(k.local.bytes)
  BY DEF Reads, Behind, Eligible, Kinds
<1>4. hidden["pointer"] \in BOOLEAN
  BY DEF Kinds
<1> DEFINE st == [q \in Reads(k) |-> hidden[q]]
<1>5. st = [q \in Behind(k.local.bytes) |-> hidden["pointer"]]
  BY <1>3 DEF Behind
<1>6. st \in UNION {[S -> BOOLEAN] : S \in SUBSET Kinds}
  <2>1. Reads(k) \in SUBSET Kinds
    BY DEF Reads
  <2>2. st \in [Reads(k) -> BOOLEAN]
    BY <2>1
  <2>3. QED
    BY <2>1, <2>2
<1>7. (IF k.node.code \in StringMakers THEN 1 ELSE 0) = 0
  OBVIOUS
<1>8. ResultOf(k) = [code |-> k.node.code, local |-> k.local.bytes, global |-> k.global,
                      input |-> k.input, lens |-> IF k.node.code \in StringMakers THEN 1 ELSE 0,
                      state |-> st]
  BY DEF ResultOf
<1>9. ResultOf(k) = [code |-> k.node.code, local |-> k.local.bytes, global |-> k.global,
                     input |-> k.input, lens |-> 0, state |-> st]
  BY <1>7, <1>8
<1> HIDE DEF st
<1>10. ResultOf(k) \in Results
  BY <1>1, <1>6, <1>9 DEF Results
<1>11. KeyOf(k) = [code |-> k.node.code, local |-> k.local.bytes, global |-> k.global,
                  bytes |-> k.input.bytes]
  BY DEF KeyOf
<1>12. KeyOf(k) \in Keys
  BY <1>1, <1>11 DEF Keys
<1>13. ResultOf(k) = MadeOf(KeyOf(k), hidden["pointer"])
  <2>1. MadeOf(KeyOf(k), hidden["pointer"]) =
          [code |-> k.node.code, local |-> k.local.bytes, global |-> k.global,
           input |-> [bytes |-> k.input.bytes, lens |-> 0, more |-> 0],
           lens |-> 0,
           state |-> [q \in Behind(k.local.bytes) |-> hidden["pointer"]]]
    BY <1>11 DEF MadeOf
  <2>2. QED
    BY <1>2, <1>5, <1>9, <2>1, Zenon
<1>14. Snapshot(ResultOf(k)) = ResultOf(k)
  <2>1. Snapshot(ResultOf(k)) = [ResultOf(k) EXCEPT !.lens = 0]
    BY DEF Snapshot
  <2>2. QED
    <3>1. [ResultOf(k) EXCEPT !.lens = 0] = ResultOf(k)
      BY <1>9, SameRecord
    <3>2. QED
      BY <2>1, <3>1
<1>15. QED
  BY <1>10, <1>11, <1>12, <1>13, <1>14

(* An entry is stored: its weight is added, and no entry had its key.      *)
LEMMA StoreOK ==
    ASSUME NEW c, CacheOK(c), NEW key \in Keys, NEW r \in Results,
           EntryOK([key |-> key, result |-> r]),
           \A e \in c.map : e.key # key,
           NEW size, size = IF key.bytes \in EmptyOutput THEN 1 ELSE 2,
           c.bytes + size <= c.max
    PROVE  CacheOK([c EXCEPT !.map = @ \cup {[key |-> key, result |-> r]},
                             !.bytes = @ + size])
<1> DEFINE e == [key |-> key, result |-> r]
           m == c.map \cup {e}
           heavy == {d \in c.map : d.key.bytes \notin EmptyOutput}
           heavier == {d \in m : d.key.bytes \notin EmptyOutput}
<1>1. c \in Cache /\ IsFiniteSet(c.map) /\ c.bytes = Weight(c.map)
  BY DEF CacheOK
<1>2. e \in Entries /\ e.key = key /\ e \notin c.map
  BY DEF Entries
<1>3. IsFiniteSet(m) /\ Cardinality(m) = Cardinality(c.map) + 1
  BY <1>1, <1>2, FS_AddElement
<1>4. IsFiniteSet(heavy) /\ e \notin heavy
  BY <1>1, <1>2, FS_Subset
<1>5. Cardinality(c.map) \in Nat /\ Cardinality(heavy) \in Nat
  BY <1>1, <1>4, FS_CardinalityType
<1>6. /\ Weight(m) = Cardinality(m) + Cardinality(heavier)
      /\ Weight(c.map) = Cardinality(c.map) + Cardinality(heavy)
  BY DEF Weight
<1>7. Weight(m) = Weight(c.map) + size /\ size \in Nat
  <2>1. CASE key.bytes \in EmptyOutput
    <3>1. heavier = heavy
      BY <1>2, <2>1
    <3> HIDE DEF m, heavy, heavier
    <3>2. QED
      BY <1>3, <1>5, <1>6, <2>1, <3>1
  <2>2. CASE key.bytes \notin EmptyOutput
    <3>1. heavier = heavy \cup {e}
      BY <1>2, <2>2
    <3>2. Cardinality(heavier) = Cardinality(heavy) + 1
      BY <1>4, <3>1, FS_AddElement
    <3> HIDE DEF m, heavy, heavier
    <3>3. QED
      BY <1>3, <1>5, <1>6, <2>2, <3>2
  <2>3. QED
    BY <2>1, <2>2
<1>8. \A d \in m : EntryOK(d)
  BY DEF CacheOK
<1>9. \A d, f \in m : d.key = f.key => d = f
  BY <1>2 DEF CacheOK
<1> DEFINE new == [c EXCEPT !.map = m, !.bytes = c.bytes + size]
<1> HIDE DEF m, e
<1>10. m \in SUBSET Entries /\ c.bytes + size \in Nat
  BY <1>1, <1>2, <1>7 DEF Cache, m
<1>11. /\ new \in Cache /\ new.map = m /\ new.max = c.max
       /\ new.bytes = c.bytes + size
  BY <1>1, <1>10 DEF Cache
<1>12. CacheOK(new)
  BY <1>1, <1>3, <1>7, <1>8, <1>9, <1>11 DEF CacheOK
<1>13. QED
  BY <1>12 DEF m, e

-----------------------------------------------------------------------------
(* Contexts.                                                               *)

(* The mark is put on nothing when no stream refers to the cache.          *)
LEMMA DangleNone ==
    ASSUME NEW cs \in Seq(Ctx), NEW o,
           \A i \in 1..Len(cs) : o \notin cs[i].streams
    PROVE  Dangle(cs, o) = cs
<1> DEFINE marked(i) == {IF ref = o THEN Dangling ELSE ref : ref \in cs[i].streams}
<1>1. ASSUME NEW i \in 1..Len(cs)
      PROVE  [cs[i] EXCEPT !.streams = marked(i)] = cs[i]
  <2>1. marked(i) = cs[i].streams
    OBVIOUS
  <2>2. cs[i] \in Ctx
    OBVIOUS
  <2> HIDE DEF marked
  <2>3. QED
    BY <2>1, <2>2 DEF Ctx
<1>2. Dangle(cs, o) = [i \in 1..Len(cs) |-> [cs[i] EXCEPT !.streams = marked(i)]]
  BY DEF Dangle
<1> HIDE DEF marked
<1>3. Dangle(cs, o) = [i \in 1..Len(cs) |-> cs[i]]
  BY <1>1, <1>2
<1>4. QED
  BY <1>3

(* A context in place of another.                                          *)
LEMMA PutCtx ==
    ASSUME NEW cs, NEW cc, CtxsOK(cs, cc), NEW i \in 1..Len(cs), NEW c \in Ctx,
           StreamsOK(c, i), UsesOK(cc, c, i)
    PROVE  /\ CtxsOK([cs EXCEPT ![i] = c], cc)
           /\ Len([cs EXCEPT ![i] = c]) = Len(cs)
BY DEF CtxsOK

(* The only context.                                                       *)
LEMMA PutOnly ==
    ASSUME NEW cs, NEW cc, CtxsOK(cs, cc), Len(cs) = 1, NEW c \in Ctx,
           StreamsOK(c, 1), UsesOK(cc, c, 1)
    PROVE  /\ CtxsOK([cs EXCEPT ![1] = c], cc)
           /\ Len([cs EXCEPT ![1] = c]) = 1
<1> DEFINE d == [cs EXCEPT ![1] = c]
<1>1. cs \in Seq(Ctx) /\ Len(cs) \in 1..(MaxNesting + 1)
  BY DEF CtxsOK
<1>2. d \in Seq(Ctx)
  BY <1>1
<1>3. Len(d) = Len(cs)
  BY <1>1
<1>4. d[1] = c
  BY <1>1
<1> HIDE DEF d
<1>5. CtxsOK(d, cc)
  BY <1>1, <1>2, <1>3, <1>4 DEF CtxsOK
<1>6. QED
  BY <1>3, <1>5 DEF d

(* The caches change, and those that were alive still are.                 *)
LEMMA AliveKept ==
    ASSUME NEW cs, NEW cc, NEW cd, CtxsOK(cs, cc),
           \A o \in Owners : cc[o].alive => cd[o].alive
    PROVE  CtxsOK(cs, cd)
<1>1. ASSUME NEW i \in 1..Len(cs) PROVE UsesOK(cd, cs[i], i)
  <2>1. cs[i] \in Ctx /\ i \in Owners /\ UsesOK(cc, cs[i], i)
    BY OwnerFacts DEF CtxsOK
  <2>2. QED
    BY <2>1 DEF UsesOK, Ctx
<1>2. QED
  BY <1>1 DEF CtxsOK

(* A context that was cleaned.                                             *)
LEMMA Cleaned ==
    ASSUME NEW cc, NEW c \in Ctx, NEW i, UsesOK(cc, c, i)
    PROVE  LET e == [c EXCEPT !.streams = {}, !.active = FALSE]
           IN  /\ e \in Ctx /\ UsesOK(cc, e, i) /\ StreamsOK(e, i)
               /\ e.streams = {} /\ e.active = FALSE
BY DEF Ctx, UsesOK, StreamsOK

(* A cache that is the last context's or above is replaced.                *)
LEMMA ReplaceCache ==
    ASSUME NEW cs, NEW cc, CtxsOK(cs, cc), NEW i \in Owners, i >= Len(cs),
           i = Len(cs) => ~cs[i].active, NEW c, DOMAIN cc = Owners
    PROVE  CtxsOK(cs, [cc EXCEPT ![i] = c])
<1> DEFINE cd == [cc EXCEPT ![i] = c]
<1>1. ASSUME NEW j \in 1..Len(cs) PROVE UsesOK(cd, cs[j], j)
  <2>1. cs[j] \in Ctx /\ j \in Owners /\ UsesOK(cc, cs[j], j) /\ i \in Nat
    BY OwnerFacts DEF CtxsOK
  <2>2. cs[j].attached \in Owners \cup {None} /\ Len(cs) \in Nat
    BY <2>1 DEF Ctx, CtxsOK
  <2>3. cs[j].attached # None => cs[j].attached \in Owners /\ cs[j].attached # i
    BY <2>1, <2>2, OwnerFacts DEF UsesOK
  <2>4. cs[j].active => j # i
    BY <2>1
  <2>5. QED
    BY <2>1, <2>3, <2>4 DEF UsesOK
<1>2. QED
  BY <1>1 DEF CtxsOK

(* Nothing refers to the cache of the last context if it has no streams.   *)
LEMMA LastUnmarked ==
    ASSUME NEW cs, NEW cc, CtxsOK(cs, cc), cs[Len(cs)].streams = {}
    PROVE  Dangle(cs, Len(cs)) = cs
<1>1. ASSUME NEW i \in 1..Len(cs), Len(cs) \in cs[i].streams
      PROVE  FALSE
  <2>1. i \in Nat /\ Len(cs) \in Nat /\ i < Len(cs) /\ Len(cs) # None
    BY <1>1, OwnerFacts DEF CtxsOK
  <2>2. Len(cs) = None \/ Len(cs) \in 0..i
    BY <1>1 DEF CtxsOK, StreamsOK
  <2>3. QED
    BY <2>1, <2>2
<1>2. QED
  BY <1>1, DangleNone DEF CtxsOK

(* CCTX_cleanChunk() of the last context.                                  *)
LEMMA CleanOK ==
    ASSUME NEW cs, NEW cc, CtxsOK(cs, cc), DOMAIN cc = Owners, NEW c
    PROVE  LET n == Len(cs)
               done == CleanChunk(cs, n)
           IN  /\ CtxsOK(done, [cc EXCEPT ![n] = c]) /\ CtxsOK(done, cc)
               /\ Len(done) = n /\ done[n].streams = {}
<1> DEFINE n == Len(cs)
           e == [cs[n] EXCEPT !.streams = {}, !.active = FALSE]
           done == [cs EXCEPT ![n] = e]
<1>1. n \in 1..(MaxNesting + 1) /\ n \in Owners /\ n \in 1..n /\ cs \in Seq(Ctx)
  BY OwnerFacts DEF CtxsOK
<1>2. e \in Ctx /\ UsesOK(cc, e, n) /\ StreamsOK(e, n) /\ e.streams = {}
      /\ e.active = FALSE
  <2>1. cs[n] \in Ctx /\ UsesOK(cc, cs[n], n)
    BY <1>1 DEF CtxsOK
  <2>2. QED
    BY <2>1, Cleaned
<1> HIDE DEF e
<1>3. CtxsOK(done, cc) /\ Len(done) = n /\ done[n] = e
  <2>1. CtxsOK(done, cc) /\ Len(done) = n
    BY <1>1, <1>2, PutCtx
  <2>2. done[n] = e
    BY <1>1
  <2>3. QED
    BY <2>1, <2>2
<1>4. CtxsOK(done, [cc EXCEPT ![n] = c])
  <2> HIDE DEF done, n
  <2>1. n >= Len(done) /\ ~done[n].active
    BY <1>1, <1>2, <1>3
  <2>2. QED
    BY <1>1, <1>3, <2>1, ReplaceCache
<1>5. Dangle(done, n) = done
  BY <1>2, <1>3, LastUnmarked
<1>6. CleanChunk(cs, n) = Dangle(done, n)
  BY <1>1 DEF CleanChunk, e
<1>7. QED
  BY <1>2, <1>3, <1>4, <1>5, <1>6

(* The derived context is freed.                                           *)
LEMMA Shorter ==
    ASSUME NEW cs, NEW cc, CtxsOK(cs, cc), Len(cs) > 1
    PROVE  /\ CtxsOK(SubSeq(cs, 1, Len(cs) - 1), cc)
           /\ Len(SubSeq(cs, 1, Len(cs) - 1)) = Len(cs) - 1
<1> DEFINE n == Len(cs) - 1
           t == SubSeq(cs, 1, n)
<1>1. cs \in Seq(Ctx) /\ n \in Nat /\ n \in 1..(MaxNesting + 1)
      /\ 1..n \subseteq 1..Len(cs)
  BY OwnerFacts DEF CtxsOK
<1>2. t \in Seq(Ctx) /\ Len(t) = n /\ \A i \in 1..n : t[i] = cs[i]
  BY <1>1
<1> HIDE DEF n, t
<1>3. CtxsOK(t, cc)
  BY <1>1, <1>2 DEF CtxsOK
<1>4. QED
  BY <1>2, <1>3 DEF n, t

LEMMA DisableOK ==
    ASSUME NEW cc, CachesOK(cc), NEW i \in Owners, NEW c
    PROVE  /\ CachesOK(Disable(cc, i, c))
           /\ \A o \in Owners : Disable(cc, i, c)[o].alive = cc[o].alive
<1> DEFINE d == [cc[i] EXCEPT !.insert = FALSE]
<1>1. CacheOK(cc[i]) /\ cc \in [Owners -> Cache]
  BY DEF CachesOK
<1>2. CacheOK(d) /\ d.alive = cc[i].alive
  BY <1>1, SetInsertOK
<1>3. [cc EXCEPT ![i].insert = FALSE] = [cc EXCEPT ![i] = d]
  BY <1>1
<1> HIDE DEF d
<1>4. i = User => d.alive
  BY <1>2 DEF CachesOK
<1>5. CachesOK([cc EXCEPT ![i] = d])
  BY <1>2, <1>4, PutCache
<1>6. \A o \in Owners : [cc EXCEPT ![i] = d][o].alive = cc[o].alive
  BY <1>1, <1>2
<1>7. QED
  BY <1>3, <1>5, <1>6 DEF Disable

-----------------------------------------------------------------------------
(* The steps.                                                              *)

LEMMA TopFacts ==
    ASSUME IInv
    PROVE  /\ ctxs \in Seq(Ctx) /\ Top \in 1..Len(ctxs) /\ Top \in Nat
           /\ Top \in 1..(MaxNesting + 1) /\ Top \in Owners /\ Top # User
           /\ ctxs[Top] \in Ctx /\ StreamsOK(ctxs[Top], Top)
           /\ UsesOK(caches, ctxs[Top], Top)
           /\ caches \in [Owners -> Cache] /\ CacheOK(caches[Top])
BY OwnerFacts DEF IInv, CtxsOK, CachesOK, Top

LEMMA InitOK == Init => IInv
<1> SUFFICES ASSUME Init PROVE IInv
  OBVIOUS
<1>1. CacheOK(NewCache(UserBudget)) /\ NewCache(UserBudget).alive
  BY NewCacheOK, CodecCacheAssumption
<1>2. CachesOK(caches)
  BY <1>1, NoCacheOK, OwnerFacts DEF Init, CachesOK, CacheOK
<1>3. PICK g \in GlobalParams : ctxs = <<NewCtx(None, 0, g)>>
  BY DEF Init
<1>4. NewCtx(None, 0, g) \in Ctx
  BY OwnerFacts DEF NewCtx, Ctx
<1>5. ctxs \in Seq(Ctx) /\ Len(ctxs) = 1 /\ ctxs[1] = NewCtx(None, 0, g)
  BY <1>3, <1>4
<1>6. CtxsOK(ctxs, caches)
  BY <1>5, OwnerFacts DEF CtxsOK, StreamsOK, UsesOK, NewCtx
<1>7. IdleOK
  <2>1. ctxs[1].streams = {}
    BY <1>5 DEF NewCtx
  <2>2. QED
    BY <1>5, <2>1 DEF Init, IdleOK
<1>8. QED
  BY <1>2, <1>6, <1>7 DEF IInv

(* The user's steps find one context, without streams.                     *)
LEMMA SetBudgetKeeps ==
    ASSUME IInv, NEW b \in Budgets, SetTryGraphCacheBudget(b)
    PROVE  IInv'
<1> DEFINE d == [ctxs[1] EXCEPT !.active = FALSE, !.budget = b]
           cs == [ctxs EXCEPT ![1] = d]
<1>1. b \in Nat
  BY CodecCacheAssumption
<1>2. Len(ctxs) = 1 /\ ctxs \in Seq(Ctx) /\ ctxs[1].streams = {} /\ ctxs[1] \in Ctx
  BY TopFacts DEF SetTryGraphCacheBudget, IInv, IdleOK, Top
<1>3. d \in Ctx /\ UsesOK(caches, d, 1) /\ StreamsOK(d, 1) /\ d.streams = {}
      /\ d.active = FALSE
  <2>1. UsesOK(caches, ctxs[1], 1)
    BY <1>2, TopFacts DEF Top
  <2>2. QED
    BY <1>1, <1>2, <2>1 DEF Ctx, UsesOK, StreamsOK
<1>4. ctxs' = Dangle(cs, 1)
  BY <1>2 DEF SetTryGraphCacheBudget
<1> HIDE DEF d
<1>5. CtxsOK(cs, caches) /\ Len(cs) = 1 /\ cs[1] = d
  <2>1. 1 \in 1..Len(ctxs) /\ CtxsOK(ctxs, caches)
    BY <1>2 DEF IInv
  <2>2. CtxsOK(cs, caches) /\ Len(cs) = 1
    BY <1>2, <1>3, <2>1, PutOnly
  <2>3. cs[1] = d
    BY <1>2
  <2>4. QED
    BY <2>2, <2>3
<1> HIDE DEF cs
<1>6. ctxs' = cs
  BY <1>3, <1>4, <1>5, LastUnmarked
<1>7. CtxsOK(cs, [caches EXCEPT ![1] = NoCache])
  <2>1. DOMAIN caches = Owners /\ 1 \in Owners /\ 1 >= Len(cs) /\ ~cs[1].active
    BY <1>3, <1>5, OwnerFacts, TopFacts
  <2>2. QED
    BY <1>5, <2>1, ReplaceCache
<1>8. CachesOK([caches EXCEPT ![1] = NoCache])
  BY NoCacheOK, PutCache, OwnerFacts DEF IInv
<1>9. QED
  BY <1>3, <1>5, <1>6, <1>7, <1>8 DEF SetTryGraphCacheBudget, IInv, IdleOK

LEMMA SetCacheKeeps ==
    ASSUME IInv, NEW c \in {User, None}, SetCodecOutputCache(c)
    PROVE  IInv'
<1> DEFINE d == [ctxs[1] EXCEPT !.attached = c]
<1>1. Len(ctxs) = 1 /\ ctxs \in Seq(Ctx) /\ ctxs[1].streams = {} /\ ctxs[1] \in Ctx
      /\ UsesOK(caches, ctxs[1], 1)
  BY TopFacts DEF SetCodecOutputCache, IInv, IdleOK, Top
<1>2. d \in Ctx /\ d.streams = {} /\ StreamsOK(d, 1)
  BY <1>1, OwnerFacts DEF Ctx, StreamsOK
<1>3. UsesOK(caches, d, 1)
  BY <1>1, OwnerFacts DEF UsesOK, Ctx, IInv, CachesOK
<1>4. ctxs' = [ctxs EXCEPT ![1] = d]
  BY <1>1 DEF SetCodecOutputCache
<1> HIDE DEF d
<1>5. CtxsOK(ctxs', caches) /\ Len(ctxs') = 1 /\ ctxs'[1] = d
  <2>1. 1 \in 1..Len(ctxs) /\ CtxsOK(ctxs, caches)
    BY <1>1 DEF IInv
  <2>2. CtxsOK(ctxs', caches) /\ Len(ctxs') = 1
    BY <1>1, <1>2, <1>3, <1>4, <2>1, PutOnly
  <2>3. ctxs'[1] = d
    BY <1>1, <1>4
  <2>4. QED
    BY <2>2, <2>3
<1>6. QED
  BY <1>2, <1>5 DEF SetCodecOutputCache, IInv, IdleOK

LEMMA ResetUserKeeps ==
    ASSUME IInv, ResetUserCache
    PROVE  IInv'
<1>1. Len(ctxs) = 1 /\ ctxs \in Seq(Ctx) /\ ctxs[1].streams = {}
  BY TopFacts DEF ResetUserCache, IInv, IdleOK
<1>2. ctxs' = ctxs
  BY <1>1, DangleNone DEF ResetUserCache
<1>3. CacheOK(ResetCache(caches[User])) /\ ResetCache(caches[User]).alive
  BY OwnerFacts, ResetCacheOK DEF IInv, CachesOK
<1>4. CachesOK(caches')
  BY <1>3, OwnerFacts, PutCache DEF ResetUserCache, IInv
<1>5. \A o \in Owners : caches[o].alive => caches'[o].alive
  BY <1>3, TopFacts DEF ResetUserCache
<1>6. CtxsOK(ctxs, caches')
  BY <1>5, AliveKept DEF IInv
<1>7. QED
  BY <1>1, <1>2, <1>4, <1>6 DEF ResetUserCache, IInv, IdleOK

LEMMA StartKeeps ==
    ASSUME IInv, NEW g \in GlobalParams, Start(g)
    PROVE  IInv'
<1> DEFINE d == [ctxs[1] EXCEPT !.active = FALSE, !.global = g]
           cs == [ctxs EXCEPT ![1] = d]
<1>1. Len(ctxs) = 1 /\ ctxs \in Seq(Ctx) /\ ctxs[1].streams = {} /\ ctxs[1] \in Ctx
      /\ UsesOK(caches, ctxs[1], 1) /\ CacheOK(caches[1]) /\ 1 \in Owners
  BY TopFacts DEF Start, IInv, IdleOK, Top
<1>2. d \in Ctx /\ UsesOK(caches, d, 1) /\ StreamsOK(d, 1) /\ d.streams = {}
      /\ d.active = FALSE
  BY <1>1 DEF Ctx, UsesOK, StreamsOK
<1>3. ctxs' = Dangle(cs, 1)
  BY <1>1 DEF Start
<1> HIDE DEF d
<1>4. CtxsOK(cs, caches) /\ Len(cs) = 1 /\ cs[1] = d
  <2>1. 1 \in 1..Len(ctxs) /\ CtxsOK(ctxs, caches)
    BY <1>1 DEF IInv
  <2>2. CtxsOK(cs, caches) /\ Len(cs) = 1
    BY <1>1, <1>2, <2>1, PutOnly
  <2>3. cs[1] = d
    BY <1>1
  <2>4. QED
    BY <2>2, <2>3
<1> HIDE DEF cs
<1>5. ctxs' = cs
  BY <1>2, <1>3, <1>4, LastUnmarked
<1>6. CtxsOK(cs, [caches EXCEPT ![1] = ResetCache(caches[1])])
  <2>1. DOMAIN caches = Owners /\ 1 >= Len(cs) /\ ~cs[1].active
    BY <1>2, <1>4, TopFacts
  <2>2. QED
    BY <1>1, <1>4, <2>1, ReplaceCache
<1>7. CachesOK([caches EXCEPT ![1] = ResetCache(caches[1])])
  BY <1>1, ResetCacheOK, PutCache, OwnerFacts DEF IInv
<1>8. QED
  BY <1>1, <1>5, <1>6, <1>7 DEF Start, IInv, IdleOK

LEMMA CleanKeeps ==
    ASSUME IInv, NextChunk \/ EndCompression
    PROVE  IInv'
<1> DEFINE cd == [caches EXCEPT ![Top] = ResetCache(caches[Top])]
<1>1. ctxs' = CleanChunk(ctxs, Top) /\ caches' = cd
  BY DEF NextChunk, EndCompression
<1>2. CtxsOK(ctxs', cd) /\ Len(ctxs') = Top /\ ctxs'[Top].streams = {}
  BY <1>1, CleanOK DEF Top, IInv, CachesOK
<1>3. CachesOK(cd)
  BY TopFacts, ResetCacheOK, PutCache DEF IInv
<1>4. IdleOK'
  BY <1>2 DEF NextChunk, EndCompression, IInv, IdleOK, Running
<1>5. QED
  BY <1>1, <1>2, <1>3, <1>4 DEF IInv

(* A step that changes the top context alone, while it runs.               *)
LEMMA PutTop ==
    ASSUME IInv, NEW c \in Ctx, StreamsOK(c, Top), UsesOK(caches, c, Top),
           Running, phase' = phase, hidden' = hidden,
           CachesOK(caches'), \A o \in Owners : caches[o].alive => caches'[o].alive,
           ctxs' = [ctxs EXCEPT ![Top] = c]
    PROVE  IInv'
<1>1. CtxsOK(ctxs', caches)
  BY TopFacts, PutCtx DEF IInv
<1>2. CtxsOK(ctxs', caches')
  BY <1>1, AliveKept
<1>3. IdleOK'
  BY DEF IInv, IdleOK, Running
<1>4. QED
  BY <1>2, <1>3 DEF IInv

LEMMA EnterKeeps ==
    ASSUME IInv, EnterGraph
    PROVE  IInv'
<1> DEFINE c == ctxs[Top]
           f == Append(c.frames, c.active)
           d == [c EXCEPT !.frames = f]
<1>1. c \in Ctx /\ StreamsOK(c, Top) /\ UsesOK(caches, c, Top)
  BY TopFacts
<1>2. f \in Seq(BOOLEAN)
  BY <1>1 DEF Ctx
<1> HIDE DEF f
<1>3. d \in Ctx /\ StreamsOK(d, Top) /\ UsesOK(caches, d, Top)
  BY <1>1, <1>2 DEF Ctx, StreamsOK, UsesOK
<1>4. ctxs' = [ctxs EXCEPT ![Top] = d]
  BY TopFacts DEF EnterGraph, f
<1> HIDE DEF d
<1>5. QED
  BY <1>3, <1>4, PutTop DEF EnterGraph, IInv

LEMMA LeaveKeeps ==
    ASSUME IInv, LeaveGraph
    PROVE  IInv'
<1> DEFINE c == ctxs[Top]
           f == SubSeq(c.frames, 1, Len(c.frames) - 1)
           d == [c EXCEPT !.frames = f]
           e == [c EXCEPT !.frames = f, !.active = FALSE]
<1>1. c \in Ctx /\ StreamsOK(c, Top) /\ UsesOK(caches, c, Top)
  BY TopFacts
<1>2. f \in Seq(BOOLEAN)
  BY <1>1 DEF LeaveGraph, Ctx
<1> HIDE DEF f
<1>3. d \in Ctx /\ StreamsOK(d, Top) /\ UsesOK(caches, d, Top)
  BY <1>1, <1>2 DEF Ctx, StreamsOK, UsesOK
<1>4. e \in Ctx /\ StreamsOK(e, Top) /\ UsesOK(caches, e, Top)
  BY <1>1, <1>2 DEF Ctx, StreamsOK, UsesOK
<1>5. \/ ctxs' = [ctxs EXCEPT ![Top] = d]
      \/ ctxs' = [ctxs EXCEPT ![Top] = e]
  BY TopFacts DEF LeaveGraph, Finish, f
<1> HIDE DEF d, e
<1>6. QED
  BY <1>3, <1>4, <1>5, PutTop DEF LeaveGraph, IInv

-----------------------------------------------------------------------------
(* A codec runs.                                                           *)

(* The cache in use is one that the context may refer to.                  *)
LEMMA InUse ==
    ASSUME IInv, NEW i \in 1..Len(ctxs), CacheInUse(i) # None
    PROVE  /\ CacheInUse(i) \in Owners /\ CacheInUse(i) \in 0..i
           /\ CacheOK(caches[CacheInUse(i)])
<1>1. /\ ctxs[i].attached \in Owners \cup {None} /\ i \in Owners
      /\ UsesOK(caches, ctxs[i], i)
  <2>1. ctxs \in Seq(Ctx) /\ Len(ctxs) \in 1..(MaxNesting + 1) /\ UsesOK(caches, ctxs[i], i)
    BY DEF IInv, CtxsOK
  <2>2. ctxs[i] \in Ctx /\ i \in Owners
    BY <2>1, OwnerFacts
  <2>3. QED
    BY <2>1, <2>2 DEF Ctx
<1>2. CacheInUse(i) \in Owners /\ CacheInUse(i) <= i
  BY <1>1, OwnerFacts DEF CacheInUse, UsesOK
<1>3. QED
  BY <1>1, <1>2, OwnerFacts DEF IInv, CachesOK

(* A stream is added to the top context.                                   *)
LEMMA AddStreamOK ==
    ASSUME IInv, NEW ref, ref = None \/ ref \in 0..Top,
           Running, phase' = phase, hidden' = hidden,
           CachesOK(caches'), \A o \in Owners : caches[o].alive => caches'[o].alive,
           AddStream(ref)
    PROVE  IInv'
<1> DEFINE c == ctxs[Top]
           d == [c EXCEPT !.streams = c.streams \cup {ref}]
<1>1. c \in Ctx /\ StreamsOK(c, Top) /\ UsesOK(caches, c, Top)
  BY TopFacts
<1>2. ref \in Streams
  BY TopFacts, OwnerFacts DEF Streams
<1>3. ctxs' = [ctxs EXCEPT ![Top] = d]
  BY TopFacts DEF AddStream
<1>4. c.streams \cup {ref} \in SUBSET Streams
  BY <1>1, <1>2 DEF Ctx
<1>5. /\ d \in Ctx /\ d.streams = c.streams \cup {ref}
      /\ d.attached = c.attached /\ d.active = c.active
  BY <1>1, <1>4 DEF Ctx
<1> HIDE DEF d
<1>6. StreamsOK(d, Top) /\ UsesOK(caches, d, Top)
  BY <1>1, <1>5 DEF StreamsOK, UsesOK
<1>7. QED
  BY <1>3, <1>5, <1>6, PutTop

LEMMA RunKeeps ==
    ASSUME IInv, NEW k \in RunsOf(ctxs[Top].global), RunCodec(k)
    PROVE  IInv'
<1> DEFINE c == CacheFor(Top, k)
<1>1. Running /\ phase' = phase /\ hidden' = hidden /\ (Replay(k) \/ Execute(k))
  BY DEF RunCodec
<1>2. ctxs[Top].global \in GlobalParams
  BY TopFacts DEF Ctx
<1>3. c # None => /\ c = CacheInUse(Top) /\ c \in Owners /\ c \in 0..Top
                  /\ CacheOK(caches[c]) /\ Eligible(k) /\ k.input.more = 0
  BY TopFacts, InUse DEF CacheFor
<1>4. CASE Replay(k)
  <2>1. c # None /\ caches' = caches
        /\ AddStream(IF k.input.bytes \in EmptyOutput THEN None ELSE c)
    BY <1>4 DEF Replay
  <2> HIDE DEF c
  <2>2. CachesOK(caches') /\ \A o \in Owners : caches[o].alive => caches'[o].alive
    BY <2>1 DEF IInv
  <2>3. QED
    BY <1>1, <1>3, <2>1, <2>2, AddStreamOK
<1>5. CASE Execute(k)
  <2>1. AddStream(None)
    BY <1>5 DEF Execute
  <2>2. CachesOK(caches') /\ \A o \in Owners : caches[o].alive => caches'[o].alive
    <3>1. CASE UNCHANGED caches
      BY <3>1 DEF IInv
    <3>2. CASE c # None /\ MayInsert(c, k) /\ Insert(c, k)
      <4> DEFINE r == ResultOf(k)
                 key == KeyOf(k)
                 size == StoredSize(k)
                 e == [key |-> key, result |-> r]
                 d == [caches[c] EXCEPT !.map = @ \cup {e}, !.bytes = @ + size]
      <4>1. k.node.code \notin StringMakers /\ caches[c].bytes + size <= caches[c].max
        BY <3>2 DEF MayInsert
      <4>2. /\ key \in Keys /\ key.bytes = k.input.bytes /\ key.code = k.node.code
            /\ r \in Results /\ r = MadeOf(key, hidden["pointer"])
            /\ Snapshot(r) = r
        BY <1>2, <1>3, <3>2, <4>1, EligibleRun DEF IInv, IdleOK
      <4>3. caches' = [caches EXCEPT ![c] = d]
        BY <1>3, <3>2, <4>2, TopFacts DEF Insert
      <4>4. \A f \in caches[c].map : f.key # key
        BY <1>5, <3>2 DEF Execute, Lookup
      <4>5. size = IF key.bytes \in EmptyOutput THEN 1 ELSE 2
        BY <4>2 DEF StoredSize
      <4> HIDE DEF r, key, size, c
      <4>6. EntryOK(e)
        <5>1. hidden["pointer"] \in BOOLEAN
          BY DEF IInv, IdleOK, Kinds
        <5>2. QED
          BY <4>1, <4>2, <5>1 DEF EntryOK
      <4>7. CacheOK(d)
        BY <1>3, <3>2, <4>1, <4>2, <4>4, <4>5, <4>6, StoreOK
      <4>8. d.alive = caches[c].alive /\ c \in Owners
        BY <1>3, <3>2 DEF CacheOK, Cache
      <4> HIDE DEF d
      <4>9. c = User => d.alive
        BY <4>8 DEF IInv, CachesOK
      <4>10. CachesOK(caches')
        BY <4>3, <4>7, <4>8, <4>9, PutCache DEF IInv
      <4>11. QED
        BY <4>3, <4>8, <4>10, TopFacts
    <3>3. QED
      BY <1>5, <3>1, <3>2 DEF Execute
  <2>3. QED
    BY <1>1, <2>1, <2>2, AddStreamOK
<1>6. QED
  BY <1>1, <1>4, <1>5

-----------------------------------------------------------------------------
(* tryGraph()                                                              *)

(* The private cache of the top context is there when it becomes active.   *)
LEMMA EnableOK ==
    ASSUME IInv, NEW created \in {TRUE} \cup {~EnableFails}
    PROVE  LET cc == IF created THEN Enable(caches) ELSE caches
               cs == Enabled(created)
           IN  CachesOK(cc) /\ CtxsOK(cs, cc) /\ Len(cs) = Top
<1> DEFINE c == ctxs[Top]
           wanted == c.attached = None /\ c.budget > 0
           cc == IF created THEN Enable(caches) ELSE caches
           a == IF wanted THEN created ELSE c.active
           d == [c EXCEPT !.active = a]
           new == IF caches[Top].alive THEN [caches[Top] EXCEPT !.insert = TRUE]
                  ELSE NewCache(c.budget)
<1>1. c \in Ctx /\ StreamsOK(c, Top) /\ UsesOK(caches, c, Top) /\ Top \in Owners
      /\ c.budget \in Nat /\ caches \in [Owners -> Cache] /\ CacheOK(caches[Top])
      /\ Top # User
  BY TopFacts DEF Ctx
<1>2. CacheOK(new) /\ new.alive
  <2>1. CASE caches[Top].alive
    BY <1>1, <2>1, SetInsertOK
  <2>2. CASE ~caches[Top].alive
    BY <1>1, <2>2, NewCacheOK
  <2>3. QED
    BY <2>1, <2>2
<1>3. cc = IF created /\ wanted THEN [caches EXCEPT ![Top] = new] ELSE caches
  BY <1>1 DEF Enable
<1> HIDE DEF new, cc
<1>4. CachesOK(cc)
  BY <1>1, <1>2, <1>3, PutCache DEF IInv
<1>5. \A o \in Owners : caches[o].alive => cc[o].alive
  BY <1>1, <1>2, <1>3
<1>6. created \in BOOLEAN /\ (~created => EnableFails)
  BY DEF EnableFails
<1>7. a \in BOOLEAN /\ (a => cc[Top].alive)
  <2>1. CASE wanted
    BY <1>1, <1>2, <1>3, <1>6, <2>1
  <2>2. CASE ~wanted
    <3>1. a = c.active /\ cc = caches
      BY <1>3, <2>2
    <3>2. c.active \in BOOLEAN /\ (c.active => caches[Top].alive)
      BY <1>1 DEF Ctx, UsesOK
    <3>3. QED
      BY <3>1, <3>2
  <2>3. QED
    BY <2>1, <2>2
<1>8. Enabled(created) = [ctxs EXCEPT ![Top] = d]
  BY TopFacts DEF Enabled
<1> HIDE DEF a
<1>9. d \in Ctx /\ d.streams = c.streams /\ d.attached = c.attached /\ d.active = a
  BY <1>1, <1>7 DEF Ctx
<1> HIDE DEF d
<1>10. CtxsOK(ctxs, cc)
  BY <1>5, AliveKept DEF IInv
<1>11. UsesOK(cc, c, Top)
  BY <1>10, TopFacts DEF CtxsOK
<1>12. StreamsOK(d, Top) /\ UsesOK(cc, d, Top)
  BY <1>1, <1>7, <1>9, <1>11 DEF StreamsOK, UsesOK
<1>13. CtxsOK(Enabled(created), cc) /\ Len(Enabled(created)) = Top
  <2>1. Top \in 1..Len(ctxs)
    BY TopFacts
  <2>2. /\ CtxsOK([ctxs EXCEPT ![Top] = d], cc)
        /\ Len([ctxs EXCEPT ![Top] = d]) = Len(ctxs)
    BY <1>9, <1>10, <1>12, <2>1, PutCtx
  <2>3. QED
    BY <1>8, <2>2 DEF Top
<1>14. QED
  BY <1>4, <1>13 DEF cc

LEMMA TryKeeps ==
    ASSUME IInv, TryGraph
    PROVE  IInv'
<1>1. PICK created \in {TRUE} \cup {~EnableFails} :
         LET parents == Enabled(created)
             p == parents[Top]
             borrowed == IF p.attached # None THEN p.attached
                         ELSE IF p.active THEN Top ELSE None
         IN /\ caches' = IF created THEN Enable(caches) ELSE caches
            /\ ctxs' = Append(parents, NewCtx(borrowed, p.budget, p.global))
  BY DEF TryGraph
<1> DEFINE parents == Enabled(created)
           p == parents[Top]
           borrowed == IF p.attached # None THEN p.attached
                       ELSE IF p.active THEN Top ELSE None
           new == NewCtx(borrowed, p.budget, p.global)
<1>2. CachesOK(caches') /\ CtxsOK(parents, caches') /\ Len(parents) = Top
  BY <1>1, EnableOK
<1>3. ctxs' = Append(parents, new)
  BY <1>1
<1> HIDE DEF parents
<1>4. Top \in Nat /\ Top >= 1 /\ Top + 1 \in 1..(MaxNesting + 1) /\ Top \in Owners
  BY TopFacts, OwnerFacts DEF TryGraph
<1>5. p \in Ctx /\ UsesOK(caches', p, Top) /\ parents \in Seq(Ctx)
  BY <1>2, <1>4 DEF CtxsOK
<1> HIDE DEF p
<1>6. /\ borrowed \in Owners \cup {None}
      /\ borrowed # None => borrowed < Top + 1 /\ caches'[borrowed].alive
  BY <1>4, <1>5, OwnerFacts DEF UsesOK, Ctx
<1> HIDE DEF borrowed
<1>7. /\ new \in Ctx /\ new.attached = borrowed /\ new.streams = {}
      /\ new.active = FALSE
  BY <1>5, <1>6 DEF NewCtx, Ctx
<1> HIDE DEF new
<1>8. StreamsOK(new, Top + 1) /\ UsesOK(caches', new, Top + 1)
  BY <1>6, <1>7 DEF StreamsOK, UsesOK
<1>9. /\ ctxs' \in Seq(Ctx) /\ Len(ctxs') = Top + 1
      /\ ctxs'[Top + 1] = new /\ \A i \in 1..Top : ctxs'[i] = parents[i]
  BY <1>2, <1>3, <1>5, <1>7
<1>10. CtxsOK(ctxs', caches')
  BY <1>2, <1>4, <1>8, <1>9 DEF CtxsOK
<1>11. IdleOK'
  BY DEF TryGraph, Running, IInv, IdleOK
<1>12. QED
  BY <1>2, <1>10, <1>11 DEF IInv

LEMMA TryFailsKeeps ==
    ASSUME IInv, TryGraphFails
    PROVE  IInv'
<1>1. /\ CachesOK(Enable(caches)) /\ CtxsOK(Enabled(TRUE), Enable(caches))
  BY EnableOK
<1>2. CachesOK(caches') /\ \A o \in Owners : caches'[o].alive = Enable(caches)[o].alive
  BY <1>1, TopFacts, DisableOK DEF TryGraphFails
<1>3. CtxsOK(ctxs', caches')
  BY <1>1, <1>2, AliveKept DEF TryGraphFails
<1>4. IdleOK'
  BY DEF TryGraphFails, Running, IInv, IdleOK
<1>5. QED
  BY <1>2, <1>3, <1>4 DEF IInv

LEMMA EndTrialKeeps ==
    ASSUME IInv, EndTrial
    PROVE  IInv'
<1> DEFINE cd == [caches EXCEPT ![Top] = NoCache]
           cleaned == CleanChunk(ctxs, Top)
<1>1. Top \in Owners /\ Top \in Nat /\ Top > 1 /\ Top - 1 \in Owners /\ Top # User
  BY TopFacts, OwnerFacts DEF EndTrial
<1>2. CtxsOK(cleaned, cd) /\ Len(cleaned) = Top
  BY CleanOK, TopFacts DEF Top, IInv
<1>3. CachesOK(cd)
  BY <1>1, NoCacheOK, PutCache DEF IInv
<1>4. ctxs' = SubSeq(cleaned, 1, Top - 1) /\ caches' = Disable(cd, Top - 1, ctxs[Top - 1])
  BY DEF EndTrial
<1> HIDE DEF cd, cleaned
<1>5. CtxsOK(ctxs', cd)
  BY <1>1, <1>2, <1>4, Shorter
<1>6. CachesOK(caches') /\ \A o \in Owners : caches'[o].alive = cd[o].alive
  BY <1>1, <1>3, <1>4, DisableOK
<1>7. CtxsOK(ctxs', caches')
  BY <1>5, <1>6, AliveKept
<1>8. IdleOK'
  BY DEF EndTrial, Running, IInv, IdleOK
<1>9. QED
  BY <1>6, <1>7, <1>8 DEF IInv

-----------------------------------------------------------------------------
(* The theorems.                                                           *)

LEMMA StepKeeps == IInv /\ [Next]_vars => IInv'
<1> SUFFICES ASSUME IInv, [Next]_vars PROVE IInv'
  OBVIOUS
<1>1. ASSUME NEW b \in Budgets, SetTryGraphCacheBudget(b) PROVE IInv'
  BY <1>1, SetBudgetKeeps
<1>2. ASSUME NEW c \in {User, None}, SetCodecOutputCache(c) PROVE IInv'
  BY <1>2, SetCacheKeeps
<1>3. CASE ResetUserCache
  BY <1>3, ResetUserKeeps
<1>4. ASSUME NEW q \in Kinds, ChangeHidden(q) PROVE IInv'
  BY <1>4 DEF ChangeHidden, IInv, IdleOK
<1>5. ASSUME NEW g \in GlobalParams, Start(g) PROVE IInv'
  BY <1>5, StartKeeps
<1>6. CASE NextChunk \/ EndCompression
  BY <1>6, CleanKeeps
<1>7. CASE EnterGraph \/ LeaveGraph
  BY <1>7, EnterKeeps, LeaveKeeps
<1>8. ASSUME NEW k \in RunsOf(ctxs[Top].global), RunCodec(k) PROVE IInv'
  BY <1>8, RunKeeps
<1>9. CASE TryGraph \/ TryGraphFails \/ EndTrial
  BY <1>9, TryKeeps, TryFailsKeeps, EndTrialKeeps
<1>10. CASE UNCHANGED vars
  BY <1>10 DEF vars, IInv, IdleOK
<1>11. QED
  BY <1>1, <1>2, <1>3, <1>4, <1>5, <1>6, <1>7, <1>8, <1>9, <1>10 DEF Next

(* The invariant holds always.                                             *)
THEOREM Inductive == Spec => []IInv
BY InitOK, StepKeeps, PTL DEF Spec

(* Every field keeps its type, MaxNesting bounds the contexts (CCTX_s).    *)
THEOREM TypeCorrect == Spec => []TypeOK
<1>1. IInv => TypeOK
  <2> SUFFICES ASSUME IInv PROVE TypeOK
    OBVIOUS
  <2>1. caches \in [Owners -> Cache] /\ ctxs \in Seq(Ctx)
        /\ Len(ctxs) \in 1..(MaxNesting + 1)
    BY DEF IInv, CachesOK, CtxsOK
  <2>2. \A i \in DOMAIN ctxs : ctxs[i] \in Ctx
    BY <2>1
  <2>3. QED
    BY <2>1, <2>2 DEF IInv, IdleOK, TypeOK, Cache, Ctx
<1>2. QED
  BY <1>1, Inductive, PTL

(* A cache hit gives what the codec would make now, for any nodes, inputs, *)
(* parameters and nesting and any change of the state that keys do not     *)
(* have, except for the state behind a pointer in copied parameters        *)
(* (CodecCache_buildKey).                                                  *)
THEOREM HitEqualsRun == Spec => []ReplayEqualsRun
<1>1. ASSUME IInv, NEW i \in DOMAIN ctxs, NEW k \in RunsOf(ctxs[i].global),
             CacheFor(i, k) # None, NEW e \in Lookup(CacheFor(i, k), k)
      PROVE  \/ e.result = ResultOf(k)
             \/ /\ k.local.bytes \in Pointing
                /\ e.result = [ResultOf(k) EXCEPT !.state["pointer"] = ~@]
  <2> DEFINE key == KeyOf(k)
             h == hidden["pointer"]
             r == ResultOf(k)
  <2>1. i \in 1..Len(ctxs) /\ ctxs[i] \in Ctx
    BY <1>1 DEF IInv, CtxsOK
  <2>2. /\ CacheFor(i, k) = CacheInUse(i) /\ Eligible(k) /\ k.input.more = 0
        /\ CacheOK(caches[CacheInUse(i)])
    BY <1>1, <2>1, InUse DEF CacheFor
  <2>3. e.key = key /\ EntryOK(e)
    BY <2>2 DEF Lookup, CacheOK
  <2>4. PICK b \in BOOLEAN : e.result = MadeOf(key, b)
    BY <2>3 DEF EntryOK
  <2>5. k.node.code \notin StringMakers
    BY <2>3 DEF EntryOK, KeyOf
  <2>6. r = MadeOf(key, h) /\ key.local = k.local.bytes /\ h \in BOOLEAN
    <3>1. ctxs[i].global \in GlobalParams /\ hidden \in [Kinds -> BOOLEAN]
      BY <1>1, <2>1 DEF Ctx, IInv, IdleOK
    <3>2. QED
      BY <2>2, <2>5, <3>1, EligibleRun DEF Kinds
  <2> HIDE DEF key, h, r
  <2>7. CASE k.local.bytes \notin Pointing
    <3>1. Behind(key.local) = {}
      BY <2>6, <2>7 DEF Behind
    <3>2. [q \in Behind(key.local) |-> b] = [q \in Behind(key.local) |-> h]
      BY <3>1
    <3>3. MadeOf(key, b) = MadeOf(key, h)
      BY <3>2 DEF MadeOf
    <3>4. QED
      BY <2>4, <2>6, <3>3 DEF r
  <2>8. CASE k.local.bytes \in Pointing /\ b # h
    <3>1. Behind(key.local) = {"pointer"} /\ b = ~h
      BY <2>6, <2>8 DEF Behind
    <3>2. r.state = [q \in {"pointer"} |-> h]
      BY <2>6, <3>1 DEF MadeOf
    <3>3. [r.state EXCEPT !["pointer"] = ~@] = [q \in {"pointer"} |-> b]
      BY <3>1, <3>2
    <3>4. [r EXCEPT !.state["pointer"] = ~@] = MadeOf(key, b)
      <4>1. r = [code |-> key.code, local |-> key.local, global |-> key.global,
                 input |-> [bytes |-> key.bytes, lens |-> 0, more |-> 0],
                 lens |-> 0, state |-> r.state]
        BY <2>6 DEF MadeOf
      <4>2. [r EXCEPT !.state = [q \in {"pointer"} |-> b]] = MadeOf(key, b)
        <5>1. MadeOf(key, b) = [code |-> key.code, local |-> key.local, global |-> key.global,
                                input |-> [bytes |-> key.bytes, lens |-> 0, more |-> 0],
                                lens |-> 0, state |-> [q \in {"pointer"} |-> b]]
          BY <3>1, Zenon DEF MadeOf
        <5>2. QED
          BY <4>1, <5>1, SameRecord
      <4>3. [r EXCEPT !.state["pointer"] = ~@]
              = [r EXCEPT !.state = [r.state EXCEPT !["pointer"] = ~@]]
        BY <4>1
      <4>4. QED
        BY <3>3, <4>2, <4>3
    <3>5. QED
      BY <2>4, <2>8, <3>4 DEF r
  <2>9. QED
    BY <2>4, <2>6, <2>7, <2>8 DEF r
<1>2. IInv => ReplayEqualsRun
  BY <1>1 DEF ReplayEqualsRun
<1>3. QED
  BY <1>2, Inductive, PTL

(* No stream refers to an entry that its cache dropped (CCTX_cleanChunk,   *)
(* CodecCache_resetCurrent).                                               *)
THEOREM OutputsStay == Spec => []NoDanglingOutput
<1>1. ASSUME IInv, NEW i \in DOMAIN ctxs, Dangling \in ctxs[i].streams
      PROVE  FALSE
  <2>1. ctxs \in Seq(Ctx) /\ Len(ctxs) \in 1..(MaxNesting + 1)
    BY <1>1 DEF IInv, CtxsOK
  <2>2. i \in 1..Len(ctxs) /\ i \in 1..(MaxNesting + 1)
    BY <1>1, <2>1, OwnerFacts
  <2>3. Dangling = None \/ Dangling \in 0..i
    BY <1>1, <2>2 DEF IInv, CtxsOK, StreamsOK
  <2>4. QED
    BY <2>2, <2>3, OwnerFacts
<1>2. IInv => NoDanglingOutput
  BY <1>1 DEF NoDanglingOutput
<1>3. QED
  BY <1>2, Inductive, PTL

(* What a context borrows or uses is alive, and a private cache is only    *)
(* borrowed by contexts derived from its owner                             *)
(* (CCTX_getCodecOutputCache).                                             *)
THEOREM BorrowedCachesLive == Spec => []BorrowedIsAlive
<1>1. ASSUME IInv, NEW i \in DOMAIN ctxs
      PROVE  LET c == ctxs[i].attached IN
             /\ c # None => caches[c].alive /\ (c = User \/ c < i)
             /\ ctxs[i].active => caches[i].alive
  BY <1>1 DEF IInv, CtxsOK, UsesOK
<1>2. IInv => BorrowedIsAlive
  BY <1>1 DEF BorrowedIsAlive
<1>3. QED
  BY <1>2, Inductive, PTL

(* The bytes of a cache are those of its entries, within its budget, and   *)
(* no key is stored twice (CodecCache_store).                              *)
THEOREM CachesKeepBudget == Spec => []BudgetKept
<1>1. ASSUME IInv, NEW o \in Owners, NEW d \in caches[o].map, NEW e \in caches[o].map,
             d.key = e.key
      PROVE  d = e
  BY <1>1 DEF IInv, CachesOK, CacheOK
<1>2. IInv => \A o \in Owners : /\ caches[o].bytes = Weight(caches[o].map)
                                 /\ caches[o].bytes <= caches[o].max
  BY DEF IInv, CachesOK, CacheOK
<1>3. IInv => BudgetKept
  BY <1>1, <1>2 DEF BudgetKept
<1>4. QED
  BY <1>3, Inductive, PTL
=============================================================================
