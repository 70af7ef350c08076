------------------------- MODULE CompressBooks_proofs -------------------------
(***************************************************************************)
(* What CompressEngine writes decodes.                                     *)
(*                                                                         *)
(* First, of the runtime graph alone (FinalGraph): where every stream is   *)
(* either stored or consumed by one node, the header that                  *)
(* CCTX_getFinalGraph() makes is one the decoder accepts, and the decoder  *)
(* finds every stream of the encoder in its slot (BalancedDecodes).  The   *)
(* header is made by counting, from the last stream to the first, so the   *)
(* lemmas go by induction over the streams: a set of numbers that is       *)
(* closed under successors and holds 0 holds all of them.                  *)
(*                                                                         *)
(* Then, of the engine: the books balance when a chunk is flushed.  The    *)
(* invariant BInv has the streams that the activations on the stack owe,   *)
(* and says that at any time every stream is stored, consumed or owed, and *)
(* is one of these only.  It rests on HInv of CompressEngine_proofs.       *)
(***************************************************************************)
EXTENDS CompressEngine_proofs, WellFoundedInduction

USE EngineAssumption, LimitAssumption

-----------------------------------------------------------------------------
(* Induction over data.  The induction theorems of the library take an     *)
(* operator as a parameter; the least element of a set does not need one.  *)

(* The least element of a set of numbers.                                  *)
LEMMA LeastNumber ==
    ASSUME NEW T \in SUBSET Nat, T # {}
    PROVE  \E m \in T : \A n \in T : m <= n
<1> DEFINE R == OpToRel(<, Nat)
<1>1. IsWellFoundedOn(R, Nat)
  BY NatLessThanWellFounded, Zenon
<1>2. PICK m \in T : \A n \in T : ~ (<<n, m>> \in R)
  <2> HIDE DEF R
  <2> QED BY <1>1, WFMin
<1>3. \A n \in T : <<n, m>> \in R <=> n < m
  BY DEF OpToRel
<1> HIDE DEF R
<1>4. m \in Nat /\ \A n \in T : n \in Nat /\ ~(n < m)
  BY <1>2, <1>3
<1>5. QED
  BY <1>4

(* Induction, with the set of the numbers that have the property.          *)
LEMMA SetInduction ==
    ASSUME NEW S, 0 \in S, \A n \in Nat : n \in S => n + 1 \in S
    PROVE  \A n \in Nat : n \in S
<1>1. SUFFICES ASSUME Nat \ S # {} PROVE FALSE
  OBVIOUS
<1>2. PICK m \in Nat \ S : \A n \in Nat \ S : m <= n
  <2>1. Nat \ S \in SUBSET Nat
    OBVIOUS
  <2>2. QED
    BY <1>1, <2>1, LeastNumber
<1>3. m # 0
  OBVIOUS
<1>4. m - 1 \in Nat /\ ~(m <= m - 1)
  BY <1>3
<1>5. m - 1 \in S
  BY <1>2, <1>4
<1>6. (m - 1) + 1 \in S
  BY <1>5, <1>4
<1>7. QED
  BY <1>6

IsSum(f, g, n) == f = [t \in 0 .. n |-> IF t = 0 THEN 0 ELSE f[t - 1] + g[t]]

LEMMA SumExists ==
    ASSUME NEW g
    PROVE  \A n \in Nat : \E f : IsSum(f, g, n)
<1> DEFINE S == {n \in Nat : \E f : IsSum(f, g, n)}
<1>1. 0 \in S
  <2>1. IsSum([t \in 0 .. 0 |-> 0], g, 0)
    BY DEF IsSum
  <2> QED BY <2>1
<1>2. ASSUME NEW n \in Nat, n \in S PROVE n + 1 \in S
  <2>1. PICK f : IsSum(f, g, n)
    BY <1>2
  <2> DEFINE h == [t \in 0 .. n + 1 |-> IF t = n + 1 THEN f[n] + g[n + 1] ELSE f[t]]
  <2>2. \A t \in 0 .. n : h[t] = f[t]
    OBVIOUS
  <2>3. \A t \in 0 .. n : f[t] = IF t = 0 THEN 0 ELSE f[t - 1] + g[t]
    BY <2>1 DEF IsSum
  <2>4. h[n + 1] = h[n] + g[n + 1]
    BY <2>2
  <2>5. \A t \in 0 .. n + 1 : h[t] = IF t = 0 THEN 0 ELSE h[t - 1] + g[t]
    <3> SUFFICES ASSUME NEW t \in 0 .. n + 1 PROVE h[t] = IF t = 0 THEN 0 ELSE h[t - 1] + g[t]
      OBVIOUS
    <3> HIDE DEF h
    <3>1. CASE t = n + 1
      BY <2>4, <3>1
    <3>2. CASE t \in 0 .. n
      <4>1. t # 0 => t - 1 \in 0 .. n
        BY <3>2
      <4> QED BY <2>2, <2>3, <3>2, <4>1
    <3> QED BY <3>1, <3>2
  <2>6. IsSum(h, g, n + 1)
    <3> DEFINE k == [t \in 0 .. n + 1 |-> IF t = 0 THEN 0 ELSE h[t - 1] + g[t]]
    <3>1. h = k
      <4>1. \A t \in 0 .. n + 1 : k[t] = IF t = 0 THEN 0 ELSE h[t - 1] + g[t]
        BY DEF k
      <4>2. h = [t \in 0 .. n + 1 |-> h[t]]
        OBVIOUS
      <4>3. k = [t \in 0 .. n + 1 |-> k[t]]
        OBVIOUS
      <4> HIDE DEF h, k
      <4>4. \A t \in 0 .. n + 1 : h[t] = k[t]
        BY <2>5, <4>1
      <4> QED BY <4>2, <4>3, <4>4
    <3> HIDE DEF h
    <3> QED BY <3>1 DEF IsSum
  <2> HIDE DEF h
  <2> QED BY <2>6
<1> HIDE DEF S
<1>3. \A n \in Nat : n \in S
  BY <1>1, <1>2, SetInduction
<1> QED BY <1>3 DEF S

-----------------------------------------------------------------------------
(* From the runtime graph to the slots of the decoder.                     *)
(*                                                                         *)
(* A chunk decodes when the books of its runtime graph balance: outputs    *)
(* follow each other without gaps (LayoutOK), no stream is consumed twice  *)
(* (LinksOK), and a stream is stored exactly when no node consumes it.     *)

(* Stream s is the input of a node.                                        *)
Consumed(nds, s) == \E m \in 1 .. Len(nds) : s \in Range(nds[m].ins)

(* The outputs of the nodes, one after the other after the k inputs.       *)
LayoutOK(nds, strs, k) ==
    /\ Origin(nds, strs, k)
    /\ \A m \in 1 .. Len(nds) :
          nds[m].start + nds[m].outs =
             IF m = Len(nds) THEN Len(strs) + 1 ELSE nds[m + 1].start

(* Inputs are older than outputs, and consumed once.                       *)
LinksOK(nds) ==
    /\ \A m \in 1 .. Len(nds) :
          /\ Once(nds[m].ins)
          /\ \A s \in Range(nds[m].ins) : s \in 1 .. nds[m].start - 1
    /\ \A m, n \in 1 .. Len(nds) :
          \A s \in Range(nds[m].ins) : s \in Range(nds[n].ins) => m = n

Balanced(nds, strs, k) ==
    /\ LayoutOK(nds, strs, k) /\ LinksOK(nds)
    /\ \A s \in 1 .. Len(strs) : strs[s].toStore <=> ~ Consumed(nds, s)

(* What the header says of the graph; transform t is node Len(nds) + 1 - t. *)
NodeOf(nds, t) == nds[Len(nds) + 1 - t]

IsHeader(gi, nds, strs) ==
    /\ Len(gi.trs) = Len(nds) /\ DOMAIN gi.trs = 1 .. Len(nds)
    /\ \A t \in 1 .. Len(nds) :
          /\ gi.trs[t].outs = NodeOf(nds, t).outs
          /\ DOMAIN gi.trs[t].dist = 1 .. Len(NodeOf(nds, t).ins)
          /\ Len(gi.trs[t].dist) = Len(NodeOf(nds, t).ins)
          /\ \A n \in 1 .. Len(NodeOf(nds, t).ins) :
                gi.trs[t].dist[n] = NodeOf(nds, t).start - NodeOf(nds, t).ins[n] - 1
    /\ gi.stored = RTGM_listBuffersToStore(strs)

(* The nodes.                                                              *)
LEMMA NodeTypes ==
    ASSUME NEW nds \in Seq(Node)
    PROVE  /\ Len(nds) \in Nat /\ DOMAIN nds = 1 .. Len(nds)
           /\ \A m \in 1 .. Len(nds) :
                 /\ nds[m].start \in Nat /\ nds[m].outs \in Nat /\ nds[m].out1s \in Nat
                 /\ nds[m].ins \in Seq(Nat) /\ Len(nds[m].ins) \in Nat
                 /\ DOMAIN nds[m].ins = 1 .. Len(nds[m].ins)
                 /\ \A n \in 1 .. Len(nds[m].ins) : nds[m].ins[n] \in Nat
           /\ \A t \in 1 .. Len(nds) : Len(nds) + 1 - t \in 1 .. Len(nds)
<1>1. /\ Len(nds) \in Nat /\ DOMAIN nds = 1 .. Len(nds)
      /\ \A m \in 1 .. Len(nds) : nds[m] \in Node
  BY LenProperties, ElementOfSeq
<1>2. ASSUME NEW m \in 1 .. Len(nds)
      PROVE  /\ nds[m].start \in Nat /\ nds[m].outs \in Nat /\ nds[m].out1s \in Nat
             /\ nds[m].ins \in Seq(Nat)
  BY <1>1 DEF Node
<1>3. ASSUME NEW s \in Seq(Nat)
      PROVE  Len(s) \in Nat /\ DOMAIN s = 1 .. Len(s) /\ \A n \in 1 .. Len(s) : s[n] \in Nat
  BY LenProperties, ElementOfSeq
<1>4. \A t \in 1 .. Len(nds) : Len(nds) + 1 - t \in 1 .. Len(nds)
  BY <1>1
<1> QED BY <1>1, <1>2, <1>3, <1>4

LEMMA HeaderIs ==
    ASSUME NEW nds \in Seq(Node), NEW strs
    PROVE  IsHeader(CCTX_getFinalGraph(nds, strs), nds, strs)
<1> DEFINE N == Len(nds)
           Dist(m) == [n \in DOMAIN nds[m].ins |-> nds[m].start - nds[m].ins[n] - 1]
           trs == [t \in DOMAIN nds |-> [outs |-> nds[N + 1 - t].outs, dist |-> Dist(N + 1 - t)]]
           gi == CCTX_getFinalGraph(nds, strs)
<1>1. gi.trs = trs /\ gi.stored = RTGM_listBuffersToStore(strs)
  BY DEF CCTX_getFinalGraph
<1>2. /\ N \in Nat /\ DOMAIN nds = 1 .. N
      /\ \A m \in 1 .. N : /\ nds[m].start \in Nat /\ Len(nds[m].ins) \in Nat
                           /\ DOMAIN nds[m].ins = 1 .. Len(nds[m].ins)
                           /\ \A n \in 1 .. Len(nds[m].ins) : nds[m].ins[n] \in Nat
      /\ \A t \in 1 .. N : N + 1 - t \in 1 .. N
  BY NodeTypes
<1>3. ASSUME NEW m \in 1 .. N
      PROVE  /\ DOMAIN Dist(m) = 1 .. Len(nds[m].ins) /\ Len(Dist(m)) = Len(nds[m].ins)
             /\ \A n \in 1 .. Len(nds[m].ins) : Dist(m)[n] = nds[m].start - nds[m].ins[n] - 1
  <2>1. Dist(m) \in [1 .. Len(nds[m].ins) -> Int]
    BY <1>2
  <2> QED BY <1>2, <2>1, FcnSeq
<1>4. trs \in [1 .. N -> {trs[t] : t \in 1 .. N}]
  BY <1>2
<1>5. Len(trs) = N /\ DOMAIN trs = 1 .. N
  BY <1>2, <1>4, FcnSeq
<1>6. \A t \in 1 .. N : trs[t].outs = nds[N + 1 - t].outs /\ trs[t].dist = Dist(N + 1 - t)
  BY <1>2
<1> HIDE DEF trs, Dist, gi
<1>7. \A t \in 1 .. N : /\ DOMAIN trs[t].dist = 1 .. Len(nds[N + 1 - t].ins)
                        /\ Len(trs[t].dist) = Len(nds[N + 1 - t].ins)
                        /\ \A n \in 1 .. Len(nds[N + 1 - t].ins) :
                              trs[t].dist[n] = nds[N + 1 - t].start - nds[N + 1 - t].ins[n] - 1
  BY <1>2, <1>3, <1>6
<1>8. IsHeader(gi, nds, strs)
  BY <1>1, <1>5, <1>6, <1>7 DEF IsHeader, NodeOf
<1> QED BY <1>8 DEF gi

(* inputEndIdx is a running sum.                                           *)
LEMMA EndIs ==
    ASSUME NEW gi, Len(gi.trs) \in Nat
    PROVE  \A t \in 0 .. Len(gi.trs) :
              InputEndIdx(gi)[t] =
                 IF t = 0 THEN 0 ELSE InputEndIdx(gi)[t - 1] + gi.trs[t].outs
<1> DEFINE N == Len(gi.trs)
           g == [t \in 1 .. N |-> gi.trs[t].outs]
<1>1. PICK f : f = [t \in 0 .. N |-> IF t = 0 THEN 0 ELSE f[t - 1] + g[t]]
  BY SumExists DEF IsSum
<1>2. \A h : [t \in 0 .. N |-> IF t = 0 THEN 0 ELSE h[t - 1] + g[t]]
                = [t \in 0 .. N |-> IF t = 0 THEN 0 ELSE h[t - 1] + gi.trs[t].outs]
  OBVIOUS
<1> HIDE DEF g
<1>3. f = [t \in 0 .. N |-> IF t = 0 THEN 0 ELSE f[t - 1] + gi.trs[t].outs]
  BY <1>1, <1>2
<1>4. InputEndIdx(gi) = [t \in 0 .. N |->
          IF t = 0 THEN 0 ELSE InputEndIdx(gi)[t - 1] + gi.trs[t].outs]
  BY <1>3 DEF InputEndIdx
<1> QED BY <1>4

(* Seen from the end, a transform's inputs begin where its node's outputs  *)
(* end.                                                                    *)
LEMMA EndOf ==
    ASSUME NEW nds \in Seq(Node), NEW strs \in Seq(Stream), NEW k, LayoutOK(nds, strs, k),
           NEW gi, IsHeader(gi, nds, strs)
    PROVE  \A t \in 1 .. Len(nds) :
              InputEndIdx(gi)[t] = Len(strs) + 1 - NodeOf(nds, t).start
<1> DEFINE N == Len(nds)
           T == Len(strs)
           End(t) == InputEndIdx(gi)[t]
           S == {t \in Nat : t \in 1 .. N => End(t) = T + 1 - NodeOf(nds, t).start}
<1>1. /\ N \in Nat /\ T \in Nat
      /\ \A m \in 1 .. N : nds[m].start \in Nat /\ nds[m].outs \in Nat
  BY NodeTypes, StreamRanks
<1>2. \A t \in 0 .. N : End(t) = IF t = 0 THEN 0 ELSE End(t - 1) + gi.trs[t].outs
  BY <1>1, EndIs DEF IsHeader
<1>3. \A t \in 1 .. N : gi.trs[t].outs = NodeOf(nds, t).outs
  BY DEF IsHeader
<1>4. \A m \in 1 .. N : nds[m].start + nds[m].outs = IF m = N THEN T + 1 ELSE nds[m + 1].start
  BY DEF LayoutOK
<1> HIDE DEF End
<1>5. 0 \in S
  OBVIOUS
<1>6. ASSUME NEW t \in Nat, t \in S PROVE t + 1 \in S
  <2> SUFFICES ASSUME t + 1 \in 1 .. N PROVE End(t + 1) = T + 1 - NodeOf(nds, t + 1).start
    OBVIOUS
  <2>1. N - t \in 1 .. N /\ NodeOf(nds, t + 1) = nds[N - t]
    BY <1>1 DEF NodeOf
  <2>2. End(t + 1) = End(t) + nds[N - t].outs
    BY <1>1, <1>2, <1>3, <2>1
  <2>3. CASE t = 0
    <3>1. N - t = N /\ End(t) = 0 /\ N \in 1 .. N
      BY <1>1, <1>2, <2>1, <2>3
    <3>2. nds[N].start + nds[N].outs = T + 1 /\ nds[N].start \in Nat /\ nds[N].outs \in Nat
      BY <1>1, <1>4, <3>1
    <3>3. NodeOf(nds, t + 1) = nds[N]
      BY <2>1, <3>1
    <3>4. End(t + 1) = 0 + nds[N].outs
      BY <2>2, <3>1
    <3>5. End(t + 1) = T + 1 - nds[N].start
      BY <1>1, <3>2, <3>4
    <3> QED BY <3>3, <3>5
  <2>4. CASE t # 0
    <3>1. t \in 1 .. N /\ End(t) = T + 1 - nds[N + 1 - t].start
      BY <1>1, <1>6, <2>4 DEF NodeOf
    <3>2. nds[N - t].start + nds[N - t].outs = nds[N + 1 - t].start
      BY <1>1, <1>4, <2>1, <2>4
    <3>3. nds[N - t].start \in Nat /\ nds[N - t].outs \in Nat
      BY <1>1, <2>1
    <3> QED BY <1>1, <2>1, <2>2, <3>1, <3>2, <3>3
  <2> QED BY <2>3, <2>4
<1> HIDE DEF S
<1>7. \A t \in Nat : t \in S
  BY <1>5, <1>6, SetInduction
<1> QED BY <1>1, <1>7 DEF S, End

(* What regenerating an input writes to is the slot of its stream.         *)
LEMMA RegenAt ==
    ASSUME NEW nds \in Seq(Node), NEW strs \in Seq(Stream), NEW k, LayoutOK(nds, strs, k),
           NEW gi, IsHeader(gi, nds, strs)
    PROVE  /\ \A r : r \in Regens(gi) <=>
                 \E t \in 1 .. Len(nds) : \E n \in 1 .. Len(NodeOf(nds, t).ins) :
                    r = [t |-> t, n |-> n]
           /\ \A t \in 1 .. Len(nds) : \A n \in 1 .. Len(NodeOf(nds, t).ins) :
                 RegenIdx(gi, [t |-> t, n |-> n]) = Len(strs) - NodeOf(nds, t).ins[n]
<1> DEFINE N == Len(nds)
<1>1. /\ DOMAIN gi.trs = 1 .. N
      /\ \A t \in 1 .. N : /\ DOMAIN gi.trs[t].dist = 1 .. Len(NodeOf(nds, t).ins)
                           /\ \A n \in 1 .. Len(NodeOf(nds, t).ins) : gi.trs[t].dist[n] =
                                 NodeOf(nds, t).start - NodeOf(nds, t).ins[n] - 1
  BY DEF IsHeader
<1>2. \A r : r \in Regens(gi) <=>
          \E t \in 1 .. N : \E n \in 1 .. Len(NodeOf(nds, t).ins) : r = [t |-> t, n |-> n]
  BY <1>1 DEF Regens
<1>3. ASSUME NEW t \in 1 .. N, NEW n \in 1 .. Len(NodeOf(nds, t).ins)
      PROVE  RegenIdx(gi, [t |-> t, n |-> n]) = Len(strs) - NodeOf(nds, t).ins[n]
  <2>1. InputEndIdx(gi)[t] = Len(strs) + 1 - NodeOf(nds, t).start
    BY EndOf
  <2>2. /\ NodeOf(nds, t).start \in Nat /\ NodeOf(nds, t).ins[n] \in Nat /\ Len(strs) \in Nat
    BY NodeTypes, StreamRanks DEF NodeOf
  <2>3. gi.trs[t].dist[n] = NodeOf(nds, t).start - NodeOf(nds, t).ins[n] - 1
    BY <1>1
  <2>4. RegenIdx(gi, [t |-> t, n |-> n]) = InputEndIdx(gi)[t] + gi.trs[t].dist[n]
    BY DEF RegenIdx
  <2> QED BY <2>1, <2>2, <2>3, <2>4
<1> QED BY <1>2, <1>3

(* The slots of the streams that the last t nodes consume.                 *)
SlotsOf(nds, T, t) ==
    {p \in 0 .. T - 1 : \E u \in 1 .. t : T - p \in Range(NodeOf(nds, u).ins)}

(* A node's inputs, in the vector.                                         *)
LEMMA InsInside ==
    ASSUME NEW nds, NEW strs, GraphOK(nds, strs), LinksOK(nds), NEW m \in 1 .. Len(nds)
    PROVE  /\ \A n \in 1 .. Len(nds[m].ins) : /\ nds[m].ins[n] \in 1 .. Len(strs)
                                              /\ nds[m].ins[n] \in Range(nds[m].ins)
           /\ \A s : s \in Range(nds[m].ins) <=> \E n \in 1 .. Len(nds[m].ins) : s = nds[m].ins[n]
           /\ \A s \in Range(nds[m].ins) : s \in 1 .. Len(strs)
<1>1. nds \in Seq(Node) /\ strs \in Seq(Stream) /\ nds[m].start <= Len(strs) + 1
  BY DEF GraphOK
<1>2. nds[m].start \in Nat /\ Len(strs) \in Nat /\ DOMAIN nds[m].ins = 1 .. Len(nds[m].ins)
  BY <1>1, NodeTypes, StreamRanks
<1>3. \A s : s \in Range(nds[m].ins) <=> \E n \in 1 .. Len(nds[m].ins) : s = nds[m].ins[n]
  BY <1>2 DEF Range
<1>4. \A s \in Range(nds[m].ins) : s \in 1 .. nds[m].start - 1
  BY DEF LinksOK
<1>5. \A s \in 1 .. nds[m].start - 1 : s \in 1 .. Len(strs)
  BY <1>1, <1>2
<1> QED BY <1>3, <1>4, <1>5

(* All the slots that are regenerated.                                     *)
LEMMA RegenSlotsAre ==
    ASSUME NEW nds, NEW strs, GraphOK(nds, strs), NEW k, LayoutOK(nds, strs, k), LinksOK(nds),
           NEW gi, IsHeader(gi, nds, strs)
    PROVE  /\ RegenSlots(gi) = SlotsOf(nds, Len(strs), Len(nds))
           /\ \A p \in 0 .. Len(strs) - 1 :
                 p \in RegenSlots(gi) <=> Consumed(nds, Len(strs) - p)
<1> DEFINE N == Len(nds)
           T == Len(strs)
<1>1. /\ nds \in Seq(Node) /\ strs \in Seq(Stream) /\ N \in Nat /\ T \in Nat
      /\ \A t \in 1 .. N : N + 1 - t \in 1 .. N
  BY NodeTypes, StreamRanks DEF GraphOK
<1>2. \A t \in 1 .. N :
          /\ \A n \in 1 .. Len(NodeOf(nds, t).ins) : /\ NodeOf(nds, t).ins[n] \in 1 .. T
                                                     /\ NodeOf(nds, t).ins[n] \in Range(NodeOf(nds, t).ins)
          /\ \A s : s \in Range(NodeOf(nds, t).ins) <=>
                \E n \in 1 .. Len(NodeOf(nds, t).ins) : s = NodeOf(nds, t).ins[n]
  BY <1>1, InsInside DEF NodeOf
<1>3. /\ \A r : r \in Regens(gi) <=> \E t \in 1 .. N : \E n \in 1 .. Len(NodeOf(nds, t).ins) :
                                        r = [t |-> t, n |-> n]
      /\ \A t \in 1 .. N : \A n \in 1 .. Len(NodeOf(nds, t).ins) :
            RegenIdx(gi, [t |-> t, n |-> n]) = T - NodeOf(nds, t).ins[n]
  BY <1>1, RegenAt
<1>4. ASSUME NEW q \in RegenSlots(gi) PROVE q \in SlotsOf(nds, T, N)
  <2>1. PICK t \in 1 .. N : \E n \in 1 .. Len(NodeOf(nds, t).ins) : q = T - NodeOf(nds, t).ins[n]
    BY <1>3, <1>4 DEF RegenSlots
  <2>2. PICK n \in 1 .. Len(NodeOf(nds, t).ins) : q = T - NodeOf(nds, t).ins[n]
    BY <2>1
  <2>3. PICK s \in 1 .. T : s = NodeOf(nds, t).ins[n] /\ s \in Range(NodeOf(nds, t).ins)
    BY <1>2
  <2>4. q \in 0 .. T - 1 /\ T - q = s
    BY <1>1, <2>2, <2>3
  <2> QED BY <2>3, <2>4 DEF SlotsOf
<1>5. ASSUME NEW p \in SlotsOf(nds, T, N) PROVE p \in RegenSlots(gi)
  <2>1. p \in 0 .. T - 1 /\ \E u \in 1 .. N : T - p \in Range(NodeOf(nds, u).ins)
    BY DEF SlotsOf
  <2>2. PICK t \in 1 .. N : T - p \in Range(NodeOf(nds, t).ins)
    BY <2>1
  <2>3. PICK n \in 1 .. Len(NodeOf(nds, t).ins) : T - p = NodeOf(nds, t).ins[n]
    BY <1>2, <2>2
  <2>4. [t |-> t, n |-> n] \in Regens(gi) /\ RegenIdx(gi, [t |-> t, n |-> n]) = T - (T - p)
    BY <1>3, <2>3
  <2>5. T - (T - p) = p
    BY <1>1, <2>1
  <2> QED BY <2>4, <2>5 DEF RegenSlots
<1>6. RegenSlots(gi) = SlotsOf(nds, T, N)
  BY <1>4, <1>5
<1>7. ASSUME NEW p \in 0 .. T - 1
      PROVE  p \in SlotsOf(nds, T, N) <=> Consumed(nds, T - p)
  <2>1. \A t \in 1 .. N : N + 1 - t \in 1 .. N /\ N + 1 - (N + 1 - t) = t
    BY <1>1
  <2>2. p \in SlotsOf(nds, T, N) <=> \E u \in 1 .. N : T - p \in Range(nds[N + 1 - u].ins)
    BY DEF SlotsOf, NodeOf
  <2>3. Consumed(nds, T - p) <=> \E m \in 1 .. N : T - p \in Range(nds[m].ins)
    BY DEF Consumed
  <2>4. ASSUME NEW m \in 1 .. N, T - p \in Range(nds[m].ins)
        PROVE  \E u \in 1 .. N : T - p \in Range(nds[N + 1 - u].ins)
    BY <2>1, <2>4
  <2> QED BY <2>1, <2>2, <2>3, <2>4
<1> QED BY <1>6, <1>7

(* A list without repetition has as many streams as it has places.         *)
LEMMA OnceCard ==
    ASSUME NEW w \in Seq(Nat), Once(w), NEW T \in Nat
    PROVE  /\ IsFiniteSet({T - w[n] : n \in 1 .. Len(w)})
           /\ Cardinality({T - w[n] : n \in 1 .. Len(w)}) = Len(w)
<1> DEFINE D == 1 .. Len(w)
           V == {T - w[n] : n \in D}
           f == [n \in D |-> T - w[n]]
<1>1. Len(w) \in Nat /\ DOMAIN w = D /\ \A n \in D : w[n] \in Nat
  BY LenProperties, ElementOfSeq
<1>2. IsFiniteSet(D) /\ Cardinality(D) = Len(w)
  <2>1. 1 \in Int /\ Len(w) \in Int
    BY <1>1
  <2>2. IsFiniteSet(D) /\ Cardinality(D) = IF 1 > Len(w) THEN 0 ELSE Len(w) - 1 + 1
    BY <2>1, FS_Interval
  <2> QED BY <1>1, <2>2
<1>3. \A a, b \in D : T - w[a] = T - w[b] => a = b
  <2>1. \A a, b \in D : w[a] = w[b] => a = b
    BY <1>1 DEF Once
  <2>2. \A a, b \in D : T - w[a] = T - w[b] => w[a] = w[b]
    BY <1>1
  <2> QED BY <2>1, <2>2
<1>4. f \in [D -> V] /\ \A n \in D : f[n] = T - w[n]
  OBVIOUS
<1>5. \A v \in V : \E n \in D : f[n] = v
  BY <1>4
<1> HIDE DEF f, V, D
<1>6. f \in Injection(D, V) /\ f \in Surjection(D, V)
  BY <1>3, <1>4, <1>5 DEF Injection, Surjection, IsInjective
<1>7. IsFiniteSet(V) /\ (Cardinality(V) = Cardinality(D) <=> f \in Injection(D, V))
  BY <1>2, <1>6, FS_Surjection
<1> QED BY <1>2, <1>6, <1>7 DEF V, D

(* Adding a set of other elements.                                         *)
LEMMA AddCard ==
    ASSUME NEW A, NEW B, IsFiniteSet(A), IsFiniteSet(B), A \cap B = {}
    PROVE  /\ IsFiniteSet(A \cup B) /\ Cardinality(A \cup B) = Cardinality(A) + Cardinality(B)
           /\ Cardinality(A) \in Nat /\ Cardinality(B) \in Nat
<1>1. Cardinality(A) \in Nat /\ Cardinality(B) \in Nat /\ Cardinality(A \cap B) = 0
  BY FS_CardinalityType, FS_EmptySet
<1>2. /\ IsFiniteSet(A \cup B)
      /\ Cardinality(A \cup B) = Cardinality(A) + Cardinality(B) - Cardinality(A \cap B)
  BY FS_Union
<1> QED BY <1>1, <1>2

(* The number of regenerations is the number of regenerated slots.         *)
LEMMA NbRegensIs ==
    ASSUME NEW nds, NEW strs, GraphOK(nds, strs), LinksOK(nds), NEW gi, IsHeader(gi, nds, strs)
    PROVE  /\ IsFiniteSet(SlotsOf(nds, Len(strs), Len(nds)))
           /\ NbRegens(gi) = Cardinality(SlotsOf(nds, Len(strs), Len(nds)))
<1> DEFINE N == Len(nds)
           T == Len(strs)
           M == Len(gi.trs)
           sum == CHOOSE f : f = [t \in 0 .. M |->
                     IF t = 0 THEN 0 ELSE f[t - 1] + Len(gi.trs[t].dist)]
           g == [t \in 1 .. M |-> Len(gi.trs[t].dist)]
           Slots(t) == SlotsOf(nds, T, t)
           More(t) == {T - NodeOf(nds, t).ins[n] : n \in 1 .. Len(NodeOf(nds, t).ins)}
           S == {t \in Nat : t <= N => IsFiniteSet(Slots(t)) /\ sum[t] = Cardinality(Slots(t))}
<1>1. /\ nds \in Seq(Node) /\ strs \in Seq(Stream) /\ N \in Nat /\ T \in Nat
      /\ \A t \in 1 .. N : N + 1 - t \in 1 .. N
  BY NodeTypes, StreamRanks DEF GraphOK
<1>2. M = N /\ \A t \in 1 .. N : Len(gi.trs[t].dist) = Len(NodeOf(nds, t).ins)
  BY DEF IsHeader
<1>3. NbRegens(gi) = sum[M]
  BY DEF NbRegens
<1>4. PICK f : f = [t \in 0 .. M |-> IF t = 0 THEN 0 ELSE f[t - 1] + g[t]]
  <2>1. M \in Nat
    BY <1>1, <1>2
  <2> HIDE DEF g, M
  <2> QED BY <2>1, SumExists DEF IsSum
<1>5. \A h : [t \in 0 .. M |-> IF t = 0 THEN 0 ELSE h[t - 1] + g[t]]
                = [t \in 0 .. M |-> IF t = 0 THEN 0 ELSE h[t - 1] + Len(gi.trs[t].dist)]
  <2>1. \A t \in 1 .. M : g[t] = Len(gi.trs[t].dist)
    BY DEF g
  <2>2. M \in Nat
    BY <1>1, <1>2
  <2> HIDE DEF g, M
  <2> QED BY <2>1, <2>2
<1>6. sum = [t \in 0 .. M |-> IF t = 0 THEN 0 ELSE sum[t - 1] + Len(gi.trs[t].dist)]
  <2> HIDE DEF g, M
  <2>1. f = [t \in 0 .. M |-> IF t = 0 THEN 0 ELSE f[t - 1] + Len(gi.trs[t].dist)]
    BY <1>4, <1>5
  <2> QED BY <2>1
<1> HIDE DEF sum, g, M
<1>7. \A t \in 0 .. N : sum[t] = IF t = 0 THEN 0 ELSE sum[t - 1] + Len(NodeOf(nds, t).ins)
  <2>1. \A t \in 0 .. M : sum[t] = IF t = 0 THEN 0 ELSE sum[t - 1] + Len(gi.trs[t].dist)
    BY <1>6
  <2> QED BY <1>1, <1>2, <2>1
<1>8. 0 \in S
  <2>1. Slots(0) = {}
    BY DEF SlotsOf
  <2>2. sum[0] = 0
    BY <1>1, <1>7
  <2> QED BY <2>1, <2>2, FS_EmptySet
<1>9. ASSUME NEW t \in Nat, t \in S PROVE t + 1 \in S
  <2> SUFFICES ASSUME t + 1 <= N
               PROVE  IsFiniteSet(Slots(t + 1)) /\ sum[t + 1] = Cardinality(Slots(t + 1))
    OBVIOUS
  <2>1. t + 1 \in 1 .. N /\ IsFiniteSet(Slots(t)) /\ sum[t] = Cardinality(Slots(t))
    BY <1>1, <1>9
  <2>2. PICK m \in 1 .. N : m = N + 1 - (t + 1) /\ NodeOf(nds, t + 1) = nds[m]
    BY <1>1, <2>1 DEF NodeOf
  <2>3. /\ nds[m].ins \in Seq(Nat) /\ Once(nds[m].ins) /\ Len(nds[m].ins) \in Nat
        /\ \A n \in 1 .. Len(nds[m].ins) : nds[m].ins[n] \in 1 .. T
        /\ \A s : s \in Range(nds[m].ins) <=> \E n \in 1 .. Len(nds[m].ins) : s = nds[m].ins[n]
    <3>1. nds[m].ins \in Seq(Nat) /\ Len(nds[m].ins) \in Nat
      BY <1>1, NodeTypes
    <3>2. Once(nds[m].ins)
      BY DEF LinksOK
    <3> QED BY <3>1, <3>2, InsInside
  <2>4. IsFiniteSet(More(t + 1)) /\ Cardinality(More(t + 1)) = Len(nds[m].ins)
    <3>1. PICK w : w = nds[m].ins
      OBVIOUS
    <3>2. /\ IsFiniteSet({T - w[n] : n \in 1 .. Len(w)})
          /\ Cardinality({T - w[n] : n \in 1 .. Len(w)}) = Len(w)
      <4>1. w \in Seq(Nat) /\ Once(w) /\ T \in Nat
        BY <1>1, <2>3, <3>1
      <4> HIDE DEF T
      <4> QED BY <4>1, OnceCard
    <3>3. More(t + 1) = {T - w[n] : n \in 1 .. Len(w)}
      BY <2>2, <3>1
    <3> QED BY <3>1, <3>2, <3>3
  <2>5. \A p : p \in More(t + 1) <=> p \in 0 .. T - 1 /\ T - p \in Range(nds[m].ins)
    <3>1. ASSUME NEW p, p \in More(t + 1)
          PROVE  p \in 0 .. T - 1 /\ T - p \in Range(nds[m].ins)
      <4>1. PICK n \in 1 .. Len(nds[m].ins) : p = T - nds[m].ins[n]
        BY <2>2, <3>1
      <4>2. PICK s \in 1 .. T : s = nds[m].ins[n] /\ s \in Range(nds[m].ins)
        BY <2>3
      <4>3. p \in 0 .. T - 1 /\ T - p = s
        BY <1>1, <4>1, <4>2
      <4> QED BY <4>2, <4>3
    <3>2. ASSUME NEW p \in 0 .. T - 1, T - p \in Range(nds[m].ins) PROVE p \in More(t + 1)
      <4>1. PICK n \in 1 .. Len(nds[m].ins) : T - p = nds[m].ins[n]
        BY <2>3, <3>2
      <4>2. p = T - (T - p)
        BY <1>1
      <4>3. p = T - nds[m].ins[n]
        BY <4>1, <4>2
      <4> QED BY <2>2, <4>3
    <3> QED BY <3>1, <3>2
  <2> HIDE DEF More
  <2>6. Slots(t + 1) = Slots(t) \cup More(t + 1)
    <3>1. \A p : p \in Slots(t + 1) <=>
              p \in 0 .. T - 1 /\ \E u \in 1 .. t + 1 : T - p \in Range(NodeOf(nds, u).ins)
      BY DEF SlotsOf
    <3>2. \A p : p \in Slots(t) <=>
              p \in 0 .. T - 1 /\ \E u \in 1 .. t : T - p \in Range(NodeOf(nds, u).ins)
      BY DEF SlotsOf
    <3>3. \A u : u \in 1 .. t + 1 <=> u \in 1 .. t \/ u = t + 1
      OBVIOUS
    <3> HIDE DEF Slots
    <3> QED BY <2>2, <2>5, <3>1, <3>2, <3>3, Zenon
  <2>7. Slots(t) \cap More(t + 1) = {}
    <3> SUFFICES ASSUME NEW p \in Slots(t), p \in More(t + 1) PROVE FALSE
      OBVIOUS
    <3>1. PICK u \in 1 .. t : T - p \in Range(NodeOf(nds, u).ins)
      BY DEF SlotsOf
    <3>2. PICK l \in 1 .. N : l = N + 1 - u /\ NodeOf(nds, u) = nds[l] /\ l # m
      BY <1>1, <2>1, <2>2 DEF NodeOf
    <3>3. T - p \in Range(nds[l].ins) /\ T - p \in Range(nds[m].ins)
      BY <2>5, <3>1, <3>2
    <3> QED BY <3>2, <3>3 DEF LinksOK
  <2>8. /\ IsFiniteSet(Slots(t + 1))
        /\ Cardinality(Slots(t + 1)) = Cardinality(Slots(t)) + Len(nds[m].ins)
    <3> HIDE DEF Slots
    <3> QED BY <2>1, <2>4, <2>6, <2>7, AddCard
  <2>9. sum[t + 1] = sum[t] + Len(nds[m].ins)
    <3>1. t + 1 \in 0 .. N /\ t + 1 # 0 /\ t + 1 - 1 = t
      BY <1>1, <2>1
    <3>2. sum[t + 1] = sum[t + 1 - 1] + Len(NodeOf(nds, t + 1).ins)
      BY <1>7, <3>1
    <3> QED BY <2>2, <3>1, <3>2
  <2> HIDE DEF Slots
  <2> QED BY <2>1, <2>8, <2>9
<1> HIDE DEF S
<1>10. \A t \in Nat : t \in S
  BY <1>8, <1>9, SetInduction
<1>11. IsFiniteSet(Slots(N)) /\ sum[N] = Cardinality(Slots(N))
  <2>1. N \in S
    BY <1>1, <1>10
  <2> HIDE DEF Slots
  <2> QED BY <1>1, <2>1 DEF S
<1> QED BY <1>2, <1>3, <1>11

(* RTGM_listBuffersToStore() after n streams, from the last one on.        *)
Wanted(strs, n) == {p \in 0 .. n - 1 : strs[Len(strs) - p].toStore}

ListStep(f, strs, n) ==
    IF strs[Len(strs) + 1 - n].toStore THEN Append(f[n - 1], Len(strs) + 1 - n) ELSE f[n - 1]

IsList(f, strs, n) == f = [t \in 0 .. n |-> IF t = 0 THEN <<>> ELSE ListStep(f, strs, t)]

LEMMA ListExists ==
    ASSUME NEW strs
    PROVE  \A n \in Nat : \E f : IsList(f, strs, n)
<1> USE DEF IsList
<1> DEFINE Good(f, n) == IsList(f, strs, n)
           S == {n \in Nat : \E f : Good(f, n)}
<1>1. 0 \in S
  <2>1. Good([t \in 0 .. 0 |-> <<>>], 0)
    OBVIOUS
  <2> HIDE DEF Good
  <2> QED BY <2>1
<1>2. ASSUME NEW n \in Nat, n \in S PROVE n + 1 \in S
  <2>1. PICK f : Good(f, n)
    BY <1>2
  <2> DEFINE h == [t \in 0 .. n + 1 |-> IF t = n + 1 THEN ListStep(f, strs, n + 1) ELSE f[t]]
  <2>2. DOMAIN h = 0 .. n + 1 /\ h[n + 1] = ListStep(f, strs, n + 1) /\ \A t \in 0 .. n : h[t] = f[t]
    OBVIOUS
  <2>3. \A t \in 0 .. n : f[t] = IF t = 0 THEN <<>> ELSE ListStep(f, strs, t)
    BY <2>1
  <2>4. h = [t \in 0 .. n + 1 |-> h[t]]
    OBVIOUS
  <2> HIDE DEF h
  <2>5. ASSUME NEW t \in 0 .. n + 1 PROVE h[t] = IF t = 0 THEN <<>> ELSE ListStep(h, strs, t)
    <3>1. t # 0 => t - 1 \in 0 .. n
      OBVIOUS
    <3>2. t # 0 => ListStep(h, strs, t) = ListStep(f, strs, t)
      BY <2>2, <3>1 DEF ListStep
    <3>3. CASE t = n + 1
      BY <2>2, <3>2, <3>3
    <3>4. CASE t \in 0 .. n
      BY <2>2, <2>3, <3>2, <3>4
    <3> QED BY <3>3, <3>4
  <2>6. Good(h, n + 1)
    <3> DEFINE g == [t \in 0 .. n + 1 |-> IF t = 0 THEN <<>> ELSE ListStep(h, strs, t)]
    <3>1. g = [t \in 0 .. n + 1 |-> g[t]] /\ \A t \in 0 .. n + 1 : g[t] = IF t = 0 THEN <<>> ELSE ListStep(h, strs, t)
      OBVIOUS
    <3>2. \A t \in 0 .. n + 1 : g[t] = h[t]
      <4> HIDE DEF g
      <4> QED BY <2>5, <3>1
    <3>3. h = g
      <4> HIDE DEF g
      <4> QED BY <2>4, <3>1, <3>2
    <3> QED BY <3>3
  <2> HIDE DEF Good
  <2> QED BY <2>6
<1> HIDE DEF S
<1>3. \A n \in Nat : n \in S
  BY <1>1, <1>2, SetInduction
<1> QED BY <1>3 DEF S

(* The stored buffers: buffer number i is the i-th slot, from 0 on, whose  *)
(* stream is stored.                                                       *)
LEMMA ListIsWanted ==
    ASSUME NEW strs \in Seq(Stream)
    PROVE  /\ Len(RTGM_listBuffersToStore(strs)) = Cardinality(Wanted(strs, Len(strs)))
           /\ \A p \in 0 .. Len(strs) - 1 : strs[Len(strs) - p].toStore =>
                 RTGM_listBuffersToStore(strs)[Cardinality(Wanted(strs, p + 1))] = Len(strs) - p
<1> DEFINE T == Len(strs)
           rba == CHOOSE f : f = [n \in 0 .. T |->
                     IF n = 0 THEN <<>>
                     ELSE IF strs[T + 1 - n].toStore THEN Append(f[n - 1], T + 1 - n)
                     ELSE f[n - 1]]
           Right(n) == /\ rba[n] \in Seq(Nat)
                       /\ IsFiniteSet(Wanted(strs, n))
                       /\ Len(rba[n]) = Cardinality(Wanted(strs, n))
                       /\ \A p \in 0 .. n - 1 : strs[T - p].toStore =>
                             /\ Cardinality(Wanted(strs, p + 1)) \in 1 .. Len(rba[n])
                             /\ rba[n][Cardinality(Wanted(strs, p + 1))] = T - p
           S == {n \in Nat : n <= T => Right(n)}
<1>1. T \in Nat
  BY StreamRanks
<1>2. RTGM_listBuffersToStore(strs) = rba[T]
  BY DEF RTGM_listBuffersToStore
<1>3. rba = [n \in 0 .. T |-> IF n = 0 THEN <<>> ELSE ListStep(rba, strs, n)]
  <2>1. PICK f : IsList(f, strs, T)
    BY <1>1, ListExists
  <2> QED BY <2>1 DEF IsList, ListStep
<1> HIDE DEF rba
<1>4. \A n \in 0 .. T : rba[n] = IF n = 0 THEN <<>> ELSE ListStep(rba, strs, n)
  BY <1>3
<1>5. Right(0)
  <2>1. rba[0] = <<>>
    BY <1>1, <1>4
  <2>2. Wanted(strs, 0) = {}
    BY DEF Wanted
  <2>3. rba[0] \in Seq(Nat) /\ Len(rba[0]) = 0 /\ 0 .. 0 - 1 = {}
    BY <2>1
  <2>4. IsFiniteSet(Wanted(strs, 0)) /\ Cardinality(Wanted(strs, 0)) = 0
    BY <2>2, FS_EmptySet
  <2> QED BY <2>3, <2>4
<1>6. ASSUME NEW n \in Nat, n + 1 <= T, Right(n) PROVE Right(n + 1)
  <2>1. /\ n + 1 \in 0 .. T /\ T + 1 - (n + 1) = T - n /\ n + 1 - 1 = n /\ T - n \in Nat
        /\ n + 1 # 0
    BY <1>1, <1>6
  <2>2. rba[n + 1] = IF strs[T - n].toStore THEN Append(rba[n], T - n) ELSE rba[n]
    <3>1. rba[n + 1] = ListStep(rba, strs, n + 1)
      BY <1>4, <2>1
    <3> QED BY <2>1, <3>1 DEF ListStep
  <2>3. \A p : p \in 0 .. n + 1 - 1 <=> p \in 0 .. n - 1 \/ p = n
    OBVIOUS
  <2>4. n \notin Wanted(strs, n) /\ Cardinality(Wanted(strs, n)) \in Nat
    BY <1>6, FS_CardinalityType DEF Wanted
  <2>5. CASE strs[T - n].toStore
    <3>1. Wanted(strs, n + 1) = Wanted(strs, n) \cup {n}
      BY <2>3, <2>5 DEF Wanted
    <3>2. /\ IsFiniteSet(Wanted(strs, n + 1))
          /\ Cardinality(Wanted(strs, n + 1)) = Cardinality(Wanted(strs, n)) + 1
      BY <1>6, <2>4, <3>1, FS_AddElement
    <3>3. /\ rba[n + 1] \in Seq(Nat) /\ Len(rba[n + 1]) = Len(rba[n]) + 1
          /\ \A i \in 1 .. Len(rba[n]) : rba[n + 1][i] = rba[n][i]
          /\ rba[n + 1][Len(rba[n]) + 1] = T - n
      BY <1>6, <2>1, <2>2, <2>5, AppendProperties
    <3>4. ASSUME NEW p \in 0 .. n + 1 - 1, strs[T - p].toStore
          PROVE  /\ Cardinality(Wanted(strs, p + 1)) \in 1 .. Len(rba[n + 1])
                 /\ rba[n + 1][Cardinality(Wanted(strs, p + 1))] = T - p
      <4>1. CASE p \in 0 .. n - 1
        <5>1. PICK c : c = Cardinality(Wanted(strs, p + 1))
          OBVIOUS
        <5>2. c \in 1 .. Len(rba[n]) /\ rba[n][c] = T - p /\ Len(rba[n]) \in Nat
          BY <1>6, <2>4, <3>4, <4>1, <5>1
        <5>3. c \in 1 .. Len(rba[n + 1]) /\ rba[n + 1][c] = T - p
          BY <3>3, <5>2
        <5> QED BY <5>1, <5>3
      <4>2. CASE p = n
        <5>1. Cardinality(Wanted(strs, p + 1)) = Len(rba[n]) + 1 /\ Len(rba[n]) \in Nat
          BY <1>6, <2>4, <3>2, <4>2
        <5> QED BY <3>3, <4>2, <5>1
      <4> QED BY <2>3, <4>1, <4>2
    <3>5. Len(rba[n + 1]) = Cardinality(Wanted(strs, n + 1))
      BY <1>6, <3>2, <3>3
    <3> QED BY <3>2, <3>3, <3>4, <3>5
  <2>6. CASE ~ strs[T - n].toStore
    <3>1. Wanted(strs, n + 1) = Wanted(strs, n)
      BY <2>3, <2>6 DEF Wanted
    <3>2. rba[n + 1] = rba[n]
      BY <2>2, <2>6
    <3>3. ASSUME NEW p \in 0 .. n + 1 - 1, strs[T - p].toStore
          PROVE  /\ Cardinality(Wanted(strs, p + 1)) \in 1 .. Len(rba[n])
                 /\ rba[n][Cardinality(Wanted(strs, p + 1))] = T - p
      <4>1. p \in 0 .. n - 1
        BY <2>3, <2>6, <3>3
      <4> QED BY <1>6, <3>3, <4>1
    <3> QED BY <1>6, <3>1, <3>2, <3>3
  <2> QED BY <2>5, <2>6
<1>7. Right(T)
  <2> HIDE DEF Right
  <2>1. 0 \in S
    BY <1>5
  <2>2. ASSUME NEW n \in Nat, n \in S PROVE n + 1 \in S
    <3>1. n + 1 <= T => n <= T
      BY <1>1
    <3> QED BY <1>6, <2>2, <3>1
  <2> HIDE DEF S
  <2>3. \A n \in Nat : n \in S
    BY <2>1, <2>2, SetInduction
  <2> QED BY <1>1, <2>3 DEF S
<1> QED BY <1>2, <1>7

(* What is stored and what is regenerated make up the slots.               *)
LEMMA StoredCards ==
    ASSUME NEW nds, NEW strs, GraphOK(nds, strs), NEW k, Balanced(nds, strs, k),
           NEW gi, IsHeader(gi, nds, strs)
    PROVE  /\ RegenSlots(gi) \subseteq 0 .. Len(strs) - 1
           /\ \A p \in 0 .. Len(strs) - 1 : p \in RegenSlots(gi) <=> ~ strs[Len(strs) - p].toStore
           /\ Len(gi.stored) = Cardinality((0 .. Len(strs) - 1) \ RegenSlots(gi))
           /\ TotalNbStreams(gi) = Len(strs)
           /\ \A q \in 0 .. Len(strs) - 1 : q \notin RegenSlots(gi) => StoredAt(gi, q) = Len(strs) - q
<1> DEFINE T == Len(strs)
           I == 0 .. T - 1
           R == RegenSlots(gi)
<1>1. strs \in Seq(Stream) /\ T \in Nat /\ LayoutOK(nds, strs, k) /\ LinksOK(nds)
  BY StreamRanks DEF GraphOK, Balanced
<1>2. R = SlotsOf(nds, T, Len(nds)) /\ \A p \in I : p \in R <=> Consumed(nds, T - p)
  BY <1>1, RegenSlotsAre
<1>3. \A p \in I : p \in R <=> ~ strs[T - p].toStore
  <2>1. \A p \in I : T - p \in 1 .. T
    BY <1>1
  <2>2. \A s \in 1 .. T : strs[s].toStore <=> ~ Consumed(nds, s)
    BY DEF Balanced
  <2> QED BY <1>2, <2>1, <2>2
<1>4. R \subseteq I
  BY <1>2 DEF SlotsOf
<1>5. IsFiniteSet(R) /\ NbRegens(gi) = Cardinality(R)
  BY <1>1, <1>2, NbRegensIs
<1>6. gi.stored = RTGM_listBuffersToStore(strs)
  BY DEF IsHeader
<1>7. /\ Len(gi.stored) = Cardinality(Wanted(strs, T))
      /\ \A p \in I : strs[T - p].toStore => gi.stored[Cardinality(Wanted(strs, p + 1))] = T - p
  BY <1>1, <1>6, ListIsWanted
<1> HIDE DEF R
<1>8. Wanted(strs, T) = I \ R
  BY <1>3 DEF Wanted
<1>9. IsFiniteSet(I) /\ Cardinality(I) = T
  <2>1. 0 \in Int /\ T - 1 \in Int
    BY <1>1
  <2>2. IsFiniteSet(I) /\ Cardinality(I) = IF 0 > T - 1 THEN 0 ELSE T - 1 - 0 + 1
    <3> HIDE DEF T
    <3> QED BY <2>1, FS_Interval
  <2> QED BY <1>1, <2>2
<1>10. Len(gi.stored) + Cardinality(R) = T
  <2>1. IsFiniteSet(I \ R) /\ (I \ R) \cap R = {} /\ (I \ R) \cup R = I
    BY <1>4, <1>9, FS_Difference
  <2>2. Cardinality((I \ R) \cup R) = Cardinality(I \ R) + Cardinality(R)
    <3> HIDE DEF I
    <3> QED BY <1>5, <2>1, AddCard
  <2> QED BY <1>7, <1>8, <1>9, <2>1, <2>2
<1>11. TotalNbStreams(gi) = T
  BY <1>5, <1>10 DEF TotalNbStreams
<1>12. ASSUME NEW q \in I, q \notin R PROVE StoredAt(gi, q) = T - q
  <2>1. {p \in 0 .. q : p \notin R} = Wanted(strs, q + 1)
    <3>1. q + 1 - 1 = q /\ \A p \in 0 .. q : p \in I
      BY <1>1
    <3> QED BY <1>3, <3>1 DEF Wanted
  <2>2. StoredAt(gi, q) = gi.stored[Cardinality(Wanted(strs, q + 1))]
    BY <2>1 DEF StoredAt, R
  <2> QED BY <1>3, <1>7, <1>12, <2>2
<1> QED BY <1>3, <1>4, <1>7, <1>8, <1>11, <1>12 DEF R

(* The first stream of a node is behind the inputs.                        *)
LEMMA StartsAfter ==
    ASSUME NEW nds, NEW strs, GraphOK(nds, strs), NEW k \in Nat, LayoutOK(nds, strs, k)
    PROVE  /\ \A m \in 1 .. Len(nds) : nds[m].start >= k + 1
           /\ Len(strs) >= k
<1>1. /\ nds \in Seq(Node) /\ strs \in Seq(Stream) /\ Len(nds) \in Nat /\ Len(strs) \in Nat
      /\ \A m \in 1 .. Len(nds) : nds[m].start \in Nat /\ nds[m].start <= Len(strs) + 1
      /\ \A m, n \in 1 .. Len(nds) : m <= n => nds[m].start <= nds[n].start
  BY NodeTypes, StreamRanks DEF GraphOK
<1>2. CASE nds = <<>>
  BY <1>1, <1>2 DEF LayoutOK, Origin
<1>3. CASE nds # <<>>
  <2>1. 1 \in 1 .. Len(nds) /\ nds[1].start = k + 1
    BY <1>1, <1>3, EmptySeq DEF LayoutOK, Origin
  <2>2. \A m \in 1 .. Len(nds) : nds[m].start >= k + 1
    BY <1>1, <2>1
  <2> QED BY <1>1, <2>1, <2>2
<1> QED BY <1>2, <1>3

(* Books that balance decode: the decoder of fillStoredStreams() accepts   *)
(* the graph and finds every stream of the encoder in its slot.            *)
THEOREM BalancedDecodes ==
    ASSUME NEW nds, NEW strs, GraphOK(nds, strs), NEW k \in Nat \ {0},
           Balanced(nds, strs, k), Len(strs) <= StreamLimit
    PROVE  ChunkDecodes(nds, strs, k)
<1> DEFINE N == Len(nds)
           T == Len(strs)
<1>1. PICK gi : gi = CCTX_getFinalGraph(nds, strs) /\ IsHeader(gi, nds, strs)
  BY HeaderIs DEF GraphOK
<1>2. /\ nds \in Seq(Node) /\ strs \in Seq(Stream) /\ N \in Nat /\ T \in Nat
      /\ LayoutOK(nds, strs, k) /\ LinksOK(nds)
      /\ \A t \in 1 .. N : N + 1 - t \in 1 .. N
      /\ \A m \in 1 .. N : nds[m].start \in Nat
  BY NodeTypes, StreamRanks DEF GraphOK, Balanced
<1>3. DOMAIN gi.trs = 1 .. N
  BY <1>1 DEF IsHeader
<1>4. /\ RegenSlots(gi) \subseteq 0 .. T - 1
      /\ Len(gi.stored) = Cardinality((0 .. T - 1) \ RegenSlots(gi))
      /\ TotalNbStreams(gi) = T
      /\ \A q \in 0 .. T - 1 : q \notin RegenSlots(gi) => StoredAt(gi, q) = T - q
  BY <1>1, StoredCards
<1>5. \A t \in 1 .. N : InputEndIdx(gi)[t] = T + 1 - nds[N + 1 - t].start
  BY <1>1, <1>2, EndOf DEF NodeOf
<1>6. (\A m \in 1 .. N : nds[m].start >= k + 1) /\ T >= k
  BY <1>2, StartsAfter
<1>7. /\ \A r : r \in Regens(gi) <=> \E t \in 1 .. N : \E n \in 1 .. Len(NodeOf(nds, t).ins) :
                                        r = [t |-> t, n |-> n]
      /\ \A t \in 1 .. N : \A n \in 1 .. Len(NodeOf(nds, t).ins) :
            RegenIdx(gi, [t |-> t, n |-> n]) = T - NodeOf(nds, t).ins[n]
  <2>1. IsHeader(gi, nds, strs)
    BY <1>1
  <2> QED BY <1>2, <2>1, RegenAt
<1>8. ASSUME NEW r \in Regens(gi)
      PROVE  /\ r.t \in 1 .. N /\ r.n \in 1 .. Len(nds[N + 1 - r.t].ins)
             /\ r = [t |-> r.t, n |-> r.n]
             /\ nds[N + 1 - r.t].ins[r.n] \in 1 .. T
             /\ RegenIdx(gi, r) = T - nds[N + 1 - r.t].ins[r.n]
  <2>1. PICK t \in 1 .. N : \E n \in 1 .. Len(NodeOf(nds, t).ins) : r = [t |-> t, n |-> n]
    BY <1>7, <1>8
  <2>2. PICK n \in 1 .. Len(NodeOf(nds, t).ins) : r = [t |-> t, n |-> n]
    BY <2>1
  <2>3. r.t = t /\ r.n = n /\ NodeOf(nds, t) = nds[N + 1 - t]
    BY <2>2 DEF NodeOf
  <2>4. RegenIdx(gi, [t |-> t, n |-> n]) = T - NodeOf(nds, t).ins[n]
    BY <1>7
  <2>5. nds[N + 1 - t].ins[n] \in 1 .. T
    BY <1>2, <2>3, InsInside
  <2> QED BY <2>2, <2>3, <2>4, <2>5
<1>9. ASSUME NEW a \in Regens(gi), NEW b \in Regens(gi), RegenIdx(gi, a) = RegenIdx(gi, b)
      PROVE  a = b
  <2>1. PICK l \in 1 .. N : l = N + 1 - a.t
    BY <1>2, <1>8
  <2>2. PICK m \in 1 .. N : m = N + 1 - b.t
    BY <1>2, <1>8
  <2>3. /\ a.n \in 1 .. Len(nds[l].ins) /\ nds[l].ins[a.n] \in 1 .. T
        /\ b.n \in 1 .. Len(nds[m].ins) /\ nds[m].ins[b.n] \in 1 .. T
        /\ RegenIdx(gi, a) = T - nds[l].ins[a.n] /\ RegenIdx(gi, b) = T - nds[m].ins[b.n]
    BY <1>8, <2>1, <2>2
  <2>4. nds[l].ins[a.n] = nds[m].ins[b.n]
    <3>1. PICK x \in 1 .. T : x = nds[l].ins[a.n] /\ RegenIdx(gi, a) = T - x
      BY <2>3
    <3>2. PICK y \in 1 .. T : y = nds[m].ins[b.n] /\ RegenIdx(gi, b) = T - y
      BY <2>3
    <3>3. T - x = T - y /\ T \in Nat
      BY <1>2, <1>9, <3>1, <3>2
    <3>4. x = y
      BY <3>3
    <3> QED BY <3>1, <3>2, <3>4
  <2>5. nds[l].ins[a.n] \in Range(nds[l].ins) /\ nds[m].ins[b.n] \in Range(nds[m].ins)
    BY <1>2, <2>3, InsInside
  <2>6. l = m
    BY <2>4, <2>5 DEF LinksOK, Balanced
  <2>7. DOMAIN nds[l].ins = 1 .. Len(nds[l].ins) /\ Once(nds[l].ins)
    BY <1>2, NodeTypes DEF LinksOK
  <2>8. a.n = b.n
    BY <2>3, <2>4, <2>6, <2>7 DEF Once
  <2>9. a.t = b.t
    BY <1>2, <1>8, <2>1, <2>2, <2>6
  <2> QED BY <1>8, <2>8, <2>9
<1>10. DecoderAccepts(gi, k)
  <2>1. T > 0 /\ T >= k /\ T <= StreamLimit
    BY <1>2, <1>6
  <2>2. \A t \in 1 .. N : InputEndIdx(gi)[t] + k <= T
    <3> SUFFICES ASSUME NEW t \in 1 .. N PROVE InputEndIdx(gi)[t] + k <= T
      OBVIOUS
    <3>1. PICK x \in Nat : x = nds[N + 1 - t].start /\ x >= k + 1
      BY <1>2, <1>6
    <3>2. InputEndIdx(gi)[t] = T + 1 - x
      BY <1>5, <3>1
    <3> QED BY <1>2, <3>1, <3>2
  <2>3. \A r \in Regens(gi) : RegenIdx(gi, r) < T
    <3> SUFFICES ASSUME NEW r \in Regens(gi) PROVE RegenIdx(gi, r) < T
      OBVIOUS
    <3>1. PICK s \in 1 .. T : RegenIdx(gi, r) = T - s
      BY <1>8
    <3> QED BY <1>2, <3>1
  <2> QED BY <1>3, <1>4, <1>9, <2>1, <2>2, <2>3 DEF DecoderAccepts
<1>11. \A r \in Regens(gi) : nds[N + 1 - r.t].ins[r.n] = T - RegenIdx(gi, r)
  <2> SUFFICES ASSUME NEW r \in Regens(gi)
               PROVE  nds[N + 1 - r.t].ins[r.n] = T - RegenIdx(gi, r)
    OBVIOUS
  <2>1. PICK s \in 1 .. T : s = nds[N + 1 - r.t].ins[r.n] /\ RegenIdx(gi, r) = T - s
    BY <1>8
  <2>2. T - (T - s) = s
    BY <1>2
  <2> QED BY <2>1, <2>2
<1> QED BY <1>1, <1>3, <1>4, <1>5, <1>10, <1>11 DEF ChunkDecodes

-----------------------------------------------------------------------------
(* The books of a chunk while it is built.                                 *)
(*                                                                         *)
(* Outside of permissive mode every stream of the runtime graph is at any  *)
(* time in one of three places: stored, consumed by a node, or owed by a   *)
(* frame, which has an open edge that leads to it or has not converted it  *)
(* yet.  When the stack is empty, or down to the segmenter, nothing is     *)
(* owed: what is left balances.                                            *)

(* An input that CCTX_convertInputs() has not come to.                     *)
Waits(f, s) == f.pc = "enter" /\ \E k \in f.next .. Len(f.ins) : f.ins[k] = s

(* The frame has to do something with stream s.                            *)
Owes(f, s) == Uses(f, s) \/ Waits(f, s)

(* The streams that the frames over depth sd owe.                          *)
Debts(st, sd) == {s \in Nat : \E d \in 1 .. Len(st) : d > sd /\ Owes(st[d], s)}

(* What is owed is not stored.                                             *)
Unstored(owed, strs) == \A s \in owed : ~ strs[s].toStore

(* One of the three, and no other.                                         *)
AccountsOK(owed, nds, strs) ==
    \A s \in 1 .. Len(strs) :
       /\ strs[s].toStore \/ Consumed(nds, s) \/ s \in owed
       /\ ~ (strs[s].toStore /\ Consumed(nds, s))
       /\ ~ (Consumed(nds, s) /\ s \in owed)

(* Every node has produced its singletons.  A graph that goes on after the *)
(* failure of a node loses this, and then CCTX_getFinalGraph() refuses.    *)
Filled(nds) == \A m \in 1 .. Len(nds) : nds[m].outs >= nds[m].out1s

Tidy(owed, nds, strs, k) ==
    LayoutOK(nds, strs, k) /\ LinksOK(nds) /\ AccountsOK(owed, nds, strs)
Books(owed, nds, strs, k) == Filled(nds) => Tidy(owed, nds, strs, k)

(* CCTX_convertInputs() stops after the last input, a graph of one input   *)
(* has one, one edge goes where one stream is expected, and                *)
(* CCTX_runSuccessors() begins with the first edge.                        *)
SinglesOK(f) ==
    /\ f.pc = "enter" => f.next <= Len(f.ins) + 1
    /\ f.pc = "fn" => f.next = 1
    /\ f.pc = "fn" /\ f.graph = "compress1" => Len(f.edges) = 1
    /\ f.graph \in {"compress1", "serialStore"} => Len(f.ins) = 1
    /\ \A i \in Open(f) : OneInput(f.edges[i].graph) => Len(f.edges[i].with) = 1
SinglesIn(st) == \A d \in 1 .. Len(st) : SinglesOK(st[d])

(* A graph of one input is not started on several.                         *)
SingleStarts ==
    MaxInputs = 1 \/ StartGraphs \cap {"compress1", "serialStore"} = {}

(* The callbacks of the user report the errors they are given, and do not  *)
(* hand the same edge to a node twice.                                     *)
Disciplined == ~ Swallow /\ ~ RepeatEdges /\ SingleStarts

(* No error is on its way up.                                              *)
Going == phase = "run" /\ Top.pc \notin FailLabels

(* Nothing that is owed is stored.                                         *)
UInv == ~ permissive =>
           /\ Unstored(Debts(stack, segmenterDepth), streams)
           /\ phase = "start" => \A s \in 1 .. Len(streams) : ~ streams[s].toStore

(* The headers sent are those of the chunk.                                *)
SentInv == phase \in {"idle", "start", "run", "flush"} => sent = 0

(* A segmenter that succeeds has written a chunk: its frame does not end   *)
(* like a graph's, with one more.                                          *)
CutInv ==
    segmenterDepth # 0 =>
       /\ Going \/ phase \in {"flush", "graph", "store"} => numChunks <= numSegments
       /\ Going /\ depth <= segmenterDepth => numSegments > 0 \/ Top.pc = "seg"

BooksInv ==
    /\ Going /\ depth > segmenterDepth =>
          Books(Debts(stack, segmenterDepth), nodes, streams, Len(inputs))
    /\ phase = "flush" => Books({}, nodes, streams, Len(inputs))
    /\ phase \in {"graph", "store"} =>
          /\ Balanced(nodes, streams, Len(inputs)) /\ Len(streams) <= StreamLimit
          /\ sent = Len(nodes)

BInv ==
    /\ HInv /\ UInv /\ SentInv
    /\ Disciplined => SinglesIn(stack) /\ (~ permissive => CutInv /\ BooksInv)

(* A frame that is at none of its edges owes nothing; what a frame owes it *)
(* takes or uses.                                                          *)
LEMMA WaitsTakes ==
    ASSUME NEW f \in Frame, NEW s, Waits(f, s)
    PROVE  Takes(f, s)
<1>1. f.next \in Nat \ {0} /\ f.ins \in Seq(Nat)
  BY DEF Frame, SidList
<1>2. DOMAIN f.ins = 1 .. Len(f.ins) /\ Len(f.ins) \in Nat
  BY <1>1, LenProperties
<1>3. PICK k \in f.next .. Len(f.ins) : f.ins[k] = s
  BY DEF Waits
<1>4. k \in DOMAIN f.ins
  BY <1>1, <1>2
<1> QED BY <1>3, <1>4 DEF Takes, Range

LEMMA OwesIs ==
    ASSUME NEW f \in Frame, NEW s
    PROVE  /\ Owes(f, s) => Uses(f, s) \/ Takes(f, s)
           /\ f.pc # "enter" => (Owes(f, s) <=> Uses(f, s))
           /\ f.pc \notin {"enter", "fn", "succ"} => ~ Owes(f, s)
<1>1. f.pc \notin {"enter", "fn", "succ"} => ~ Uses(f, s)
  BY DEF Uses, Open
<1>2. f.pc # "enter" => ~ Waits(f, s)
  BY DEF Waits
<1> QED BY <1>1, <1>2, WaitsTakes DEF Owes

(* What the frames under the top one owe the top one does not, and it is   *)
(* in the vector.                                                          *)
UnderOwes(st, s, sd) == \E d \in 1 .. Len(st) : d > sd /\ d < Len(st) /\ Owes(st[d], s)

LEMMA UnderApart ==
    ASSUME NEW st, NEW k \in Nat, StackOK(st, k), st # <<>>, NEW sd \in Nat,
           NEW nds, NEW strs, Held(st, nds, strs, sd), NEW s, UnderOwes(st, s, sd)
    PROVE  s \in 1 .. Len(strs) /\ ~ Owes(st[Len(st)], s)
<1> DEFINE n == Len(st)
<1>1. st \in Seq(Frame) /\ n \in 1 .. n /\ n \in Nat /\ \A d \in 1 .. n : st[d] \in Frame
  <2>1. st \in Seq(Frame) /\ n \in 1 .. n /\ n \in Nat
    BY DEF StackOK
  <2> QED BY <2>1, ElementOfSeq
<1>2. PICK d \in 1 .. n : d > sd /\ d < n /\ Owes(st[d], s)
  BY DEF UnderOwes
<1>3. st[d].pc # "enter"
  BY <1>2 DEF Held, CallsOK
<1>4. Uses(st[d], s)
  BY <1>1, <1>2, <1>3, OwesIs
<1>5. ~ Takes(st[n], s) /\ ~ Uses(st[n], s)
  BY <1>1, <1>2, <1>4 DEF Held, ApartOK
<1>6. s \in 1 .. Len(strs)
  BY <1>2, <1>4, NeedsInside
<1> QED BY <1>1, <1>5, <1>6, OwesIs

(* The debts before and after a step of the top frame.                     *)
LEMMA TopDebts ==
    ASSUME NEW st, NEW k \in Nat, StackOK(st, k), st # <<>>, NEW sd \in Nat, Len(st) > sd,
           NEW g \in Frame, NEW new, OnTop(new, st, g)
    PROVE  /\ \A s : s \in Debts(st, sd) <=>
                        s \in Nat /\ (Owes(st[Len(st)], s) \/ UnderOwes(st, s, sd))
           /\ \A s : s \in Debts(new, sd) <=>
                        s \in Nat /\ (Owes(g, s) \/ UnderOwes(st, s, sd))
<1> DEFINE n == Len(st)
<1>1. st \in Seq(Frame) /\ n \in 1 .. n /\ n \in Nat
  BY DEF StackOK
<1>2. Len(new) = n /\ \A j \in 1 .. n : new[j] = IF j = n THEN g ELSE st[j]
  BY <1>1, ExceptSeq DEF OnTop
<1>3. \A d \in 1 .. n : d # n <=> d < n
  BY <1>1
<1>4. ASSUME NEW s PROVE s \in Debts(st, sd) <=> s \in Nat /\ (Owes(st[n], s) \/ UnderOwes(st, s, sd))
  BY <1>1, <1>3 DEF Debts, UnderOwes
<1>5. ASSUME NEW s PROVE s \in Debts(new, sd) <=> s \in Nat /\ (Owes(g, s) \/ UnderOwes(st, s, sd))
  BY <1>1, <1>2, <1>3 DEF Debts, UnderOwes
<1> QED BY <1>4, <1>5

(* What a step of the top frame may do so that nothing owed is stored.     *)
StoreStep(t, g, strs, strs2) ==
    /\ Len(strs2) >= Len(strs)
    /\ \A s : Owes(g, s) =>
          \/ s \in 1 .. Len(strs) /\ Owes(t, s) /\ strs2[s].toStore = strs[s].toStore
          \/ s \in Len(strs) + 1 .. Len(strs2) /\ ~ strs2[s].toStore
    /\ \A s \in 1 .. Len(strs) : strs2[s].toStore = strs[s].toStore \/ Owes(t, s)

LEMMA TopUnstored ==
    ASSUME NEW st, NEW k \in Nat, StackOK(st, k), st # <<>>, NEW sd \in Nat, Len(st) > sd,
           NEW nds, NEW strs, Held(st, nds, strs, sd), NEW strs2, Len(strs) \in Nat,
           Unstored(Debts(st, sd), strs),
           NEW g \in Frame, StoreStep(st[Len(st)], g, strs, strs2),
           NEW new, OnTop(new, st, g)
    PROVE  Unstored(Debts(new, sd), strs2)
<1>1. ASSUME NEW s \in Debts(new, sd) PROVE ~ strs2[s].toStore
  <2>1. s \in Nat /\ (Owes(g, s) \/ UnderOwes(st, s, sd))
    BY TopDebts
  <2>2. CASE UnderOwes(st, s, sd)
    <3>1. s \in 1 .. Len(strs) /\ ~ Owes(st[Len(st)], s)
      BY <2>2, UnderApart
    <3>2. s \in Debts(st, sd)
      BY <2>1, <2>2, TopDebts
    <3> QED BY <3>1, <3>2 DEF Unstored, StoreStep
  <2>3. CASE Owes(g, s)
    <3>1. CASE s \in 1 .. Len(strs) /\ Owes(st[Len(st)], s) /\ strs2[s].toStore = strs[s].toStore
      <4>1. s \in Debts(st, sd)
        BY <2>1, <3>1, TopDebts
      <4> QED BY <3>1, <4>1 DEF Unstored
    <3> QED BY <2>3, <3>1 DEF StoreStep
  <2> QED BY <2>1, <2>2, <2>3
<1> QED BY <1>1 DEF Unstored

(* What it may do so that the books stay in order.                         *)
Same(t, g, nds, strs, nds2, strs2, s) ==
    /\ Owes(g, s) <=> Owes(t, s)
    /\ Consumed(nds2, s) <=> Consumed(nds, s)
    /\ strs2[s].toStore <=> strs[s].toStore
Settled(t, g, nds2, strs2, s) ==
    /\ Owes(t, s) /\ ~ Owes(g, s)
    /\ strs2[s].toStore <=> ~ Consumed(nds2, s)
BooksStep(t, g, nds, strs, nds2, strs2) ==
    /\ \A s \in 1 .. Len(strs) :
          Same(t, g, nds, strs, nds2, strs2, s) \/ Settled(t, g, nds2, strs2, s)
    /\ \A s \in Len(strs) + 1 .. Len(strs2) :
          Owes(g, s) /\ ~ strs2[s].toStore /\ ~ Consumed(nds2, s)

LEMMA TopAccounts ==
    ASSUME NEW st, NEW k \in Nat, StackOK(st, k), st # <<>>, NEW sd \in Nat, Len(st) > sd,
           NEW nds, NEW strs, Held(st, nds, strs, sd), NEW nds2, NEW strs2,
           Len(strs) \in Nat, Len(strs2) \in Nat,
           AccountsOK(Debts(st, sd), nds, strs),
           NEW g \in Frame, BooksStep(st[Len(st)], g, nds, strs, nds2, strs2),
           NEW new, OnTop(new, st, g)
    PROVE  AccountsOK(Debts(new, sd), nds2, strs2)
<1> DEFINE t == st[Len(st)]
<1>1. ASSUME NEW s \in 1 .. Len(strs2)
      PROVE  /\ strs2[s].toStore \/ Consumed(nds2, s) \/ s \in Debts(new, sd)
             /\ ~ (strs2[s].toStore /\ Consumed(nds2, s))
             /\ ~ (Consumed(nds2, s) /\ s \in Debts(new, sd))
  <2>1. /\ s \in Debts(st, sd) <=> Owes(t, s) \/ UnderOwes(st, s, sd)
        /\ s \in Debts(new, sd) <=> Owes(g, s) \/ UnderOwes(st, s, sd)
    <3>1. s \in Nat
      OBVIOUS
    <3> QED BY <3>1, TopDebts
  <2>2. UnderOwes(st, s, sd) => s \in 1 .. Len(strs) /\ ~ Owes(t, s)
    BY UnderApart
  <2>3. CASE s \in 1 .. Len(strs)
    <3>1. /\ strs[s].toStore \/ Consumed(nds, s) \/ s \in Debts(st, sd)
          /\ ~ (strs[s].toStore /\ Consumed(nds, s))
          /\ ~ (Consumed(nds, s) /\ s \in Debts(st, sd))
      BY <2>3 DEF AccountsOK
    <3>2. CASE Same(t, g, nds, strs, nds2, strs2, s)
      BY <2>1, <3>1, <3>2, Zenon DEF Same
    <3>3. CASE Settled(t, g, nds2, strs2, s)
      BY <2>1, <2>2, <3>3, Zenon DEF Settled
    <3> QED BY <2>3, <3>2, <3>3 DEF BooksStep
  <2>4. CASE s \notin 1 .. Len(strs)
    <3>1. s \in Len(strs) + 1 .. Len(strs2)
      BY <2>4
    <3>2. Owes(g, s) /\ ~ strs2[s].toStore /\ ~ Consumed(nds2, s)
      BY <3>1 DEF BooksStep
    <3> QED BY <2>1, <3>2, Zenon
  <2> QED BY <2>3, <2>4
<1> QED BY <1>1 DEF AccountsOK

(* The debts when frames come and go.                                      *)
LEMMA NoDebts ==
    ASSUME NEW st, Len(st) \in Nat, NEW sd \in Nat, Len(st) <= sd
    PROVE  Debts(st, sd) = {}
BY DEF Debts

LEMMA EnterOwes ==
    ASSUME NEW f \in Frame, f.edges = <<>>, f.pc = "enter", f.next = 1
    PROVE  \A s : Owes(f, s) <=> s \in Range(f.ins)
<1>1. f.ins \in Seq(Nat)
  BY DEF Frame, SidList
<1>2. DOMAIN f.ins = 1 .. Len(f.ins)
  BY <1>1, LenProperties
<1>3. \A s : ~ Uses(f, s)
  BY DEF Uses, Open
<1>4. \A s : Waits(f, s) <=> s \in Range(f.ins)
  BY <1>2 DEF Waits, Range
<1> QED BY <1>3, <1>4 DEF Owes

LEMMA PushDebts ==
    ASSUME NEW st \in Seq(Frame), NEW sd \in Nat, sd <= Len(st),
           NEW f \in Frame, f.edges = <<>>, f.pc = "enter", f.next = 1
    PROVE  Debts(Append(st, f), sd) = Debts(st, sd) \cup Range(f.ins)
<1> DEFINE new == Append(st, f)
<1>1. Len(st) \in Nat /\ Len(new) = Len(st) + 1 /\ new[Len(st) + 1] = f
      /\ \A d \in 1 .. Len(st) : new[d] = st[d]
  BY AppendProperties, LenProperties
<1>2. \A s : Owes(f, s) <=> s \in Range(f.ins)
  BY EnterOwes
<1>3. \A s \in Range(f.ins) : s \in Nat
  <2>1. f.ins \in Seq(Nat)
    BY DEF Frame, SidList
  <2> QED BY <2>1, ElementOfSeq, LenProperties DEF Range
<1> HIDE DEF new
<1>4. ASSUME NEW s PROVE s \in Debts(new, sd) <=> s \in Debts(st, sd) \/ s \in Range(f.ins)
  <2>1. Len(st) + 1 > sd /\ Len(st) + 1 \in 1 .. Len(st) + 1
    BY <1>1
  <2>2. \A d \in 1 .. Len(st) + 1 : d = Len(st) + 1 \/ d \in 1 .. Len(st)
    BY <1>1
  <2>3. \A d \in 1 .. Len(st) : d \in 1 .. Len(st) + 1
    BY <1>1
  <2>4. ASSUME s \in Debts(new, sd) PROVE s \in Debts(st, sd) \/ s \in Range(f.ins)
    BY <1>1, <1>2, <2>2, <2>4 DEF Debts
  <2>5. ASSUME s \in Debts(st, sd) PROVE s \in Debts(new, sd)
    BY <1>1, <2>3, <2>5 DEF Debts
  <2>6. ASSUME s \in Range(f.ins) PROVE s \in Debts(new, sd)
    BY <1>1, <1>2, <1>3, <2>1, <2>6 DEF Debts
  <2> QED BY <2>4, <2>5, <2>6
<1> QED BY <1>4 DEF new

LEMMA PopDebts ==
    ASSUME NEW st \in Seq(Frame), st # <<>>, NEW sd \in Nat,
           NEW new, new = SubSeq(st, 1, Len(st) - 1)
    PROVE  /\ Debts(new, sd) \subseteq Debts(st, sd)
           /\ (\A s : ~ Owes(st[Len(st)], s)) => Debts(new, sd) = Debts(st, sd)
<1>1. Len(st) \in Nat /\ Len(st) # 0
  BY LenProperties, EmptySeq
<1>2. Len(new) = Len(st) - 1 /\ \A d \in 1 .. Len(st) - 1 : new[d] = st[d]
  <2>1. Len(st) - 1 \in 0 .. Len(st)
    BY <1>1
  <2> QED BY <2>1, Prefix
<1>3. \A d \in 1 .. Len(st) - 1 : d \in 1 .. Len(st)
  BY <1>1
<1>4. Debts(new, sd) \subseteq Debts(st, sd)
  BY <1>2, <1>3 DEF Debts
<1>5. ASSUME \A s : ~ Owes(st[Len(st)], s) PROVE Debts(st, sd) \subseteq Debts(new, sd)
  <2>1. ASSUME NEW s \in Debts(st, sd) PROVE s \in Debts(new, sd)
    <3>1. PICK d \in 1 .. Len(st) : d > sd /\ Owes(st[d], s)
      BY DEF Debts
    <3>2. d # Len(st)
      BY <1>5, <3>1
    <3>3. d \in 1 .. Len(st) - 1
      BY <1>1, <3>2
    <3> QED BY <1>2, <3>1, <3>3 DEF Debts
  <2> QED BY <2>1
<1> QED BY <1>4, <1>5

(* A frame that has failed owes nothing.                                   *)
LEMMA FailDebts ==
    ASSUME NEW st \in Seq(Frame), st # <<>>, NEW sd \in Nat,
           NEW f \in Frame, f.pc \notin {"enter", "fn", "succ"}, NEW new, OnTop(new, st, f)
    PROVE  Debts(new, sd) \subseteq Debts(st, sd)
<1>1. Len(st) \in Nat /\ Len(st) # 0 /\ Len(st) \in 1 .. Len(st)
  BY LenProperties, EmptySeq
<1>2. Len(new) = Len(st) /\ \A j \in 1 .. Len(st) : new[j] = IF j = Len(st) THEN f ELSE st[j]
  BY <1>1, ExceptSeq DEF OnTop
<1>3. \A s : ~ Owes(f, s)
  BY OwesIs
<1>4. ASSUME NEW s \in Debts(new, sd) PROVE s \in Debts(st, sd)
  <2>1. PICK d \in 1 .. Len(st) : d > sd /\ Owes(new[d], s)
    BY <1>2 DEF Debts
  <2>2. new[d] = st[d]
    BY <1>2, <1>3, <2>1
  <2> QED BY <2>1, <2>2 DEF Debts
<1> QED BY <1>4

LEMMA UnstoredLess ==
    ASSUME NEW owed, NEW strs, Unstored(owed, strs), NEW less, less \subseteq owed,
           NEW strs2, \A s \in less : strs2[s].toStore = strs[s].toStore
    PROVE  Unstored(less, strs2)
BY DEF Unstored

(* The same books, other lives and ranks.                                  *)
LEMMA SameBooks ==
    ASSUME NEW owed, NEW nds, NEW strs, NEW k, Books(owed, nds, strs, k),
           NEW strs2, Len(strs2) = Len(strs),
           \A s \in 1 .. Len(strs) : strs2[s].toStore = strs[s].toStore
    PROVE  Books(owed, nds, strs2, k)
<1>1. LayoutOK(nds, strs, k) => LayoutOK(nds, strs2, k)
  BY DEF LayoutOK, Origin
<1>2. AccountsOK(owed, nds, strs) => AccountsOK(owed, nds, strs2)
  <2>1. ASSUME AccountsOK(owed, nds, strs), NEW s \in 1 .. Len(strs2)
        PROVE  /\ strs2[s].toStore \/ Consumed(nds, s) \/ s \in owed
               /\ ~ (strs2[s].toStore /\ Consumed(nds, s))
               /\ ~ (Consumed(nds, s) /\ s \in owed)
    <3>1. s \in 1 .. Len(strs) /\ strs2[s].toStore = strs[s].toStore
      BY <2>1
    <3>2. /\ strs[s].toStore \/ Consumed(nds, s) \/ s \in owed
          /\ ~ (strs[s].toStore /\ Consumed(nds, s))
          /\ ~ (Consumed(nds, s) /\ s \in owed)
      BY <2>1, <3>1 DEF AccountsOK
    <3> QED BY <3>1, <3>2
  <2> QED BY <2>1 DEF AccountsOK
<1> QED BY <1>1, <1>2 DEF Books, Tidy

(* A step of the top frame that keeps the books.                           *)
BooksGo(t, g, owed, nds, strs, nds2, strs2, k) ==
    Filled(nds2) =>
        /\ Filled(nds)
        /\ Tidy(owed, nds, strs, k) =>
              /\ LayoutOK(nds2, strs2, k) /\ LinksOK(nds2)
              /\ BooksStep(t, g, nds, strs, nds2, strs2)

LEMMA TopBooks ==
    ASSUME NEW st, NEW n \in Nat, StackOK(st, n), st # <<>>, NEW sd \in Nat, Len(st) > sd,
           NEW nds, NEW strs, Held(st, nds, strs, sd), NEW nds2, NEW strs2,
           Len(strs) \in Nat, Len(strs2) \in Nat, NEW k,
           Books(Debts(st, sd), nds, strs, k),
           NEW g \in Frame, BooksGo(st[Len(st)], g, Debts(st, sd), nds, strs, nds2, strs2, k),
           NEW new, OnTop(new, st, g)
    PROVE  Books(Debts(new, sd), nds2, strs2, k)
<1> SUFFICES ASSUME Filled(nds2) PROVE Tidy(Debts(new, sd), nds2, strs2, k)
  BY DEF Books
<1>1. Tidy(Debts(st, sd), nds, strs, k)
  BY DEF Books, BooksGo
<1>2. /\ LayoutOK(nds2, strs2, k) /\ LinksOK(nds2)
      /\ BooksStep(st[Len(st)], g, nds, strs, nds2, strs2)
  BY <1>1 DEF BooksGo
<1>3. AccountsOK(Debts(st, sd), nds, strs)
  BY <1>1 DEF Tidy
<1>4. AccountsOK(Debts(new, sd), nds2, strs2)
  BY <1>2, <1>3, TopAccounts
<1> QED BY <1>2, <1>4 DEF Tidy

Rules == Disciplined /\ ~ permissive

LEMMA StepBooks ==
    ASSUME BInv, HInv', NEW STATE label, AtGraph(label), NEW STATE g, SetTop(g), g \in Frame,
           ~ permissive /\ depth > segmenterDepth => StoreStep(Top, g, streams, streams'),
           Disciplined => SinglesOK(g),
           Rules /\ g.pc \notin FailLabels => label \notin FailLabels,
           Rules /\ g.pc \notin FailLabels /\ depth > segmenterDepth =>
              BooksGo(Top, g, Debts(stack, segmenterDepth), nodes, streams, nodes', streams',
                      Len(inputs)),
           Rules /\ g.pc \notin FailLabels /\ depth <= segmenterDepth =>
              numSegments > 0 \/ g.pc = "seg",
           UNCHANGED <<phase, sent, segmentVars, sessionVars>>
    PROVE  BInv'
<1>1. /\ HInv /\ stack # <<>> /\ depth \in Nat /\ depth >= 1 /\ depth \in 1 .. Len(stack)
      /\ segmenterDepth \in Nat /\ Len(nodes) \in Nat /\ StackOK(stack, Len(nodes))
      /\ Held(stack, nodes, streams, segmenterDepth) /\ Len(streams) \in Nat /\ Top.pc = label
  BY TopHolds DEF BInv
<1>2. /\ phase = "run" /\ phase' = "run" /\ sent' = sent /\ inputs' = inputs
      /\ segmenterDepth' = segmenterDepth /\ numSegments' = numSegments
      /\ numChunks' = numChunks /\ permissive' = permissive
  BY DEF AtGraph, segmentVars, sessionVars
<1>3. PICK f, nds2, strs2 : f = g /\ nds2 = nodes' /\ strs2 = streams'
  OBVIOUS
<1>4. Len(strs2) \in Nat
  <2>1. GraphOK(nds2, strs2)
    BY <1>3 DEF HInv, IInv
  <2> QED BY <2>1, GraphTypes
<1>5. OnTop(stack', stack, f) /\ f \in Frame
  BY <1>3 DEF OnTop, SetTop, depth
<1>6. /\ Len(stack') = Len(stack)
      /\ \A j \in 1 .. Len(stack) : stack'[j] = IF j = Len(stack) THEN f ELSE stack[j]
  <2>1. stack \in Seq(Frame)
    BY <1>1 DEF StackOK
  <2> QED BY <1>1, <1>5, <2>1, ExceptSeq DEF OnTop, depth
<1>7. depth' = depth /\ Top' = f
  BY <1>1, <1>6 DEF Top, depth
<1>8. UInv'
  <2> SUFFICES ASSUME ~ permissive PROVE Unstored(Debts(stack', segmenterDepth), streams')
    BY <1>2 DEF UInv
  <2>1. Unstored(Debts(stack, segmenterDepth), streams)
    BY DEF BInv, UInv
  <2>2. CASE depth > segmenterDepth
    <3>1. Len(stack) > segmenterDepth /\ StoreStep(stack[Len(stack)], f, streams, strs2)
      BY <1>3, <2>2 DEF depth, Top
    <3> QED BY <1>1, <1>3, <1>5, <2>1, <3>1, TopUnstored
  <2>3. CASE ~ (depth > segmenterDepth)
    <3>1. Len(stack') \in Nat /\ Len(stack') <= segmenterDepth
      BY <1>1, <1>6, <2>3 DEF depth
    <3>2. Debts(stack', segmenterDepth) = {}
      BY <1>1, <3>1, NoDebts
    <3> QED BY <3>2 DEF Unstored
  <2> QED BY <2>2, <2>3
<1>9. SentInv'
  BY <1>2 DEF BInv, SentInv
<1>10. Disciplined => SinglesIn(stack')
  BY <1>1, <1>3, <1>6 DEF BInv, SinglesIn, depth
<1>11. ASSUME Rules PROVE CutInv' /\ BooksInv'
  <2>1. CutInv /\ BooksInv
    BY <1>11 DEF BInv, Rules
  <2>2. Going' => Going
    BY <1>1, <1>2, <1>3, <1>7, <1>11 DEF Going
  <2>3. Going' => f.pc \notin FailLabels
    BY <1>7 DEF Going
  <2>4. CutInv'
    <3>1. segmenterDepth' # 0 /\ Going' => numChunks' <= numSegments'
      BY <1>2, <2>1, <2>2 DEF CutInv
    <3>2. Going' /\ depth' <= segmenterDepth' => numSegments' > 0 \/ Top'.pc = "seg"
      BY <1>2, <1>3, <1>7, <1>11, <2>3
    <3> QED BY <1>2, <3>1, <3>2 DEF CutInv
  <2>5. ASSUME Going', depth > segmenterDepth
        PROVE  Books(Debts(stack', segmenterDepth), nodes', streams', Len(inputs))
    <3>1. Books(Debts(stack, segmenterDepth), nodes, streams, Len(inputs))
      BY <2>1, <2>2, <2>5 DEF BooksInv
    <3>2. /\ Len(stack) > segmenterDepth
          /\ BooksGo(stack[Len(stack)], f, Debts(stack, segmenterDepth), nodes, streams, nds2,
                     strs2, Len(inputs))
      BY <1>3, <1>11, <2>3, <2>5 DEF depth, Top
    <3>3. Books(Debts(stack', segmenterDepth), nds2, strs2, Len(inputs))
      BY <1>1, <1>4, <1>5, <3>1, <3>2, TopBooks
    <3> QED BY <1>3, <3>3
  <2>6. BooksInv'
    BY <1>2, <1>7, <2>5 DEF BooksInv
  <2> QED BY <2>4, <2>6
<1>12. BInv'
  BY <1>2, <1>8, <1>9, <1>10, <1>11 DEF BInv, Rules
<1> QED BY <1>12

-----------------------------------------------------------------------------
(* Steps of the top frame.                                                 *)

(* The edges of the frame after the step are as HInv wants them.           *)
LEMMA TopAfter ==
    ASSUME HInv, HInv', NEW STATE label, AtGraph(label), NEW STATE g, SetTop(g), g \in Frame,
           segmenterDepth' = segmenterDepth
    PROVE  /\ EdgesOK(g)
           /\ depth > segmenterDepth => FrameHeld(g, depth, streams')
<1>1. /\ stack # <<>> /\ depth \in Nat /\ depth >= 1 /\ depth \in 1 .. Len(stack)
      /\ Len(nodes) \in Nat /\ StackOK(stack, Len(nodes))
  BY TopHolds
<1>2. Len(stack') = Len(stack) /\ stack'[depth] = g
  <2>1. stack \in Seq(Frame)
    BY <1>1 DEF StackOK
  <2> QED BY <1>1, <2>1, ExceptSeq DEF SetTop, depth
<1>3. HeldOK(stack', streams', segmenterDepth)
  BY DEF HInv, Held
<1>4. depth \in 1 .. Len(stack')
  BY <1>1, <1>2
<1>5. EdgesOK(stack'[depth])
  BY <1>3, <1>4 DEF HeldOK
<1>6. depth > segmenterDepth => FrameHeld(stack'[depth], depth, streams')
  BY <1>3, <1>4 DEF HeldOK
<1> QED BY <1>2, <1>5, <1>6

(* Edges without a destination, or with the one they had, or with one that *)
(* fits.                                                                   *)
SinglesKept(g, t) ==
    \A i \in Open(g) : \/ g.edges[i].st = "unassigned"
                       \/ i \in Open(t) /\ g.edges[i] = t.edges[i]
                       \/ ~ OneInput(g.edges[i].graph)
                       \/ Len(g.edges[i].with) = 1

LEMMA KeepSingles ==
    ASSUME NEW t, NEW g, EdgesOK(g), SinglesOK(t), g.graph = t.graph, g.ins = t.ins,
           g.pc = "enter" => g.next <= Len(g.ins) + 1, g.pc = "fn" => g.next = 1,
           g.pc = "fn" /\ g.graph = "compress1" => Len(g.edges) = 1, SinglesKept(g, t)
    PROVE  SinglesOK(g)
<1>1. ASSUME NEW i \in Open(g), OneInput(g.edges[i].graph) PROVE Len(g.edges[i].with) = 1
  <2>1. CASE g.edges[i].st = "unassigned"
    <3>1. i \in DOMAIN g.edges
      BY DEF Open
    <3>2. g.edges[i].with = <<g.edges[i].sid>>
      BY <2>1, <3>1 DEF EdgesOK
    <3> QED BY <3>2
  <2>2. CASE i \in Open(t) /\ g.edges[i] = t.edges[i]
    BY <1>1, <2>2 DEF SinglesOK
  <2> QED BY <1>1, <2>1, <2>2 DEF SinglesKept
<1> QED BY <1>1 DEF SinglesOK

(* Nodes and streams stay, and the frame owes what it owed.                *)
LEMMA LocalBooks ==
    ASSUME BInv, HInv', NEW STATE label, AtGraph(label), label \notin FailLabels,
           NEW STATE g, SetTop(g), g \in Frame, Disciplined => SinglesOK(g),
           \A s : Owes(g, s) => Owes(Top, s),
           Rules /\ g.pc \notin FailLabels => \A s : Owes(Top, s) => Owes(g, s),
           Rules /\ g.pc \notin FailLabels /\ label = "seg" => numSegments > 0,
           UNCHANGED <<nodes, streams, phase, sent, segmentVars, sessionVars>>
    PROVE  BInv'
<1>1. /\ HInv /\ depth \in Nat /\ segmenterDepth \in Nat /\ Top.pc = label /\ Top \in Frame
      /\ depth > segmenterDepth => FrameHeld(Top, depth, streams)
      /\ depth >= 1 /\ Len(streams) \in Nat
  BY TopHolds DEF BInv
<1>2. depth > segmenterDepth => StoreStep(Top, g, streams, streams')
  <2> SUFFICES ASSUME depth > segmenterDepth PROVE StoreStep(Top, g, streams, streams)
    OBVIOUS
  <2>1. \A s : Takes(Top, s) \/ Uses(Top, s) => s \in 1 .. Len(streams)
    BY <1>1 DEF FrameHeld, Sound
  <2>2. \A s : Owes(Top, s) => s \in 1 .. Len(streams)
    BY <1>1, <2>1, OwesIs
  <2> QED BY <1>1, <2>2 DEF StoreStep
<1>3. ASSUME Rules, g.pc \notin FailLabels
      PROVE  BooksGo(Top, g, Debts(stack, segmenterDepth), nodes, streams, nodes', streams',
                     Len(inputs))
  <2>1. \A s : Owes(g, s) <=> Owes(Top, s)
    BY <1>3
  <2>2. BooksStep(Top, g, nodes, streams, nodes, streams)
    BY <1>1, <2>1 DEF BooksStep, Same
  <2>3. nodes' = nodes /\ streams' = streams
    OBVIOUS
  <2> QED BY <2>2, <2>3 DEF BooksGo, Tidy
<1>4. ASSUME Rules, g.pc \notin FailLabels, depth <= segmenterDepth
      PROVE  numSegments > 0 \/ g.pc = "seg"
  <2>1. CutInv
    BY <1>4 DEF BInv, Rules
  <2>2. Going /\ segmenterDepth # 0
    BY <1>1, <1>4 DEF Going, AtGraph
  <2>3. numSegments > 0 \/ label = "seg"
    BY <1>1, <1>4, <2>1, <2>2 DEF CutInv
  <2> QED BY <1>4, <2>3
<1>5. UNCHANGED <<phase, sent, segmentVars, sessionVars>>
  OBVIOUS
<1> QED BY <1>2, <1>3, <1>4, <1>5, StepBooks

(* The frame reports an error.                                             *)
LEMMA FailBooks ==
    ASSUME BInv, HInv', NEW STATE label, AtGraph(label), NEW STATE g,
           SetTop(g), Leaves(g, Top), g.pc \in FailLabels,
           ~ permissive /\ depth > segmenterDepth => StoreStep(Top, g, streams, streams'),
           UNCHANGED <<phase, sent, segmentVars, sessionVars>>
    PROVE  BInv'
<1>1. /\ HInv /\ Top \in Frame /\ EdgesOK(Top) /\ GraphsOK(Top)
      /\ depth \in 1 .. Len(stack)
  BY TopHolds DEF BInv
<1>2. g \in Frame /\ Goes(g, Top) /\ EdgesOK(g)
  BY <1>1, LeaveFrame
<1>3. Open(g) = {}
  BY DEF Open, FailLabels
<1>4. Disciplined => SinglesOK(g)
  <2>1. Disciplined => SinglesOK(Top)
    BY <1>1 DEF BInv, SinglesIn, Top, depth
  <2> QED BY <1>2, <1>3, <2>1, KeepSingles DEF Goes, FailLabels, SinglesKept
<1> QED BY <1>2, <1>4, StepBooks

(* Nothing is stored that was not, when a frame leaves.                    *)
LEMMA LeaveStores ==
    ASSUME NEW t \in Frame, NEW g, Leaves(g, t), NEW strs, NEW strs2,
           Len(strs2) >= Len(strs),
           \A s \in 1 .. Len(strs) : strs2[s].toStore = strs[s].toStore \/ Owes(t, s)
    PROVE  StoreStep(t, g, strs, strs2) /\ \A s : ~ Owes(g, s)
<1>1. PICK label \in {"ok", "err", "seg", "chunk", "chunkErr"} : g = [t EXCEPT !.pc = label]
  BY DEF Leaves
<1>2. g \in Frame /\ g.pc = label
  BY <1>1 DEF Frame, PC
<1>3. \A s : ~ Owes(g, s)
  BY <1>2, OwesIs
<1> QED BY <1>3 DEF StoreStep

(* The frame on top owes what its edges and its other inputs lead to.      *)
LEMMA NextEdgeOwes ==
    ASSUME NEW t \in Frame, t.pc = "enter", EdgesOK(t), NEW sid, NEW g, MoreEdge(g, t, sid)
    PROVE  /\ g.pc = "enter" /\ g.graph = t.graph /\ g.ins = t.ins /\ g.next = t.next + 1
           /\ \A i \in Open(g) : g.edges[i].st = "unassigned"
           /\ \A s : Uses(g, s) <=> Uses(t, s) \/ s = sid
           /\ \A s : Waits(g, s) <=> \E k \in (t.next + 1) .. Len(t.ins) : t.ins[k] = s
<1> DEFINE e == NewEdge(sid)
           n == Len(t.edges)
<1>1. e.st = "unassigned" /\ \A s : Leads(e, s) <=> s = sid
  BY NewEdgeIs
<1> HIDE DEF e
<1>2. t.edges \in Seq(Edge) /\ n \in Nat /\ DOMAIN t.edges = 1 .. n
  BY FrameTypes, LenProperties
<1>3. g = [t EXCEPT !.edges = Append(t.edges, e), !.next = t.next + 1]
  BY DEF Frame, MoreEdge, e
<1>4. /\ g.edges = Append(t.edges, e) /\ g.next = t.next + 1
      /\ g.pc = t.pc /\ g.graph = t.graph /\ g.ins = t.ins
  <2>1. PICK es, m : es = Append(t.edges, e) /\ m = t.next + 1
    OBVIOUS
  <2>2. g = [t EXCEPT !.edges = es, !.next = m]
    BY <1>3, <2>1
  <2>3. g.edges = es /\ g.next = m /\ g.pc = t.pc /\ g.graph = t.graph /\ g.ins = t.ins
    BY <2>2 DEF Frame
  <2> QED BY <2>1, <2>3
<1>5. /\ DOMAIN g.edges = 1 .. n + 1 /\ g.edges[n + 1] = e
      /\ \A i \in 1 .. n : g.edges[i] = t.edges[i]
  BY <1>1, <1>2, <1>4, AppendProperties, NewEdgeOK
<1>6. \A i \in 1 .. n + 1 : i \in 1 .. n \/ i = n + 1
  BY <1>2
<1>7. \A i \in 1 .. n : t.edges[i].st = "unassigned"
  BY <1>2 DEF EdgesOK
<1>8. \A i \in 1 .. n + 1 : g.edges[i].st = "unassigned"
  BY <1>1, <1>5, <1>6, <1>7
<1>9. Open(t) = 1 .. n
  BY <1>2, <1>7 DEF Open
<1>10. Open(g) = 1 .. n + 1
  BY <1>4, <1>5, <1>8 DEF Open
<1>11. n + 1 \in 1 .. n + 1 /\ \A i \in 1 .. n : i \in 1 .. n + 1
  BY <1>2
<1>12. ASSUME NEW s PROVE Uses(g, s) <=> Uses(t, s) \/ s = sid
  <2>1. Uses(g, s) => Uses(t, s) \/ s = sid
    BY <1>1, <1>5, <1>6, <1>9, <1>10 DEF Uses
  <2>2. Uses(t, s) => Uses(g, s)
    BY <1>5, <1>9, <1>10, <1>11 DEF Uses
  <2>3. s = sid => Uses(g, s)
    BY <1>1, <1>5, <1>10, <1>11 DEF Uses
  <2> QED BY <2>1, <2>2, <2>3
<1>13. \A s : Waits(g, s) <=> \E k \in (t.next + 1) .. Len(t.ins) : t.ins[k] = s
  BY <1>4 DEF Waits
<1> QED BY <1>4, <1>8, <1>10, <1>12, <1>13

LEMMA KeepInputBooks ==
    ASSUME BInv, HInv', KeepInput
    PROVE  BInv'
<1>1. AtGraph("enter") /\ Top.next <= Len(Top.ins) /\ HInv
  BY DEF KeepInput, BInv
<1>2. PICK sid : sid = Top.ins[Top.next]
  OBVIOUS
<1>3. /\ depth > segmenterDepth /\ sid \in Nat /\ Takes(Top, sid) /\ ~ Uses(Top, sid)
      /\ \A k \in (Top.next + 1) .. Len(Top.ins) : Top.ins[k] # sid
      /\ Top.next \in 1 .. Len(Top.ins)
  BY <1>1, <1>2, InputOK
<1>4. /\ Top \in Frame /\ Top.pc = "enter" /\ EdgesOK(Top) /\ GraphsOK(Top)
      /\ depth \in 1 .. Len(stack) /\ segmenterDepth \in Nat
  BY <1>1, TopHolds
<1>5. PICK g : MoreEdge(g, Top, sid)
  BY DEF MoreEdge
<1>6. /\ g \in Frame /\ EdgesOK(g)
  BY <1>3, <1>4, <1>5, NextEdgeHeld
<1>7. /\ g.pc = "enter" /\ g.graph = Top.graph /\ g.ins = Top.ins /\ g.next = Top.next + 1
      /\ \A i \in Open(g) : g.edges[i].st = "unassigned"
      /\ \A s : Uses(g, s) <=> Uses(Top, s) \/ s = sid
      /\ \A s : Waits(g, s) <=> \E k \in (Top.next + 1) .. Len(Top.ins) : Top.ins[k] = s
  BY <1>4, <1>5, NextEdgeOwes
<1>8. SetTop(g) /\ UNCHANGED <<nodes, streams, phase, sent, segmentVars, sessionVars>>
  BY <1>2, <1>5 DEF KeepInput, MoreEdge, graphVars
<1>9. Disciplined => SinglesOK(g)
  <2>1. Disciplined => SinglesOK(Top)
    BY <1>4 DEF BInv, SinglesIn, Top, depth
  <2>2. g.next <= Len(g.ins) + 1
    <3>1. Top.next \in Nat /\ Len(Top.ins) \in Nat
      BY <1>4, FrameTypes, LenProperties DEF SidList
    <3> QED BY <1>1, <1>7, <3>1
  <2> QED BY <1>6, <1>7, <2>1, <2>2, KeepSingles DEF SinglesKept
<1>10. \A s : Owes(g, s) <=> Owes(Top, s)
  <2>1. ASSUME NEW s PROVE Waits(Top, s) <=> s = sid \/ Waits(g, s)
    <3>1. Waits(Top, s) <=> \E k \in Top.next .. Len(Top.ins) : Top.ins[k] = s
      BY <1>4 DEF Waits
    <3>2. PICK n, m : n = Top.next /\ m = Len(Top.ins) /\ n \in Nat /\ m \in Nat /\ n <= m
      BY <1>3, <1>4, FrameTypes, LenProperties, <1>1 DEF Frame, SidList
    <3>3. \A k : k \in n .. m <=> k = n \/ k \in (n + 1) .. m
      BY <3>2
    <3> QED BY <1>2, <1>7, <3>1, <3>2, <3>3
  <2> QED BY <1>7, <2>1 DEF Owes
<1>11. "enter" \notin FailLabels
  BY DEF FailLabels
<1> QED BY <1>1, <1>6, <1>8, <1>9, <1>10, <1>11, LocalBooks

(* Beyond "enter", a frame owes what its edges lead to.                    *)
LEMMA OwesUses ==
    ASSUME NEW t, t.pc # "enter", NEW g, g.pc # "enter"
    PROVE  /\ (\A s : Uses(g, s) => Uses(t, s)) => \A s : Owes(g, s) => Owes(t, s)
           /\ (\A s : Uses(t, s) => Uses(g, s)) => \A s : Owes(t, s) => Owes(g, s)
BY DEF Owes, Waits

LEMMA UserGraphReturnsBooks ==
    ASSUME BInv, HInv', UserGraphReturns
    PROVE  BInv'
<1>1. /\ AtGraph("fn") /\ HInv
      /\ UNCHANGED <<nodes, streams, phase, sent, segmentVars, sessionVars>>
  BY DEF UserGraphReturns, AtUserFn, graphVars, BInv
<1>2. depth > segmenterDepth /\ ~(depth <= segmenterDepth)
  BY <1>1, FnOver
<1>3. /\ Top \in Frame /\ Top.pc = "fn" /\ EdgesOK(Top) /\ depth \in 1 .. Len(stack)
      /\ Len(streams) \in Nat
  BY <1>1, TopHolds
<1>4. CASE Goto("err")
  <2>1. PICK g : g = [Top EXCEPT !.pc = "err"]
    OBVIOUS
  <2>2. Leaves(g, Top) /\ SetTop(g)
    BY <1>4, <2>1 DEF Leaves, Goto
  <2>3. g.pc \in FailLabels
    BY <1>3, <2>1 DEF Frame, FailLabels
  <2>4. StoreStep(Top, g, streams, streams')
    BY <1>1, <1>3, <2>2, LeaveStores
  <2> QED BY <1>1, <2>2, <2>3, <2>4, FailBooks
<1>5. CASE SetTop([Top EXCEPT !.pc = "succ", !.next = 1])
  <2>1. PICK g : g = [Top EXCEPT !.pc = "succ", !.next = 1]
    OBVIOUS
  <2>2. SetTop(g)
    BY <1>5, <2>1
  <2>3. /\ g \in Frame /\ g.pc = "succ" /\ g.edges = Top.edges /\ g.ins = Top.ins
        /\ g.graph = Top.graph /\ g.next = 1
    <3>1. 1 \in Nat \ {0}
      OBVIOUS
    <3> QED BY <1>3, <2>1, <3>1 DEF Frame, PC
  <2>4. Open(g) = Open(Top)
    <3>1. \A i \in DOMAIN Top.edges : i >= 1
      BY <1>3, FrameTypes, LenProperties
    <3> QED BY <1>3, <2>3, <3>1 DEF Open
  <2>5. \A s : Uses(g, s) <=> Uses(Top, s)
    BY <2>3, <2>4 DEF Uses
  <2>6. \A s : Owes(g, s) <=> Owes(Top, s)
    BY <1>3, <2>3, <2>5, OwesUses
  <2>7. EdgesOK(g)
    BY <1>1, <2>2, <2>3, TopAfter DEF segmentVars
  <2>8. Disciplined => SinglesOK(g)
    <3>1. Disciplined => SinglesOK(Top)
      BY <1>3 DEF BInv, SinglesIn, Top, depth
    <3> QED BY <2>3, <2>4, <2>7, <3>1, KeepSingles DEF SinglesKept
  <2>9. "fn" \notin FailLabels
    BY DEF FailLabels
  <2> QED BY <1>1, <2>2, <2>3, <2>6, <2>8, <2>9, LocalBooks
<1> QED BY <1>4, <1>5 DEF UserGraphReturns

(* A graph of the library sends its edges on.                              *)
LEMMA AllToBooks ==
    ASSUME BInv, HInv', AtGraph("fn"), NEW STATE to, to \in Library,
           Top.graph \in Library, NEW STATE g, SetTop(g), SentOn(g, Top, to),
           UNCHANGED <<nodes, streams, phase, sent, segmentVars, sessionVars>>
    PROVE  BInv'
<1>1. HInv
  BY DEF BInv
<1>2. depth > segmenterDepth /\ ~(depth <= segmenterDepth)
  BY <1>1, FnOver
<1>3. /\ Top \in Frame /\ FrameOK(Top) /\ Top.pc = "fn" /\ EdgesOK(Top)
      /\ Top.edges \in Seq(Edge) /\ depth \in 1 .. Len(stack)
  BY <1>1, TopHolds
<1>4. PICK es : es = AllTo(Top.edges, to)
  OBVIOUS
<1>5. /\ DOMAIN es = DOMAIN Top.edges
      /\ \A i \in DOMAIN Top.edges :
            es[i].st = "trigger" /\ es[i].graph = to /\ es[i].with = Top.edges[i].with
  BY <1>3, <1>4, AllToIs
<1>6. es \in Seq(Edge)
  <2>1. to \in Graphs /\ Top.edges # <<>>
    BY <1>3 DEF Library, Graphs, FrameOK
  <2> QED BY <1>3, <1>4, <2>1, AllToOK
<1>7. /\ g \in Frame /\ g.pc = "succ" /\ g.edges = es /\ g.ins = Top.ins
      /\ g.graph = Top.graph /\ g.next = Top.next
  BY <1>3, <1>4, <1>6 DEF Frame, PC, SentOn
<1>8. \A i \in DOMAIN Top.edges : /\ Top.edges[i].st = "unassigned"
                                  /\ Top.edges[i].with = <<Top.edges[i].sid>>
  BY <1>3 DEF EdgesOK, Library, UserGraphs
<1>9. Open(g) \subseteq Open(Top)
  BY <1>3, <1>5, <1>7, <1>8 DEF Open
<1>10. \A s : Uses(g, s) => Uses(Top, s)
  <2>1. \A i \in Open(g) : i \in DOMAIN Top.edges
    BY <1>5, <1>7 DEF Open
  <2> QED BY <1>5, <1>7, <1>9, <2>1 DEF Uses, Leads
<1>11. EdgesOK(g)
  BY <1>1, <1>7, TopAfter DEF segmentVars
<1>12. Disciplined => SinglesOK(Top)
  BY <1>3 DEF BInv, SinglesIn, Top, depth
<1>13. Disciplined => SinglesOK(g)
  <2>1. \A i \in Open(g) : Len(g.edges[i].with) = 1
    <3> SUFFICES ASSUME NEW i \in Open(g) PROVE Len(g.edges[i].with) = 1
      OBVIOUS
    <3>1. i \in DOMAIN Top.edges
      BY <1>5, <1>7 DEF Open
    <3>2. g.edges[i].with = <<Top.edges[i].sid>>
      BY <1>5, <1>7, <1>8, <3>1
    <3> QED BY <3>2
  <2> QED BY <1>7, <1>11, <1>12, <2>1, KeepSingles DEF SinglesKept
<1>14. ASSUME Rules PROVE \A s : Uses(Top, s) => Uses(g, s)
  <2>1. Top.next = 1
    BY <1>3, <1>12, <1>14 DEF SinglesOK, Rules
  <2>2. \A i \in DOMAIN Top.edges : i >= 1
    BY <1>3, LenProperties
  <2>3. Open(Top) \subseteq Open(g)
    BY <1>5, <1>7, <2>1, <2>2 DEF Open
  <2>4. \A i \in Open(Top) : i \in DOMAIN Top.edges
    BY DEF Open
  <2> QED BY <1>5, <1>7, <2>3, <2>4 DEF Uses, Leads
<1>15. /\ \A s : Owes(g, s) => Owes(Top, s)
       /\ Rules => \A s : Owes(Top, s) => Owes(g, s)
  BY <1>3, <1>7, <1>10, <1>14, OwesUses
<1>16. "fn" \notin FailLabels
  BY DEF FailLabels
<1> QED BY <1>7, <1>13, <1>15, <1>16, LocalBooks

LEMMA RedirectBooks ==
    ASSUME BInv, HInv', Redirect
    PROVE  BInv'
<1>1. /\ AtGraph("fn") /\ Top.graph \in Library /\ HInv
      /\ UNCHANGED <<nodes, streams, phase, sent, segmentVars, sessionVars>>
  BY DEF Redirect, Library, graphVars, BInv
<1>2. PICK to : to = IF Top.graph = "generic" THEN "compress1" ELSE "serialStore"
  OBVIOUS
<1>3. to \in Library
  BY <1>2 DEF Library
<1>4. PICK g : SentOn(g, Top, to)
  BY DEF SentOn
<1>5. SetTop(g)
  <2>1. Top \in Frame
    BY <1>1, TopHolds
  <2>2. g = [Top EXCEPT !.edges = AllTo(@, to), !.pc = "succ"]
    BY <1>4, <2>1 DEF Frame, SentOn
  <2> QED BY <1>2, <2>2 DEF Redirect
<1> QED BY <1>1, <1>3, <1>4, <1>5, AllToBooks

(* Nobody is left to run.                                                  *)
LEMMA SuccessorsDoneBooks ==
    ASSUME BInv, HInv', SuccessorsDone
    PROVE  BInv'
<1>1. /\ AtGraph("succ") /\ Pending(Top) = {} /\ Goto("ok") /\ HInv
      /\ UNCHANGED <<nodes, streams, phase, sent, segmentVars, sessionVars>>
  BY DEF SuccessorsDone, graphVars, BInv
<1>2. /\ Top \in Frame /\ Top.pc = "succ" /\ EdgesOK(Top) /\ GraphsOK(Top)
      /\ depth \in 1 .. Len(stack)
  BY <1>1, TopHolds
<1>3. PICK g : g = [Top EXCEPT !.pc = "ok"]
  OBVIOUS
<1>4. SetTop(g) /\ Leaves(g, Top)
  BY <1>1, <1>3 DEF Goto, Leaves
<1>5. g \in Frame /\ g.pc = "ok" /\ g.graph = Top.graph /\ g.ins = Top.ins
  BY <1>2, <1>3 DEF Frame, PC
<1>6. Open(Top) = {} /\ Open(g) = {}
  BY <1>1, <1>2, <1>5 DEF Open, Pending
<1>7. \A s : Owes(g, s) <=> Owes(Top, s)
  <2>1. \A s : ~ Uses(Top, s) /\ ~ Uses(g, s)
    BY <1>6 DEF Uses
  <2> QED BY <1>2, <1>5, <2>1, OwesUses
<1>8. Disciplined => SinglesOK(g)
  <2>1. Disciplined => SinglesOK(Top)
    BY <1>2 DEF BInv, SinglesIn, Top, depth
  <2>2. EdgesOK(g)
    BY <1>2, <1>4, LeaveFrame
  <2> QED BY <1>5, <1>6, <2>1, <2>2, KeepSingles DEF SinglesKept
<1>9. "succ" \notin FailLabels
  BY DEF FailLabels
<1> QED BY <1>1, <1>4, <1>5, <1>7, <1>8, <1>9, LocalBooks

(* The segmenter function takes the error of a chunk.                      *)
LEMMA ChunkFailedBooks ==
    ASSUME BInv, HInv', ChunkFailed
    PROVE  BInv'
<1>1. /\ AtGraph("chunkErr") /\ HInv
      /\ UNCHANGED <<nodes, streams, phase, sent, segmentVars, sessionVars>>
  BY DEF ChunkFailed, graphVars, BInv
<1>2. Top \in Frame /\ Top.pc = "chunkErr" /\ Len(streams) \in Nat
  BY <1>1, TopHolds
<1>3. PICK label \in {"err", "seg"} : Goto(label) /\ (label = "seg" => Swallow)
  BY DEF ChunkFailed
<1>4. PICK g : g = [Top EXCEPT !.pc = label]
  OBVIOUS
<1>5. SetTop(g) /\ Leaves(g, Top) /\ g \in Frame /\ g.pc = label
  BY <1>2, <1>3, <1>4 DEF Goto, Leaves, Frame, PC
<1>6. StoreStep(Top, g, streams, streams')
  BY <1>1, <1>2, <1>5, LeaveStores
<1>7. CASE label = "err"
  BY <1>1, <1>5, <1>6, <1>7, FailBooks DEF FailLabels
<1>8. CASE label = "seg"
  <2>1. ~ Disciplined /\ ~ Rules
    BY <1>3, <1>8 DEF Disciplined, Rules
  <2> QED BY <1>1, <1>5, <1>6, <2>1, StepBooks
<1> QED BY <1>7, <1>8

(* The segmenter function returns: it has cut a chunk, or failed.          *)
LEMMA SegmenterReturnsBooks ==
    ASSUME BInv, HInv', SegmenterReturns
    PROVE  BInv'
<1>1. /\ AtGraph("seg") /\ HInv
      /\ UNCHANGED <<nodes, streams, phase, sent, segmentVars, sessionVars>>
  BY DEF SegmenterReturns, graphVars, BInv
<1>2. /\ Top \in Frame /\ Top.pc = "seg" /\ FrameOK(Top) /\ EdgesOK(Top) /\ GraphsOK(Top)
      /\ Len(streams) \in Nat /\ depth \in 1 .. Len(stack) /\ depth >= 1
      /\ Held(stack, nodes, streams, segmenterDepth) /\ IInv
  BY <1>1, TopHolds
<1>3. PICK label \in {"err", "ok"} : Goto(label) /\ (label = "ok" => numChunks > 0)
  BY DEF SegmenterReturns
<1>4. PICK g : g = [Top EXCEPT !.pc = label]
  OBVIOUS
<1>5. /\ SetTop(g) /\ Leaves(g, Top) /\ g \in Frame /\ g.pc = label
      /\ g.graph = Top.graph /\ g.ins = Top.ins
  BY <1>2, <1>3, <1>4 DEF Goto, Leaves, Frame, PC
<1>6. StoreStep(Top, g, streams, streams')
  BY <1>1, <1>2, <1>5, LeaveStores
<1>7. CASE label = "err"
  BY <1>1, <1>5, <1>6, <1>7, FailBooks DEF FailLabels
<1>8. CASE label = "ok"
  <2>1. \A s : ~ Owes(g, s) /\ ~ Owes(Top, s)
    BY <1>2, <1>5, <1>8, OwesIs
  <2>2. Disciplined => SinglesOK(g)
    <3>1. Disciplined => SinglesOK(Top)
      BY <1>2 DEF BInv, SinglesIn, Top, depth
    <3>2. EdgesOK(g)
      BY <1>2, <1>5, LeaveFrame
    <3>3. Open(g) = {}
      BY <1>5, <1>8 DEF Open
    <3> QED BY <1>5, <1>8, <3>1, <3>2, <3>3, KeepSingles DEF SinglesKept
  <2>3. ASSUME Rules PROVE numSegments > 0
    <3>1. segmenterDepth # 0
      <4>1. Top.graph = "segmenter"
        BY <1>2 DEF FrameOK
      <4>2. depth = segmenterDepth
        BY <1>2, <4>1 DEF Held, UnderOK, Top, depth
      <4> QED BY <1>2, <4>2
    <3>2. Going /\ CutInv
      BY <1>1, <1>2, <2>3 DEF Going, AtGraph, FailLabels, BInv, Rules
    <3>3. numChunks <= numSegments /\ numChunks > 0 /\ numChunks \in Nat /\ numSegments \in Nat
      BY <1>2, <1>3, <1>8, <3>1, <3>2 DEF CutInv, IInv, RestOK
    <3> QED BY <3>3
  <2>4. "seg" \notin FailLabels
    BY DEF FailLabels
  <2> QED BY <1>1, <1>5, <2>1, <2>2, <2>3, <2>4, LocalBooks
<1> QED BY <1>7, <1>8

(* ZL_Edge_setDestination(): the edges lead where they led.                *)
LEMMA AssignOwes ==
    ASSUME NEW t \in Frame, t.pc = "fn", EdgesOK(t),
           NEW list \in EdgeLists(FreeEdges(t.edges)), NEW to, OneInput(to) => Len(list) = 1,
           NEW g, g.pc = "fn", g.edges = AssignEdges(t.edges, list, to)
    PROVE  (\A s : Uses(t, s) => Uses(g, s)) /\ SinglesKept(g, t)
<1> DEFINE old == t.edges
           w == Sids(old, list)
<1>1. old \in Seq(Edge)
  BY FrameTypes
<1>2. PICK new : new = AssignEdges(old, list, to) /\ g.edges = new
  OBVIOUS
<1>3. /\ DOMAIN new = DOMAIN old
      /\ \A i \in DOMAIN old :
            /\ i = list[1] => new[i].st = "trigger" /\ new[i].graph = to /\ new[i].with = w
            /\ i # list[1] /\ i \in Range(list) => new[i].st = "follow"
            /\ i # list[1] /\ i \notin Range(list) => new[i] = old[i]
  BY <1>1, <1>2, AssignEdgesIs
<1>4. /\ 1 \in DOMAIN list /\ list[1] \in Range(list)
      /\ \A i \in Range(list) : i \in DOMAIN old /\ old[i].st = "unassigned"
  BY ListIs DEF FreeEdges, Unassigned
<1>5. \A i \in DOMAIN old : old[i].st = "unassigned" => \A s : Leads(old[i], s) <=> s = old[i].sid
  BY FreeLeads
<1>6. /\ DOMAIN w = DOMAIN list
      /\ \A s : s \in Range(w) <=> \E k \in DOMAIN list : s = old[list[k]].sid
  BY SidsAre
<1>7. Len(list) = 1 => Len(w) = 1
  <2>1. CASE \E i \in FreeEdges(t.edges) : list = <<i>>
    <3>1. PICK i : list = <<i>>
      BY <2>1
    <3>2. w = [k \in {1} |-> old[list[k]].sid]
      BY <3>1 DEF Sids
    <3>3. w = <<old[list[1]].sid>>
      BY <3>2
    <3> HIDE DEF w
    <3> QED BY <3>3
  <2>2. CASE \E i, j \in FreeEdges(t.edges) : list = <<i, j>>
    <3>1. PICK i, j : list = <<i, j>>
      BY <2>2
    <3> QED BY <3>1
  <2> QED BY <2>1, <2>2 DEF EdgeLists
<1> HIDE DEF w, old
<1>8. ASSUME NEW s, Uses(t, s) PROVE Uses(g, s)
  <2>1. PICK i \in Open(t) : Leads(old[i], s)
    BY <1>8 DEF Uses, old
  <2>2. i \in DOMAIN old /\ old[i].st \in {"trigger", "unassigned"}
    BY DEF Open, old
  <2>3. CASE i \in Range(list)
    <3>1. s = old[i].sid
      BY <1>4, <1>5, <2>1, <2>3
    <3>2. s \in Range(w)
      BY <1>6, <2>3, <3>1 DEF Range
    <3>3. list[1] \in DOMAIN new /\ new[list[1]].st = "trigger" /\ new[list[1]].with = w
      BY <1>3, <1>4
    <3>4. list[1] \in Open(g)
      BY <1>2, <3>3 DEF Open
    <3> QED BY <1>2, <3>2, <3>3, <3>4 DEF Uses, Leads
  <2>4. CASE i \notin Range(list)
    <3>1. i \in DOMAIN new /\ new[i] = old[i]
      BY <1>3, <1>4, <2>2, <2>4
    <3>2. i \in Open(g)
      BY <1>2, <2>2, <3>1 DEF Open
    <3> QED BY <1>2, <2>1, <3>1, <3>2 DEF Uses
  <2> QED BY <2>3, <2>4
<1>9. ASSUME NEW i \in Open(g)
      PROVE  \/ i \in Open(t) /\ new[i] = old[i]
             \/ ~ OneInput(new[i].graph)
             \/ Len(new[i].with) = 1
  <2>1. i \in DOMAIN old /\ new[i].st \in {"trigger", "unassigned"}
    BY <1>2, <1>3 DEF Open
  <2>2. CASE i = list[1]
    BY <1>3, <1>7, <2>1, <2>2
  <2>3. CASE i # list[1]
    <3>1. new[i] = old[i]
      BY <1>3, <2>1, <2>3
    <3> QED BY <2>1, <3>1 DEF Open, old
  <2> QED BY <2>2, <2>3
<1> QED BY <1>2, <1>8, <1>9 DEF old, SinglesKept

LEMMA SetDestinationBooks ==
    ASSUME BInv, HInv', ZL_Edge_setDestination
    PROVE  BInv'
<1>1. /\ AtGraph("fn") /\ Top.graph \in UserGraphs /\ HInv
      /\ UNCHANGED <<nodes, streams, phase, sent, segmentVars, sessionVars>>
  BY DEF ZL_Edge_setDestination, AtUserFn, graphVars, BInv
<1>3. /\ Top \in Frame /\ FrameOK(Top) /\ Top.pc = "fn" /\ EdgesOK(Top) /\ GraphsOK(Top)
      /\ Top.edges \in Seq(Edge) /\ Top.edges # <<>> /\ depth \in 1 .. Len(stack)
  BY <1>1, TopHolds DEF FrameOK
<1>5. PICK list \in EdgeLists(FreeEdges(Top.edges)), to \in Destinations :
         /\ ~ RefusedDestination(Top.edges, list) /\ (OneInput(to) => Len(list) = 1)
         /\ SetTop([Top EXCEPT !.edges = AssignEdges(@, list, to)])
  BY DEF ZL_Edge_setDestination
<1>6. PICK es : es = AssignEdges(Top.edges, list, to)
  OBVIOUS
<1>7. es \in Seq(Edge)
  <2>1. FreeEdges(Top.edges) \in SUBSET DOMAIN Top.edges
    BY DEF FreeEdges, Unassigned
  <2>2. Sids(Top.edges, list) \in SidList
    BY <1>3, <2>1, SidsOK
  <2>3. to \in Graphs
    BY DEF Graphs
  <2> QED BY <1>3, <1>6, <2>2, <2>3, AssignEdgesOK
<1>8. PICK g : g = [Top EXCEPT !.edges = es]
  OBVIOUS
<1>9. SetTop(g)
  BY <1>3, <1>5, <1>6, <1>8 DEF Frame
<1>10. /\ g \in Frame /\ g.pc = "fn" /\ g.edges = es /\ g.ins = Top.ins
       /\ g.graph = Top.graph /\ g.next = Top.next
  BY <1>3, <1>7, <1>8 DEF Frame
<1>11. g.edges = AssignEdges(Top.edges, list, to)
  BY <1>6, <1>10
<1>12. EdgesOK(g) /\ \A s : Uses(g, s) => Uses(Top, s)
  BY <1>1, <1>3, <1>5, <1>10, <1>11, AssignHeld
<1>13. (\A s : Uses(Top, s) => Uses(g, s)) /\ SinglesKept(g, Top)
  <2>1. /\ Top \in Frame /\ Top.pc = "fn" /\ EdgesOK(Top) /\ g.pc = "fn"
        /\ OneInput(to) => Len(list) = 1
    BY <1>3, <1>5, <1>10
  <2> QED BY <1>11, <2>1, AssignOwes, Zenon
<1>14. \A s : Owes(g, s) <=> Owes(Top, s)
  BY <1>3, <1>10, <1>12, <1>13, OwesUses
<1>15. Disciplined => SinglesOK(g)
  <2>1. Disciplined => SinglesOK(Top)
    BY <1>3 DEF BInv, SinglesIn, Top, depth
  <2>2. (SinglesOK(Top) => g.next = 1) /\ g.graph # "compress1"
    BY <1>1, <1>3, <1>10 DEF SinglesOK, UserGraphs
  <2> QED BY <1>10, <1>12, <1>13, <2>1, <2>2, KeepSingles
<1>16. "fn" \notin FailLabels
  BY DEF FailLabels
<1> QED BY <1>1, <1>9, <1>10, <1>14, <1>15, <1>16, LocalBooks

(* A refused destination: the function ignores an error.                   *)
LEMMA SetDestinationTwiceBooks ==
    ASSUME BInv, HInv', SetDestinationTwice
    PROVE  BInv'
<1>1. /\ AtGraph("fn") /\ Top.graph \in UserGraphs /\ HInv /\ ~ Disciplined
      /\ UNCHANGED <<nodes, streams, phase, sent, segmentVars, sessionVars>>
  BY DEF SetDestinationTwice, AtUserFn, graphVars, BInv, Disciplined
<1>3. /\ Top \in Frame /\ FrameOK(Top) /\ Top.pc = "fn"
      /\ Top.edges \in Seq(Edge) /\ Top.edges # <<>>
  BY <1>1, TopHolds DEF FrameOK
<1>5. PICK list :
         SetTop([Top EXCEPT !.edges = TakeFirst(@, list), !.status = TRUE])
  BY DEF SetDestinationTwice
<1>6. PICK es : es = TakeFirst(Top.edges, list)
  OBVIOUS
<1>7. es \in Seq(Edge) /\ DOMAIN es = DOMAIN Top.edges
  BY <1>3, <1>6, TakeFirstOK DEF TakeFirst
<1>8. ASSUME NEW i \in DOMAIN Top.edges
      PROVE  /\ es[i].with = Top.edges[i].with
             /\ es[i].st = Top.edges[i].st
                  \/ (es[i].st = "trigger" /\ Top.edges[i].st = "unassigned")
  <2>1. PICK e \in Edge : e = Top.edges[i]
    BY <1>3, LenProperties, ElementOfSeq
  <2>2. \/ es[i] = e
        \/ es[i] = [e EXCEPT !.st = "trigger"] /\ e.st = "unassigned"
    BY <1>6, <2>1 DEF TakeFirst, FreeEdges, Unassigned
  <2>3. /\ es[i].with = e.with
        /\ es[i].st = e.st \/ (es[i].st = "trigger" /\ e.st = "unassigned")
    BY <2>2 DEF Edge
  <2> QED BY <2>1, <2>3
<1>9. PICK g : g = [Top EXCEPT !.edges = es, !.status = TRUE]
  OBVIOUS
<1>10. SetTop(g)
  BY <1>3, <1>5, <1>6, <1>9 DEF Frame
<1>11. g \in Frame /\ g.pc = "fn" /\ g.edges = es
  BY <1>3, <1>7, <1>9 DEF Frame
<1>12. Open(g) \subseteq Open(Top) /\ \A i \in Open(g) : i \in DOMAIN Top.edges
  BY <1>3, <1>7, <1>8, <1>11 DEF Open
<1>13. \A s : Uses(g, s) => Uses(Top, s)
  BY <1>8, <1>11, <1>12 DEF Uses, Leads
<1>14. \A s : Owes(g, s) => Owes(Top, s)
  BY <1>3, <1>11, <1>13, OwesUses
<1>15. "fn" \notin FailLabels /\ ~ Rules
  BY <1>1 DEF FailLabels, Rules
<1> QED BY <1>1, <1>10, <1>11, <1>14, <1>15, LocalBooks

-----------------------------------------------------------------------------
(* Nodes.                                                                  *)

(* Nothing that was there is stored or taken back.                         *)
Stays(strs, new) ==
    /\ Len(new) >= Len(strs)
    /\ \A s \in 1 .. Len(strs) : new[s].toStore = strs[s].toStore

LEMMA GuardStays ==
    ASSUME NEW strs \in Seq(Stream), NEW ins, NEW d \in Nat,
           NEW new, new = RTGM_guardRTStream(strs, ins, d)
    PROVE  Len(new) = Len(strs) /\ Stays(strs, new)
<1>1. Len(new) = Len(strs) /\ Len(strs) \in Nat
  BY GuardIs, StreamRanks
<1>2. ASSUME NEW s \in 1 .. Len(strs) PROVE new[s].toStore = strs[s].toStore
  <2>1. s \in DOMAIN strs /\ strs[s] \in Stream
    BY StreamRanks
  <2>2. new[s] = IF s \in Range(ins) /\ strs[s].rank = 0
                 THEN [strs[s] EXCEPT !.rank = d] ELSE strs[s]
    BY <2>1 DEF RTGM_guardRTStream
  <2>3. \A x \in Stream : [x EXCEPT !.rank = d].toStore = x.toStore
    BY DEF Stream
  <2> QED BY <2>1, <2>2, <2>3
<1> QED BY <1>1, <1>2 DEF Stays

LEMMA ClearStays ==
    ASSUME NEW strs \in Seq(Stream), NEW ins, NEW d \in Nat,
           NEW new, new = RTGM_clearRTStream(strs, ins, d)
    PROVE  Len(new) = Len(strs) /\ Stays(strs, new)
<1>1. Len(new) = Len(strs) /\ Len(strs) \in Nat
  BY ClearIs, StreamRanks
<1>2. ASSUME NEW s \in 1 .. Len(strs) PROVE new[s].toStore = strs[s].toStore
  <2>1. s \in DOMAIN strs /\ strs[s] \in Stream
    BY StreamRanks
  <2>2. new[s] = IF /\ s \in Range(ins) /\ ~ strs[s].toStore
                    /\ ~ (Minus1(strs[s].rank) < Minus1(d))
                 THEN [strs[s] EXCEPT !.live = FALSE] ELSE strs[s]
    BY <2>1 DEF RTGM_clearRTStream
  <2>3. \A x \in Stream : [x EXCEPT !.live = FALSE].toStore = x.toStore
    BY DEF Stream
  <2> QED BY <2>1, <2>2, <2>3
<1> QED BY <1>1, <1>2 DEF Stays

(* The new streams are not stored.                                         *)
Fresh(strs, new, n) ==
    /\ Len(new) = Len(strs) + n
    /\ \A s \in Len(strs) + 1 .. Len(strs) + n : ~ new[s].toStore

Outputs(out1s, made) == IF made > out1s THEN made ELSE out1s

LEMMA AddStays ==
    ASSUME NEW strs \in Seq(Stream), NEW out1s \in Nat, NEW made \in Nat, NEW kind \in Kind,
           NEW new, new = RTGM_addStreams(strs, out1s, made, kind)
    PROVE  new \in Seq(Stream) /\ Stays(strs, new) /\ Fresh(strs, new, Outputs(out1s, made))
<1> DEFINE n == Outputs(out1s, made)
           add == [i \in 1 .. n |-> IF i <= made THEN NewStream(kind) ELSE NoStream]
<1>1. NewStream(kind) \in Stream /\ NoStream \in Stream
  BY DEF NewStream, NoStream, Stream, Kind
<1>2. n \in Nat /\ Len(strs) \in Nat
  BY LenProperties DEF Outputs
<1>3. add \in [1 .. n -> Stream]
  BY <1>1
<1>4. \A i \in 1 .. n : ~ add[i].toStore
  BY <1>2 DEF NewStream, NoStream
<1>5. new = strs \o add
  BY DEF RTGM_addStreams, Outputs
<1> HIDE DEF add, n
<1>6. add \in Seq(Stream) /\ Len(add) = n
  BY <1>2, <1>3, FcnSeq
<1>7. /\ new \in Seq(Stream) /\ Len(new) = Len(strs) + n
      /\ \A s \in 1 .. Len(strs) + n :
            new[s] = IF s <= Len(strs) THEN strs[s] ELSE add[s - Len(strs)]
  <2>1. /\ strs \o add \in Seq(Stream) /\ Len(strs \o add) = Len(strs) + Len(add)
        /\ \A s \in 1 .. Len(strs) + Len(add) :
              (strs \o add)[s] = IF s <= Len(strs) THEN strs[s] ELSE add[s - Len(strs)]
    BY <1>6, ConcatProperties
  <2> QED BY <1>5, <1>6, <2>1
<1>8. Stays(strs, new)
  BY <1>2, <1>7 DEF Stays
<1>9. ASSUME NEW s \in Len(strs) + 1 .. Len(strs) + n PROVE ~ new[s].toStore
  <2>1. s \in 1 .. Len(strs) + n /\ ~(s <= Len(strs)) /\ s - Len(strs) \in 1 .. n
    BY <1>2
  <2> QED BY <1>4, <1>7, <2>1
<1> QED BY <1>7, <1>8, <1>9 DEF Fresh, n

(* The node and the streams of a transform that succeeded.                 *)
NodeMade(nds, strs, nds2, strs2, ins, out1s, made) ==
    /\ Len(nds2) = Len(nds) + 1
    /\ \A m \in 1 .. Len(nds) : nds2[m] = nds[m]
    /\ nds2[Len(nds) + 1].ins = ins /\ nds2[Len(nds) + 1].start = Len(strs) + 1
    /\ nds2[Len(nds) + 1].out1s = out1s /\ nds2[Len(nds) + 1].outs = made
    /\ Stays(strs, strs2) /\ Fresh(strs, strs2, Outputs(out1s, made))

LEMMA NodeMakes ==
    ASSUME GraphOK(nodes, streams), NEW STATE ins, ins \in Seq(Nat),
           NEW STATE shape, shape \in NodeShape,
           NEW made \in Nat, NEW r \in {"ok", "failed", "noStream", "noNode"},
           NodeRuns(ins, shape, made, r)
    PROVE  /\ Stays(streams, streams')
           /\ r = "ok" => NodeMade(nodes, streams, nodes', streams', ins, shape.out1s, made)
<1>1. shape.out1s \in Nat /\ shape.kind \in Kind
  BY DEF NodeShape
<1>2. streams \in Seq(Stream) /\ Len(streams) \in Nat /\ Len(nodes) \in Nat /\ nodes \in Seq(Node)
  BY GraphTypes
<1>3. PICK all : all = RTGM_addStreams(streams, shape.out1s, made, shape.kind)
  OBVIOUS
<1>4. PICK n \in Nat : n = Outputs(shape.out1s, made)
  BY <1>1 DEF Outputs
<1>5. all \in Seq(Stream) /\ Stays(streams, all) /\ Fresh(streams, all, n)
  BY <1>1, <1>2, <1>3, <1>4, AddStays
<1>6. CASE r = "ok"
  <2>1. /\ nodes' = RTGM_createNode(nodes, streams, ins, shape.out1s, made)
        /\ streams' = RTGM_clearRTStream(all, ins, 0)
    BY <1>3, <1>6 DEF NodeRuns
  <2>2. PICK new : new = streams'
    OBVIOUS
  <2>3. Len(new) = Len(all) /\ Stays(all, new)
    <3>1. 0 \in Nat /\ new = RTGM_clearRTStream(all, ins, 0)
      BY <2>1, <2>2
    <3> QED BY <1>5, <3>1, ClearStays
  <2>4. Stays(streams, new) /\ Fresh(streams, new, n)
    <3>1. \A s \in 1 .. Len(streams) : s \in 1 .. Len(all)
      BY <1>2, <1>5 DEF Fresh
    <3>2. \A s \in Len(streams) + 1 .. Len(streams) + n : s \in 1 .. Len(all)
      BY <1>2, <1>5 DEF Fresh
    <3>3. Len(new) >= Len(streams)
      BY <2>3, <1>5 DEF Stays
    <3> QED BY <1>5, <2>3, <3>1, <3>2, <3>3 DEF Fresh, Stays
  <2>5. PICK node : node = [ins |-> ins, start |-> Len(streams) + 1, out1s |-> shape.out1s,
                            outs |-> made]
    OBVIOUS
  <2>6. /\ node \in Node /\ node.ins = ins /\ node.start = Len(streams) + 1
        /\ node.out1s = shape.out1s /\ node.outs = made
    BY <1>1, <1>2, <2>5 DEF Node
  <2>7. nodes' = Append(nodes, node)
    BY <2>1, <2>5 DEF RTGM_createNode
  <2>8. /\ Len(nodes') = Len(nodes) + 1 /\ nodes'[Len(nodes) + 1] = node
        /\ \A m \in 1 .. Len(nodes) : nodes'[m] = nodes[m]
    BY <1>2, <2>6, <2>7, AppendProperties
  <2> QED BY <1>4, <2>2, <2>4, <2>6, <2>8 DEF NodeMade
<1>7. CASE r = "failed"
  <2>1. streams' = all
    BY <1>3, <1>7 DEF NodeRuns
  <2> QED BY <1>5, <1>7, <2>1
<1>8. CASE r \in {"noStream", "noNode"}
  <2>1. streams' = streams
    BY <1>8 DEF NodeRuns
  <2> QED BY <1>2, <1>8, <2>1 DEF Stays
<1> QED BY <1>6, <1>7, <1>8

(* A node consumes what no other did, and its outputs come last.           *)
LEMMA NodeTidy ==
    ASSUME NEW nds, NEW strs, GraphOK(nds, strs), NEW nds2, NEW strs2,
           NEW ins \in Seq(Nat), NEW out1s \in Nat, NEW made \in Nat,
           NodeMade(nds, strs, nds2, strs2, ins, out1s, made), Filled(nds2)
    PROVE  /\ Filled(nds) /\ Len(strs2) = Len(strs) + made
           /\ \A s : Consumed(nds2, s) <=> Consumed(nds, s) \/ s \in Range(ins)
           /\ \A k \in Nat : LayoutOK(nds, strs, k) => LayoutOK(nds2, strs2, k)
           /\ /\ LinksOK(nds) /\ Once(ins)
              /\ \A s \in Range(ins) : s \in 1 .. Len(strs) /\ ~ Consumed(nds, s)
              => LinksOK(nds2)
<1> DEFINE n == Len(nds)
<1>1. nds \in Seq(Node) /\ n \in Nat /\ Len(strs) \in Nat
  BY GraphTypes
<1>2. \A m \in 1 .. n : nds[m].start \in Nat /\ nds[m].outs \in Nat /\ nds[m].out1s \in Nat
  BY <1>1, NodeTypes
<1>3. /\ Len(nds2) = n + 1 /\ \A m \in 1 .. n : nds2[m] = nds[m]
      /\ nds2[n + 1].ins = ins /\ nds2[n + 1].start = Len(strs) + 1
      /\ nds2[n + 1].out1s = out1s /\ nds2[n + 1].outs = made
      /\ Len(strs2) = Len(strs) + Outputs(out1s, made)
  BY DEF NodeMade, Fresh
<1>4. /\ n + 1 \in 1 .. n + 1 /\ \A m \in 1 .. n : m \in 1 .. n + 1 /\ m # n + 1
      /\ \A m \in 1 .. n + 1 : m \in 1 .. n \/ m = n + 1
  BY <1>1
<1>5. Filled(nds)
  BY <1>3, <1>4 DEF Filled
<1>6. Len(strs2) = Len(strs) + made
  <2>1. made >= out1s
    BY <1>3, <1>4 DEF Filled
  <2> QED BY <1>3, <2>1 DEF Outputs
<1> HIDE DEF n
<1>7. ASSUME NEW s PROVE Consumed(nds2, s) <=> Consumed(nds, s) \/ s \in Range(ins)
  <2>1. Consumed(nds, s) <=> \E m \in 1 .. n : s \in Range(nds[m].ins)
    BY DEF Consumed, n
  <2>2. Consumed(nds2, s) <=> \E m \in 1 .. n + 1 : s \in Range(nds2[m].ins)
    BY <1>3 DEF Consumed
  <2>3. (\E m \in 1 .. n + 1 : s \in Range(nds2[m].ins)) <=>
            (\E m \in 1 .. n : s \in Range(nds2[m].ins)) \/ s \in Range(nds2[n + 1].ins)
    BY <1>4
  <2>4. (\E m \in 1 .. n : s \in Range(nds2[m].ins)) <=> \E m \in 1 .. n : s \in Range(nds[m].ins)
    BY <1>3
  <2> QED BY <1>3, <2>1, <2>2, <2>3, <2>4
<1>8. ASSUME NEW k \in Nat, LayoutOK(nds, strs, k) PROVE LayoutOK(nds2, strs2, k)
  <2>1. Origin(nds2, strs2, k)
    <3>1. Origin(nds, strs, k)
      BY <1>8 DEF LayoutOK
    <3>2. nds2 # <<>>
      BY <1>1, <1>3
    <3>3. CASE n = 0
      <4>1. nds = <<>>
        BY <1>1, <3>3, EmptySeq DEF n
      <4>2. Len(strs) = k
        BY <3>1, <4>1 DEF Origin
      <4>3. nds2[1].start = k + 1
        BY <1>3, <3>3, <4>2
      <4> QED BY <3>2, <4>3 DEF Origin
    <3>4. CASE n # 0
      <4>1. nds # <<>> /\ 1 \in 1 .. n
        BY <1>1, <3>4 DEF n
      <4>2. nds[1].start = k + 1 /\ nds2[1] = nds[1]
        BY <1>3, <3>1, <4>1 DEF Origin
      <4> QED BY <3>2, <4>2 DEF Origin
    <3> QED BY <3>3, <3>4
  <2>2. ASSUME NEW m \in 1 .. n + 1
        PROVE  nds2[m].start + nds2[m].outs =
                  IF m = n + 1 THEN Len(strs2) + 1 ELSE nds2[m + 1].start
    <3>1. CASE m = n + 1
      <4>1. nds2[m].start = Len(strs) + 1 /\ nds2[m].outs = made
        BY <1>3, <3>1
      <4>2. (Len(strs) + 1) + made = (Len(strs) + made) + 1
        BY <1>1
      <4>3. nds2[m].start + nds2[m].outs = Len(strs2) + 1
        BY <1>6, <4>1, <4>2
      <4> QED BY <3>1, <4>3
    <3>2. CASE m \in 1 .. n
      <4>1. nds[m].start + nds[m].outs = IF m = n THEN Len(strs) + 1 ELSE nds[m + 1].start
        BY <1>8, <3>2 DEF LayoutOK, n
      <4>2. nds2[m] = nds[m] /\ m # n + 1
        BY <1>3, <1>4, <3>2
      <4>3. m # n => m + 1 \in 1 .. n
        BY <1>1, <3>2
      <4> QED BY <1>3, <4>1, <4>2, <4>3
    <3> QED BY <1>4, <3>1, <3>2
  <2> QED BY <1>3, <2>1, <2>2 DEF LayoutOK
<1>9. ASSUME LinksOK(nds), Once(ins),
             \A s \in Range(ins) : s \in 1 .. Len(strs) /\ ~ Consumed(nds, s)
      PROVE  LinksOK(nds2)
  <2>1. /\ \A m \in 1 .. n : /\ Once(nds[m].ins)
                             /\ \A s \in Range(nds[m].ins) : s \in 1 .. nds[m].start - 1
        /\ \A l, m \in 1 .. n :
              \A s \in Range(nds[l].ins) : s \in Range(nds[m].ins) => l = m
    BY <1>9 DEF LinksOK, n
  <2>2. \A m \in 1 .. n : \A s \in Range(nds[m].ins) : s \notin Range(ins)
    BY <1>9 DEF Consumed, n
  <2>3. ASSUME NEW m \in 1 .. n + 1
        PROVE  Once(nds2[m].ins) /\ \A s \in Range(nds2[m].ins) : s \in 1 .. nds2[m].start - 1
    <3>1. CASE m = n + 1
      <4>1. Len(strs) + 1 - 1 = Len(strs)
        BY <1>1
      <4>2. nds2[m].ins = ins /\ nds2[m].start - 1 = Len(strs)
        BY <1>3, <3>1, <4>1
      <4> QED BY <1>9, <4>2
    <3>2. CASE m \in 1 .. n
      BY <1>3, <2>1, <3>2
    <3> QED BY <1>4, <3>1, <3>2
  <2>4. ASSUME NEW l \in 1 .. n + 1, NEW m \in 1 .. n + 1, NEW s \in Range(nds2[l].ins),
               s \in Range(nds2[m].ins)
        PROVE  l = m
    <3>1. CASE l = n + 1 /\ m = n + 1
      BY <3>1
    <3>2. CASE l = n + 1 /\ m \in 1 .. n
      BY <1>3, <2>2, <2>4, <3>2
    <3>3. CASE l \in 1 .. n /\ m = n + 1
      BY <1>3, <2>2, <2>4, <3>3
    <3>4. CASE l \in 1 .. n /\ m \in 1 .. n
      BY <1>3, <2>1, <2>4, <3>4
    <3> QED BY <1>4, <3>1, <3>2, <3>3, <3>4
  <2> QED BY <1>3, <2>3, <2>4 DEF LinksOK
<1> QED BY <1>5, <1>6, <1>7, <1>8, <1>9

(* A node takes streams the frame owes; the frame owes its outputs, and    *)
(* nothing is forgotten.                                                   *)
TakesOver(g, t, ins, made, n) ==
    /\ \A s \in Range(ins) : Owes(t, s)
    /\ \A s : Owes(g, s) => (Owes(t, s) /\ s \notin Range(ins)) \/ s \in n + 1 .. n + made
TakesAll(g, t, ins, made, n) ==
    \A s : (Owes(t, s) /\ s \notin Range(ins)) \/ s \in n + 1 .. n + made => Owes(g, s)

LEMMA NodeStores ==
    ASSUME NEW strs, NEW strs2, NEW n \in Nat, n = Len(strs), NEW all \in Nat, NEW made \in Nat,
           made <= all, Stays(strs, strs2), Fresh(strs, strs2, all),
           NEW t, NEW g, NEW ins, TakesOver(g, t, ins, made, n),
           \A s : Owes(t, s) => s \in 1 .. n
    PROVE  StoreStep(t, g, strs, strs2)
<1>1. \A s \in n + 1 .. n + made : s \in n + 1 .. n + all
  OBVIOUS
<1>2. Len(strs2) = n + all /\ Len(strs2) >= n
  BY DEF Fresh
<1>3. ASSUME NEW s, Owes(g, s)
      PROVE  \/ s \in 1 .. Len(strs) /\ Owes(t, s) /\ strs2[s].toStore = strs[s].toStore
             \/ s \in Len(strs) + 1 .. Len(strs2) /\ ~ strs2[s].toStore
  <2>1. CASE Owes(t, s)
    BY <2>1 DEF Stays
  <2>2. CASE s \in n + 1 .. n + made
    BY <1>1, <1>2, <2>2 DEF Fresh
  <2> QED BY <1>3, <2>1, <2>2 DEF TakesOver
<1> QED BY <1>2, <1>3 DEF StoreStep, Stays

LEMMA NodeSettles ==
    ASSUME NEW nds, NEW strs, GraphOK(nds, strs), NEW nds2, NEW strs2,
           NEW ins \in Seq(Nat), NEW out1s \in Nat, NEW made \in Nat,
           NodeMade(nds, strs, nds2, strs2, ins, out1s, made), Once(ins),
           NEW t, NEW g, TakesOver(g, t, ins, made, Len(strs)),
           TakesAll(g, t, ins, made, Len(strs)), \A s : Owes(t, s) => s \in 1 .. Len(strs),
           NEW owed, \A s : Owes(t, s) => s \in owed, Unstored(owed, strs), NEW k \in Nat
    PROVE  BooksGo(t, g, owed, nds, strs, nds2, strs2, k)
<1> SUFFICES ASSUME Filled(nds2)
             PROVE  /\ Filled(nds)
                    /\ Tidy(owed, nds, strs, k) =>
                          /\ LayoutOK(nds2, strs2, k) /\ LinksOK(nds2)
                          /\ BooksStep(t, g, nds, strs, nds2, strs2)
  BY DEF BooksGo
<1>1. /\ Filled(nds) /\ Len(strs2) = Len(strs) + made
      /\ \A s : Consumed(nds2, s) <=> Consumed(nds, s) \/ s \in Range(ins)
      /\ \A j \in Nat : LayoutOK(nds, strs, j) => LayoutOK(nds2, strs2, j)
      /\ /\ LinksOK(nds) /\ Once(ins)
         /\ \A s \in Range(ins) : s \in 1 .. Len(strs) /\ ~ Consumed(nds, s)
         => LinksOK(nds2)
  BY NodeTidy
<1>2. /\ Stays(strs, strs2) /\ Fresh(strs, strs2, Outputs(out1s, made))
      /\ Len(strs) \in Nat /\ \A m \in 1 .. Len(nds) : nds[m].start \in Nat
  BY GraphTypes DEF NodeMade
<1> SUFFICES ASSUME Tidy(owed, nds, strs, k)
             PROVE  /\ LayoutOK(nds2, strs2, k) /\ LinksOK(nds2)
                    /\ BooksStep(t, g, nds, strs, nds2, strs2)
  BY <1>1
<1>3. LayoutOK(nds, strs, k) /\ LinksOK(nds) /\ AccountsOK(owed, nds, strs)
  BY DEF Tidy
<1>4. ASSUME NEW s \in Range(ins)
      PROVE  s \in 1 .. Len(strs) /\ Owes(t, s) /\ ~ Consumed(nds, s) /\ ~ strs[s].toStore
  <2>1. Owes(t, s) /\ s \in 1 .. Len(strs) /\ s \in owed
    BY DEF TakesOver
  <2> QED BY <1>3, <2>1 DEF AccountsOK, Unstored
<1>5. LinksOK(nds2)
  BY <1>1, <1>3, <1>4
<1>6. ASSUME NEW s \in 1 .. Len(strs)
      PROVE  Same(t, g, nds, strs, nds2, strs2, s) \/ Settled(t, g, nds2, strs2, s)
  <2>1. s \notin Len(strs) + 1 .. Len(strs) + made /\ strs2[s].toStore = strs[s].toStore
    BY <1>2 DEF Stays
  <2>2. Owes(g, s) <=> Owes(t, s) /\ s \notin Range(ins)
    BY <2>1 DEF TakesOver, TakesAll
  <2>3. CASE s \in Range(ins)
    <3>1. Owes(t, s) /\ ~ Owes(g, s) /\ Consumed(nds2, s) /\ ~ strs2[s].toStore
      BY <1>1, <1>4, <2>1, <2>2, <2>3
    <3> QED BY <3>1 DEF Settled
  <2>4. CASE s \notin Range(ins)
    <3>1. (Owes(g, s) <=> Owes(t, s)) /\ (Consumed(nds2, s) <=> Consumed(nds, s))
      BY <1>1, <2>2, <2>4
    <3> QED BY <2>1, <3>1 DEF Same
  <2> QED BY <2>3, <2>4
<1>7. ASSUME NEW s \in Len(strs) + 1 .. Len(strs2)
      PROVE  Owes(g, s) /\ ~ strs2[s].toStore /\ ~ Consumed(nds2, s)
  <2>1. s \in Len(strs) + 1 .. Len(strs) + made /\ s \notin 1 .. Len(strs)
    BY <1>1, <1>2
  <2>2. Owes(g, s)
    BY <2>1 DEF TakesAll
  <2>3. ~ strs2[s].toStore
    <3>1. Len(strs2) = Len(strs) + Outputs(out1s, made)
      BY <1>2 DEF Fresh
    <3> QED BY <1>2, <3>1 DEF Fresh
  <2>4. ~ Consumed(nds, s)
    <3> SUFFICES ASSUME NEW m \in 1 .. Len(nds), s \in Range(nds[m].ins) PROVE FALSE
      BY DEF Consumed
    <3>1. s \in 1 .. nds[m].start - 1
      BY <1>3 DEF LinksOK
    <3>2. nds[m].start <= Len(strs) + 1 /\ nds[m].start \in Nat
      BY <1>2 DEF GraphOK
    <3> QED BY <1>2, <2>1, <3>1, <3>2
  <2> QED BY <1>1, <1>4, <2>1, <2>2, <2>3, <2>4
<1> QED BY <1>1, <1>3, <1>5, <1>6, <1>7 DEF BooksStep

LEMMA NodeBooks ==
    ASSUME BInv, HInv', NEW STATE label, AtGraph(label), label \notin FailLabels,
           depth > segmenterDepth,
           NEW STATE g, SetTop(g), g \in Frame, Disciplined => SinglesOK(g),
           NEW STATE ins, ins \in Seq(Nat), NEW STATE shape, shape \in NodeShape,
           NEW made \in Nat, NodeRuns(ins, shape, made, "ok"),
           TakesOver(g, Top, ins, made, Len(streams)),
           Disciplined => TakesAll(g, Top, ins, made, Len(streams)) /\ Once(ins),
           UNCHANGED <<phase, sent, segmentVars, sessionVars>>
    PROVE  BInv'
<1>1. /\ HInv /\ GraphOK(nodes, streams) /\ Top \in Frame /\ FrameHeld(Top, depth, streams)
      /\ Len(streams) \in Nat /\ depth \in Nat /\ segmenterDepth \in Nat /\ Top.pc = label
      /\ depth \in 1 .. Len(stack) /\ IInv
  BY TopHolds DEF BInv
<1>2. shape.out1s \in Nat
  BY DEF NodeShape
<1>3. PICK out1s \in Nat : out1s = shape.out1s
  BY <1>2
<1>4. PICK nds2, strs2 : nds2 = nodes' /\ strs2 = streams'
  OBVIOUS
<1>5. NodeMade(nodes, streams, nds2, strs2, ins, out1s, made)
  <2>1. PICK r \in {"ok", "failed", "noStream", "noNode"} : r = "ok"
    OBVIOUS
  <2>2. NodeRuns(ins, shape, made, r)
    BY <2>1
  <2> QED BY <1>1, <1>3, <1>4, <2>1, <2>2, NodeMakes
<1>6. \A s : Owes(Top, s) => s \in 1 .. Len(streams)
  <2>1. \A s : Takes(Top, s) \/ Uses(Top, s) => s \in 1 .. Len(streams)
    BY <1>1 DEF FrameHeld, Sound
  <2> QED BY <1>1, <2>1, OwesIs
<1>7. StoreStep(Top, g, streams, streams')
  <2>1. PICK n, all \in Nat : n = Len(streams) /\ all = Outputs(out1s, made) /\ made <= all
    BY <1>1 DEF Outputs
  <2>2. Stays(streams, strs2) /\ Fresh(streams, strs2, all)
    BY <1>5, <2>1 DEF NodeMade
  <2>3. TakesOver(g, Top, ins, made, n) /\ \A s : Owes(Top, s) => s \in 1 .. n
    BY <1>6, <2>1
  <2>4. PICK t, f, i : t = Top /\ f = g /\ i = ins
    OBVIOUS
  <2>5. StoreStep(t, f, streams, strs2)
    BY <2>1, <2>2, <2>3, <2>4, NodeStores
  <2> QED BY <1>4, <2>4, <2>5
<1>8. ASSUME Rules
      PROVE  BooksGo(Top, g, Debts(stack, segmenterDepth), nodes, streams, nodes', streams',
                     Len(inputs))
  <2>1. Unstored(Debts(stack, segmenterDepth), streams)
    BY <1>8 DEF BInv, UInv, Rules
  <2>2. \A s : Owes(Top, s) => s \in Debts(stack, segmenterDepth)
    <3>1. \A s \in 1 .. Len(streams) : s \in Nat
      OBVIOUS
    <3> QED BY <1>1, <1>6, <3>1 DEF Debts, Top, depth
  <2>3. Len(inputs) \in Nat /\ Once(ins) /\ TakesAll(g, Top, ins, made, Len(streams))
    BY <1>1, <1>8, LenProperties DEF IInv, RestOK, Rules
  <2>4. PICK t, f, i : t = Top /\ f = g /\ i = ins
    OBVIOUS
  <2>5. /\ TakesOver(f, t, i, made, Len(streams)) /\ i \in Seq(Nat) /\ Once(i)
        /\ TakesAll(f, t, i, made, Len(streams))
        /\ NodeMade(nodes, streams, nds2, strs2, i, out1s, made)
        /\ \A s : Owes(t, s) => s \in 1 .. Len(streams)
        /\ \A s : Owes(t, s) => s \in Debts(stack, segmenterDepth)
    BY <1>5, <1>6, <2>2, <2>3, <2>4
  <2>6. BooksGo(t, f, Debts(stack, segmenterDepth), nodes, streams, nds2, strs2, Len(inputs))
    BY <1>1, <2>1, <2>3, <2>5, NodeSettles
  <2> QED BY <1>4, <2>4, <2>6
<1>9. Rules /\ depth <= segmenterDepth => numSegments > 0 \/ g.pc = "seg"
  BY <1>1
<1> QED BY <1>7, <1>8, <1>9, StepBooks

(* A node fails, and the frame reports it.                                 *)
LEMMA NodeFailsBooks ==
    ASSUME BInv, HInv', NEW STATE label, AtGraph(label), Goto("err"),
           NEW STATE ins, ins \in Seq(Nat), NEW STATE shape, shape \in NodeShape,
           NEW made \in Nat, NEW r \in {"ok", "failed", "noStream", "noNode"},
           NodeRuns(ins, shape, made, r), UNCHANGED <<phase, sent, segmentVars, sessionVars>>
    PROVE  BInv'
<1>1. HInv /\ Top \in Frame /\ GraphOK(nodes, streams) /\ Len(streams) \in Nat
  BY TopHolds DEF BInv
<1>2. PICK g : g = [Top EXCEPT !.pc = "err"]
  OBVIOUS
<1>3. Leaves(g, Top) /\ SetTop(g) /\ g.pc \in FailLabels
  BY <1>1, <1>2 DEF Leaves, Goto, Frame, FailLabels
<1>4. Stays(streams, streams')
  BY <1>1, NodeMakes
<1>5. StoreStep(Top, g, streams, streams')
  BY <1>1, <1>3, <1>4, LeaveStores DEF Stays
<1> QED BY <1>3, <1>5, FailBooks

LEMMA ConvertInputBooks ==
    ASSUME BInv, HInv', ConvertInput
    PROVE  BInv'
<1>1. /\ AtGraph("enter") /\ Top.next <= Len(Top.ins) /\ HInv
      /\ UNCHANGED <<phase, sent, segmentVars, sessionVars>>
  BY DEF ConvertInput, BInv
<1>2. PICK x : x = Top.ins[Top.next]
  OBVIOUS
<1>3. PICK ins : ins = <<x>>
  OBVIOUS
<1>4. /\ depth > segmenterDepth /\ x \in Nat /\ Takes(Top, x) /\ ~ Uses(Top, x)
      /\ Top.next \in 1 .. Len(Top.ins) /\ Top.ins \in Seq(Nat)
      /\ \A k \in (Top.next + 1) .. Len(Top.ins) : Top.ins[k] # x
  BY <1>1, <1>2, InputOK
<1>5. ins \in Seq(Nat) /\ Once(ins) /\ \A s : s \in Range(ins) <=> s = x
  <2>1. DOMAIN ins = {1} /\ ins[1] = x
    BY <1>3
  <2> QED BY <1>3, <1>4, <2>1, Singleton DEF Range, Once
<1>6. /\ Top \in Frame /\ Top.pc = "enter" /\ EdgesOK(Top) /\ GraphsOK(Top)
      /\ depth \in 1 .. Len(stack) /\ segmenterDepth \in Nat /\ Len(streams) \in Nat
      /\ FrameHeld(Top, depth, streams)
  BY <1>1, <1>4, TopHolds
<1>7. \A s : Takes(Top, s) \/ Uses(Top, s) => s \in 1 .. Len(streams)
  BY <1>6 DEF FrameHeld, Sound
<1>8. ConversionShape \in NodeShape
  BY ConversionType
<1>9. ASSUME NodeRuns(ins, ConversionShape, 1, "ok"),
             SetTop([Top EXCEPT !.edges = Append(@, NewEdge(Len(streams) + 1)),
                                !.next = @ + 1])
      PROVE  BInv'
  <2>1. PICK sid \in Nat : sid = Len(streams) + 1
    BY <1>6
  <2>2. sid \notin 1 .. Len(streams)
    BY <1>6, <2>1
  <2>3. ~ Uses(Top, sid)
    BY <1>7, <2>2
  <2>4. ASSUME NEW k \in (Top.next + 1) .. Len(Top.ins) PROVE Top.ins[k] # sid
    <3>1. k \in DOMAIN Top.ins
      BY <1>4, LenProperties
    <3> QED BY <1>7, <2>2, <3>1 DEF Takes, Range
  <2>5. PICK g : MoreEdge(g, Top, sid)
    BY DEF MoreEdge
  <2>6. g \in Frame /\ EdgesOK(g)
    BY <1>6, <2>3, <2>4, <2>5, NextEdgeHeld
  <2>7. /\ g.pc = "enter" /\ g.graph = Top.graph /\ g.ins = Top.ins /\ g.next = Top.next + 1
        /\ \A i \in Open(g) : g.edges[i].st = "unassigned"
        /\ \A s : Uses(g, s) <=> Uses(Top, s) \/ s = sid
        /\ \A s : Waits(g, s) <=> \E k \in (Top.next + 1) .. Len(Top.ins) : Top.ins[k] = s
    BY <1>6, <2>5, NextEdgeOwes
  <2>8. SetTop(g)
    BY <1>9, <2>1, <2>5 DEF MoreEdge
  <2>9. Disciplined => SinglesOK(g)
    <3>1. Disciplined => SinglesOK(Top)
      BY <1>6 DEF BInv, SinglesIn, Top, depth
    <3>2. g.next <= Len(g.ins) + 1
      <4>1. Top.next \in Nat /\ Len(Top.ins) \in Nat
        BY <1>6, FrameTypes, LenProperties DEF SidList
      <4> QED BY <1>1, <2>7, <4>1
    <3> QED BY <2>6, <2>7, <3>1, <3>2, KeepSingles DEF SinglesKept
  <2>10. ASSUME NEW s PROVE Waits(Top, s) <=> s = x \/ Waits(g, s)
    <3>1. Waits(Top, s) <=> \E k \in Top.next .. Len(Top.ins) : Top.ins[k] = s
      BY <1>6 DEF Waits
    <3>2. PICK n, m : n = Top.next /\ m = Len(Top.ins) /\ n \in Nat /\ m \in Nat /\ n <= m
      BY <1>1, <1>4, <1>6, FrameTypes, LenProperties DEF Frame, SidList
    <3>3. \A k : k \in n .. m <=> k = n \/ k \in (n + 1) .. m
      BY <3>2
    <3> QED BY <1>2, <2>7, <3>1, <3>2, <3>3
  <2>11. ~ Waits(g, x) /\ x # sid /\ Owes(Top, x)
    BY <1>4, <1>7, <2>2, <2>7, <2>10 DEF Owes
  <2>12. PICK n \in Nat, made \in Nat : n = Len(streams) /\ made = 1
    BY <1>6
  <2>13. \A s : s \in n + 1 .. n + made <=> s = sid
    BY <2>1, <2>12
  <2>14. TakesOver(g, Top, ins, made, n) /\ TakesAll(g, Top, ins, made, n)
    <3>1. ASSUME NEW s
          PROVE  Owes(g, s) <=> (Owes(Top, s) /\ s # x) \/ s = sid
      BY <1>4, <2>7, <2>10, <2>11, Zenon DEF Owes
    <3> QED BY <1>5, <2>11, <2>13, <3>1 DEF TakesOver, TakesAll
  <2>15. "enter" \notin FailLabels /\ NodeRuns(ins, ConversionShape, made, "ok")
    BY <1>9, <2>12 DEF FailLabels
  <2> QED BY <1>1, <1>4, <1>5, <1>8, <2>6, <2>8, <2>9, <2>12, <2>14, <2>15, NodeBooks
<1>10. ASSUME NEW r \in {"failed", "noStream", "noNode"},
              NodeRuns(ins, ConversionShape, 0, r), Goto("err")
       PROVE  BInv'
  <2>1. PICK made \in Nat : made = 0
    OBVIOUS
  <2>2. r \in {"ok", "failed", "noStream", "noNode"} /\ NodeRuns(ins, ConversionShape, made, r)
    BY <1>10, <2>1
  <2> QED BY <1>1, <1>5, <1>8, <1>10, <2>2, NodeFailsBooks
<1> QED BY <1>2, <1>3, <1>9, <1>10 DEF ConvertInput

(* STORE stores the stream, and no other.                                  *)
LEMMA StoreStores ==
    ASSUME NEW strs \in Seq(Stream), NEW sid, NEW new, new = RTGM_storeStream(strs, sid)
    PROVE  /\ Len(new) = Len(strs)
           /\ \A s \in 1 .. Len(strs) : s = sid => new[s].toStore
           /\ \A s \in 1 .. Len(strs) : s # sid => new[s].toStore = strs[s].toStore
<1>1. Len(new) = Len(strs)
  BY StoreIs
<1>2. ASSUME NEW s \in 1 .. Len(strs)
      PROVE  (s = sid => new[s].toStore) /\ (s # sid => new[s].toStore = strs[s].toStore)
  <2>1. s \in DOMAIN strs /\ strs[s] \in Stream
    BY StreamRanks
  <2>2. new[s] = IF s = sid THEN [strs[s] EXCEPT !.toStore = TRUE] ELSE strs[s]
    BY <2>1 DEF RTGM_storeStream
  <2>3. \A x \in Stream : [x EXCEPT !.toStore = TRUE].toStore = TRUE
    BY DEF Stream
  <2> QED BY <2>1, <2>2, <2>3
<1> QED BY <1>1, <1>2

(* CCTX_runSupervisedGraphID() stores the stream, or calls the function.   *)
LEMMA StartGraphBooks ==
    ASSUME BInv, HInv', StartGraph
    PROVE  BInv'
<1>1. /\ AtGraph("enter") /\ Top.next > Len(Top.ins) /\ HInv
      /\ UNCHANGED <<nodes, phase, sent, segmentVars, sessionVars>>
  BY DEF StartGraph, BInv
<1>2. depth > segmenterDepth /\ ~(depth <= segmenterDepth)
  BY <1>1, FnOver
<1>3. /\ Top \in Frame /\ FrameOK(Top) /\ Top.pc = "enter" /\ EdgesOK(Top) /\ GraphsOK(Top)
      /\ streams \in Seq(Stream) /\ Len(streams) \in Nat /\ depth \in 1 .. Len(stack)
      /\ Top.edges \in Seq(Edge) /\ Top.ins \in SidList /\ FrameHeld(Top, depth, streams)
  BY <1>1, <1>2, TopHolds
<1>4. /\ Top.next \in Nat /\ Len(Top.ins) \in Nat /\ Len(Top.ins) >= 1
      /\ DOMAIN Top.edges = 1 .. Len(Top.edges) /\ Len(Top.edges) = Top.next - 1
  <2>1. Top.ins \in Seq(Nat) /\ Top.ins # <<>>
    BY <1>3 DEF SidList
  <2>2. Len(Top.ins) \in Nat /\ Len(Top.ins) # 0
    BY <2>1, LenProperties, EmptySeq
  <2>3. Top.next \in Nat
    BY <1>3, FrameTypes
  <2>4. DOMAIN Top.edges = 1 .. Len(Top.edges) /\ Len(Top.edges) = Top.next - 1
    BY <1>3, LenProperties DEF FrameOK
  <2>5. Len(Top.ins) >= 1
    BY <2>2
  <2> QED BY <2>2, <2>3, <2>4, <2>5
<1>5. \A s : ~ Waits(Top, s)
  BY <1>1, <1>4 DEF Waits
<1>6. Disciplined => SinglesOK(Top)
  BY <1>3 DEF BInv, SinglesIn, Top, depth
<1>7. "enter" \notin FailLabels
  BY DEF FailLabels
<1>8. CASE Top.graph = "serialStore"
  <2>1. PICK g : g = [Top EXCEPT !.pc = "ok"]
    OBVIOUS
  <2>2. Leaves(g, Top)
    BY <2>1 DEF Leaves
  <2>3. g \in Frame /\ EdgesOK(g) /\ g.pc = "ok" /\ g.graph = Top.graph /\ g.ins = Top.ins
    <3>1. g.pc = "ok" /\ g.graph = Top.graph /\ g.ins = Top.ins
      BY <1>3, <2>1 DEF Frame
    <3> QED BY <1>3, <2>2, <3>1, LeaveFrame
  <2>4. SetTop(g) /\ streams' = RTGM_storeStream(streams, Top.edges[1].sid)
    BY <1>8, <2>1 DEF StartGraph, Goto
  <2>5. PICK sid, new : sid = Top.edges[1].sid /\ new = streams'
    OBVIOUS
  <2>6. /\ Len(new) = Len(streams)
        /\ \A s \in 1 .. Len(streams) : s = sid => new[s].toStore
        /\ \A s \in 1 .. Len(streams) : s # sid => new[s].toStore = streams[s].toStore
    <3>1. streams \in Seq(Stream) /\ new = RTGM_storeStream(streams, sid)
      BY <1>3, <2>4, <2>5
    <3> QED BY <3>1, StoreStores
  <2>7. 1 \in DOMAIN Top.edges /\ Top.edges[1].st = "unassigned"
    <3>1. 1 \in 1 .. Len(Top.edges)
      BY <1>1, <1>4
    <3> QED BY <1>3, <1>4, <3>1 DEF EdgesOK
  <2>8. Owes(Top, sid) /\ sid \in 1 .. Len(streams)
    <3>1. Uses(Top, sid)
      BY <1>3, <2>5, <2>7, FreeLeads
    <3> QED BY <1>3, <3>1 DEF Owes, FrameHeld, Sound
  <2>9. StoreStep(Top, g, streams, new) /\ \A s : ~ Owes(g, s)
    <3>1. \A s \in 1 .. Len(streams) : new[s].toStore = streams[s].toStore \/ Owes(Top, s)
      BY <2>6, <2>8
    <3>2. Len(new) >= Len(streams)
      BY <1>3, <2>6
    <3> QED BY <1>3, <2>2, <3>1, <3>2, LeaveStores
  <2>10. Disciplined => SinglesOK(g)
    <3>1. Open(g) = {}
      BY <2>3 DEF Open
    <3> QED BY <1>6, <2>3, <3>1, KeepSingles DEF SinglesKept
  <2>11. ASSUME Rules
         PROVE  BooksGo(Top, g, Debts(stack, segmenterDepth), nodes, streams, nodes, new,
                        Len(inputs))
    <3>1. SinglesOK(Top)
      BY <1>6, <2>11 DEF Rules
    <3>2. Len(Top.edges) = 1
      <4>1. Top.next <= Len(Top.ins) + 1 /\ Len(Top.ins) = 1
        BY <1>3, <1>8, <3>1 DEF SinglesOK
      <4> QED BY <1>1, <1>4, <4>1
    <3>3. \A i \in Open(Top) : i = 1
      BY <1>4, <3>2 DEF Open
    <3>4. \A s : Leads(Top.edges[1], s) <=> s = sid
      BY <1>3, <2>5, <2>7, FreeLeads
    <3>5. \A s : Owes(Top, s) <=> s = sid
      BY <1>5, <2>8, <3>3, <3>4 DEF Owes, Uses
    <3>6. sid \in Debts(stack, segmenterDepth)
      <4>1. sid \in Nat
        BY <2>8
      <4> QED BY <1>2, <1>3, <2>8, <4>1 DEF Debts, Top, depth
    <3> SUFFICES ASSUME Tidy(Debts(stack, segmenterDepth), nodes, streams, Len(inputs))
                 PROVE  /\ LayoutOK(nodes, new, Len(inputs)) /\ LinksOK(nodes)
                        /\ BooksStep(Top, g, nodes, streams, nodes, new)
      BY DEF BooksGo
    <3>7. LayoutOK(nodes, new, Len(inputs)) /\ LinksOK(nodes)
      BY <2>6 DEF Tidy, LayoutOK, Origin
    <3>8. ~ Consumed(nodes, sid)
      BY <2>8, <3>6 DEF Tidy, AccountsOK
    <3>9. ASSUME NEW s \in 1 .. Len(streams)
          PROVE  \/ Same(Top, g, nodes, streams, nodes, new, s)
                 \/ Settled(Top, g, nodes, new, s)
      <4>1. CASE s = sid
        <5>1. Owes(Top, s) /\ ~ Owes(g, s) /\ new[s].toStore /\ ~ Consumed(nodes, s)
          BY <2>6, <2>8, <2>9, <3>8, <4>1
        <5> QED BY <5>1 DEF Settled
      <4>2. CASE s # sid
        <5>1. ~ Owes(Top, s) /\ ~ Owes(g, s) /\ new[s].toStore = streams[s].toStore
          BY <2>6, <2>9, <3>5, <4>2
        <5> QED BY <5>1 DEF Same
      <4> QED BY <4>1, <4>2
    <3>10. \A s \in Len(streams) + 1 .. Len(new) : FALSE
      BY <1>3, <2>6
    <3> QED BY <3>7, <3>9, <3>10 DEF BooksStep
  <2> QED BY <1>1, <1>2, <1>7, <2>3, <2>4, <2>5, <2>9, <2>10, <2>11, StepBooks
<1>9. CASE Top.graph # "serialStore"
  <2>1. PICK g : g = [Top EXCEPT !.pc = "fn", !.next = 1]
    OBVIOUS
  <2>2. SetTop(g) /\ UNCHANGED streams
    BY <1>9, <2>1 DEF StartGraph
  <2>3. /\ g \in Frame /\ g.pc = "fn" /\ g.edges = Top.edges /\ g.ins = Top.ins
        /\ g.graph = Top.graph /\ g.next = 1
    <3>1. 1 \in Nat \ {0}
      OBVIOUS
    <3> QED BY <1>3, <2>1, <3>1 DEF Frame, PC
  <2>4. Open(g) = Open(Top)
    BY <1>3, <2>3 DEF Open
  <2>5. \A s : Uses(g, s) <=> Uses(Top, s)
    BY <2>3, <2>4 DEF Uses
  <2>6. \A s : Owes(g, s) <=> Owes(Top, s)
    <3>1. \A s : ~ Waits(g, s)
      BY <2>3 DEF Waits
    <3> QED BY <1>5, <2>5, <3>1 DEF Owes
  <2>7. EdgesOK(g)
    BY <1>1, <2>2, <2>3, TopAfter DEF segmentVars
  <2>8. Disciplined => SinglesOK(g)
    <3>1. ASSUME SinglesOK(Top), Top.graph = "compress1" PROVE Len(Top.edges) = 1
      <4>1. Top.next <= Len(Top.ins) + 1 /\ Len(Top.ins) = 1
        BY <1>3, <3>1 DEF SinglesOK
      <4> QED BY <1>1, <1>4, <4>1
    <3> QED BY <1>6, <2>3, <2>4, <2>7, <3>1, KeepSingles DEF SinglesKept
  <2> QED BY <1>1, <1>7, <2>2, <2>3, <2>6, <2>8, LocalBooks
<1> QED BY <1>8, <1>9

(* The edges of a node's inputs lead nowhere, the others where they led,   *)
(* and the new ones to its outputs.                                        *)
LEMMA ProcessOwes ==
    ASSUME NEW t \in Frame, t.pc = "fn", EdgesOK(t), streams \in Seq(Stream), Inside(t),
           NEW list \in EdgeLists(Unassigned(t.edges)), NEW made \in Nat,
           NEW g, Runs(g, t, ProcessEdges(t.edges, list, made)),
           NeedsNew(g, t, list, made), EdgesOK(g)
    PROVE  /\ TakesOver(g, t, Sids(t.edges, list), made, Len(streams))
           /\ TakesAll(g, t, Sids(t.edges, list), made, Len(streams))
           /\ SinglesKept(g, t)
<1> DEFINE old == t.edges
           n == Len(old)
           w == Sids(old, list)
<1>1. old \in Seq(Edge) /\ DOMAIN old = 1 .. n /\ n \in Nat /\ Len(streams) \in Nat
  BY FrameTypes, LenProperties
<1>2. PICK new : new = ProcessEdges(old, list, made) /\ g.edges = new
  BY DEF Runs
<1>a. g.pc = "fn" /\ g.graph = t.graph /\ g.ins = t.ins
  BY DEF Runs
<1>3. /\ DOMAIN new = 1 .. n + made
      /\ \A i \in 1 .. n :
            /\ i \in Range(list) => new[i].st = "processed"
            /\ i \notin Range(list) => new[i] = old[i]
      /\ \A k \in 1 .. made : new[n + k] = NewEdge(Len(streams) + k)
  <2>1. Processed(new, old, list, made)
    BY <1>1, <1>2, ProcessEdgesIs
  <2> QED BY <2>1 DEF Processed
<1>4. \A k \in DOMAIN list : list[k] \in DOMAIN old /\ old[list[k]].st = "unassigned"
  BY ListIs DEF Unassigned
<1>5. \A k \in DOMAIN list : /\ list[k] \in Open(t) /\ Uses(t, old[list[k]].sid)
                             /\ \A s : Leads(old[list[k]], s) <=> s = old[list[k]].sid
  BY <1>4, FreeLeads
<1>6. \A s : s \in Range(w) <=> \E k \in DOMAIN list : s = old[list[k]].sid
  BY SidsAre
<1> HIDE DEF n, old, w
<1>7. \A s \in Range(w) : Uses(t, s)
  BY <1>5, <1>6
<1>8. ASSUME NEW s, Uses(t, s), s \notin Range(w) PROVE Uses(g, s)
  <2>1. PICK i \in Open(t) : Leads(old[i], s)
    BY <1>8 DEF Uses, old
  <2>2. i \notin Range(list)
    <3> SUFFICES ASSUME NEW k \in DOMAIN list, i = list[k] PROVE FALSE
      BY DEF Range
    <3> QED BY <1>5, <1>6, <1>8, <2>1
  <2>3. i \in 1 .. n /\ old[i].st \in {"trigger", "unassigned"}
    BY <1>1 DEF Open, old
  <2>4. i \in DOMAIN new /\ new[i] = old[i]
    BY <1>1, <1>3, <2>2, <2>3
  <2>5. i \in Open(g)
    BY <1>2, <1>a, <2>3, <2>4 DEF Open
  <2> QED BY <1>2, <2>1, <2>4, <2>5 DEF Uses
<1>9. ASSUME NEW s \in Len(streams) + 1 .. Len(streams) + made PROVE Uses(g, s)
  <2>1. PICK k \in 1 .. made : s = Len(streams) + k
    <3>1. s - Len(streams) \in 1 .. made /\ s = Len(streams) + (s - Len(streams))
      BY <1>1
    <3> QED BY <3>1
  <2>2. PICK e : e = NewEdge(Len(streams) + k)
    OBVIOUS
  <2>3. e.st = "unassigned" /\ \A x : Leads(e, x) <=> x = Len(streams) + k
    BY <2>2, NewEdgeIs
  <2>4. n + k \in 1 .. n + made /\ new[n + k] = e
    BY <1>1, <1>3, <2>2
  <2>5. n + k \in Open(g)
    BY <1>2, <1>3, <1>a, <2>3, <2>4 DEF Open
  <2> QED BY <1>2, <2>1, <2>3, <2>4, <2>5 DEF Uses
<1>10. ASSUME NEW s, Uses(g, s)
       PROVE  (Uses(t, s) /\ s \notin Range(w)) \/ s \in Len(streams) + 1 .. Len(streams) + made
  <2>1. \A i \in 1 .. made : Len(streams) + i \in Len(streams) + 1 .. Len(streams) + made
    BY <1>1
  <2>2. \/ Uses(t, s) /\ s \notin Range(w)
        \/ \E i \in 1 .. made : s = Len(streams) + i
    BY <1>10 DEF NeedsNew, w, old
  <2> QED BY <2>1, <2>2
<1>11. \A s : Owes(g, s) <=> Uses(g, s)
  BY <1>a DEF Owes, Waits
<1>12. \A s : Owes(t, s) <=> Uses(t, s)
  BY DEF Owes, Waits
<1>13. TakesOver(g, t, w, made, Len(streams)) /\ TakesAll(g, t, w, made, Len(streams))
  BY <1>7, <1>8, <1>9, <1>10, <1>11, <1>12 DEF TakesOver, TakesAll
<1>14. SinglesKept(g, t)
  <2> SUFFICES ASSUME NEW i \in Open(g)
               PROVE  \/ new[i].st = "unassigned"
                      \/ i \in Open(t) /\ new[i] = t.edges[i]
    BY <1>2 DEF SinglesKept
  <2>1. i \in 1 .. n + made /\ new[i].st \in {"trigger", "unassigned"}
    BY <1>2, <1>3 DEF Open
  <2>2. CASE i \in 1 .. n
    <3>1. new[i] = old[i]
      BY <1>3, <2>1, <2>2
    <3> QED BY <1>1, <2>1, <2>2, <3>1 DEF Open, old
  <2>3. CASE i \notin 1 .. n
    <3>1. i - n \in 1 .. made /\ i = n + (i - n)
      BY <1>1, <2>1, <2>3
    <3>2. new[i] = NewEdge(Len(streams) + (i - n))
      BY <1>3, <3>1
    <3> QED BY <3>2, NewEdgeIs
  <2> QED BY <2>2, <2>3
<1> QED BY <1>13, <1>14 DEF w, old

(* Different edges lead to different streams.                              *)
LEMMA SidsOnce ==
    ASSUME NEW t, t.pc = "fn", EdgesOK(t), ~ RepeatEdges,
           NEW list \in EdgeLists(Unassigned(t.edges))
    PROVE  Once(Sids(t.edges, list))
<1> DEFINE old == t.edges
           w == Sids(old, list)
<1>1. \A a, b \in DOMAIN list : list[a] = list[b] => a = b
  <2>1. CASE \E i \in Unassigned(old) : list = <<i>>
    <3>1. DOMAIN list = {1}
      BY <2>1
    <3> QED BY <3>1
  <2>2. CASE \E e \in Unassigned(old) \X Unassigned(old) : list = e /\ e[1] # e[2]
    <3>1. DOMAIN list = {1, 2} /\ list[1] # list[2]
      BY <2>2
    <3> QED BY <3>1
  <2> QED BY <2>1, <2>2 DEF EdgeLists
<1>2. \A k \in DOMAIN list : list[k] \in DOMAIN old /\ old[list[k]].st = "unassigned"
  BY ListIs DEF Unassigned
<1>3. \A k \in DOMAIN list : list[k] \in Open(t) /\ Leads(old[list[k]], old[list[k]].sid)
  BY <1>2, FreeLeads
<1>4. DOMAIN w = DOMAIN list /\ \A k \in DOMAIN list : w[k] = old[list[k]].sid
  BY DEF Sids
<1> HIDE DEF w
<1>5. ASSUME NEW a \in DOMAIN list, NEW b \in DOMAIN list, w[a] = w[b] PROVE a = b
  <2>1. list[a] = list[b]
    BY <1>3, <1>4, <1>5 DEF EdgesOK
  <2> QED BY <1>1, <2>1
<1> QED BY <1>4, <1>5 DEF Once, w

(* ZL_Edge_runMultiInputNode(), with all its results.                      *)
LEMMA RunNodeBooks ==
    ASSUME BInv, HInv', ZL_Edge_runMultiInputNode
    PROVE  BInv'
<1>1. /\ AtGraph("fn") /\ Top.graph \in UserGraphs /\ HInv
      /\ UNCHANGED <<phase, sent, segmentVars, sessionVars>>
  BY DEF ZL_Edge_runMultiInputNode, AtUserFn, BInv
<1>2. depth > segmenterDepth /\ ~(depth <= segmenterDepth)
  BY <1>1, FnOver
<1>3. /\ Top \in Frame /\ FrameOK(Top) /\ Top.pc = "fn" /\ EdgesOK(Top) /\ GraphsOK(Top)
      /\ Top.edges \in Seq(Edge) /\ Top.edges # <<>> /\ streams \in Seq(Stream)
      /\ FrameHeld(Top, depth, streams) /\ StackOK(stack, Len(nodes)) /\ stack # <<>>
      /\ Len(streams) \in Nat /\ depth \in 1 .. Len(stack) /\ GraphOK(nodes, streams)
  BY <1>1, <1>2, TopHolds DEF FrameOK
<1>5. PICK list \in EdgeLists(Unassigned(Top.edges)), shape \in NodeShapes :
        \E made \in 0 .. shape.out1s + shape.vos :
          \/ /\ NodeRuns(Sids(Top.edges, list), shape, made, "ok")
             /\ SetTop([Top EXCEPT !.edges = ProcessEdges(@, list, made)])
          \/ /\ \/ NodeRuns(Sids(Top.edges, list), shape, made, "failed")
                \/ /\ made = 0
                   /\ \E r \in {"noStream", "noNode"} :
                        NodeRuns(Sids(Top.edges, list), shape, made, r)
             /\ Goto("err") \/ (Swallow /\ UNCHANGED stack)
  BY DEF ZL_Edge_runMultiInputNode
<1>6. PICK ins : ins = Sids(Top.edges, list)
  OBVIOUS
<1>7. PICK made \in 0 .. shape.out1s + shape.vos :
          \/ /\ NodeRuns(ins, shape, made, "ok")
             /\ SetTop([Top EXCEPT !.edges = ProcessEdges(@, list, made)])
          \/ /\ \E r \in {"failed", "noStream", "noNode"} : NodeRuns(ins, shape, made, r)
             /\ Goto("err") \/ (Swallow /\ UNCHANGED stack)
  BY <1>5, <1>6
<1>8. shape \in NodeShape /\ made \in Nat
  <2>1. shape \in NodeShape
    BY DEF NodeShape
  <2>2. shape.out1s \in Nat /\ shape.vos \in Nat
    BY <2>1 DEF NodeShape
  <2> QED BY <2>1, <2>2
<1>9. ins \in Seq(Nat)
  <2>1. Unassigned(Top.edges) \in SUBSET DOMAIN Top.edges
    BY DEF Unassigned
  <2> QED BY <1>3, <1>6, <2>1, SidsOK DEF SidList
<1>10. Disciplined => Once(ins)
  BY <1>3, <1>6, SidsOnce DEF Disciplined
<1>11. \A s : Uses(Top, s) => s \in 1 .. Len(streams)
  BY <1>3 DEF FrameHeld, Sound
<1>12. Disciplined => SinglesOK(Top)
  BY <1>3 DEF BInv, SinglesIn, Top, depth
<1>13. "fn" \notin FailLabels
  BY DEF FailLabels
<1>14. ASSUME NodeRuns(ins, shape, made, "ok"),
              SetTop([Top EXCEPT !.edges = ProcessEdges(@, list, made)])
       PROVE  BInv'
  <2>1. PICK es : es = ProcessEdges(Top.edges, list, made)
    OBVIOUS
  <2>2. es \in Seq(Edge)
    BY <1>3, <1>8, <2>1, ProcessEdgesOK
  <2>3. PICK g : g = [Top EXCEPT !.edges = es]
    OBVIOUS
  <2>4. SetTop(g)
    BY <1>3, <1>14, <2>1, <2>3 DEF Frame
  <2>5. /\ g \in Frame /\ g.pc = "fn" /\ g.edges = es /\ g.ins = Top.ins
        /\ g.graph = Top.graph /\ g.next = Top.next
    BY <1>3, <2>2, <2>3 DEF Frame
  <2>6. /\ EdgesOK(g) /\ TakesOver(g, Top, ins, made, Len(streams)) /\ SinglesKept(g, Top)
        /\ TakesAll(g, Top, ins, made, Len(streams))
    <3>0. PICK t : t = Top
      OBVIOUS
    <3>1. Runs(g, t, ProcessEdges(t.edges, list, made))
      BY <2>1, <2>5, <3>0 DEF Runs
    <3>2. /\ t \in Frame /\ t.pc = "fn" /\ t.graph \in UserGraphs /\ EdgesOK(t)
          /\ GraphsOK(t) /\ streams \in Seq(Stream) /\ made \in Nat
          /\ list \in EdgeLists(Unassigned(t.edges)) /\ Inside(t)
      BY <1>1, <1>3, <1>8, <1>11, <3>0 DEF Inside
    <3>3. EdgesOK(g) /\ NeedsNew(g, t, list, made)
      BY <3>1, <3>2, ProcessHeld
    <3>4. /\ TakesOver(g, t, Sids(t.edges, list), made, Len(streams)) /\ SinglesKept(g, t)
          /\ TakesAll(g, t, Sids(t.edges, list), made, Len(streams))
      BY <3>1, <3>2, <3>3, ProcessOwes
    <3> QED BY <1>6, <3>0, <3>3, <3>4
  <2>7. Disciplined => SinglesOK(g)
    <3>1. (SinglesOK(Top) => g.next = 1) /\ g.graph # "compress1"
      BY <1>1, <1>3, <2>5 DEF SinglesOK, UserGraphs
    <3> QED BY <1>12, <2>5, <2>6, <3>1, KeepSingles
  <2> QED BY <1>1, <1>2, <1>8, <1>9, <1>10, <1>13, <1>14, <2>4, <2>5, <2>6, <2>7, NodeBooks
<1>15. ASSUME NEW r \in {"failed", "noStream", "noNode"}, NodeRuns(ins, shape, made, r),
              Goto("err")
       PROVE  BInv'
  <2>1. r \in {"ok", "failed", "noStream", "noNode"}
    OBVIOUS
  <2> QED BY <1>1, <1>8, <1>9, <1>15, <2>1, NodeFailsBooks
<1>16. ASSUME NEW r \in {"failed", "noStream", "noNode"}, NodeRuns(ins, shape, made, r),
              Swallow, UNCHANGED stack
       PROVE  BInv'
  <2>1. PICK g : g = Top
    OBVIOUS
  <2>2. SetTop(g)
    <3>1. stack = [stack EXCEPT ![Len(stack)] = stack[Len(stack)]]
      BY <1>3 DEF StackOK
    <3> QED BY <1>16, <2>1, <3>1 DEF SetTop, Top, depth
  <2>3. ~ Disciplined /\ ~ Rules
    BY <1>16 DEF Disciplined, Rules
  <2>4. Stays(streams, streams')
    <3>1. r \in {"ok", "failed", "noStream", "noNode"}
      OBVIOUS
    <3> QED BY <1>3, <1>8, <1>9, <1>16, <3>1, NodeMakes
  <2>5. \A s : Owes(Top, s) => s \in 1 .. Len(streams)
    BY <1>3, <1>11 DEF Owes, Waits
  <2>6. StoreStep(Top, g, streams, streams')
    BY <2>1, <2>4, <2>5 DEF StoreStep, Stays
  <2>7. g \in Frame
    BY <1>3, <2>1
  <2> QED BY <1>1, <2>2, <2>3, <2>6, <2>7, StepBooks
<1> QED BY <1>7, <1>14, <1>15, <1>16

(* The library's graph for one stream, down to its codec.                  *)
LEMMA Compress1Books ==
    ASSUME BInv, HInv', ZL_GRAPH_COMPRESS1
    PROVE  BInv'
<1>1. /\ AtGraph("fn") /\ Top.graph = "compress1" /\ HInv
      /\ UNCHANGED <<phase, sent, segmentVars, sessionVars>>
  BY DEF ZL_GRAPH_COMPRESS1, BInv
<1>2. depth > segmenterDepth
  BY <1>1, FnOver
<1>3. /\ Top \in Frame /\ FrameOK(Top) /\ Top.pc = "fn" /\ EdgesOK(Top) /\ GraphsOK(Top)
      /\ Top.edges \in Seq(Edge) /\ Top.edges # <<>> /\ streams \in Seq(Stream)
      /\ Len(streams) \in Nat /\ FrameHeld(Top, depth, streams) /\ depth \in 1 .. Len(stack)
  BY <1>1, <1>2, TopHolds DEF FrameOK
<1>5. PICK e : e = Top.edges[1]
  OBVIOUS
<1>6. 1 \in DOMAIN Top.edges /\ e \in Edge
  <2>1. 1 \in 1 .. Len(Top.edges)
    BY <1>3
  <2> QED BY <1>3, <1>5, <2>1, ElementOfSeq, LenProperties
<1>7. Uses(Top, e.sid) /\ e.sid \in Nat /\ \A s : Leads(e, s) <=> s = e.sid
  <2>1. Top.edges[1].st = "unassigned"
    BY <1>1, <1>3, <1>6 DEF EdgesOK, UserGraphs
  <2> QED BY <1>3, <1>5, <1>6, <2>1, FreeLeads, EdgeTypes
<1>8. PICK ins : ins = <<e.sid>>
  OBVIOUS
<1>9. ins \in Seq(Nat) /\ Once(ins) /\ \A s : s \in Range(ins) <=> s = e.sid
  <2>1. DOMAIN ins = {1} /\ ins[1] = e.sid
    BY <1>8
  <2> QED BY <1>7, <1>8, <2>1, Singleton DEF Range, Once
<1>10. e.sid \in 1 .. Len(streams)
  BY <1>3, <1>7 DEF FrameHeld, Sound
<1>a. Disciplined => SinglesOK(Top)
  BY <1>3 DEF BInv, SinglesIn, Top, depth
<1>b. \A s : Owes(Top, s) <=> Uses(Top, s)
  BY <1>3 DEF Owes, Waits
<1>11. ASSUME SetTop([Top EXCEPT !.edges = AllTo(@, "store1"), !.pc = "succ"]),
              UNCHANGED <<nodes, streams>>
       PROVE  BInv'
  <2>1. PICK to : to = "store1"
    OBVIOUS
  <2>2. PICK g : SentOn(g, Top, to)
    BY DEF SentOn
  <2>3. g = [Top EXCEPT !.edges = AllTo(@, "store1"), !.pc = "succ"]
    BY <1>3, <2>1, <2>2 DEF SentOn, Frame
  <2>4. SetTop(g) /\ to \in Library /\ Top.graph \in Library
    BY <1>1, <1>11, <2>1, <2>3 DEF Library
  <2>5. UNCHANGED <<nodes, streams, phase, sent, segmentVars, sessionVars>>
    BY <1>1, <1>11
  <2> QED BY <1>1, <2>2, <2>4, <2>5, AllToBooks
<1>12. ASSUME NEW r \in {"failed", "noStream", "noNode"},
              NodeRuns(ins, ConversionShape, 0, r), Goto("err")
       PROVE  BInv'
  <2>1. PICK made \in Nat : made = 0
    OBVIOUS
  <2>2. /\ r \in {"ok", "failed", "noStream", "noNode"} /\ ConversionShape \in NodeShape
        /\ NodeRuns(ins, ConversionShape, made, r)
    BY <1>12, <2>1, ConversionType
  <2> QED BY <1>1, <1>9, <1>12, <2>2, NodeFailsBooks
<1>13. ASSUME NodeRuns(ins, ConversionShape, 1, "ok"), NEW es,
              es = <<[e EXCEPT !.st = "processed"]>>
                     \o AllTo(<<NewEdge(Len(streams) + 1)>>, "store1"),
              SetTop([Top EXCEPT !.edges = es, !.pc = "succ"])
       PROVE  BInv'
  <2>1. PICK a, b, n : /\ a = [e EXCEPT !.st = "processed"] /\ n = NewEdge(Len(streams) + 1)
                       /\ b = AllTo(<<n>>, "store1")
    OBVIOUS
  <2>2. a \in Edge /\ a.st = "processed"
    BY <1>6, <2>1 DEF Edge, EdgeState
  <2>3. /\ n \in Edge /\ n.with = <<Len(streams) + 1>>
        /\ \A s : Leads(n, s) <=> s = Len(streams) + 1
    BY <1>3, <2>1, NewEdgeIs, NewEdgeOK
  <2>4. /\ <<n>> \in Seq(Edge) /\ <<n>> # <<>> /\ DOMAIN <<n>> = {1} /\ <<n>>[1] = n
    BY <2>3, Singleton
  <2>5. /\ b \in Seq(Edge) /\ DOMAIN b = {1} /\ b[1].st = "trigger" /\ b[1].with = n.with
    <3>1. "store1" \in Graphs
      BY DEF Graphs
    <3>2. PICK es1 : es1 = <<n>>
      OBVIOUS
    <3>3. es1 \in Seq(Edge) /\ DOMAIN es1 = {1} /\ es1[1] = n /\ 1 \in DOMAIN es1
      BY <2>4, <3>2
    <3>4. b = AllTo(es1, "store1")
      BY <2>1, <3>2
    <3>5. b \in Seq(Edge)
      BY <3>1, <3>3, <3>4, AllToOK
    <3>6. /\ DOMAIN b = DOMAIN es1
          /\ \A i \in DOMAIN es1 : b[i].st = "trigger" /\ b[i].with = es1[i].with
      BY <3>1, <3>3, <3>4, AllToIs
    <3> QED BY <3>3, <3>5, <3>6
  <2>6. /\ es \in Seq(Edge) /\ DOMAIN es = {1, 2} /\ es[1] = a /\ es[2] = b[1]
    <3>1. <<a>> \in Seq(Edge) /\ Len(<<a>>) = 1 /\ <<a>>[1] = a
      BY <2>2, Singleton
    <3>2. Len(b) = 1
      <4>1. PICK k : k = Len(b)
        OBVIOUS
      <4>2. k \in Nat /\ DOMAIN b = 1 .. k
        BY <2>5, <4>1, LenProperties
      <4>3. 1 \in 1 .. k
        BY <2>5, <4>2
      <4>4. ~ (k >= 2)
        <5> SUFFICES ASSUME k >= 2 PROVE FALSE
          OBVIOUS
        <5>1. 2 \in 1 .. k
          BY <4>2
        <5> QED BY <2>5, <4>2, <5>1
      <4> QED BY <4>1, <4>2, <4>3, <4>4
    <3>3. es = <<a>> \o b
      BY <1>13, <2>1
    <3>4. /\ <<a>> \o b \in Seq(Edge) /\ Len(<<a>> \o b) = Len(<<a>>) + Len(b)
          /\ \A i \in 1 .. Len(<<a>>) + Len(b) :
                (<<a>> \o b)[i] = IF i <= Len(<<a>>) THEN <<a>>[i] ELSE b[i - Len(<<a>>)]
      BY <2>5, <3>1, ConcatProperties
    <3>5. es \in Seq(Edge) /\ Len(es) = 2 /\ es[1] = a /\ es[2] = b[1]
      BY <3>1, <3>2, <3>3, <3>4
    <3> QED BY <3>5, LenProperties
  <2>7. PICK g : g = [Top EXCEPT !.edges = es, !.pc = "succ"]
    OBVIOUS
  <2>8. SetTop(g)
    BY <1>13, <2>7
  <2>9. /\ g \in Frame /\ g.pc = "succ" /\ g.edges = es /\ g.ins = Top.ins
        /\ g.graph = Top.graph /\ g.next = Top.next
    BY <1>3, <2>6, <2>7 DEF Frame, PC
  <2>10. EdgesOK(g)
    BY <1>1, <2>8, <2>9, TopAfter DEF segmentVars
  <2>11. /\ \A i \in Open(g) : i = 2 /\ g.edges[i].with = <<Len(streams) + 1>>
         /\ Top.next = 1 => 2 \in Open(g)
         /\ \A s : Leads(es[2], s) <=> s = Len(streams) + 1
    <3>1. Open(g) \subseteq {2}
      BY <2>2, <2>6, <2>9 DEF Open
    <3>2. Top.next = 1 => 2 \in Open(g)
      BY <2>5, <2>6, <2>9 DEF Open
    <3> QED BY <2>3, <2>5, <2>6, <2>9, <3>1, <3>2 DEF Leads
  <2>12. \A s : Uses(g, s) => s = Len(streams) + 1
    BY <2>9, <2>11 DEF Uses
  <2>13. \A s : Owes(g, s) <=> Uses(g, s)
    BY <2>9 DEF Owes, Waits
  <2>14. PICK m \in Nat, made \in Nat : m = Len(streams) /\ made = 1
    BY <1>3
  <2>15. /\ \A s : s \in m + 1 .. m + made <=> s = Len(streams) + 1
         /\ e.sid # Len(streams) + 1
    BY <1>3, <1>10, <2>14
  <2>16. TakesOver(g, Top, ins, made, m)
    BY <1>7, <1>9, <1>b, <2>12, <2>13, <2>15 DEF TakesOver
  <2>17. ASSUME Disciplined PROVE TakesAll(g, Top, ins, made, m)
    <3>1. Top.next = 1 /\ Len(Top.edges) = 1
      BY <1>1, <1>3, <1>a, <2>17 DEF SinglesOK
    <3>2. \A i \in Open(Top) : i = 1
      <4>1. DOMAIN Top.edges = 1 .. 1
        BY <1>3, <3>1, LenProperties
      <4> QED BY <4>1 DEF Open
    <3>3. \A s : Uses(Top, s) => s = e.sid
      BY <1>5, <1>7, <3>2 DEF Uses
    <3>4. Uses(g, Len(streams) + 1)
      BY <2>9, <2>11, <3>1 DEF Uses
    <3> QED BY <1>9, <1>b, <2>13, <2>15, <3>3, <3>4 DEF TakesAll
  <2>18. Disciplined => SinglesOK(g)
    <3>1. ASSUME NEW i \in Open(g) PROVE Len(g.edges[i].with) = 1
      <4>1. PICK x : x = Len(streams) + 1
        OBVIOUS
      <4>2. g.edges[i].with = <<x>> /\ Len(<<x>>) = 1
        BY <2>11, <4>1
      <4> QED BY <4>2
    <3> QED BY <1>a, <2>9, <2>10, <3>1, KeepSingles DEF SinglesKept
  <2>19. /\ "fn" \notin FailLabels /\ NodeRuns(ins, ConversionShape, made, "ok")
         /\ ConversionShape \in NodeShape
    BY <1>13, <2>14, ConversionType DEF FailLabels
  <2> HIDE <1>13
  <2> QED BY <1>1, <1>2, <1>9, <2>8, <2>9, <2>14, <2>16, <2>17, <2>18, <2>19, NodeBooks
<1>14. \/ /\ SetTop([Top EXCEPT !.edges = AllTo(@, "store1"), !.pc = "succ"])
          /\ UNCHANGED <<nodes, streams>>
       \/ /\ NodeRuns(ins, ConversionShape, 1, "ok")
          /\ SetTop([Top EXCEPT
                       !.edges = <<[e EXCEPT !.st = "processed"]>>
                         \o AllTo(<<NewEdge(Len(streams) + 1)>>, "store1"),
                       !.pc = "succ"])
       \/ /\ \E r \in {"failed", "noStream", "noNode"} :
                NodeRuns(ins, ConversionShape, 0, r)
          /\ Goto("err")
  BY <1>5, <1>8 DEF ZL_GRAPH_COMPRESS1
<1> QED BY <1>11, <1>12, <1>13, <1>14

-----------------------------------------------------------------------------
(* Calls and returns.                                                      *)

(* A frame that gives up, and one that starts over, fit.                   *)
LEMMA QuietSingles ==
    ASSUME NEW t, SinglesOK(t), NEW g, Open(g) = {}, g.pc \notin {"enter", "fn"},
           g.graph = t.graph, g.ins = t.ins
    PROVE  SinglesOK(g)
BY DEF SinglesOK

LEMMA NewSingles ==
    ASSUME NEW g \in Frame, g.edges = <<>>, g.pc = "enter", g.next = 1,
           g.graph \in {"compress1", "serialStore"} => Len(g.ins) = 1
    PROVE  SinglesOK(g)
<1>1. Len(g.ins) \in Nat
  BY FrameTypes, LenProperties DEF SidList
<1>2. Open(g) = {}
  BY DEF Open
<1>3. g.next <= Len(g.ins) + 1
  BY <1>1
<1> QED BY <1>2, <1>3 DEF SinglesOK

(* One more frame, or another one on top.                                  *)
LEMMA PushSingles ==
    ASSUME NEW st \in Seq(Frame), SinglesIn(st), NEW f \in Frame, SinglesOK(f)
    PROVE  SinglesIn(Append(st, f))
<1>1. /\ Len(st) \in Nat /\ Len(Append(st, f)) = Len(st) + 1 /\ Append(st, f)[Len(st) + 1] = f
      /\ \A d \in 1 .. Len(st) : Append(st, f)[d] = st[d]
  BY AppendProperties, LenProperties
<1>2. \A d \in 1 .. Len(st) + 1 : d = Len(st) + 1 \/ d \in 1 .. Len(st)
  BY <1>1
<1> QED BY <1>1, <1>2 DEF SinglesIn

LEMMA TopSingles ==
    ASSUME NEW st \in Seq(Frame), st # <<>>, SinglesIn(st), NEW f \in Frame, SinglesOK(f),
           NEW new, OnTop(new, st, f)
    PROVE  SinglesIn(new)
<1>1. Len(st) \in Nat /\ Len(st) # 0 /\ Len(st) \in 1 .. Len(st)
  BY LenProperties, EmptySeq
<1>2. Len(new) = Len(st) /\ \A j \in 1 .. Len(st) : new[j] = IF j = Len(st) THEN f ELSE st[j]
  BY <1>1, ExceptSeq DEF OnTop
<1> QED BY <1>2 DEF SinglesIn

(* CCTX_triggerBackupMode() is only called in permissive mode.             *)
LEMMA TriggerBackupBooks ==
    ASSUME BInv, HInv', CCTX_triggerBackupMode
    PROVE  BInv'
<1>1. /\ AtGraph("err") /\ HInv /\ permissive /\ permissive' = permissive /\ phase = "run"
      /\ phase' = phase /\ sent' = sent
  BY DEF CCTX_triggerBackupMode, MayFallBack, sessionVars, AtGraph, BInv
<1>2. /\ stack \in Seq(Frame) /\ stack # <<>> /\ Top \in Frame
  BY <1>1, TopHolds DEF StackOK
<1>3. PICK g : g = [Top EXCEPT !.graph = "generic", !.mode = "backup", !.pc = "enter",
                               !.edges = <<>>, !.next = 1, !.status = FALSE]
  OBVIOUS
<1>4. SetTop(g)
  BY <1>3 DEF CCTX_triggerBackupMode
<1>5. /\ g \in Frame /\ g.edges = <<>> /\ g.pc = "enter" /\ g.next = 1 /\ g.graph = "generic"
  <2>1. <<>> \in Seq(Edge) /\ 1 \in Nat \ {0}
    BY EmptySeq
  <2> QED BY <1>2, <1>3, <2>1 DEF Frame, PC, Mode, Graphs
<1>6. SinglesOK(g)
  BY <1>5, NewSingles
<1>7. OnTop(stack', stack, g)
  BY <1>4 DEF OnTop, SetTop, depth
<1>8. Disciplined => SinglesIn(stack')
  BY <1>2, <1>5, <1>6, <1>7, TopSingles DEF BInv
<1>9. SentInv'
  BY <1>1 DEF BInv, SentInv
<1> QED BY <1>1, <1>8, <1>9 DEF BInv, UInv

(* An error goes to the caller.                                            *)
LEMMA ErrorBooks ==
    ASSUME HInv', NEW STATE callers, callers \in Seq(Frame), segmenterDepth \in Nat,
           ReturnTo(callers, "err"), sent' = 0, UNCHANGED <<permissive, segmenterDepth>>,
           ~ permissive => Unstored(Debts(callers, segmenterDepth), streams'),
           Disciplined => SinglesIn(callers)
    PROVE  BInv'
<1>1. Len(callers) \in Nat /\ (callers = <<>> <=> Len(callers) = 0)
  BY LenProperties, EmptySeq
<1>2. SentInv'
  BY DEF SentInv
<1>3. phase' \notin {"start", "flush", "graph", "store"}
  BY DEF ReturnTo
<1>4. CASE Len(callers) = 0
  <2>1. stack' = callers /\ phase' = "err"
    BY <1>4 DEF ReturnTo
  <2>2. UInv'
    BY <1>3, <2>1 DEF UInv
  <2>3. Disciplined => SinglesIn(stack')
    BY <2>1
  <2>4. CutInv' /\ BooksInv'
    BY <2>1 DEF CutInv, BooksInv, Going
  <2> QED BY <1>2, <2>2, <2>3, <2>4 DEF BInv
<1>5. CASE Len(callers) # 0
  <2>1. PICK t, g : t = callers[Len(callers)] /\ g = Failed(t)
    OBVIOUS
  <2>2. t \in Frame
    BY <1>1, <1>5, <2>1, ElementOfSeq
  <2>3. /\ g \in Frame /\ g.pc \in FailLabels /\ g.graph = t.graph /\ g.ins = t.ins
    BY <2>1, <2>2 DEF Failed, Frame, PC, FailLabels
  <2>4. OnTop(stack', callers, g) /\ phase' = "run"
    BY <1>5, <2>1 DEF ReturnTo, OnTop
  <2>5. g.pc \notin {"enter", "fn", "succ"} /\ Open(g) = {}
    BY <2>3 DEF FailLabels, Open
  <2>6. UInv'
    <3>1. Debts(stack', segmenterDepth) \subseteq Debts(callers, segmenterDepth)
      BY <1>1, <1>5, <2>3, <2>4, <2>5, FailDebts
    <3> QED BY <1>3, <3>1 DEF UInv, Unstored
  <2>7. Disciplined => SinglesIn(stack')
    <3>1. Disciplined => SinglesOK(t)
      BY <1>1, <1>5, <2>1 DEF SinglesIn
    <3>2. Disciplined => SinglesOK(g)
      BY <2>3, <2>5, <3>1, QuietSingles
    <3> QED BY <1>1, <1>5, <2>3, <2>4, <3>2, TopSingles
  <2>8. ~ Going'
    <3>1. Top' = g
      <4>1. Len(stack') = Len(callers) /\ stack'[Len(callers)] = g
        BY <1>1, <1>5, <2>3, <2>4, ExceptSeq DEF OnTop
      <4> QED BY <4>1 DEF Top, depth
    <3> QED BY <2>3, <3>1 DEF Going
  <2>9. CutInv' /\ BooksInv'
    BY <2>4, <2>8 DEF CutInv, BooksInv
  <2> QED BY <1>2, <2>6, <2>7, <2>9 DEF BInv
<1> QED BY <1>4, <1>5

(* What the callers of CCTX_runSuccessor() owe, and what they give up to   *)
(* the graph that it runs.                                                 *)
CallDebts(callers, ins, sd) == Debts(callers, sd) \cup Range(ins)

(* CCTX_runSuccessor() refuses, enters a segmenter, or enters a graph.     *)
LEMMA RunSuccessorBooks ==
    ASSUME HInv', NEW STATE callers, NEW STATE nds, NEW STATE strs, NEW STATE graph,
           NEW STATE ins, GraphOK(nds, strs), callers \in Seq(Frame),
           graph \in Graphs, ins \in SidList, segmenterDepth \in Nat,
           segmenterDepth <= Len(callers), \A s \in Range(ins) : s \in 1 .. Len(strs),
           \A s \in Debts(callers, segmenterDepth) : s \in 1 .. Len(strs),
           CCTX_runSuccessor(callers, nds, strs, graph, ins), sent = 0,
           UNCHANGED <<sent, numSegments, sessionVars>>, numSegments \in Nat,
           ~ permissive => Unstored(CallDebts(callers, ins, segmenterDepth), strs),
           Disciplined =>
              SinglesIn(callers) /\ (graph \in {"compress1", "serialStore"} => Len(ins) = 1),
           Rules /\ segmenterDepth # 0 => numChunks <= numSegments,
           Rules => Books(CallDebts(callers, ins, segmenterDepth), nds, strs, Len(inputs))
    PROVE  BInv'
<1> DEFINE d == Len(callers) + 1
           segmentable == IsSegmentable(nds, ins)
<1>1. /\ nds \in Seq(Node) /\ Len(nds) \in Nat /\ strs \in Seq(Stream) /\ Len(strs) \in Nat
      /\ Len(callers) \in Nat /\ d \in Nat /\ segmentable \in BOOLEAN
  <2>1. Len(callers) \in Nat
    BY LenProperties
  <2> QED BY <2>1, GraphTypes DEF IsSegmentable
<1>2. sent' = 0 /\ permissive' = permissive /\ inputs' = inputs
  BY DEF sessionVars
<1>3. SentInv'
  BY <1>2 DEF SentInv
<1>4. ASSUME ReturnTo(callers, "err"), streams' = strs, UNCHANGED <<segmenterDepth, numChunks>>
      PROVE  BInv'
  <2>1. ~ permissive => Unstored(Debts(callers, segmenterDepth), streams')
    BY <1>4 DEF CallDebts, Unstored
  <2> QED BY <1>2, <1>4, <2>1, ErrorBooks
<1>5. CASE graph = "segmenter" /\ segmentable
  <2>1. PICK f : f = NewFrame("segmenter", ins, TRUE, nds, "normal", "seg")
    OBVIOUS
  <2>2. f \in Frame /\ f.edges = <<>> /\ f.graph = "segmenter" /\ f.ins = ins /\ f.pc = "seg"
    <3>1. "segmenter" \in Graphs /\ "normal" \in Mode /\ "seg" \in PC /\ TRUE \in BOOLEAN
      BY DEF Graphs, Mode, PC
    <3>2. <<>> \in Seq(Edge)
      BY EmptySeq
    <3> QED BY <1>1, <2>1, <3>1, <3>2 DEF NewFrame, Frame
  <2>3. ASSUME stack' = Append(callers, f), segmenterDepth' = d, phase' = "run", numChunks' = 0
        PROVE  BInv'
    <3>1. Len(stack') = d /\ stack'[d] = f
      BY <2>2, <2>3, AppendProperties
    <3>2. Debts(stack', segmenterDepth') = {}
      <4>1. PICK st, sd : st = stack' /\ sd = segmenterDepth'
        OBVIOUS
      <4>2. Len(st) \in Nat /\ sd \in Nat /\ Len(st) <= sd
        BY <1>1, <2>3, <3>1, <4>1
      <4> QED BY <4>1, <4>2, NoDebts
    <3>3. UInv'
      BY <2>3, <3>2 DEF UInv, Unstored
    <3>4. SinglesOK(f)
      BY <2>2 DEF SinglesOK, Open
    <3>5. Disciplined => SinglesIn(stack')
      BY <2>2, <2>3, <3>4, PushSingles
    <3>6. depth' = d /\ Top' = f
      BY <3>1 DEF depth, Top
    <3>7. CutInv'
      <4>1. numChunks' <= numSegments'
        BY <2>3
      <4> QED BY <2>2, <2>3, <3>6, <4>1 DEF CutInv
    <3>8. BooksInv'
      BY <1>1, <2>3, <3>6 DEF BooksInv
    <3> QED BY <1>3, <3>3, <3>5, <3>7, <3>8 DEF BInv
  <2>4. CASE DepthExceeded(d)
    BY <1>4, <2>4 DEF CCTX_runSuccessor
  <2>5. CASE ~ DepthExceeded(d)
    BY <1>4, <1>5, <2>1, <2>3, <2>5 DEF CCTX_runSuccessor, CCTX_runSegmenter
  <2> QED BY <2>4, <2>5
<1>6. CASE DepthExceeded(d) \/ (graph = "segmenter" /\ ~ segmentable)
  BY <1>4, <1>6 DEF CCTX_runSuccessor
<1>7. CASE ~ DepthExceeded(d) /\ graph # "segmenter"
  <2>1. PICK f : f = IF IsSmall(strs, graph, ins)
                     THEN NewFrame("store1", ins, segmentable, nds, "small", "enter")
                     ELSE NewFrame(graph, ins, segmentable, nds, "normal", "enter")
    OBVIOUS
  <2>2. /\ stack' = Append(callers, f) /\ nodes' = nds
        /\ streams' = RTGM_guardRTStream(strs, ins, d) /\ phase' = "run"
        /\ UNCHANGED <<segmenterDepth, numChunks>>
    BY <1>7, <2>1 DEF CCTX_runSuccessor
  <2>3. /\ f \in Frame /\ f.edges = <<>> /\ f.ins = ins /\ f.pc = "enter" /\ f.next = 1
        /\ f.graph = "store1" \/ f.graph = graph
    <3>1. /\ "store1" \in Graphs /\ "small" \in Mode /\ "normal" \in Mode /\ "enter" \in PC
      BY DEF Graphs, Mode, PC
    <3>2. PICK b \in BOOLEAN : b = segmentable
      BY <1>1
    <3>3. PICK f1, f2 : /\ f1 = NewFrame("store1", ins, b, nds, "small", "enter")
                        /\ f2 = NewFrame(graph, ins, b, nds, "normal", "enter")
      OBVIOUS
    <3>4. /\ f1 \in Frame /\ f1.edges = <<>> /\ f1.ins = ins /\ f1.pc = "enter"
          /\ f1.graph = "store1" /\ f1.next = 1
      BY <1>1, <3>1, <3>3, EnterFrame DEF NewFrame
    <3>5. /\ f2 \in Frame /\ f2.edges = <<>> /\ f2.ins = ins /\ f2.pc = "enter"
          /\ f2.graph = graph /\ f2.next = 1
      BY <1>1, <3>1, <3>3, EnterFrame DEF NewFrame
    <3>6. f = f1 \/ f = f2
      BY <2>1, <3>2, <3>3
    <3> QED BY <3>4, <3>5, <3>6
  <2>4. /\ Len(stack') = d /\ stack'[d] = f /\ depth' = d /\ Top' = f
    BY <2>2, <2>3, AppendProperties DEF depth, Top
  <2>5. Debts(stack', segmenterDepth) = CallDebts(callers, ins, segmenterDepth)
    BY <2>2, <2>3, PushDebts DEF CallDebts
  <2>6. PICK strs2 : strs2 = streams'
    OBVIOUS
  <2>7. Len(strs2) = Len(strs) /\ \A s \in 1 .. Len(strs) : strs2[s].toStore = strs[s].toStore
    <3>1. Len(strs2) = Len(strs) /\ Stays(strs, strs2)
      <4> HIDE DEF d
      <4> QED BY <1>1, <2>2, <2>6, GuardStays
    <3> QED BY <3>1 DEF Stays
  <2>8. UInv'
    <3>1. \A s \in CallDebts(callers, ins, segmenterDepth) : s \in 1 .. Len(strs)
      BY DEF CallDebts
    <3>2. ~ permissive => Unstored(CallDebts(callers, ins, segmenterDepth), strs2)
      BY <2>7, <3>1 DEF Unstored
    <3> QED BY <1>2, <2>2, <2>5, <2>6, <3>2 DEF UInv
  <2>9. Disciplined => SinglesIn(stack')
    <3> SUFFICES ASSUME Disciplined PROVE SinglesIn(stack')
      OBVIOUS
    <3>1. f.graph \in {"compress1", "serialStore"} => Len(f.ins) = 1
      BY <2>3
    <3>2. SinglesOK(f)
      BY <2>3, <3>1, NewSingles
    <3> QED BY <2>2, <2>3, <3>2, PushSingles
  <2>10. ASSUME Rules PROVE CutInv'
    <3>1. ~ (depth' <= segmenterDepth')
      BY <1>1, <2>2, <2>4
    <3> QED BY <2>2, <2>10, <3>1 DEF CutInv
  <2>11. ASSUME Rules PROVE BooksInv'
    <3>1. Books(Debts(stack', segmenterDepth), nds, strs2, Len(inputs))
      BY <2>5, <2>7, <2>11, SameBooks
    <3> QED BY <1>2, <2>2, <2>6, <3>1 DEF BooksInv
  <2> QED BY <1>2, <1>3, <2>8, <2>9, <2>10, <2>11 DEF BInv, Rules
<1> QED BY <1>5, <1>6, <1>7

(* New references to the inputs: no node, nothing stored, all of it owed.  *)
LEMMA FreshBooks ==
    ASSUME NEW strs, NEW k \in Nat, Len(strs) = k, NEW owed, 1 .. k \subseteq owed,
           \A s \in 1 .. k : ~ strs[s].toStore
    PROVE  Books(owed, <<>>, strs, k)
<1>1. 1 .. Len(<<>>) = {}
  BY EmptySeq
<1>2. LayoutOK(<<>>, strs, k) /\ LinksOK(<<>>)
  BY <1>1 DEF LayoutOK, LinksOK, Origin
<1>3. \A s : ~ Consumed(<<>>, s)
  BY <1>1 DEF Consumed
<1>4. AccountsOK(owed, <<>>, strs)
  BY <1>3 DEF AccountsOK
<1> QED BY <1>2, <1>4 DEF Books, Tidy

(* A graph that a session or a chunk starts with gets all the inputs.      *)
LEMMA StartSingles ==
    ASSUME Disciplined, NEW graph \in StartGraphs, graph \in {"compress1", "serialStore"},
           inputs \in Seq(Kind), inputs # <<>>, Len(inputs) <= MaxInputs,
           NEW ins, ins = [n \in DOMAIN inputs |-> n]
    PROVE  Len(ins) = 1
<1>1. MaxInputs = 1
  BY DEF Disciplined, SingleStarts
<1>2. PICK k : k = Len(inputs)
  OBVIOUS
<1>3. k \in Nat /\ k # 0 /\ k <= 1 /\ DOMAIN inputs = 1 .. k
  BY <1>1, <1>2, LenProperties, EmptySeq
<1>4. ins \in [1 .. k -> Nat] /\ k = 1
  BY <1>3
<1>5. Len(ins) = k
  BY <1>3, <1>4, FcnSeq
<1> QED BY <1>4, <1>5

LEMMA AllInputsRange ==
    ASSUME inputs \in Seq(Kind), NEW ins, ins = [n \in DOMAIN inputs |-> n]
    PROVE  \A s : s \in Range(ins) <=> s \in 1 .. Len(inputs)
<1>1. DOMAIN inputs = 1 .. Len(inputs)
  BY LenProperties
<1>2. DOMAIN ins = 1 .. Len(inputs) /\ \A n \in 1 .. Len(inputs) : ins[n] = n
  BY <1>1
<1> QED BY <1>2 DEF Range

(* CCTX_startCompression() runs the starting graph.                        *)
LEMMA RunStartingGraphBooks ==
    ASSUME BInv, HInv', RunStartingGraph
    PROVE  BInv'
<1>1. /\ phase = "start" /\ UNCHANGED <<sent, numSegments, sessionVars>>
      /\ IInv /\ GraphOK(nodes, streams) /\ segmenterDepth \in Nat
      /\ inputs \in Seq(Kind) /\ inputs # <<>> /\ Len(inputs) <= MaxInputs /\ StartOK
      /\ numSegments \in Nat
  BY DEF RunStartingGraph, BInv, HInv, IInv, RestOK, Flow
<1>2. PICK graph \in StartGraphs :
         CCTX_runSuccessor(<<>>, nodes, streams, graph, [n \in DOMAIN inputs |-> n])
  BY DEF RunStartingGraph
<1>3. PICK ins, callers : ins = [n \in DOMAIN inputs |-> n] /\ callers = <<>>
  OBVIOUS
<1>4. ins \in SidList /\ \A s : s \in Range(ins) <=> s \in 1 .. Len(inputs)
  BY <1>1, <1>3, AllInputs, AllInputsRange
<1>5. CCTX_runSuccessor(callers, nodes, streams, graph, ins)
  BY <1>2, <1>3
<1>6. segmenterDepth = 0 /\ nodes = <<>> /\ Len(streams) = Len(inputs) /\ Len(inputs) \in Nat
  BY <1>1, LenProperties DEF StartOK
<1>7. callers \in Seq(Frame) /\ Len(callers) = 0 /\ SinglesIn(callers)
  <2>1. 1 .. Len(<<>>) = {} /\ <<>> \in Seq(Frame) /\ Len(<<>>) = 0
    BY EmptySeq
  <2> QED BY <1>3, <2>1 DEF SinglesIn
<1>8. Debts(callers, segmenterDepth) = {}
  BY <1>6, <1>7, NoDebts
<1>9. \A s : s \in CallDebts(callers, ins, segmenterDepth) <=> s \in 1 .. Len(inputs)
  BY <1>4, <1>8 DEF CallDebts
<1>10. ~ permissive => \A s \in 1 .. Len(streams) : ~ streams[s].toStore
  BY <1>1 DEF BInv, UInv
<1>11. ~ permissive => Unstored(CallDebts(callers, ins, segmenterDepth), streams)
  BY <1>6, <1>9, <1>10 DEF Unstored
<1>12. Rules => Books(CallDebts(callers, ins, segmenterDepth), nodes, streams, Len(inputs))
  <2> SUFFICES ASSUME Rules
               PROVE  Books(CallDebts(callers, ins, segmenterDepth), nodes, streams, Len(inputs))
    OBVIOUS
  <2>1. \A s \in 1 .. Len(inputs) : ~ streams[s].toStore
    BY <1>6, <1>10 DEF Rules
  <2>2. 1 .. Len(inputs) \subseteq CallDebts(callers, ins, segmenterDepth)
    BY <1>9
  <2> QED BY <1>6, <2>1, <2>2, FreshBooks
<1>13. Disciplined /\ graph \in {"compress1", "serialStore"} => Len(ins) = 1
  BY <1>1, <1>3, StartSingles
<1>14. /\ graph \in Graphs /\ sent = 0
       /\ (\A s \in Range(ins) : s \in 1 .. Len(streams))
       /\ (\A s \in Debts(callers, segmenterDepth) : s \in 1 .. Len(streams))
  BY <1>1, <1>4, <1>6, <1>8 DEF BInv, SentInv
<1>15. /\ segmenterDepth <= Len(callers)
       /\ Rules /\ segmenterDepth # 0 => numChunks <= numSegments
  BY <1>6, <1>7
<1>16. /\ UNCHANGED <<sent, numSegments, sessionVars>> /\ GraphOK(nodes, streams)
       /\ segmenterDepth \in Nat /\ numSegments \in Nat
  BY <1>1
<1> QED BY <1>4, <1>5, <1>7, <1>11, <1>12, <1>13, <1>14, <1>15, <1>16, RunSuccessorBooks

(* ZL_Segmenter_processChunk() starts a graph on new streams.              *)
LEMMA ProcessChunkBooks ==
    ASSUME BInv, HInv', ZL_Segmenter_processChunk
    PROVE  BInv'
<1>1. /\ AtGraph("seg") /\ UNCHANGED <<sent, numSegments, sessionVars>> /\ HInv /\ phase = "run"
  BY DEF ZL_Segmenter_processChunk, AtGraph, BInv
<1>2. /\ IInv /\ stack # <<>> /\ depth \in Nat /\ depth >= 1 /\ depth \in 1 .. Len(stack)
      /\ segmenterDepth \in Nat /\ Top \in Frame /\ FrameOK(Top) /\ Top.pc = "seg"
      /\ StackOK(stack, Len(nodes)) /\ Held(stack, nodes, streams, segmenterDepth)
      /\ stack \in Seq(Frame)
  BY <1>1, TopHolds DEF StackOK
<1>3. depth = segmenterDepth
  <2>1. Top.graph = "segmenter"
    BY <1>2 DEF FrameOK
  <2> QED BY <1>2, <2>1 DEF Held, UnderOK, Top, depth
<1>5. inputs \in Seq(Kind) /\ inputs # <<>> /\ Len(inputs) <= MaxInputs /\ numSegments \in Nat
  BY <1>1, <1>2 DEF HInv, Flow, IInv, RestOK
<1>6. PICK kinds \in ChunkKinds, graph \in StartGraphs :
         CCTX_runSuccessor([stack EXCEPT ![depth].pc = "chunk"], <<>>,
                           RTGM_refInputs(kinds), graph, [n \in DOMAIN inputs |-> n])
  BY DEF ZL_Segmenter_processChunk
<1>7. kinds \in Seq(Kind) /\ Len(kinds) = Len(inputs) /\ Len(inputs) \in Nat
  <2>1. kinds \in [1 .. Len(inputs) -> Kind] /\ Len(inputs) \in Nat
    BY <1>5, LenProperties DEF ChunkKinds
  <2> QED BY <2>1, FcnSeq
<1>8. PICK ins, nds, strs : /\ ins = [n \in DOMAIN inputs |-> n] /\ nds = <<>>
                            /\ strs = RTGM_refInputs(kinds)
  OBVIOUS
<1>9. ins \in SidList /\ \A s : s \in Range(ins) <=> s \in 1 .. Len(inputs)
  BY <1>5, <1>8, AllInputs, AllInputsRange
<1>10. GraphOK(nds, strs) /\ Len(strs) = Len(inputs)
  BY <1>7, <1>8, RefInputsOK, RefInputsAre, EmptyGraphOK
<1>11. \A s \in 1 .. Len(inputs) : ~ strs[s].toStore
  <2>1. DOMAIN kinds = 1 .. Len(inputs)
    BY <1>7, LenProperties
  <2>2. \A s \in 1 .. Len(inputs) : strs[s] = NewStream(kinds[s])
    BY <1>8, <2>1 DEF RTGM_refInputs
  <2>3. \A k : ~ NewStream(k).toStore
    BY DEF NewStream
  <2> QED BY <2>2, <2>3
<1>12. PICK f : f = [Top EXCEPT !.pc = "chunk"]
  OBVIOUS
<1>13. PICK callers : callers = [stack EXCEPT ![Len(stack)] = f]
  OBVIOUS
<1>14. CCTX_runSuccessor(callers, nds, strs, graph, ins)
  <2>1. callers = [stack EXCEPT ![depth].pc = "chunk"]
    BY <1>12, <1>13 DEF Top, depth
  <2> QED BY <1>6, <1>8, <2>1
<1>15. f \in Frame /\ f.pc = "chunk" /\ f.graph = Top.graph /\ f.ins = Top.ins
  BY <1>2, <1>12 DEF Frame, PC
<1>16. /\ callers \in Seq(Frame) /\ Len(callers) = depth /\ OnTop(callers, stack, f)
  <2>1. Len(stack) \in 1 .. Len(stack)
    BY <1>2 DEF depth
  <2> QED BY <1>2, <1>13, <1>15, <2>1, ExceptSeq DEF depth, OnTop
<1>17. Disciplined => SinglesIn(callers)
  <2> SUFFICES ASSUME Disciplined PROVE SinglesIn(callers)
    OBVIOUS
  <2>1. SinglesIn(stack) /\ SinglesOK(Top)
    BY <1>2 DEF BInv, SinglesIn, Top, depth
  <2>2. Open(f) = {} /\ f.pc \notin {"enter", "fn"}
    BY <1>15 DEF Open
  <2>3. SinglesOK(f)
    BY <1>15, <2>1, <2>2, QuietSingles
  <2> QED BY <1>2, <1>15, <1>16, <2>1, <2>3, TopSingles
<1>18. Debts(callers, segmenterDepth) = {} /\ segmenterDepth <= Len(callers)
  BY <1>2, <1>3, <1>16, NoDebts
<1>19. \A s : s \in CallDebts(callers, ins, segmenterDepth) <=> s \in 1 .. Len(inputs)
  BY <1>9, <1>18 DEF CallDebts
<1>20. Unstored(CallDebts(callers, ins, segmenterDepth), strs)
  BY <1>11, <1>19 DEF Unstored
<1>21. Books(CallDebts(callers, ins, segmenterDepth), nds, strs, Len(inputs))
  <2>1. 1 .. Len(inputs) \subseteq CallDebts(callers, ins, segmenterDepth)
    BY <1>19
  <2> QED BY <1>7, <1>8, <1>10, <1>11, <2>1, FreshBooks
<1>22. Rules /\ segmenterDepth # 0 => numChunks <= numSegments
  <2>1. Going
    BY <1>1, <1>2 DEF Going, FailLabels
  <2> QED BY <2>1 DEF BInv, Rules, CutInv
<1>23. Disciplined /\ graph \in {"compress1", "serialStore"} => Len(ins) = 1
  BY <1>5, <1>8, StartSingles
<1>24. /\ graph \in Graphs /\ sent = 0
       /\ (\A s \in Range(ins) : s \in 1 .. Len(strs))
       /\ (\A s \in Debts(callers, segmenterDepth) : s \in 1 .. Len(strs))
  BY <1>1, <1>9, <1>10, <1>18 DEF BInv, SentInv
<1> QED BY <1>1, <1>2, <1>5, <1>9, <1>10, <1>14, <1>16, <1>17, <1>18, <1>20, <1>21, <1>22, <1>23,
           <1>24, RunSuccessorBooks

(* What is owed is in the vector.                                          *)
LEMMA DebtsInside ==
    ASSUME NEW st \in Seq(Frame), NEW nds, NEW strs, NEW sd \in Nat, Held(st, nds, strs, sd),
           NEW s \in Debts(st, sd)
    PROVE  s \in 1 .. Len(strs)
<1>1. PICK d \in 1 .. Len(st) : d > sd /\ Owes(st[d], s)
  BY DEF Debts
<1>2. st[d] \in Frame
  BY ElementOfSeq
<1>3. Takes(st[d], s) \/ Uses(st[d], s)
  BY <1>1, <1>2, OwesIs
<1> QED BY <1>1, <1>3, NeedsInside

(* CCTX_runSuccessors() calls one level deeper: it gives up what the edge  *)
(* leads to.                                                               *)
LEMMA RunNextSuccessorBooks ==
    ASSUME BInv, HInv', RunNextSuccessor
    PROVE  BInv'
<1>1. AtGraph("succ") /\ UNCHANGED <<sent, numSegments, sessionVars>> /\ HInv /\ phase = "run"
  BY DEF RunNextSuccessor, AtGraph, BInv
<1>2. /\ IInv /\ stack # <<>> /\ depth \in Nat /\ depth >= 1 /\ depth \in 1 .. Len(stack)
      /\ segmenterDepth \in Nat /\ stack \in Seq(Frame)
      /\ Top \in Frame /\ Top.pc = "succ" /\ EdgesOK(Top)
      /\ Top.edges \in Seq(Edge) /\ Len(nodes) \in Nat /\ Len(streams) \in Nat
      /\ GraphOK(nodes, streams)
      /\ StackOK(stack, Len(nodes)) /\ Held(stack, nodes, streams, segmenterDepth)
      /\ depth <= segmenterDepth => Quiet(Top)
  BY <1>1, TopHolds DEF StackOK
<1>3. PICK i \in Pending(Top) :
         /\ \A j \in Pending(Top) : i <= j
         /\ CCTX_runSuccessor([stack EXCEPT ![depth].next = i + 1], nodes, streams,
                              Top.edges[i].graph, Top.edges[i].with)
  BY DEF RunNextSuccessor
<1>4. i \in DOMAIN Top.edges /\ i \in 1 .. Len(Top.edges) /\ i \in Nat /\ i \in Open(Top)
      /\ i + 1 \in Nat \ {0}
  <2>1. i \in DOMAIN Top.edges /\ i \in Open(Top)
    BY <1>2 DEF Pending, Open
  <2> QED BY <1>2, <2>1, LenProperties
<1>5. depth > segmenterDepth
  BY <1>2, <1>4 DEF Quiet
<1>6. PICK graph, ins : graph = Top.edges[i].graph /\ ins = Top.edges[i].with
  OBVIOUS
<1>7. graph \in Graphs /\ ins \in SidList
  BY <1>2, <1>4, <1>6, ElementOfSeq, EdgeTypes
<1>8. PICK f : f = [Top EXCEPT !.next = i + 1]
  OBVIOUS
<1>9. PICK callers : callers = [stack EXCEPT ![Len(stack)] = f]
  OBVIOUS
<1>10. callers = [stack EXCEPT ![depth].next = i + 1]
  BY <1>8, <1>9 DEF Top, depth
<1>11. CCTX_runSuccessor(callers, nodes, streams, graph, ins)
  BY <1>3, <1>6, <1>10
<1>12. /\ f \in Frame /\ f.pc = "succ" /\ f.edges = Top.edges /\ f.ins = Top.ins
       /\ f.graph = Top.graph /\ f.next = i + 1
  BY <1>2, <1>4, <1>8 DEF Frame
<1>13. \A j : j \in Open(Top) <=> j \in Open(f) \/ j = i
  <2>1. Open(Top) = Pending(Top) /\ Top.next \in Nat /\ Top.next <= i
    BY <1>2 DEF Open, Pending, Frame
  <2>2. \A j : j \in Open(f) <=> /\ j \in DOMAIN Top.edges /\ j >= i + 1
                                 /\ Top.edges[j].st \in {"trigger", "unassigned"}
    BY <1>12 DEF Open
  <2>3. \A j \in DOMAIN Top.edges : j \in Nat
    BY <1>2, LenProperties
  <2>4. ASSUME NEW j \in Open(Top) PROVE j \in Open(f) \/ j = i
    <3>1. j \in DOMAIN Top.edges /\ i <= j /\ Top.edges[j].st \in {"trigger", "unassigned"}
      BY <1>3, <2>1 DEF Pending
    <3>2. j = i \/ j >= i + 1
      BY <1>4, <2>3, <3>1
    <3> QED BY <2>2, <3>1, <3>2
  <2>5. ASSUME NEW j \in Open(f) PROVE j \in Open(Top)
    <3>1. j \in DOMAIN Top.edges /\ j >= i + 1 /\ j \in Nat
      BY <2>2, <2>3
    <3>2. j >= Top.next
      BY <1>4, <2>1, <3>1
    <3> QED BY <2>1, <2>2, <3>1, <3>2 DEF Pending
  <2> QED BY <1>4, <2>4, <2>5
<1>14. \A s : Owes(Top, s) <=> Owes(f, s) \/ s \in Range(ins)
  <2>1. \A s : Uses(Top, s) <=> Uses(f, s) \/ s \in Range(ins)
    BY <1>6, <1>12, <1>13 DEF Uses, Leads
  <2> QED BY <1>2, <1>12, <2>1 DEF Owes, Waits
<1>15. callers \in Seq(Frame) /\ Len(callers) = depth /\ OnTop(callers, stack, f)
  <2>1. Len(stack) \in 1 .. Len(stack)
    BY <1>2 DEF depth
  <2> QED BY <1>2, <1>9, <1>12, <2>1, ExceptSeq DEF depth, OnTop
<1>16. \A s \in Range(ins) : s \in Nat
  <2>1. ins \in Seq(Nat)
    BY <1>7 DEF SidList
  <2> QED BY <2>1, ElementOfSeq, LenProperties DEF Range
<1>17. CallDebts(callers, ins, segmenterDepth) = Debts(stack, segmenterDepth)
  <2>1. Len(stack) > segmenterDepth
    BY <1>5 DEF depth
  <2>2. /\ \A s : s \in Debts(stack, segmenterDepth) <=>
                     s \in Nat /\ (Owes(stack[Len(stack)], s) \/ UnderOwes(stack, s, segmenterDepth))
        /\ \A s : s \in Debts(callers, segmenterDepth) <=>
                     s \in Nat /\ (Owes(f, s) \/ UnderOwes(stack, s, segmenterDepth))
    BY <1>2, <1>12, <1>15, <2>1, TopDebts
  <2>3. \A s : Owes(stack[Len(stack)], s) <=> Owes(f, s) \/ s \in Range(ins)
    BY <1>14 DEF Top, depth
  <2>4. \A s : s \in CallDebts(callers, ins, segmenterDepth) <=> s \in Debts(stack, segmenterDepth)
    BY <1>16, <2>2, <2>3 DEF CallDebts
  <2> QED BY <2>4
<1>18. ~ permissive => Unstored(CallDebts(callers, ins, segmenterDepth), streams)
  BY <1>17 DEF BInv, UInv
<1>19. /\ \A s \in Range(ins) : s \in 1 .. Len(streams)
       /\ \A s \in Debts(callers, segmenterDepth) : s \in 1 .. Len(streams)
  <2>1. \A s \in CallDebts(callers, ins, segmenterDepth) : s \in 1 .. Len(streams)
    BY <1>2, <1>17, DebtsInside
  <2> QED BY <2>1 DEF CallDebts
<1>20. Going
  BY <1>1, <1>2 DEF Going, FailLabels
<1>21. Rules => Books(CallDebts(callers, ins, segmenterDepth), nodes, streams, Len(inputs))
  BY <1>5, <1>17, <1>20 DEF BInv, Rules, BooksInv
<1>22. Rules /\ segmenterDepth # 0 => numChunks <= numSegments
  BY <1>20 DEF BInv, Rules, CutInv
<1>23. ASSUME Disciplined
       PROVE  SinglesIn(callers) /\ (graph \in {"compress1", "serialStore"} => Len(ins) = 1)
  <2>1. SinglesIn(stack) /\ SinglesOK(Top)
    BY <1>2, <1>23 DEF BInv, SinglesIn, Top, depth
  <2>2. SinglesOK(f)
    BY <1>12, <1>13, <2>1 DEF SinglesOK
  <2>3. SinglesIn(callers)
    BY <1>2, <1>12, <1>15, <2>1, <2>2, TopSingles
  <2>4. graph \in {"compress1", "serialStore"} => Len(ins) = 1
    BY <1>4, <1>6, <2>1 DEF SinglesOK, OneInput
  <2> QED BY <2>3, <2>4
<1>24. segmenterDepth <= Len(callers) /\ sent = 0 /\ numSegments \in Nat
  BY <1>1, <1>2, <1>5, <1>15 DEF BInv, SentInv, IInv, RestOK
<1> QED BY <1>1, <1>2, <1>7, <1>11, <1>15, <1>18, <1>19, <1>21, <1>22, <1>23, <1>24,
           RunSuccessorBooks

(* CCTX_runSuccessor() returns to its caller.                              *)
LEMMA ReturnsBooks ==
    ASSUME BInv, HInv', CCTX_runSuccessorReturns
    PROVE  BInv'
<1>1. PICK label \in {"ok", "err"} : AtGraph(label)
  BY DEF CCTX_runSuccessorReturns
<1>2. /\ HInv /\ stack # <<>> /\ depth \in Nat /\ depth >= 1 /\ segmenterDepth \in Nat
      /\ Top.pc \in {"ok", "err"} /\ streams \in Seq(Stream) /\ Len(streams) \in Nat
      /\ Len(nodes) \in Nat /\ stack \in Seq(Frame) /\ Top \in Frame
      /\ StackOK(stack, Len(nodes)) /\ Held(stack, nodes, streams, segmenterDepth)
      /\ depth \in 1 .. Len(stack)
  BY <1>1, TopHolds DEF BInv, StackOK
<1>3. /\ ReturnTo(Callers, Top.pc) /\ phase = "run"
      /\ \/ streams' = streams
         \/ streams' = RTGM_clearRTStream(streams, Top.ins, depth)
      /\ UNCHANGED <<nodes, sent, segmenterDepth, numSegments, numChunks, inputs, permissive>>
  BY <1>1 DEF CCTX_runSuccessorReturns, AtGraph, segmentVars, sessionVars
<1>4. PICK callers, strs2 : callers = Callers /\ strs2 = streams'
  OBVIOUS
<1>5. Len(strs2) = Len(streams) /\ \A s \in 1 .. Len(streams) : strs2[s].toStore = streams[s].toStore
  <2>1. CASE strs2 = streams
    BY <2>1
  <2>2. CASE strs2 = RTGM_clearRTStream(streams, Top.ins, depth)
    <3>1. Len(strs2) = Len(streams) /\ Stays(streams, strs2)
      BY <1>2, <2>2, ClearStays
    <3> QED BY <3>1 DEF Stays
  <2> QED BY <1>3, <1>4, <2>1, <2>2
<1>6. /\ callers = SubSeq(stack, 1, Len(stack) - 1) /\ callers \in Seq(Frame)
      /\ Len(callers) = depth - 1 /\ \A d \in 1 .. depth - 1 : callers[d] = stack[d]
  <2>1. StackOK(callers, Len(nodes)) /\ Len(callers) = Len(stack) - 1
        /\ \A d \in 1 .. (Len(stack) - 1) : callers[d] = stack[d]
    BY <1>2, <1>4, PopOK DEF Callers, depth
  <2> QED BY <1>4, <2>1 DEF StackOK, Callers, depth
<1>7. \A s : ~ Owes(Top, s)
  BY <1>2, OwesIs
<1>8. Debts(callers, segmenterDepth) = Debts(stack, segmenterDepth)
  <2>1. \A s : ~ Owes(stack[Len(stack)], s)
    BY <1>7 DEF Top, depth
  <2> QED BY <1>2, <1>6, <2>1, PopDebts
<1>9. ~ permissive => Unstored(Debts(callers, segmenterDepth), strs2)
  <2>1. \A s \in Debts(stack, segmenterDepth) : s \in 1 .. Len(streams)
    BY <1>2, DebtsInside
  <2> QED BY <1>5, <1>8, <2>1 DEF BInv, UInv, Unstored
<1>10. Disciplined => SinglesIn(callers)
  <2>1. \A d \in 1 .. depth - 1 : d \in 1 .. Len(stack)
    BY <1>2 DEF depth
  <2> QED BY <1>6, <2>1 DEF BInv, SinglesIn
<1>11. sent' = 0 /\ SentInv'
  BY <1>3 DEF BInv, SentInv
<1>12. CASE Top.pc = "err"
  <2>1. ReturnTo(callers, "err")
    BY <1>3, <1>4, <1>12
  <2>2. UNCHANGED <<permissive, segmenterDepth>>
    BY <1>3
  <2>3. ~ permissive => Unstored(Debts(callers, segmenterDepth), streams')
    BY <1>4, <1>9
  <2> QED BY <1>2, <1>6, <1>10, <1>11, <2>1, <2>2, <2>3, ErrorBooks
<1>13. CASE Top.pc = "ok"
  <2> DEFINE k == depth - 1
             toSegmenter == k > 0 /\ callers[k].graph = "segmenter"
  <2>1. /\ stack' = callers /\ depth' = k /\ k \in Nat
        /\ phase' = IF toSegmenter \/ (k = 0 /\ numSegments = 0) THEN "flush"
                    ELSE IF k = 0 THEN "ok" ELSE "run"
    <3>1. stack' = callers
      BY <1>3, <1>4, <1>13 DEF ReturnTo
    <3>2. phase' = IF toSegmenter \/ (k = 0 /\ numSegments = 0) THEN "flush"
                   ELSE IF k = 0 THEN "ok" ELSE "run"
      BY <1>3, <1>4, <1>6, <1>13 DEF ReturnTo
    <3> QED BY <1>2, <1>6, <3>1, <3>2 DEF depth
  <2>2. UInv'
    BY <1>3, <1>4, <1>9, <2>1 DEF UInv
  <2>3. Disciplined => SinglesIn(stack')
    BY <1>10, <2>1
  <2>4. ASSUME Rules PROVE CutInv' /\ BooksInv'
    <3>1. Going
      BY <1>3, <1>13 DEF Going, FailLabels
    <3>2. /\ segmenterDepth # 0 => numChunks <= numSegments
          /\ segmenterDepth # 0 /\ depth <= segmenterDepth => numSegments > 0
      BY <1>13, <2>4, <3>1 DEF BInv, Rules, CutInv
    <3>3. depth > segmenterDepth =>
             Books(Debts(callers, segmenterDepth), nodes, strs2, Len(inputs))
      <4> SUFFICES ASSUME depth > segmenterDepth
                   PROVE  Books(Debts(callers, segmenterDepth), nodes, strs2, Len(inputs))
        OBVIOUS
      <4>1. Books(Debts(stack, segmenterDepth), nodes, streams, Len(inputs))
        BY <2>4, <3>1 DEF BInv, Rules, BooksInv
      <4> QED BY <1>5, <1>8, <4>1, SameBooks
    <3>4. k = segmenterDepth /\ k > 0 => toSegmenter
      <4> SUFFICES ASSUME k = segmenterDepth, k > 0 PROVE callers[k].graph = "segmenter"
        OBVIOUS
      <4>1. depth \in 1 .. Len(stack) /\ depth > segmenterDepth /\ segmenterDepth # 0
            /\ k \in 1 .. depth - 1
        BY <1>2
      <4>2. stack[segmenterDepth].graph = "segmenter"
        BY <1>2, <4>1 DEF Held, UnderOK
      <4> QED BY <1>6, <4>1, <4>2
    <3>5. toSegmenter => k = segmenterDepth
      <4> SUFFICES ASSUME toSegmenter PROVE k = segmenterDepth
        OBVIOUS
      <4>1. k \in 1 .. depth - 1 /\ k \in 1 .. Len(stack)
        BY <1>2 DEF depth
      <4>2. stack[k].graph = "segmenter"
        BY <1>6, <4>1
      <4> QED BY <1>2, <4>1, <4>2 DEF Held, UnderOK
    <3> HIDE DEF toSegmenter
    <3>6. CutInv'
      <4>1. ASSUME segmenterDepth # 0, Going', k <= segmenterDepth PROVE numSegments > 0
        <5>1. k # 0 /\ ~ toSegmenter
          BY <2>1, <4>1 DEF Going
        <5>2. depth <= segmenterDepth
          BY <1>2, <2>1, <3>4, <4>1, <5>1
        <5> QED BY <3>2, <4>1, <5>2
      <4>2. segmenterDepth' = segmenterDepth /\ numSegments' = numSegments /\ numChunks' = numChunks
        BY <1>3
      <4> QED BY <2>1, <3>2, <4>1, <4>2 DEF CutInv
    <3>7. BooksInv'
      <4>1. k > segmenterDepth => Books(Debts(stack', segmenterDepth), nodes, strs2, Len(inputs))
        BY <1>2, <2>1, <3>3
      <4>2. ASSUME phase' = "flush" PROVE Books({}, nodes, strs2, Len(inputs))
        <5>1. toSegmenter \/ (k = 0 /\ numSegments = 0)
          BY <2>1, <4>2
        <5>2. k = segmenterDepth
          <6>1. CASE toSegmenter
            BY <3>5, <6>1
          <6>2. CASE k = 0 /\ numSegments = 0
            <7>1. ~ (segmenterDepth # 0 /\ depth <= segmenterDepth)
              BY <3>2, <6>2
            <7> QED BY <1>2, <6>2, <7>1
          <6> QED BY <5>1, <6>1, <6>2
        <5>3. depth > segmenterDepth /\ Len(callers) \in Nat /\ Len(callers) <= segmenterDepth
          BY <1>2, <1>6, <5>2
        <5>4. Debts(callers, segmenterDepth) = {}
          BY <1>2, <5>3, NoDebts
        <5> QED BY <3>3, <5>3, <5>4
      <4>3. phase' \notin {"graph", "store"}
        BY <2>1
      <4> QED BY <1>3, <1>4, <2>1, <4>1, <4>2, <4>3 DEF BooksInv
    <3> QED BY <3>6, <3>7
  <2> QED BY <1>3, <1>11, <2>2, <2>3, <2>4 DEF BInv, Rules
<1> QED BY <1>2, <1>12, <1>13

-----------------------------------------------------------------------------
(* The graph that CCTX_replaceChunkWithStore() puts in the place of the    *)
(* chunk's.                                                                *)

(* The typed inputs among the first n, one input further on.               *)
LEMMA NbTypedStep ==
    ASSUME NEW kinds, NEW n \in Nat
    PROVE  /\ NbTyped(kinds, n) \in Nat /\ NbTyped(kinds, 0) = 0
           /\ kinds[n + 1] = "typed" => NbTyped(kinds, n + 1) = NbTyped(kinds, n) + 1
           /\ kinds[n + 1] # "typed" => NbTyped(kinds, n + 1) = NbTyped(kinds, n)
<1> DEFINE S(k) == {m \in 1 .. k : kinds[m] = "typed"}
<1>1. IsFiniteSet(S(n)) /\ Cardinality(S(n)) \in Nat
  <2>1. IsFiniteSet(1 .. n)
    BY FS_Interval
  <2>2. IsFiniteSet(S(n))
    <3>1. S(n) \in SUBSET (1 .. n)
      OBVIOUS
    <3> QED BY <2>1, <3>1, FS_Subset
  <2> QED BY <2>2, FS_CardinalityType
<1>2. S(0) = {} /\ Cardinality({}) = 0
  BY FS_EmptySet
<1>3. n + 1 \notin S(n) /\ \A m : m \in 1 .. n + 1 <=> m \in 1 .. n \/ m = n + 1
  OBVIOUS
<1>4. kinds[n + 1] = "typed" => S(n + 1) = S(n) \cup {n + 1}
  BY <1>3
<1>5. kinds[n + 1] # "typed" => S(n + 1) = S(n)
  BY <1>3
<1>6. NbTyped(kinds, n) = Cardinality(S(n)) /\ NbTyped(kinds, n + 1) = Cardinality(S(n + 1))
      /\ NbTyped(kinds, 0) = Cardinality(S(0))
  BY DEF NbTyped
<1> HIDE DEF S
<1>7. Cardinality(S(n) \cup {n + 1}) = Cardinality(S(n)) + 1
  BY <1>1, <1>3, FS_AddElement
<1> QED BY <1>1, <1>2, <1>4, <1>5, <1>6, <1>7

LEMMA NbTypedGrows ==
    ASSUME NEW kinds, NEW a \in Nat, NEW n \in Nat
    PROVE  a <= n => NbTyped(kinds, a) <= NbTyped(kinds, n)
<1> DEFINE S == {m \in Nat : a <= m => NbTyped(kinds, a) <= NbTyped(kinds, m)}
<1>1. \A m \in Nat : NbTyped(kinds, m) \in Nat
  BY NbTypedStep
<1>2. 0 \in S
  <2>1. a <= 0 => a = 0
    OBVIOUS
  <2> QED BY <1>1, <2>1
<1>3. ASSUME NEW m \in Nat, m \in S PROVE m + 1 \in S
  <2>1. NbTyped(kinds, m + 1) = NbTyped(kinds, m) + 1 \/ NbTyped(kinds, m + 1) = NbTyped(kinds, m)
    BY NbTypedStep
  <2>2. a <= m + 1 => a <= m \/ a = m + 1
    OBVIOUS
  <2> QED BY <1>1, <1>3, <2>1, <2>2
<1> HIDE DEF S
<1>4. \A m \in Nat : m \in S
  BY <1>2, <1>3, SetInduction
<1> QED BY <1>4 DEF S

(* The first n that sees j typed inputs is one of them: number j.          *)
LEMMA TypedAt ==
    ASSUME NEW kinds \in Seq(Kind), NEW s \in 1 .. Len(kinds), kinds[s] = "typed"
    PROVE  /\ NbTyped(kinds, s) \in 1 .. NbTyped(kinds, Len(kinds))
           /\ TypedInput(kinds, NbTyped(kinds, s)) = s
<1> DEFINE K == Len(kinds)
           C(n) == NbTyped(kinds, n)
           B == {n \in 1 .. K : C(n) < C(s)}
<1>1. K \in Nat /\ s \in Nat /\ s - 1 \in Nat /\ (s - 1) + 1 = s
  BY LenProperties
<1>2. /\ \A n \in Nat : C(n) \in Nat
      /\ \A a, n \in Nat : a <= n => C(a) <= C(n)
  BY NbTypedStep, NbTypedGrows
<1>3. C(s) = C(s - 1) + 1
  BY <1>1, NbTypedStep
<1> HIDE DEF C
<1>4. ASSUME NEW n \in 1 .. K PROVE C(n) < C(s) <=> n \in 1 .. s - 1
  <2>1. CASE n <= s - 1
    <3>1. C(n) <= C(s - 1) /\ C(n) \in Nat /\ C(s - 1) \in Nat
      <4>1. PICK r : r = s - 1
        OBVIOUS
      <4>2. r \in Nat /\ n \in Nat /\ n <= r
        BY <1>1, <2>1, <4>1
      <4>3. C(n) <= C(r) /\ C(n) \in Nat /\ C(r) \in Nat
        BY <1>2, <4>2
      <4> QED BY <4>1, <4>3
    <3> QED BY <1>1, <1>3, <2>1, <3>1
  <2>2. CASE ~ (n <= s - 1)
    <3>1. s <= n
      BY <1>1, <2>2
    <3>2. C(s) <= C(n) /\ C(n) \in Nat /\ C(s) \in Nat
      BY <1>1, <1>2, <3>1
    <3> QED BY <1>1, <2>2, <3>2
  <2> QED BY <2>1, <2>2
<1>5. B = 1 .. s - 1
  <2>1. \A n \in 1 .. s - 1 : n \in 1 .. K
    BY <1>1
  <2> QED BY <1>4, <2>1
<1>6. Cardinality(1 .. s - 1) = s - 1
  <2>1. 1 \in Int /\ s - 1 \in Int
    BY <1>1
  <2>2. Cardinality(1 .. s - 1) = IF 1 > s - 1 THEN 0 ELSE s - 1 - 1 + 1
    BY <2>1, FS_Interval
  <2> QED BY <1>1, <2>2
<1>7. TypedInput(kinds, C(s)) = s
  <2>1. TypedInput(kinds, C(s)) = Cardinality(B) + 1
    BY DEF TypedInput, C
  <2> QED BY <1>1, <1>5, <1>6, <2>1
<1>8. C(s) \in 1 .. C(K)
  <2>1. C(s) <= C(K) /\ C(s) \in Nat /\ C(s - 1) \in Nat /\ C(K) \in Nat
    BY <1>1, <1>2
  <2> QED BY <1>3, <2>1
<1> QED BY <1>7, <1>8 DEF C

LEMMA TypedIs ==
    ASSUME NEW kinds \in Seq(Kind), NEW j \in 1 .. NbTyped(kinds, Len(kinds))
    PROVE  /\ TypedInput(kinds, j) \in 1 .. Len(kinds)
           /\ kinds[TypedInput(kinds, j)] = "typed"
           /\ NbTyped(kinds, TypedInput(kinds, j)) = j
<1> DEFINE K == Len(kinds)
           C(n) == NbTyped(kinds, n)
           T == {n \in Nat : C(n) >= j}
<1>1. K \in Nat
  BY LenProperties
<1>2. /\ \A n \in Nat : C(n) \in Nat /\ C(0) = 0
      /\ \A n \in Nat : kinds[n + 1] = "typed" => C(n + 1) = C(n) + 1
      /\ \A n \in Nat : kinds[n + 1] # "typed" => C(n + 1) = C(n)
  BY NbTypedStep
<1> HIDE DEF C
<1>3. K \in T /\ j \in Nat /\ j >= 1
  <2>1. C(K) \in Nat /\ j \in 1 .. C(K)
    BY <1>1, <1>2 DEF C
  <2> QED BY <1>1, <2>1
<1>4. PICK m \in T : \A n \in T : m <= n
  <2>1. T \in SUBSET Nat /\ T # {}
    BY <1>3
  <2> HIDE DEF T
  <2> QED BY <2>1, LeastNumber
<1>5. m \in Nat /\ m <= K /\ m # 0
  BY <1>2, <1>3, <1>4
<1>6. PICK n \in Nat : m = n + 1
  <2>1. m - 1 \in Nat /\ m = (m - 1) + 1
    BY <1>5
  <2> QED BY <2>1
<1>7. C(n) < j /\ C(n + 1) >= j
  <2>1. n \notin T
    BY <1>4, <1>6
  <2> QED BY <1>2, <1>3, <1>4, <1>6, <2>1
<1>8. kinds[n + 1] = "typed" /\ C(n + 1) = j
  <2>1. C(n) \in Nat
    BY <1>2
  <2>2. kinds[n + 1] = "typed"
    <3> SUFFICES ASSUME kinds[n + 1] # "typed" PROVE FALSE
      OBVIOUS
    <3>1. C(n + 1) = C(n)
      BY <1>2
    <3> QED BY <1>3, <1>7, <2>1, <3>1
  <2>3. C(n + 1) = C(n) + 1
    BY <1>2, <2>2
  <2>4. PICK a, b \in Nat : a = C(n) /\ b = C(n + 1) /\ b = a + 1 /\ a < j /\ b >= j
    BY <1>7, <2>1, <2>3
  <2>5. b = j
    BY <1>3, <2>4
  <2> QED BY <2>2, <2>4, <2>5
<1>9. m \in 1 .. K /\ kinds[m] = "typed" /\ C(m) = j
  BY <1>1, <1>5, <1>6, <1>8
<1>10. TypedInput(kinds, j) = m
  BY <1>9, TypedAt DEF C
<1> QED BY <1>9, <1>10 DEF C

(* What the two vectors hold.                                              *)
StoreGraph(kinds, K, M, nds, strs) ==
    /\ K \in Nat /\ M \in Nat /\ Len(nds) = M /\ Len(strs) = K + M
    /\ \A j \in 1 .. M : /\ nds[j].ins = <<TypedInput(kinds, j)>>
                         /\ nds[j].start = K + j /\ nds[j].outs = 1
    /\ \A s \in 1 .. K : strs[s].toStore <=> kinds[s] # "typed"
    /\ \A s \in 1 .. K + M : s > K => strs[s].toStore

LEMMA StoreHolds ==
    ASSUME NEW kinds \in Seq(Kind), NEW K, K = Len(kinds), NEW M, M = NbTyped(kinds, K),
           NEW nds, nds = StoreNodes(kinds), NEW strs, strs = StoreStreams(kinds)
    PROVE  StoreGraph(kinds, K, M, nds, strs)
<1> DEFINE ins == [n \in DOMAIN kinds |->
                     [NewStream(kinds[n]) EXCEPT !.toStore = (kinds[n] # "typed")]]
           outs == [j \in 1 .. M |-> [NewStream("serial") EXCEPT !.toStore = TRUE]]
<1>1. /\ DOMAIN kinds = 1 .. K /\ K \in Nat /\ M \in Nat
      /\ \A i \in 1 .. K : kinds[i] \in Kind
  <2>1. DOMAIN kinds = 1 .. K /\ K \in Nat /\ \A i \in 1 .. K : kinds[i] \in Kind
    BY LenProperties, ElementOfSeq
  <2> QED BY <2>1, NbTypedStep
<1>2. /\ DOMAIN nds = 1 .. M
      /\ \A j \in 1 .. M : /\ nds[j].ins = <<TypedInput(kinds, j)>>
                           /\ nds[j].start = K + j /\ nds[j].outs = 1
  BY DEF StoreNodes
<1>3. Len(nds) = M
  <2>1. nds \in Seq(Node)
    BY StoreGraphOK DEF GraphOK
  <2>2. Len(nds) \in Nat /\ DOMAIN nds = 1 .. Len(nds)
    BY <2>1, LenProperties
  <2> QED BY <1>1, <1>2, <2>2
<1>4. \A k \in Kind : \A b \in BOOLEAN : /\ [NewStream(k) EXCEPT !.toStore = b] \in Stream
                                         /\ [NewStream(k) EXCEPT !.toStore = b].toStore = b
  BY DEF NewStream, Stream
<1>5. ins \in Seq(Stream) /\ Len(ins) = K /\ \A s \in 1 .. K : ins[s].toStore = (kinds[s] # "typed")
  <2>1. ins \in [1 .. K -> Stream]
    BY <1>1, <1>4
  <2>2. \A s \in 1 .. K : ins[s].toStore = (kinds[s] # "typed")
    BY <1>1, <1>4
  <2> HIDE DEF ins
  <2> QED BY <1>1, <2>1, <2>2, FcnSeq
<1>6. outs \in Seq(Stream) /\ Len(outs) = M /\ \A j \in 1 .. M : outs[j].toStore
  <2>1. "serial" \in Kind
    BY DEF Kind
  <2>2. outs \in [1 .. M -> Stream]
    BY <1>4, <2>1
  <2>3. \A j \in 1 .. M : outs[j].toStore
    BY <1>4, <2>1
  <2> HIDE DEF outs
  <2> QED BY <1>1, <2>2, <2>3, FcnSeq
<1>7. strs = ins \o outs
  BY DEF StoreStreams
<1> HIDE DEF ins, outs
<1>8. /\ Len(strs) = K + M
      /\ \A i \in 1 .. K + M : strs[i] = IF i <= K THEN ins[i] ELSE outs[i - K]
  <2>1. /\ Len(ins \o outs) = Len(ins) + Len(outs)
        /\ \A i \in 1 .. Len(ins) + Len(outs) :
              (ins \o outs)[i] = IF i <= Len(ins) THEN ins[i] ELSE outs[i - Len(ins)]
    <3>1. ins \in Seq(Stream) /\ outs \in Seq(Stream)
      BY <1>5, <1>6
    <3> QED BY <3>1, ConcatProperties
  <2> QED BY <1>5, <1>6, <1>7, <2>1
<1>9. \A s \in 1 .. K : strs[s].toStore <=> kinds[s] # "typed"
  <2> SUFFICES ASSUME NEW s \in 1 .. K PROVE strs[s].toStore <=> kinds[s] # "typed"
    OBVIOUS
  <2>1. s \in 1 .. K + M /\ s <= K
    BY <1>1
  <2> QED BY <1>5, <1>8, <2>1
<1>10. \A s \in 1 .. K + M : s > K => strs[s].toStore
  <2> SUFFICES ASSUME NEW s \in 1 .. K + M, s > K PROVE strs[s].toStore
    OBVIOUS
  <2>1. s - K \in 1 .. M /\ ~ (s <= K)
    BY <1>1
  <2> QED BY <1>6, <1>8, <2>1
<1> QED BY <1>1, <1>2, <1>3, <1>8, <1>9, <1>10 DEF StoreGraph

(* STORE balances, whatever the inputs.                                    *)
LEMMA StoreBalanced ==
    ASSUME NEW kinds \in Seq(Kind), NEW nds, nds = StoreNodes(kinds),
           NEW strs, strs = StoreStreams(kinds)
    PROVE  Balanced(nds, strs, Len(kinds))
<1>1. PICK K : K = Len(kinds)
  OBVIOUS
<1>2. PICK M : M = NbTyped(kinds, K)
  OBVIOUS
<1>3. PICK X : X = [j \in 1 .. M |-> TypedInput(kinds, j)]
  OBVIOUS
<1>4. /\ K \in Nat /\ M \in Nat /\ Len(nds) = M /\ Len(strs) = K + M
      /\ \A j \in 1 .. M : /\ nds[j].ins = <<TypedInput(kinds, j)>>
                           /\ nds[j].start = K + j /\ nds[j].outs = 1
      /\ \A s \in 1 .. K : strs[s].toStore <=> kinds[s] # "typed"
      /\ \A s \in 1 .. K + M : s > K => strs[s].toStore
  <2>1. StoreGraph(kinds, K, M, nds, strs)
    BY <1>1, <1>2, StoreHolds
  <2> QED BY <2>1 DEF StoreGraph
<1>5. \A j \in 1 .. M : X[j] \in 1 .. K /\ kinds[X[j]] = "typed" /\ NbTyped(kinds, X[j]) = j
  BY <1>1, <1>2, <1>3, TypedIs
<1>6. \A s \in 1 .. K : kinds[s] = "typed" => \E j \in 1 .. M : X[j] = s
  BY <1>1, <1>2, <1>3, TypedAt
<1>7. \A j \in 1 .. M : \A s : s \in Range(nds[j].ins) <=> s = X[j]
  <2> SUFFICES ASSUME NEW j \in 1 .. M, NEW s PROVE s \in Range(nds[j].ins) <=> s = X[j]
    OBVIOUS
  <2>1. PICK x : x = X[j]
    OBVIOUS
  <2>2. nds[j].ins = <<x>>
    BY <1>3, <1>4, <2>1
  <2>3. DOMAIN <<x>> = {1} /\ <<x>>[1] = x
    OBVIOUS
  <2> QED BY <2>1, <2>2, <2>3 DEF Range
<1>8. \A j \in 1 .. M : Once(nds[j].ins)
  <2> SUFFICES ASSUME NEW j \in 1 .. M PROVE Once(nds[j].ins)
    OBVIOUS
  <2>1. PICK x : nds[j].ins = <<x>>
    BY <1>4
  <2>2. DOMAIN <<x>> = {1}
    OBVIOUS
  <2> QED BY <2>1, <2>2 DEF Once
<1>9. LayoutOK(nds, strs, K)
  <2>1. Origin(nds, strs, K)
    <3>1. CASE nds = <<>>
      <4>1. M = 0
        BY <1>4, <3>1, EmptySeq
      <4> QED BY <1>4, <3>1, <4>1 DEF Origin
    <3>2. CASE nds # <<>>
      <4>1. nds \in Seq(Node)
        BY StoreGraphOK DEF GraphOK
      <4>2. M # 0
        BY <1>4, <3>2, <4>1, EmptySeq
      <4>3. 1 \in 1 .. M
        BY <1>4, <4>2
      <4> QED BY <1>4, <3>2, <4>3 DEF Origin
    <3> QED BY <3>1, <3>2
  <2>2. ASSUME NEW m \in 1 .. M
        PROVE  nds[m].start + nds[m].outs = IF m = M THEN K + M + 1 ELSE nds[m + 1].start
    <3>1. nds[m].start + nds[m].outs = K + m + 1
      BY <1>4
    <3>2. CASE m = M
      BY <1>4, <3>1, <3>2
    <3>3. CASE m # M
      <4>1. m + 1 \in 1 .. M
        BY <1>4, <3>3
      <4>2. nds[m + 1].start = K + (m + 1)
        BY <1>4, <4>1
      <4> QED BY <1>4, <3>1, <3>3, <4>2
    <3> QED BY <3>2, <3>3
  <2> QED BY <1>4, <2>1, <2>2 DEF LayoutOK
<1>10. LinksOK(nds)
  <2>1. ASSUME NEW m \in 1 .. M, NEW s \in Range(nds[m].ins) PROVE s \in 1 .. nds[m].start - 1
    <3>1. s = X[m] /\ nds[m].start = K + m
      BY <1>4, <1>7, <2>1
    <3>2. s \in 1 .. K
      BY <1>5, <3>1
    <3> QED BY <1>4, <3>1, <3>2
  <2>2. ASSUME NEW m \in 1 .. M, NEW n \in 1 .. M, NEW s \in Range(nds[m].ins),
               s \in Range(nds[n].ins)
        PROVE  m = n
    <3>1. X[m] = X[n]
      BY <1>7, <2>2
    <3> QED BY <1>5, <3>1
  <2> QED BY <1>4, <1>8, <2>1, <2>2 DEF LinksOK
<1>11. \A s : Consumed(nds, s) <=> \E j \in 1 .. M : X[j] = s
  <2>1. Len(nds) = M
    BY <1>4
  <2> QED BY <1>7, <2>1 DEF Consumed
<1>12. ASSUME NEW s \in 1 .. Len(strs) PROVE strs[s].toStore <=> ~ Consumed(nds, s)
  <2>1. CASE s <= K
    <3>1. s \in 1 .. K
      BY <1>4, <2>1
    <3>2. Consumed(nds, s) <=> kinds[s] = "typed"
      BY <1>5, <1>6, <1>11, <3>1
    <3> QED BY <1>4, <3>1, <3>2
  <2>2. CASE s > K
    <3>1. strs[s].toStore
      BY <1>4, <2>2
    <3>2. \A j \in 1 .. M : X[j] # s
      <4> SUFFICES ASSUME NEW j \in 1 .. M, X[j] = s PROVE FALSE
        OBVIOUS
      <4>1. s \in 1 .. K
        BY <1>5
      <4> QED BY <1>4, <2>2, <4>1
    <3> QED BY <1>11, <3>1, <3>2
  <2> QED BY <1>4, <2>1, <2>2
<1> QED BY <1>1, <1>9, <1>10, <1>12 DEF Balanced

-----------------------------------------------------------------------------
(* A chunk is written.                                                     *)

(* CCTX_flushChunk() returns to the segmenter or to the session.           *)
LEMMA FlushReturnsBooks ==
    ASSUME BInv, HInv', phase \in {"flush", "graph", "store"},
           NEW r \in {"ok", "err"}, FlushReturns(r), UNCHANGED <<segmenterDepth, sessionVars>>,
           r = "ok" => numSegments' = numSegments + 1
    PROVE  BInv'
<1>1. /\ HInv /\ stack \in Seq(Frame) /\ segmenterDepth \in Nat /\ depth \in Nat
      /\ (stack = <<>> <=> depth = 0) /\ (depth # 0 => depth = segmenterDepth)
      /\ numSegments \in Nat /\ numChunks \in Nat
  <2>1. HInv
    BY DEF BInv
  <2> QED BY <2>1, FlushHeld DEF StackOK, IInv, RestOK
<1>2. permissive' = permissive /\ segmenterDepth' = segmenterDepth
  BY DEF sessionVars
<1>3. CASE depth = 0
  <2>1. phase' = r /\ UNCHANGED <<stack, streams>>
    BY <1>3 DEF FlushReturns, graphVars
  <2>2. UInv'
    BY <1>2, <2>1 DEF BInv, UInv
  <2>3. SentInv'
    BY <2>1 DEF SentInv
  <2>4. CutInv' /\ BooksInv'
    BY <2>1 DEF CutInv, BooksInv, Going
  <2> QED BY <1>2, <2>1, <2>2, <2>3, <2>4 DEF BInv
<1>4. CASE depth # 0
  <2>1. PICK g : g = [Top EXCEPT !.pc = IF r = "ok" THEN "seg" ELSE "chunkErr"]
    OBVIOUS
  <2>2. /\ SetTop(g) /\ phase' = "run" /\ numChunks' = numChunks + 1 /\ sent' = 0
    BY <1>4, <2>1 DEF FlushReturns, Goto, CCTX_cleanChunk
  <2>3. Top \in Frame /\ depth \in 1 .. Len(stack)
    <3>1. depth \in 1 .. Len(stack)
      BY <1>1, <1>4 DEF depth
    <3> QED BY <1>1, <3>1, ElementOfSeq DEF Top
  <2>4. /\ g \in Frame /\ g.graph = Top.graph /\ g.ins = Top.ins
        /\ g.pc = IF r = "ok" THEN "seg" ELSE "chunkErr"
    BY <2>1, <2>3 DEF Frame, PC
  <2>5. OnTop(stack', stack, g)
    BY <2>2 DEF OnTop, SetTop, depth
  <2>6. Len(stack') = Len(stack) /\ stack'[Len(stack)] = g
    <3>1. Len(stack) \in 1 .. Len(stack)
      BY <2>3 DEF depth
    <3> QED BY <1>1, <2>4, <2>5, <3>1, ExceptSeq DEF OnTop
  <2>7. depth' = segmenterDepth /\ Top' = g
    BY <1>1, <1>4, <2>6 DEF depth, Top
  <2>8. UInv'
    <3>1. Debts(stack', segmenterDepth) = {}
      <4>1. Len(stack') \in Nat /\ Len(stack') <= segmenterDepth
        BY <1>1, <1>4, <2>6 DEF depth
      <4> QED BY <1>1, <4>1, NoDebts
    <3> QED BY <1>2, <2>2, <3>1 DEF UInv, Unstored
  <2>9. SentInv'
    BY <2>2 DEF SentInv
  <2>10. Disciplined => SinglesIn(stack')
    <3> SUFFICES ASSUME Disciplined PROVE SinglesIn(stack')
      OBVIOUS
    <3>1. SinglesIn(stack) /\ SinglesOK(Top)
      BY <2>3 DEF BInv, SinglesIn, Top
    <3>2. Open(g) = {} /\ g.pc \notin {"enter", "fn"}
      BY <2>4 DEF Open
    <3>3. SinglesOK(g)
      BY <2>4, <3>1, <3>2, QuietSingles
    <3> QED BY <1>1, <1>4, <2>4, <2>5, <3>1, <3>3, TopSingles
  <2>11. ASSUME Rules PROVE CutInv'
    <3>1. numChunks <= numSegments
      BY <1>1, <1>4, <2>11 DEF BInv, Rules, CutInv
    <3>2. Going' => r = "ok"
      BY <2>4, <2>7 DEF Going, FailLabels
    <3>3. Going' => numChunks' <= numSegments' /\ numSegments' > 0
      BY <1>1, <2>2, <3>1, <3>2
    <3> QED BY <2>2, <3>3 DEF CutInv
  <2>12. BooksInv'
    <3>1. ~ (depth' > segmenterDepth')
      BY <1>1, <1>2, <2>7
    <3> QED BY <2>2, <3>1 DEF BooksInv
  <2> QED BY <1>2, <2>8, <2>9, <2>10, <2>11, <2>12 DEF BInv, Rules
<1> QED BY <1>3, <1>4

(* CCTX_flushChunk() collects the graph, or fails: a node that has not     *)
(* produced its singletons, the only thing that unbalances the books,      *)
(* makes CCTX_getFinalGraph() fail.                                        *)
LEMMA GetFinalGraphBooks ==
    ASSUME BInv, HInv', GetFinalGraph
    PROVE  BInv'
<1>1. /\ phase = "flush" /\ HInv
      /\ UNCHANGED <<segmenterDepth, numSegments, sessionVars>>
  BY DEF GetFinalGraph, BInv
<1>2. CASE FlushReturns("err")
  BY <1>1, <1>2, FlushReturnsBooks
<1>3. CASE FinalGraphAllowed(nodes, streams)
  <2>1. /\ sent' = sent + Len(nodes) /\ phase' = "graph"
        /\ UNCHANGED <<nodes, streams, stack, numChunks>>
    BY <1>3 DEF GetFinalGraph
  <2>2. /\ nodes \in Seq(Node) /\ Len(nodes) \in Nat /\ DOMAIN nodes = 1 .. Len(nodes)
        /\ Len(streams) \in Nat
    <3>1. GraphOK(nodes, streams)
      BY <1>1 DEF HInv, IInv
    <3> QED BY <3>1, GraphTypes, LenProperties
  <2>3. Filled(nodes)
    BY <1>3, <2>2 DEF FinalGraphAllowed, Filled
  <2>4. Len(streams) <= StreamLimit
    <3>1. Len(streams) + 1 < StreamLimit
      BY <1>3 DEF FinalGraphAllowed
    <3> QED BY <2>2, <3>1
  <2>5. sent' = Len(nodes)
    <3>1. sent = 0
      BY <1>1 DEF BInv, SentInv
    <3> QED BY <2>1, <2>2, <3>1
  <2>6. UInv' /\ SentInv'
    BY <1>1, <2>1 DEF BInv, UInv, SentInv, sessionVars
  <2>7. Disciplined => SinglesIn(stack')
    BY <2>1 DEF BInv
  <2>8. ASSUME Rules PROVE CutInv' /\ BooksInv'
    <3>1. CutInv /\ BooksInv
      BY <2>8 DEF BInv, Rules
    <3>2. Tidy({}, nodes, streams, Len(inputs))
      BY <1>1, <2>3, <3>1 DEF BooksInv, Books
    <3>3. ASSUME NEW s \in 1 .. Len(streams)
          PROVE  streams[s].toStore <=> ~ Consumed(nodes, s)
      <4>1. /\ streams[s].toStore \/ Consumed(nodes, s) \/ s \in {}
            /\ ~ (streams[s].toStore /\ Consumed(nodes, s))
        BY <3>2 DEF Tidy, AccountsOK
      <4> QED BY <4>1
    <3>4. Balanced(nodes, streams, Len(inputs))
      BY <3>2, <3>3 DEF Tidy, Balanced
    <3>5. CutInv'
      BY <1>1, <2>1, <3>1 DEF CutInv, Going
    <3>6. BooksInv'
      <4>1. nodes' = nodes /\ streams' = streams /\ inputs' = inputs
        BY <1>1, <2>1 DEF sessionVars
      <4> QED BY <2>1, <2>4, <2>5, <3>4, <4>1 DEF BooksInv, Going
    <3> QED BY <3>5, <3>6
  <2> QED BY <1>1, <2>6, <2>7, <2>8 DEF BInv, Rules, sessionVars
<1> QED BY <1>2, <1>3 DEF GetFinalGraph

(* CCTX_flushChunk() replaces the graph by STORE.                          *)
LEMMA ReplaceWithStoreBooks ==
    ASSUME BInv, HInv', CCTX_replaceChunkWithStore
    PROVE  BInv'
<1>1. /\ phase = "graph" /\ HInv
      /\ UNCHANGED <<segmenterDepth, numSegments, sessionVars>>
  BY DEF CCTX_replaceChunkWithStore, BInv
<1>2. CASE FlushReturns("err")
  BY <1>1, <1>2, FlushReturnsBooks
<1>3. CASE /\ FinalGraphAllowed(StoreNodes(inputs), StoreStreams(inputs))
           /\ nodes' = StoreNodes(inputs) /\ streams' = StoreStreams(inputs)
           /\ sent' = Len(nodes') /\ phase' = "store" /\ UNCHANGED <<stack, numChunks>>
  <2>1. inputs \in Seq(Kind) /\ inputs' = inputs /\ permissive' = permissive
    BY <1>1 DEF HInv, IInv, RestOK, sessionVars
  <2>2. PICK kinds, nds, strs : kinds = inputs /\ nds = nodes' /\ strs = streams'
    OBVIOUS
  <2>3. Balanced(nds, strs, Len(kinds))
    BY <1>3, <2>1, <2>2, StoreBalanced
  <2>4. Len(strs) <= StreamLimit
    <3>1. Len(strs) + 1 < StreamLimit /\ Len(strs) \in Nat
      <4>1. GraphOK(nds, strs)
        BY <2>2 DEF HInv, IInv
      <4> QED BY <1>3, <2>2, <4>1, GraphTypes DEF FinalGraphAllowed
    <3> QED BY <3>1
  <2>5. UInv'
    <3> SUFFICES ASSUME ~ permissive PROVE Unstored(Debts(stack', segmenterDepth), streams')
      BY <1>1, <1>3, <2>1 DEF UInv
    <3>1. Len(stack) \in Nat /\ Len(stack) <= segmenterDepth /\ segmenterDepth \in Nat
      <4>1. /\ depth \in Nat /\ segmenterDepth \in Nat /\ (depth # 0 => depth = segmenterDepth)
        BY <1>1, FlushHeld
      <4>2. depth <= segmenterDepth
        BY <4>1
      <4> QED BY <4>1, <4>2 DEF depth
    <3>2. Debts(stack, segmenterDepth) = {}
      BY <3>1, NoDebts
    <3> QED BY <1>3, <3>2 DEF Unstored
  <2>6. SentInv'
    BY <1>3 DEF SentInv
  <2>7. Disciplined => SinglesIn(stack')
    BY <1>3 DEF BInv
  <2>8. ASSUME Rules PROVE CutInv' /\ BooksInv'
    <3>1. CutInv
      BY <2>8 DEF BInv, Rules
    <3>2. CutInv'
      BY <1>1, <1>3, <3>1 DEF CutInv, Going
    <3>3. BooksInv'
      BY <1>3, <2>1, <2>2, <2>3, <2>4 DEF BooksInv, Going
    <3> QED BY <3>2, <3>3
  <2> QED BY <2>1, <2>5, <2>6, <2>7, <2>8 DEF BInv, Rules
<1> QED BY <1>2, <1>3 DEF CCTX_replaceChunkWithStore

(* CCTX_flushChunk() returns.                                              *)
LEMMA WriteChunkBooks ==
    ASSUME BInv, HInv', WriteChunk
    PROVE  BInv'
<1>1. phase \in {"flush", "graph", "store"} /\ UNCHANGED <<segmenterDepth, sessionVars>>
  BY DEF WriteChunk
<1>2. PICK r \in {"ok", "err"} : FlushReturns(r) /\ (r = "ok" => numSegments' = numSegments + 1)
  BY DEF WriteChunk
<1> QED BY <1>1, <1>2, FlushReturnsBooks

-----------------------------------------------------------------------------
(* The session.                                                            *)

(* Without a stack nothing is owed.                                        *)
LEMMA EmptyBooks ==
    ASSUME HInv', stack' = <<>>, phase' \in {"idle", "start"}, sent' = 0,
           phase' = "start" => \A s \in 1 .. Len(streams') : ~ streams'[s].toStore
    PROVE  BInv'
<1>1. 1 .. Len(<<>>) = {}
  BY EmptySeq
<1>2. UInv'
  <2>1. \A sd : Debts(<<>>, sd) = {}
    BY <1>1 DEF Debts
  <2> QED BY <2>1 DEF UInv, Unstored
<1>3. SentInv' /\ CutInv' /\ BooksInv'
  BY DEF SentInv, CutInv, BooksInv, Going
<1>4. SinglesIn(stack')
  BY <1>1 DEF SinglesIn
<1> QED BY <1>2, <1>3, <1>4 DEF BInv

LEMMA StartCompressionBooks ==
    ASSUME BInv, HInv', CCTX_startCompression
    PROVE  BInv'
<1>1. /\ phase = "idle" /\ phase' = "start" /\ UNCHANGED <<stack, sent>>
      /\ streams' = RTGM_refInputs(inputs') /\ HInv
  BY DEF CCTX_startCompression, BInv
<1>2. stack = <<>> /\ sent = 0
  BY <1>1 DEF BInv, SentInv, HInv, IInv, PhaseOK
<1>3. PICK kinds, strs : kinds = inputs' /\ strs = streams'
  OBVIOUS
<1>4. kinds \in Seq(Kind) /\ strs = RTGM_refInputs(kinds)
  BY <1>1, <1>3 DEF HInv, IInv, RestOK
<1>5. \A s \in 1 .. Len(strs) : ~ strs[s].toStore
  <2>1. Len(strs) = Len(kinds) /\ DOMAIN kinds = 1 .. Len(kinds)
    BY <1>4, RefInputsAre, LenProperties
  <2>2. \A s \in 1 .. Len(strs) : strs[s] = NewStream(kinds[s])
    BY <1>4, <2>1 DEF RTGM_refInputs
  <2>3. \A k : ~ NewStream(k).toStore
    BY DEF NewStream
  <2> QED BY <2>2, <2>3
<1> QED BY <1>1, <1>2, <1>3, <1>5, EmptyBooks

LEMMA CleanBooks ==
    ASSUME BInv, HInv', CCTX_clean
    PROVE  BInv'
<1>1. stack' = <<>> /\ phase' = "idle" /\ sent' = 0
  BY DEF CCTX_clean, BInv, HInv, IInv, PhaseOK
<1> QED BY <1>1, EmptyBooks

LEMMA InitBooks == Init => BInv
<1> SUFFICES ASSUME Init PROVE BInv
  OBVIOUS
<1>1. HInv
  BY InitHeld
<1>2. 1 .. Len(<<>>) = {}
  BY EmptySeq
<1>3. stack = <<>> /\ phase = "idle" /\ sent = 0
  BY DEF Init
<1>4. UInv
  <2>1. \A sd : Debts(<<>>, sd) = {}
    BY <1>2 DEF Debts
  <2> QED BY <1>3, <2>1 DEF UInv, Unstored
<1>5. SentInv /\ CutInv /\ BooksInv
  BY <1>3 DEF SentInv, CutInv, BooksInv, Going
<1>6. SinglesIn(stack)
  BY <1>2, <1>3 DEF SinglesIn
<1> QED BY <1>1, <1>4, <1>5, <1>6 DEF BInv

-----------------------------------------------------------------------------
(* The books hold in every reachable state.                                *)

(* Every step preserves the invariant: one lemma per action.               *)
LEMMA NextBooks ==
    ASSUME PlainRoutes
    PROVE  BInv /\ depth <= UINT_MAX /\ [Next]_vars => BInv'
<1> SUFFICES ASSUME BInv, depth <= UINT_MAX, [Next]_vars PROVE BInv'
  OBVIOUS
<1>0. HInv'
  BY NextHeld DEF BInv
<1>1. CASE UNCHANGED vars
  <2>1. UNCHANGED <<stack, nodes, streams, segmenterDepth, phase, inputs, numSegments,
                    numChunks, sent, permissive>>
    BY <1>1 DEF vars
  <2>2. UInv' /\ SentInv'
    <3>1. UInv /\ SentInv
      BY DEF BInv
    <3>2. UInv'
      BY <2>1, <3>1 DEF UInv
    <3>3. SentInv'
      BY <2>1, <3>1 DEF SentInv
    <3> QED BY <3>2, <3>3
  <2>3. ASSUME Disciplined PROVE SinglesIn(stack') /\ (~ permissive' => CutInv' /\ BooksInv')
    <3>1. Going' <=> Going
      BY <2>1 DEF Going, Top, depth
    <3>2. depth' = depth /\ Top' = Top
      BY <2>1 DEF depth, Top
    <3>3. ASSUME ~ permissive, CutInv PROVE CutInv'
      BY <2>1, <3>1, <3>2, <3>3 DEF CutInv
    <3>4. ASSUME ~ permissive, BooksInv PROVE BooksInv'
      BY <2>1, <3>1, <3>2, <3>4 DEF BooksInv
    <3> QED BY <2>1, <2>3, <3>3, <3>4 DEF BInv
  <2> QED BY <1>0, <2>2, <2>3 DEF BInv
<1>2. CASE Rest
  BY <1>1, <1>2 DEF Rest
<1> QED
  BY <1>0, <1>1, <1>2, StartCompressionBooks, RunStartingGraphBooks, KeepInputBooks,
     ConvertInputBooks, StartGraphBooks, RunNodeBooks, SetDestinationBooks,
     SetDestinationTwiceBooks, UserGraphReturnsBooks, RedirectBooks,
     Compress1Books, RunNextSuccessorBooks, SuccessorsDoneBooks,
     TriggerBackupBooks, ReturnsBooks, GetFinalGraphBooks, ReplaceWithStoreBooks,
     WriteChunkBooks, ProcessChunkBooks, ChunkFailedBooks, SegmenterReturnsBooks,
     CleanBooks DEF Next

(* The invariant holds in every reachable state.                           *)
THEOREM BooksInductive ==
    ASSUME PlainRoutes
    PROVE  Spec /\ [](depth <= UINT_MAX) => []BInv
<1>1. Init => BInv
  BY InitBooks
<1>2. BInv /\ depth <= UINT_MAX /\ [Next]_vars => BInv'
  BY NextBooks
<1> QED BY <1>1, <1>2, PTL DEF Spec

(* What the invariant says of the streams that CCTX_runSuccessors() is     *)
(* about to hand over.                                                     *)
LEMMA BooksGuard == BInv => (~ permissive => GuardPrecondition)
<1> SUFFICES ASSUME BInv, ~ permissive, NEW d \in ActiveDepths, stack[d].pc = "succ",
                    NEW i \in Pending(stack[d]), NEW s \in Range(stack[d].edges[i].with)
             PROVE  ~ streams[s].toStore /\ streams[s].rank <= d
  BY DEF GuardPrecondition
<1>1. HInv /\ Unstored(Debts(stack, segmenterDepth), streams)
  BY DEF BInv, UInv
<1>2. d \in 1 .. Len(stack) /\ FrameHeld(stack[d], d, streams)
  BY <1>1, ActiveHeld
<1>3. i \in Open(stack[d])
  BY DEF Pending, Open
<1>4. Uses(stack[d], s)
  BY <1>3 DEF Uses, Leads
<1>5. d > segmenterDepth
  <2>1. /\ Held(stack, nodes, streams, segmenterDepth) /\ segmenterDepth \in Nat
        /\ StackOK(stack, Len(nodes)) /\ Len(nodes) \in Nat
    BY <1>1, GraphTypes DEF HInv, IInv, RestOK
  <2>2. Len(stack) \in Nat
    BY <2>1, StackTypes
  <2>3. d <= segmenterDepth => Quiet(stack[d])
    BY <1>2, <2>1 DEF Held, UnderOK
  <2>4. ~ Quiet(stack[d])
    BY <1>3 DEF Quiet
  <2> QED BY <1>2, <2>1, <2>2, <2>3, <2>4
<1>6. Sound(streams, s, d)
  BY <1>2, <1>4 DEF FrameHeld
<1>7. s \in Nat
  BY <1>6 DEF Sound
<1>8. s \in Debts(stack, segmenterDepth)
  BY <1>2, <1>4, <1>5, <1>7 DEF Debts, Owes
<1> QED BY <1>1, <1>6, <1>8 DEF Unstored, Sound

(* And of a chunk whose header is written.                                 *)
LEMMA BooksDecode ==
    ASSUME Disciplined
    PROVE  BInv => (~ permissive => WrittenChunkDecodes)
<1> SUFFICES ASSUME BInv, ~ permissive, phase \in {"graph", "store"}
             PROVE  ChunkDecodes(nodes, streams, Len(inputs)) /\ sent = Len(nodes)
  BY DEF WrittenChunkDecodes
<1>1. /\ Balanced(nodes, streams, Len(inputs)) /\ Len(streams) <= StreamLimit
      /\ sent = Len(nodes)
  BY DEF BInv, BooksInv
<1>2. GraphOK(nodes, streams) /\ inputs \in Seq(Kind) /\ inputs # <<>>
  BY DEF BInv, HInv, IInv, RestOK
<1>3. Len(inputs) \in Nat \ {0}
  BY <1>2, LenProperties, EmptySeq
<1> QED BY <1>1, <1>2, <1>3, BalancedDecodes

(* The assertions of RTGM_guardRTStream() (rtgraphs.c:503,508) hold when    *)
(* CCTX_runSuccessors() comes to the next successor: outside of permissive  *)
(* mode, whatever errors the callbacks ignore and whichever edges they      *)
(* repeat, none of its inputs is stored yet.  In permissive mode a fallback *)
(* is given the inputs of a graph that may have stored them already.        *)
THEOREM GuardsHold ==
    ASSUME PlainRoutes
    PROVE  Spec /\ [](depth <= UINT_MAX) => [](~ permissive => GuardPrecondition)
BY BooksGuard, BooksInductive, PTL

(* A chunk that CCTX_flushChunk() writes, be it the graph's or the one     *)
(* CCTX_replaceChunkWithStore() puts in its place, decodes: each node of   *)
(* the decoder finds its inputs where the encoder left them, every stored  *)
(* stream is used, and the outputs are the inputs of the session.          *)
THEOREM WrittenChunksDecode ==
    ASSUME PlainRoutes, Disciplined
    PROVE  Spec /\ [](depth <= UINT_MAX) => [](~ permissive => WrittenChunkDecodes)
BY BooksDecode, BooksInductive, PTL

(* Both without the hypothesis on the depth, where the flag that suspends  *)
(* the limit of the recursion is reliable.                                 *)
THEOREM TrustedChunksDecode ==
    ASSUME PlainRoutes, Disciplined, MaxGraphDepth + 2 <= UINT_MAX
    PROVE  Spec => [](Trusted => (~ permissive => GuardPrecondition /\ WrittenChunkDecodes))
<1> DEFINE Inv == DInv /\ StrictOK /\ (Trusted => BInv)
<1>1. Init => Inv
  BY InitDepth, InitBooks
<1>2. Inv /\ [Next]_vars => Inv'
  <2> SUFFICES ASSUME Inv, [Next]_vars PROVE Inv'
    OBVIOUS
  <2>0. ~ Swallow
    BY DEF Disciplined
  <2>1. (DInv /\ StrictOK)'
    BY <2>0, NextDepth, StrictStep
  <2>2. ASSUME Trusted' PROVE BInv'
    <3>1. Trusted
      <4>1. sessions \in Nat
        BY DEF DInv, IInv, RestOK
      <4>2. sessions' = sessions \/ sessions' = sessions + 1
        BY SessionsGrow
      <4>3. sessions' = 0 => sessions = 0
        BY <4>1, <4>2
      <4> QED BY <2>2, <4>3, Zenon DEF Trusted
    <3>2. depth <= MaxGraphDepth + 2 /\ depth \in Nat
      <4>1. stack \in Seq(Frame)
        BY DEF DInv, IInv, StackOK
      <4> QED BY <3>1, <4>1, DepthIs, LenProperties DEF depth
    <3>3. depth <= UINT_MAX
      BY <3>2 DEF UINT_MAX
    <3> QED BY <3>1, <3>3, NextBooks
  <2> QED BY <2>1, <2>2
<1>3. Inv => (Trusted => (~ permissive => GuardPrecondition /\ WrittenChunkDecodes))
  BY BooksGuard, BooksDecode
<1> HIDE DEF Inv
<1> QED BY <1>1, <1>2, <1>3, PTL DEF Spec

=============================================================================
