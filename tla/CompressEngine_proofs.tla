------------------------ MODULE CompressEngine_proofs ------------------------
(***************************************************************************)
(* Proofs about CompressEngine, for any limits, any number of inputs and   *)
(* sessions and any shape of nodes, and for callbacks that ignore errors   *)
(* (Swallow) or repeat edges (RepeatEdges) as well as for those that do    *)
(* not.                                                                    *)
(*                                                                         *)
(* The inductive invariant IInv says of the stack and of the two vectors   *)
(* of the runtime graph, each on its own, what the operations need:        *)
(*   StackOK(st, m)    the frames have their type and remember numbers of  *)
(*                     nodes that grow with the depth and do not exceed m; *)
(*   GraphOK(nds, st)  every node's first stream is in order, and at most  *)
(*                     one past the end of the streams;                    *)
(*   ModeOK(st, b)     at most one frame is a fallback, and then b is set; *)
(*   PhaseOK(ph, st)   where there is a stack, and that a chunk is flushed *)
(*                     for the session or for a segmenter.                 *)
(* A graph at "enter" has one edge per input it has looked at, and a graph *)
(* function has at least one edge (FrameOK).  A segmenter starts before    *)
(* any node has run, so it may empty the vectors under the outer frames.   *)
(*                                                                         *)
(* Two more invariants rest on it: HInv, on the lifetime of the streams    *)
(* that the activations on the stack still need, and DInv, on the flag     *)
(* that suspends the depth limit.  Each comes with the hypotheses without  *)
(* which it is false.                                                      *)
(***************************************************************************)
EXTENDS CompressEngine, FiniteSetTheorems, SequenceTheorems, TLAPS

USE EngineAssumption, LimitAssumption

FrameOK(f) ==
    /\ f.pc = "enter" => Len(f.edges) = f.next - 1
    /\ f.pc = "fn" => f.edges # <<>>
    /\ f.pc \in {"seg", "chunk", "chunkErr"} => f.graph = "segmenter"
    /\ f.graph = "segmenter" => f.nodesBefore = 0

StackOK(st, m) ==
    /\ st \in Seq(Frame)
    /\ \A d \in 1 .. Len(st) : FrameOK(st[d]) /\ st[d].nodesBefore <= m
    /\ \A d, e \in 1 .. Len(st) :
          d <= e => st[d].nodesBefore <= st[e].nodesBefore

GraphOK(nds, strs) ==
    /\ nds \in Seq(Node)
    /\ strs \in Seq(Stream)
    /\ \A m \in 1 .. Len(nds) : nds[m].start <= Len(strs) + 1
    /\ \A m, n \in 1 .. Len(nds) : m <= n => nds[m].start <= nds[n].start

RestOK ==
    /\ inBackupMode \in BOOLEAN
    /\ segmenterDepth \in Nat
    /\ numSegments \in Nat /\ numChunks \in Nat /\ sent \in Nat
    /\ inputs \in Seq(Kind)
    /\ permissive \in BOOLEAN
    /\ sessions \in Nat
    /\ phase # "idle" => inputs # <<>>
    /\ phase = "idle" => nodes = <<>>

PhaseOK(ph, st) ==
    /\ ph \in {"idle", "start", "run", "flush", "graph", "store", "ok", "err"}
    /\ ph = "run" => st # <<>>
    /\ ph \in {"idle", "start", "ok", "err"} => st = <<>>
    /\ ph \in {"flush", "graph", "store"} /\ st # <<>> =>
          st[Len(st)].graph = "segmenter"

(* b is the flag cctx->inBackupMode.                                       *)
ModeOK(st, b) ==
    /\ \A d \in 1 .. Len(st) : st[d].mode = "backup" => b
    /\ \A d, e \in 1 .. Len(st) :
          st[d].mode = "backup" /\ st[e].mode = "backup" => d = e

IInv ==
    /\ GraphOK(nodes, streams)
    /\ StackOK(stack, Len(nodes))
    /\ ModeOK(stack, inBackupMode)
    /\ RestOK
    /\ PhaseOK(phase, stack)

-----------------------------------------------------------------------------
(* Sequences.                                                              *)

(* A function on 1 .. n is a sequence of length n.                         *)
LEMMA FcnSeq ==
    ASSUME NEW S, NEW n \in Nat, NEW f \in [1 .. n -> S]
    PROVE  f \in Seq(S) /\ Len(f) = n
<1>1. f \in Seq(S)
  BY SeqDef
<1>2. QED
  BY <1>1, LenProperties

(* The first n elements.                                                   *)
LEMMA Prefix ==
    ASSUME NEW S, NEW s \in Seq(S), NEW n \in 0 .. Len(s)
    PROVE  /\ SubSeq(s, 1, n) \in Seq(S)
           /\ Len(SubSeq(s, 1, n)) = n
           /\ \A i \in 1 .. n : SubSeq(s, 1, n)[i] = s[i]
<1>1. n \in Nat /\ 1 \in Int /\ n \in Int /\ Len(s) \in Nat
  BY LenProperties
<1>2. \A i \in 1 .. n : s[i] \in S
  BY <1>1, ElementOfSeq
<1>3. /\ SubSeq(s, 1, n) \in Seq(S)
      /\ Len(SubSeq(s, 1, n)) = IF 1 <= n THEN n - 1 + 1 ELSE 0
      /\ \A i \in 1 .. n - 1 + 1 : SubSeq(s, 1, n)[i] = s[1 + i - 1]
  BY <1>1, <1>2, SubSeqProperties
<1>4. QED
  BY <1>1, <1>3

(* A list of streams with a length is not empty.                           *)
LEMMA LongSids ==
    ASSUME NEW n \in Nat \ {0}, NEW s \in [1 .. n -> Nat]
    PROVE  s \in SidList
<1>1. s \in Seq(Nat) /\ Len(s) = n
  BY FcnSeq
<1>2. Len(s) # 0
  BY <1>1
<1>3. s # <<>>
  BY <1>1, <1>2, EmptySeq
<1>4. QED
  BY <1>1, <1>3 DEF SidList

(* Sequences of one element.                                               *)
LEMMA Singleton ==
    ASSUME NEW S, NEW e \in S
    PROVE  <<e>> \in Seq(S) /\ <<e>> # <<>> /\ Len(<<e>>) = 1
OBVIOUS

-----------------------------------------------------------------------------
(* The stack.                                                              *)

(* What is used of the type of a frame.                                    *)
LEMMA FrameTypes ==
    ASSUME NEW f \in Frame
    PROVE  /\ f.nodesBefore \in Nat /\ f.graph \in Graphs /\ f.mode \in Mode
           /\ f.ins \in SidList /\ f.edges \in Seq(Edge)
           /\ f.next \in Nat /\ f.next >= 1 /\ f.pc \in PC
BY DEF Frame

(* The elements of a stack are frames.                                     *)
LEMMA StackTypes ==
    ASSUME NEW st, NEW m, StackOK(st, m)
    PROVE  /\ Len(st) \in Nat /\ DOMAIN st = 1 .. Len(st)
           /\ (st = <<>> <=> Len(st) = 0)
           /\ \A d \in 1 .. Len(st) :
                 st[d] \in Frame /\ st[d].nodesBefore \in Nat
<1>1. st \in Seq(Frame)
  BY DEF StackOK
<1>2. /\ Len(st) \in Nat /\ DOMAIN st = 1 .. Len(st)
      /\ (st = <<>> <=> Len(st) = 0)
  BY <1>1
<1>3. \A d \in 1 .. Len(st) : st[d] \in Frame
  BY <1>1, ElementOfSeq
<1>4. QED
  BY <1>2, <1>3, FrameTypes

(* The top frame is replaced by one that remembers the same nodes.         *)
LEMMA SetTopOK ==
    ASSUME NEW st, NEW k \in Nat, NEW m \in Nat, StackOK(st, k), st # <<>>,
           NEW f \in Frame, FrameOK(f),
           f.nodesBefore = st[Len(st)].nodesBefore, f.nodesBefore <= m
    PROVE  LET new == [st EXCEPT ![Len(st)] = f]
           IN  /\ StackOK(new, m)
               /\ new # <<>> /\ Len(new) = Len(st)
               /\ new[Len(new)] = f
               /\ \A d \in 1 .. Len(st) : d # Len(st) => new[d] = st[d]
<1> DEFINE new == [st EXCEPT ![Len(st)] = f]
<1>1. st \in Seq(Frame) /\ Len(st) \in 1 .. Len(st) /\ Len(st) \in Nat
  BY DEF StackOK
<1>2. /\ new \in Seq(Frame) /\ Len(new) = Len(st) /\ new # <<>>
      /\ \A j \in 1 .. Len(st) : new[j] = IF j = Len(st) THEN f ELSE st[j]
  BY <1>1, ExceptSeq
<1>3. \A d \in 1 .. Len(st) : st[d] \in Frame /\ st[d].nodesBefore \in Nat
  BY StackTypes
<1>4. \A d \in 1 .. Len(st) : st[d].nodesBefore <= f.nodesBefore
  BY <1>1, <1>3 DEF StackOK
<1>5. f.nodesBefore \in Nat
  BY FrameTypes
<1>6. \A d \in 1 .. Len(new) : FrameOK(new[d]) /\ new[d].nodesBefore <= m
  <2> SUFFICES ASSUME NEW d \in 1 .. Len(st)
               PROVE  FrameOK(new[d]) /\ new[d].nodesBefore <= m
    BY <1>2
  <2>1. FrameOK(st[d]) /\ st[d].nodesBefore <= m
    BY <1>3, <1>4, <1>5 DEF StackOK
  <2>2. new[d] = f \/ new[d] = st[d]
    BY <1>2
  <2>3. QED
    BY <2>1, <2>2
<1>7. \A d, e \in 1 .. Len(new) :
          d <= e => new[d].nodesBefore <= new[e].nodesBefore
  BY <1>1, <1>2, <1>3, <1>4, <1>5 DEF StackOK
<1>8. QED
  BY <1>1, <1>2, <1>6, <1>7 DEF StackOK

(* A new frame remembers all the nodes there are.                          *)
LEMMA PushOK ==
    ASSUME NEW st, NEW k \in Nat, StackOK(st, k),
           NEW f \in Frame, FrameOK(f), f.nodesBefore = k
    PROVE  /\ StackOK(Append(st, f), k)
           /\ Append(st, f) # <<>>
           /\ Append(st, f)[Len(Append(st, f))] = f
<1> DEFINE new == Append(st, f)
<1>1. st \in Seq(Frame) /\ Len(st) \in Nat
  BY DEF StackOK
<1>2. /\ new \in Seq(Frame) /\ Len(new) = Len(st) + 1 /\ new # <<>>
      /\ \A j \in 1 .. Len(st) : new[j] = st[j]
      /\ new[Len(st) + 1] = f
  BY <1>1, AppendProperties
<1>3. \A d \in 1 .. Len(st) : st[d].nodesBefore \in Nat
  BY StackTypes
<1>4. \A d \in 1 .. Len(new) : d \in 1 .. Len(st) \/ d = Len(st) + 1
  BY <1>1, <1>2
<1>5. \A d \in 1 .. Len(new) : FrameOK(new[d]) /\ new[d].nodesBefore <= k
  BY <1>1, <1>2, <1>4 DEF StackOK
<1>6. \A d, e \in 1 .. Len(new) :
          d <= e => new[d].nodesBefore <= new[e].nodesBefore
  BY <1>1, <1>2, <1>3, <1>4 DEF StackOK
<1>7. QED
  BY <1>2, <1>5, <1>6 DEF StackOK

(* The frames under the top one.                                           *)
LEMMA PopOK ==
    ASSUME NEW st, NEW k \in Nat, StackOK(st, k), st # <<>>
    PROVE  LET new == SubSeq(st, 1, Len(st) - 1)
           IN  /\ StackOK(new, k)
               /\ Len(new) = Len(st) - 1
               /\ \A d \in 1 .. Len(new) : new[d] = st[d]
<1> DEFINE new == SubSeq(st, 1, Len(st) - 1)
<1>1. st \in Seq(Frame) /\ Len(st) \in Nat /\ Len(st) >= 1
  BY DEF StackOK
<1>2. /\ new \in Seq(Frame) /\ Len(new) = Len(st) - 1
      /\ \A j \in 1 .. Len(st) - 1 : new[j] = st[j]
  <2>1. Len(st) - 1 \in 0 .. Len(st)
    BY <1>1
  <2>2. QED
    BY <1>1, <2>1, Prefix
<1>3. QED
  BY <1>1, <1>2 DEF StackOK

(* A frame that keeps its mode can replace the top one.                    *)
LEMMA ModeSetTop ==
    ASSUME NEW st, NEW k \in Nat, StackOK(st, k), st # <<>>,
           NEW f \in Frame, f.mode = st[Len(st)].mode, NEW b, ModeOK(st, b)
    PROVE  ModeOK([st EXCEPT ![Len(st)] = f], b)
<1> DEFINE new == [st EXCEPT ![Len(st)] = f]
<1>1. st \in Seq(Frame) /\ Len(st) \in 1 .. Len(st)
  BY DEF StackOK
<1>2. /\ Len(new) = Len(st)
      /\ \A j \in 1 .. Len(st) : new[j] = IF j = Len(st) THEN f ELSE st[j]
  BY <1>1, ExceptSeq
<1>3. \A j \in 1 .. Len(st) : new[j].mode = st[j].mode
  BY <1>2
<1> HIDE DEF new
<1>4. ModeOK(new, b)
  BY <1>2, <1>3 DEF ModeOK
<1>5. QED
  BY <1>4 DEF new

(* A frame that CCTX_runSuccessor() pushes is never a fallback.            *)
LEMMA ModePush ==
    ASSUME NEW st, NEW k \in Nat, StackOK(st, k),
           NEW f \in Frame, f.mode # "backup", NEW b, ModeOK(st, b)
    PROVE  ModeOK(Append(st, f), b)
<1> DEFINE new == Append(st, f)
<1>1. st \in Seq(Frame) /\ Len(st) \in Nat
  BY DEF StackOK
<1>2. /\ Len(new) = Len(st) + 1
      /\ \A j \in 1 .. Len(st) : new[j] = st[j]
      /\ new[Len(st) + 1] = f
  BY <1>1, AppendProperties
<1>3. \A j \in 1 .. Len(new) : new[j].mode = "backup" =>
          j \in 1 .. Len(st) /\ st[j].mode = "backup"
  BY <1>1, <1>2
<1> HIDE DEF new
<1>4. ModeOK(new, b)
  BY <1>3 DEF ModeOK
<1>5. QED
  BY <1>4 DEF new

(* Without its fallback frame a stack has none, and needs no flag.         *)
LEMMA ModePop ==
    ASSUME NEW st, NEW k \in Nat, StackOK(st, k), st # <<>>,
           NEW b, NEW c, ModeOK(st, b), c = b \/ st[Len(st)].mode = "backup"
    PROVE  ModeOK(SubSeq(st, 1, Len(st) - 1), c)
<1> DEFINE new == SubSeq(st, 1, Len(st) - 1)
<1>1. st \in Seq(Frame) /\ Len(st) \in Nat /\ Len(st) >= 1
  BY DEF StackOK
<1>2. /\ Len(new) = Len(st) - 1
      /\ \A d \in 1 .. Len(new) : new[d] = st[d]
  BY PopOK
<1> HIDE DEF new
<1>3. \A d \in 1 .. Len(new) : d \in 1 .. Len(st) /\ d # Len(st)
  BY <1>1, <1>2
<1>4. \A d \in 1 .. Len(new) : new[d].mode = "backup" => c
  BY <1>1, <1>2, <1>3 DEF ModeOK
<1>5. ModeOK(new, c)
  BY <1>2, <1>3, <1>4 DEF ModeOK
<1>6. QED
  BY <1>5 DEF new

(* A frame that only moves to another label.                               *)
LEMMA GotoOK ==
    ASSUME NEW f \in Frame, NEW label \in PC
    PROVE  LET g == [f EXCEPT !.pc = label]
           IN  /\ g \in Frame /\ g.pc = label
               /\ g.graph = f.graph /\ g.nodesBefore = f.nodesBefore
               /\ g.mode = f.mode /\ g.edges = f.edges /\ g.next = f.next
BY DEF Frame

(* The frame of the caller when a call failed.                             *)
LEMMA FailedOK ==
    ASSUME NEW f \in Frame, FrameOK(f)
    PROVE  /\ Failed(f) \in Frame /\ FrameOK(Failed(f))
           /\ Failed(f).graph = f.graph /\ Failed(f).mode = f.mode
           /\ Failed(f).nodesBefore = f.nodesBefore
<1>1. "chunkErr" \in PC /\ "err" \in PC
  BY DEF PC
<1>2. CASE f.graph = "segmenter"
  <2>1. Failed(f) = [f EXCEPT !.pc = "chunkErr"]
    BY <1>2 DEF Failed
  <2>2. QED
    BY <1>1, <1>2, <2>1, GotoOK DEF FrameOK
<1>3. CASE f.graph # "segmenter"
  <2>1. Failed(f) = [f EXCEPT !.pc = "err"]
    BY <1>3 DEF Failed
  <2>2. QED
    BY <1>1, <1>3, <2>1, GotoOK DEF FrameOK
<1>4. QED
  BY <1>2, <1>3

(* A result goes to the frame on top of callers, or leaves the stack.      *)
LEMMA ReturnOK ==
    ASSUME NEW STATE callers, NEW STATE m, m \in Nat, StackOK(callers, m),
           NEW STATE r, r \in {"ok", "err"}, ReturnTo(callers, r),
           NEW b, ModeOK(callers, b)
    PROVE  /\ StackOK(stack', m) /\ ModeOK(stack', b)
           /\ PhaseOK(phase', stack')
           /\ phase' # "idle"
<1>1. callers \in Seq(Frame) /\ Len(callers) \in Nat
      /\ (Len(callers) = 0 <=> callers = <<>>)
  BY DEF StackOK
<1>2. CASE Len(callers) = 0 \/ r = "ok"
  <2>1. stack' = callers
    BY <1>2 DEF ReturnTo
  <2>2. PhaseOK(phase', callers)
    BY <1>1, <1>2 DEF ReturnTo, PhaseOK
  <2>3. QED
    BY <1>2, <2>1, <2>2 DEF ReturnTo
<1>3. CASE Len(callers) # 0 /\ r = "err"
  <2>1. /\ callers[Len(callers)] \in Frame /\ FrameOK(callers[Len(callers)])
        /\ callers[Len(callers)].nodesBefore <= m
    BY <1>1, <1>3 DEF StackOK
  <2>2. PICK g : g = Failed(callers[Len(callers)])
    OBVIOUS
  <2>3. /\ g \in Frame /\ FrameOK(g)
        /\ g.nodesBefore = callers[Len(callers)].nodesBefore
        /\ g.mode = callers[Len(callers)].mode
    BY <2>1, <2>2, FailedOK
  <2>4. stack' = [callers EXCEPT ![Len(callers)] = g] /\ phase' = "run"
    BY <1>1, <1>3, <2>2 DEF ReturnTo
  <2>5. StackOK(stack', m) /\ stack' # <<>>
    BY <1>1, <1>3, <2>1, <2>3, <2>4, SetTopOK
  <2>6. ModeOK(stack', b)
    BY <1>1, <1>3, <2>3, <2>4, ModeSetTop
  <2>7. QED
    BY <2>4, <2>5, <2>6 DEF PhaseOK
<1>4. QED
  BY <1>2, <1>3

-----------------------------------------------------------------------------
(* The runtime graph.                                                      *)

(* Operations that go over all the streams keep the type and the length.   *)
LEMMA StreamUpdates ==
    ASSUME NEW strs \in Seq(Stream), NEW ins, NEW d \in Nat, NEW s
    PROVE  /\ RTGM_guardRTStream(strs, ins, d) \in Seq(Stream)
           /\ Len(RTGM_guardRTStream(strs, ins, d)) = Len(strs)
           /\ RTGM_clearRTStream(strs, ins, d) \in Seq(Stream)
           /\ Len(RTGM_clearRTStream(strs, ins, d)) = Len(strs)
           /\ RTGM_storeStream(strs, s) \in Seq(Stream)
           /\ Len(RTGM_storeStream(strs, s)) = Len(strs)
<1>1. /\ DOMAIN strs = 1 .. Len(strs) /\ Len(strs) \in Nat
      /\ \A i \in 1 .. Len(strs) : strs[i] \in Stream
  BY LenProperties, ElementOfSeq
<1>2. \A x \in Stream : /\ [x EXCEPT !.rank = d] \in Stream
                        /\ [x EXCEPT !.live = FALSE] \in Stream
                        /\ [x EXCEPT !.toStore = TRUE] \in Stream
  BY DEF Stream
<1>3. RTGM_guardRTStream(strs, ins, d) \in [1 .. Len(strs) -> Stream]
  BY <1>1, <1>2 DEF RTGM_guardRTStream
<1>4. RTGM_clearRTStream(strs, ins, d) \in [1 .. Len(strs) -> Stream]
  BY <1>1, <1>2 DEF RTGM_clearRTStream
<1>5. RTGM_storeStream(strs, s) \in [1 .. Len(strs) -> Stream]
  <2>1. strs \in [1 .. Len(strs) -> Stream]
    BY LenProperties
  <2>2. CASE s \in 1 .. Len(strs)
    <3>1. PICK x \in Stream : x = [strs[s] EXCEPT !.toStore = TRUE]
      BY <1>1, <1>2, <2>2
    <3>2. RTGM_storeStream(strs, s) = [strs EXCEPT ![s] = x]
      BY <3>1 DEF RTGM_storeStream
    <3>3. QED
      BY <2>1, <3>2
  <2>3. CASE s \notin 1 .. Len(strs)
    <3>1. RTGM_storeStream(strs, s) = strs
      BY <1>1, <2>1, <2>3 DEF RTGM_storeStream
    <3>2. QED
      BY <2>1, <3>1
  <2>4. QED
    BY <2>2, <2>3
<1>6. QED
  BY <1>1, <1>3, <1>4, <1>5, FcnSeq

(* The vectors of a runtime graph are sequences.                           *)
LEMMA GraphTypes ==
    ASSUME NEW nds, NEW strs, GraphOK(nds, strs)
    PROVE  /\ nds \in Seq(Node) /\ Len(nds) \in Nat
           /\ strs \in Seq(Stream) /\ Len(strs) \in Nat
           /\ \A m \in 1 .. Len(nds) : nds[m].start \in Nat
<1>1. nds \in Seq(Node) /\ strs \in Seq(Stream)
  BY DEF GraphOK
<1>2. \A x \in Node : x.start \in Nat
  BY DEF Node
<1>3. \A m \in 1 .. Len(nds) : nds[m] \in Node
  BY <1>1, ElementOfSeq
<1>4. QED
  BY <1>1, <1>2, <1>3, LenProperties

(* GraphOK depends on the streams only through their type and number.      *)
LEMMA SameLength ==
    ASSUME NEW nds, NEW strs, NEW new \in Seq(Stream), GraphOK(nds, strs),
           Len(new) >= Len(strs)
    PROVE  GraphOK(nds, new)
<1>1. Len(new) \in Nat /\ Len(strs) \in Nat
  BY LenProperties, GraphTypes
<1>2. \A m \in 1 .. Len(nds) : nds[m].start \in Nat
  BY GraphTypes
<1>3. QED
  BY <1>1, <1>2 DEF GraphOK

(* The streams of the inputs, in an empty graph.                           *)
LEMMA RefInputsOK ==
    ASSUME NEW kinds \in Seq(Kind)
    PROVE  GraphOK(<<>>, RTGM_refInputs(kinds))
<1>1. /\ DOMAIN kinds = 1 .. Len(kinds) /\ Len(kinds) \in Nat
      /\ \A i \in 1 .. Len(kinds) : kinds[i] \in Kind
  BY LenProperties, ElementOfSeq
<1>2. \A k \in Kind : NewStream(k) \in Stream
  BY DEF NewStream, Stream
<1>3. RTGM_refInputs(kinds) \in [1 .. Len(kinds) -> Stream]
  BY <1>1, <1>2 DEF RTGM_refInputs
<1>4. RTGM_refInputs(kinds) \in Seq(Stream)
  BY <1>1, <1>3, FcnSeq
<1>5. <<>> \in Seq(Node) /\ Len(<<>>) = 0
  BY EmptySeq
<1>6. QED
  BY <1>4, <1>5 DEF GraphOK

(* The streams a transform adds.                                           *)
LEMMA AddStreamsOK ==
    ASSUME NEW strs \in Seq(Stream), NEW out1s \in Nat, NEW made \in Nat,
           NEW kind \in Kind
    PROVE  /\ RTGM_addStreams(strs, out1s, made, kind) \in Seq(Stream)
           /\ Len(RTGM_addStreams(strs, out1s, made, kind)) >= Len(strs)
<1> DEFINE n == IF made > out1s THEN made ELSE out1s
           new == [i \in 1 .. n |-> IF i <= made THEN NewStream(kind)
                                    ELSE NoStream]
<1>1. NewStream(kind) \in Stream /\ NoStream \in Stream
  BY DEF NewStream, NoStream, Stream, Kind
<1>2. n \in Nat
  OBVIOUS
<1>3. new \in [1 .. n -> Stream]
  BY <1>1
<1>4. new \in Seq(Stream) /\ Len(new) \in Nat
  BY <1>2, <1>3, FcnSeq
<1>5. strs \o new \in Seq(Stream) /\ Len(strs \o new) = Len(strs) + Len(new)
  BY <1>4, ConcatProperties
<1>6. Len(strs) \in Nat
  BY LenProperties
<1>7. QED
  BY <1>4, <1>5, <1>6 DEF RTGM_addStreams

(* A node enters the graph with its streams.                               *)
LEMMA CreateNodeOK ==
    ASSUME NEW nds, NEW strs, GraphOK(nds, strs), NEW ins \in Seq(Nat),
           NEW out1s \in Nat, NEW made \in Nat,
           NEW new \in Seq(Stream), Len(new) >= Len(strs)
    PROVE  GraphOK(RTGM_createNode(nds, strs, ins, out1s, made), new)
<1> DEFINE node == [ins |-> ins, start |-> Len(strs) + 1, out1s |-> out1s,
                    outs |-> made]
           all == Append(nds, node)
<1>1. /\ Len(new) \in Nat /\ Len(strs) \in Nat /\ Len(nds) \in Nat
      /\ nds \in Seq(Node)
  BY LenProperties DEF GraphOK
<1>2. node \in Node /\ node.start = Len(strs) + 1
  BY <1>1 DEF Node
<1>3. \A m \in 1 .. Len(nds) : nds[m].start \in Nat
  BY GraphTypes
<1>4. /\ all \in Seq(Node) /\ Len(all) = Len(nds) + 1
      /\ \A m \in 1 .. Len(nds) : all[m] = nds[m]
      /\ all[Len(nds) + 1] = node
  BY <1>1, <1>2, AppendProperties
<1>5. \A m \in 1 .. Len(nds) : nds[m].start <= Len(strs) + 1
  BY DEF GraphOK
<1>6. \A m \in 1 .. Len(all) : m \in 1 .. Len(nds) \/ m = Len(nds) + 1
  BY <1>1, <1>4
<1>7. /\ \A m \in 1 .. Len(nds) : all[m].start = nds[m].start
      /\ all[Len(nds) + 1].start = Len(strs) + 1
  BY <1>2, <1>4
<1> HIDE DEF node, all
<1>8. \A m \in 1 .. Len(all) : all[m].start <= Len(new) + 1
  <2> SUFFICES ASSUME NEW m \in 1 .. Len(all)
               PROVE  all[m].start <= Len(new) + 1
    OBVIOUS
  <2>1. CASE m \in 1 .. Len(nds)
    BY <1>1, <1>3, <1>5, <1>7, <2>1
  <2>2. CASE m = Len(nds) + 1
    BY <1>1, <1>7, <2>2
  <2>3. QED
    BY <1>6, <2>1, <2>2
<1>9. \A m, n \in 1 .. Len(all) : m <= n => all[m].start <= all[n].start
  <2> SUFFICES ASSUME NEW m \in 1 .. Len(all), NEW n \in 1 .. Len(all), m <= n
               PROVE  all[m].start <= all[n].start
    OBVIOUS
  <2>1. CASE n \in 1 .. Len(nds)
    <3>1. m \in 1 .. Len(nds)
      BY <1>1, <1>4, <2>1
    <3>2. nds[m].start <= nds[n].start
      BY <2>1, <3>1 DEF GraphOK
    <3>3. QED
      BY <1>7, <2>1, <3>1, <3>2
  <2>2. CASE n = Len(nds) + 1
    <3>1. CASE m \in 1 .. Len(nds)
      BY <1>1, <1>3, <1>5, <1>7, <2>2, <3>1
    <3>2. CASE m = Len(nds) + 1
      BY <1>1, <1>7, <2>2, <3>2
    <3>3. QED
      BY <1>6, <3>1, <3>2
  <2>3. QED
    BY <1>6, <2>1, <2>2
<1>10. QED
  BY <1>4, <1>8, <1>9 DEF GraphOK, RTGM_createNode, all, node

(* RTGM_createNode() adds one node.                                        *)
LEMMA CreateNodeLen ==
    ASSUME NEW nds, NEW strs, GraphOK(nds, strs), NEW ins \in Seq(Nat),
           NEW out1s \in Nat, NEW made \in Nat
    PROVE  Len(RTGM_createNode(nds, strs, ins, out1s, made)) = Len(nds) + 1
<1> DEFINE node == [ins |-> ins, start |-> Len(strs) + 1, out1s |-> out1s,
                    outs |-> made]
<1>1. nds \in Seq(Node) /\ Len(strs) \in Nat
  BY GraphTypes
<1>2. node \in Node
  BY <1>1 DEF Node
<1>3. QED
  BY <1>1, <1>2, AppendProperties DEF RTGM_createNode

(* RTGM_clearNodesFrom() leaves a runtime graph.                           *)
LEMMA RevertOK ==
    ASSUME NEW nds, NEW strs, GraphOK(nds, strs), NEW n \in Nat,
           n <= Len(nds)
    PROVE  /\ GraphOK(NodesUpTo(nds, n), StreamsBeforeNode(nds, strs, n))
           /\ Len(NodesUpTo(nds, n)) = n
<1>1. /\ nds \in Seq(Node) /\ Len(nds) \in Nat
      /\ strs \in Seq(Stream) /\ Len(strs) \in Nat
  BY LenProperties DEF GraphOK
<1>2. \A m \in 1 .. Len(nds) : nds[m].start \in Nat
  BY GraphTypes
<1>3. /\ NodesUpTo(nds, n) \in Seq(Node) /\ Len(NodesUpTo(nds, n)) = n
      /\ \A m \in 1 .. n : NodesUpTo(nds, n)[m] = nds[m]
  <2>1. n \in 0 .. Len(nds)
    BY <1>1
  <2>2. QED
    BY <1>1, <2>1, Prefix DEF NodesUpTo
<1>4. CASE Len(nds) = n
  <2>1. StreamsBeforeNode(nds, strs, n) = strs
    BY <1>4 DEF StreamsBeforeNode
  <2>2. QED
    BY <1>1, <1>3, <1>4, <2>1 DEF GraphOK
<1>5. CASE Len(nds) # n
  <2>1. n + 1 \in 1 .. Len(nds)
    BY <1>1, <1>5
  <2>2. \A m \in 1 .. n : /\ m \in 1 .. Len(nds)
                          /\ NodesUpTo(nds, n)[m].start = nds[m].start
    BY <1>1, <1>3
  <2>3. CASE nds[n + 1].start >= 1
    <3> DEFINE k == nds[n + 1].start - 1
    <3>1. k \in 0 .. Len(strs)
      BY <1>1, <1>2, <2>1, <2>3 DEF GraphOK
    <3>2. /\ StreamsBeforeNode(nds, strs, n) \in Seq(Stream)
          /\ Len(StreamsBeforeNode(nds, strs, n)) = k
      BY <1>1, <1>5, <3>1, Prefix DEF StreamsBeforeNode
    <3>3. \A m \in 1 .. n : nds[m].start <= k + 1
      BY <1>1, <1>2, <2>1 DEF GraphOK
    <3>4. QED
      BY <1>3, <3>2, <3>3, <2>2 DEF GraphOK
  <2>4. CASE nds[n + 1].start = 0
    <3>1. StreamsBeforeNode(nds, strs, n) = <<>>
      BY <1>5, <2>4, SubSeqEmpty DEF StreamsBeforeNode
    <3>2. <<>> \in Seq(Stream) /\ Len(<<>>) = 0
      BY EmptySeq
    <3>3. \A m \in 1 .. n : nds[m].start <= 1
      BY <1>1, <1>2, <2>1, <2>4 DEF GraphOK
    <3>4. QED
      BY <1>3, <3>1, <3>2, <3>3, <2>2 DEF GraphOK
  <2>5. QED
    BY <1>2, <2>1, <2>3, <2>4
<1>6. QED
  BY <1>3, <1>4, <1>5

NodeShape == [out1s : Nat, vos : Nat, kind : Kind]

(* CCTX_runCNode_wParams(), whatever its result, only adds to the graph.   *)
LEMMA NodeRunsOK ==
    ASSUME GraphOK(nodes, streams),
           NEW STATE ins, ins \in Seq(Nat), NEW STATE shape, shape \in NodeShape,
           NEW made \in Nat, NEW r \in {"ok", "failed", "noStream", "noNode"},
           NodeRuns(ins, shape, made, r)
    PROVE  GraphOK(nodes', streams') /\ Len(nodes') >= Len(nodes)
<1> DEFINE all == RTGM_addStreams(streams, shape.out1s, made, shape.kind)
<1>1. shape.out1s \in Nat /\ shape.kind \in Kind
  BY DEF NodeShape
<1>2. streams \in Seq(Stream) /\ Len(streams) \in Nat /\ Len(nodes) \in Nat
  BY GraphTypes
<1>3. all \in Seq(Stream) /\ Len(all) >= Len(streams)
  BY <1>1, <1>2, AddStreamsOK
<1> DEFINE freed == RTGM_clearRTStream(all, ins, 0)
           grown == RTGM_createNode(nodes, streams, ins, shape.out1s, made)
           short == RTGM_createNode(nodes, streams, ins, shape.out1s, 0)
<1> HIDE DEF all
<1>4. freed \in Seq(Stream) /\ Len(freed) >= Len(streams)
  <2>1. 0 \in Nat
    OBVIOUS
  <2>2. freed \in Seq(Stream) /\ Len(freed) = Len(all)
    BY <1>3, <2>1, StreamUpdates
  <2>3. QED
    BY <1>3, <2>2
<1>5. /\ GraphOK(grown, all) /\ GraphOK(grown, freed)
      /\ Len(grown) = Len(nodes) + 1
  <2> HIDE DEF freed
  <2>1. GraphOK(grown, all)
    BY <1>1, <1>3, CreateNodeOK
  <2>2. GraphOK(grown, freed)
    BY <1>1, <1>4, CreateNodeOK
  <2>3. Len(grown) = Len(nodes) + 1
    BY <1>1, CreateNodeLen
  <2>4. QED
    BY <2>1, <2>2, <2>3
<1>6. GraphOK(short, streams) /\ Len(short) = Len(nodes) + 1
  <2>1. 0 \in Nat /\ Len(streams) >= Len(streams)
    BY <1>2
  <2>2. GraphOK(short, streams)
    BY <1>1, <1>2, <2>1, CreateNodeOK
  <2>3. Len(short) = Len(nodes) + 1
    BY <1>1, <2>1, CreateNodeLen
  <2>4. QED
    BY <2>2, <2>3
<1> HIDE DEF freed, grown, short
<1>7. CASE r = "ok"
  <2>1. nodes' = grown /\ streams' = freed
    BY <1>7 DEF NodeRuns, grown, freed, all
  <2>2. QED
    BY <1>2, <1>5, <2>1
<1>8. CASE r = "failed"
  <2>1. nodes' = grown /\ streams' = all
    BY <1>8 DEF NodeRuns, grown, all
  <2>2. QED
    BY <1>2, <1>5, <2>1
<1>9. CASE r = "noStream"
  <2>1. nodes' = short /\ streams' = streams
    BY <1>9 DEF NodeRuns, short
  <2>2. QED
    BY <1>2, <1>6, <2>1
<1>10. CASE r = "noNode"
  <2>1. nodes' = nodes /\ streams' = streams
    BY <1>10 DEF NodeRuns
  <2>2. QED
    BY <1>2, <2>1
<1>11. QED
  BY <1>7, <1>8, <1>9, <1>10

(* A conversion node is a node like the ones of the user.                  *)
LEMMA ConversionType == ConversionShape \in NodeShape
BY DEF ConversionShape, NodeShape, Kind

(* The number of typed inputs.                                             *)
LEMMA NbTypedNat ==
    ASSUME NEW kinds \in Seq(Kind), NEW n \in Nat
    PROVE  NbTyped(kinds, n) \in Nat
<1>1. IsFiniteSet(1 .. n)
  BY FS_Interval
<1>2. IsFiniteSet({m \in 1 .. n : kinds[m] = "typed"})
  BY <1>1, FS_Subset
<1>3. QED
  BY <1>2, FS_CardinalityType DEF NbTyped

(* The graph of a chunk that is stored.                                    *)
LEMMA StoreGraphOK ==
    ASSUME NEW kinds \in Seq(Kind)
    PROVE  GraphOK(StoreNodes(kinds), StoreStreams(kinds))
<1> DEFINE L == Len(kinds)
           T == NbTyped(kinds, L)
           ins == [n \in DOMAIN kinds |->
                     [NewStream(kinds[n]) EXCEPT !.toStore = (kinds[n] # "typed")]]
           outs == [j \in 1 .. T |-> [NewStream("serial") EXCEPT !.toStore = TRUE]]
<1>1. /\ DOMAIN kinds = 1 .. L /\ L \in Nat
      /\ \A i \in 1 .. L : kinds[i] \in Kind
  BY LenProperties, ElementOfSeq
<1>2. T \in Nat
  BY <1>1, NbTypedNat
<1>3. \A j \in 1 .. T : TypedInput(kinds, j) \in Nat
  <2> TAKE j \in 1 .. T
  <2>1. IsFiniteSet(1 .. L)
    BY <1>1, FS_Interval
  <2>2. IsFiniteSet({n \in 1 .. Len(kinds) : NbTyped(kinds, n) < j})
    BY <2>1, FS_Subset
  <2>3. QED
    BY <2>2, FS_CardinalityType DEF TypedInput
<1>4. \A j \in 1 .. T : StoreNodes(kinds)[j] \in Node
                        /\ StoreNodes(kinds)[j].start = L + j
  <2> TAKE j \in 1 .. T
  <2>1. <<TypedInput(kinds, j)>> \in Seq(Nat)
    BY <1>3, Singleton
  <2>2. StoreNodes(kinds)[j] = [ins |-> <<TypedInput(kinds, j)>>,
                                start |-> L + j, out1s |-> 1, outs |-> 1]
    BY DEF StoreNodes
  <2>3. QED
    BY <1>1, <1>2, <2>1, <2>2 DEF Node
<1>5. StoreNodes(kinds) \in Seq(Node) /\ Len(StoreNodes(kinds)) = T
  <2>1. StoreNodes(kinds) \in [1 .. T -> Node]
    BY <1>4 DEF StoreNodes
  <2>2. QED
    BY <1>2, <2>1, FcnSeq
<1>6. ins \in Seq(Stream) /\ Len(ins) = L
  <2>1. \A k \in Kind : \A b \in BOOLEAN :
           [NewStream(k) EXCEPT !.toStore = b] \in Stream
    BY DEF NewStream, Stream
  <2>2. ins \in [1 .. L -> Stream]
    BY <1>1, <2>1
  <2>3. QED
    BY <1>1, <2>2, FcnSeq
<1>7. outs \in Seq(Stream) /\ Len(outs) = T
  <2>1. [NewStream("serial") EXCEPT !.toStore = TRUE] \in Stream
    BY DEF NewStream, Stream, Kind
  <2>2. outs \in [1 .. T -> Stream]
    BY <2>1
  <2>3. QED
    BY <1>2, <2>2, FcnSeq
<1>8. StoreStreams(kinds) \in Seq(Stream) /\ Len(StoreStreams(kinds)) = L + T
  <2>1. ins \o outs \in Seq(Stream) /\ Len(ins \o outs) = Len(ins) + Len(outs)
    BY <1>6, <1>7, ConcatProperties
  <2>2. StoreStreams(kinds) = ins \o outs
    BY DEF StoreStreams
  <2>3. QED
    BY <1>6, <1>7, <2>1, <2>2
<1> HIDE DEF L, T
<1>9. QED
  BY <1>1, <1>2, <1>4, <1>5, <1>8 DEF GraphOK

-----------------------------------------------------------------------------
(* Edges.                                                                  *)

(* What is used of the type of an edge.                                    *)
LEMMA EdgeTypes ==
    ASSUME NEW e \in Edge
    PROVE  /\ e.sid \in Nat /\ e.graph \in Graphs /\ e.with \in SidList
           /\ [e EXCEPT !.st = "processed"] \in Edge
           /\ [e EXCEPT !.st = "follow"] \in Edge
           /\ \A g \in Graphs : [e EXCEPT !.st = "trigger", !.graph = g] \in Edge
           /\ \A g \in Graphs, w \in SidList :
                 [e EXCEPT !.st = "trigger", !.graph = g, !.with = w] \in Edge
BY DEF Edge, EdgeState

(* A single stream is a list of inputs.                                    *)
LEMMA OneSid ==
    ASSUME NEW sid \in Nat
    PROVE  <<sid>> \in SidList /\ <<sid>> \in Seq(Nat)
BY Singleton DEF SidList

(* SCTX_initInput() makes an edge.                                         *)
LEMMA NewEdgeOK ==
    ASSUME NEW sid \in Nat
    PROVE  NewEdge(sid) \in Edge
<1>1. <<sid>> \in SidList
  BY OneSid
<1>2. "generic" \in Graphs /\ "unassigned" \in EdgeState
  BY DEF Graphs, EdgeState
<1>3. QED
  BY <1>1, <1>2 DEF NewEdge, Edge

(* One edge or two of them, as a list of streams.                          *)
LEMMA SidsOK ==
    ASSUME NEW edges \in Seq(Edge), NEW choice \in SUBSET DOMAIN edges,
           NEW list \in EdgeLists(choice)
    PROVE  Sids(edges, list) \in SidList
<1>1. \A i \in choice : edges[i] \in Edge /\ edges[i].sid \in Nat
  BY ElementOfSeq, LenProperties, EdgeTypes
<1>2. ASSUME NEW i \in choice, list = <<i>>
      PROVE  Sids(edges, list) \in SidList
  <2>1. DOMAIN list = 1 .. 1 /\ list[1] = i
    BY <1>2
  <2>2. Sids(edges, list) \in [1 .. 1 -> Nat]
    BY <1>1, <1>2, <2>1 DEF Sids
  <2>3. 1 \in Nat \ {0}
    OBVIOUS
  <2>4. QED
    BY <2>2, <2>3, LongSids, Zenon
<1>3. ASSUME NEW i \in choice, NEW j \in choice, list = <<i, j>>
      PROVE  Sids(edges, list) \in SidList
  <2>1. DOMAIN list = 1 .. 2 /\ list[1] = i /\ list[2] = j
    BY <1>3
  <2>2. Sids(edges, list) \in [1 .. 2 -> Nat]
    BY <1>1, <1>3, <2>1 DEF Sids
  <2>3. 2 \in Nat \ {0}
    OBVIOUS
  <2>4. QED
    BY <2>2, <2>3, LongSids, Zenon
<1>4. \/ \E i \in choice : list = <<i>>
      \/ \E i, j \in choice : list = <<i, j>>
  BY DEF EdgeLists
<1>5. QED
  BY <1>2, <1>3, <1>4

(* New edges for the outputs of a node.                                    *)
LEMMA NewEdgesOK ==
    ASSUME NEW k \in Nat, NEW made \in Nat
    PROVE  [i \in 1 .. made |-> NewEdge(k + i)] \in Seq(Edge)
<1>1. \A i \in 1 .. made : NewEdge(k + i) \in Edge
  BY NewEdgeOK
<1>2. [i \in 1 .. made |-> NewEdge(k + i)] \in [1 .. made -> Edge]
  BY <1>1
<1>3. QED
  BY <1>2, FcnSeq

(* The edges after a node: there are no fewer.                             *)
LEMMA ProcessEdgesOK ==
    ASSUME NEW edges \in Seq(Edge), edges # <<>>, NEW list,
           NEW made \in Nat, streams \in Seq(Stream)
    PROVE  ProcessEdges(edges, list, made) \in Seq(Edge) \ {<<>>}
<1> DEFINE old == [i \in DOMAIN edges |->
                     IF i \in Range(list)
                     THEN [edges[i] EXCEPT !.st = "processed"] ELSE edges[i]]
           new == [k \in 1 .. made |-> NewEdge(Len(streams) + k)]
<1>1. /\ DOMAIN edges = 1 .. Len(edges) /\ Len(edges) \in Nat
      /\ Len(edges) # 0
      /\ \A i \in 1 .. Len(edges) : edges[i] \in Edge
  BY LenProperties, ElementOfSeq, EmptySeq
<1>2. old \in [1 .. Len(edges) -> Edge]
  BY <1>1, EdgeTypes
<1>3. old \in Seq(Edge) /\ Len(old) = Len(edges)
  BY <1>1, <1>2, FcnSeq
<1>4. new \in Seq(Edge) /\ Len(new) \in Nat
  BY LenProperties, NewEdgesOK
<1>5. old \o new \in Seq(Edge) /\ Len(old \o new) = Len(old) + Len(new)
  BY <1>3, <1>4, ConcatProperties
<1>6. ProcessEdges(edges, list, made) = old \o new
  BY DEF ProcessEdges
<1> HIDE DEF old, new
<1>7. Len(old \o new) # 0
  BY <1>1, <1>3, <1>4, <1>5
<1>8. QED
  BY <1>5, <1>6, <1>7, EmptySeq

(* The edges after a destination is set.                                   *)
LEMMA AssignEdgesOK ==
    ASSUME NEW edges \in Seq(Edge), edges # <<>>, NEW list,
           Sids(edges, list) \in SidList, NEW g \in Graphs
    PROVE  AssignEdges(edges, list, g) \in Seq(Edge) \ {<<>>}
<1>1. /\ DOMAIN edges = 1 .. Len(edges) /\ Len(edges) \in Nat
      /\ Len(edges) # 0
      /\ \A i \in 1 .. Len(edges) : edges[i] \in Edge
  BY LenProperties, ElementOfSeq, EmptySeq
<1>2. AssignEdges(edges, list, g) \in [1 .. Len(edges) -> Edge]
  BY <1>1, EdgeTypes DEF AssignEdges
<1>3. QED
  BY <1>1, <1>2, FcnSeq, EmptySeq

(* A refused destination takes at most one edge.                           *)
LEMMA TakeFirstOK ==
    ASSUME NEW edges \in Seq(Edge), edges # <<>>, NEW list
    PROVE  TakeFirst(edges, list) \in Seq(Edge) \ {<<>>}
<1>1. /\ DOMAIN edges = 1 .. Len(edges) /\ Len(edges) \in Nat
      /\ Len(edges) # 0
      /\ \A i \in 1 .. Len(edges) : edges[i] \in Edge
  BY LenProperties, ElementOfSeq, EmptySeq
<1>2. \A e \in Edge : [e EXCEPT !.st = "trigger"] \in Edge
  BY DEF Edge, EdgeState
<1>3. TakeFirst(edges, list) \in [1 .. Len(edges) -> Edge]
  BY <1>1, <1>2 DEF TakeFirst
<1>4. QED
  BY <1>1, <1>3, FcnSeq, EmptySeq

(* MultiInputGraph_compress() and SI_selector_store() keep the edges.      *)
LEMMA AllToOK ==
    ASSUME NEW edges \in Seq(Edge), edges # <<>>, NEW g \in Graphs
    PROVE  AllTo(edges, g) \in Seq(Edge) \ {<<>>}
<1>1. /\ DOMAIN edges = 1 .. Len(edges) /\ Len(edges) \in Nat
      /\ Len(edges) # 0
      /\ \A i \in 1 .. Len(edges) : edges[i] \in Edge
  BY LenProperties, ElementOfSeq, EmptySeq
<1>2. AllTo(edges, g) \in [1 .. Len(edges) -> Edge]
  BY <1>1, EdgeTypes DEF AllTo
<1>3. QED
  BY <1>1, <1>2, FcnSeq, EmptySeq

-----------------------------------------------------------------------------
(* CCTX_runSuccessor().                                                    *)

(* The frame CCTX_runSuccessor() starts with.                              *)
LEMMA NewFrameOK ==
    ASSUME NEW graph \in Graphs, NEW ins \in SidList, NEW b \in BOOLEAN,
           NEW nds \in Seq(Node), NEW mode \in Mode, NEW pc \in PC,
           pc = "enter" \/ pc = "seg", pc = "seg" <=> graph = "segmenter",
           graph = "segmenter" => Len(nds) = 0
    PROVE  LET f == NewFrame(graph, ins, b, nds, mode, pc)
           IN  /\ f \in Frame /\ FrameOK(f) /\ f.nodesBefore = Len(nds)
               /\ f.mode = mode
<1>1. <<>> \in Seq(Edge) /\ Len(<<>>) = 0 /\ Len(nds) \in Nat
  BY EmptySeq, LenProperties
<1>2. NewFrame(graph, ins, b, nds, mode, pc) \in Frame
  BY <1>1 DEF NewFrame, Frame
<1>3. QED
  BY <1>1, <1>2 DEF NewFrame, FrameOK

(* CCTX_runSuccessor() refuses, enters a segmenter, or enters a graph.     *)
LEMMA RunSuccessorOK ==
    ASSUME NEW STATE callers, NEW STATE nds, NEW STATE strs, NEW STATE graph,
           NEW STATE ins,
           GraphOK(nds, strs), StackOK(callers, Len(nds)),
           graph \in Graphs, ins \in SidList,
           segmenterDepth \in Nat, numChunks \in Nat,
           CCTX_runSuccessor(callers, nds, strs, graph, ins),
           NEW b, ModeOK(callers, b)
    PROVE  /\ GraphOK(nodes', streams')
           /\ StackOK(stack', Len(nodes')) /\ ModeOK(stack', b)
           /\ PhaseOK(phase', stack') /\ phase' # "idle"
           /\ segmenterDepth' \in Nat /\ numChunks' \in Nat
<1> DEFINE d == Len(callers) + 1
           segmentable == IsSegmentable(nds, ins)
<1>1. /\ nds \in Seq(Node) /\ Len(nds) \in Nat /\ strs \in Seq(Stream)
      /\ Len(callers) \in Nat /\ d \in Nat /\ segmentable \in BOOLEAN
  BY GraphTypes, StackTypes DEF IsSegmentable
<1>2. ASSUME ReturnTo(callers, "err"), nodes' = nds, streams' = strs,
             UNCHANGED <<segmenterDepth, numChunks>>
      PROVE  /\ GraphOK(nodes', streams')
             /\ StackOK(stack', Len(nodes')) /\ ModeOK(stack', b)
             /\ PhaseOK(phase', stack') /\ phase' # "idle"
             /\ segmenterDepth' \in Nat /\ numChunks' \in Nat
  BY <1>1, <1>2, ReturnOK
<1>3. CASE graph = "segmenter" /\ segmentable
  <2> DEFINE f == NewFrame("segmenter", ins, TRUE, nds, "normal", "seg")
  <2>1. Len(nds) = 0
    BY <1>3 DEF IsSegmentable
  <2>2. f \in Frame /\ FrameOK(f) /\ f.nodesBefore = Len(nds)
        /\ f.mode = "normal"
    <3>1. "segmenter" \in Graphs /\ "normal" \in Mode /\ "seg" \in PC
      BY DEF Graphs, Mode, PC
    <3>2. <<>> \in Seq(Edge) /\ Len(<<>>) = 0
      BY EmptySeq
    <3>3. f \in Frame
      BY <1>1, <3>1, <3>2 DEF NewFrame, Frame
    <3>4. QED
      BY <2>1, <3>3 DEF NewFrame, FrameOK
  <2> HIDE DEF f
  <2>3. /\ StackOK(Append(callers, f), 0) /\ Append(callers, f) # <<>>
        /\ ModeOK(Append(callers, f), b)
    BY <2>1, <2>2, PushOK, ModePush
  <2>4. ASSUME stack' = Append(callers, f), nodes' = <<>>, streams' = <<>>,
               segmenterDepth' = d, numChunks' = 0, phase' = "run"
        PROVE  /\ GraphOK(nodes', streams')
               /\ StackOK(stack', Len(nodes')) /\ ModeOK(stack', b)
               /\ PhaseOK(phase', stack') /\ phase' # "idle"
               /\ segmenterDepth' \in Nat /\ numChunks' \in Nat
    <3>1. Len(<<>>) = 0 /\ <<>> \in Seq(Node) /\ <<>> \in Seq(Stream)
      BY EmptySeq
    <3>2. GraphOK(<<>>, <<>>)
      BY <3>1 DEF GraphOK
    <3>3. QED
      BY <1>1, <2>3, <2>4, <3>1, <3>2 DEF PhaseOK
  <2>5. CASE DepthExceeded(d)
    BY <1>2, <2>5 DEF CCTX_runSuccessor
  <2>6. CASE ~ DepthExceeded(d)
    BY <1>2, <1>3, <2>4, <2>6 DEF CCTX_runSuccessor, CCTX_runSegmenter, f
  <2>7. QED
    BY <2>5, <2>6
<1>4. CASE DepthExceeded(d) \/ (graph = "segmenter" /\ ~ segmentable)
  BY <1>2, <1>4 DEF CCTX_runSuccessor
<1>5. CASE ~ DepthExceeded(d) /\ graph # "segmenter"
  <2> DEFINE small == NewFrame("store1", ins, segmentable, nds, "small", "enter")
             full == NewFrame(graph, ins, segmentable, nds, "normal", "enter")
             f == IF IsSmall(strs, graph, ins) THEN small ELSE full
  <2>1. /\ small \in Frame /\ FrameOK(small) /\ small.nodesBefore = Len(nds)
        /\ full \in Frame /\ FrameOK(full) /\ full.nodesBefore = Len(nds)
        /\ small.mode # "backup" /\ full.mode # "backup"
    <3>1. /\ "store1" \in Graphs /\ "normal" \in Mode /\ "small" \in Mode
          /\ "enter" \in PC
      BY DEF Graphs, Mode, PC
    <3> HIDE DEF segmentable
    <3>2. /\ small \in Frame /\ FrameOK(small)
          /\ small.nodesBefore = Len(nds) /\ small.mode # "backup"
      BY <1>1, <3>1, NewFrameOK
    <3>3. /\ full \in Frame /\ FrameOK(full)
          /\ full.nodesBefore = Len(nds) /\ full.mode # "backup"
      BY <1>1, <1>5, <3>1, NewFrameOK
    <3>4. QED
      BY <3>2, <3>3
  <2>2. /\ stack' = Append(callers, f) /\ nodes' = nds
        /\ streams' = RTGM_guardRTStream(strs, ins, d) /\ phase' = "run"
        /\ UNCHANGED <<segmenterDepth, numChunks>>
    BY <1>5 DEF CCTX_runSuccessor
  <2> HIDE DEF small, full
  <2>3. /\ f \in Frame /\ FrameOK(f) /\ f.nodesBefore = Len(nds)
        /\ f.mode # "backup"
    BY <2>1
  <2> HIDE DEF f
  <2>4. /\ StackOK(stack', Len(nds)) /\ stack' # <<>>
        /\ ModeOK(stack', b)
    BY <1>1, <2>2, <2>3, PushOK, ModePush
  <2>5. streams' \in Seq(Stream) /\ Len(streams') = Len(strs)
    <3> HIDE DEF d
    <3>1. QED
      BY <1>1, <2>2, StreamUpdates
  <2>6. GraphOK(nds, streams')
    BY <2>5 DEF GraphOK
  <2>7. QED
    BY <2>2, <2>4, <2>6 DEF PhaseOK
<1>6. QED
  BY <1>3, <1>4, <1>5

-----------------------------------------------------------------------------
(* The frames that the actions leave on top of the stack.                  *)

SameFrame(g, t) ==
    /\ g \in Frame /\ FrameOK(g)
    /\ g.nodesBefore = t.nodesBefore /\ g.mode = t.mode

(* The graph of a frame returned, or its successors run.                   *)
LEMMA GotoFrame ==
    ASSUME NEW t \in Frame, FrameOK(t), NEW label \in {"err", "ok", "succ"}
    PROVE  SameFrame([t EXCEPT !.pc = label], t)
<1>1. label \in PC
  BY DEF PC
<1>2. QED
  BY <1>1, GotoOK DEF SameFrame, FrameOK

(* A segmenter goes from its code to a chunk and back.                     *)
LEMMA SegmenterFrame ==
    ASSUME NEW t \in Frame, FrameOK(t), t.graph = "segmenter",
           NEW label \in {"seg", "chunk", "chunkErr"}
    PROVE  SameFrame([t EXCEPT !.pc = label], t)
<1>1. label \in PC
  BY DEF PC
<1>2. QED
  BY <1>1, GotoOK DEF SameFrame, FrameOK

(* CCTX_convertInputs() made one more edge.                                *)
LEMMA NextEdgeFrame ==
    ASSUME NEW t \in Frame, FrameOK(t), t.pc = "enter", NEW e \in Edge
    PROVE  SameFrame([t EXCEPT !.edges = Append(@, e), !.next = @ + 1], t)
<1> DEFINE g == [t EXCEPT !.edges = Append(@, e), !.next = @ + 1]
<1>1. t.edges \in Seq(Edge) /\ t.next \in Nat /\ Len(t.edges) \in Nat
  BY FrameTypes, LenProperties
<1>2. /\ Append(t.edges, e) \in Seq(Edge)
      /\ Len(Append(t.edges, e)) = Len(t.edges) + 1
  BY <1>1, AppendProperties
<1>3. g = [t EXCEPT !.edges = Append(t.edges, e), !.next = t.next + 1]
  BY DEF Frame
<1>4. t.next + 1 \in Nat \ {0}
  BY <1>1
<1> HIDE DEF g
<1>5. \A es \in Seq(Edge), n \in Nat \ {0} :
         LET h == [t EXCEPT !.edges = es, !.next = n]
         IN  /\ h \in Frame /\ h.edges = es /\ h.next = n
             /\ h.pc = t.pc /\ h.graph = t.graph
             /\ h.nodesBefore = t.nodesBefore /\ h.mode = t.mode
  BY DEF Frame
<1>6. /\ g \in Frame /\ g.edges = Append(t.edges, e) /\ g.next = t.next + 1
      /\ g.pc = t.pc /\ g.graph = t.graph
      /\ g.nodesBefore = t.nodesBefore /\ g.mode = t.mode
  BY <1>2, <1>3, <1>4, <1>5
<1>7. FrameOK(g)
  BY <1>1, <1>2, <1>6 DEF FrameOK
<1>8. QED
  BY <1>6, <1>7 DEF SameFrame, g

(* The graph function starts once there is an edge per input.              *)
LEMMA FnFrame ==
    ASSUME NEW t \in Frame, FrameOK(t), t.edges # <<>>
    PROVE  SameFrame([t EXCEPT !.pc = "fn", !.next = 1], t)
<1> DEFINE g == [t EXCEPT !.pc = "fn", !.next = 1]
<1>1. 1 \in Nat \ {0}
  OBVIOUS
<1>2. /\ g \in Frame /\ g.edges = t.edges /\ g.pc = "fn"
      /\ g.graph = t.graph /\ g.nodesBefore = t.nodesBefore
      /\ g.mode = t.mode
  BY <1>1 DEF Frame, PC
<1> HIDE DEF g
<1>3. FrameOK(g)
  BY <1>2 DEF FrameOK
<1>4. QED
  BY <1>2, <1>3 DEF SameFrame, g

(* The graph function changed its edges.                                   *)
LEMMA EdgesFrame ==
    ASSUME NEW t \in Frame, FrameOK(t), t.pc = "fn",
           NEW es \in Seq(Edge) \ {<<>>}
    PROVE  SameFrame([t EXCEPT !.edges = es], t)
<1> DEFINE g == [t EXCEPT !.edges = es]
<1>1. /\ g \in Frame /\ g.edges = es /\ g.pc = t.pc
      /\ g.graph = t.graph /\ g.nodesBefore = t.nodesBefore
      /\ g.mode = t.mode
  BY DEF Frame
<1> HIDE DEF g
<1>2. FrameOK(g)
  BY <1>1 DEF FrameOK
<1>3. QED
  BY <1>1, <1>2 DEF SameFrame, g

(* An error was recorded in gctx->status.                                  *)
LEMMA StatusFrame ==
    ASSUME NEW t \in Frame, FrameOK(t), t.pc = "fn",
           NEW es \in Seq(Edge) \ {<<>>}
    PROVE  SameFrame([t EXCEPT !.edges = es, !.status = TRUE], t)
<1> DEFINE g == [t EXCEPT !.edges = es, !.status = TRUE]
<1>1. /\ g \in Frame /\ g.edges = es /\ g.pc = t.pc
      /\ g.graph = t.graph /\ g.nodesBefore = t.nodesBefore
      /\ g.mode = t.mode
  BY DEF Frame
<1> HIDE DEF g
<1>2. FrameOK(g)
  BY <1>1 DEF FrameOK
<1>3. QED
  BY <1>1, <1>2 DEF SameFrame, g

(* The graph function returned.                                            *)
LEMMA SuccFrame ==
    ASSUME NEW t \in Frame, FrameOK(t), NEW es \in Seq(Edge), NEW n \in Nat \ {0}
    PROVE  /\ SameFrame([t EXCEPT !.edges = es, !.pc = "succ"], t)
           /\ SameFrame([t EXCEPT !.pc = "succ", !.next = n], t)
<1> DEFINE g == [t EXCEPT !.edges = es, !.pc = "succ"]
           h == [t EXCEPT !.pc = "succ", !.next = n]
<1>1. /\ g \in Frame /\ g.pc = "succ" /\ g.graph = t.graph
      /\ g.nodesBefore = t.nodesBefore /\ g.mode = t.mode
  BY DEF Frame, PC
<1>2. /\ h \in Frame /\ h.pc = "succ" /\ h.graph = t.graph
      /\ h.nodesBefore = t.nodesBefore /\ h.mode = t.mode
  BY DEF Frame, PC
<1> HIDE DEF g, h
<1>3. FrameOK(g) /\ FrameOK(h)
  BY <1>1, <1>2 DEF FrameOK
<1>4. QED
  BY <1>1, <1>2, <1>3 DEF SameFrame, g, h

(* CCTX_runSuccessors() advances.                                          *)
LEMMA NextFrame ==
    ASSUME NEW t \in Frame, FrameOK(t), t.pc = "succ", NEW n \in Nat \ {0}
    PROVE  SameFrame([t EXCEPT !.next = n], t)
<1> DEFINE g == [t EXCEPT !.next = n]
<1>1. /\ g \in Frame /\ g.pc = t.pc /\ g.graph = t.graph
      /\ g.nodesBefore = t.nodesBefore /\ g.mode = t.mode
  BY DEF Frame
<1> HIDE DEF g
<1>2. FrameOK(g)
  BY <1>1 DEF FrameOK
<1>3. QED
  BY <1>1, <1>2 DEF SameFrame, g

(* The frame that runs the generic graph again.                            *)
LEMMA BackupFrame ==
    ASSUME NEW t \in Frame
    PROVE  LET g == [t EXCEPT !.graph = "generic", !.mode = "backup",
                              !.pc = "enter", !.edges = <<>>, !.next = 1,
                              !.status = FALSE]
           IN  g \in Frame /\ FrameOK(g) /\ g.nodesBefore = t.nodesBefore
               /\ g.mode = "backup"
<1> DEFINE g == [t EXCEPT !.graph = "generic", !.mode = "backup",
                          !.pc = "enter", !.edges = <<>>, !.next = 1,
                          !.status = FALSE]
<1>1. <<>> \in Seq(Edge) /\ Len(<<>>) = 0 /\ 1 \in Nat \ {0}
  BY EmptySeq
<1>2. /\ g \in Frame /\ g.pc = "enter" /\ g.graph = "generic"
      /\ g.edges = <<>> /\ g.next = 1
      /\ g.nodesBefore = t.nodesBefore /\ g.mode = "backup"
  BY <1>1 DEF Frame, PC, Graphs, Mode
<1> HIDE DEF g
<1>3. FrameOK(g)
  BY <1>1, <1>2 DEF FrameOK
<1>4. QED
  BY <1>2, <1>3 DEF g

-----------------------------------------------------------------------------
(* Steps.                                                                  *)

(* The frame that takes the next step.                                     *)
LEMMA TopOK ==
    ASSUME IInv, NEW label, AtGraph(label)
    PROVE  /\ stack # <<>> /\ Len(nodes) \in Nat /\ Len(streams) \in Nat
           /\ Top \in Frame /\ FrameOK(Top) /\ Top.pc = label
           /\ Top.nodesBefore <= Len(nodes) /\ Top.nodesBefore \in Nat
           /\ Top.ins \in SidList /\ Top.edges \in Seq(Edge)
           /\ phase = "run" /\ RestOK /\ GraphOK(nodes, streams)
           /\ StackOK(stack, Len(nodes))
           /\ streams \in Seq(Stream) /\ nodes \in Seq(Node)
<1>1. /\ GraphOK(nodes, streams) /\ StackOK(stack, Len(nodes)) /\ RestOK
      /\ phase = "run" /\ Len(stack) > 0 /\ Top.pc = label
  BY DEF IInv, AtGraph, depth
<1>2. /\ Len(nodes) \in Nat /\ Len(streams) \in Nat
      /\ streams \in Seq(Stream) /\ nodes \in Seq(Node)
  BY <1>1, GraphTypes
<1>3. /\ stack # <<>> /\ Len(stack) \in 1 .. Len(stack)
      /\ Top \in Frame
  BY <1>1, StackTypes DEF Top, depth
<1>4. FrameOK(Top) /\ Top.nodesBefore <= Len(nodes)
  BY <1>1, <1>3 DEF StackOK, Top, depth
<1>5. /\ Top.nodesBefore \in Nat /\ Top.ins \in SidList
      /\ Top.edges \in Seq(Edge)
  BY <1>3, FrameTypes
<1>6. QED
  BY <1>1, <1>2, <1>3, <1>4, <1>5

(* The top frame goes on, the graph under it only grows.                   *)
LEMMA StepOK ==
    ASSUME NEW STATE label, IInv, AtGraph(label), RestOK',
           NEW STATE f, SameFrame(f, Top), SetTop(f),
           GraphOK(nodes', streams'), Len(nodes') >= Len(nodes),
           UNCHANGED <<phase, inBackupMode>>
    PROVE  IInv'
<1>1. /\ stack # <<>> /\ Len(nodes) \in Nat /\ Top.nodesBefore <= Len(nodes)
      /\ Top.nodesBefore \in Nat /\ phase = "run"
      /\ StackOK(stack, Len(nodes)) /\ ModeOK(stack, inBackupMode)
  BY TopOK DEF IInv
<1>2. Len(nodes') \in Nat
  BY GraphTypes
<1>3. /\ f \in Frame /\ FrameOK(f)
      /\ f.nodesBefore = stack[Len(stack)].nodesBefore
      /\ f.nodesBefore <= Len(nodes') /\ f.mode = stack[Len(stack)].mode
  BY <1>1, <1>2 DEF SameFrame, Top, depth
<1>4. stack' = [stack EXCEPT ![Len(stack)] = f]
  BY DEF SetTop, depth
<1>5. StackOK(stack', Len(nodes')) /\ stack' # <<>>
  <2>1. PICK m \in Nat : m = Len(nodes')
    BY <1>2
  <2>2. PICK k \in Nat : StackOK(stack, k)
    BY <1>1
  <2>3. /\ stack # <<>> /\ f \in Frame /\ FrameOK(f) /\ f.nodesBefore <= m
        /\ f.nodesBefore = stack[Len(stack)].nodesBefore
    BY <1>1, <1>3, <2>1
  <2>4. StackOK(stack', m) /\ stack' # <<>>
    BY <1>4, <2>2, <2>3, SetTopOK, Zenon
  <2>5. QED
    BY <2>1, <2>4
<1>6. PhaseOK(phase', stack')
  BY <1>1, <1>5 DEF PhaseOK
<1>7. ModeOK(stack', inBackupMode')
  BY <1>1, <1>3, <1>4, ModeSetTop
<1>8. QED
  BY <1>5, <1>6, <1>7 DEF IInv

(* The top frame goes on and nothing else changes.                         *)
LEMMA LocalStepOK ==
    ASSUME NEW STATE label, IInv, AtGraph(label),
           NEW STATE f, SameFrame(f, Top), SetTop(f),
           UNCHANGED <<graphVars, inBackupMode, segmentVars, sessionVars,
                       phase>>
    PROVE  IInv'
<1>1. GraphOK(nodes, streams) /\ RestOK /\ Len(nodes) \in Nat
  BY TopOK
<1>2. GraphOK(nodes', streams') /\ Len(nodes') >= Len(nodes)
  BY <1>1 DEF graphVars
<1>3. RestOK'
  BY <1>1 DEF RestOK, graphVars, segmentVars, sessionVars
<1>4. QED
  BY <1>2, <1>3, StepOK

(* CCTX_convertInputs(): the type of the input is accepted.                *)
LEMMA KeepInputStep ==
    ASSUME IInv, KeepInput
    PROVE  IInv'
<1> DEFINE e == NewEdge(Top.ins[Top.next])
           f == [Top EXCEPT !.edges = Append(@, e), !.next = @ + 1]
<1>1. AtGraph("enter") /\ SetTop(f) /\ Top.next <= Len(Top.ins)
  BY DEF KeepInput
<1>2. /\ Top \in Frame /\ FrameOK(Top) /\ Top.pc = "enter"
      /\ Top.ins \in SidList
  BY <1>1, TopOK
<1>3. Top.next \in 1 .. Len(Top.ins) /\ Top.ins \in Seq(Nat)
  <2>1. Top.ins \in Seq(Nat)
    BY <1>2 DEF SidList
  <2>2. QED
    BY <1>1, <1>2, <2>1, FrameTypes, LenProperties
<1>4. e \in Edge
  BY <1>3, ElementOfSeq, NewEdgeOK
<1> HIDE DEF e
<1>5. SameFrame(f, Top)
  BY <1>2, <1>4, NextEdgeFrame
<1> HIDE DEF f
<1>6. QED
  BY <1>1, <1>5, LocalStepOK DEF KeepInput

(* CCTX_convertInputs(): a conversion node runs or fails.                  *)
LEMMA ConvertInputStep ==
    ASSUME IInv, ConvertInput
    PROVE  IInv'
<1> DEFINE s == <<Top.ins[Top.next]>>
           e == NewEdge(Len(streams) + 1)
           f == [Top EXCEPT !.edges = Append(@, e), !.next = @ + 1]
           g == [Top EXCEPT !.pc = "err"]
<1>1. AtGraph("enter") /\ Top.next <= Len(Top.ins)
  BY DEF ConvertInput
<1>2. /\ Top \in Frame /\ FrameOK(Top) /\ Top.pc = "enter"
      /\ Top.ins \in SidList /\ GraphOK(nodes, streams) /\ RestOK
      /\ Len(streams) \in Nat
  BY <1>1, TopOK
<1>3. s \in Seq(Nat)
  <2>1. Top.ins \in Seq(Nat)
    BY <1>2 DEF SidList
  <2>2. Top.next \in 1 .. Len(Top.ins)
    BY <1>1, <1>2, <2>1, FrameTypes, LenProperties
  <2>3. QED
    BY <2>1, <2>2, ElementOfSeq, Singleton
<1>4. e \in Edge
  BY <1>2, NewEdgeOK
<1>5. RestOK' /\ UNCHANGED <<phase, inBackupMode>>
  BY <1>1, <1>2 DEF AtGraph, ConvertInput, RestOK, segmentVars, sessionVars
<1>6. \/ NodeRuns(s, ConversionShape, 1, "ok") /\ SetTop(f)
      \/ /\ \E r \in {"failed", "noStream", "noNode"} :
               NodeRuns(s, ConversionShape, 0, r)
         /\ SetTop(g)
  BY DEF ConvertInput, Goto
<1> HIDE DEF s, e
<1>7. SameFrame(f, Top) /\ SameFrame(g, Top)
  BY <1>2, <1>4, NextEdgeFrame, GotoFrame
<1> HIDE DEF f, g
<1>8. GraphOK(nodes', streams') /\ Len(nodes') >= Len(nodes)
  BY <1>2, <1>3, <1>6, ConversionType, NodeRunsOK
<1>9. QED
  BY <1>1, <1>5, <1>6, <1>7, <1>8, StepOK

(* ZL_GRAPH_SERIAL_STORE stores, another graph starts its function.        *)
LEMMA StartGraphStep ==
    ASSUME IInv, StartGraph
    PROVE  IInv'
<1> DEFINE f == [Top EXCEPT !.pc = "fn", !.next = 1]
           g == [Top EXCEPT !.pc = "ok"]
<1>1. AtGraph("enter") /\ Top.next > Len(Top.ins)
  BY DEF StartGraph
<1>2. /\ Top \in Frame /\ FrameOK(Top) /\ Top.pc = "enter"
      /\ Top.ins \in SidList /\ GraphOK(nodes, streams) /\ RestOK
      /\ streams \in Seq(Stream) /\ Len(nodes) \in Nat
      /\ Top.edges \in Seq(Edge)
  BY <1>1, TopOK
<1>3. Top.edges # <<>>
  <2>1. Top.ins \in Seq(Nat) /\ Top.ins # <<>>
    BY <1>2 DEF SidList
  <2>2. Len(Top.ins) >= 1
    BY <2>1
  <2>3. Len(Top.edges) = Top.next - 1 /\ Top.next \in Nat
    BY <1>2, FrameTypes DEF FrameOK
  <2>4. Len(Top.edges) # 0
    BY <1>1, <2>1, <2>2, <2>3, LenProperties
  <2>5. QED
    BY <2>4, EmptySeq
<1>4. RestOK' /\ UNCHANGED <<phase, inBackupMode>>
  BY <1>1, <1>2 DEF AtGraph, StartGraph, RestOK, segmentVars, sessionVars
<1>5. SameFrame(f, Top) /\ SameFrame(g, Top)
  BY <1>2, <1>3, FnFrame, GotoFrame
<1>6. /\ UNCHANGED nodes
      /\ SetTop(f) \/ SetTop(g)
      /\ \/ streams' = RTGM_storeStream(streams, Top.edges[1].sid)
         \/ streams' = streams
  BY DEF StartGraph, Goto
<1> HIDE DEF f, g
<1>7. streams' \in Seq(Stream) /\ Len(streams') = Len(streams)
  <2>1. \A sid : /\ RTGM_storeStream(streams, sid) \in Seq(Stream)
                 /\ Len(RTGM_storeStream(streams, sid)) = Len(streams)
    BY <1>2, StreamUpdates
  <2>2. QED
    BY <1>2, <1>6, <2>1
<1>8. GraphOK(nodes', streams') /\ Len(nodes') >= Len(nodes)
  BY <1>2, <1>6, <1>7 DEF GraphOK
<1>9. QED
  BY <1>1, <1>4, <1>5, <1>6, <1>8, StepOK

(* ZL_Edge_runMultiInputNode(), with all its results.                      *)
LEMMA RunNodeStep ==
    ASSUME IInv, ZL_Edge_runMultiInputNode
    PROVE  IInv'
<1>1. AtGraph("fn")
  BY DEF ZL_Edge_runMultiInputNode, AtUserFn
<1>2. /\ Top \in Frame /\ FrameOK(Top) /\ Top.pc = "fn"
      /\ GraphOK(nodes, streams) /\ RestOK
      /\ streams \in Seq(Stream) /\ Len(nodes) \in Nat
      /\ Top.edges \in Seq(Edge) /\ stack # <<>>
      /\ StackOK(stack, Len(nodes))
  BY <1>1, TopOK
<1>3. Top.edges # <<>>
  BY <1>2 DEF FrameOK
<1>4. RestOK' /\ UNCHANGED <<phase, inBackupMode>>
  BY <1>1, <1>2 DEF AtGraph, ZL_Edge_runMultiInputNode, RestOK, segmentVars,
                      sessionVars
<1> DEFINE g == [Top EXCEPT !.pc = "err"]
           f(l, m) == [Top EXCEPT !.edges = ProcessEdges(@, l, m)]
<1>5. PICK list \in EdgeLists(Unassigned(Top.edges)), shape \in NodeShapes :
        \E made \in 0 .. shape.out1s + shape.vos :
          \/ /\ NodeRuns(Sids(Top.edges, list), shape, made, "ok")
             /\ SetTop(f(list, made))
          \/ /\ \/ NodeRuns(Sids(Top.edges, list), shape, made, "failed")
                \/ /\ made = 0
                   /\ \E r \in {"noStream", "noNode"} :
                        NodeRuns(Sids(Top.edges, list), shape, made, r)
             /\ SetTop(g) \/ UNCHANGED stack
  BY DEF ZL_Edge_runMultiInputNode, Goto
<1>6. PICK made \in 0 .. shape.out1s + shape.vos :
          \/ /\ NodeRuns(Sids(Top.edges, list), shape, made, "ok")
             /\ SetTop(f(list, made))
          \/ /\ \/ NodeRuns(Sids(Top.edges, list), shape, made, "failed")
                \/ /\ made = 0
                   /\ \E r \in {"noStream", "noNode"} :
                        NodeRuns(Sids(Top.edges, list), shape, made, r)
             /\ SetTop(g) \/ UNCHANGED stack
  BY <1>5
<1>7. shape \in NodeShape /\ made \in Nat
  <2>1. shape \in NodeShape
    BY DEF NodeShape
  <2>2. shape.out1s \in Nat /\ shape.vos \in Nat
    BY <2>1 DEF NodeShape
  <2>3. QED
    BY <2>1, <2>2
<1> DEFINE ins == Sids(Top.edges, list)
<1>8. ins \in Seq(Nat)
  <2>1. Unassigned(Top.edges) \in SUBSET DOMAIN Top.edges
    BY DEF Unassigned
  <2>2. QED
    BY <1>2, <2>1, SidsOK DEF SidList
<1>9. \E r \in {"ok", "failed", "noStream", "noNode"} :
         NodeRuns(ins, shape, made, r)
  BY <1>6
<1>10. GraphOK(nodes', streams') /\ Len(nodes') >= Len(nodes)
  <2> HIDE DEF ins
  <2>1. QED
    BY <1>2, <1>7, <1>8, <1>9, NodeRunsOK
<1>11. SameFrame(g, Top)
  BY <1>2, GotoFrame
<1>12. SameFrame(f(list, made), Top)
  <2>1. ProcessEdges(Top.edges, list, made) \in Seq(Edge) \ {<<>>}
    BY <1>2, <1>3, <1>7, ProcessEdgesOK
  <2>2. QED
    BY <1>2, <2>1, EdgesFrame
<1>13. CASE SetTop(f(list, made))
  <2> DEFINE h == f(list, made)
  <2> HIDE DEF h
  <2>1. SetTop(h) /\ SameFrame(h, Top)
    BY <1>12, <1>13 DEF h
  <2>2. QED
    BY <1>1, <1>4, <1>10, <2>1, StepOK
<1>14. CASE SetTop(g)
  <2> HIDE DEF g
  <2>1. QED
    BY <1>1, <1>4, <1>10, <1>11, <1>14, StepOK
<1>15. CASE UNCHANGED stack
  <2>1. SetTop(Top)
    <3>1. stack = [stack EXCEPT ![Len(stack)] = stack[Len(stack)]]
      BY <1>2 DEF StackOK
    <3>2. QED
      BY <1>15, <3>1 DEF SetTop, Top, depth
  <2>2. SameFrame(Top, Top)
    BY <1>2 DEF SameFrame
  <2>3. QED
    BY <1>1, <1>4, <1>10, <2>1, <2>2, StepOK
<1>16. QED
  BY <1>6, <1>13, <1>14, <1>15

(* ZL_Edge_setDestination() on free edges.                                 *)
LEMMA SetDestinationStep ==
    ASSUME IInv, ZL_Edge_setDestination
    PROVE  IInv'
<1>1. AtGraph("fn")
  BY DEF ZL_Edge_setDestination, AtUserFn
<1>2. /\ Top \in Frame /\ FrameOK(Top) /\ Top.pc = "fn"
      /\ Top.edges \in Seq(Edge) /\ Top.edges # <<>>
  BY <1>1, TopOK DEF FrameOK
<1> DEFINE f(l, g) == [Top EXCEPT !.edges = AssignEdges(@, l, g)]
<1>3. PICK list \in EdgeLists(FreeEdges(Top.edges)), g \in Destinations :
         SetTop(f(list, g))
  BY DEF ZL_Edge_setDestination
<1>4. Sids(Top.edges, list) \in SidList
  <2>1. FreeEdges(Top.edges) \in SUBSET DOMAIN Top.edges
    BY DEF FreeEdges, Unassigned
  <2>2. QED
    BY <1>2, <2>1, SidsOK
<1>5. AssignEdges(Top.edges, list, g) \in Seq(Edge) \ {<<>>}
  <2>1. g \in Graphs
    BY DEF Graphs
  <2>2. QED
    BY <1>2, <1>4, <2>1, AssignEdgesOK
<1>6. SameFrame(f(list, g), Top)
  BY <1>2, <1>5, EdgesFrame
<1> DEFINE h == f(list, g)
<1> HIDE DEF h
<1>7. SetTop(h) /\ SameFrame(h, Top)
  BY <1>3, <1>6 DEF h
<1>8. QED
  BY <1>1, <1>7, LocalStepOK DEF ZL_Edge_setDestination

(* ZL_Edge_setDestination() on an edge that has a destination.             *)
LEMMA SetDestinationTwiceStep ==
    ASSUME IInv, SetDestinationTwice
    PROVE  IInv'
<1>1. AtGraph("fn")
  BY DEF SetDestinationTwice, AtUserFn
<1>2. /\ Top \in Frame /\ FrameOK(Top) /\ Top.pc = "fn"
      /\ Top.edges \in Seq(Edge) /\ Top.edges # <<>>
  BY <1>1, TopOK DEF FrameOK
<1> DEFINE f(l) == [Top EXCEPT !.edges = TakeFirst(@, l), !.status = TRUE]
<1>3. PICK list \in EdgeLists(DOMAIN Top.edges) : SetTop(f(list))
  BY DEF SetDestinationTwice
<1>4. TakeFirst(Top.edges, list) \in Seq(Edge) \ {<<>>}
  BY <1>2, TakeFirstOK
<1>5. SameFrame(f(list), Top)
  BY <1>2, <1>4, StatusFrame
<1> DEFINE h == f(list)
<1> HIDE DEF h
<1>6. SetTop(h) /\ SameFrame(h, Top)
  BY <1>3, <1>5 DEF h
<1>7. QED
  BY <1>1, <1>6, LocalStepOK DEF SetDestinationTwice

(* The function of a user graph returns.                                   *)
LEMMA UserGraphReturnsStep ==
    ASSUME IInv, UserGraphReturns
    PROVE  IInv'
<1> DEFINE f == [Top EXCEPT !.pc = "succ", !.next = 1]
           g == [Top EXCEPT !.pc = "err"]
<1>1. AtGraph("fn") /\ (SetTop(f) \/ SetTop(g))
  BY DEF UserGraphReturns, AtUserFn, Goto
<1>2. Top \in Frame /\ FrameOK(Top)
  BY <1>1, TopOK
<1>3. SameFrame(g, Top)
  BY <1>2, GotoFrame
<1>4. SameFrame(f, Top)
  <2>1. <<>> \in Seq(Edge) /\ 1 \in Nat \ {0}
    BY EmptySeq
  <2>2. QED
    BY <1>2, <2>1, SuccFrame
<1> HIDE DEF f, g
<1>5. QED
  BY <1>1, <1>3, <1>4, LocalStepOK DEF UserGraphReturns

(* A selector of the library sends its edges on.                           *)
LEMMA RedirectStep ==
    ASSUME IInv, Redirect
    PROVE  IInv'
<1> DEFINE to == IF Top.graph = "generic" THEN "compress1" ELSE "serialStore"
           f == [Top EXCEPT !.edges = AllTo(@, to), !.pc = "succ"]
<1>1. AtGraph("fn") /\ SetTop(f)
  BY DEF Redirect
<1>2. /\ Top \in Frame /\ FrameOK(Top)
      /\ Top.edges \in Seq(Edge) /\ Top.edges # <<>>
  BY <1>1, TopOK DEF FrameOK
<1>3. to \in Graphs
  BY DEF Graphs
<1> HIDE DEF to
<1>4. AllTo(Top.edges, to) \in Seq(Edge) /\ 1 \in Nat \ {0}
  BY <1>2, <1>3, AllToOK
<1>5. SameFrame(f, Top)
  BY <1>2, <1>4, SuccFrame
<1> HIDE DEF f
<1>6. QED
  BY <1>1, <1>5, LocalStepOK DEF Redirect

(* ZL_GRAPH_COMPRESS1 on one edge.                                         *)
LEMMA Compress1Step ==
    ASSUME IInv, ZL_GRAPH_COMPRESS1
    PROVE  IInv'
<1> DEFINE s == <<Top.edges[1].sid>>
           stored == AllTo(Top.edges, "store1")
           coded == <<[Top.edges[1] EXCEPT !.st = "processed"]>>
                      \o AllTo(<<NewEdge(Len(streams) + 1)>>, "store1")
           f == [Top EXCEPT !.edges = stored, !.pc = "succ"]
           g == [Top EXCEPT !.edges = coded, !.pc = "succ"]
           h == [Top EXCEPT !.pc = "err"]
<1>1. AtGraph("fn")
  BY DEF ZL_GRAPH_COMPRESS1
<1>2. /\ Top \in Frame /\ FrameOK(Top) /\ Top.pc = "fn"
      /\ GraphOK(nodes, streams) /\ RestOK
      /\ streams \in Seq(Stream) /\ Len(nodes) \in Nat
      /\ Len(streams) \in Nat
      /\ Top.edges \in Seq(Edge) /\ Top.edges # <<>>
  BY <1>1, TopOK DEF FrameOK
<1>3. RestOK' /\ UNCHANGED <<phase, inBackupMode>>
  BY <1>1, <1>2 DEF AtGraph, ZL_GRAPH_COMPRESS1, RestOK, segmentVars,
                      sessionVars
<1>4. Top.edges[1] \in Edge
  <2>1. 1 \in 1 .. Len(Top.edges)
    BY <1>2
  <2>2. QED
    BY <1>2, <2>1, ElementOfSeq
<1>5. s \in Seq(Nat)
  BY <1>4, EdgeTypes, Singleton
<1>6. stored \in Seq(Edge) /\ coded \in Seq(Edge) /\ 1 \in Nat \ {0}
  <2>1. "store1" \in Graphs
    BY DEF Graphs
  <2>2. stored \in Seq(Edge)
    BY <1>2, <2>1, AllToOK
  <2>3. <<NewEdge(Len(streams) + 1)>> \in Seq(Edge) \ {<<>>}
    BY <1>2, NewEdgeOK, Singleton
  <2>4. AllTo(<<NewEdge(Len(streams) + 1)>>, "store1") \in Seq(Edge)
    BY <2>1, <2>3, AllToOK
  <2>5. <<[Top.edges[1] EXCEPT !.st = "processed"]>> \in Seq(Edge)
    BY <1>4, EdgeTypes, Singleton
  <2>6. coded \in Seq(Edge)
    BY <2>4, <2>5, ConcatProperties
  <2>7. QED
    BY <2>2, <2>6
<1>7. \/ SetTop(f) /\ UNCHANGED <<nodes, streams>>
      \/ NodeRuns(s, ConversionShape, 1, "ok") /\ SetTop(g)
      \/ /\ \E r \in {"failed", "noStream", "noNode"} :
               NodeRuns(s, ConversionShape, 0, r)
         /\ SetTop(h)
  BY DEF ZL_GRAPH_COMPRESS1, Goto
<1> HIDE DEF s, stored, coded
<1>8. SameFrame(f, Top) /\ SameFrame(g, Top) /\ SameFrame(h, Top)
  BY <1>2, <1>6, SuccFrame, GotoFrame
<1> HIDE DEF f, g, h
<1>9. GraphOK(nodes', streams') /\ Len(nodes') >= Len(nodes)
  BY <1>2, <1>5, <1>7, ConversionType, NodeRunsOK
<1>10. QED
  BY <1>1, <1>3, <1>7, <1>8, <1>9, StepOK

(* CCTX_runSuccessors() calls one level deeper.                            *)
LEMMA RunNextSuccessorStep ==
    ASSUME IInv, RunNextSuccessor
    PROVE  IInv'
<1>1. AtGraph("succ")
  BY DEF RunNextSuccessor
<1>2. /\ Top \in Frame /\ FrameOK(Top) /\ Top.pc = "succ"
      /\ GraphOK(nodes, streams) /\ RestOK /\ stack # <<>>
      /\ StackOK(stack, Len(nodes)) /\ Len(nodes) \in Nat
      /\ Top.nodesBefore <= Len(nodes) /\ Top.edges \in Seq(Edge)
  BY <1>1, TopOK
<1>3. PICK i \in Pending(Top) :
         CCTX_runSuccessor([stack EXCEPT ![depth].next = i + 1], nodes, streams,
                           Top.edges[i].graph, Top.edges[i].with)
  BY DEF RunNextSuccessor
<1>4. i \in 1 .. Len(Top.edges) /\ i + 1 \in Nat \ {0}
  <2>1. i \in DOMAIN Top.edges
    BY DEF Pending
  <2>2. QED
    BY <1>2, <2>1, LenProperties
<1>5. Top.edges[i].graph \in Graphs /\ Top.edges[i].with \in SidList
  BY <1>2, <1>4, ElementOfSeq, EdgeTypes
<1> DEFINE f == [Top EXCEPT !.next = i + 1]
           callers == [stack EXCEPT ![depth].next = i + 1]
<1>6. callers = [stack EXCEPT ![Len(stack)] = f]
  BY DEF Top, depth
<1>7. SameFrame(f, Top)
  BY <1>2, <1>4, NextFrame
<1> HIDE DEF f, callers
<1>8. StackOK(callers, Len(nodes)) /\ ModeOK(callers, inBackupMode)
  <2>1. /\ f \in Frame /\ FrameOK(f) /\ f.nodesBefore <= Len(nodes)
        /\ f.nodesBefore = stack[Len(stack)].nodesBefore
        /\ f.mode = stack[Len(stack)].mode
    BY <1>2, <1>7 DEF SameFrame, Top, depth
  <2>2. StackOK(callers, Len(nodes))
    BY <1>2, <1>6, <2>1, SetTopOK
  <2>3. ModeOK(stack, inBackupMode)
    BY DEF IInv
  <2>4. QED
    BY <1>2, <1>6, <2>1, <2>2, <2>3, ModeSetTop
<1> DEFINE graph == Top.edges[i].graph
           ins == Top.edges[i].with
<1>9. /\ CCTX_runSuccessor(callers, nodes, streams, graph, ins)
      /\ graph \in Graphs /\ ins \in SidList
      /\ segmenterDepth \in Nat /\ numChunks \in Nat
  BY <1>2, <1>3, <1>5 DEF RestOK, callers
<1> HIDE DEF graph, ins
<1>10. /\ GraphOK(nodes', streams') /\ StackOK(stack', Len(nodes'))
       /\ ModeOK(stack', inBackupMode)
       /\ PhaseOK(phase', stack') /\ phase' # "idle"
       /\ segmenterDepth' \in Nat /\ numChunks' \in Nat
  BY <1>2, <1>8, <1>9, RunSuccessorOK
<1>11. RestOK'
  BY <1>1, <1>2, <1>10 DEF RunNextSuccessor, RestOK, sessionVars, AtGraph
<1>12. QED
  BY <1>10, <1>11 DEF IInv, RunNextSuccessor

(* CCTX_runSuccessors() is at the end.                                     *)
LEMMA SuccessorsDoneStep ==
    ASSUME IInv, SuccessorsDone
    PROVE  IInv'
<1> DEFINE f == [Top EXCEPT !.pc = "ok"]
<1>1. AtGraph("succ") /\ SetTop(f)
  BY DEF SuccessorsDone, Goto
<1>2. SameFrame(f, Top)
  BY <1>1, TopOK, GotoFrame
<1> HIDE DEF f
<1>3. QED
  BY <1>1, <1>2, LocalStepOK DEF SuccessorsDone

(* The fallback: the graph is cut, the frame starts again.                 *)
LEMMA TriggerBackupStep ==
    ASSUME IInv, CCTX_triggerBackupMode
    PROVE  IInv'
<1> DEFINE f == [Top EXCEPT !.graph = "generic", !.mode = "backup",
                            !.pc = "enter", !.edges = <<>>, !.next = 1,
                            !.status = FALSE]
<1>1. /\ AtGraph("err") /\ SetTop(f) /\ UNCHANGED phase
      /\ nodes' = NodesUpTo(nodes, Top.nodesBefore)
      /\ streams' = StreamsBeforeNode(nodes, streams, Top.nodesBefore)
  BY DEF CCTX_triggerBackupMode
<1>2. /\ Top \in Frame /\ FrameOK(Top) /\ phase = "run"
      /\ GraphOK(nodes, streams) /\ RestOK /\ stack # <<>>
      /\ StackOK(stack, Len(nodes)) /\ Len(nodes) \in Nat
      /\ Top.nodesBefore \in Nat /\ Top.nodesBefore <= Len(nodes)
  BY <1>1, TopOK
<1>3. /\ f \in Frame /\ FrameOK(f) /\ f.nodesBefore = Top.nodesBefore
  BY <1>2, BackupFrame
<1> HIDE DEF f
<1>4. GraphOK(nodes', streams') /\ Len(nodes') = Top.nodesBefore
  BY <1>1, <1>2, RevertOK
<1>5. stack' = [stack EXCEPT ![Len(stack)] = f]
  BY <1>1 DEF SetTop, depth
<1>6. /\ StackOK(stack', Len(nodes')) /\ stack' # <<>>
      /\ Len(stack') = Len(stack)
      /\ \A d \in 1 .. Len(stack) : d # Len(stack) => stack'[d] = stack[d]
  <2>1. /\ f.nodesBefore = stack[Len(stack)].nodesBefore
        /\ f.nodesBefore <= Len(nodes') /\ Len(nodes') \in Nat
    BY <1>2, <1>3, <1>4 DEF Top, depth
  <2>2. PICK m \in Nat : m = Len(nodes')
    BY <2>1
  <2>3. PICK k \in Nat : StackOK(stack, k)
    BY <1>2
  <2>4. /\ StackOK(stack', m) /\ stack' # <<>>
        /\ Len(stack') = Len(stack)
        /\ \A d \in 1 .. Len(stack) : d # Len(stack) => stack'[d] = stack[d]
    <3>1. /\ stack # <<>> /\ f \in Frame /\ FrameOK(f)
          /\ f.nodesBefore = stack[Len(stack)].nodesBefore
          /\ f.nodesBefore <= m
      BY <1>2, <1>3, <2>1, <2>2
    <3> DEFINE new == [stack EXCEPT ![Len(stack)] = f]
    <3>2. StackOK(new, m) /\ new # <<>>
      BY <2>3, <3>1, SetTopOK, Zenon
    <3>3. stack \in Seq(Frame) /\ Len(stack) \in 1 .. Len(stack)
      BY <2>3, <3>1 DEF StackOK
    <3>4. /\ Len(new) = Len(stack)
          /\ \A d \in 1 .. Len(stack) : d # Len(stack) => new[d] = stack[d]
      BY <3>1, <3>3, ExceptSeq
    <3> HIDE DEF new
    <3>5. stack' = new
      BY <1>5 DEF new
    <3>6. QED
      BY <3>2, <3>4, <3>5
  <2>5. QED
    BY <2>2, <2>4
<1>7. RestOK'
  BY <1>2 DEF CCTX_triggerBackupMode, RestOK, segmentVars, sessionVars
<1>8. ModeOK(stack', inBackupMode')
  <2>1. ~ inBackupMode /\ inBackupMode' = TRUE
    BY DEF CCTX_triggerBackupMode, MayFallBack
  <2>2. \A d \in 1 .. Len(stack) : stack[d].mode # "backup"
    BY <2>1 DEF IInv, ModeOK
  <2>3. \A d \in 1 .. Len(stack') : stack'[d].mode = "backup" =>
           d = Len(stack)
    BY <1>6, <2>2
  <2>4. QED
    BY <2>1, <2>3 DEF ModeOK
<1>9. QED
  BY <1>1, <1>2, <1>4, <1>6, <1>7, <1>8 DEF IInv, PhaseOK

(* CCTX_runSuccessor() returns to its caller.                              *)
LEMMA ReturnStep ==
    ASSUME IInv, CCTX_runSuccessorReturns
    PROVE  IInv'
<1>1. PICK label \in {"ok", "err"} : AtGraph(label)
  BY DEF CCTX_runSuccessorReturns
<1>2. /\ GraphOK(nodes, streams) /\ RestOK /\ stack # <<>>
      /\ StackOK(stack, Len(nodes)) /\ Len(nodes) \in Nat
      /\ streams \in Seq(Stream) /\ phase = "run"
      /\ Top.pc \in {"ok", "err"}
  BY <1>1, TopOK
<1>3. StackOK(Callers, Len(nodes)) /\ ModeOK(Callers, inBackupMode')
  <2>1. StackOK(Callers, Len(nodes))
    BY <1>2, PopOK DEF Callers, depth
  <2>2. inBackupMode' = inBackupMode \/ stack[Len(stack)].mode = "backup"
    BY <1>2 DEF CCTX_runSuccessorReturns, RestOK, Top, depth
  <2>3. ModeOK(stack, inBackupMode)
    BY DEF IInv
  <2>4. ModeOK(SubSeq(stack, 1, Len(stack) - 1), inBackupMode')
    BY <1>2, <2>2, <2>3, ModePop
  <2>5. QED
    BY <2>1, <2>4 DEF Callers, depth
<1>4. /\ ReturnTo(Callers, Top.pc) /\ UNCHANGED nodes
      /\ \/ streams' = streams
         \/ streams' = RTGM_clearRTStream(streams, Top.ins, depth)
  BY DEF CCTX_runSuccessorReturns
<1>5. /\ StackOK(stack', Len(nodes)) /\ PhaseOK(phase', stack')
      /\ phase' # "idle" /\ ModeOK(stack', inBackupMode')
  <2> DEFINE callers == Callers
             r == Top.pc
             m == Len(nodes)
  <2>1. /\ StackOK(callers, m) /\ ReturnTo(callers, r) /\ m \in Nat
        /\ r \in {"ok", "err"} /\ ModeOK(callers, inBackupMode')
    BY <1>2, <1>3, <1>4
  <2> HIDE DEF callers, r, m
  <2>2. /\ StackOK(stack', m) /\ PhaseOK(phase', stack')
        /\ phase' # "idle" /\ ModeOK(stack', inBackupMode')
    BY <2>1, ReturnOK
  <2>3. QED
    BY <2>2 DEF m
<1>6. GraphOK(nodes', streams')
  <2>1. depth \in Nat
    BY <1>2, StackTypes DEF depth
  <2>2. /\ RTGM_clearRTStream(streams, Top.ins, depth) \in Seq(Stream)
        /\ Len(RTGM_clearRTStream(streams, Top.ins, depth)) = Len(streams)
    BY <1>2, <2>1, StreamUpdates
  <2>3. streams' \in Seq(Stream) /\ Len(streams') = Len(streams)
    BY <1>2, <1>4, <2>2
  <2>4. QED
    BY <1>2, <1>4, <2>3 DEF GraphOK
<1>7. RestOK'
  BY <1>2, <1>5 DEF CCTX_runSuccessorReturns, RestOK, segmentVars, sessionVars
<1>8. QED
  BY <1>4, <1>5, <1>6, <1>7 DEF IInv

(* A segmenter starts before any node, and so did the frames under it.     *)
LEMMA SegmenterStack ==
    ASSUME NEW st, NEW k \in Nat, StackOK(st, k),
           st # <<>> => st[Len(st)].graph = "segmenter", NEW m \in Nat
    PROVE  StackOK(st, m)
<1>1. /\ Len(st) \in Nat /\ (st = <<>> <=> Len(st) = 0)
      /\ \A d \in 1 .. Len(st) : st[d].nodesBefore \in Nat
  BY StackTypes
<1>2. \A d \in 1 .. Len(st) : st[d].nodesBefore <= st[Len(st)].nodesBefore
  BY <1>1 DEF StackOK
<1>3. \A d \in 1 .. Len(st) : st[Len(st)].nodesBefore = 0
  BY <1>1 DEF StackOK, FrameOK
<1>4. \A d \in 1 .. Len(st) : st[d].nodesBefore <= m
  BY <1>1, <1>2, <1>3
<1>5. QED
  BY <1>4 DEF StackOK

(* An empty runtime graph.                                                 *)
LEMMA EmptyGraphOK ==
    GraphOK(<<>>, <<>>) /\ Len(<<>>) = 0
<1>1. Len(<<>>) = 0 /\ <<>> \in Seq(Node) /\ <<>> \in Seq(Stream)
  BY EmptySeq
<1>2. QED
  BY <1>1 DEF GraphOK

(* CCTX_flushChunk() returns to the segmenter or to the session.           *)
LEMMA FlushReturnsOK ==
    ASSUME IInv, phase \in {"flush", "graph", "store"},
           NEW r \in {"ok", "err"}, FlushReturns(r)
    PROVE  /\ GraphOK(nodes', streams') /\ StackOK(stack', Len(nodes'))
           /\ ModeOK(stack', inBackupMode)
           /\ PhaseOK(phase', stack') /\ phase' # "idle"
           /\ numChunks' \in Nat /\ sent' \in Nat
<1>1. /\ GraphOK(nodes, streams) /\ StackOK(stack, Len(nodes))
      /\ PhaseOK(phase, stack) /\ RestOK /\ ModeOK(stack, inBackupMode)
      /\ Len(nodes) \in Nat /\ Len(stack) \in Nat
      /\ (stack = <<>> <=> Len(stack) = 0)
  BY StackTypes, GraphTypes DEF IInv
<1>2. CASE depth = 0
  <2>1. /\ phase' = r /\ UNCHANGED <<stack, nodes, streams, sent, numChunks>>
        /\ stack = <<>>
    BY <1>1, <1>2 DEF FlushReturns, graphVars, depth
  <2>2. QED
    BY <1>1, <2>1 DEF PhaseOK, RestOK
<1>3. CASE depth # 0
  <2> DEFINE label == IF r = "ok" THEN "seg" ELSE "chunkErr"
             f == [Top EXCEPT !.pc = label]
  <2>1. /\ SetTop(f) /\ phase' = "run" /\ numChunks' = numChunks + 1
        /\ nodes' = <<>> /\ streams' = <<>> /\ sent' = 0
    BY <1>3 DEF FlushReturns, Goto, CCTX_cleanChunk
  <2>2. /\ Len(stack) \in 1 .. Len(stack) /\ stack # <<>>
        /\ Top.graph = "segmenter"
    BY <1>1, <1>3 DEF PhaseOK, Top, depth
  <2>3. Top \in Frame /\ FrameOK(Top)
    <3>1. stack[Len(stack)] \in Frame /\ FrameOK(stack[Len(stack)])
      BY <1>1, <2>2, StackTypes DEF StackOK
    <3>2. QED
      BY <3>1 DEF Top, depth
  <2>4. SameFrame(f, Top)
    <3> HIDE DEF label
    <3>1. label \in {"seg", "chunk", "chunkErr"}
      BY DEF label
    <3>2. QED
      BY <2>2, <2>3, <3>1, SegmenterFrame
  <2>5. f.nodesBefore = 0 /\ f.nodesBefore = stack[Len(stack)].nodesBefore
    <3> HIDE DEF f
    <3>1. QED
      BY <2>2, <2>3, <2>4 DEF SameFrame, FrameOK, Top, depth
  <2> HIDE DEF f
  <2>6. stack' = [stack EXCEPT ![Len(stack)] = f]
    BY <2>1 DEF SetTop, depth
  <2>7. StackOK(stack', 0) /\ stack' # <<>>
    <3>1. 0 \in Nat /\ f \in Frame /\ FrameOK(f) /\ f.nodesBefore <= 0
      BY <2>4, <2>5 DEF SameFrame
    <3>2. PICK k \in Nat : StackOK(stack, k)
      BY <1>1
    <3>3. f.nodesBefore = stack[Len(stack)].nodesBefore /\ stack # <<>>
      BY <2>2, <2>5
    <3>4. QED
      BY <2>6, <3>1, <3>2, <3>3, SetTopOK
  <2>8. GraphOK(nodes', streams') /\ Len(nodes') = 0
    BY <2>1, EmptyGraphOK
  <2>9. ModeOK(stack', inBackupMode)
    <3>1. f \in Frame /\ f.mode = stack[Len(stack)].mode
      BY <2>4 DEF SameFrame, Top, depth
    <3>2. QED
      BY <1>1, <2>2, <2>6, <3>1, ModeSetTop
  <2>10. QED
    BY <1>1, <2>1, <2>7, <2>8, <2>9 DEF PhaseOK, RestOK
<1>4. QED
  BY <1>2, <1>3

(* CCTX_flushChunk() collects the graph, or fails.                         *)
LEMMA GetFinalGraphStep ==
    ASSUME IInv, GetFinalGraph
    PROVE  IInv'
<1>1. /\ phase = "flush" /\ RestOK /\ PhaseOK(phase, stack)
      /\ GraphOK(nodes, streams) /\ StackOK(stack, Len(nodes))
      /\ Len(nodes) \in Nat /\ ModeOK(stack, inBackupMode)
      /\ UNCHANGED <<inBackupMode, segmenterDepth, numSegments, sessionVars>>
  BY GraphTypes DEF GetFinalGraph, IInv
<1>2. CASE FinalGraphAllowed(nodes, streams)
  <2>1. /\ sent' = sent + Len(nodes) /\ phase' = "graph"
        /\ UNCHANGED <<nodes, streams, stack, numChunks>>
    BY <1>2 DEF GetFinalGraph
  <2>2. RestOK'
    BY <1>1, <2>1 DEF RestOK, sessionVars
  <2>3. PhaseOK(phase', stack')
    BY <1>1, <2>1 DEF PhaseOK
  <2>4. QED
    BY <1>1, <2>1, <2>2, <2>3 DEF IInv
<1>3. CASE FlushReturns("err")
  <2>1. /\ GraphOK(nodes', streams') /\ StackOK(stack', Len(nodes'))
        /\ ModeOK(stack', inBackupMode)
        /\ PhaseOK(phase', stack') /\ phase' # "idle"
        /\ numChunks' \in Nat /\ sent' \in Nat
    BY <1>1, <1>3, FlushReturnsOK
  <2>2. RestOK'
    BY <1>1, <2>1 DEF RestOK, sessionVars
  <2>3. QED
    BY <1>1, <2>1, <2>2 DEF IInv
<1>4. QED
  BY <1>2, <1>3 DEF GetFinalGraph

(* CCTX_flushChunk() replaces the graph by STORE.                          *)
LEMMA ReplaceWithStoreStep ==
    ASSUME IInv, CCTX_replaceChunkWithStore
    PROVE  IInv'
<1>1. /\ phase = "graph" /\ RestOK /\ PhaseOK(phase, stack)
      /\ GraphOK(nodes, streams) /\ StackOK(stack, Len(nodes))
      /\ Len(nodes) \in Nat /\ ModeOK(stack, inBackupMode)
      /\ UNCHANGED <<inBackupMode, segmenterDepth, numSegments, sessionVars>>
  BY GraphTypes DEF CCTX_replaceChunkWithStore, IInv
<1>2. CASE /\ FinalGraphAllowed(StoreNodes(inputs), StoreStreams(inputs))
           /\ nodes' = StoreNodes(inputs)
           /\ streams' = StoreStreams(inputs)
           /\ sent' = Len(nodes')
           /\ phase' = "store"
           /\ UNCHANGED <<stack, numChunks>>
  <2>1. GraphOK(nodes', streams')
    BY <1>1, <1>2, StoreGraphOK DEF RestOK
  <2>2. Len(nodes') \in Nat
    BY <2>1, GraphTypes
  <2>3. RestOK'
    BY <1>1, <1>2, <2>2 DEF RestOK, sessionVars
  <2>4. PhaseOK(phase', stack')
    BY <1>1, <1>2 DEF PhaseOK
  <2>5. StackOK(stack', Len(nodes'))
    <3>1. stack # <<>> => stack[Len(stack)].graph = "segmenter"
      BY <1>1 DEF PhaseOK
    <3>2. \A m \in Nat : StackOK(stack, m)
      BY <1>1, <3>1, SegmenterStack
    <3>3. QED
      BY <1>2, <2>2, <3>2
  <2>6. QED
    BY <1>1, <1>2, <2>1, <2>3, <2>4, <2>5 DEF IInv
<1>3. CASE FlushReturns("err")
  <2>1. /\ GraphOK(nodes', streams') /\ StackOK(stack', Len(nodes'))
        /\ ModeOK(stack', inBackupMode)
        /\ PhaseOK(phase', stack') /\ phase' # "idle"
        /\ numChunks' \in Nat /\ sent' \in Nat
    BY <1>1, <1>3, FlushReturnsOK
  <2>2. RestOK'
    BY <1>1, <2>1 DEF RestOK, sessionVars
  <2>3. QED
    BY <1>1, <2>1, <2>2 DEF IInv
<1>4. QED
  BY <1>2, <1>3 DEF CCTX_replaceChunkWithStore

(* CCTX_flushChunk() returns.                                              *)
LEMMA WriteChunkStep ==
    ASSUME IInv, WriteChunk
    PROVE  IInv'
<1>1. /\ phase \in {"graph", "store"} /\ RestOK /\ numSegments' \in Nat
      /\ UNCHANGED <<inBackupMode, segmenterDepth, sessionVars>>
  BY DEF WriteChunk, IInv, RestOK
<1>2. PICK r \in {"ok", "err"} : FlushReturns(r)
  BY DEF WriteChunk
<1>3. /\ GraphOK(nodes', streams') /\ StackOK(stack', Len(nodes'))
      /\ ModeOK(stack', inBackupMode)
      /\ PhaseOK(phase', stack') /\ phase' # "idle"
      /\ numChunks' \in Nat /\ sent' \in Nat
  BY <1>1, <1>2, FlushReturnsOK
<1>4. RestOK'
  BY <1>1, <1>3 DEF RestOK, sessionVars
<1>5. QED
  BY <1>1, <1>3, <1>4 DEF IInv

(* The whole input of a session or of a chunk.                             *)
LEMMA AllInputs ==
    ASSUME inputs \in Seq(Kind), inputs # <<>>
    PROVE  [n \in DOMAIN inputs |-> n] \in SidList
<1>1. /\ DOMAIN inputs = 1 .. Len(inputs) /\ Len(inputs) \in Nat \ {0}
      /\ 1 .. Len(inputs) \subseteq Nat
  OBVIOUS
<1>2. [n \in DOMAIN inputs |-> n] \in [1 .. Len(inputs) -> Nat]
  BY <1>1
<1>3. QED
  BY <1>1, <1>2, LongSids

(* ZL_Segmenter_processChunk() starts a graph on new streams.              *)
LEMMA ProcessChunkStep ==
    ASSUME IInv, ZL_Segmenter_processChunk
    PROVE  IInv'
<1>1. AtGraph("seg")
  BY DEF ZL_Segmenter_processChunk
<1>2. /\ Top \in Frame /\ FrameOK(Top) /\ Top.pc = "seg" /\ phase = "run"
      /\ RestOK /\ stack # <<>> /\ StackOK(stack, Len(nodes))
      /\ Len(nodes) \in Nat
  BY <1>1, TopOK
<1>3. Top.graph = "segmenter" /\ Top.nodesBefore = 0
  BY <1>2 DEF FrameOK
<1> DEFINE ins == [n \in DOMAIN inputs |-> n]
           callers == [stack EXCEPT ![depth].pc = "chunk"]
           none == <<>>
           f == [Top EXCEPT !.pc = "chunk"]
<1>4. PICK kinds \in ChunkKinds, g \in StartGraphs :
         CCTX_runSuccessor(callers, none, RTGM_refInputs(kinds), g, ins)
  BY DEF ZL_Segmenter_processChunk
<1>5. ins \in SidList
  BY <1>2, AllInputs DEF RestOK
<1>6. callers = [stack EXCEPT ![Len(stack)] = f]
  BY DEF Top, depth
<1>7. SameFrame(f, Top)
  BY <1>2, <1>3, SegmenterFrame
<1> HIDE DEF f, callers
<1>8. StackOK(callers, 0) /\ ModeOK(callers, inBackupMode)
  <2>1. /\ f \in Frame /\ FrameOK(f) /\ f.nodesBefore <= 0 /\ 0 \in Nat
        /\ f.nodesBefore = stack[Len(stack)].nodesBefore
        /\ f.mode = stack[Len(stack)].mode
    BY <1>3, <1>7 DEF SameFrame, Top, depth
  <2>2. StackOK(callers, 0)
    BY <1>2, <1>6, <2>1, SetTopOK
  <2>3. ModeOK(stack, inBackupMode)
    BY DEF IInv
  <2>4. QED
    BY <1>2, <1>6, <2>1, <2>2, <2>3, ModeSetTop
<1> DEFINE strs == RTGM_refInputs(kinds)
<1>9. GraphOK(none, strs) /\ Len(none) = 0
  <2>1. kinds \in [1 .. Len(inputs) -> Kind] /\ Len(inputs) \in Nat
    BY <1>2, LenProperties DEF ChunkKinds, RestOK
  <2>2. kinds \in Seq(Kind)
    BY <2>1, FcnSeq
  <2>3. QED
    BY <2>2, RefInputsOK, EmptyGraphOK
<1>10. /\ CCTX_runSuccessor(callers, none, strs, g, ins) /\ g \in Graphs
       /\ segmenterDepth \in Nat /\ numChunks \in Nat
       /\ StackOK(callers, Len(none))
  <2>1. g \in Graphs
    BY DEF Graphs
  <2>2. QED
    BY <1>2, <1>4, <1>8, <1>9, <2>1 DEF RestOK
<1> HIDE DEF none, strs, ins
<1>11. /\ GraphOK(nodes', streams') /\ StackOK(stack', Len(nodes'))
       /\ ModeOK(stack', inBackupMode)
       /\ PhaseOK(phase', stack') /\ phase' # "idle"
       /\ segmenterDepth' \in Nat /\ numChunks' \in Nat
  BY <1>5, <1>8, <1>9, <1>10, RunSuccessorOK
<1>12. RestOK'
  BY <1>2, <1>11 DEF ZL_Segmenter_processChunk, RestOK, sessionVars
<1>13. QED
  BY <1>11, <1>12 DEF IInv, ZL_Segmenter_processChunk

(* The segmenter is told that its chunk failed.                            *)
LEMMA ChunkFailedStep ==
    ASSUME IInv, ChunkFailed
    PROVE  IInv'
<1> DEFINE f == [Top EXCEPT !.pc = "err"]
           g == [Top EXCEPT !.pc = "seg"]
<1>1. AtGraph("chunkErr") /\ (SetTop(f) \/ SetTop(g))
  BY DEF ChunkFailed, Goto
<1>2. Top \in Frame /\ FrameOK(Top) /\ Top.graph = "segmenter"
  BY <1>1, TopOK DEF FrameOK
<1>3. SameFrame(f, Top) /\ SameFrame(g, Top)
  BY <1>2, GotoFrame, SegmenterFrame
<1> HIDE DEF f, g
<1>4. QED
  BY <1>1, <1>3, LocalStepOK DEF ChunkFailed

(* The segmenter function returns.                                         *)
LEMMA SegmenterReturnsStep ==
    ASSUME IInv, SegmenterReturns
    PROVE  IInv'
<1> DEFINE f == [Top EXCEPT !.pc = "err"]
           g == [Top EXCEPT !.pc = "ok"]
<1>1. AtGraph("seg") /\ (SetTop(f) \/ SetTop(g))
  BY DEF SegmenterReturns, Goto
<1>2. SameFrame(f, Top) /\ SameFrame(g, Top)
  BY <1>1, TopOK, GotoFrame
<1> HIDE DEF f, g
<1>3. QED
  BY <1>1, <1>2, LocalStepOK DEF SegmenterReturns

(* An empty stack.                                                         *)
LEMMA EmptyStackOK ==
    ASSUME NEW m \in Nat, NEW b
    PROVE  StackOK(<<>>, m) /\ ModeOK(<<>>, b)
<1>1. <<>> \in Seq(Frame) /\ Len(<<>>) = 0
  BY EmptySeq
<1>2. QED
  BY <1>1 DEF StackOK, ModeOK

(* A session starts on a context that is clean.                            *)
LEMMA StartCompressionStep ==
    ASSUME IInv, CCTX_startCompression
    PROVE  IInv'
<1>1. /\ phase = "idle" /\ phase' = "start" /\ RestOK /\ PhaseOK(phase, stack)
      /\ UNCHANGED <<nodes, sent, stack, inBackupMode, numChunks, sessions>>
      /\ streams' = RTGM_refInputs(inputs') /\ permissive' \in BOOLEAN
      /\ numSegments' = 0 /\ segmenterDepth' = 0
  BY DEF CCTX_startCompression, IInv
<1>2. nodes = <<>> /\ stack = <<>>
  BY <1>1 DEF RestOK, PhaseOK
<1>3. inputs' \in Seq(Kind) /\ inputs' # <<>>
  <2>1. PICK n \in 1 .. MaxInputs : inputs' \in [1 .. n -> InputKinds]
    BY DEF CCTX_startCompression
  <2>2. n \in Nat \ {0} /\ inputs' \in [1 .. n -> Kind]
    BY <2>1
  <2>3. inputs' \in Seq(Kind) /\ Len(inputs') = n
    BY <2>2, FcnSeq
  <2>4. QED
    BY <2>2, <2>3, EmptySeq
<1>4. GraphOK(nodes', streams') /\ Len(nodes') = 0
  BY <1>1, <1>2, <1>3, RefInputsOK, EmptyGraphOK
<1>5. /\ StackOK(stack', Len(nodes')) /\ PhaseOK(phase', stack')
      /\ ModeOK(stack', inBackupMode')
  BY <1>1, <1>2, <1>4, EmptyStackOK DEF PhaseOK
<1>6. RestOK'
  BY <1>1, <1>3 DEF RestOK
<1>7. QED
  BY <1>4, <1>5, <1>6 DEF IInv

(* CCTX_startCompression() runs the starting graph.                        *)
LEMMA RunStartingGraphStep ==
    ASSUME IInv, RunStartingGraph
    PROVE  IInv'
<1>1. /\ phase = "start" /\ RestOK /\ PhaseOK(phase, stack)
      /\ GraphOK(nodes, streams) /\ Len(nodes) \in Nat
      /\ UNCHANGED <<sent, inBackupMode, numSegments, sessionVars>>
  BY GraphTypes DEF RunStartingGraph, IInv
<1> DEFINE ins == [n \in DOMAIN inputs |-> n]
           none == <<>>
<1>2. PICK g \in StartGraphs :
         CCTX_runSuccessor(none, nodes, streams, g, ins)
  BY DEF RunStartingGraph
<1>3. ins \in SidList
  BY <1>1, AllInputs DEF RestOK
<1>4. g \in Graphs /\ segmenterDepth \in Nat /\ numChunks \in Nat
  <2>1. g \in Graphs
    BY DEF Graphs
  <2>2. QED
    BY <1>1, <2>1 DEF RestOK
<1>5. StackOK(none, Len(nodes)) /\ ModeOK(none, inBackupMode)
  BY <1>1, EmptyStackOK
<1> HIDE DEF ins, none
<1>6. /\ GraphOK(nodes', streams') /\ StackOK(stack', Len(nodes'))
      /\ ModeOK(stack', inBackupMode)
      /\ PhaseOK(phase', stack') /\ phase' # "idle"
      /\ segmenterDepth' \in Nat /\ numChunks' \in Nat
  BY <1>1, <1>2, <1>3, <1>4, <1>5, RunSuccessorOK
<1>7. RestOK'
  BY <1>1, <1>6 DEF RestOK, sessionVars
<1>8. QED
  BY <1>1, <1>6, <1>7 DEF IInv

(* CCTX_clean() at the end of a session.                                   *)
LEMMA CleanStep ==
    ASSUME IInv, CCTX_clean
    PROVE  IInv'
<1>1. /\ nodes' = <<>> /\ streams' = <<>> /\ sent' = 0 /\ stack' = <<>>
      /\ RestOK /\ phase' = "idle" /\ segmenterDepth' = 0
      /\ sessions' = sessions + 1
      /\ UNCHANGED <<inBackupMode, numSegments, numChunks, inputs, permissive>>
  BY DEF CCTX_clean, IInv, PhaseOK
<1>2. /\ GraphOK(nodes', streams') /\ StackOK(stack', Len(nodes'))
      /\ ModeOK(stack', inBackupMode')
  BY <1>1, EmptyGraphOK, EmptyStackOK
<1>3. RestOK'
  BY <1>1 DEF RestOK
<1>4. PhaseOK(phase', stack')
  BY <1>1 DEF PhaseOK
<1>5. QED
  BY <1>2, <1>3, <1>4 DEF IInv

-----------------------------------------------------------------------------
(* Theorems.                                                               *)

(* A new context satisfies the invariant.                                  *)
LEMMA InitOK == Init => IInv
<1> SUFFICES ASSUME Init PROVE IInv
  OBVIOUS
<1>1. <<>> \in Seq(Kind)
  BY EmptySeq
<1>2. /\ GraphOK(nodes, streams) /\ StackOK(stack, Len(nodes))
      /\ ModeOK(stack, inBackupMode)
  BY EmptyGraphOK, EmptyStackOK DEF Init
<1>3. RestOK /\ PhaseOK(phase, stack)
  BY <1>1 DEF Init, RestOK, PhaseOK
<1>4. QED
  BY <1>2, <1>3 DEF IInv

(* Every step preserves the invariant: one lemma per action.               *)
LEMMA NextOK == IInv /\ [Next]_vars => IInv'
<1> SUFFICES ASSUME IInv, [Next]_vars PROVE IInv'
  OBVIOUS
<1>1. CASE UNCHANGED vars
  BY <1>1 DEF vars, IInv, GraphOK, StackOK, ModeOK, RestOK, PhaseOK
<1>2. CASE Rest
  BY <1>1, <1>2 DEF Rest
<1>3. QED
  BY <1>1, <1>2, StartCompressionStep, RunStartingGraphStep, KeepInputStep,
     ConvertInputStep, StartGraphStep, RunNodeStep, SetDestinationStep,
     SetDestinationTwiceStep, UserGraphReturnsStep, RedirectStep,
     Compress1Step, RunNextSuccessorStep, SuccessorsDoneStep,
     TriggerBackupStep, ReturnStep, GetFinalGraphStep, ReplaceWithStoreStep,
     WriteChunkStep, ProcessChunkStep, ChunkFailedStep, SegmenterReturnsStep,
     CleanStep DEF Next

(* The invariant holds in every reachable state.                           *)
THEOREM Inductive == Spec => []IInv
<1>1. QED
  BY InitOK, NextOK, PTL DEF Spec

(* Every variable keeps its type, and there is a stack of activations if   *)
(* and only if a graph runs: no operation returns to a frame that is gone. *)
THEOREM TypeCorrect == Spec => []TypeOK
<1>1. IInv => TypeOK
  BY DEF IInv, GraphOK, StackOK, RestOK, PhaseOK, TypeOK
<1>2. QED
  BY <1>1, Inductive, PTL

(* The number of nodes that CCTX_runSuccessor_internal() remembers before  *)
(* it runs a graph stays a place where RTGM_clearNodesFrom() can cut, at   *)
(* every depth, whatever the graphs below did, and the cut at the streams  *)
(* is in range (cctx.c:1356).                                              *)
THEOREM RevertPointsValid == Spec => []RevertPoints
<1>1. IInv => RevertPoints
  <2> SUFFICES ASSUME IInv PROVE RevertPoints
    OBVIOUS
  <2>1. DOMAIN stack = 1 .. Len(stack)
    BY StackTypes DEF IInv
  <2>2. DOMAIN nodes = 1 .. Len(nodes)
    BY DEF IInv, GraphOK
  <2>3. QED
    BY <2>1, <2>2 DEF IInv, GraphOK, StackOK, RevertPoints
<1>2. QED
  BY <1>1, Inductive, PTL

(* `Recursive backup shouldn't happen' (cctx.c:1273): at any time at most  *)
(* one activation runs the fallback graph, and the flag is up while it     *)
(* does.                                                                   *)
THEOREM FallbacksDoNotNest == Spec => []NoRecursiveBackup
<1>1. IInv => NoRecursiveBackup
  <2> SUFFICES ASSUME IInv PROVE NoRecursiveBackup
    OBVIOUS
  <2>1. DOMAIN stack = 1 .. Len(stack)
    BY StackTypes DEF IInv
  <2>2. QED
    BY <2>1 DEF IInv, ModeOK, NoRecursiveBackup
<1>2. QED
  BY <1>1, Inductive, PTL

-----------------------------------------------------------------------------
(* The streams that the activations on the stack still need.               *)
(*                                                                         *)
(* The second inductive invariant, HInv, says who needs which stream and   *)
(* why it is still there.  A frame takes its inputs (Takes) and uses the   *)
(* streams its open edges lead to (Uses).  Freeing is local: a node frees  *)
(* inputs of rank 0 that the top frame alone uses, and a graph that        *)
(* returns frees inputs guarded at its own depth, which none of its        *)
(* callers takes or uses.  So what has to be invariant is that the frames' *)
(* streams are apart (ApartOK), guarded at the frame's depth or below      *)
(* (FrameHeld), older than the nodes that a fallback of the frame, or of   *)
(* one above it, would undo (BeforeOK), and that nobody needs a stream     *)
(* under a segmenter, which empties the runtime graph (UnderOK).           *)

(* The edges a frame has not sent on yet.                                  *)
Open(f) ==
    {i \in DOMAIN f.edges :
        /\ f.edges[i].st \in {"trigger", "unassigned"}
        /\ f.pc \in {"enter", "fn", "succ"}
        /\ f.pc = "succ" => i >= f.next}

(* An edge leads to a stream, a frame uses it or has it as an input.       *)
Leads(e, s) == s \in Range(e.with)
Uses(f, s) == \E i \in Open(f) : Leads(f.edges[i], s)
Takes(f, s) == s \in Range(f.ins)

(* A list without repetition.                                              *)
Once(w) == \A a, b \in DOMAIN w : w[a] = w[b] => a = b

(* The graphs of the library that the fallback is made of.                 *)
Library == {"generic", "compress1", "store1", "serialStore"}

(* The stream is alive, guarded for depth d or for a smaller one.          *)
Sound(strs, s, d) == s \in 1 .. Len(strs) /\ strs[s].live /\ strs[s].rank <= d

(* What a frame knows of its edges: no two of them lead to the same        *)
(* stream, those that CCTX_convertInputs() has yet to make included.       *)
EdgesOK(f) ==
    /\ \A i \in DOMAIN f.edges :
          f.edges[i].st = "unassigned" => f.edges[i].with = <<f.edges[i].sid>>
    /\ f.pc = "enter" \/ (f.pc = "fn" /\ f.graph \notin UserGraphs) =>
          \A i \in DOMAIN f.edges : f.edges[i].st = "unassigned"
    /\ \A i \in Open(f) : Once(f.edges[i].with)
    /\ \A i, j \in Open(f) : \A s : Leads(f.edges[i], s) /\ Leads(f.edges[j], s) => i = j
    /\ Once(f.ins)
    /\ f.pc = "enter" => \A k \in f.next .. Len(f.ins) : ~ Uses(f, f.ins[k])

(* The library's graphs lead to graphs of the library, and only a graph of *)
(* the user leads to a segmenter.                                          *)
GraphsOK(f) ==
    /\ f.graph \in Library => \A i \in DOMAIN f.edges : f.edges[i].graph \in Library
    /\ \A i \in DOMAIN f.edges : f.edges[i].graph = "segmenter" => "segmenter" \in Destinations

(* The inputs of a frame at depth d are guarded, what it uses is alive.    *)
FrameHeld(f, d, strs) ==
    /\ \A s : Takes(f, s) => Sound(strs, s, d) /\ strs[s].rank >= 1
    /\ \A s : Uses(f, s) => Sound(strs, s, d)

(* sd is the depth of the segmenter, 0 without one: FrameHeld is about the *)
(* frames over it.                                                         *)
HeldOK(st, strs, sd) ==
    /\ \A d \in 1 .. Len(st) : EdgesOK(st[d]) /\ GraphsOK(st[d])
    /\ \A d \in 1 .. Len(st) : d > sd => FrameHeld(st[d], d, strs)

(* What a frame uses no frame over it takes or uses.                       *)
ApartOK(st, sd) ==
    \A c, d \in 1 .. Len(st) : sd < c /\ c < d =>
        \A s : Uses(st[c], s) => ~ Takes(st[d], s) /\ ~ Uses(st[d], s)

(* What a frame needs was there before the nodes that it would undo.       *)
BeforeOK(st, nds, sd) ==
    \A c, d \in 1 .. Len(st) : sd < c /\ c <= d =>
        \A m \in 1 .. Len(nds) : st[d].nodesBefore < m =>
            \A s : Takes(st[c], s) \/ (c < d /\ Uses(st[c], s)) => s < nds[m].start

(* Over a fallback only graphs of the library run.                         *)
LibraryOK(st) ==
    \A c, d \in 1 .. Len(st) : c <= d /\ st[c].mode = "backup" => st[d].graph \in Library

(* A frame that needs no stream, and that will neither fall back nor free  *)
(* its inputs.                                                             *)
Quiet(f) ==
    /\ f.segmentable /\ f.mode # "backup"
    /\ f.pc \notin {"enter", "fn"} /\ Open(f) = {}

(* The frames under the segmenter, and the segmenter itself, are quiet.    *)
UnderOK(st, sd) ==
    /\ \A d \in 1 .. Len(st) : d <= sd => Quiet(st[d])
    /\ \A d \in 1 .. Len(st) : st[d].graph = "segmenter" => d = sd
    /\ \A d \in 1 .. Len(st) : d > sd /\ sd # 0 => st[sd].graph = "segmenter"

(* Every frame but the top one waits for the call it made.                 *)
CallsOK(st) ==
    \A d \in 1 .. Len(st) : d # Len(st) => st[d].pc \notin {"enter", "fn"}

(* All of it.                                                              *)
Held(st, nds, strs, sd) ==
    /\ HeldOK(st, strs, sd) /\ ApartOK(st, sd) /\ BeforeOK(st, nds, sd)
    /\ LibraryOK(st) /\ UnderOK(st, sd) /\ CallsOK(st)

(* The stream is as it was.                                                *)
Kept(strs, new, s) == new[s].live = strs[s].live /\ new[s].rank = strs[s].rank

(* The same activation, further on.                                        *)
Goes(g, t) ==
    /\ g.ins = t.ins /\ g.graph = t.graph /\ g.mode = t.mode
    /\ g.nodesBefore = t.nodesBefore /\ g.segmentable = t.segmentable

(* What a step of the top frame, at depth n > sd, may do to the streams    *)
(* and to the nodes.                                                       *)
StreamsStep(t, g, n, strs, new) ==
    /\ Len(new) >= Len(strs)
    /\ \A s \in 1 .. Len(strs) :
          Kept(strs, new, s) \/ (Uses(t, s) /\ strs[s].rank = 0 /\ ~ Uses(g, s))
    /\ \A s : Uses(g, s) =>
          \/ s \in 1 .. Len(strs) /\ (Uses(t, s) \/ Takes(t, s))
          \/ s \in Len(strs) + 1 .. Len(new) /\ new[s].live /\ new[s].rank = 0
NodesStep(nds, new, strs, strs2) ==
    /\ Len(new) >= Len(nds)
    /\ Len(new) = Len(nds) => Len(strs2) = Len(strs)
    /\ \A m \in 1 .. Len(nds) : new[m].start = nds[m].start
    /\ \A m \in 1 .. Len(new) : m > Len(nds) => new[m].start = Len(strs) + 1

(* The streams a frame needs are in the vector.                            *)
LEMMA NeedsInside ==
    ASSUME NEW st, NEW nds, NEW strs, NEW sd, Held(st, nds, strs, sd),
           NEW d \in 1 .. Len(st), d > sd, NEW s, Takes(st[d], s) \/ Uses(st[d], s)
    PROVE  s \in 1 .. Len(strs) /\ strs[s].live /\ strs[s].rank <= d
BY DEF Held, HeldOK, FrameHeld, Sound

(* The top frame goes on.                                                  *)
LEMMA TopHeld ==
    ASSUME NEW st, NEW k \in Nat, StackOK(st, k), st # <<>>, NEW sd \in Nat,
           NEW strs \in Seq(Stream), NEW strs2 \in Seq(Stream),
           NEW nds, NEW nds2, GraphOK(nds, strs), GraphOK(nds2, strs2),
           Held(st, nds, strs, sd),
           NEW g \in Frame, Goes(g, st[Len(st)]), EdgesOK(g), GraphsOK(g),
           Len(st) <= sd => Quiet(g),
           Len(st) > sd => /\ StreamsStep(st[Len(st)], g, Len(st), strs, strs2)
                           /\ NodesStep(nds, nds2, strs, strs2)
    PROVE  Held([st EXCEPT ![Len(st)] = g], nds2, strs2, sd)
<1> DEFINE n == Len(st)
           t == st[n]
           new == [st EXCEPT ![n] = g]
<1>1. st \in Seq(Frame) /\ n \in 1 .. n /\ n \in Nat
  BY DEF StackOK
<1>2. /\ Len(new) = n
      /\ \A j \in 1 .. n : new[j] = IF j = n THEN g ELSE st[j]
  BY <1>1, ExceptSeq
<1>3. new[n] = g /\ \A d \in 1 .. n : d # n => new[d] = st[d]
  BY <1>1, <1>2
<1>4. /\ Len(strs) \in Nat /\ Len(strs2) \in Nat
      /\ \A s \in 1 .. Len(strs) : strs[s].rank \in Nat
      /\ \A s \in 1 .. Len(strs2) : strs2[s].rank \in Nat
  <2>1. \A x \in Stream : x.rank \in Nat
    BY DEF Stream
  <2> QED BY <2>1, LenProperties, ElementOfSeq
<1> HIDE DEF new, n
<1>5. ASSUME NEW d \in 1 .. n, d > sd, d # n PROVE FrameHeld(st[d], d, strs2)
  <2>1. FrameHeld(st[d], d, strs) /\ n > sd /\ d < n
    BY <1>1, <1>2, <1>5 DEF Held, HeldOK, n
  <2>2. /\ \A s \in 1 .. Len(strs) : Kept(strs, strs2, s) \/ (Uses(t, s) /\ strs[s].rank = 0)
        /\ Len(strs2) >= Len(strs)
    BY <1>5, <2>1 DEF StreamsStep, n
  <2>3. ASSUME NEW s, Takes(st[d], s) PROVE Sound(strs2, s, d) /\ strs2[s].rank >= 1
    <3>1. s \in 1 .. Len(strs) /\ strs[s].live /\ strs[s].rank <= d /\ strs[s].rank >= 1
      BY <2>1, <2>3 DEF FrameHeld, Sound
    <3>2. Kept(strs, strs2, s)
      BY <1>4, <2>2, <3>1
    <3> QED BY <1>4, <2>2, <3>1, <3>2 DEF Kept, Sound
  <2>4. ASSUME NEW s, Uses(st[d], s) PROVE Sound(strs2, s, d)
    <3>1. s \in 1 .. Len(strs) /\ strs[s].live /\ strs[s].rank <= d
      BY <2>1, <2>4 DEF FrameHeld, Sound
    <3>2. ~ Uses(t, s)
      BY <1>1, <1>5, <2>1, <2>4 DEF Held, ApartOK, n
    <3>3. Kept(strs, strs2, s)
      BY <2>2, <3>1, <3>2
    <3> QED BY <1>4, <2>2, <3>1, <3>3 DEF Kept, Sound
  <2> QED BY <2>3, <2>4 DEF FrameHeld
<1>6. ASSUME n > sd PROVE FrameHeld(g, n, strs2)
  <2>1. FrameHeld(t, n, strs) /\ StreamsStep(t, g, n, strs, strs2)
    BY <1>1, <1>6 DEF Held, HeldOK, n
  <2>2. ASSUME NEW s, Takes(g, s) PROVE Sound(strs2, s, n) /\ strs2[s].rank >= 1
    <3>1. s \in 1 .. Len(strs) /\ strs[s].live /\ strs[s].rank <= n /\ strs[s].rank >= 1
      BY <2>1, <2>2 DEF FrameHeld, Sound, Takes, Goes, n
    <3>2. Kept(strs, strs2, s)
      BY <1>4, <2>1, <3>1 DEF StreamsStep
    <3> QED BY <1>4, <2>1, <3>1, <3>2 DEF Kept, Sound, StreamsStep
  <2>3. ASSUME NEW s, Uses(g, s) PROVE Sound(strs2, s, n)
    <3>1. CASE s \in 1 .. Len(strs) /\ (Uses(t, s) \/ Takes(t, s))
      <4>1. s \in 1 .. Len(strs) /\ strs[s].live /\ strs[s].rank <= n
        BY <2>1, <3>1 DEF FrameHeld, Sound
      <4>2. Kept(strs, strs2, s)
        BY <2>1, <2>3, <4>1 DEF StreamsStep
      <4> QED BY <1>4, <2>1, <4>1, <4>2 DEF Kept, Sound, StreamsStep
    <3>2. CASE s \in Len(strs) + 1 .. Len(strs2) /\ strs2[s].live /\ strs2[s].rank = 0
      BY <1>1, <1>4, <3>2 DEF Sound
    <3> QED BY <2>1, <2>3, <3>1, <3>2 DEF StreamsStep
  <2> QED BY <2>2, <2>3 DEF FrameHeld
<1>7. HeldOK(new, strs2, sd)
  <2> SUFFICES ASSUME NEW d \in 1 .. n
               PROVE  /\ EdgesOK(new[d]) /\ GraphsOK(new[d])
                      /\ d > sd => FrameHeld(new[d], d, strs2)
    BY <1>2 DEF HeldOK
  <2>1. CASE d = n
    BY <1>3, <1>6, <2>1
  <2>2. CASE d # n
    <3>1. EdgesOK(st[d]) /\ GraphsOK(st[d])
      BY DEF Held, HeldOK, n
    <3> QED BY <1>3, <1>5, <2>2, <3>1
  <2> QED BY <2>1, <2>2
<1>8. ApartOK(new, sd)
  <2> SUFFICES ASSUME NEW c \in 1 .. n, NEW d \in 1 .. n, sd < c, c < d,
                      NEW s, Uses(new[c], s)
               PROVE  ~ Takes(new[d], s) /\ ~ Uses(new[d], s)
    BY <1>2 DEF ApartOK
  <2>0. new[c] = st[c]
    BY <1>1, <1>3
  <2>1. new[c] = st[c] /\ Uses(st[c], s) /\ ~ Takes(st[d], s) /\ ~ Uses(st[d], s)
    BY <2>0 DEF Held, ApartOK, n
  <2>2. CASE d # n
    BY <1>3, <2>1, <2>2
  <2>3. CASE d = n
    <3>1. new[d] = g /\ ~ Takes(t, s) /\ ~ Uses(t, s) /\ n > sd
      BY <1>1, <1>3, <2>1, <2>3
    <3>2. s \in 1 .. Len(strs)
      BY <2>1, NeedsInside, <1>1 DEF n
    <3>3. ~ Uses(g, s)
      BY <1>4, <3>1, <3>2 DEF StreamsStep, n
    <3> QED BY <3>1, <3>3 DEF Takes, Goes, n
  <2> QED BY <2>2, <2>3
<1>9. BeforeOK(new, nds2, sd)
  <2> SUFFICES ASSUME NEW c \in 1 .. n, NEW d \in 1 .. n, sd < c, c <= d,
                      NEW m \in 1 .. Len(nds2), new[d].nodesBefore < m,
                      NEW s, Takes(new[c], s) \/ (c < d /\ Uses(new[c], s))
               PROVE  s < nds2[m].start
    BY <1>2 DEF BeforeOK
  <2>1. Takes(st[c], s) \/ (c < d /\ Uses(st[c], s))
    <3>1. CASE c = n
      BY <1>1, <1>3, <3>1 DEF Goes, Takes, n
    <3>2. CASE c # n
      BY <1>3, <3>2
    <3> QED BY <3>1, <3>2
  <2>2. new[d].nodesBefore = st[d].nodesBefore
    <3>1. CASE d = n
      BY <1>1, <1>3, <3>1 DEF Goes, n
    <3>2. CASE d # n
      BY <1>3, <3>2
    <3> QED BY <3>1, <3>2
  <2>3. s \in 1 .. Len(strs)
    BY <2>1, NeedsInside DEF n
  <2>4. n > sd /\ NodesStep(nds, nds2, strs, strs2) /\ Len(nds) \in Nat /\ Len(nds2) \in Nat
    BY <1>1, GraphTypes DEF n
  <2>5. CASE m <= Len(nds)
    <3>1. m \in 1 .. Len(nds)
      BY <2>4, <2>5
    <3>2. s < nds[m].start
      BY <2>1, <2>2, <3>1 DEF Held, BeforeOK, n
    <3> QED BY <2>4, <3>1, <3>2 DEF NodesStep
  <2>6. CASE m > Len(nds)
    BY <1>4, <2>3, <2>4, <2>6 DEF NodesStep
  <2> QED BY <2>4, <2>5, <2>6
<1>10. LibraryOK(new)
  <2>1. \A d \in 1 .. n : new[d].mode = st[d].mode /\ new[d].graph = st[d].graph
    BY <1>1, <1>3 DEF Goes, n
  <2> QED BY <1>2, <2>1 DEF Held, LibraryOK, n
<1>11. UnderOK(new, sd)
  <2>1. \A d \in 1 .. n : new[d].graph = st[d].graph
    BY <1>1, <1>3 DEF Goes, n
  <2>2. \A d \in 1 .. n : d <= sd => Quiet(new[d])
    <3> SUFFICES ASSUME NEW d \in 1 .. n, d <= sd PROVE Quiet(new[d])
      OBVIOUS
    <3>1. CASE d = n
      BY <1>3, <3>1 DEF n
    <3>2. CASE d # n
      BY <1>3, <3>2 DEF Held, UnderOK, n
    <3> QED BY <3>1, <3>2
  <2>3. \A d \in 1 .. n : d > sd /\ sd # 0 => sd \in 1 .. n
    BY <1>1
  <2> QED BY <1>2, <2>1, <2>2, <2>3 DEF Held, UnderOK, n
<1>12. CallsOK(new)
  BY <1>2, <1>3 DEF Held, CallsOK, n
<1> QED BY <1>7, <1>8, <1>9, <1>10, <1>11, <1>12 DEF Held, new, n

(* Where every frame leads to a segmenter, the streams do not matter.      *)
LEMMA IdleHeld ==
    ASSUME NEW st, NEW k \in Nat, StackOK(st, k), NEW sd \in Nat, Len(st) <= sd,
           NEW strs, NEW nds, Held(st, nds, strs, sd), NEW strs2, NEW nds2
    PROVE  Held(st, nds2, strs2, sd)
<1>1. \A d \in 1 .. Len(st) : d <= sd /\ ~(d > sd) /\ ~(sd < d)
  BY StackTypes
<1> QED BY <1>1 DEF Held, HeldOK, ApartOK, BeforeOK

(* A frame without edges.                                                  *)
LEMMA NoEdges ==
    ASSUME NEW f, f.edges = <<>>, Once(f.ins)
    PROVE  EdgesOK(f) /\ GraphsOK(f) /\ Open(f) = {} /\ \A s : ~ Uses(f, s)
<1>1. DOMAIN f.edges = {}
  OBVIOUS
<1>2. Open(f) = {}
  BY <1>1 DEF Open
<1>3. \A s : ~ Uses(f, s)
  BY <1>2 DEF Uses
<1> QED BY <1>1, <1>2, <1>3 DEF EdgesOK, GraphsOK

(* The streams of the vector.                                              *)
LEMMA StreamRanks ==
    ASSUME NEW strs \in Seq(Stream)
    PROVE  /\ Len(strs) \in Nat /\ DOMAIN strs = 1 .. Len(strs)
           /\ \A s \in 1 .. Len(strs) : strs[s] \in Stream /\ strs[s].rank \in Nat
<1>1. \A x \in Stream : x.rank \in Nat
  BY DEF Stream
<1> QED BY <1>1, LenProperties, ElementOfSeq

(* RTGM_guardRTStream() protects what nothing protected.                   *)
LEMMA GuardIs ==
    ASSUME NEW strs \in Seq(Stream), NEW ins, NEW d \in Nat,
           NEW new, new = RTGM_guardRTStream(strs, ins, d)
    PROVE  /\ Len(new) = Len(strs)
           /\ \A s \in 1 .. Len(strs) :
                 /\ new[s].live = strs[s].live
                 /\ s \in Range(ins) /\ strs[s].rank = 0 => new[s].rank = d
                 /\ ~(s \in Range(ins) /\ strs[s].rank = 0) => new[s].rank = strs[s].rank
<1>1. Len(new) = Len(strs)
  BY StreamUpdates
<1>2. ASSUME NEW s \in 1 .. Len(strs)
      PROVE  /\ new[s].live = strs[s].live
             /\ s \in Range(ins) /\ strs[s].rank = 0 => new[s].rank = d
             /\ ~(s \in Range(ins) /\ strs[s].rank = 0) => new[s].rank = strs[s].rank
  <2>1. s \in DOMAIN strs /\ strs[s] \in Stream
    BY StreamRanks
  <2>2. new[s] = IF s \in Range(ins) /\ strs[s].rank = 0
                 THEN [strs[s] EXCEPT !.rank = d] ELSE strs[s]
    BY <2>1 DEF RTGM_guardRTStream
  <2>3. \A x \in Stream : /\ [x EXCEPT !.rank = d].live = x.live
                          /\ [x EXCEPT !.rank = d].rank = d
    BY DEF Stream
  <2> QED BY <2>1, <2>2, <2>3
<1> QED BY <1>1, <1>2

(* RTGM_clearRTStream() frees inputs that nothing, or nothing above, holds. *)
LEMMA ClearIs ==
    ASSUME NEW strs \in Seq(Stream), NEW ins, NEW d \in Nat,
           NEW new, new = RTGM_clearRTStream(strs, ins, d)
    PROVE  /\ Len(new) = Len(strs)
           /\ \A s \in 1 .. Len(strs) :
                 \/ Kept(strs, new, s)
                 \/ s \in Range(ins) /\ ~(Minus1(strs[s].rank) < Minus1(d))
           /\ \A s \in 1 .. Len(strs) : new[s].rank = strs[s].rank
<1>1. Len(new) = Len(strs)
  BY StreamUpdates
<1>2. ASSUME NEW s \in 1 .. Len(strs)
      PROVE  /\ \/ Kept(strs, new, s)
                \/ s \in Range(ins) /\ ~(Minus1(strs[s].rank) < Minus1(d))
             /\ new[s].rank = strs[s].rank
  <2>1. s \in DOMAIN strs /\ strs[s] \in Stream
    BY StreamRanks
  <2>2. new[s] = IF /\ s \in Range(ins) /\ ~ strs[s].toStore
                    /\ ~ (Minus1(strs[s].rank) < Minus1(d))
                 THEN [strs[s] EXCEPT !.live = FALSE] ELSE strs[s]
    BY <2>1 DEF RTGM_clearRTStream
  <2>3. \A x \in Stream : [x EXCEPT !.live = FALSE].rank = x.rank
    BY DEF Stream
  <2> QED BY <2>1, <2>2, <2>3 DEF Kept
<1> QED BY <1>1, <1>2

(* CCTX_runSuccessor() enters a graph.                                     *)
LEMMA PushHeld ==
    ASSUME NEW st, NEW k \in Nat, StackOK(st, k), NEW sd \in Nat,
           NEW strs \in Seq(Stream), NEW nds, GraphOK(nds, strs), Held(st, nds, strs, sd),
           NEW f \in Frame, f.edges = <<>>, f.graph # "segmenter", f.mode # "backup",
           f.nodesBefore = Len(nds), Once(f.ins),
           \A c \in 1 .. Len(st) : st[c].mode = "backup" => f.graph \in Library,
           \A s : Takes(f, s) =>
              /\ Sound(strs, s, Len(st))
              /\ \A c \in 1 .. Len(st) : c > sd => ~ Uses(st[c], s),
           sd <= Len(st), sd # 0 => st[sd].graph = "segmenter",
           st # <<>> => st[Len(st)].pc \notin {"enter", "fn"}
    PROVE  Held(Append(st, f), nds, RTGM_guardRTStream(strs, f.ins, Len(st) + 1), sd)
<1> DEFINE n == Len(st)
           new == Append(st, f)
           strs2 == RTGM_guardRTStream(strs, f.ins, n + 1)
<1>1. st \in Seq(Frame) /\ n \in Nat
  BY DEF StackOK
<1>2. /\ Len(new) = n + 1 /\ \A j \in 1 .. n : new[j] = st[j]
      /\ new[n + 1] = f
  BY <1>1, AppendProperties
<1>3. \A d \in 1 .. (n + 1) : d \in 1 .. n \/ d = n + 1
  BY <1>1
<1>4. /\ Len(strs) \in Nat
      /\ \A s \in 1 .. Len(strs) : strs[s].rank \in Nat
  BY StreamRanks
<1>5. n + 1 \in Nat
  BY <1>1
<1> HIDE DEF new, n
<1>6. /\ Len(strs2) = Len(strs)
      /\ \A s \in 1 .. Len(strs) :
            /\ strs2[s].live = strs[s].live
            /\ Takes(f, s) /\ strs[s].rank = 0 => strs2[s].rank = n + 1
            /\ ~(Takes(f, s) /\ strs[s].rank = 0) => strs2[s].rank = strs[s].rank
  BY <1>5, GuardIs DEF Takes
<1> HIDE DEF strs2
<1>7. EdgesOK(f) /\ GraphsOK(f) /\ \A s : ~ Uses(f, s)
  BY NoEdges
<1>8. ASSUME NEW d \in 1 .. n, d > sd PROVE FrameHeld(st[d], d, strs2)
  <2>1. FrameHeld(st[d], d, strs)
    BY <1>8 DEF Held, HeldOK, n
  <2>2. ASSUME NEW s, Takes(st[d], s) PROVE Sound(strs2, s, d) /\ strs2[s].rank >= 1
    <3>1. s \in 1 .. Len(strs) /\ strs[s].live /\ strs[s].rank <= d /\ strs[s].rank >= 1
      BY <2>1, <2>2 DEF FrameHeld, Sound
    <3>2. strs[s].rank # 0
      BY <1>4, <3>1
    <3>3. strs2[s].live = strs[s].live /\ strs2[s].rank = strs[s].rank
      BY <1>6, <3>1, <3>2
    <3> QED BY <1>6, <3>1, <3>3 DEF Sound
  <2>3. ASSUME NEW s, Uses(st[d], s) PROVE Sound(strs2, s, d)
    <3>1. s \in 1 .. Len(strs) /\ strs[s].live /\ strs[s].rank <= d
      BY <2>1, <2>3 DEF FrameHeld, Sound
    <3>2. ~ Takes(f, s)
      BY <1>8, <2>3 DEF n
    <3>3. strs2[s].live = strs[s].live /\ strs2[s].rank = strs[s].rank
      BY <1>6, <3>1, <3>2
    <3> QED BY <1>6, <3>1, <3>3 DEF Sound
  <2> QED BY <2>2, <2>3 DEF FrameHeld
<1>9. FrameHeld(f, n + 1, strs2)
  <2>1. ASSUME NEW s, Takes(f, s) PROVE Sound(strs2, s, n + 1) /\ strs2[s].rank >= 1
    <3>1. s \in 1 .. Len(strs) /\ strs[s].live /\ strs[s].rank <= n
      BY <2>1 DEF Sound, n
    <3>2. CASE strs[s].rank = 0
      BY <1>1, <1>6, <2>1, <3>1, <3>2 DEF Sound
    <3>3. CASE strs[s].rank # 0
      <4>1. strs2[s].rank = strs[s].rank /\ strs2[s].live
        BY <1>6, <3>1, <3>3
      <4> QED BY <1>1, <1>4, <1>6, <3>1, <3>3, <4>1 DEF Sound
    <3> QED BY <3>2, <3>3
  <2> QED BY <1>7, <2>1 DEF FrameHeld
<1>10. HeldOK(new, strs2, sd)
  <2> SUFFICES ASSUME NEW d \in 1 .. (n + 1)
               PROVE  /\ EdgesOK(new[d]) /\ GraphsOK(new[d])
                      /\ d > sd => FrameHeld(new[d], d, strs2)
    BY <1>2 DEF HeldOK
  <2>1. CASE d = n + 1
    BY <1>2, <1>7, <1>9, <2>1
  <2>2. CASE d \in 1 .. n
    <3>1. EdgesOK(st[d]) /\ GraphsOK(st[d]) /\ new[d] = st[d]
      BY <1>2, <2>2 DEF Held, HeldOK, n
    <3> QED BY <1>8, <2>2, <3>1
  <2> QED BY <1>3, <2>1, <2>2
<1>11. ApartOK(new, sd)
  <2> SUFFICES ASSUME NEW c \in 1 .. (n + 1), NEW d \in 1 .. (n + 1), sd < c, c < d,
                      NEW s, Uses(new[c], s)
               PROVE  ~ Takes(new[d], s) /\ ~ Uses(new[d], s)
    BY <1>2 DEF ApartOK
  <2>0. c \in 1 .. n /\ c > sd
    BY <1>1
  <2>1. new[c] = st[c] /\ Uses(st[c], s)
    BY <1>2, <2>0
  <2>2. CASE d \in 1 .. n
    <3>1. ~ Takes(st[d], s) /\ ~ Uses(st[d], s)
      BY <2>0, <2>1, <2>2 DEF Held, ApartOK, n
    <3> QED BY <1>2, <2>2, <3>1
  <2>3. CASE d = n + 1
    <3>1. ~ Takes(f, s)
      BY <2>0, <2>1 DEF n
    <3> QED BY <1>2, <1>7, <2>3, <3>1
  <2> QED BY <1>3, <2>2, <2>3
<1>12. BeforeOK(new, nds, sd)
  <2> SUFFICES ASSUME NEW c \in 1 .. (n + 1), NEW d \in 1 .. (n + 1), sd < c, c <= d,
                      NEW m \in 1 .. Len(nds), new[d].nodesBefore < m,
                      NEW s, Takes(new[c], s) \/ (c < d /\ Uses(new[c], s))
               PROVE  s < nds[m].start
    BY <1>2 DEF BeforeOK
  <2>1. Len(nds) \in Nat
    BY GraphTypes
  <2>2. CASE d = n + 1
    BY <1>2, <2>1, <2>2
  <2>3. CASE d \in 1 .. n
    <3>0. c \in 1 .. n
      BY <1>1, <2>3
    <3>1. c \in 1 .. n /\ new[c] = st[c] /\ new[d] = st[d]
      BY <1>2, <2>3, <3>0
    <3> QED BY <2>3, <3>1 DEF Held, BeforeOK, n
  <2> QED BY <1>3, <2>2, <2>3
<1>13. LibraryOK(new)
  <2> SUFFICES ASSUME NEW c \in 1 .. (n + 1), NEW d \in 1 .. (n + 1), c <= d,
                      new[c].mode = "backup"
               PROVE  new[d].graph \in Library
    BY <1>2 DEF LibraryOK
  <2>1. c \in 1 .. n
    BY <1>2, <1>3
  <2>2. new[c] = st[c]
    BY <1>2, <2>1
  <2>3. CASE d = n + 1
    BY <1>2, <2>1, <2>2, <2>3 DEF n
  <2>4. CASE d \in 1 .. n
    BY <1>2, <2>1, <2>2, <2>4 DEF Held, LibraryOK, n
  <2> QED BY <1>3, <2>3, <2>4
<1>14. UnderOK(new, sd)
  <2>1. sd # 0 => sd \in 1 .. n
    BY <1>1 DEF n
  <2>2. ASSUME NEW d \in 1 .. (n + 1)
        PROVE  /\ d <= sd => Quiet(new[d])
               /\ new[d].graph = "segmenter" => d = sd
    <3>1. CASE d = n + 1
      <4>1. ~ (d <= sd)
        BY <1>1, <3>1 DEF n
      <4> QED BY <1>2, <3>1, <4>1
    <3>2. CASE d \in 1 .. n
      BY <1>2, <3>2 DEF Held, UnderOK, n
    <3> QED BY <1>3, <3>1, <3>2
  <2>3. sd # 0 => new[sd].graph = "segmenter"
    BY <1>2, <2>1 DEF n
  <2> QED BY <1>2, <2>2, <2>3 DEF UnderOK
<1>15. CallsOK(new)
  <2> SUFFICES ASSUME NEW d \in 1 .. (n + 1), d # n + 1
               PROVE  new[d].pc \notin {"enter", "fn"}
    BY <1>2 DEF CallsOK
  <2>1. d \in 1 .. n /\ new[d] = st[d]
    BY <1>2, <1>3
  <2>2. CASE d = n
    <3>1. st # <<>>
      BY <1>1, <2>1, <2>2 DEF n
    <3> QED BY <2>1, <2>2, <3>1 DEF n
  <2>3. CASE d # n
    BY <2>1, <2>3 DEF Held, CallsOK, n
  <2> QED BY <2>2, <2>3
<1> QED BY <1>10, <1>11, <1>12, <1>13, <1>14, <1>15 DEF Held, new, n, strs2

(* A graph returns: its inputs are freed at its own depth.                 *)
LEMMA PopHeld ==
    ASSUME NEW st, NEW k \in Nat, StackOK(st, k), st # <<>>, NEW sd \in Nat,
           NEW strs \in Seq(Stream), NEW nds, Held(st, nds, strs, sd),
           NEW strs2, \/ strs2 = strs
                      \/ strs2 = RTGM_clearRTStream(strs, st[Len(st)].ins, Len(st))
    PROVE  Held(SubSeq(st, 1, Len(st) - 1), nds, strs2, sd)
<1> DEFINE n == Len(st)
           t == st[n]
           new == SubSeq(st, 1, n - 1)
<1>1. st \in Seq(Frame) /\ n \in Nat /\ n >= 1 /\ n \in 1 .. n
  BY DEF StackOK
<1>2. Len(new) = n - 1 /\ \A d \in 1 .. (n - 1) : new[d] = st[d]
  BY PopOK
<1>3. \A d \in 1 .. (n - 1) : d \in 1 .. n /\ d < n /\ d # n
  BY <1>1
<1>4. /\ Len(strs) \in Nat
      /\ \A s \in 1 .. Len(strs) : strs[s].rank \in Nat
  BY StreamRanks
<1> HIDE DEF new, n
<1>5. /\ Len(strs2) = Len(strs)
      /\ \A s \in 1 .. Len(strs) :
            Kept(strs, strs2, s) \/ (Takes(t, s) /\ ~(Minus1(strs[s].rank) < Minus1(n)))
  <2>1. CASE strs2 = strs
    BY <2>1 DEF Kept
  <2>2. CASE strs2 = RTGM_clearRTStream(strs, t.ins, n)
    BY <1>1, <2>2, ClearIs DEF Takes
  <2> QED BY <2>1, <2>2 DEF n
<1>6. ASSUME NEW d \in 1 .. (n - 1), d > sd PROVE FrameHeld(st[d], d, strs2)
  <2>0. d \in 1 .. n /\ d < n /\ d \in Nat
    BY <1>1
  <2>1. FrameHeld(st[d], d, strs) /\ sd < d
    BY <1>6, <2>0 DEF Held, HeldOK, n
  <2>2. ASSUME NEW s, Takes(st[d], s) PROVE Sound(strs2, s, d) /\ strs2[s].rank >= 1
    <3>1. s \in 1 .. Len(strs) /\ strs[s].live /\ strs[s].rank <= d /\ strs[s].rank >= 1
      BY <2>1, <2>2 DEF FrameHeld, Sound
    <3>2. Minus1(strs[s].rank) < Minus1(n)
      BY <1>1, <1>4, <2>0, <3>1 DEF Minus1
    <3>3. Kept(strs, strs2, s)
      BY <1>5, <3>1, <3>2
    <3> QED BY <1>5, <3>1, <3>3 DEF Kept, Sound
  <2>3. ASSUME NEW s, Uses(st[d], s) PROVE Sound(strs2, s, d)
    <3>1. s \in 1 .. Len(strs) /\ strs[s].live /\ strs[s].rank <= d
      BY <2>1, <2>3 DEF FrameHeld, Sound
    <3>2. ~ Takes(t, s)
      BY <1>1, <2>0, <2>1, <2>3 DEF Held, ApartOK, n
    <3>3. Kept(strs, strs2, s)
      BY <1>5, <3>1, <3>2
    <3> QED BY <1>5, <3>1, <3>3 DEF Kept, Sound
  <2> QED BY <2>2, <2>3 DEF FrameHeld
<1>7. HeldOK(new, strs2, sd)
  <2> SUFFICES ASSUME NEW d \in 1 .. (n - 1)
               PROVE  /\ EdgesOK(new[d]) /\ GraphsOK(new[d])
                      /\ d > sd => FrameHeld(new[d], d, strs2)
    BY <1>2 DEF HeldOK
  <2>1. EdgesOK(st[d]) /\ GraphsOK(st[d]) /\ new[d] = st[d]
    BY <1>2, <1>3 DEF Held, HeldOK, n
  <2> QED BY <1>6, <2>1
<1>8. ApartOK(new, sd)
  BY <1>2, <1>3 DEF Held, ApartOK, n
<1>9. BeforeOK(new, nds, sd)
  BY <1>2, <1>3 DEF Held, BeforeOK, n
<1>10. LibraryOK(new)
  BY <1>2, <1>3 DEF Held, LibraryOK, n
<1>11. UnderOK(new, sd)
  <2>1. ASSUME NEW d \in 1 .. (n - 1)
        PROVE  /\ d <= sd => Quiet(new[d])
               /\ new[d].graph = "segmenter" => d = sd
    BY <1>2, <1>3 DEF Held, UnderOK, n
  <2>2. ASSUME NEW d \in 1 .. (n - 1), d > sd, sd # 0 PROVE new[sd].graph = "segmenter"
    <3>1. sd \in 1 .. (n - 1)
      BY <1>1, <2>2
    <3>2. st[sd].graph = "segmenter"
      BY <1>3, <2>2 DEF Held, UnderOK, n
    <3> QED BY <1>2, <3>1, <3>2
  <2> QED BY <1>2, <2>1, <2>2 DEF UnderOK
<1>12. CallsOK(new)
  BY <1>2, <1>3 DEF Held, CallsOK, n
<1> QED BY <1>7, <1>8, <1>9, <1>10, <1>11, <1>12 DEF Held, new, n

(* SEGM_init() empties the graph under frames that need nothing of it.     *)
LEMMA SegHeld ==
    ASSUME NEW st, NEW k \in Nat, StackOK(st, k), NEW strs, NEW nds, Held(st, nds, strs, 0),
           \A d \in 1 .. Len(st) : Quiet(st[d]),
           NEW f \in Frame, f.edges = <<>>, f.graph = "segmenter", f.mode # "backup",
           Once(f.ins), f.segmentable, f.pc = "seg", NEW strs2, NEW nds2
    PROVE  Held(Append(st, f), nds2, strs2, Len(st) + 1)
<1> DEFINE n == Len(st)
           new == Append(st, f)
<1>1. st \in Seq(Frame) /\ n \in Nat
  BY DEF StackOK
<1>2. /\ Len(new) = n + 1 /\ \A j \in 1 .. n : new[j] = st[j]
      /\ new[n + 1] = f
  BY <1>1, AppendProperties
<1>3. \A d \in 1 .. (n + 1) : (d \in 1 .. n \/ d = n + 1) /\ ~(d > n + 1) /\ ~(n + 1 < d)
  BY <1>1
<1>4. EdgesOK(f) /\ GraphsOK(f) /\ Open(f) = {}
  BY NoEdges
<1>5. Quiet(f)
  BY <1>4 DEF Quiet
<1> HIDE DEF new, n
<1>6. \A d \in 1 .. n : /\ EdgesOK(st[d]) /\ GraphsOK(st[d]) /\ Quiet(st[d])
                        /\ st[d].graph # "segmenter"
  <2>1. \A d \in 1 .. n : d # 0
    BY <1>1
  <2> QED BY <2>1 DEF Held, HeldOK, UnderOK, n
<1>7. ASSUME NEW d \in 1 .. (n + 1)
      PROVE  /\ EdgesOK(new[d]) /\ GraphsOK(new[d]) /\ Quiet(new[d])
             /\ new[d].graph = "segmenter" => d = n + 1
  BY <1>2, <1>3, <1>4, <1>5, <1>6
<1>8. HeldOK(new, strs2, n + 1) /\ ApartOK(new, n + 1) /\ BeforeOK(new, nds2, n + 1)
  BY <1>2, <1>3, <1>7 DEF HeldOK, ApartOK, BeforeOK
<1>9. LibraryOK(new) /\ UnderOK(new, n + 1)
  BY <1>2, <1>3, <1>7 DEF LibraryOK, UnderOK, Quiet
<1>10. CallsOK(new)
  BY <1>2, <1>7 DEF CallsOK, Quiet
<1> QED BY <1>8, <1>9, <1>10 DEF Held, new, n

(* The fallback keeps what the frames need: it was there before.           *)
LEMMA RevertHeld ==
    ASSUME NEW st, NEW k \in Nat, StackOK(st, k), st # <<>>, NEW sd \in Nat, Len(st) > sd,
           NEW nds, NEW strs, GraphOK(nds, strs), Held(st, nds, strs, sd),
           st[Len(st)].nodesBefore <= Len(nds),
           NEW g \in Frame, g.ins = st[Len(st)].ins, g.edges = <<>>,
           g.graph = "generic", g.nodesBefore = st[Len(st)].nodesBefore
    PROVE  Held([st EXCEPT ![Len(st)] = g], NodesUpTo(nds, g.nodesBefore),
                StreamsBeforeNode(nds, strs, g.nodesBefore), sd)
<1> DEFINE n == Len(st)
           t == st[n]
           b == g.nodesBefore
           new == [st EXCEPT ![n] = g]
           nds2 == NodesUpTo(nds, b)
           strs2 == StreamsBeforeNode(nds, strs, b)
<1>1. st \in Seq(Frame) /\ n \in 1 .. n /\ n \in Nat
  BY DEF StackOK
<1>2. /\ Len(new) = n
      /\ \A j \in 1 .. n : new[j] = IF j = n THEN g ELSE st[j]
  BY <1>1, ExceptSeq
<1>3. new[n] = g /\ \A d \in 1 .. n : d # n => new[d] = st[d]
  BY <1>1, <1>2
<1>4. /\ nds \in Seq(Node) /\ Len(nds) \in Nat /\ strs \in Seq(Stream) /\ Len(strs) \in Nat
      /\ \A m \in 1 .. Len(nds) : nds[m].start \in Nat /\ nds[m].start <= Len(strs) + 1
      /\ b \in Nat /\ b <= Len(nds)
  BY GraphTypes, FrameTypes DEF GraphOK
<1>5. Len(nds2) = b /\ \A m \in 1 .. b : nds2[m] = nds[m] /\ m \in 1 .. Len(nds)
  <2>1. b \in 0 .. Len(nds)
    BY <1>4
  <2> QED BY <1>4, <2>1, Prefix DEF NodesUpTo
<1> HIDE DEF new, n, nds2
<1>6. ASSUME NEW d \in 1 .. n, sd < d, NEW s, Takes(st[d], s) \/ (d < n /\ Uses(st[d], s))
      PROVE  s \in 1 .. Len(strs2) /\ Kept(strs, strs2, s)
  <2>1. s \in 1 .. Len(strs)
    BY <1>6, NeedsInside DEF n
  <2>2. CASE Len(nds) = b
    <3>1. strs2 = strs
      BY <2>2 DEF StreamsBeforeNode
    <3> QED BY <2>1, <3>1 DEF Kept
  <2>3. CASE Len(nds) # b
    <3>1. b + 1 \in 1 .. Len(nds) /\ t.nodesBefore < b + 1 /\ d <= n
      BY <1>1, <1>4, <2>3 DEF n
    <3>2. s < nds[b + 1].start
      BY <1>1, <1>6, <3>1 DEF Held, BeforeOK, n
    <3> DEFINE e == nds[b + 1].start - 1
    <3>a. nds[b + 1].start \in Nat /\ nds[b + 1].start <= Len(strs) + 1
      BY <1>4, <3>1
    <3>3. e \in 0 .. Len(strs) /\ s \in 1 .. e
      <4> DEFINE x == nds[b + 1].start
      <4>1. x \in Nat /\ x <= Len(strs) + 1 /\ s < x /\ Len(strs) \in Nat /\ s \in 1 .. Len(strs)
        BY <1>4, <2>1, <3>2, <3>a
      <4> HIDE DEF x
      <4>2. x - 1 \in 0 .. Len(strs) /\ s \in 1 .. (x - 1)
        BY <4>1
      <4> QED BY <4>2 DEF x
    <3>4. strs2 = SubSeq(strs, 1, e)
      BY <2>3 DEF StreamsBeforeNode
    <3> HIDE DEF e, strs2
    <3>5. Len(strs2) = e /\ \A i \in 1 .. e : strs2[i] = strs[i]
      BY <1>4, <3>3, <3>4, Prefix
    <3> QED BY <3>3, <3>5 DEF Kept
  <2> QED BY <2>2, <2>3
<1> HIDE DEF strs2
<1>7. EdgesOK(g) /\ GraphsOK(g) /\ \A s : ~ Uses(g, s)
  <2>1. EdgesOK(t)
    BY <1>1 DEF Held, HeldOK, n
  <2> QED BY <2>1, NoEdges DEF EdgesOK, n
<1>8. \A s : Takes(g, s) <=> Takes(t, s)
  BY DEF Takes, n
<1>9. ASSUME NEW d \in 1 .. n PROVE d > sd => FrameHeld(new[d], d, strs2)
  <2> SUFFICES ASSUME d > sd PROVE FrameHeld(new[d], d, strs2)
    OBVIOUS
  <2>1. FrameHeld(st[d], d, strs) /\ sd < d
    BY DEF Held, HeldOK, n
  <2>2. ASSUME NEW s, Takes(st[d], s) PROVE Sound(strs2, s, d) /\ strs2[s].rank >= 1
    BY <1>6, <2>1, <2>2 DEF FrameHeld, Sound, Kept
  <2>3. CASE d = n
    BY <1>3, <1>7, <1>8, <2>2, <2>3 DEF FrameHeld
  <2>4. CASE d # n
    <3>1. d < n /\ new[d] = st[d]
      BY <1>1, <1>3, <2>4
    <3>2. ASSUME NEW s, Uses(st[d], s) PROVE Sound(strs2, s, d)
      BY <1>6, <2>1, <3>1, <3>2 DEF FrameHeld, Sound, Kept
    <3> QED BY <2>2, <3>1, <3>2 DEF FrameHeld
  <2> QED BY <2>3, <2>4
<1>10. HeldOK(new, strs2, sd)
  <2>1. \A d \in 1 .. n : EdgesOK(st[d]) /\ GraphsOK(st[d])
    BY DEF Held, HeldOK, n
  <2>2. \A d \in 1 .. n : EdgesOK(new[d]) /\ GraphsOK(new[d])
    BY <1>2, <1>7, <2>1
  <2> QED BY <1>2, <1>9, <2>2 DEF HeldOK
<1>11. ApartOK(new, sd)
  <2> SUFFICES ASSUME NEW c \in 1 .. n, NEW d \in 1 .. n, sd < c, c < d,
                      NEW s, Uses(new[c], s)
               PROVE  ~ Takes(new[d], s) /\ ~ Uses(new[d], s)
    BY <1>2 DEF ApartOK
  <2>0. c # n
    BY <1>1
  <2>1. Uses(st[c], s)
    BY <1>3, <2>0
  <2>2. ~ Takes(st[d], s) /\ ~ Uses(st[d], s)
    BY <2>1 DEF Held, ApartOK, n
  <2>3. CASE d = n
    BY <1>3, <1>7, <1>8, <2>2, <2>3
  <2>4. CASE d # n
    BY <1>3, <2>2, <2>4
  <2> QED BY <2>3, <2>4
<1>12. BeforeOK(new, nds2, sd)
  <2> SUFFICES ASSUME NEW c \in 1 .. n, NEW d \in 1 .. n, sd < c, c <= d,
                      NEW m \in 1 .. b, new[d].nodesBefore < m,
                      NEW s, Takes(new[c], s) \/ (c < d /\ Uses(new[c], s))
               PROVE  s < nds2[m].start
    BY <1>2, <1>5 DEF BeforeOK
  <2>1. Takes(st[c], s) \/ (c < d /\ Uses(st[c], s))
    <3>1. CASE c = n
      BY <1>3, <1>7, <1>8, <3>1
    <3>2. CASE c # n
      BY <1>3, <3>2
    <3> QED BY <3>1, <3>2
  <2>2. new[d].nodesBefore = st[d].nodesBefore
    <3>1. CASE d = n
      BY <1>1, <1>3, <3>1 DEF n
    <3>2. CASE d # n
      BY <1>3, <3>2
    <3> QED BY <3>1, <3>2
  <2>3. m \in 1 .. Len(nds) /\ nds2[m] = nds[m]
    BY <1>5
  <2> QED BY <2>1, <2>2, <2>3 DEF Held, BeforeOK, n
<1>13. LibraryOK(new)
  <2> SUFFICES ASSUME NEW c \in 1 .. n, NEW d \in 1 .. n, c <= d, new[c].mode = "backup"
               PROVE  new[d].graph \in Library
    BY <1>2 DEF LibraryOK
  <2>1. CASE d = n
    BY <1>3, <2>1 DEF Library
  <2>2. CASE d # n
    <3>1. c # n
      BY <1>1, <2>2
    <3> QED BY <1>3, <2>2, <3>1 DEF Held, LibraryOK, n
  <2> QED BY <2>1, <2>2
<1>14. UnderOK(new, sd)
  <2>1. ASSUME NEW d \in 1 .. n
        PROVE  /\ d <= sd => Quiet(new[d])
               /\ new[d].graph = "segmenter" => d = sd
    <3>1. CASE d = n
      <4>1. ~(d <= sd)
        BY <1>1, <3>1 DEF n
      <4> QED BY <1>3, <3>1, <4>1
    <3>2. CASE d # n
      BY <1>3, <3>2 DEF Held, UnderOK, n
    <3> QED BY <3>1, <3>2
  <2>2. sd # 0 => new[sd].graph = "segmenter"
    <3> SUFFICES ASSUME sd # 0 PROVE new[sd].graph = "segmenter"
      OBVIOUS
    <3>1. sd \in 1 .. n /\ sd # n
      BY <1>1 DEF n
    <3>2. st[sd].graph = "segmenter"
      BY <1>1 DEF Held, UnderOK, n
    <3> QED BY <1>3, <3>1, <3>2
  <2> QED BY <1>2, <2>1, <2>2 DEF UnderOK
<1>15. CallsOK(new)
  BY <1>2, <1>3 DEF Held, CallsOK, n
<1> QED BY <1>10, <1>11, <1>12, <1>13, <1>14, <1>15 DEF Held, new, n, nds2, strs2

-----------------------------------------------------------------------------
(* Where the streams come from.                                            *)

(* Nodes come after the streams of the k inputs.                           *)
Origin(nds, strs, k) ==
    IF nds = <<>> THEN Len(strs) = k ELSE nds[1].start = k + 1

(* The only input of a session: before any node it is what a graph gets.   *)
RoutesOK(st) ==
    MaxInputs = 1 =>
        \A d \in 1 .. Len(st) : st[d].nodesBefore = 0 => st[d].segmentable

(* The inputs' streams, before the starting graph.                         *)
StartOK ==
    /\ segmenterDepth = 0 /\ numSegments = 0 /\ nodes = <<>>
    /\ Len(streams) = Len(inputs)
    /\ \A s \in 1 .. Len(streams) : streams[s].live /\ streams[s].rank = 0

(* The number of inputs, and what a session without segmenter knows of     *)
(* its streams.                                                            *)
Flow ==
    /\ Len(inputs) <= MaxInputs
    /\ phase = "start" => StartOK
    /\ segmenterDepth = 0 /\ phase = "run" =>
          /\ numSegments = 0
          /\ Origin(nodes, streams, Len(inputs))
          /\ RoutesOK(stack)

(* The invariant.                                                          *)
HInv == IInv /\ Held(stack, nodes, streams, segmenterDepth) /\ Flow

(* A frame that leaves its graph, or a segmenter at work.                  *)
Leaves(g, t) ==
    \E label \in {"ok", "err", "seg", "chunk", "chunkErr"} : g = [t EXCEPT !.pc = label]

(* It needs no stream any more.                                            *)
LEMMA LeaveFrame ==
    ASSUME NEW t \in Frame, EdgesOK(t), GraphsOK(t), NEW g, Leaves(g, t)
    PROVE  /\ g \in Frame
           /\ Goes(g, t) /\ EdgesOK(g) /\ GraphsOK(g) /\ (\A s : ~ Uses(g, s))
           /\ Quiet(t) => Quiet(g)
<1>1. PICK label \in {"ok", "err", "seg", "chunk", "chunkErr"} : g = [t EXCEPT !.pc = label]
  BY DEF Leaves
<1>2. /\ g \in Frame /\ g.pc = label /\ g.edges = t.edges /\ g.ins = t.ins
      /\ g.graph = t.graph /\ g.mode = t.mode /\ g.nodesBefore = t.nodesBefore
      /\ g.segmentable = t.segmentable
  BY <1>1 DEF Frame, PC
<1>3. Open(g) = {}
  BY <1>2 DEF Open
<1>4. Goes(g, t) /\ \A s : ~ Uses(g, s)
  BY <1>2, <1>3 DEF Goes, Uses
<1>5. EdgesOK(g)
  BY <1>2, <1>3 DEF EdgesOK
<1>6. GraphsOK(g)
  BY <1>2 DEF GraphsOK
<1>7. Quiet(t) => Quiet(g)
  BY <1>2, <1>3 DEF Quiet
<1> QED BY <1>2, <1>4, <1>5, <1>6, <1>7

(* Where streams and nodes stay as they are, and the frame needs no more.  *)
LEMMA NothingNew ==
    ASSUME NEW t, NEW g, NEW n, NEW nds, NEW strs \in Seq(Stream), Len(nds) \in Nat,
           \A s : Uses(g, s) => Uses(t, s) \/ Takes(t, s),
           \A s : Uses(g, s) => s \in 1 .. Len(strs)
    PROVE  StreamsStep(t, g, n, strs, strs) /\ NodesStep(nds, nds, strs, strs)
<1>1. Len(strs) \in Nat
  BY StreamRanks
<1> QED BY <1>1 DEF StreamsStep, NodesStep, Kept

(* The top frame leaves its graph, the streams stay.                       *)
LEMMA LeaveHeld ==
    ASSUME NEW st, NEW k \in Nat, StackOK(st, k), st # <<>>, NEW sd \in Nat,
           NEW nds, NEW strs, GraphOK(nds, strs), Held(st, nds, strs, sd),
           NEW g, Leaves(g, st[Len(st)])
    PROVE  /\ Held([st EXCEPT ![Len(st)] = g], nds, strs, sd)
           /\ RoutesOK(st) => RoutesOK([st EXCEPT ![Len(st)] = g])
<1> DEFINE n == Len(st)
           t == st[n]
           new == [st EXCEPT ![n] = g]
<1>1. st \in Seq(Frame) /\ n \in 1 .. n /\ n \in Nat /\ t \in Frame
  <2>1. st \in Seq(Frame) /\ n \in 1 .. n /\ n \in Nat
    BY DEF StackOK
  <2> QED BY <2>1, ElementOfSeq
<1>2. EdgesOK(t) /\ GraphsOK(t)
  BY <1>1 DEF Held, HeldOK
<1>3. /\ g \in Frame /\ Goes(g, t) /\ EdgesOK(g) /\ GraphsOK(g) /\ (\A s : ~ Uses(g, s))
      /\ Quiet(t) => Quiet(g)
  BY <1>1, <1>2, LeaveFrame
<1>4. strs \in Seq(Stream) /\ Len(nds) \in Nat
  BY GraphTypes
<1>5. StreamsStep(t, g, n, strs, strs) /\ NodesStep(nds, nds, strs, strs)
  BY <1>3, <1>4, NothingNew
<1>6. n <= sd => Quiet(g)
  BY <1>1, <1>3 DEF Held, UnderOK
<1>7. Held(new, nds, strs, sd)
  <2>1. /\ Goes(g, st[Len(st)]) /\ (Len(st) <= sd => Quiet(g))
        /\ StreamsStep(st[Len(st)], g, Len(st), strs, strs)
        /\ NodesStep(nds, nds, strs, strs)
    BY <1>3, <1>5, <1>6
  <2> QED BY <1>3, <1>4, <2>1, TopHeld, Zenon
<1>8. /\ Len(new) = n
      /\ \A j \in 1 .. n : new[j] = IF j = n THEN g ELSE st[j]
  BY <1>1, <1>3, ExceptSeq
<1> HIDE DEF new
<1>9. \A j \in 1 .. n : /\ new[j].nodesBefore = st[j].nodesBefore
                        /\ new[j].segmentable = st[j].segmentable
  BY <1>1, <1>3, <1>8 DEF Goes
<1>10. RoutesOK(st) => RoutesOK(new)
  BY <1>8, <1>9 DEF RoutesOK
<1> QED BY <1>7, <1>10 DEF new

(* A result goes to the caller.                                            *)
LEMMA ReturnHeld ==
    ASSUME NEW STATE callers, NEW STATE nds, NEW STATE strs, GraphOK(nds, strs),
           StackOK(callers, Len(nds)), segmenterDepth \in Nat,
           Held(callers, nds, strs, segmenterDepth),
           NEW STATE r, r \in {"ok", "err"}, ReturnTo(callers, r)
    PROVE  /\ Held(stack', nds, strs, segmenterDepth)
           /\ RoutesOK(callers) => RoutesOK(stack')
           /\ phase' # "start"
<1>1. Len(nds) \in Nat /\ Len(callers) \in Nat /\ (callers = <<>> <=> Len(callers) = 0)
  BY GraphTypes, StackTypes
<1>2. phase' # "start"
  BY DEF ReturnTo
<1>3. CASE Len(callers) = 0 \/ r = "ok"
  <2>1. stack' = callers
    BY <1>3 DEF ReturnTo
  <2> QED BY <1>2, <2>1
<1>4. CASE Len(callers) # 0 /\ r = "err"
  <2>1. PICK g : g = Failed(callers[Len(callers)])
    OBVIOUS
  <2>2. Leaves(g, callers[Len(callers)])
    BY <2>1 DEF Leaves, Failed
  <2>3. stack' = [callers EXCEPT ![Len(callers)] = g]
    BY <1>4, <2>1 DEF ReturnTo
  <2>4. callers # <<>>
    BY <1>1, <1>4
  <2>5. /\ Held([callers EXCEPT ![Len(callers)] = g], nds, strs, segmenterDepth)
        /\ RoutesOK(callers) => RoutesOK([callers EXCEPT ![Len(callers)] = g])
    BY <1>1, <2>2, <2>4, LeaveHeld
  <2> QED BY <1>2, <2>3, <2>5
<1> QED BY <1>3, <1>4

(* The frames a call enters with.                                          *)
LEMMA EnterFrame ==
    ASSUME NEW graph \in Graphs, NEW ins \in SidList, NEW b \in BOOLEAN,
           NEW nds \in Seq(Node), NEW mode \in Mode, NEW pc \in PC
    PROVE  LET f == NewFrame(graph, ins, b, nds, mode, pc)
           IN  /\ f \in Frame /\ f.edges = <<>> /\ f.ins = ins /\ f.graph = graph
               /\ f.mode = mode /\ f.pc = pc /\ f.nodesBefore = Len(nds)
               /\ f.segmentable = b
<1>1. <<>> \in Seq(Edge) /\ Len(nds) \in Nat
  BY EmptySeq, LenProperties
<1> QED BY <1>1 DEF NewFrame, Frame

(* A list of different streams of a vector that has one.                   *)
LEMMA OnlyOne ==
    ASSUME NEW ins \in SidList, Once(ins), \A s \in Range(ins) : s \in 1 .. 1
    PROVE  ins[1] = 1 /\ Len(ins) = 1
<1>1. ins \in Seq(Nat) /\ ins # <<>> /\ Len(ins) \in Nat /\ DOMAIN ins = 1 .. Len(ins)
  BY LenProperties DEF SidList
<1>2. Len(ins) >= 1
  BY <1>1
<1>3. \A i \in DOMAIN ins : ins[i] = 1
  BY DEF Range
<1>4. Len(ins) = 1
  <2> SUFFICES ASSUME Len(ins) # 1 PROVE FALSE
    OBVIOUS
  <2>1. 1 \in DOMAIN ins /\ 2 \in DOMAIN ins
    BY <1>1, <1>2
  <2> QED BY <1>3, <2>1 DEF Once
<1> QED BY <1>1, <1>2, <1>3, <1>4

(* What CCTX_runSuccessor() is called with.                                *)
CallOK(callers, strs, graph, ins, sd) ==
    /\ sd <= Len(callers) /\ (sd # 0 => callers[sd].graph = "segmenter")
    /\ callers # <<>> => callers[Len(callers)].pc \notin {"enter", "fn"}
    /\ Once(ins)
    /\ \A c \in 1 .. Len(callers) : callers[c].mode = "backup" => graph \in Library
    /\ \A s \in Range(ins) :
          /\ Sound(strs, s, Len(callers))
          /\ \A c \in 1 .. Len(callers) : c > sd => ~ Uses(callers[c], s)

(* Flow, for a call.                                                       *)
RunFlow(st, nds, strs) ==
    numSegments = 0 /\ Origin(nds, strs, Len(inputs)) /\ RoutesOK(st)

(* CCTX_runSuccessor() enters a graph that is not a segmenter.             *)
LEMMA EnterHeld ==
    ASSUME NEW st, NEW sd \in Nat, NEW strs, NEW nds, GraphOK(nds, strs),
           StackOK(st, Len(nds)), Held(st, nds, strs, sd),
           NEW graph, NEW ins, CallOK(st, strs, graph, ins, sd),
           NEW f \in Frame, f.edges = <<>>, f.graph # "segmenter", f.mode # "backup",
           f.nodesBefore = Len(nds), f.ins = ins, graph \in Library => f.graph \in Library
    PROVE  Held(Append(st, f), nds, RTGM_guardRTStream(strs, ins, Len(st) + 1), sd)
<1>1. Len(nds) \in Nat /\ strs \in Seq(Stream)
  BY GraphTypes
<1>2. PICK k \in Nat : k = Len(nds) /\ StackOK(st, k)
  BY <1>1
<1>3. \A c \in 1 .. Len(st) : st[c].mode = "backup" => f.graph \in Library
  BY DEF CallOK
<1>4. \A s : Takes(f, s) =>
              /\ Sound(strs, s, Len(st))
              /\ \A c \in 1 .. Len(st) : c > sd => ~ Uses(st[c], s)
  BY DEF CallOK, Takes
<1>5. /\ Once(f.ins) /\ sd <= Len(st) /\ (sd # 0 => st[sd].graph = "segmenter")
      /\ (st # <<>> => st[Len(st)].pc \notin {"enter", "fn"})
  BY DEF CallOK
<1>6. Held(Append(st, f), nds, RTGM_guardRTStream(strs, f.ins, Len(st) + 1), sd)
  BY <1>1, <1>2, <1>3, <1>4, <1>5, PushHeld
<1> QED BY <1>6

(* CCTX_runSuccessor() refuses, enters a segmenter, or enters a graph.     *)
LEMMA RunSuccessorHeld ==
    ASSUME NEW STATE callers, NEW STATE nds, NEW STATE strs, NEW STATE graph, NEW STATE ins,
           GraphOK(nds, strs), StackOK(callers, Len(nds)),
           graph \in Graphs, ins \in SidList, segmenterDepth \in Nat,
           Held(callers, nds, strs, segmenterDepth),
           CallOK(callers, strs, graph, ins, segmenterDepth),
           graph = "segmenter" /\ IsSegmentable(nds, ins) =>
               \A d \in 1 .. Len(callers) : Quiet(callers[d]),
           inputs \in Seq(Kind), inputs # <<>>, Len(inputs) <= MaxInputs,
           segmenterDepth = 0 => RunFlow(callers, nds, strs),
           CCTX_runSuccessor(callers, nds, strs, graph, ins),
           UNCHANGED <<numSegments, inputs>>
    PROVE  /\ Held(stack', nodes', streams', segmenterDepth')
           /\ segmenterDepth' = 0 => RunFlow(stack, nodes, streams)'
           /\ phase' # "start"
<1> DEFINE d == Len(callers) + 1
           segmentable == IsSegmentable(nds, ins)
<1>1. /\ nds \in Seq(Node) /\ Len(nds) \in Nat /\ strs \in Seq(Stream)
      /\ Len(callers) \in Nat /\ d \in Nat /\ d # 0 /\ segmentable \in BOOLEAN
  BY GraphTypes, StackTypes DEF IsSegmentable
<1>2. ASSUME ReturnTo(callers, "err"), nodes' = nds, streams' = strs,
             UNCHANGED <<segmenterDepth, numChunks>>
      PROVE  /\ Held(stack', nodes', streams', segmenterDepth')
             /\ segmenterDepth' = 0 => RunFlow(stack, nodes, streams)'
             /\ phase' # "start"
  <2>1. /\ Held(stack', nds, strs, segmenterDepth)
        /\ RoutesOK(callers) => RoutesOK(stack')
        /\ phase' # "start"
    BY <1>2, ReturnHeld
  <2> QED BY <1>2, <2>1 DEF RunFlow
<1>3. CASE graph = "segmenter" /\ segmentable
  <2> DEFINE f == NewFrame("segmenter", ins, TRUE, nds, "normal", "seg")
  <2>1. segmenterDepth = 0 /\ \A c \in 1 .. Len(callers) : Quiet(callers[c])
    BY <1>3 DEF IsSegmentable
  <2>2. /\ f \in Frame /\ f.edges = <<>> /\ f.graph = "segmenter" /\ f.mode # "backup"
        /\ f.ins = ins /\ f.segmentable /\ f.pc = "seg"
    <3>1. "segmenter" \in Graphs /\ "normal" \in Mode /\ "seg" \in PC /\ TRUE \in BOOLEAN
      BY DEF Graphs, Mode, PC
    <3>2. <<>> \in Seq(Edge)
      BY EmptySeq
    <3> QED BY <1>1, <3>1, <3>2 DEF NewFrame, Frame
  <2> HIDE DEF f
  <2>3. Once(f.ins)
    BY <2>2 DEF CallOK
  <2>4. \A nds2, strs2 : Held(Append(callers, f), nds2, strs2, Len(callers) + 1)
    BY <1>1, <2>1, <2>2, <2>3, SegHeld
  <2>5. ASSUME stack' = Append(callers, f), segmenterDepth' = d, phase' = "run"
        PROVE  /\ Held(stack', nodes', streams', segmenterDepth')
               /\ segmenterDepth' = 0 => RunFlow(stack, nodes, streams)'
               /\ phase' # "start"
    BY <1>1, <2>4, <2>5
  <2>6. CASE DepthExceeded(d)
    BY <1>2, <2>6 DEF CCTX_runSuccessor
  <2>7. CASE ~ DepthExceeded(d)
    BY <1>2, <1>3, <2>5, <2>7 DEF CCTX_runSuccessor, CCTX_runSegmenter, f
  <2> QED BY <2>6, <2>7
<1>4. CASE DepthExceeded(d) \/ (graph = "segmenter" /\ ~ segmentable)
  BY <1>2, <1>4 DEF CCTX_runSuccessor
<1>5. CASE ~ DepthExceeded(d) /\ graph # "segmenter"
  <2> DEFINE small == NewFrame("store1", ins, segmentable, nds, "small", "enter")
             full == NewFrame(graph, ins, segmentable, nds, "normal", "enter")
             f == IF IsSmall(strs, graph, ins) THEN small ELSE full
  <2>1. /\ small \in Frame /\ small.edges = <<>> /\ small.ins = ins /\ small.graph = "store1"
        /\ small.mode # "backup" /\ small.nodesBefore = Len(nds)
        /\ small.segmentable = segmentable
    <3>1. /\ "store1" \in Graphs /\ "small" \in Mode /\ "enter" \in PC
      BY DEF Graphs, Mode, PC
    <3> HIDE DEF segmentable
    <3> QED BY <1>1, <3>1, EnterFrame
  <2>2. /\ full \in Frame /\ full.edges = <<>> /\ full.ins = ins /\ full.graph = graph
        /\ full.mode # "backup" /\ full.nodesBefore = Len(nds)
        /\ full.segmentable = segmentable
    <3>1. /\ "normal" \in Mode /\ "enter" \in PC
      BY DEF Mode, PC
    <3> HIDE DEF segmentable
    <3> QED BY <1>1, <3>1, EnterFrame
  <2>3. /\ stack' = Append(callers, f) /\ nodes' = nds
        /\ streams' = RTGM_guardRTStream(strs, ins, d) /\ phase' = "run"
        /\ UNCHANGED <<segmenterDepth, numChunks>>
    BY <1>5 DEF CCTX_runSuccessor
  <2> HIDE DEF small, full, segmentable
  <2>4. /\ f \in Frame /\ f.edges = <<>> /\ f.ins = ins /\ f.graph # "segmenter"
        /\ f.mode # "backup" /\ f.nodesBefore = Len(nds)
        /\ graph \in Library => f.graph \in Library
        /\ f.segmentable = segmentable
    BY <1>5, <2>1, <2>2 DEF Library
  <2> HIDE DEF f
  <2>5. Held(Append(callers, f), nds, RTGM_guardRTStream(strs, ins, Len(callers) + 1),
             segmenterDepth)
    BY <2>4, EnterHeld
  <2>6. ASSUME segmenterDepth = 0 PROVE RunFlow(stack, nodes, streams)'
    <3>1. RunFlow(callers, nds, strs)
      BY <2>6
    <3>2. Origin(nds, streams', Len(inputs))
      <4>1. Len(streams') = Len(strs)
        <5> HIDE DEF d
        <5> QED BY <1>1, <2>3, StreamUpdates
      <4> QED BY <3>1, <4>1 DEF RunFlow, Origin
    <3>3. RoutesOK(stack')
      <4> SUFFICES ASSUME MaxInputs = 1, NEW c \in 1 .. Len(Append(callers, f)),
                          Append(callers, f)[c].nodesBefore = 0
                   PROVE  Append(callers, f)[c].segmentable
        BY <2>3 DEF RoutesOK
      <4>1. callers \in Seq(Frame)
        BY DEF StackOK
      <4>2. /\ Len(Append(callers, f)) = d
            /\ \A j \in 1 .. Len(callers) : Append(callers, f)[j] = callers[j]
            /\ Append(callers, f)[d] = f
        BY <2>4, <4>1, AppendProperties
      <4>3. CASE c \in 1 .. Len(callers)
        BY <3>1, <4>2, <4>3 DEF RunFlow, RoutesOK
      <4>4. CASE c = d
        <5>1. Len(nds) = 0 /\ nds = <<>>
          BY <1>1, <2>4, <4>2, <4>4, EmptySeq
        <5>2. Len(inputs) = 1
          <6>1. PICK k : k = Len(inputs)
            OBVIOUS
          <6>2. k \in Nat /\ k # 0 /\ k <= 1
            BY <6>1, LenProperties, EmptySeq
          <6>3. k = 1
            BY <6>2
          <6> QED BY <6>1, <6>3
        <5>3. Len(strs) = 1
          BY <3>1, <5>1, <5>2 DEF RunFlow, Origin
        <5>4. \A s \in Range(ins) : s \in 1 .. 1
          BY <5>3 DEF CallOK, Sound
        <5>5. ins[1] = 1 /\ Len(ins) = 1
          BY <5>4, OnlyOne DEF CallOK
        <5>6. segmentable
          BY <2>6, <3>1, <5>1, <5>2, <5>5 DEF segmentable, IsSegmentable, RunFlow
        <5> QED BY <2>4, <4>2, <4>4, <5>6
      <4> QED BY <1>1, <4>2, <4>3, <4>4
    <3> QED BY <2>3, <3>1, <3>2, <3>3 DEF RunFlow
  <2> QED BY <2>3, <2>5, <2>6
<1> QED BY <1>3, <1>4, <1>5

-----------------------------------------------------------------------------
(* Steps.                                                                  *)

(* The inputs' streams come before the first node.                         *)
LEMMA OriginStep ==
    ASSUME NEW nds, NEW strs, NEW nds2, NEW strs2, GraphOK(nds, strs), GraphOK(nds2, strs2),
           NodesStep(nds, nds2, strs, strs2), NEW k, Origin(nds, strs, k)
    PROVE  Origin(nds2, strs2, k)
<1>1. /\ nds \in Seq(Node) /\ Len(nds) \in Nat /\ nds2 \in Seq(Node) /\ Len(nds2) \in Nat
      /\ (nds = <<>> <=> Len(nds) = 0) /\ (nds2 = <<>> <=> Len(nds2) = 0)
  BY GraphTypes, EmptySeq
<1>2. CASE nds = <<>> /\ nds2 = <<>>
  BY <1>1, <1>2 DEF NodesStep, Origin
<1>3. CASE nds = <<>> /\ nds2 # <<>>
  <2>1. 1 \in 1 .. Len(nds2) /\ 1 > Len(nds)
    BY <1>1, <1>3
  <2>2. nds2[1].start = Len(strs) + 1
    BY <2>1 DEF NodesStep
  <2> QED BY <1>3, <2>2 DEF Origin
<1>4. CASE nds # <<>>
  <2>1. 1 \in 1 .. Len(nds) /\ nds2 # <<>>
    BY <1>1, <1>4 DEF NodesStep
  <2>2. nds2[1].start = nds[1].start
    BY <2>1 DEF NodesStep
  <2> QED BY <1>4, <2>1, <2>2 DEF Origin
<1> QED BY <1>2, <1>3, <1>4

(* The frame that takes the next step.                                     *)
LEMMA TopHolds ==
    ASSUME HInv, NEW label, AtGraph(label)
    PROVE  /\ IInv /\ stack # <<>> /\ depth \in Nat /\ depth >= 1 /\ depth \in 1 .. Len(stack)
           /\ segmenterDepth \in Nat
           /\ Top \in Frame /\ FrameOK(Top) /\ Top.pc = label /\ EdgesOK(Top) /\ GraphsOK(Top)
           /\ Top.edges \in Seq(Edge) /\ Top.ins \in SidList
           /\ Len(nodes) \in Nat /\ Len(streams) \in Nat
           /\ streams \in Seq(Stream) /\ GraphOK(nodes, streams)
           /\ StackOK(stack, Len(nodes)) /\ Held(stack, nodes, streams, segmenterDepth)
           /\ depth <= segmenterDepth => Quiet(Top)
           /\ depth > segmenterDepth => FrameHeld(Top, depth, streams)
<1>1. IInv /\ Held(stack, nodes, streams, segmenterDepth)
  BY DEF HInv
<1>2. /\ stack # <<>> /\ Len(nodes) \in Nat /\ Len(streams) \in Nat
      /\ Top \in Frame /\ FrameOK(Top) /\ Top.pc = label
      /\ GraphOK(nodes, streams) /\ StackOK(stack, Len(nodes)) /\ RestOK
      /\ streams \in Seq(Stream) /\ Top.edges \in Seq(Edge) /\ Top.ins \in SidList
  BY <1>1, TopOK
<1>3. Len(stack) \in Nat /\ Len(stack) >= 1 /\ Len(stack) \in 1 .. Len(stack)
  BY <1>2, StackTypes
<1>4. segmenterDepth \in Nat
  BY <1>2 DEF RestOK
<1>5. /\ EdgesOK(Top) /\ GraphsOK(Top)
      /\ depth > segmenterDepth => FrameHeld(Top, depth, streams)
      /\ depth <= segmenterDepth => Quiet(Top)
  BY <1>1, <1>3 DEF Held, HeldOK, UnderOK, Top, depth
<1> QED BY <1>1, <1>2, <1>3, <1>4, <1>5 DEF depth

(* The top frame goes on.                                                  *)
LEMMA StepHeld ==
    ASSUME HInv, IInv', NEW STATE label, AtGraph(label), NEW STATE g, SetTop(g),
           g \in Frame, Goes(g, Top), EdgesOK(g), GraphsOK(g),
           depth <= segmenterDepth => Quiet(g),
           depth > segmenterDepth =>
              /\ StreamsStep(Top, g, depth, streams, streams')
              /\ NodesStep(nodes, nodes', streams, streams'),
           UNCHANGED <<phase, segmenterDepth, numSegments, inputs>>
    PROVE  HInv'
<1>1. /\ stack # <<>> /\ depth \in Nat /\ depth >= 1 /\ depth \in 1 .. Len(stack)
      /\ segmenterDepth \in Nat /\ streams \in Seq(Stream) /\ GraphOK(nodes, streams)
      /\ Len(nodes) \in Nat /\ StackOK(stack, Len(nodes))
      /\ Held(stack, nodes, streams, segmenterDepth)
  BY TopHolds
<1>2. PICK nds2, strs2 : nds2 = nodes' /\ strs2 = streams'
  OBVIOUS
<1>3. GraphOK(nds2, strs2) /\ strs2 \in Seq(Stream)
  <2>1. GraphOK(nds2, strs2)
    BY <1>2 DEF IInv
  <2> QED BY <2>1, GraphTypes
<1>4. PICK f : f = g
  OBVIOUS
<1>5. /\ f \in Frame /\ Goes(f, stack[Len(stack)]) /\ EdgesOK(f) /\ GraphsOK(f)
      /\ Len(stack) <= segmenterDepth => Quiet(f)
      /\ Len(stack) > segmenterDepth =>
              /\ StreamsStep(stack[Len(stack)], f, Len(stack), streams, strs2)
              /\ NodesStep(nodes, nds2, streams, strs2)
  BY <1>2, <1>4 DEF Top, depth
<1>6. PICK k \in Nat : StackOK(stack, k)
  BY <1>1
<1>7. Held([stack EXCEPT ![Len(stack)] = f], nds2, strs2, segmenterDepth)
  BY <1>1, <1>3, <1>5, <1>6, TopHeld, Zenon
<1>8. stack' = [stack EXCEPT ![Len(stack)] = f]
  BY <1>4 DEF SetTop, depth
<1>9. Held(stack, nodes, streams, segmenterDepth)'
  BY <1>2, <1>7, <1>8
<1>10. phase = "run"
  BY DEF AtGraph
<1>11. ASSUME segmenterDepth = 0
       PROVE  /\ numSegments = 0 /\ Origin(nodes', streams', Len(inputs))
              /\ RoutesOK(stack')
  <2>1. numSegments = 0 /\ Origin(nodes, streams, Len(inputs)) /\ RoutesOK(stack)
    BY <1>10, <1>11 DEF HInv, Flow
  <2>2. NodesStep(nodes, nds2, streams, strs2)
    BY <1>1, <1>5, <1>11 DEF depth
  <2>3. Origin(nds2, strs2, Len(inputs))
    BY <1>1, <1>3, <2>1, <2>2, OriginStep
  <2>4. stack \in Seq(Frame)
    BY <1>1 DEF StackOK
  <2>5. /\ Len(stack') = Len(stack)
        /\ \A j \in 1 .. Len(stack) : stack'[j] = IF j = Len(stack) THEN f ELSE stack[j]
    BY <1>1, <1>5, <1>8, <2>4, ExceptSeq
  <2>6. \A j \in 1 .. Len(stack) : /\ stack'[j].nodesBefore = stack[j].nodesBefore
                                   /\ stack'[j].segmentable = stack[j].segmentable
    BY <1>5, <2>5 DEF Goes
  <2>7. RoutesOK(stack')
    BY <2>1, <2>5, <2>6 DEF RoutesOK
  <2> QED BY <1>2, <2>1, <2>3, <2>7
<1>12. Flow'
  <2>1. Len(inputs) <= MaxInputs
    BY DEF HInv, Flow
  <2>2. phase' = "run" /\ inputs' = inputs /\ numSegments' = numSegments
        /\ segmenterDepth' = segmenterDepth
    BY <1>10
  <2> QED BY <1>11, <2>1, <2>2 DEF Flow
<1> QED BY <1>9, <1>12 DEF HInv

(* The top frame goes on, and nothing else changes.                        *)
LEMMA LocalHeld ==
    ASSUME HInv, IInv', NEW STATE label, AtGraph(label), NEW STATE g, SetTop(g),
           g \in Frame, Goes(g, Top), EdgesOK(g), GraphsOK(g),
           depth <= segmenterDepth => Quiet(g),
           \A s : Uses(g, s) => Uses(Top, s) \/ Takes(Top, s),
           UNCHANGED <<nodes, streams, phase, segmenterDepth, numSegments, inputs>>
    PROVE  HInv'
<1>1. /\ streams \in Seq(Stream) /\ Len(nodes) \in Nat
      /\ depth > segmenterDepth => FrameHeld(Top, depth, streams)
  BY TopHolds
<1>2. ASSUME depth > segmenterDepth
      PROVE  /\ StreamsStep(Top, g, depth, streams, streams)
             /\ NodesStep(nodes, nodes, streams, streams)
  <2>1. \A s : Uses(g, s) => s \in 1 .. Len(streams)
    BY <1>1, <1>2 DEF FrameHeld, Sound
  <2> QED BY <1>1, <2>1, NothingNew
<1>3. depth > segmenterDepth =>
              /\ StreamsStep(Top, g, depth, streams, streams')
              /\ NodesStep(nodes, nodes', streams, streams')
  BY <1>2
<1> QED BY <1>3, StepHeld

(* The top frame leaves its graph, and nothing else changes.               *)
LEMMA LeaveStepHeld ==
    ASSUME HInv, IInv', NEW STATE label, AtGraph(label), NEW STATE g, SetTop(g),
           Leaves(g, Top),
           UNCHANGED <<nodes, streams, phase, segmenterDepth, numSegments, inputs>>
    PROVE  HInv'
<1>1. /\ Top \in Frame /\ EdgesOK(Top) /\ GraphsOK(Top)
      /\ depth <= segmenterDepth => Quiet(Top)
  BY TopHolds
<1>2. /\ g \in Frame /\ Goes(g, Top) /\ EdgesOK(g) /\ GraphsOK(g) /\ (\A s : ~ Uses(g, s))
      /\ Quiet(Top) => Quiet(g)
  BY <1>1, LeaveFrame
<1> QED BY <1>1, <1>2, LocalHeld

(* The streams a transform added: the first ones are its outputs.          *)
Grown(strs, made, new) ==
    /\ new \in Seq(Stream) /\ Len(new) >= Len(strs) + made
    /\ \A s \in 1 .. Len(strs) : new[s] = strs[s]
    /\ \A i \in 1 .. made : new[Len(strs) + i].live /\ new[Len(strs) + i].rank = 0

(* RTGM_addStreams() keeps the others and makes new ones.                  *)
LEMMA AddStreamsIs ==
    ASSUME NEW strs \in Seq(Stream), NEW out1s \in Nat, NEW made \in Nat, NEW kind \in Kind
    PROVE  Grown(strs, made, RTGM_addStreams(strs, out1s, made, kind))
<1> DEFINE n == IF made > out1s THEN made ELSE out1s
           add == [i \in 1 .. n |-> IF i <= made THEN NewStream(kind) ELSE NoStream]
           new == RTGM_addStreams(strs, out1s, made, kind)
<1>1. NewStream(kind) \in Stream /\ NoStream \in Stream
  BY DEF NewStream, NoStream, Stream, Kind
<1>2. n \in Nat /\ made <= n /\ Len(strs) \in Nat
  BY LenProperties
<1>3. add \in [1 .. n -> Stream]
  BY <1>1
<1>5. \A i \in 1 .. made : add[i] = NewStream(kind)
  BY <1>2
<1>6. new = strs \o add
  BY DEF RTGM_addStreams
<1> HIDE DEF add, n, new
<1>4. add \in Seq(Stream) /\ Len(add) = n
  BY <1>2, <1>3, FcnSeq
<1>7. /\ new \in Seq(Stream) /\ Len(new) = Len(strs) + n
      /\ \A s \in 1 .. Len(strs) + n :
            new[s] = IF s <= Len(strs) THEN strs[s] ELSE add[s - Len(strs)]
  <2>1. /\ strs \o add \in Seq(Stream) /\ Len(strs \o add) = Len(strs) + Len(add)
        /\ \A s \in 1 .. Len(strs) + Len(add) :
              (strs \o add)[s] = IF s <= Len(strs) THEN strs[s] ELSE add[s - Len(strs)]
    BY <1>4, ConcatProperties
  <2> QED BY <1>4, <1>6, <2>1
<1>8. \A s \in 1 .. Len(strs) : new[s] = strs[s]
  BY <1>2, <1>7
<1>9. ASSUME NEW i \in 1 .. made
      PROVE  new[Len(strs) + i].live /\ new[Len(strs) + i].rank = 0
  <2>1. Len(strs) + i \in 1 .. Len(strs) + n /\ ~(Len(strs) + i <= Len(strs))
        /\ Len(strs) + i - Len(strs) = i
    BY <1>2
  <2>2. new[Len(strs) + i] = add[i]
    BY <1>7, <2>1
  <2> QED BY <1>5, <2>2 DEF NewStream
<1> QED BY <1>2, <1>7, <1>8, <1>9 DEF Grown, new

(* The nodes after RTGM_createNode().                                      *)
LEMMA CreateNodeIs ==
    ASSUME NEW nds, NEW strs, GraphOK(nds, strs), NEW ins \in Seq(Nat),
           NEW out1s \in Nat, NEW made \in Nat, NEW strs2,
           NEW new, new = RTGM_createNode(nds, strs, ins, out1s, made)
    PROVE  NodesStep(nds, new, strs, strs2)
<1> DEFINE node == [ins |-> ins, start |-> Len(strs) + 1, out1s |-> out1s, outs |-> made]
<1>1. nds \in Seq(Node) /\ Len(nds) \in Nat /\ Len(strs) \in Nat
  BY GraphTypes
<1>2. node \in Node /\ node.start = Len(strs) + 1
  BY <1>1 DEF Node
<1>3. new = Append(nds, node)
  BY DEF RTGM_createNode
<1> HIDE DEF node
<1>4. /\ Len(new) = Len(nds) + 1 /\ new[Len(nds) + 1] = node
      /\ \A m \in 1 .. Len(nds) : new[m] = nds[m]
  BY <1>1, <1>2, <1>3, AppendProperties
<1>5. \A m \in 1 .. Len(new) : m > Len(nds) => m = Len(nds) + 1
  BY <1>1, <1>4
<1> QED BY <1>1, <1>2, <1>4, <1>5 DEF NodesStep

(* What CCTX_runCNode_wParams() does to the streams.                       *)
LEMMA NodeRunsIs ==
    ASSUME GraphOK(nodes, streams),
           NEW STATE ins, ins \in Seq(Nat), \A s \in Range(ins) : s \in 1 .. Len(streams),
           NEW STATE shape, shape \in NodeShape,
           NEW made \in Nat, NEW r \in {"ok", "failed", "noStream", "noNode"},
           NodeRuns(ins, shape, made, r)
    PROVE  /\ NodesStep(nodes, nodes', streams, streams')
           /\ Len(streams') >= Len(streams) /\ Len(streams') \in Nat
           /\ \A s \in 1 .. Len(streams) :
                 \/ Kept(streams, streams', s)
                 \/ r = "ok" /\ s \in Range(ins) /\ ~(Minus1(streams[s].rank) < Minus1(0))
           /\ r = "ok" => \A i \in 1 .. made :
                 /\ Len(streams) + i \in Len(streams) + 1 .. Len(streams')
                 /\ streams'[Len(streams) + i].live /\ streams'[Len(streams) + i].rank = 0
<1>1. shape.out1s \in Nat /\ shape.kind \in Kind
  BY DEF NodeShape
<1>2. streams \in Seq(Stream) /\ Len(streams) \in Nat /\ Len(nodes) \in Nat
  BY GraphTypes
<1>3. PICK all : all = RTGM_addStreams(streams, shape.out1s, made, shape.kind)
  OBVIOUS
<1>4. /\ all \in Seq(Stream) /\ Len(all) >= Len(streams) + made /\ Len(all) \in Nat
      /\ \A s \in 1 .. Len(streams) : all[s] = streams[s]
      /\ \A i \in 1 .. made : all[Len(streams) + i].live /\ all[Len(streams) + i].rank = 0
  <2>1. Grown(streams, made, all)
    BY <1>1, <1>2, <1>3, AddStreamsIs
  <2> QED BY <2>1, LenProperties DEF Grown
<1>5. \A strs2 : /\ NodesStep(nodes, RTGM_createNode(nodes, streams, ins, shape.out1s, made),
                              streams, strs2)
                 /\ NodesStep(nodes, RTGM_createNode(nodes, streams, ins, shape.out1s, 0),
                              streams, strs2)
  <2>1. 0 \in Nat
    OBVIOUS
  <2> QED BY <1>1, <2>1, CreateNodeIs
<1>6. CASE r = "ok"
  <2>1. /\ nodes' = RTGM_createNode(nodes, streams, ins, shape.out1s, made)
        /\ streams' = RTGM_clearRTStream(all, ins, 0)
    BY <1>3, <1>6 DEF NodeRuns
  <2>2. PICK new : new = streams'
    OBVIOUS
  <2>3. /\ Len(new) = Len(all)
        /\ \A s \in 1 .. Len(all) :
              \/ Kept(all, new, s)
              \/ s \in Range(ins) /\ ~(Minus1(all[s].rank) < Minus1(0))
        /\ \A s \in 1 .. Len(all) : new[s].rank = all[s].rank
    <3>1. 0 \in Nat /\ new = RTGM_clearRTStream(all, ins, 0)
      BY <2>1, <2>2
    <3> QED BY <1>4, <3>1, ClearIs
  <2>4. ASSUME NEW s \in 1 .. Len(streams)
        PROVE  \/ Kept(streams, new, s)
               \/ s \in Range(ins) /\ ~(Minus1(streams[s].rank) < Minus1(0))
    <3>1. s \in 1 .. Len(all) /\ all[s] = streams[s]
      BY <1>2, <1>4
    <3> QED BY <2>3, <3>1 DEF Kept
  <2>5. ASSUME NEW i \in 1 .. made
        PROVE  /\ Len(streams) + i \in Len(streams) + 1 .. Len(new)
               /\ new[Len(streams) + i].live /\ new[Len(streams) + i].rank = 0
    <3>1. /\ Len(streams) + i \in Len(streams) + 1 .. Len(all)
          /\ Len(streams) + i \in 1 .. Len(all)
          /\ Len(streams) + i \notin 1 .. Len(streams)
      BY <1>2, <1>4
    <3>2. Kept(all, new, Len(streams) + i)
      BY <2>3, <3>1
    <3> QED BY <1>4, <2>3, <3>1, <3>2 DEF Kept
  <2>6. Len(new) >= Len(streams) /\ Len(new) \in Nat
    BY <1>2, <1>4, <2>3
  <2> QED BY <1>5, <1>6, <2>1, <2>2, <2>4, <2>5, <2>6
<1>7. CASE r = "failed"
  <2>1. /\ nodes' = RTGM_createNode(nodes, streams, ins, shape.out1s, made)
        /\ streams' = all
    BY <1>3, <1>7 DEF NodeRuns
  <2>2. Len(all) >= Len(streams)
    BY <1>2, <1>4
  <2> QED BY <1>4, <1>5, <1>7, <2>1, <2>2 DEF Kept
<1>8. CASE r = "noStream"
  <2>1. /\ nodes' = RTGM_createNode(nodes, streams, ins, shape.out1s, 0)
        /\ streams' = streams
    BY <1>8 DEF NodeRuns
  <2> QED BY <1>2, <1>5, <1>8, <2>1 DEF Kept
<1>9. CASE r = "noNode"
  <2>1. nodes' = nodes /\ streams' = streams
    BY <1>9 DEF NodeRuns
  <2> QED BY <1>2, <1>9, <2>1 DEF Kept, NodesStep
<1> QED BY <1>6, <1>7, <1>8, <1>9

(* What the top frame needs after a node ran: not what the node freed, and *)
(* of what is new only the outputs.                                        *)
Fits(g, ins, made, r) ==
    /\ \A s \in Range(ins) : Uses(Top, s) \/ Takes(Top, s)
    /\ r = "ok" => \A s \in Range(ins) : Takes(Top, s) \/ ~ Uses(g, s)
    /\ \A s : Uses(g, s) =>
          \/ Uses(Top, s) \/ Takes(Top, s)
          \/ r = "ok" /\ \E i \in 1 .. made : s = Len(streams) + i

(* A node runs on edges or inputs of the top frame.                        *)
LEMMA NodeHeld ==
    ASSUME HInv, IInv', depth <= UINT_MAX, depth > segmenterDepth,
           NEW STATE label, AtGraph(label), NEW STATE g, SetTop(g),
           g \in Frame, Goes(g, Top), EdgesOK(g), GraphsOK(g),
           NEW STATE ins, ins \in Seq(Nat), NEW STATE shape, shape \in NodeShape,
           NEW made \in Nat, NEW r \in {"ok", "failed", "noStream", "noNode"},
           NodeRuns(ins, shape, made, r), Fits(g, ins, made, r),
           UNCHANGED <<phase, segmenterDepth, numSegments, inputs>>
    PROVE  HInv'
<1>a. /\ \A s \in Range(ins) : Uses(Top, s) \/ Takes(Top, s)
      /\ r = "ok" => \A s \in Range(ins) : Takes(Top, s) \/ ~ Uses(g, s)
      /\ \A s : Uses(g, s) =>
            \/ Uses(Top, s) \/ Takes(Top, s)
            \/ r = "ok" /\ \E i \in 1 .. made : s = Len(streams) + i
  BY DEF Fits
<1>1. /\ depth \in Nat /\ segmenterDepth \in Nat /\ streams \in Seq(Stream)
      /\ GraphOK(nodes, streams) /\ FrameHeld(Top, depth, streams) /\ Len(streams) \in Nat
  BY TopHolds
<1>2. \A s : Uses(Top, s) \/ Takes(Top, s) =>
         s \in 1 .. Len(streams) /\ streams[s].rank <= depth
  BY <1>1 DEF FrameHeld, Sound
<1>3. \A s \in Range(ins) : s \in 1 .. Len(streams)
  BY <1>2, <1>a
<1>4. /\ NodesStep(nodes, nodes', streams, streams')
      /\ Len(streams') >= Len(streams) /\ Len(streams') \in Nat
      /\ \A s \in 1 .. Len(streams) :
            \/ Kept(streams, streams', s)
            \/ r = "ok" /\ s \in Range(ins) /\ ~(Minus1(streams[s].rank) < Minus1(0))
      /\ r = "ok" => \A i \in 1 .. made :
            /\ Len(streams) + i \in Len(streams) + 1 .. Len(streams')
            /\ streams'[Len(streams) + i].live /\ streams'[Len(streams) + i].rank = 0
  BY <1>1, <1>3, NodeRunsIs
<1>5. ASSUME NEW s \in 1 .. Len(streams)
      PROVE  \/ Kept(streams, streams', s)
             \/ Uses(Top, s) /\ streams[s].rank = 0 /\ ~ Uses(g, s)
  <2> SUFFICES ASSUME ~ Kept(streams, streams', s)
               PROVE  Uses(Top, s) /\ streams[s].rank = 0 /\ ~ Uses(g, s)
    OBVIOUS
  <2>1. r = "ok" /\ s \in Range(ins) /\ ~(Minus1(streams[s].rank) < Minus1(0))
    BY <1>4
  <2>2. streams[s].rank \in Nat /\ streams[s].rank <= depth
    BY <1>1, <1>2, <1>a, <2>1, StreamRanks
  <2>3. streams[s].rank = 0
    BY <1>1, <2>1, <2>2 DEF Minus1, UINT_MAX
  <2>4. ~ Takes(Top, s)
    BY <1>1, <2>3 DEF FrameHeld
  <2> QED BY <1>a, <2>1, <2>3, <2>4
<1>6. \A s : Uses(g, s) =>
          \/ s \in 1 .. Len(streams) /\ (Uses(Top, s) \/ Takes(Top, s))
          \/ s \in Len(streams) + 1 .. Len(streams') /\ streams'[s].live
                /\ streams'[s].rank = 0
  <2> SUFFICES ASSUME NEW s, Uses(g, s), ~(Uses(Top, s) \/ Takes(Top, s))
               PROVE  /\ s \in Len(streams) + 1 .. Len(streams') /\ streams'[s].live
                      /\ streams'[s].rank = 0
    BY <1>2
  <2>1. PICK i \in 1 .. made : s = Len(streams) + i /\ r = "ok"
    BY <1>a
  <2> QED BY <1>4, <2>1
<1>7. StreamsStep(Top, g, depth, streams, streams')
  BY <1>4, <1>5, <1>6 DEF StreamsStep
<1>8. depth <= segmenterDepth => Quiet(g)
  BY <1>1
<1> QED BY <1>4, <1>7, <1>8, StepHeld

(* A new edge leads to its stream.                                         *)
LEMMA NewEdgeIs ==
    ASSUME NEW sid
    PROVE  LET e == NewEdge(sid)
           IN  /\ e.sid = sid /\ e.st = "unassigned" /\ e.graph = "generic"
               /\ e.with = <<sid>> /\ Once(e.with) /\ \A s : Leads(e, s) <=> s = sid
<1>1. /\ NewEdge(sid).sid = sid /\ NewEdge(sid).st = "unassigned"
      /\ NewEdge(sid).graph = "generic" /\ NewEdge(sid).with = <<sid>>
  BY DEF NewEdge
<1>2. DOMAIN <<sid>> = {1} /\ <<sid>>[1] = sid
  OBVIOUS
<1>3. Once(<<sid>>) /\ Range(<<sid>>) = {sid}
  BY <1>2 DEF Once, Range
<1> QED BY <1>1, <1>3 DEF Leads

(* One more edge, and one input less to look at.                           *)
MoreEdge(g, t, sid) ==
    g = [t EXCEPT !.edges = Append(@, NewEdge(sid)), !.next = @ + 1]

(* CCTX_convertInputs() makes an edge to a stream that no other leads to.  *)
LEMMA NextEdgeHeld ==
    ASSUME NEW t \in Frame, t.pc = "enter", EdgesOK(t), GraphsOK(t),
           NEW sid \in Nat, ~ Uses(t, sid),
           \A k \in (t.next + 1) .. Len(t.ins) : t.ins[k] # sid,
           NEW g, MoreEdge(g, t, sid)
    PROVE  /\ g \in Frame /\ Goes(g, t) /\ EdgesOK(g) /\ GraphsOK(g)
           /\ \A s : Uses(g, s) => Uses(t, s) \/ s = sid
<1> DEFINE e == NewEdge(sid)
           n == Len(t.edges)
<1>1. /\ e \in Edge /\ e.sid = sid /\ e.st = "unassigned" /\ e.graph = "generic"
      /\ e.with = <<sid>> /\ Once(e.with) /\ \A s : Leads(e, s) <=> s = sid
  BY NewEdgeIs, NewEdgeOK
<1> HIDE DEF e
<1>2. t.edges \in Seq(Edge) /\ t.next \in Nat /\ n \in Nat /\ DOMAIN t.edges = 1 .. n
      /\ t.ins \in SidList /\ t.next + 1 \in Nat \ {0}
  BY FrameTypes, LenProperties
<1>3. g = [t EXCEPT !.edges = Append(t.edges, e), !.next = t.next + 1]
  BY DEF Frame, MoreEdge, e
<1>5. Append(t.edges, e) \in Seq(Edge)
  BY <1>1, <1>2, AppendProperties
<1>a. /\ g \in Frame /\ g.edges = Append(t.edges, e) /\ g.next = t.next + 1
      /\ g.pc = t.pc /\ g.graph = t.graph /\ g.ins = t.ins
      /\ g.nodesBefore = t.nodesBefore /\ g.mode = t.mode
      /\ g.segmentable = t.segmentable
  <2>1. PICK es, m : es = Append(t.edges, e) /\ m = t.next + 1
    OBVIOUS
  <2>2. es \in Seq(Edge) /\ m \in Nat \ {0} /\ g = [t EXCEPT !.edges = es, !.next = m]
    BY <1>2, <1>3, <1>5, <2>1
  <2>3. /\ g \in Frame /\ g.edges = es /\ g.next = m
        /\ g.pc = t.pc /\ g.graph = t.graph /\ g.ins = t.ins
        /\ g.nodesBefore = t.nodesBefore /\ g.mode = t.mode
        /\ g.segmentable = t.segmentable
    BY <2>2 DEF Frame
  <2> QED BY <2>1, <2>3
<1>6. /\ g \in Frame /\ g.edges = Append(t.edges, e) /\ g.next = t.next + 1
      /\ g.pc = t.pc /\ g.graph = t.graph /\ g.ins = t.ins /\ Goes(g, t)
  BY <1>a DEF Goes
<1>7. /\ DOMAIN g.edges = 1 .. n + 1 /\ g.edges[n + 1] = e
      /\ \A i \in 1 .. n : g.edges[i] = t.edges[i]
  BY <1>1, <1>2, <1>6, AppendProperties
<1>8. \A i \in 1 .. n + 1 : i \in 1 .. n \/ i = n + 1
  BY <1>2
<1>9. \A i \in 1 .. n : t.edges[i].st = "unassigned" /\ t.edges[i].with = <<t.edges[i].sid>>
  BY <1>2 DEF EdgesOK
<1>10. Open(t) = 1 .. n
  BY <1>2, <1>9 DEF Open
<1>11. \A i \in 1 .. n + 1 : /\ g.edges[i].st = "unassigned"
                             /\ g.edges[i].with = <<g.edges[i].sid>>
  BY <1>1, <1>7, <1>8, <1>9
<1>12. Open(g) = 1 .. n + 1
  BY <1>6, <1>7, <1>11 DEF Open
<1>13. \A i \in 1 .. n : \A s : Leads(t.edges[i], s) => Uses(t, s) /\ s # sid
  BY <1>10 DEF Uses
<1>14. \A s : Uses(g, s) => Uses(t, s) \/ s = sid
  <2> SUFFICES ASSUME NEW s, NEW i \in 1 .. n + 1, Leads(g.edges[i], s)
               PROVE  Uses(t, s) \/ s = sid
    BY <1>12 DEF Uses
  <2>1. CASE i = n + 1
    BY <1>1, <1>7, <2>1
  <2>2. CASE i \in 1 .. n
    BY <1>7, <1>13, <2>2
  <2> QED BY <1>8, <2>1, <2>2
<1>15. \A i \in Open(g) : Once(g.edges[i].with)
  BY <1>1, <1>7, <1>8, <1>10, <1>12 DEF EdgesOK
<1>16. \A i, j \in Open(g) : \A s : Leads(g.edges[i], s) /\ Leads(g.edges[j], s) => i = j
  <2> SUFFICES ASSUME NEW i \in 1 .. n + 1, NEW j \in 1 .. n + 1, NEW s,
                      Leads(g.edges[i], s), Leads(g.edges[j], s)
               PROVE  i = j
    BY <1>12
  <2>1. CASE i \in 1 .. n /\ j \in 1 .. n
    BY <1>7, <1>10, <2>1 DEF EdgesOK
  <2>2. CASE i = n + 1 /\ j \in 1 .. n
    BY <1>1, <1>7, <1>13, <2>2
  <2>3. CASE i \in 1 .. n /\ j = n + 1
    BY <1>1, <1>7, <1>13, <2>3
  <2> QED BY <1>8, <2>1, <2>2, <2>3
<1>17. \A k \in g.next .. Len(g.ins) : ~ Uses(g, g.ins[k])
  <2> SUFFICES ASSUME NEW k \in (t.next + 1) .. Len(t.ins) PROVE ~ Uses(g, t.ins[k])
    BY <1>6
  <2>1. k \in t.next .. Len(t.ins)
    <3>1. Len(t.ins) \in Nat
      BY <1>2, LenProperties DEF SidList
    <3> QED BY <1>2, <3>1
  <2>2. ~ Uses(t, t.ins[k]) /\ t.ins[k] # sid
    BY <2>1 DEF EdgesOK
  <2> QED BY <1>14, <2>2
<1>18. EdgesOK(g)
  <2>1. Once(g.ins)
    BY <1>6 DEF EdgesOK
  <2> QED BY <1>7, <1>11, <1>15, <1>16, <1>17, <2>1 DEF EdgesOK
<1>19. GraphsOK(g)
  <2>1. \A i \in 1 .. n : /\ t.graph \in Library => t.edges[i].graph \in Library
                          /\ t.edges[i].graph = "segmenter" => "segmenter" \in Destinations
    BY <1>2 DEF GraphsOK
  <2> QED BY <1>1, <1>6, <1>7, <1>8, <2>1 DEF GraphsOK, Library
<1> QED BY <1>6, <1>14, <1>18, <1>19

(* CCTX_convertInputs() looks at an input.                                 *)
LEMMA InputOK ==
    ASSUME HInv, AtGraph("enter"), Top.next <= Len(Top.ins)
    PROVE  /\ depth > segmenterDepth
           /\ Top.next \in 1 .. Len(Top.ins) /\ Top.ins \in Seq(Nat)
           /\ Top.ins[Top.next] \in Nat /\ Takes(Top, Top.ins[Top.next])
           /\ ~ Uses(Top, Top.ins[Top.next])
           /\ \A k \in (Top.next + 1) .. Len(Top.ins) : Top.ins[k] # Top.ins[Top.next]
<1>1. /\ Top \in Frame /\ Top.pc = "enter" /\ EdgesOK(Top) /\ Top.ins \in SidList
      /\ depth \in Nat /\ segmenterDepth \in Nat
      /\ depth <= segmenterDepth => Quiet(Top)
  BY TopHolds
<1>2. depth > segmenterDepth
  BY <1>1 DEF Quiet
<1>3. Top.ins \in Seq(Nat) /\ Len(Top.ins) \in Nat /\ DOMAIN Top.ins = 1 .. Len(Top.ins)
  BY <1>1, LenProperties DEF SidList
<1>4. Top.next \in Nat /\ Top.next >= 1
  BY <1>1, FrameTypes
<1>5. Top.next \in 1 .. Len(Top.ins) /\ Top.next \in Top.next .. Len(Top.ins)
  BY <1>3, <1>4
<1>6. Top.ins[Top.next] \in Nat /\ Takes(Top, Top.ins[Top.next])
  BY <1>3, <1>5, ElementOfSeq DEF Takes, Range
<1>7. ~ Uses(Top, Top.ins[Top.next])
  BY <1>1, <1>5 DEF EdgesOK
<1>8. ASSUME NEW k \in (Top.next + 1) .. Len(Top.ins) PROVE Top.ins[k] # Top.ins[Top.next]
  <2>1. k \in 1 .. Len(Top.ins) /\ k # Top.next
    BY <1>3, <1>4
  <2>2. Once(Top.ins)
    BY <1>1 DEF EdgesOK
  <2> QED BY <1>3, <1>5, <2>1, <2>2 DEF Once
<1> QED BY <1>2, <1>3, <1>5, <1>6, <1>7, <1>8

(* CCTX_convertInputs(): the type of the input is accepted.                *)
LEMMA KeepInputHeld ==
    ASSUME HInv, KeepInput
    PROVE  HInv'
<1>1. AtGraph("enter") /\ Top.next <= Len(Top.ins)
  BY DEF KeepInput
<1>2. PICK sid : sid = Top.ins[Top.next]
  OBVIOUS
<1>3. /\ depth > segmenterDepth /\ sid \in Nat /\ Takes(Top, sid) /\ ~ Uses(Top, sid)
      /\ \A k \in (Top.next + 1) .. Len(Top.ins) : Top.ins[k] # sid
  BY <1>1, <1>2, InputOK
<1>4. /\ Top \in Frame /\ Top.pc = "enter" /\ EdgesOK(Top) /\ GraphsOK(Top)
      /\ depth \in Nat /\ segmenterDepth \in Nat
  BY <1>1, TopHolds
<1>5. PICK g : MoreEdge(g, Top, sid)
  BY DEF MoreEdge
<1>6. /\ g \in Frame /\ Goes(g, Top) /\ EdgesOK(g) /\ GraphsOK(g)
      /\ \A s : Uses(g, s) => Uses(Top, s) \/ s = sid
  BY <1>3, <1>4, <1>5, NextEdgeHeld
<1>7. /\ SetTop(g)
      /\ UNCHANGED <<nodes, streams, phase, segmenterDepth, numSegments, inputs>>
  BY <1>2, <1>5 DEF KeepInput, MoreEdge, graphVars, segmentVars, sessionVars
<1>8. IInv'
  BY KeepInputStep DEF HInv
<1>9. ~(depth <= segmenterDepth)
  BY <1>3, <1>4
<1> QED BY <1>1, <1>3, <1>6, <1>7, <1>8, <1>9, LocalHeld

(* CCTX_convertInputs(): a conversion node runs or fails.                  *)
LEMMA ConvertInputHeld ==
    ASSUME HInv, depth <= UINT_MAX, ConvertInput
    PROVE  HInv'
<1>1. AtGraph("enter") /\ Top.next <= Len(Top.ins)
  BY DEF ConvertInput
<1>2. PICK ins : ins = <<Top.ins[Top.next]>>
  OBVIOUS
<1>3. /\ depth > segmenterDepth
      /\ Top.next \in 1 .. Len(Top.ins) /\ Top.ins \in Seq(Nat)
      /\ Top.ins[Top.next] \in Nat /\ Takes(Top, Top.ins[Top.next])
  BY <1>1, InputOK
<1>4. ins \in Seq(Nat) /\ \A s \in Range(ins) : Takes(Top, s)
  <2>1. DOMAIN ins = {1} /\ ins[1] = Top.ins[Top.next]
    BY <1>2
  <2> QED BY <1>2, <1>3, <2>1, Singleton DEF Range
<1>5. /\ Top \in Frame /\ Top.pc = "enter" /\ EdgesOK(Top) /\ GraphsOK(Top)
      /\ depth \in Nat /\ segmenterDepth \in Nat /\ Len(streams) \in Nat
      /\ FrameHeld(Top, depth, streams)
  BY <1>1, <1>3, TopHolds
<1>6. \A s : Takes(Top, s) \/ Uses(Top, s) => s \in 1 .. Len(streams)
  BY <1>5 DEF FrameHeld, Sound
<1>7. IInv' /\ UNCHANGED <<phase, segmenterDepth, numSegments, inputs>>
  BY ConvertInputStep DEF HInv, ConvertInput, segmentVars, sessionVars
<1>8. ~(depth <= segmenterDepth)
  BY <1>3, <1>5
<1>9. ASSUME NodeRuns(ins, ConversionShape, 1, "ok"),
             SetTop([Top EXCEPT !.edges = Append(@, NewEdge(Len(streams) + 1)),
                                !.next = @ + 1])
      PROVE  HInv'
  <2>1. PICK sid \in Nat : sid = Len(streams) + 1
    BY <1>5
  <2>2. sid \notin 1 .. Len(streams)
    BY <1>5, <2>1
  <2>3. ~ Uses(Top, sid)
    BY <1>6, <2>2
  <2>4. ASSUME NEW k \in (Top.next + 1) .. Len(Top.ins) PROVE Top.ins[k] # sid
    <3>1. k \in DOMAIN Top.ins
      BY <1>3, LenProperties
    <3> QED BY <1>6, <2>2, <3>1 DEF Takes, Range
  <2>5. PICK g : MoreEdge(g, Top, sid)
    BY DEF MoreEdge
  <2>6. /\ g \in Frame /\ Goes(g, Top) /\ EdgesOK(g) /\ GraphsOK(g)
        /\ \A s : Uses(g, s) => Uses(Top, s) \/ s = sid
    BY <1>5, <2>3, <2>4, <2>5, NextEdgeHeld
  <2>7. SetTop(g)
    BY <1>9, <2>1, <2>5 DEF MoreEdge
  <2>8. \A s : Uses(g, s) =>
              \/ Uses(Top, s) \/ Takes(Top, s)
              \/ \E i \in 1 .. 1 : s = Len(streams) + i
    BY <2>1, <2>6
  <2>9. PICK r, made : r = "ok" /\ made = 1
    OBVIOUS
  <2>10. /\ r \in {"ok", "failed", "noStream", "noNode"} /\ made \in Nat
         /\ NodeRuns(ins, ConversionShape, made, r) /\ Fits(g, ins, made, r)
    BY <1>4, <1>9, <2>8, <2>9 DEF Fits
  <2>11. ConversionShape \in NodeShape
    BY ConversionType
  <2> QED BY <1>1, <1>3, <1>4, <1>7, <2>6, <2>7, <2>10, <2>11, NodeHeld
<1>10. ASSUME NEW r \in {"failed", "noStream", "noNode"},
              NodeRuns(ins, ConversionShape, 0, r), SetTop([Top EXCEPT !.pc = "err"])
       PROVE  HInv'
  <2>1. PICK g : g = [Top EXCEPT !.pc = "err"]
    OBVIOUS
  <2>2. Leaves(g, Top)
    BY <2>1 DEF Leaves
  <2>3. /\ g \in Frame /\ Goes(g, Top) /\ EdgesOK(g) /\ GraphsOK(g) /\ (\A s : ~ Uses(g, s))
        /\ SetTop(g)
    BY <1>5, <1>10, <2>1, <2>2, LeaveFrame
  <2>4. r # "ok" /\ r \in {"ok", "failed", "noStream", "noNode"} /\ 0 \in Nat
    OBVIOUS
  <2>5. PICK made \in Nat : made = 0
    OBVIOUS
  <2>6. /\ Fits(g, ins, made, r) /\ NodeRuns(ins, ConversionShape, made, r)
        /\ ConversionShape \in NodeShape
    BY <1>4, <1>10, <2>3, <2>4, <2>5, ConversionType DEF Fits
  <2> QED BY <1>1, <1>3, <1>4, <1>7, <2>3, <2>4, <2>6, NodeHeld
<1> QED BY <1>2, <1>9, <1>10 DEF ConvertInput, Goto

(* The edges lead where they led, and no more of them are open.            *)
LEMMA SubEdges ==
    ASSUME NEW t, EdgesOK(t), NEW g, g.ins = t.ins, g.pc # "enter",
           DOMAIN g.edges = DOMAIN t.edges,
           \A i \in DOMAIN t.edges :
              /\ g.edges[i].with = t.edges[i].with
              /\ g.edges[i].st = "unassigned" =>
                    t.edges[i].st = "unassigned" /\ g.edges[i].sid = t.edges[i].sid,
           g.pc = "fn" /\ g.graph \notin UserGraphs =>
              \A i \in DOMAIN t.edges : g.edges[i].st = "unassigned",
           Open(g) \subseteq Open(t)
    PROVE  EdgesOK(g) /\ \A s : Uses(g, s) => Uses(t, s)
<1>1. \A i \in Open(t) : i \in DOMAIN t.edges
  BY DEF Open
<1>2. \A i \in Open(g) : \A s : Leads(g.edges[i], s) <=> Leads(t.edges[i], s)
  BY <1>1 DEF Leads
<1>3. \A s : Uses(g, s) => Uses(t, s)
  BY <1>2 DEF Uses
<1>4. \A i \in Open(g) : Once(g.edges[i].with)
  BY <1>1 DEF EdgesOK
<1>5. \A i, j \in Open(g) : \A s : Leads(g.edges[i], s) /\ Leads(g.edges[j], s) => i = j
  BY <1>2 DEF EdgesOK
<1>6. \A i \in DOMAIN g.edges :
         g.edges[i].st = "unassigned" => g.edges[i].with = <<g.edges[i].sid>>
  BY DEF EdgesOK
<1>7. Once(g.ins)
  BY DEF EdgesOK
<1> QED BY <1>3, <1>4, <1>5, <1>6, <1>7 DEF EdgesOK

(* The graph function of a frame runs over the segmenter.                  *)
LEMMA FnOver ==
    ASSUME HInv, NEW label \in {"enter", "fn"}, AtGraph(label)
    PROVE  depth > segmenterDepth /\ ~(depth <= segmenterDepth)
<1>1. /\ Top.pc = label /\ depth \in Nat /\ segmenterDepth \in Nat
      /\ depth <= segmenterDepth => Quiet(Top)
  BY TopHolds
<1> QED BY <1>1 DEF Quiet

(* STORE keeps the stream alive, at its rank.                              *)
LEMMA StoreIs ==
    ASSUME NEW strs \in Seq(Stream), NEW sid, NEW new, new = RTGM_storeStream(strs, sid)
    PROVE  Len(new) = Len(strs) /\ \A s \in 1 .. Len(strs) : Kept(strs, new, s)
<1>1. Len(new) = Len(strs)
  BY StreamUpdates
<1>2. ASSUME NEW s \in 1 .. Len(strs) PROVE Kept(strs, new, s)
  <2>1. s \in DOMAIN strs /\ strs[s] \in Stream
    BY StreamRanks
  <2>2. new[s] = IF s = sid THEN [strs[s] EXCEPT !.toStore = TRUE] ELSE strs[s]
    BY <2>1 DEF RTGM_storeStream
  <2>3. \A x \in Stream : /\ [x EXCEPT !.toStore = TRUE].live = x.live
                          /\ [x EXCEPT !.toStore = TRUE].rank = x.rank
    BY DEF Stream
  <2> QED BY <2>1, <2>2, <2>3 DEF Kept
<1> QED BY <1>1, <1>2

(* CCTX_runSupervisedGraphID() stores the stream, or calls the function.   *)
LEMMA StartGraphHeld ==
    ASSUME HInv, StartGraph
    PROVE  HInv'
<1>1. AtGraph("enter") /\ UNCHANGED <<nodes, phase, segmenterDepth, numSegments, inputs>>
  BY DEF StartGraph, segmentVars, sessionVars
<1>2. depth > segmenterDepth /\ ~(depth <= segmenterDepth)
  BY <1>1, FnOver
<1>3. /\ Top \in Frame /\ Top.pc = "enter" /\ EdgesOK(Top) /\ GraphsOK(Top)
      /\ streams \in Seq(Stream) /\ Len(streams) \in Nat /\ Len(nodes) \in Nat
  BY <1>1, TopHolds
<1>4. IInv'
  BY StartGraphStep DEF HInv
<1>5. CASE Top.graph = "serialStore"
  <2>1. PICK g : g = [Top EXCEPT !.pc = "ok"]
    OBVIOUS
  <2>2. Leaves(g, Top)
    BY <2>1 DEF Leaves
  <2>3. /\ g \in Frame /\ Goes(g, Top) /\ EdgesOK(g) /\ GraphsOK(g) /\ (\A s : ~ Uses(g, s))
    BY <1>3, <2>2, LeaveFrame
  <2>4. SetTop(g) /\ streams' = RTGM_storeStream(streams, Top.edges[1].sid)
    BY <1>5, <2>1 DEF StartGraph, Goto
  <2>5. Len(streams') = Len(streams) /\ \A s \in 1 .. Len(streams) : Kept(streams, streams', s)
    BY <1>3, <2>4, StoreIs
  <2>6. StreamsStep(Top, g, depth, streams, streams')
    BY <1>3, <2>3, <2>5 DEF StreamsStep
  <2>7. NodesStep(nodes, nodes', streams, streams')
    BY <1>1, <1>3, <2>5 DEF NodesStep
  <2> QED BY <1>1, <1>2, <1>4, <2>3, <2>4, <2>6, <2>7, StepHeld
<1>6. CASE Top.graph # "serialStore"
  <2>1. PICK g : g = [Top EXCEPT !.pc = "fn", !.next = 1]
    OBVIOUS
  <2>2. SetTop(g) /\ UNCHANGED streams
    BY <1>6, <2>1 DEF StartGraph
  <2>3. /\ g \in Frame /\ g.pc = "fn" /\ g.edges = Top.edges /\ g.ins = Top.ins
        /\ g.graph = Top.graph /\ g.mode = Top.mode /\ g.nodesBefore = Top.nodesBefore
        /\ g.segmentable = Top.segmentable
    <3>1. 1 \in Nat \ {0}
      OBVIOUS
    <3> QED BY <1>3, <2>1, <3>1 DEF Frame, PC
  <2>4. Goes(g, Top)
    BY <2>3 DEF Goes
  <2>5. Open(g) \subseteq Open(Top)
    BY <1>3, <2>3 DEF Open
  <2>6. \A i \in DOMAIN Top.edges : g.edges[i].st = "unassigned"
    BY <1>3, <2>3 DEF EdgesOK
  <2>7. EdgesOK(g) /\ \A s : Uses(g, s) => Uses(Top, s)
    BY <1>3, <2>3, <2>5, <2>6, SubEdges
  <2>8. GraphsOK(g)
    BY <1>3, <2>3 DEF GraphsOK
  <2> QED BY <1>1, <1>2, <1>4, <2>2, <2>3, <2>4, <2>7, <2>8, LocalHeld
<1> QED BY <1>5, <1>6

(* The function of a user graph returns.                                   *)
LEMMA UserGraphReturnsHeld ==
    ASSUME HInv, UserGraphReturns
    PROVE  HInv'
<1>1. /\ AtGraph("fn")
      /\ UNCHANGED <<nodes, streams, phase, segmenterDepth, numSegments, inputs>>
  BY DEF UserGraphReturns, AtUserFn, graphVars, segmentVars, sessionVars
<1>2. depth > segmenterDepth /\ ~(depth <= segmenterDepth)
  BY <1>1, FnOver
<1>3. /\ Top \in Frame /\ Top.pc = "fn" /\ EdgesOK(Top) /\ GraphsOK(Top)
  BY <1>1, TopHolds
<1>4. IInv'
  BY UserGraphReturnsStep DEF HInv
<1>5. CASE Goto("err")
  <2>1. PICK g : g = [Top EXCEPT !.pc = "err"]
    OBVIOUS
  <2>2. Leaves(g, Top) /\ SetTop(g)
    BY <1>5, <2>1 DEF Leaves, Goto
  <2> QED BY <1>1, <1>4, <2>2, LeaveStepHeld
<1>6. CASE SetTop([Top EXCEPT !.pc = "succ", !.next = 1])
  <2>1. PICK g : g = [Top EXCEPT !.pc = "succ", !.next = 1]
    OBVIOUS
  <2>3. /\ g \in Frame /\ g.pc = "succ" /\ g.edges = Top.edges /\ g.ins = Top.ins
        /\ g.graph = Top.graph /\ g.mode = Top.mode /\ g.nodesBefore = Top.nodesBefore
        /\ g.segmentable = Top.segmentable
    <3>1. 1 \in Nat \ {0}
      OBVIOUS
    <3> QED BY <1>3, <2>1, <3>1 DEF Frame, PC
  <2>2. SetTop(g)
    BY <1>6, <2>1
  <2>4. Goes(g, Top)
    BY <2>3 DEF Goes
  <2>5. Open(g) \subseteq Open(Top)
    BY <1>3, <2>3 DEF Open
  <2>7. EdgesOK(g) /\ \A s : Uses(g, s) => Uses(Top, s)
    BY <1>3, <2>3, <2>5, SubEdges
  <2>8. GraphsOK(g)
    BY <1>3, <2>3 DEF GraphsOK
  <2> QED BY <1>1, <1>2, <1>4, <2>2, <2>3, <2>4, <2>7, <2>8, LocalHeld
<1> QED BY <1>5, <1>6 DEF UserGraphReturns

(* Every edge gets a destination.                                          *)
LEMMA AllToIs ==
    ASSUME NEW edges \in Seq(Edge), NEW to, NEW new, new = AllTo(edges, to)
    PROVE  /\ DOMAIN new = DOMAIN edges
           /\ \A i \in DOMAIN edges :
                 /\ new[i].st = "trigger" /\ new[i].graph = to
                 /\ new[i].with = edges[i].with /\ new[i].sid = edges[i].sid
<1>1. \A i \in DOMAIN edges : edges[i] \in Edge
  BY LenProperties, ElementOfSeq
<1>2. DOMAIN new = DOMAIN edges
  BY DEF AllTo
<1>3. \A i \in DOMAIN edges :
         new[i] = [edges[i] EXCEPT !.st = "trigger", !.graph = to]
  BY DEF AllTo
<1>4. ASSUME NEW i \in DOMAIN edges
      PROVE  /\ new[i].st = "trigger" /\ new[i].graph = to
             /\ new[i].with = edges[i].with /\ new[i].sid = edges[i].sid
  <2>1. PICK e \in Edge : e = edges[i]
    BY <1>1
  <2>2. new[i] = [e EXCEPT !.st = "trigger", !.graph = to]
    BY <1>3, <2>1
  <2>3. /\ new[i].st = "trigger" /\ new[i].graph = to
        /\ new[i].with = e.with /\ new[i].sid = e.sid
    BY <2>2 DEF Edge
  <2> QED BY <2>1, <2>3
<1> QED BY <1>2, <1>4

(* A frame that has sent all its edges to a graph.                         *)
SentOn(g, t, to) == g = [t EXCEPT !.edges = AllTo(t.edges, to), !.pc = "succ"]

(* A graph of the library sends its edges to a graph of the library.       *)
LEMMA AllToHeld ==
    ASSUME HInv, IInv', AtGraph("fn"), NEW STATE to, to \in Library,
           Top.graph \in Library, NEW STATE g, SetTop(g),
           SentOn(g, Top, to),
           UNCHANGED <<nodes, streams, phase, segmenterDepth, numSegments, inputs>>
    PROVE  HInv'
<1>2. depth > segmenterDepth /\ ~(depth <= segmenterDepth)
  BY FnOver
<1>3. /\ Top \in Frame /\ FrameOK(Top) /\ Top.pc = "fn" /\ EdgesOK(Top) /\ GraphsOK(Top)
      /\ Top.edges \in Seq(Edge)
  BY TopHolds
<1>4. PICK es : es = AllTo(Top.edges, to)
  OBVIOUS
<1>5. /\ DOMAIN es = DOMAIN Top.edges
      /\ \A i \in DOMAIN Top.edges :
            es[i].st = "trigger" /\ es[i].graph = to /\ es[i].with = Top.edges[i].with
  BY <1>3, <1>4, AllToIs
<1>6. es \in Seq(Edge)
  <2>1. to \in Graphs /\ Top.edges # <<>>
    BY <1>3 DEF Library, Graphs, FrameOK
  <2> QED BY <1>3, <1>4, <2>1, AllToOK
<1>7. /\ g \in Frame /\ g.pc = "succ" /\ g.edges = es /\ g.ins = Top.ins
      /\ g.graph = Top.graph /\ g.mode = Top.mode /\ g.nodesBefore = Top.nodesBefore
      /\ g.segmentable = Top.segmentable
  BY <1>3, <1>4, <1>6 DEF Frame, PC, SentOn
<1>8. Goes(g, Top)
  BY <1>7 DEF Goes
<1>9. Open(g) \subseteq Open(Top)
  <2>1. \A i \in DOMAIN Top.edges : Top.edges[i].st = "unassigned"
    BY <1>3 DEF EdgesOK, Library, UserGraphs
  <2> QED BY <1>3, <1>5, <1>7, <2>1 DEF Open
<1>10. EdgesOK(g) /\ \A s : Uses(g, s) => Uses(Top, s)
  <2>1. /\ DOMAIN g.edges = DOMAIN Top.edges
        /\ \A i \in DOMAIN Top.edges :
              /\ g.edges[i].with = Top.edges[i].with
              /\ g.edges[i].st = "unassigned" =>
                    /\ Top.edges[i].st = "unassigned"
                    /\ g.edges[i].sid = Top.edges[i].sid
    BY <1>5, <1>7
  <2>2. g.pc # "enter" /\ g.pc # "fn" /\ g.ins = Top.ins
    BY <1>7
  <2>3. g.pc = "fn" /\ g.graph \notin UserGraphs =>
              \A i \in DOMAIN Top.edges : g.edges[i].st = "unassigned"
    BY <2>2
  <2>4. EdgesOK(Top)
    BY <1>3
  <2> QED BY <1>9, <2>1, <2>2, <2>3, <2>4, SubEdges, Zenon
<1>11. GraphsOK(g)
  BY <1>5, <1>7 DEF GraphsOK, Library
<1> QED BY <1>2, <1>7, <1>8, <1>10, <1>11, LocalHeld

(* MultiInputGraph_compress() and SI_selector_store().                     *)
LEMMA RedirectHeld ==
    ASSUME HInv, Redirect
    PROVE  HInv'
<1>1. /\ AtGraph("fn") /\ Top.graph \in Library
      /\ UNCHANGED <<nodes, streams, phase, segmenterDepth, numSegments, inputs>>
  BY DEF Redirect, Library, graphVars, segmentVars, sessionVars
<1>2. PICK to : to = IF Top.graph = "generic" THEN "compress1" ELSE "serialStore"
  OBVIOUS
<1>3. to \in Library
  BY <1>2 DEF Library
<1>4. PICK g : SentOn(g, Top, to)
  BY DEF SentOn
<1>5. SetTop(g)
  <2>1. Top \in Frame
    BY <1>1, TopHolds
  <2>2. g = [Top EXCEPT !.edges = AllTo(@, to), !.pc = "succ"]
    BY <1>4, <2>1 DEF Frame, SentOn
  <2> QED BY <1>2, <2>2 DEF Redirect
<1>6. IInv'
  BY RedirectStep DEF HInv
<1> QED BY <1>1, <1>3, <1>4, <1>5, <1>6, AllToHeld

(* One edge or two of them.                                                *)
LEMMA ListIs ==
    ASSUME NEW choice, NEW list \in EdgeLists(choice)
    PROVE  /\ 1 \in DOMAIN list /\ DOMAIN list \subseteq Nat
           /\ \A k \in DOMAIN list : list[k] \in choice
           /\ \A i \in Range(list) : i \in choice
           /\ list[1] \in Range(list)
<1>1. \/ \E i \in choice : list = <<i>>
      \/ \E i, j \in choice : list = <<i, j>>
  BY DEF EdgeLists
<1>2. /\ 1 \in DOMAIN list /\ DOMAIN list \subseteq Nat
      /\ \A k \in DOMAIN list : list[k] \in choice
  <2>1. CASE \E i \in choice : list = <<i>>
    <3>1. PICK i \in choice : list = <<i>>
      BY <2>1
    <3>2. DOMAIN list = {1} /\ list[1] = i
      BY <3>1
    <3> QED BY <3>2
  <2>2. CASE \E i, j \in choice : list = <<i, j>>
    <3>1. PICK i, j \in choice : list = <<i, j>>
      BY <2>2
    <3>2. DOMAIN list = {1, 2} /\ list[1] = i /\ list[2] = j
      BY <3>1
    <3> QED BY <3>2
  <2> QED BY <1>1, <2>1, <2>2
<1> QED BY <1>2 DEF Range

(* The streams of a list of edges.                                         *)
LEMMA SidsAre ==
    ASSUME NEW edges, NEW list
    PROVE  /\ DOMAIN Sids(edges, list) = DOMAIN list
           /\ \A k \in DOMAIN list : Sids(edges, list)[k] = edges[list[k]].sid
           /\ \A s : s \in Range(Sids(edges, list)) <=>
                        \E k \in DOMAIN list : s = edges[list[k]].sid
<1>1. /\ DOMAIN Sids(edges, list) = DOMAIN list
      /\ \A k \in DOMAIN list : Sids(edges, list)[k] = edges[list[k]].sid
  BY DEF Sids
<1> QED BY <1>1 DEF Range

(* The edges after ZL_Edge_setDestination().                               *)
LEMMA AssignEdgesIs ==
    ASSUME NEW edges \in Seq(Edge), NEW list, NEW to,
           NEW new, new = AssignEdges(edges, list, to)
    PROVE  /\ DOMAIN new = DOMAIN edges
           /\ \A i \in DOMAIN edges :
                 /\ i = list[1] => /\ new[i].st = "trigger" /\ new[i].graph = to
                                   /\ new[i].with = Sids(edges, list)
                 /\ i # list[1] /\ i \in Range(list) =>
                       new[i].st = "follow" /\ new[i].graph = edges[i].graph
                 /\ i # list[1] /\ i \notin Range(list) => new[i] = edges[i]
<1>1. \A i \in DOMAIN edges : edges[i] \in Edge
  BY LenProperties, ElementOfSeq
<1>2. DOMAIN new = DOMAIN edges
  BY DEF AssignEdges
<1>3. PICK w : w = Sids(edges, list)
  OBVIOUS
<1>4. ASSUME NEW i \in DOMAIN edges
      PROVE  /\ i = list[1] => /\ new[i].st = "trigger" /\ new[i].graph = to
                               /\ new[i].with = w
             /\ i # list[1] /\ i \in Range(list) =>
                   new[i].st = "follow" /\ new[i].graph = edges[i].graph
             /\ i # list[1] /\ i \notin Range(list) => new[i] = edges[i]
  <2>1. PICK e \in Edge : e = edges[i]
    BY <1>1
  <2>2. new[i] = IF i = list[1]
                 THEN [e EXCEPT !.st = "trigger", !.graph = to, !.with = w]
                 ELSE IF i \in Range(list) THEN [e EXCEPT !.st = "follow"] ELSE e
    BY <1>3, <2>1 DEF AssignEdges
  <2>3. CASE i = list[1]
    <3>1. new[i] = [e EXCEPT !.st = "trigger", !.graph = to, !.with = w]
      BY <2>2, <2>3
    <3>2. new[i].st = "trigger" /\ new[i].graph = to /\ new[i].with = w
      BY <3>1 DEF Edge
    <3> QED BY <2>3, <3>2
  <2>4. CASE i # list[1] /\ i \in Range(list)
    <3>1. new[i] = [e EXCEPT !.st = "follow"]
      BY <2>2, <2>4
    <3>2. new[i].st = "follow" /\ new[i].graph = e.graph
      BY <3>1 DEF Edge
    <3> QED BY <2>1, <2>4, <3>2
  <2>5. CASE i # list[1] /\ i \notin Range(list)
    BY <2>1, <2>2, <2>5
  <2> QED BY <2>3, <2>4, <2>5
<1> QED BY <1>2, <1>3, <1>4

(* The destination is given to edges that lead to different streams.       *)
LEMMA AssignHeld ==
    ASSUME NEW t \in Frame, t.pc = "fn", t.graph \in UserGraphs, EdgesOK(t), GraphsOK(t),
           NEW list \in EdgeLists(FreeEdges(t.edges)), ~ RefusedDestination(t.edges, list),
           NEW to \in Destinations, NEW g, g.pc = "fn", g.graph = t.graph, g.ins = t.ins,
           g.edges = AssignEdges(t.edges, list, to)
    PROVE  EdgesOK(g) /\ GraphsOK(g) /\ \A s : Uses(g, s) => Uses(t, s)
<1> DEFINE old == t.edges
           w == Sids(old, list)
<1>1. old \in Seq(Edge)
  BY FrameTypes
<1>2. PICK new : new = AssignEdges(old, list, to) /\ g.edges = new
  OBVIOUS
<1>3. /\ DOMAIN new = DOMAIN old
      /\ \A i \in DOMAIN old :
            /\ i = list[1] => new[i].st = "trigger" /\ new[i].graph = to /\ new[i].with = w
            /\ i # list[1] /\ i \in Range(list) =>
                  new[i].st = "follow" /\ new[i].graph = old[i].graph
            /\ i # list[1] /\ i \notin Range(list) => new[i] = old[i]
  BY <1>1, <1>2, AssignEdgesIs
<1>4. /\ 1 \in DOMAIN list /\ DOMAIN list \subseteq Nat /\ list[1] \in Range(list)
      /\ \A k \in DOMAIN list : list[k] \in FreeEdges(old)
      /\ \A i \in Range(list) : i \in FreeEdges(old)
  BY ListIs
<1>5. \A i \in FreeEdges(old) : /\ i \in DOMAIN old /\ i \in Open(t)
                                /\ old[i].with = <<old[i].sid>>
                                /\ \A s : Leads(old[i], s) <=> s = old[i].sid
  <2> SUFFICES ASSUME NEW i \in FreeEdges(old)
               PROVE  /\ i \in DOMAIN old /\ i \in Open(t)
                      /\ old[i].with = <<old[i].sid>>
                      /\ \A s : Leads(old[i], s) <=> s = old[i].sid
    OBVIOUS
  <2>1. i \in DOMAIN old /\ old[i].st = "unassigned"
    BY DEF FreeEdges, Unassigned
  <2>2. i \in Open(t) /\ old[i].with = <<old[i].sid>>
    BY <2>1 DEF EdgesOK, Open
  <2>3. PICK x : x = old[i].sid
    OBVIOUS
  <2>4. Range(<<x>>) = {x}
    BY DEF Range
  <2> QED BY <2>1, <2>2, <2>3, <2>4 DEF Leads
<1>6. /\ DOMAIN w = DOMAIN list /\ \A k \in DOMAIN list : w[k] = old[list[k]].sid
      /\ \A s : s \in Range(w) <=> \E k \in DOMAIN list : s = old[list[k]].sid
  BY SidsAre
<1> HIDE DEF w, old
<1>7. ASSUME NEW i \in Open(g), NEW s, Leads(new[i], s)
      PROVE  \E j \in Open(t) : /\ Leads(old[j], s)
                                /\ i = list[1] => j \in Range(list)
                                /\ i # list[1] => j = i /\ i \notin Range(list)
  <2>1. i \in DOMAIN old /\ new[i].st \in {"trigger", "unassigned"}
    BY <1>2, <1>3 DEF Open
  <2>2. CASE i = list[1]
    <3>1. s \in Range(w)
      BY <1>3, <1>7, <2>1, <2>2 DEF Leads
    <3>2. PICK k \in DOMAIN list : s = old[list[k]].sid
      BY <1>6, <3>1
    <3>3. list[k] \in Range(list) /\ list[k] \in Open(t) /\ Leads(old[list[k]], s)
      BY <1>4, <1>5, <3>2 DEF Range
    <3> QED BY <2>2, <3>3
  <2>3. CASE i # list[1]
    <3>1. i \notin Range(list) /\ new[i] = old[i]
      BY <1>3, <2>1, <2>3
    <3>2. i \in Open(t)
      BY <2>1, <3>1 DEF Open, old
    <3> QED BY <1>7, <2>3, <3>1, <3>2
  <2> QED BY <2>2, <2>3
<1>8. \A s : Uses(g, s) => Uses(t, s)
  <2> SUFFICES ASSUME NEW s, NEW i \in Open(g), Leads(new[i], s) PROVE Uses(t, s)
    BY <1>2 DEF Uses
  <2> QED BY <1>7 DEF Uses, old
<1>9. \A a, b \in Open(t) : \A s : Leads(old[a], s) /\ Leads(old[b], s) => a = b
  BY DEF EdgesOK, old
<1>10. ASSUME NEW i \in Open(g), NEW j \in Open(g), NEW s, Leads(new[i], s), Leads(new[j], s)
       PROVE  i = j
  <2>1. PICK a \in Open(t) : /\ Leads(old[a], s)
                             /\ i = list[1] => a \in Range(list)
                             /\ i # list[1] => a = i /\ i \notin Range(list)
    BY <1>7, <1>10
  <2>2. PICK b \in Open(t) : /\ Leads(old[b], s)
                             /\ j = list[1] => b \in Range(list)
                             /\ j # list[1] => b = j /\ j \notin Range(list)
    BY <1>7, <1>10
  <2>3. a = b
    BY <1>9, <2>1, <2>2
  <2> QED BY <2>1, <2>2, <2>3
<1>11. Once(w)
  <2> SUFFICES ASSUME NEW a \in DOMAIN list, NEW b \in DOMAIN list, w[a] = w[b] PROVE a = b
    BY <1>6 DEF Once
  <2>1. list[a] = list[b]
    BY <1>4, <1>5, <1>6, <1>9
  <2>2. \A k \in DOMAIN list : \A j \in 1 .. k - 1 : list[j] # list[k]
    BY DEF RefusedDestination
  <2>3. a \in Nat /\ b \in Nat
    BY <1>4
  <2>4. a # 0 /\ b # 0
    <3>1. DOMAIN list = {1} \/ DOMAIN list = {1, 2}
      <4>1. \/ \E i \in FreeEdges(old) : list = <<i>>
            \/ \E i, j \in FreeEdges(old) : list = <<i, j>>
        BY DEF EdgeLists, old
      <4> QED BY <4>1
    <3> QED BY <3>1
  <2>5. ~(a < b)
    <3> SUFFICES ASSUME a < b PROVE FALSE
      OBVIOUS
    <3>1. a \in 1 .. b - 1
      BY <2>3, <2>4
    <3> QED BY <2>1, <2>2, <3>1
  <2>6. ~(b < a)
    <3> SUFFICES ASSUME b < a PROVE FALSE
      OBVIOUS
    <3>1. b \in 1 .. a - 1
      BY <2>3, <2>4
    <3> QED BY <2>1, <2>2, <3>1
  <2> QED BY <2>3, <2>5, <2>6
<1>12. ASSUME NEW i \in Open(g) PROVE Once(new[i].with)
  <2>1. i \in DOMAIN old /\ new[i].st \in {"trigger", "unassigned"}
    BY <1>2, <1>3 DEF Open
  <2>2. CASE i = list[1]
    BY <1>3, <1>11, <2>1, <2>2
  <2>3. CASE i # list[1]
    <3>1. new[i] = old[i]
      BY <1>3, <2>1, <2>3
    <3>2. i \in Open(t)
      BY <2>1, <3>1 DEF Open, old
    <3> QED BY <3>1, <3>2 DEF EdgesOK, old
  <2> QED BY <2>2, <2>3
<1>13. \A i \in DOMAIN new : new[i].st = "unassigned" => new[i].with = <<new[i].sid>>
  <2> SUFFICES ASSUME NEW i \in DOMAIN old, new[i].st = "unassigned"
               PROVE  new[i].with = <<new[i].sid>>
    BY <1>3
  <2>1. new[i] = old[i]
    BY <1>3
  <2> QED BY <2>1 DEF EdgesOK, old
<1>14. EdgesOK(g)
  <2>1. Once(g.ins)
    BY DEF EdgesOK
  <2> QED BY <1>2, <1>10, <1>12, <1>13, <2>1 DEF EdgesOK
<1>15. GraphsOK(g)
  <2>1. ASSUME NEW i \in DOMAIN old, new[i].graph = "segmenter"
        PROVE  "segmenter" \in Destinations
    BY <1>3, <2>1 DEF GraphsOK, old
  <2>2. g.graph \notin Library
    BY DEF Library, UserGraphs
  <2> QED BY <1>2, <1>3, <2>1, <2>2 DEF GraphsOK
<1> QED BY <1>8, <1>14, <1>15

(* ZL_Edge_setDestination() on free edges.                                 *)
LEMMA SetDestinationHeld ==
    ASSUME HInv, ZL_Edge_setDestination
    PROVE  HInv'
<1>1. /\ AtGraph("fn") /\ Top.graph \in UserGraphs
      /\ UNCHANGED <<nodes, streams, phase, segmenterDepth, numSegments, inputs>>
  BY DEF ZL_Edge_setDestination, AtUserFn, graphVars, segmentVars, sessionVars
<1>2. depth > segmenterDepth /\ ~(depth <= segmenterDepth)
  BY <1>1, FnOver
<1>3. /\ Top \in Frame /\ FrameOK(Top) /\ Top.pc = "fn" /\ EdgesOK(Top) /\ GraphsOK(Top)
      /\ Top.edges \in Seq(Edge) /\ Top.edges # <<>>
  BY <1>1, TopHolds DEF FrameOK
<1>4. IInv'
  BY SetDestinationStep DEF HInv
<1>5. PICK list \in EdgeLists(FreeEdges(Top.edges)), to \in Destinations :
         /\ ~ RefusedDestination(Top.edges, list)
         /\ SetTop([Top EXCEPT !.edges = AssignEdges(@, list, to)])
  BY DEF ZL_Edge_setDestination
<1>6. PICK es : es = AssignEdges(Top.edges, list, to)
  OBVIOUS
<1>7. es \in Seq(Edge)
  <2>1. FreeEdges(Top.edges) \in SUBSET DOMAIN Top.edges
    BY DEF FreeEdges, Unassigned
  <2>2. Sids(Top.edges, list) \in SidList
    BY <1>3, <2>1, SidsOK
  <2>3. to \in Graphs
    BY DEF Graphs
  <2> QED BY <1>3, <1>6, <2>2, <2>3, AssignEdgesOK
<1>8. PICK g : g = [Top EXCEPT !.edges = es]
  OBVIOUS
<1>9. SetTop(g)
  BY <1>3, <1>5, <1>6, <1>8 DEF Frame
<1>10. /\ g \in Frame /\ g.pc = "fn" /\ g.edges = es /\ g.ins = Top.ins
       /\ g.graph = Top.graph /\ g.mode = Top.mode /\ g.nodesBefore = Top.nodesBefore
       /\ g.segmentable = Top.segmentable
  BY <1>3, <1>7, <1>8 DEF Frame
<1>11. Goes(g, Top)
  BY <1>10 DEF Goes
<1>12. EdgesOK(g) /\ GraphsOK(g) /\ \A s : Uses(g, s) => Uses(Top, s)
  <2>1. /\ g.pc = "fn" /\ g.graph = Top.graph /\ g.ins = Top.ins
        /\ g.edges = AssignEdges(Top.edges, list, to)
    BY <1>6, <1>10
  <2> QED BY <1>1, <1>3, <1>5, <2>1, AssignHeld
<1> QED BY <1>1, <1>2, <1>4, <1>9, <1>10, <1>11, <1>12, LocalHeld

(* A refused destination takes at most the first edge.                     *)
LEMMA SetDestinationTwiceHeld ==
    ASSUME HInv, SetDestinationTwice
    PROVE  HInv'
<1>1. /\ AtGraph("fn") /\ Top.graph \in UserGraphs
      /\ UNCHANGED <<nodes, streams, phase, segmenterDepth, numSegments, inputs>>
  BY DEF SetDestinationTwice, AtUserFn, graphVars, segmentVars, sessionVars
<1>2. depth > segmenterDepth /\ ~(depth <= segmenterDepth)
  BY <1>1, FnOver
<1>3. /\ Top \in Frame /\ FrameOK(Top) /\ Top.pc = "fn" /\ EdgesOK(Top) /\ GraphsOK(Top)
      /\ Top.edges \in Seq(Edge) /\ Top.edges # <<>>
  BY <1>1, TopHolds DEF FrameOK
<1>4. IInv'
  BY SetDestinationTwiceStep DEF HInv
<1>5. PICK list :
         SetTop([Top EXCEPT !.edges = TakeFirst(@, list), !.status = TRUE])
  BY DEF SetDestinationTwice
<1>6. PICK es : es = TakeFirst(Top.edges, list)
  OBVIOUS
<1>7. es \in Seq(Edge) /\ DOMAIN es = DOMAIN Top.edges
  BY <1>3, <1>6, TakeFirstOK DEF TakeFirst
<1>8. ASSUME NEW i \in DOMAIN Top.edges
      PROVE  /\ es[i].with = Top.edges[i].with /\ es[i].graph = Top.edges[i].graph
             /\ es[i].sid = Top.edges[i].sid
             /\ es[i].st = Top.edges[i].st
                  \/ (es[i].st = "trigger" /\ Top.edges[i].st = "unassigned")
  <2>1. PICK e \in Edge : e = Top.edges[i]
    BY <1>3, LenProperties, ElementOfSeq
  <2>2. \/ es[i] = e
        \/ es[i] = [e EXCEPT !.st = "trigger"] /\ e.st = "unassigned"
    BY <1>6, <2>1 DEF TakeFirst, FreeEdges, Unassigned
  <2>3. /\ es[i].with = e.with /\ es[i].graph = e.graph /\ es[i].sid = e.sid
        /\ es[i].st = e.st \/ (es[i].st = "trigger" /\ e.st = "unassigned")
    BY <2>2 DEF Edge
  <2> QED BY <2>1, <2>3
<1>9. PICK g : g = [Top EXCEPT !.edges = es, !.status = TRUE]
  OBVIOUS
<1>10. SetTop(g)
  BY <1>3, <1>5, <1>6, <1>9 DEF Frame
<1>11. /\ g \in Frame /\ g.pc = "fn" /\ g.edges = es /\ g.ins = Top.ins
       /\ g.graph = Top.graph /\ g.mode = Top.mode /\ g.nodesBefore = Top.nodesBefore
       /\ g.segmentable = Top.segmentable
  BY <1>3, <1>7, <1>9 DEF Frame
<1>12. Goes(g, Top)
  BY <1>11 DEF Goes
<1>13. EdgesOK(g) /\ \A s : Uses(g, s) => Uses(Top, s)
  <2>1. Open(g) \subseteq Open(Top)
    BY <1>3, <1>7, <1>8, <1>11 DEF Open
  <2>2. /\ DOMAIN g.edges = DOMAIN Top.edges
        /\ \A i \in DOMAIN Top.edges :
              /\ g.edges[i].with = Top.edges[i].with
              /\ g.edges[i].st = "unassigned" =>
                    /\ Top.edges[i].st = "unassigned"
                    /\ g.edges[i].sid = Top.edges[i].sid
    BY <1>7, <1>8, <1>11
  <2>3. g.ins = Top.ins /\ g.pc # "enter" /\ g.graph \in UserGraphs
    BY <1>1, <1>11
  <2> QED BY <1>3, <2>1, <2>2, <2>3, SubEdges
<1>14. GraphsOK(g)
  BY <1>3, <1>7, <1>8, <1>11 DEF GraphsOK
<1> QED BY <1>1, <1>2, <1>4, <1>10, <1>11, <1>12, <1>13, <1>14, LocalHeld

(* The edges after a node: its inputs are taken, its outputs are new.      *)
Processed(new, edges, list, made) ==
    /\ DOMAIN new = 1 .. Len(edges) + made
    /\ \A i \in 1 .. Len(edges) :
          /\ i \in Range(list) => new[i].st = "processed" /\ new[i].graph = edges[i].graph
          /\ i \notin Range(list) => new[i] = edges[i]
    /\ \A k \in 1 .. made : new[Len(edges) + k] = NewEdge(Len(streams) + k)

(* ProcessEdges() does that.                                               *)
LEMMA ProcessEdgesIs ==
    ASSUME NEW edges \in Seq(Edge), NEW list, NEW made \in Nat, streams \in Seq(Stream)
    PROVE  Processed(ProcessEdges(edges, list, made), edges, list, made)
<1> DEFINE old == [i \in DOMAIN edges |->
                     IF i \in Range(list)
                     THEN [edges[i] EXCEPT !.st = "processed"] ELSE edges[i]]
           add == [k \in 1 .. made |-> NewEdge(Len(streams) + k)]
           n == Len(edges)
           new == ProcessEdges(edges, list, made)
<1>1. /\ DOMAIN edges = 1 .. n /\ n \in Nat /\ Len(streams) \in Nat
      /\ \A i \in 1 .. n : edges[i] \in Edge
  BY LenProperties, ElementOfSeq
<1>2. old \in [1 .. n -> Edge]
  BY <1>1, EdgeTypes
<1>3. old \in Seq(Edge) /\ Len(old) = n
  BY <1>1, <1>2, FcnSeq
<1>4. add \in Seq(Edge) /\ Len(add) = made
  <2>1. add \in Seq(Edge)
    BY <1>1, NewEdgesOK
  <2>2. add \in [1 .. made -> Edge]
    BY <1>1, NewEdgeOK
  <2> QED BY <2>1, <2>2, FcnSeq
<1>5. new = old \o add
  BY DEF ProcessEdges
<1>6. \A i \in 1 .. n : old[i] = IF i \in Range(list)
                                 THEN [edges[i] EXCEPT !.st = "processed"] ELSE edges[i]
  BY <1>1
<1>7. \A k \in 1 .. made : add[k] = NewEdge(Len(streams) + k)
  OBVIOUS
<1> HIDE DEF old, add, n, new
<1>8. /\ old \o add \in Seq(Edge) /\ Len(old \o add) = Len(old) + Len(add)
      /\ \A i \in 1 .. Len(old) + Len(add) :
            (old \o add)[i] = IF i <= Len(old) THEN old[i] ELSE add[i - Len(old)]
  BY <1>3, <1>4, ConcatProperties
<1>9. /\ new \in Seq(Edge) /\ Len(new) = n + made
      /\ \A i \in 1 .. n + made : new[i] = IF i <= n THEN old[i] ELSE add[i - n]
  BY <1>3, <1>4, <1>5, <1>8
<1>10. DOMAIN new = 1 .. n + made
  BY <1>9, LenProperties
<1>11. ASSUME NEW i \in 1 .. n
       PROVE  /\ i \in Range(list) => new[i].st = "processed" /\ new[i].graph = edges[i].graph
              /\ i \notin Range(list) => new[i] = edges[i]
  <2>1. new[i] = old[i]
    BY <1>1, <1>9
  <2>2. PICK e \in Edge : e = edges[i]
    BY <1>1
  <2>3. new[i] = IF i \in Range(list) THEN [e EXCEPT !.st = "processed"] ELSE e
    BY <1>6, <2>1, <2>2
  <2>4. CASE i \in Range(list)
    <3>1. new[i] = [e EXCEPT !.st = "processed"]
      BY <2>3, <2>4
    <3>2. new[i].st = "processed" /\ new[i].graph = e.graph
      BY <3>1 DEF Edge
    <3> QED BY <2>2, <2>4, <3>2
  <2>5. CASE i \notin Range(list)
    BY <2>2, <2>3, <2>5
  <2> QED BY <2>4, <2>5
<1>12. ASSUME NEW k \in 1 .. made PROVE new[n + k] = NewEdge(Len(streams) + k)
  <2>1. PICK x : x = n + k
    OBVIOUS
  <2>2. x \in 1 .. n + made /\ ~(x <= n) /\ x - n = k
    BY <1>1, <2>1
  <2>3. new[x] = add[x - n]
    BY <1>9, <2>2
  <2> QED BY <1>7, <2>1, <2>2, <2>3
<1> QED BY <1>10, <1>11, <1>12 DEF n, new, Processed

(* A free edge leads to its own stream.                                    *)
LEMMA FreeLeads ==
    ASSUME NEW f, EdgesOK(f), f.pc \in {"enter", "fn"},
           NEW i \in DOMAIN f.edges, f.edges[i].st = "unassigned"
    PROVE  /\ i \in Open(f) /\ Uses(f, f.edges[i].sid)
           /\ \A s : Leads(f.edges[i], s) <=> s = f.edges[i].sid
<1>1. i \in Open(f) /\ f.edges[i].with = <<f.edges[i].sid>>
  BY DEF EdgesOK, Open
<1>2. PICK x : x = f.edges[i].sid
  OBVIOUS
<1>3. Range(<<x>>) = {x}
  BY DEF Range
<1>4. \A s : Leads(f.edges[i], s) <=> s = f.edges[i].sid
  BY <1>1, <1>2, <1>3 DEF Leads
<1> QED BY <1>1, <1>4 DEF Uses

(* The function goes on with these edges.                                  *)
Runs(g, t, edges) == g.pc = "fn" /\ g.graph = t.graph /\ g.ins = t.ins /\ g.edges = edges

Inside(f) == \A s : Uses(f, s) => s \in 1 .. Len(streams)
NeedsNew(g, t, list, made) ==
    \A s : Uses(g, s) =>
        \/ Uses(t, s) /\ s \notin Range(Sids(t.edges, list))
        \/ \E i \in 1 .. made : s = Len(streams) + i

(* The edges to the outputs of a node lead to new streams.                 *)
LEMMA ProcessHeld ==
    ASSUME NEW t \in Frame, t.pc = "fn", t.graph \in UserGraphs, EdgesOK(t), GraphsOK(t),
           streams \in Seq(Stream), Inside(t),
           NEW list \in EdgeLists(Unassigned(t.edges)), NEW made \in Nat,
           NEW g, Runs(g, t, ProcessEdges(t.edges, list, made))
    PROVE  EdgesOK(g) /\ GraphsOK(g) /\ NeedsNew(g, t, list, made)
<1> DEFINE old == t.edges
           n == Len(old)
<1>1. old \in Seq(Edge) /\ DOMAIN old = 1 .. n /\ n \in Nat /\ Len(streams) \in Nat
  BY FrameTypes, LenProperties
<1>2. PICK new : new = ProcessEdges(old, list, made) /\ g.edges = new
  BY DEF Runs
<1>a. g.pc = "fn" /\ g.graph = t.graph /\ g.ins = t.ins
  BY DEF Runs
<1>3. /\ DOMAIN new = 1 .. n + made
      /\ \A i \in 1 .. n :
            /\ i \in Range(list) => new[i].st = "processed" /\ new[i].graph = old[i].graph
            /\ i \notin Range(list) => new[i] = old[i]
      /\ \A k \in 1 .. made : new[n + k] = NewEdge(Len(streams) + k)
  <2>1. Processed(new, old, list, made)
    BY <1>1, <1>2, ProcessEdgesIs
  <2> QED BY <2>1 DEF Processed
<1>4. \A k \in DOMAIN list : list[k] \in Unassigned(old) /\ list[k] \in Range(list)
  BY ListIs DEF Range
<1>5. \A i \in 1 .. n + made : i \in 1 .. n \/ \E k \in 1 .. made : i = n + k
  <2> SUFFICES ASSUME NEW i \in 1 .. n + made, ~(i \in 1 .. n)
               PROVE  \E k \in 1 .. made : i = n + k
    OBVIOUS
  <2>1. i - n \in 1 .. made /\ i = n + (i - n)
    BY <1>1
  <2> QED BY <2>1
<1>6. \A k \in 1 .. made :
         LET e == NewEdge(Len(streams) + k)
         IN  /\ e.sid = Len(streams) + k /\ e.st = "unassigned" /\ e.graph = "generic"
             /\ e.with = <<Len(streams) + k>> /\ Once(e.with)
             /\ \A s : Leads(e, s) <=> s = Len(streams) + k
  BY NewEdgeIs
<1>7. \A k \in DOMAIN list : /\ list[k] \in Open(t)
                             /\ \A s : Leads(old[list[k]], s) <=> s = old[list[k]].sid
  BY <1>4, FreeLeads DEF Unassigned
<1> HIDE DEF n, old
<1>8. ASSUME NEW i \in Open(g)
      PROVE  \/ i \in 1 .. n /\ i \notin Range(list) /\ i \in Open(t) /\ new[i] = old[i]
             \/ \E k \in 1 .. made : i = n + k /\ new[i] = NewEdge(Len(streams) + k)
  <2>1. i \in 1 .. n + made /\ new[i].st \in {"trigger", "unassigned"}
    BY <1>2, <1>3 DEF Open
  <2>2. CASE i \in 1 .. n
    <3>1. i \notin Range(list) /\ new[i] = old[i]
      BY <1>3, <2>1, <2>2
    <3>2. i \in Open(t)
      BY <1>1, <2>1, <2>2, <3>1 DEF Open, old
    <3> QED BY <2>2, <3>1, <3>2
  <2>3. CASE i \notin 1 .. n
    BY <1>3, <1>5, <2>1, <2>3
  <2> QED BY <2>2, <2>3
<1>9. ASSUME NEW i \in Open(t), NEW s, Leads(old[i], s)
      PROVE  s \in 1 .. Len(streams) /\ Uses(t, s)
  BY <1>9 DEF Inside, Uses, old
<1>10. ASSUME NEW k \in 1 .. made
       PROVE  Len(streams) + k \notin 1 .. Len(streams)
  BY <1>1
<1>11. \A a, b \in Open(t) : \A s : Leads(old[a], s) /\ Leads(old[b], s) => a = b
  BY DEF EdgesOK, old
<1>12. ASSUME NEW i \in Open(g), NEW s, Leads(new[i], s)
       PROVE  \/ /\ i \in Open(t) /\ i \notin Range(list) /\ Leads(old[i], s)
                 /\ s \in 1 .. Len(streams) /\ Uses(t, s)
              \/ \E k \in 1 .. made : i = n + k /\ s = Len(streams) + k
  <2>1. CASE i \in 1 .. n /\ i \notin Range(list) /\ i \in Open(t) /\ new[i] = old[i]
    BY <1>9, <1>12, <2>1
  <2>2. CASE \E k \in 1 .. made : i = n + k /\ new[i] = NewEdge(Len(streams) + k)
    BY <1>6, <1>12, <2>2
  <2> QED BY <1>8, <2>1, <2>2
<1>13. \A s : Uses(g, s) =>
              \/ Uses(t, s) /\ s \notin Range(Sids(old, list))
              \/ \E i \in 1 .. made : s = Len(streams) + i
  <2> SUFFICES ASSUME NEW s, NEW i \in Open(g), Leads(new[i], s)
               PROVE  \/ Uses(t, s) /\ s \notin Range(Sids(old, list))
                      \/ \E k \in 1 .. made : s = Len(streams) + k
    BY <1>2 DEF Uses
  <2>1. CASE i \in Open(t) /\ i \notin Range(list) /\ Leads(old[i], s) /\ Uses(t, s)
    <3>1. s \notin Range(Sids(old, list))
      <4> SUFFICES ASSUME NEW k \in DOMAIN list, s = old[list[k]].sid PROVE FALSE
        BY SidsAre
      <4>1. list[k] = i
        <5>1. list[k] \in Open(t) /\ Leads(old[list[k]], s) /\ i \in Open(t) /\ Leads(old[i], s)
          BY <1>7, <2>1
        <5> QED BY <1>11, <5>1
      <4> QED BY <1>4, <2>1, <4>1
    <3> QED BY <2>1, <3>1
  <2>2. \/ /\ i \in Open(t) /\ i \notin Range(list) /\ Leads(old[i], s)
           /\ s \in 1 .. Len(streams) /\ Uses(t, s)
        \/ \E k \in 1 .. made : i = n + k /\ s = Len(streams) + k
    BY <1>12
  <2> QED BY <2>1, <2>2
<1>14. ASSUME NEW i \in Open(g), NEW j \in Open(g), NEW s, Leads(new[i], s), Leads(new[j], s)
       PROVE  i = j
  <2>1. CASE s \in 1 .. Len(streams)
    <3>1. i \in Open(t) /\ Leads(old[i], s)
      BY <1>10, <1>12, <1>14, <2>1
    <3>2. j \in Open(t) /\ Leads(old[j], s)
      BY <1>10, <1>12, <1>14, <2>1
    <3> QED BY <1>11, <3>1, <3>2
  <2>2. CASE s \notin 1 .. Len(streams)
    <3>1. PICK a \in 1 .. made : i = n + a /\ s = Len(streams) + a
      BY <1>12, <1>14, <2>2
    <3>2. PICK b \in 1 .. made : j = n + b /\ s = Len(streams) + b
      BY <1>12, <1>14, <2>2
    <3>3. a = b
      BY <1>1, <3>1, <3>2
    <3> QED BY <3>1, <3>2, <3>3
  <2> QED BY <2>1, <2>2
<1>15. ASSUME NEW i \in Open(g) PROVE Once(new[i].with)
  <2>1. CASE i \in Open(t) /\ new[i] = old[i]
    BY <2>1 DEF EdgesOK, old
  <2>2. CASE \E k \in 1 .. made : i = n + k /\ new[i] = NewEdge(Len(streams) + k)
    BY <1>6, <2>2
  <2> QED BY <1>8, <2>1, <2>2
<1>16. ASSUME NEW i \in DOMAIN new
       PROVE  /\ new[i].st = "unassigned" => new[i].with = <<new[i].sid>>
              /\ new[i].graph = "segmenter" => "segmenter" \in Destinations
  <2>1. CASE i \in 1 .. n
    <3>1. /\ old[i].st = "unassigned" => old[i].with = <<old[i].sid>>
          /\ old[i].graph = "segmenter" => "segmenter" \in Destinations
      BY <1>1, <2>1 DEF EdgesOK, GraphsOK, old
    <3>2. CASE i \in Range(list)
      BY <1>3, <2>1, <3>1, <3>2
    <3>3. CASE i \notin Range(list)
      BY <1>3, <2>1, <3>1, <3>3
    <3> QED BY <3>2, <3>3
  <2>2. CASE \E k \in 1 .. made : i = n + k
    <3>1. PICK k \in 1 .. made : i = n + k
      BY <2>2
    <3>2. new[i] = NewEdge(Len(streams) + k)
      BY <1>3, <3>1
    <3> QED BY <1>6, <3>2
  <2> QED BY <1>3, <1>5, <2>1, <2>2
<1>17. EdgesOK(g)
  <2>1. Once(g.ins)
    BY <1>a DEF EdgesOK
  <2> QED BY <1>2, <1>a, <1>14, <1>15, <1>16, <2>1 DEF EdgesOK
<1>18. GraphsOK(g)
  <2>1. g.graph \notin Library
    BY <1>a DEF Library, UserGraphs
  <2> QED BY <1>2, <1>16, <2>1 DEF GraphsOK
<1> QED BY <1>13, <1>17, <1>18 DEF NeedsNew, old

(* ZL_Edge_runMultiInputNode(), with all its results.                      *)
LEMMA RunNodeHeld ==
    ASSUME HInv, depth <= UINT_MAX, ZL_Edge_runMultiInputNode
    PROVE  HInv'
<1>1. /\ AtGraph("fn") /\ Top.graph \in UserGraphs
      /\ UNCHANGED <<phase, segmenterDepth, numSegments, inputs>>
  BY DEF ZL_Edge_runMultiInputNode, AtUserFn, segmentVars, sessionVars
<1>2. depth > segmenterDepth
  BY <1>1, FnOver
<1>3. /\ Top \in Frame /\ FrameOK(Top) /\ Top.pc = "fn" /\ EdgesOK(Top) /\ GraphsOK(Top)
      /\ Top.edges \in Seq(Edge) /\ Top.edges # <<>> /\ streams \in Seq(Stream)
      /\ FrameHeld(Top, depth, streams) /\ StackOK(stack, Len(nodes)) /\ stack # <<>>
  BY <1>1, <1>2, TopHolds DEF FrameOK
<1>4. IInv'
  BY RunNodeStep DEF HInv
<1>5. PICK list \in EdgeLists(Unassigned(Top.edges)), shape \in NodeShapes :
        \E made \in 0 .. shape.out1s + shape.vos :
          \/ /\ NodeRuns(Sids(Top.edges, list), shape, made, "ok")
             /\ SetTop([Top EXCEPT !.edges = ProcessEdges(@, list, made)])
          \/ /\ \/ NodeRuns(Sids(Top.edges, list), shape, made, "failed")
                \/ /\ made = 0
                   /\ \E r \in {"noStream", "noNode"} :
                        NodeRuns(Sids(Top.edges, list), shape, made, r)
             /\ Goto("err") \/ UNCHANGED stack
  BY DEF ZL_Edge_runMultiInputNode
<1>6. PICK ins : ins = Sids(Top.edges, list)
  OBVIOUS
<1>7. PICK made \in 0 .. shape.out1s + shape.vos :
          \/ /\ NodeRuns(ins, shape, made, "ok")
             /\ SetTop([Top EXCEPT !.edges = ProcessEdges(@, list, made)])
          \/ /\ \E r \in {"failed", "noStream", "noNode"} : NodeRuns(ins, shape, made, r)
             /\ Goto("err") \/ UNCHANGED stack
  BY <1>5, <1>6
<1>8. shape \in NodeShape /\ made \in Nat
  <2>1. shape \in NodeShape
    BY DEF NodeShape
  <2>2. shape.out1s \in Nat /\ shape.vos \in Nat
    BY <2>1 DEF NodeShape
  <2> QED BY <2>1, <2>2
<1>9. ins \in Seq(Nat)
  <2>1. Unassigned(Top.edges) \in SUBSET DOMAIN Top.edges
    BY DEF Unassigned
  <2> QED BY <1>3, <1>6, <2>1, SidsOK DEF SidList
<1>10. \A s \in Range(ins) : Uses(Top, s) \/ Takes(Top, s)
  <2> SUFFICES ASSUME NEW k \in DOMAIN list PROVE Uses(Top, Top.edges[list[k]].sid)
    BY <1>6, SidsAre
  <2>1. list[k] \in DOMAIN Top.edges /\ Top.edges[list[k]].st = "unassigned"
    BY ListIs DEF Unassigned
  <2> QED BY <1>3, <2>1, FreeLeads
<1>11. \A s : Uses(Top, s) => s \in 1 .. Len(streams)
  BY <1>3 DEF FrameHeld, Sound
<1>a. ASSUME NEW r \in {"ok", "failed", "noStream", "noNode"}, NodeRuns(ins, shape, made, r),
             NEW g, SetTop(g), g \in Frame, Goes(g, Top), EdgesOK(g), GraphsOK(g),
             Fits(g, ins, made, r)
      PROVE  HInv'
  BY <1>1, <1>2, <1>4, <1>8, <1>9, <1>a, NodeHeld
<1>12. ASSUME NodeRuns(ins, shape, made, "ok"),
              SetTop([Top EXCEPT !.edges = ProcessEdges(@, list, made)])
       PROVE  HInv'
  <2>1. PICK es : es = ProcessEdges(Top.edges, list, made)
    OBVIOUS
  <2>2. es \in Seq(Edge)
    BY <1>3, <1>8, <2>1, ProcessEdgesOK
  <2>3. PICK g : g = [Top EXCEPT !.edges = es]
    OBVIOUS
  <2>4. SetTop(g)
    BY <1>3, <1>12, <2>1, <2>3 DEF Frame
  <2>5. /\ g \in Frame /\ g.pc = "fn" /\ g.edges = es /\ g.ins = Top.ins
        /\ g.graph = Top.graph /\ g.mode = Top.mode /\ g.nodesBefore = Top.nodesBefore
        /\ g.segmentable = Top.segmentable
    BY <1>3, <2>2, <2>3 DEF Frame
  <2>6. Goes(g, Top)
    BY <2>5 DEF Goes
  <2>7. /\ EdgesOK(g) /\ GraphsOK(g)
        /\ \A s : Uses(g, s) =>
              \/ Uses(Top, s) /\ s \notin Range(Sids(Top.edges, list))
              \/ \E i \in 1 .. made : s = Len(streams) + i
    <3>0. PICK t : t = Top
      OBVIOUS
    <3>1. Runs(g, t, ProcessEdges(t.edges, list, made))
      BY <2>1, <2>5, <3>0 DEF Runs
    <3>2. /\ t \in Frame /\ t.pc = "fn" /\ t.graph \in UserGraphs /\ EdgesOK(t)
          /\ GraphsOK(t) /\ streams \in Seq(Stream) /\ made \in Nat
          /\ list \in EdgeLists(Unassigned(t.edges)) /\ Inside(t)
      BY <1>1, <1>3, <1>8, <1>11, <3>0 DEF Inside
    <3>3. EdgesOK(g) /\ GraphsOK(g) /\ NeedsNew(g, t, list, made)
      BY <3>1, <3>2, ProcessHeld
    <3> QED BY <3>0, <3>3 DEF NeedsNew
  <2>8. \A s \in Range(ins) : Takes(Top, s) \/ ~ Uses(g, s)
    <3> SUFFICES ASSUME NEW s \in Range(ins), Uses(g, s) PROVE FALSE
      OBVIOUS
    <3>1. s \in 1 .. Len(streams)
      <4> SUFFICES ASSUME NEW k \in DOMAIN list
                   PROVE  Top.edges[list[k]].sid \in 1 .. Len(streams)
        BY <1>6, SidsAre
      <4>1. list[k] \in DOMAIN Top.edges /\ Top.edges[list[k]].st = "unassigned"
        BY ListIs DEF Unassigned
      <4>2. Uses(Top, Top.edges[list[k]].sid)
        BY <1>3, <4>1, FreeLeads
      <4> QED BY <1>11, <4>2
    <3>2. PICK i \in 1 .. made : s = Len(streams) + i
      BY <1>6, <2>7
    <3>3. Len(streams) \in Nat
      BY <1>3, StreamRanks
    <3> QED BY <3>1, <3>2, <3>3
  <2>9. PICK r \in {"ok", "failed", "noStream", "noNode"} : r = "ok"
    OBVIOUS
  <2>10. NodeRuns(ins, shape, made, r) /\ Fits(g, ins, made, r)
    BY <1>10, <1>12, <2>7, <2>8, <2>9 DEF Fits
  <2>11. EdgesOK(g) /\ GraphsOK(g) /\ g \in Frame
    BY <2>5, <2>7
  <2> QED BY <1>a, <2>4, <2>6, <2>10, <2>11
<1>13. ASSUME NEW r \in {"failed", "noStream", "noNode"}, NodeRuns(ins, shape, made, r),
              NEW g, SetTop(g), g \in Frame, Goes(g, Top), EdgesOK(g), GraphsOK(g),
              \A s : Uses(g, s) => Uses(Top, s)
       PROVE  HInv'
  <2>1. r # "ok" /\ r \in {"ok", "failed", "noStream", "noNode"}
    OBVIOUS
  <2>2. NodeRuns(ins, shape, made, r) /\ Fits(g, ins, made, r)
    BY <1>10, <1>13, <2>1 DEF Fits
  <2> QED BY <1>a, <1>13, <2>1, <2>2
<1>14. ASSUME NEW r \in {"failed", "noStream", "noNode"}, NodeRuns(ins, shape, made, r),
              Goto("err")
       PROVE  HInv'
  <2>1. PICK g : g = [Top EXCEPT !.pc = "err"]
    OBVIOUS
  <2>2. Leaves(g, Top) /\ SetTop(g)
    BY <1>14, <2>1 DEF Leaves, Goto
  <2>3. /\ g \in Frame /\ Goes(g, Top) /\ EdgesOK(g) /\ GraphsOK(g) /\ (\A s : ~ Uses(g, s))
    BY <1>3, <2>2, LeaveFrame
  <2> QED BY <1>13, <1>14, <2>2, <2>3
<1>15. ASSUME NEW r \in {"failed", "noStream", "noNode"}, NodeRuns(ins, shape, made, r),
              UNCHANGED stack
       PROVE  HInv'
  <2>1. PICK g : g = Top
    OBVIOUS
  <2>2. SetTop(g)
    <3>1. stack = [stack EXCEPT ![Len(stack)] = stack[Len(stack)]]
      BY <1>3 DEF StackOK
    <3> QED BY <1>15, <2>1, <3>1 DEF SetTop, Top, depth
  <2>3. /\ g \in Frame /\ Goes(g, Top) /\ EdgesOK(g) /\ GraphsOK(g)
        /\ \A s : Uses(g, s) => Uses(Top, s)
    BY <1>3, <2>1 DEF Goes
  <2> QED BY <1>13, <1>15, <2>2, <2>3
<1> QED BY <1>7, <1>12, <1>14, <1>15

(* The library's graph for one stream, down to its codec.                  *)
LEMMA Compress1Held ==
    ASSUME HInv, depth <= UINT_MAX, ZL_GRAPH_COMPRESS1
    PROVE  HInv'
<1>1. /\ AtGraph("fn") /\ Top.graph = "compress1"
      /\ UNCHANGED <<phase, segmenterDepth, numSegments, inputs>>
  BY DEF ZL_GRAPH_COMPRESS1, segmentVars, sessionVars
<1>2. depth > segmenterDepth
  BY <1>1, FnOver
<1>3. /\ Top \in Frame /\ FrameOK(Top) /\ Top.pc = "fn" /\ EdgesOK(Top) /\ GraphsOK(Top)
      /\ Top.edges \in Seq(Edge) /\ Top.edges # <<>> /\ streams \in Seq(Stream)
      /\ Len(streams) \in Nat /\ FrameHeld(Top, depth, streams)
  BY <1>1, <1>2, TopHolds DEF FrameOK
<1>4. IInv'
  BY Compress1Step DEF HInv
<1>5. PICK e : e = Top.edges[1]
  OBVIOUS
<1>6. 1 \in DOMAIN Top.edges /\ e \in Edge
  <2>1. 1 \in 1 .. Len(Top.edges)
    BY <1>3
  <2> QED BY <1>3, <1>5, <2>1, ElementOfSeq, LenProperties
<1>7. Uses(Top, e.sid) /\ e.sid \in Nat
  <2>1. Top.edges[1].st = "unassigned"
    BY <1>1, <1>3, <1>6 DEF EdgesOK, UserGraphs
  <2> QED BY <1>3, <1>5, <1>6, <2>1, FreeLeads, EdgeTypes
<1>8. PICK ins : ins = <<e.sid>>
  OBVIOUS
<1>9. ins \in Seq(Nat) /\ \A s \in Range(ins) : s = e.sid
  <2>1. DOMAIN ins = {1} /\ ins[1] = e.sid
    BY <1>8
  <2> QED BY <1>7, <1>8, <2>1, Singleton DEF Range
<1>10. e.sid \in 1 .. Len(streams)
  BY <1>3, <1>7 DEF FrameHeld, Sound
<1>11. ASSUME SetTop([Top EXCEPT !.edges = AllTo(@, "store1"), !.pc = "succ"]),
              UNCHANGED <<nodes, streams>>
       PROVE  HInv'
  <2>1. PICK to : to = "store1"
    OBVIOUS
  <2>2. PICK g : SentOn(g, Top, to)
    BY DEF SentOn
  <2>3. g = [Top EXCEPT !.edges = AllTo(@, "store1"), !.pc = "succ"]
    BY <1>3, <2>1, <2>2 DEF SentOn, Frame
  <2>4. SetTop(g) /\ to \in Library /\ Top.graph \in Library
    BY <1>1, <1>11, <2>1, <2>3 DEF Library
  <2>5. UNCHANGED <<nodes, streams, phase, segmenterDepth, numSegments, inputs>>
    BY <1>1, <1>11
  <2> QED BY <1>1, <1>4, <2>2, <2>4, <2>5, AllToHeld
<1>12. ASSUME NEW r \in {"failed", "noStream", "noNode"},
              NodeRuns(ins, ConversionShape, 0, r), Goto("err")
       PROVE  HInv'
  <2>1. PICK g : g = [Top EXCEPT !.pc = "err"]
    OBVIOUS
  <2>2. Leaves(g, Top) /\ SetTop(g)
    BY <1>12, <2>1 DEF Leaves, Goto
  <2>3. /\ g \in Frame /\ Goes(g, Top) /\ EdgesOK(g) /\ GraphsOK(g) /\ (\A s : ~ Uses(g, s))
    BY <1>3, <2>2, LeaveFrame
  <2>4. r # "ok" /\ r \in {"ok", "failed", "noStream", "noNode"}
    OBVIOUS
  <2>5. PICK made \in Nat : made = 0
    OBVIOUS
  <2>6. /\ Fits(g, ins, made, r) /\ NodeRuns(ins, ConversionShape, made, r)
        /\ ConversionShape \in NodeShape
    BY <1>7, <1>9, <1>12, <2>3, <2>4, <2>5, ConversionType DEF Fits
  <2> QED BY <1>1, <1>2, <1>4, <1>9, <2>2, <2>3, <2>4, <2>6, NodeHeld
<1>13. ASSUME NodeRuns(ins, ConversionShape, 1, "ok"), NEW es,
              es = <<[e EXCEPT !.st = "processed"]>>
                     \o AllTo(<<NewEdge(Len(streams) + 1)>>, "store1"),
              SetTop([Top EXCEPT !.edges = es, !.pc = "succ"])
       PROVE  HInv'
  <2>1. PICK a, b, n : /\ a = [e EXCEPT !.st = "processed"] /\ n = NewEdge(Len(streams) + 1)
                       /\ b = AllTo(<<n>>, "store1")
    OBVIOUS
  <2>2. a \in Edge /\ a.st = "processed" /\ a.graph = e.graph
    BY <1>6, <2>1 DEF Edge, EdgeState
  <2>3. /\ n \in Edge /\ n.sid = Len(streams) + 1 /\ n.with = <<Len(streams) + 1>>
        /\ Once(n.with) /\ \A s : Leads(n, s) <=> s = Len(streams) + 1
    BY <1>3, <2>1, NewEdgeIs, NewEdgeOK
  <2>4. /\ <<n>> \in Seq(Edge) /\ <<n>> # <<>> /\ DOMAIN <<n>> = {1} /\ <<n>>[1] = n
    BY <2>3, Singleton
  <2>5. /\ b \in Seq(Edge) /\ DOMAIN b = {1} /\ b[1].st = "trigger" /\ b[1].graph = "store1"
        /\ b[1].with = n.with
    <3>1. "store1" \in Graphs
      BY DEF Graphs
    <3>2. PICK es1 : es1 = <<n>>
      OBVIOUS
    <3>3. es1 \in Seq(Edge) /\ DOMAIN es1 = {1} /\ es1[1] = n /\ 1 \in DOMAIN es1
      BY <2>4, <3>2
    <3>4. b = AllTo(es1, "store1")
      BY <2>1, <3>2
    <3>5. b \in Seq(Edge)
      BY <3>1, <3>3, <3>4, AllToOK
    <3>6. /\ DOMAIN b = DOMAIN es1
          /\ \A i \in DOMAIN es1 : /\ b[i].st = "trigger" /\ b[i].graph = "store1"
                                   /\ b[i].with = es1[i].with
      BY <3>1, <3>3, <3>4, AllToIs
    <3> QED BY <3>3, <3>5, <3>6
  <2>6. /\ es \in Seq(Edge) /\ DOMAIN es = {1, 2} /\ es[1] = a /\ es[2] = b[1]
    <3>1. <<a>> \in Seq(Edge) /\ Len(<<a>>) = 1 /\ <<a>>[1] = a
      BY <2>2, Singleton
    <3>2. Len(b) = 1
      <4>1. PICK k : k = Len(b)
        OBVIOUS
      <4>2. k \in Nat /\ DOMAIN b = 1 .. k
        BY <2>5, <4>1, LenProperties
      <4>3. 1 \in 1 .. k
        BY <2>5, <4>2
      <4>4. ~ (k >= 2)
        <5> SUFFICES ASSUME k >= 2 PROVE FALSE
          OBVIOUS
        <5>1. 2 \in 1 .. k
          BY <4>2
        <5> QED BY <2>5, <4>2, <5>1
      <4> QED BY <4>1, <4>2, <4>3, <4>4
    <3>3. es = <<a>> \o b
      BY <1>13, <2>1
    <3>4. /\ <<a>> \o b \in Seq(Edge) /\ Len(<<a>> \o b) = Len(<<a>>) + Len(b)
          /\ \A i \in 1 .. Len(<<a>>) + Len(b) :
                (<<a>> \o b)[i] = IF i <= Len(<<a>>) THEN <<a>>[i] ELSE b[i - Len(<<a>>)]
      BY <2>5, <3>1, ConcatProperties
    <3>5. es \in Seq(Edge) /\ Len(es) = 2 /\ es[1] = a /\ es[2] = b[1]
      BY <3>1, <3>2, <3>3, <3>4
    <3> QED BY <3>5, LenProperties
  <2>7. PICK g : g = [Top EXCEPT !.edges = es, !.pc = "succ"]
    OBVIOUS
  <2>8. SetTop(g)
    BY <1>13, <2>7
  <2>9. /\ g \in Frame /\ g.pc = "succ" /\ g.edges = es /\ g.ins = Top.ins
        /\ g.graph = Top.graph /\ g.mode = Top.mode /\ g.nodesBefore = Top.nodesBefore
        /\ g.segmentable = Top.segmentable
    BY <1>3, <2>6, <2>7 DEF Frame, PC
  <2>10. Goes(g, Top)
    BY <2>9 DEF Goes
  <2>11. /\ Open(g) \subseteq {2} /\ Once(es[2].with)
         /\ \A s : Leads(es[2], s) <=> s = Len(streams) + 1
    <3>1. Open(g) \subseteq {2}
      BY <2>2, <2>6, <2>9 DEF Open
    <3> QED BY <2>3, <2>5, <2>6, <3>1 DEF Leads
  <2>12. \A s : Uses(g, s) => s = Len(streams) + 1
    BY <2>9, <2>11 DEF Uses
  <2>13. EdgesOK(g)
    <3>1. Once(g.ins)
      BY <1>3, <2>9 DEF EdgesOK
    <3>2. \A i \in DOMAIN g.edges : g.edges[i].st # "unassigned"
      BY <2>2, <2>5, <2>6, <2>9
    <3>3. \A i \in Open(g) : i = 2 /\ Once(g.edges[i].with)
      BY <2>9, <2>11
    <3> QED BY <2>9, <3>1, <3>2, <3>3 DEF EdgesOK
  <2>14. GraphsOK(g)
    <3>1. e.graph \in Library
      BY <1>1, <1>3, <1>5, <1>6 DEF GraphsOK, Library
    <3> QED BY <2>2, <2>5, <2>6, <2>9, <3>1 DEF GraphsOK, Library
  <2>15. PICK r, made : r = "ok" /\ made = 1
    OBVIOUS
  <2>16. /\ r \in {"ok", "failed", "noStream", "noNode"} /\ made \in Nat
         /\ NodeRuns(ins, ConversionShape, made, r) /\ ConversionShape \in NodeShape
    BY <1>13, <2>15, ConversionType
  <2>17. Fits(g, ins, made, r)
    <3>1. ~ Uses(g, e.sid)
      BY <1>3, <1>10, <2>12
    <3>2. \E i \in 1 .. made : i = 1
      BY <2>15
    <3> QED BY <1>7, <1>9, <2>12, <2>15, <3>1, <3>2 DEF Fits
  <2> HIDE <1>13
  <2> QED BY <1>1, <1>2, <1>4, <1>9, <2>8, <2>9, <2>10, <2>13, <2>14, <2>16, <2>17, NodeHeld
<1>14. \/ /\ SetTop([Top EXCEPT !.edges = AllTo(@, "store1"), !.pc = "succ"])
          /\ UNCHANGED <<nodes, streams>>
       \/ /\ NodeRuns(ins, ConversionShape, 1, "ok")
          /\ SetTop([Top EXCEPT
                       !.edges = <<[e EXCEPT !.st = "processed"]>>
                         \o AllTo(<<NewEdge(Len(streams) + 1)>>, "store1"),
                       !.pc = "succ"])
       \/ /\ \E r \in {"failed", "noStream", "noNode"} :
                NodeRuns(ins, ConversionShape, 0, r)
          /\ Goto("err")
  BY <1>5, <1>8 DEF ZL_GRAPH_COMPRESS1
<1> QED BY <1>11, <1>12, <1>13, <1>14

(* CCTX_runSuccessors() is at the end.                                     *)
LEMMA SuccessorsDoneHeld ==
    ASSUME HInv, SuccessorsDone
    PROVE  HInv'
<1>1. /\ AtGraph("succ") /\ Goto("ok")
      /\ UNCHANGED <<nodes, streams, phase, segmenterDepth, numSegments, inputs>>
  BY DEF SuccessorsDone, graphVars, segmentVars, sessionVars
<1>2. PICK g : g = [Top EXCEPT !.pc = "ok"]
  OBVIOUS
<1>3. Leaves(g, Top) /\ SetTop(g)
  BY <1>1, <1>2 DEF Leaves, Goto
<1>4. IInv'
  BY SuccessorsDoneStep DEF HInv
<1> QED BY <1>1, <1>3, <1>4, LeaveStepHeld

(* The segmenter is told that its chunk failed.                            *)
LEMMA ChunkFailedHeld ==
    ASSUME HInv, ChunkFailed
    PROVE  HInv'
<1>1. /\ AtGraph("chunkErr")
      /\ UNCHANGED <<nodes, streams, phase, segmenterDepth, numSegments, inputs>>
  BY DEF ChunkFailed, graphVars, segmentVars, sessionVars
<1>2. PICK label \in {"err", "seg"} : Goto(label)
  BY DEF ChunkFailed
<1>3. PICK g : g = [Top EXCEPT !.pc = label]
  OBVIOUS
<1>4. Leaves(g, Top) /\ SetTop(g)
  BY <1>2, <1>3 DEF Leaves, Goto
<1>5. IInv'
  BY ChunkFailedStep DEF HInv
<1> QED BY <1>1, <1>4, <1>5, LeaveStepHeld

(* The segmenter function returns.                                         *)
LEMMA SegmenterReturnsHeld ==
    ASSUME HInv, SegmenterReturns
    PROVE  HInv'
<1>1. /\ AtGraph("seg")
      /\ UNCHANGED <<nodes, streams, phase, segmenterDepth, numSegments, inputs>>
  BY DEF SegmenterReturns, graphVars, segmentVars, sessionVars
<1>2. PICK label \in {"err", "ok"} : Goto(label)
  BY DEF SegmenterReturns
<1>3. PICK g : g = [Top EXCEPT !.pc = label]
  OBVIOUS
<1>4. Leaves(g, Top) /\ SetTop(g)
  BY <1>2, <1>3 DEF Leaves, Goto
<1>5. IInv'
  BY SegmenterReturnsStep DEF HInv
<1> QED BY <1>1, <1>4, <1>5, LeaveStepHeld

(* A segmenter needs the only stream: nothing else is left to do.          *)
LEMMA QuietUnder ==
    ASSUME NEW st, NEW nds, NEW strs, GraphOK(nds, strs), StackOK(st, Len(nds)),
           Held(st, nds, strs, 0), NEW ins \in SidList, NEW graph, graph \notin Library,
           CallOK(st, strs, graph, ins, 0), Len(nds) = 0, Len(strs) = 1,
           MaxInputs = 1, RoutesOK(st)
    PROVE  \A d \in 1 .. Len(st) : Quiet(st[d])
<1> SUFFICES ASSUME NEW d \in 1 .. Len(st) PROVE Quiet(st[d])
  OBVIOUS
<1>1. /\ Len(st) \in Nat /\ st[d] \in Frame /\ st[d].edges \in Seq(Edge)
      /\ st[d].nodesBefore \in Nat /\ st[d].nodesBefore <= 0
  <2>1. Len(st) \in Nat /\ st[d] \in Frame
    BY StackTypes
  <2> QED BY <2>1, FrameTypes DEF StackOK
<1>2. st[d].segmentable
  BY <1>1 DEF RoutesOK
<1>3. st[d].mode # "backup"
  BY DEF CallOK
<1>4. st[d].pc \notin {"enter", "fn"}
  <2>1. CASE d = Len(st)
    <3>1. st # <<>>
      BY <1>1, EmptySeq
    <3> QED BY <2>1, <3>1 DEF CallOK
  <2>2. CASE d # Len(st)
    BY <2>2 DEF Held, CallsOK
  <2> QED BY <2>1, <2>2
<1>5. 1 \in Range(ins)
  <2>1. 1 \in DOMAIN ins
    <3>1. ins \in Seq(Nat) /\ ins # <<>>
      BY DEF SidList
    <3> QED BY <3>1
  <2>2. ins[1] \in Range(ins)
    BY <2>1 DEF Range
  <2>3. ins[1] \in 1 .. 1
    BY <2>2 DEF CallOK, Sound
  <2> QED BY <2>2, <2>3
<1>6. d > 0
  BY <1>1
<1>7. ~ Uses(st[d], 1)
  BY <1>5, <1>6 DEF CallOK
<1>8. Open(st[d]) = {}
  <2> SUFFICES ASSUME NEW i \in Open(st[d]) PROVE FALSE
    OBVIOUS
  <2>1. i \in DOMAIN st[d].edges
    BY DEF Open
  <2>2. st[d].edges[i] \in Edge
    BY <1>1, <2>1, LenProperties, ElementOfSeq
  <2>3. PICK w : w = st[d].edges[i].with
    OBVIOUS
  <2>4. w \in Seq(Nat) /\ w # <<>>
    BY <2>2, <2>3 DEF Edge, SidList
  <2>5. 1 \in DOMAIN w
    BY <2>4
  <2>6. Uses(st[d], w[1])
    BY <2>3, <2>5 DEF Uses, Leads, Range
  <2>7. w[1] \in 1 .. Len(strs)
    BY <1>6, <2>6, NeedsInside
  <2> QED BY <1>7, <2>6, <2>7
<1> QED BY <1>2, <1>3, <1>4, <1>8 DEF Quiet

(* A call was made from a state of the invariant.                          *)
LEMMA CallHeld ==
    ASSUME IInv', HInv, Held(stack', nodes', streams', segmenterDepth'),
           segmenterDepth' = 0 => RunFlow(stack, nodes, streams)',
           phase' # "start", UNCHANGED <<numSegments, inputs>>
    PROVE  HInv'
<1>1. Len(inputs) <= MaxInputs
  BY DEF HInv, Flow
<1>2. Flow'
  BY <1>1 DEF Flow, RunFlow
<1> QED BY <1>2 DEF HInv

(* A segmenter may be reached from a user graph only where a session has   *)
(* one input.                                                              *)
PlainRoutes == MaxInputs = 1 \/ "segmenter" \notin Destinations

(* CCTX_runSuccessors() calls one level deeper.                            *)
LEMMA RunNextSuccessorHeld ==
    ASSUME HInv, PlainRoutes, RunNextSuccessor
    PROVE  HInv'
<1>1. AtGraph("succ") /\ UNCHANGED <<numSegments, inputs>> /\ phase = "run"
  BY DEF RunNextSuccessor, sessionVars, AtGraph
<1>2. /\ IInv /\ stack # <<>> /\ depth \in Nat /\ depth >= 1 /\ depth \in 1 .. Len(stack)
      /\ segmenterDepth \in Nat
      /\ Top \in Frame /\ FrameOK(Top) /\ Top.pc = "succ" /\ EdgesOK(Top) /\ GraphsOK(Top)
      /\ Top.edges \in Seq(Edge) /\ Len(nodes) \in Nat /\ Len(streams) \in Nat
      /\ streams \in Seq(Stream) /\ GraphOK(nodes, streams)
      /\ StackOK(stack, Len(nodes)) /\ Held(stack, nodes, streams, segmenterDepth)
      /\ depth <= segmenterDepth => Quiet(Top)
      /\ depth > segmenterDepth => FrameHeld(Top, depth, streams)
  BY <1>1, TopHolds
<1>3. PICK i \in Pending(Top) :
         CCTX_runSuccessor([stack EXCEPT ![depth].next = i + 1], nodes, streams,
                           Top.edges[i].graph, Top.edges[i].with)
  BY DEF RunNextSuccessor
<1>4. i \in DOMAIN Top.edges /\ i \in 1 .. Len(Top.edges) /\ i \in Nat /\ i \in Open(Top)
      /\ i + 1 \in Nat \ {0}
  <2>1. i \in DOMAIN Top.edges /\ i \in Open(Top)
    BY <1>2 DEF Pending, Open
  <2> QED BY <1>2, <2>1, LenProperties
<1>5. depth > segmenterDepth /\ FrameHeld(Top, depth, streams)
  BY <1>2, <1>4 DEF Quiet
<1>6. PICK graph, ins : graph = Top.edges[i].graph /\ ins = Top.edges[i].with
  OBVIOUS
<1>7. graph \in Graphs /\ ins \in SidList
  BY <1>2, <1>4, <1>6, ElementOfSeq, EdgeTypes
<1>8. PICK f : f = [Top EXCEPT !.next = i + 1]
  OBVIOUS
<1>9. PICK callers : callers = [stack EXCEPT ![Len(stack)] = f]
  OBVIOUS
<1>10. callers = [stack EXCEPT ![depth].next = i + 1]
  BY <1>8, <1>9 DEF Top, depth
<1>11. CCTX_runSuccessor(callers, nodes, streams, graph, ins)
  BY <1>3, <1>6, <1>10
<1>12. SameFrame(f, Top)
  BY <1>2, <1>4, <1>8, NextFrame
<1>13. /\ f \in Frame /\ f.pc = "succ" /\ f.edges = Top.edges /\ f.ins = Top.ins
       /\ f.graph = Top.graph /\ f.mode = Top.mode /\ f.nodesBefore = Top.nodesBefore
       /\ f.segmentable = Top.segmentable /\ f.next = i + 1
  BY <1>2, <1>4, <1>8 DEF Frame
<1>14. Goes(f, Top)
  BY <1>13 DEF Goes
<1>15. Open(f) \subseteq Open(Top) /\ i \notin Open(f)
  <2>1. Top.next \in Nat /\ Top.next <= i
    BY <1>2 DEF Frame, Pending
  <2>2. \A j \in Open(f) : j \in DOMAIN Top.edges /\ j \in Nat /\ j >= i + 1
    BY <1>2, <1>13, LenProperties DEF Open
  <2>3. \A j \in Open(f) : j >= Top.next /\ j # i
    BY <1>4, <2>1, <2>2
  <2> QED BY <1>2, <1>13, <2>3 DEF Open
<1>16. EdgesOK(f) /\ \A s : Uses(f, s) => Uses(Top, s)
  BY <1>2, <1>13, <1>15, SubEdges
<1>17. GraphsOK(f)
  BY <1>2, <1>13 DEF GraphsOK
<1>18. StackOK(callers, Len(nodes))
  <2>1. /\ f \in Frame /\ FrameOK(f) /\ f.nodesBefore <= Len(nodes)
        /\ f.nodesBefore = stack[Len(stack)].nodesBefore
    BY <1>1, <1>2, <1>12, <1>13, TopOK DEF SameFrame, Top, depth
  <2> QED BY <1>2, <1>9, <2>1, SetTopOK
<1>19. Held(callers, nodes, streams, segmenterDepth)
  <2>1. \A s : Uses(f, s) => s \in 1 .. Len(streams)
    BY <1>5, <1>16 DEF FrameHeld, Sound
  <2>2. /\ StreamsStep(Top, f, depth, streams, streams)
        /\ NodesStep(nodes, nodes, streams, streams)
    BY <1>2, <1>16, <2>1, NothingNew
  <2>3. /\ Goes(f, stack[Len(stack)]) /\ (Len(stack) <= segmenterDepth => Quiet(f))
        /\ StreamsStep(stack[Len(stack)], f, Len(stack), streams, streams)
    BY <1>2, <1>5, <1>14, <2>2 DEF Top, depth
  <2>4. Held([stack EXCEPT ![Len(stack)] = f], nodes, streams, segmenterDepth)
    BY <1>2, <1>13, <1>16, <1>17, <2>2, <2>3, TopHeld, Zenon
  <2> QED BY <1>9, <2>4
<1>20. /\ Len(callers) = depth
       /\ \A j \in 1 .. depth : callers[j] = IF j = depth THEN f ELSE stack[j]
  <2>1. stack \in Seq(Frame) /\ Len(stack) \in 1 .. Len(stack)
    BY <1>2 DEF StackOK, depth
  <2> QED BY <1>9, <1>13, <2>1, ExceptSeq DEF depth
<1>21. CallOK(callers, streams, graph, ins, segmenterDepth)
  <2>1. segmenterDepth <= Len(callers)
    BY <1>2, <1>5, <1>20
  <2>2. segmenterDepth # 0 => callers[segmenterDepth].graph = "segmenter"
    <3> SUFFICES ASSUME segmenterDepth # 0 PROVE callers[segmenterDepth].graph = "segmenter"
      OBVIOUS
    <3>1. segmenterDepth \in 1 .. depth /\ segmenterDepth # depth
      BY <1>2, <1>5
    <3>2. stack[segmenterDepth].graph = "segmenter"
      BY <1>2, <1>5 DEF Held, UnderOK
    <3> QED BY <1>20, <3>1, <3>2
  <2>3. callers[Len(callers)] = f
    BY <1>2, <1>20
  <2>4. Once(ins)
    BY <1>2, <1>4, <1>6 DEF EdgesOK
  <2>5. ASSUME NEW c \in 1 .. Len(callers), callers[c].mode = "backup"
        PROVE  graph \in Library
    <3>1. stack[c].mode = "backup" /\ c \in 1 .. Len(stack) /\ c <= depth
      BY <1>13, <1>20, <2>5 DEF depth, Top
    <3>2. Top.graph \in Library
      BY <1>2, <3>1 DEF Held, LibraryOK, Top, depth
    <3> QED BY <1>2, <1>4, <1>6, <3>2 DEF GraphsOK
  <2>6. ASSUME NEW s \in Range(ins)
        PROVE  /\ Uses(Top, s) /\ Sound(streams, s, Len(callers))
               /\ \A c \in 1 .. Len(callers) : c > segmenterDepth => ~ Uses(callers[c], s)
    <3>1. Leads(Top.edges[i], s)
      BY <1>6, <2>6 DEF Leads
    <3>2. Uses(Top, s)
      BY <1>4, <3>1 DEF Uses
    <3>3. Sound(streams, s, Len(callers))
      BY <1>5, <1>20, <3>2 DEF FrameHeld
    <3>4. ~ Uses(f, s)
      <4>1. ASSUME NEW j \in Open(f), Leads(f.edges[j], s) PROVE FALSE
        <5>1. j \in Open(Top) /\ j # i /\ Leads(Top.edges[j], s)
          BY <1>13, <1>15, <4>1
        <5> QED BY <1>2, <1>4, <3>1, <5>1 DEF EdgesOK
      <4> QED BY <4>1 DEF Uses
    <3>5. ASSUME NEW c \in 1 .. Len(callers), c > segmenterDepth
          PROVE  ~ Uses(callers[c], s)
      <4>1. CASE c = depth
        BY <1>20, <3>4, <4>1
      <4>2. CASE c # depth
        <5>1. c \in 1 .. Len(stack) /\ c < depth /\ callers[c] = stack[c]
          BY <1>2, <1>20, <4>2 DEF depth
        <5> QED BY <1>2, <3>2, <3>5, <5>1 DEF Held, ApartOK, Top, depth
      <4> QED BY <4>1, <4>2
    <3> QED BY <3>2, <3>3, <3>5
  <2> QED BY <1>13, <2>1, <2>2, <2>3, <2>4, <2>5, <2>6 DEF CallOK
<1>22. /\ inputs \in Seq(Kind) /\ inputs # <<>> /\ Len(inputs) <= MaxInputs
  BY <1>1, <1>2 DEF HInv, Flow, IInv, RestOK
<1>23. ASSUME segmenterDepth = 0 PROVE RunFlow(callers, nodes, streams)
  <2>1. numSegments = 0 /\ Origin(nodes, streams, Len(inputs)) /\ RoutesOK(stack)
    BY <1>1, <1>23 DEF HInv, Flow
  <2>2. \A j \in 1 .. depth : /\ callers[j].nodesBefore = stack[j].nodesBefore
                              /\ callers[j].segmentable = stack[j].segmentable
    BY <1>13, <1>20 DEF Top
  <2>3. RoutesOK(callers)
    BY <1>20, <2>1, <2>2 DEF RoutesOK, depth
  <2> QED BY <2>1, <2>3 DEF RunFlow
<1>24. ASSUME graph = "segmenter", IsSegmentable(nodes, ins)
       PROVE  \A d \in 1 .. Len(callers) : Quiet(callers[d])
  <2>1. segmenterDepth = 0 /\ Len(nodes) = 0
    BY <1>24 DEF IsSegmentable
  <2>2. MaxInputs = 1
    BY <1>2, <1>4, <1>6, <1>24 DEF GraphsOK, PlainRoutes
  <2>3. Len(streams) = 1
    <3>1. PICK k : k = Len(inputs)
      OBVIOUS
    <3>2. k \in Nat /\ k # 0 /\ k <= 1
      BY <1>22, <2>2, <3>1, LenProperties, EmptySeq
    <3>3. k = 1
      BY <3>2
    <3>4. nodes = <<>>
      BY <1>2, <2>1, GraphTypes, EmptySeq
    <3> QED BY <1>23, <2>1, <3>1, <3>3, <3>4 DEF RunFlow, Origin
  <2>4. RoutesOK(callers)
    BY <1>23, <2>1 DEF RunFlow
  <2>5. Held(callers, nodes, streams, 0) /\ CallOK(callers, streams, graph, ins, 0)
    BY <1>19, <1>21, <2>1
  <2>6. graph \notin Library
    BY <1>24 DEF Library
  <2> QED BY <1>2, <1>7, <1>18, <2>1, <2>2, <2>3, <2>4, <2>5, <2>6, QuietUnder
<1>25. /\ Held(stack', nodes', streams', segmenterDepth')
       /\ segmenterDepth' = 0 => RunFlow(stack, nodes, streams)'
       /\ phase' # "start"
  BY <1>1, <1>2, <1>7, <1>11, <1>18, <1>19, <1>21, <1>22, <1>23, <1>24, RunSuccessorHeld
<1>26. IInv'
  BY <1>2, RunNextSuccessorStep
<1> QED BY <1>1, <1>25, <1>26, CallHeld

(* RTGM_clearNodesFrom() leaves the streams of the inputs.                 *)
LEMMA OriginRevert ==
    ASSUME NEW nds, NEW strs, GraphOK(nds, strs), NEW b \in Nat, b <= Len(nds),
           NEW k \in Nat, Origin(nds, strs, k)
    PROVE  Origin(NodesUpTo(nds, b), StreamsBeforeNode(nds, strs, b), k)
<1>1. /\ nds \in Seq(Node) /\ Len(nds) \in Nat /\ strs \in Seq(Stream) /\ Len(strs) \in Nat
      /\ (nds = <<>> <=> Len(nds) = 0)
  BY GraphTypes, EmptySeq
<1>2. PICK nds2, strs2 : nds2 = NodesUpTo(nds, b) /\ strs2 = StreamsBeforeNode(nds, strs, b)
  OBVIOUS
<1>3. /\ nds2 \in Seq(Node) /\ Len(nds2) = b /\ (\A m \in 1 .. b : nds2[m] = nds[m])
      /\ (nds2 = <<>> <=> b = 0)
  <2>1. b \in 0 .. Len(nds)
    BY <1>1
  <2>2. nds2 \in Seq(Node) /\ Len(nds2) = b /\ (\A m \in 1 .. b : nds2[m] = nds[m])
    BY <1>1, <1>2, <2>1, Prefix DEF NodesUpTo
  <2> QED BY <2>2, EmptySeq
<1>4. CASE b = 0 /\ Len(nds) = 0
  BY <1>1, <1>2, <1>3, <1>4 DEF StreamsBeforeNode, Origin
<1>5. CASE b = 0 /\ Len(nds) # 0
  <2>1. nds[1].start = k + 1 /\ 1 \in 1 .. Len(nds)
    BY <1>1, <1>5 DEF Origin
  <2>2. k \in 0 .. Len(strs)
    BY <1>1, <2>1 DEF GraphOK
  <2>3. strs2 = SubSeq(strs, 1, k)
    BY <1>2, <1>5, <2>1 DEF StreamsBeforeNode
  <2>4. Len(strs2) = k
    BY <1>1, <2>2, <2>3, Prefix
  <2> QED BY <1>2, <1>3, <1>5, <2>4 DEF Origin
<1>6. CASE b # 0
  <2>1. 1 \in 1 .. b /\ nds # <<>>
    BY <1>1, <1>6
  <2> QED BY <1>2, <1>3, <1>6, <2>1 DEF Origin
<1> QED BY <1>4, <1>5, <1>6

(* The fallback: the graph is cut, the frame starts again.                 *)
LEMMA TriggerBackupHeld ==
    ASSUME HInv, CCTX_triggerBackupMode
    PROVE  HInv'
<1>1. /\ AtGraph("err") /\ MayFallBack(Top, depth) /\ phase = "run"
      /\ UNCHANGED <<phase, segmenterDepth, numSegments, inputs>>
  BY DEF CCTX_triggerBackupMode, AtGraph, segmentVars, sessionVars
<1>2. /\ IInv /\ stack # <<>> /\ depth \in Nat /\ depth >= 1 /\ depth \in 1 .. Len(stack)
      /\ segmenterDepth \in Nat /\ Top \in Frame /\ FrameOK(Top) /\ EdgesOK(Top)
      /\ Len(nodes) \in Nat /\ GraphOK(nodes, streams)
      /\ StackOK(stack, Len(nodes)) /\ Held(stack, nodes, streams, segmenterDepth)
  BY <1>1, TopHolds
<1>3. depth > segmenterDepth
  BY <1>1, <1>2 DEF MayFallBack
<1>4. PICK g : g = [Top EXCEPT !.graph = "generic", !.mode = "backup", !.pc = "enter",
                               !.edges = <<>>, !.next = 1, !.status = FALSE]
  OBVIOUS
<1>5. /\ g \in Frame /\ g.ins = Top.ins /\ g.edges = <<>> /\ g.graph = "generic"
      /\ g.nodesBefore = Top.nodesBefore /\ g.segmentable = Top.segmentable
  <2>1. <<>> \in Seq(Edge) /\ 1 \in Nat \ {0}
    BY EmptySeq
  <2> QED BY <1>2, <1>4, <2>1 DEF Frame, PC, Graphs, Mode
<1>6. SetTop(g)
  BY <1>4 DEF CCTX_triggerBackupMode
<1>7. Top.nodesBefore \in Nat /\ Top.nodesBefore <= Len(nodes)
  BY <1>1, <1>2, TopOK
<1>8. stack' = [stack EXCEPT ![Len(stack)] = g]
  BY <1>6 DEF SetTop, depth
<1>9. /\ nodes' = NodesUpTo(nodes, g.nodesBefore)
      /\ streams' = StreamsBeforeNode(nodes, streams, g.nodesBefore)
  BY <1>5 DEF CCTX_triggerBackupMode
<1>10. Held(stack', nodes', streams', segmenterDepth)
  <2>1. /\ Len(stack) > segmenterDepth /\ g.ins = stack[Len(stack)].ins
        /\ g.nodesBefore = stack[Len(stack)].nodesBefore
        /\ stack[Len(stack)].nodesBefore <= Len(nodes)
    BY <1>3, <1>5, <1>7 DEF Top, depth
  <2>2. Held([stack EXCEPT ![Len(stack)] = g], NodesUpTo(nodes, g.nodesBefore),
             StreamsBeforeNode(nodes, streams, g.nodesBefore), segmenterDepth)
    BY <1>2, <1>5, <2>1, RevertHeld
  <2> QED BY <1>8, <1>9, <2>2
<1>11. ASSUME segmenterDepth = 0
       PROVE  /\ numSegments = 0 /\ Origin(nodes', streams', Len(inputs)) /\ RoutesOK(stack')
  <2>1. /\ numSegments = 0 /\ Origin(nodes, streams, Len(inputs)) /\ RoutesOK(stack)
        /\ Len(inputs) \in Nat
    BY <1>1, <1>2, <1>11, LenProperties DEF HInv, Flow, IInv, RestOK
  <2>2. Origin(nodes', streams', Len(inputs))
    BY <1>2, <1>5, <1>7, <1>9, <2>1, OriginRevert
  <2>3. stack \in Seq(Frame) /\ Len(stack) \in 1 .. Len(stack)
    BY <1>2 DEF StackOK, depth
  <2>4. /\ Len(stack') = Len(stack)
        /\ \A j \in 1 .. Len(stack) : stack'[j] = IF j = Len(stack) THEN g ELSE stack[j]
    BY <1>5, <1>8, <2>3, ExceptSeq
  <2>5. \A j \in 1 .. Len(stack) : /\ stack'[j].nodesBefore = stack[j].nodesBefore
                                   /\ stack'[j].segmentable = stack[j].segmentable
    BY <1>5, <2>4 DEF Top, depth
  <2>6. RoutesOK(stack')
    BY <2>1, <2>4, <2>5 DEF RoutesOK
  <2> QED BY <2>1, <2>2, <2>6
<1>12. Flow'
  <2>1. Len(inputs) <= MaxInputs
    BY DEF HInv, Flow
  <2> QED BY <1>1, <1>11, <2>1 DEF Flow
<1>13. IInv'
  BY <1>2, TriggerBackupStep
<1> QED BY <1>1, <1>10, <1>12, <1>13 DEF HInv

(* CCTX_runSuccessor() returns to its caller.                              *)
LEMMA ReturnsHeld ==
    ASSUME HInv, CCTX_runSuccessorReturns
    PROVE  HInv'
<1>1. PICK label \in {"ok", "err"} : AtGraph(label)
  BY DEF CCTX_runSuccessorReturns
<1>2. /\ IInv /\ stack # <<>> /\ depth \in Nat /\ depth >= 1 /\ segmenterDepth \in Nat
      /\ Top.pc \in {"ok", "err"} /\ streams \in Seq(Stream)
      /\ Len(nodes) \in Nat /\ GraphOK(nodes, streams)
      /\ StackOK(stack, Len(nodes)) /\ Held(stack, nodes, streams, segmenterDepth)
  BY <1>1, TopHolds
<1>3. /\ ReturnTo(Callers, Top.pc) /\ phase = "run"
      /\ \/ streams' = streams
         \/ streams' = RTGM_clearRTStream(streams, Top.ins, depth)
      /\ UNCHANGED <<nodes, segmenterDepth, numSegments, inputs>>
  BY <1>1 DEF CCTX_runSuccessorReturns, AtGraph, segmentVars, sessionVars
<1>4. IInv'
  BY <1>2, ReturnStep
<1>5. PICK callers, nds, strs, r : /\ callers = Callers /\ nds = nodes /\ strs = streams'
                                   /\ r = Top.pc
  OBVIOUS
<1>6. Held(callers, nds, strs, segmenterDepth)
  <2>1. \/ strs = streams
        \/ strs = RTGM_clearRTStream(streams, stack[Len(stack)].ins, Len(stack))
    BY <1>3, <1>5 DEF Top, depth
  <2>2. Held(SubSeq(stack, 1, Len(stack) - 1), nodes, strs, segmenterDepth)
    BY <1>2, <2>1, PopHeld
  <2> QED BY <1>5, <2>2 DEF Callers, depth
<1>7. StackOK(callers, Len(nds))
  BY <1>2, <1>5, PopOK DEF Callers, depth
<1>8. GraphOK(nds, strs)
  <2>1. GraphOK(nodes', streams')
    BY <1>4 DEF IInv
  <2> QED BY <1>3, <1>5, <2>1
<1>9. /\ Held(stack', nds, strs, segmenterDepth)
      /\ RoutesOK(callers) => RoutesOK(stack')
      /\ phase' # "start"
  <2>1. ReturnTo(callers, r) /\ r \in {"ok", "err"}
    BY <1>2, <1>3, <1>5
  <2> QED BY <1>2, <1>6, <1>7, <1>8, <2>1, ReturnHeld
<1>10. Held(stack', nodes', streams', segmenterDepth')
  BY <1>3, <1>5, <1>9
<1>11. ASSUME segmenterDepth' = 0 PROVE RunFlow(stack, nodes, streams)'
  <2>1. numSegments = 0 /\ Origin(nodes, streams, Len(inputs)) /\ RoutesOK(stack)
    BY <1>3, <1>11 DEF HInv, Flow
  <2>2. Len(streams') = Len(streams)
    <3>1. CASE streams' = streams
      BY <3>1
    <3>2. CASE streams' = RTGM_clearRTStream(streams, Top.ins, depth)
      BY <1>2, <3>2, StreamUpdates
    <3> QED BY <1>3, <3>1, <3>2
  <2>3. Origin(nodes', streams', Len(inputs))
    BY <1>3, <2>1, <2>2 DEF Origin
  <2>4. /\ Len(callers) = Len(stack) - 1
        /\ \A d \in 1 .. (Len(stack) - 1) : callers[d] = stack[d]
    BY <1>2, <1>5, PopOK DEF Callers, depth
  <2>5. \A d \in 1 .. (Len(stack) - 1) : d \in 1 .. Len(stack)
    BY <1>2 DEF depth
  <2>6. RoutesOK(callers)
    BY <2>1, <2>4, <2>5 DEF RoutesOK
  <2>7. numSegments' = 0 /\ inputs' = inputs /\ RoutesOK(stack')
    BY <1>3, <1>9, <2>1, <2>6
  <2> QED BY <2>3, <2>7 DEF RunFlow
<1> QED BY <1>3, <1>4, <1>9, <1>10, <1>11, CallHeld

(* The segmenter whose chunk is flushed is on top of the stack.            *)
LEMMA FlushHeld ==
    ASSUME HInv, phase \in {"flush", "graph", "store"}
    PROVE  /\ IInv /\ Len(nodes) \in Nat /\ StackOK(stack, Len(nodes)) /\ segmenterDepth \in Nat
           /\ Held(stack, nodes, streams, segmenterDepth)
           /\ GraphOK(nodes, streams) /\ depth \in Nat /\ (stack = <<>> <=> depth = 0)
           /\ depth # 0 => depth = segmenterDepth
           /\ \A nds2, strs2 : Held(stack, nds2, strs2, segmenterDepth)
<1>1. /\ IInv /\ Len(nodes) \in Nat /\ StackOK(stack, Len(nodes)) /\ segmenterDepth \in Nat
      /\ Held(stack, nodes, streams, segmenterDepth) /\ PhaseOK(phase, stack)
      /\ GraphOK(nodes, streams)
  BY GraphTypes DEF HInv, IInv, RestOK
<1>2. Len(stack) \in Nat /\ (stack = <<>> <=> Len(stack) = 0)
  BY <1>1, StackTypes
<1>3. ASSUME Len(stack) # 0 PROVE Len(stack) = segmenterDepth
  <2>1. Len(stack) \in 1 .. Len(stack) /\ stack[Len(stack)].graph = "segmenter"
    BY <1>1, <1>2, <1>3 DEF PhaseOK
  <2> QED BY <1>1, <2>1 DEF Held, UnderOK
<1>4. Len(stack) <= segmenterDepth
  BY <1>1, <1>2, <1>3
<1>5. \A nds2, strs2 : Held(stack, nds2, strs2, segmenterDepth)
  BY <1>1, <1>4, IdleHeld
<1> QED BY <1>1, <1>2, <1>3, <1>5 DEF depth

(* CCTX_flushChunk() returns to the segmenter or to the session.           *)
LEMMA FlushReturnsHeld ==
    ASSUME HInv, IInv', phase \in {"flush", "graph", "store"},
           NEW r \in {"ok", "err"}, FlushReturns(r), UNCHANGED <<segmenterDepth, inputs>>
    PROVE  HInv'
<1>1. /\ Len(nodes) \in Nat /\ StackOK(stack, Len(nodes)) /\ segmenterDepth \in Nat
      /\ Held(stack, nodes, streams, segmenterDepth)
      /\ GraphOK(nodes, streams) /\ depth \in Nat /\ (stack = <<>> <=> depth = 0)
      /\ depth # 0 => depth = segmenterDepth
  BY FlushHeld
<1>2. Len(inputs) <= MaxInputs
  BY DEF HInv, Flow
<1>3. CASE depth = 0
  <2>1. phase' = r /\ UNCHANGED <<stack, nodes, streams>>
    BY <1>3 DEF FlushReturns, graphVars
  <2>2. Flow'
    BY <1>2, <2>1 DEF Flow
  <2>3. Held(stack', nodes', streams', segmenterDepth')
    BY <1>1, <2>1
  <2> QED BY <2>2, <2>3 DEF HInv
<1>4. CASE depth # 0
  <2>1. PICK label : label = IF r = "ok" THEN "seg" ELSE "chunkErr"
    OBVIOUS
  <2>2. PICK g : g = [Top EXCEPT !.pc = label]
    OBVIOUS
  <2>3. SetTop(g) /\ phase' = "run"
    BY <1>4, <2>1, <2>2 DEF FlushReturns, Goto
  <2>4. Leaves(g, stack[Len(stack)])
    BY <2>1, <2>2 DEF Leaves, Top, depth
  <2>5. stack # <<>> /\ stack' = [stack EXCEPT ![Len(stack)] = g]
    BY <1>1, <1>4, <2>3 DEF SetTop, depth
  <2>6. Held([stack EXCEPT ![Len(stack)] = g], nodes, streams, segmenterDepth)
    BY <1>1, <2>4, <2>5, LeaveHeld
  <2>7. PICK st, nds2, strs2, k : /\ st = stack' /\ nds2 = nodes' /\ strs2 = streams'
                                  /\ k = Len(nodes')
    OBVIOUS
  <2>8. StackOK(st, k) /\ k \in Nat
    BY <2>7, GraphTypes DEF IInv
  <2>9. Held(st, nodes, streams, segmenterDepth)
    BY <2>5, <2>6, <2>7
  <2>10. Len(st) <= segmenterDepth
    <3>1. stack \in Seq(Frame)
      BY <1>1 DEF StackOK
    <3>2. Len([stack EXCEPT ![Len(stack)] = g]) = Len(stack)
      BY <3>1
    <3> QED BY <1>1, <1>4, <2>5, <2>7, <3>2 DEF depth
  <2>11. Held(st, nds2, strs2, segmenterDepth)
    BY <1>1, <2>8, <2>9, <2>10, IdleHeld
  <2>12. Held(stack', nodes', streams', segmenterDepth')
    BY <2>7, <2>11
  <2>13. Flow'
    <3>1. segmenterDepth' # 0 /\ phase' # "start" /\ inputs' = inputs
      BY <1>1, <1>4, <2>3
    <3> QED BY <1>2, <3>1 DEF Flow
  <2> QED BY <2>12, <2>13 DEF HInv
<1> QED BY <1>3, <1>4

(* CCTX_flushChunk() collects the graph, or fails.                         *)
LEMMA GetFinalGraphHeld ==
    ASSUME HInv, GetFinalGraph
    PROVE  HInv'
<1>1. phase = "flush" /\ UNCHANGED <<segmenterDepth, inputs>>
  BY DEF GetFinalGraph, sessionVars
<1>2. IInv'
  BY GetFinalGraphStep DEF HInv
<1>3. CASE FinalGraphAllowed(nodes, streams)
  <2>1. phase' = "graph" /\ UNCHANGED <<nodes, streams, stack>>
    BY <1>3 DEF GetFinalGraph
  <2>2. Flow'
    BY <1>1, <2>1 DEF HInv, Flow
  <2>3. Held(stack', nodes', streams', segmenterDepth')
    BY <1>1, <2>1 DEF HInv
  <2> QED BY <1>2, <2>2, <2>3 DEF HInv
<1>4. CASE FlushReturns("err")
  BY <1>1, <1>2, <1>4, FlushReturnsHeld
<1> QED BY <1>3, <1>4 DEF GetFinalGraph

(* CCTX_flushChunk() replaces the graph by STORE.                          *)
LEMMA ReplaceWithStoreHeld ==
    ASSUME HInv, CCTX_replaceChunkWithStore
    PROVE  HInv'
<1>1. phase = "graph" /\ UNCHANGED <<segmenterDepth, inputs>>
  BY DEF CCTX_replaceChunkWithStore, sessionVars
<1>2. IInv'
  BY ReplaceWithStoreStep DEF HInv
<1>3. CASE phase' = "store" /\ UNCHANGED stack
  <2>1. Flow'
    BY <1>1, <1>3 DEF HInv, Flow
  <2>2. \A nds2, strs2 : Held(stack, nds2, strs2, segmenterDepth)
    BY <1>1, FlushHeld
  <2>3. Held(stack', nodes', streams', segmenterDepth')
    BY <1>1, <1>3, <2>2
  <2> QED BY <1>2, <2>1, <2>3 DEF HInv
<1>4. CASE FlushReturns("err")
  BY <1>1, <1>2, <1>4, FlushReturnsHeld
<1> QED BY <1>3, <1>4 DEF CCTX_replaceChunkWithStore

(* CCTX_flushChunk() returns.                                              *)
LEMMA WriteChunkHeld ==
    ASSUME HInv, WriteChunk
    PROVE  HInv'
<1>1. phase \in {"flush", "graph", "store"} /\ UNCHANGED <<segmenterDepth, inputs>>
  BY DEF WriteChunk, sessionVars
<1>2. PICK r \in {"ok", "err"} : FlushReturns(r)
  BY DEF WriteChunk
<1>3. IInv'
  BY WriteChunkStep DEF HInv
<1> QED BY <1>1, <1>2, <1>3, FlushReturnsHeld

(* The streams of the inputs are alive, and nothing protects them.         *)
LEMMA RefInputsAre ==
    ASSUME NEW kinds \in Seq(Kind), NEW strs, strs = RTGM_refInputs(kinds)
    PROVE  /\ strs \in Seq(Stream) /\ Len(strs) = Len(kinds)
           /\ \A s \in 1 .. Len(strs) : strs[s].live /\ strs[s].rank = 0
<1>1. DOMAIN kinds = 1 .. Len(kinds) /\ Len(kinds) \in Nat
  BY LenProperties
<1>2. strs \in Seq(Stream)
  BY RefInputsOK, GraphTypes
<1>3. DOMAIN strs = 1 .. Len(kinds)
  BY <1>1 DEF RTGM_refInputs
<1>4. Len(strs) = Len(kinds)
  <2>1. Len(strs) \in Nat /\ DOMAIN strs = 1 .. Len(strs)
    BY <1>2, LenProperties
  <2> QED BY <1>1, <1>3, <2>1
<1>5. \A s \in 1 .. Len(kinds) : strs[s] = NewStream(kinds[s])
  BY <1>1 DEF RTGM_refInputs
<1>6. \A k : NewStream(k).live /\ NewStream(k).rank = 0
  BY DEF NewStream
<1>7. \A s \in 1 .. Len(kinds) : strs[s].live /\ strs[s].rank = 0
  BY <1>5, <1>6
<1> QED BY <1>2, <1>4, <1>7

(* The list of all the inputs.                                             *)
LEMMA AllInputsOnce ==
    ASSUME inputs \in Seq(Kind), NEW ins, ins = [n \in DOMAIN inputs |-> n]
    PROVE  Once(ins) /\ \A s \in Range(ins) : s \in 1 .. Len(inputs)
<1>1. DOMAIN inputs = 1 .. Len(inputs)
  BY LenProperties
<1>2. DOMAIN ins = 1 .. Len(inputs) /\ \A n \in 1 .. Len(inputs) : ins[n] = n
  BY <1>1
<1> QED BY <1>2 DEF Once, Range

(* ZL_Segmenter_processChunk() starts a graph on new streams.              *)
LEMMA ProcessChunkHeld ==
    ASSUME HInv, ZL_Segmenter_processChunk
    PROVE  HInv'
<1>1. AtGraph("seg") /\ UNCHANGED <<numSegments, inputs>>
  BY DEF ZL_Segmenter_processChunk, sessionVars
<1>2. /\ IInv /\ stack # <<>> /\ depth \in Nat /\ depth >= 1 /\ depth \in 1 .. Len(stack)
      /\ segmenterDepth \in Nat /\ Top \in Frame /\ FrameOK(Top) /\ Top.pc = "seg"
      /\ Len(nodes) \in Nat /\ GraphOK(nodes, streams)
      /\ StackOK(stack, Len(nodes)) /\ Held(stack, nodes, streams, segmenterDepth)
  BY <1>1, TopHolds
<1>3. Top.graph = "segmenter"
  BY <1>2 DEF FrameOK
<1>4. depth = segmenterDepth
  BY <1>2, <1>3 DEF Held, UnderOK, Top, depth
<1>5. inputs \in Seq(Kind) /\ inputs # <<>> /\ Len(inputs) <= MaxInputs
  BY <1>1, <1>2 DEF HInv, Flow, IInv, RestOK, AtGraph
<1>6. PICK kinds \in ChunkKinds, graph \in StartGraphs :
         CCTX_runSuccessor([stack EXCEPT ![depth].pc = "chunk"], <<>>,
                           RTGM_refInputs(kinds), graph, [n \in DOMAIN inputs |-> n])
  BY DEF ZL_Segmenter_processChunk
<1>7. kinds \in Seq(Kind) /\ Len(kinds) = Len(inputs)
  <2>1. kinds \in [1 .. Len(inputs) -> Kind] /\ Len(inputs) \in Nat
    BY <1>5, LenProperties DEF ChunkKinds
  <2> QED BY <2>1, FcnSeq
<1>8. PICK ins, nds, strs : /\ ins = [n \in DOMAIN inputs |-> n] /\ nds = <<>>
                            /\ strs = RTGM_refInputs(kinds)
  OBVIOUS
<1>9. ins \in SidList /\ Once(ins) /\ \A s \in Range(ins) : s \in 1 .. Len(inputs)
  BY <1>5, <1>8, AllInputs, AllInputsOnce
<1>10. /\ GraphOK(nds, strs) /\ Len(nds) = 0 /\ Len(strs) = Len(inputs)
       /\ \A s \in 1 .. Len(strs) : strs[s].live /\ strs[s].rank = 0
  BY <1>7, <1>8, RefInputsOK, RefInputsAre, EmptyGraphOK
<1>11. PICK f : f = [Top EXCEPT !.pc = "chunk"]
  OBVIOUS
<1>12. PICK callers : callers = [stack EXCEPT ![Len(stack)] = f]
  OBVIOUS
<1>13. callers = [stack EXCEPT ![depth].pc = "chunk"]
  BY <1>11, <1>12 DEF Top, depth
<1>14. CCTX_runSuccessor(callers, nds, strs, graph, ins)
  BY <1>6, <1>8, <1>13
<1>15. f \in Frame /\ f.pc = "chunk" /\ f.graph = "segmenter"
  BY <1>2, <1>3, <1>11 DEF Frame, PC
<1>16. /\ Len(callers) = depth
       /\ \A j \in 1 .. depth : callers[j] = IF j = depth THEN f ELSE stack[j]
  <2>1. stack \in Seq(Frame) /\ Len(stack) \in 1 .. Len(stack)
    BY <1>2 DEF StackOK, depth
  <2> QED BY <1>12, <1>15, <2>1, ExceptSeq DEF depth
<1>17. SameFrame(f, Top) /\ Top.nodesBefore = 0
  BY <1>2, <1>3, <1>11, SegmenterFrame DEF FrameOK
<1>18. StackOK(callers, Len(nds))
  <2>1. /\ f \in Frame /\ FrameOK(f) /\ f.nodesBefore <= 0 /\ 0 \in Nat
        /\ f.nodesBefore = stack[Len(stack)].nodesBefore
    BY <1>17 DEF SameFrame, Top, depth
  <2>2. StackOK(callers, 0)
    BY <1>2, <1>12, <2>1, SetTopOK
  <2> QED BY <1>10, <2>2
<1>19. Held(callers, nds, strs, segmenterDepth)
  <2>1. Leaves(f, stack[Len(stack)])
    BY <1>11 DEF Leaves, Top, depth
  <2>2. Held([stack EXCEPT ![Len(stack)] = f], nodes, streams, segmenterDepth)
    BY <1>2, <2>1, LeaveHeld
  <2>3. Held(callers, nodes, streams, segmenterDepth)
    BY <1>12, <2>2
  <2>4. Len(callers) <= segmenterDepth /\ Len(nds) \in Nat
    BY <1>2, <1>4, <1>10, <1>16
  <2> QED BY <1>2, <1>18, <2>3, <2>4, IdleHeld
<1>20. CallOK(callers, strs, graph, ins, segmenterDepth)
  <2>1. /\ segmenterDepth <= Len(callers) /\ callers[segmenterDepth] = f
        /\ callers[Len(callers)] = f
    BY <1>2, <1>4, <1>16
  <2>2. \A c \in 1 .. Len(callers) : callers[c].mode # "backup" /\ ~(c > segmenterDepth)
    <3>1. \A c \in 1 .. Len(callers) : c <= segmenterDepth /\ ~(c > segmenterDepth)
      BY <1>2, <1>4, <1>16
    <3> QED BY <1>19, <3>1 DEF Held, UnderOK, Quiet
  <2>3. \A s \in Range(ins) : Sound(strs, s, Len(callers))
    BY <1>2, <1>9, <1>10, <1>16 DEF Sound
  <2> QED BY <1>9, <1>15, <2>1, <2>2, <2>3 DEF CallOK
<1>21. segmenterDepth # 0 /\ ~ IsSegmentable(nds, ins)
  BY <1>2, <1>4 DEF IsSegmentable
<1>22. graph \in Graphs
  BY DEF Graphs
<1>23. /\ Held(stack', nodes', streams', segmenterDepth')
       /\ segmenterDepth' = 0 => RunFlow(stack, nodes, streams)'
       /\ phase' # "start"
  BY <1>1, <1>2, <1>5, <1>9, <1>10, <1>14, <1>18, <1>19, <1>20, <1>21, <1>22, RunSuccessorHeld
<1>24. IInv'
  BY <1>2, ProcessChunkStep
<1> QED BY <1>1, <1>23, <1>24, CallHeld

(* Without a stack nothing is held.                                        *)
LEMMA EmptyHeld ==
    ASSUME NEW nds, NEW strs, NEW sd
    PROVE  Held(<<>>, nds, strs, sd)
<1>1. 1 .. Len(<<>>) = {}
  BY EmptySeq
<1> QED BY <1>1 DEF Held, HeldOK, ApartOK, BeforeOK, LibraryOK, UnderOK, CallsOK

(* A session starts on a context that is clean.                            *)
LEMMA StartCompressionHeld ==
    ASSUME HInv, CCTX_startCompression
    PROVE  HInv'
<1>1. IInv'
  BY StartCompressionStep DEF HInv
<1>2. /\ phase = "idle" /\ phase' = "start" /\ UNCHANGED <<nodes, stack>>
      /\ streams' = RTGM_refInputs(inputs') /\ numSegments' = 0 /\ segmenterDepth' = 0
  BY DEF CCTX_startCompression
<1>3. nodes = <<>> /\ stack = <<>>
  BY <1>2 DEF HInv, IInv, RestOK, PhaseOK
<1>4. Held(stack', nodes', streams', segmenterDepth')
  BY <1>2, <1>3, EmptyHeld
<1>5. Len(inputs') <= MaxInputs
  <2>1. PICK n \in 1 .. MaxInputs : inputs' \in [1 .. n -> InputKinds]
    BY DEF CCTX_startCompression
  <2>2. n \in Nat /\ inputs' \in [1 .. n -> Kind]
    BY <2>1
  <2>3. Len(inputs') = n
    BY <2>2, FcnSeq
  <2> QED BY <2>3
<1>6. StartOK'
  <2>1. PICK kinds, strs : kinds = inputs' /\ strs = streams'
    OBVIOUS
  <2>2. kinds \in Seq(Kind)
    BY <1>1, <2>1 DEF IInv, RestOK
  <2>3. /\ Len(strs) = Len(kinds)
        /\ \A s \in 1 .. Len(strs) : strs[s].live /\ strs[s].rank = 0
    BY <1>2, <2>1, <2>2, RefInputsAre
  <2> QED BY <1>2, <1>3, <2>1, <2>3 DEF StartOK
<1>7. Flow'
  BY <1>2, <1>5, <1>6 DEF Flow
<1> QED BY <1>1, <1>4, <1>7 DEF HInv

(* CCTX_startCompression() runs the starting graph.                        *)
LEMMA RunStartingGraphHeld ==
    ASSUME HInv, RunStartingGraph
    PROVE  HInv'
<1>1. /\ phase = "start" /\ UNCHANGED <<numSegments, inputs>>
      /\ IInv /\ GraphOK(nodes, streams) /\ Len(nodes) \in Nat /\ segmenterDepth \in Nat
      /\ inputs \in Seq(Kind) /\ inputs # <<>> /\ Len(inputs) <= MaxInputs /\ StartOK
  BY GraphTypes DEF RunStartingGraph, sessionVars, HInv, IInv, RestOK, Flow
<1>2. PICK graph \in StartGraphs :
         CCTX_runSuccessor(<<>>, nodes, streams, graph, [n \in DOMAIN inputs |-> n])
  BY DEF RunStartingGraph
<1>3. PICK ins, callers : ins = [n \in DOMAIN inputs |-> n] /\ callers = <<>>
  OBVIOUS
<1>4. ins \in SidList /\ Once(ins) /\ \A s \in Range(ins) : s \in 1 .. Len(inputs)
  BY <1>1, <1>3, AllInputs, AllInputsOnce
<1>5. CCTX_runSuccessor(callers, nodes, streams, graph, ins)
  BY <1>2, <1>3
<1>6. /\ Len(callers) = 0 /\ (\A d \in 1 .. Len(callers) : FALSE)
      /\ StackOK(callers, Len(nodes)) /\ Held(callers, nodes, streams, segmenterDepth)
  BY <1>1, <1>3, EmptySeq, EmptyStackOK, EmptyHeld
<1>7. segmenterDepth = 0 /\ nodes = <<>> /\ numSegments = 0 /\ Len(streams) = Len(inputs)
  BY <1>1 DEF StartOK
<1>8. CallOK(callers, streams, graph, ins, segmenterDepth)
  <2>1. \A s \in Range(ins) : Sound(streams, s, Len(callers))
    BY <1>1, <1>4, <1>6, <1>7 DEF StartOK, Sound
  <2> QED BY <1>3, <1>4, <1>6, <1>7, <2>1 DEF CallOK
<1>9. RunFlow(callers, nodes, streams)
  BY <1>6, <1>7 DEF RunFlow, Origin, RoutesOK
<1>10. graph \in Graphs
  BY DEF Graphs
<1>11. /\ Held(stack', nodes', streams', segmenterDepth')
       /\ segmenterDepth' = 0 => RunFlow(stack, nodes, streams)'
       /\ phase' # "start"
  BY <1>1, <1>4, <1>5, <1>6, <1>8, <1>9, <1>10, RunSuccessorHeld
<1>12. IInv'
  BY <1>1, RunStartingGraphStep
<1> QED BY <1>1, <1>11, <1>12, CallHeld

(* CCTX_clean() at the end of a session.                                   *)
LEMMA CleanHeld ==
    ASSUME HInv, CCTX_clean
    PROVE  HInv'
<1>1. IInv'
  BY CleanStep DEF HInv
<1>2. stack' = <<>> /\ phase' = "idle" /\ UNCHANGED inputs
  BY DEF CCTX_clean, HInv, IInv, PhaseOK
<1>3. Held(stack', nodes', streams', segmenterDepth')
  BY <1>2, EmptyHeld
<1>4. Flow'
  BY <1>2 DEF HInv, Flow
<1> QED BY <1>1, <1>3, <1>4 DEF HInv

(* A new context holds nothing.                                            *)
LEMMA InitHeld == Init => HInv
<1> SUFFICES ASSUME Init PROVE HInv
  OBVIOUS
<1>1. IInv
  BY InitOK
<1>2. Held(stack, nodes, streams, segmenterDepth)
  BY EmptyHeld DEF Init
<1>3. Flow
  BY EmptySeq DEF Init, Flow
<1> QED BY <1>1, <1>2, <1>3 DEF HInv

(* Every step preserves the invariant: one lemma per action.               *)
LEMMA NextHeld ==
    ASSUME PlainRoutes
    PROVE  HInv /\ depth <= UINT_MAX /\ [Next]_vars => HInv'
<1> SUFFICES ASSUME HInv, depth <= UINT_MAX, [Next]_vars PROVE HInv'
  OBVIOUS
<1>1. CASE UNCHANGED vars
  <2>1. IInv'
    BY <1>1, NextOK DEF HInv
  <2>2. /\ UNCHANGED <<stack, nodes, streams, segmenterDepth, phase, inputs, numSegments>>
    BY <1>1 DEF vars
  <2>3. Held(stack', nodes', streams', segmenterDepth')
    BY <2>2 DEF HInv
  <2>4. Flow'
    <3>1. Flow
      BY DEF HInv
    <3> QED BY <2>2, <3>1 DEF Flow, StartOK
  <2> QED BY <2>1, <2>3, <2>4 DEF HInv
<1>2. CASE Rest
  BY <1>1, <1>2 DEF Rest
<1> QED
  BY <1>1, <1>2, StartCompressionHeld, RunStartingGraphHeld, KeepInputHeld,
     ConvertInputHeld, StartGraphHeld, RunNodeHeld, SetDestinationHeld,
     SetDestinationTwiceHeld, UserGraphReturnsHeld, RedirectHeld,
     Compress1Held, RunNextSuccessorHeld, SuccessorsDoneHeld,
     TriggerBackupHeld, ReturnsHeld, GetFinalGraphHeld, ReplaceWithStoreHeld,
     WriteChunkHeld, ProcessChunkHeld, ChunkFailedHeld, SegmenterReturnsHeld,
     CleanHeld DEF Next

(* The frames that still use the runtime graph are over the segmenter.     *)
LEMMA ActiveHeld ==
    ASSUME HInv, NEW d \in ActiveDepths
    PROVE  /\ d \in 1 .. Len(stack) /\ FrameHeld(stack[d], d, streams) /\ EdgesOK(stack[d])
           /\ stack[d].edges \in Seq(Edge) /\ DOMAIN streams = 1 .. Len(streams)
<1>1. /\ StackOK(stack, Len(nodes)) /\ Held(stack, nodes, streams, segmenterDepth)
      /\ Len(nodes) \in Nat /\ streams \in Seq(Stream) /\ segmenterDepth \in Nat
  BY GraphTypes DEF HInv, IInv, RestOK
<1>2. DOMAIN stack = 1 .. Len(stack) /\ Len(stack) \in Nat
  BY <1>1, StackTypes
<1>3. d \in 1 .. Len(stack)
  BY <1>2 DEF ActiveDepths
<1>4. d > segmenterDepth
  <2>1. d <= segmenterDepth => Quiet(stack[d])
    BY <1>1, <1>3 DEF Held, UnderOK
  <2>2. \/ d > segmenterDepth \/ stack[d].mode = "backup" \/ ~ stack[d].segmentable
    BY DEF ActiveDepths
  <2> QED BY <1>1, <1>2, <1>3, <2>1, <2>2 DEF Quiet
<1>5. FrameHeld(stack[d], d, streams) /\ EdgesOK(stack[d])
  BY <1>1, <1>3, <1>4 DEF Held, HeldOK
<1>6. stack[d].edges \in Seq(Edge)
  BY <1>1, <1>3, StackTypes, FrameTypes
<1> QED BY <1>1, <1>3, <1>5, <1>6, LenProperties

(* The invariant holds in every reachable state.                           *)
THEOREM HeldInductive ==
    ASSUME PlainRoutes
    PROVE  Spec /\ [](depth <= UINT_MAX) => []HInv
<1>1. Init => HInv
  BY InitHeld
<1>2. HInv /\ depth <= UINT_MAX /\ [Next]_vars => HInv'
  BY NextHeld
<1> QED BY <1>1, <1>2, PTL DEF Spec

(* What the invariant says of the inputs of graphs.                        *)
LEMMA HeldInputs == HInv => InputsHeld
<1> SUFFICES ASSUME HInv, NEW d \in ActiveDepths, NEW s \in Range(stack[d].ins)
             PROVE  Alive(s)
  BY DEF InputsHeld
<1>1. FrameHeld(stack[d], d, streams) /\ DOMAIN streams = 1 .. Len(streams)
  BY ActiveHeld
<1>2. Sound(streams, s, d)
  BY <1>1 DEF FrameHeld, Takes
<1> QED BY <1>1, <1>2 DEF Sound, Alive

(* And of edges.                                                           *)
LEMMA HeldEdges == HInv => EdgesHeld
<1> SUFFICES ASSUME HInv, NEW d \in ActiveDepths
             PROVE  /\ stack[d].pc = "fn" =>
                          \A i \in Unassigned(stack[d].edges) : Alive(stack[d].edges[i].sid)
                    /\ stack[d].pc = "succ" =>
                          \A i \in Pending(stack[d]) :
                             \A s \in Range(stack[d].edges[i].with) : Alive(s)
  BY DEF EdgesHeld
<1>1. /\ FrameHeld(stack[d], d, streams) /\ EdgesOK(stack[d])
      /\ DOMAIN streams = 1 .. Len(streams) /\ stack[d].edges \in Seq(Edge)
  BY ActiveHeld
<1>2. \A s : Uses(stack[d], s) => Alive(s)
  BY <1>1 DEF FrameHeld, Sound, Alive
<1>3. ASSUME stack[d].pc = "fn", NEW i \in Unassigned(stack[d].edges)
      PROVE  Uses(stack[d], stack[d].edges[i].sid)
  <2>1. i \in DOMAIN stack[d].edges /\ stack[d].edges[i].st = "unassigned"
    BY DEF Unassigned
  <2>2. i \in Open(stack[d])
    BY <1>3, <2>1 DEF Open
  <2>3. stack[d].edges[i].with = <<stack[d].edges[i].sid>>
    BY <1>1, <2>1 DEF EdgesOK
  <2>4. Leads(stack[d].edges[i], stack[d].edges[i].sid)
    <3>1. PICK w, x : w = stack[d].edges[i].with /\ x = stack[d].edges[i].sid
      OBVIOUS
    <3>2. 1 \in DOMAIN w /\ w[1] = x
      BY <2>3, <3>1
    <3> QED BY <3>1, <3>2 DEF Leads, Range
  <2> QED BY <2>2, <2>4 DEF Uses
<1>4. ASSUME stack[d].pc = "succ", NEW i \in Pending(stack[d]),
             NEW s \in Range(stack[d].edges[i].with)
      PROVE  Uses(stack[d], s)
  <2>1. i \in Open(stack[d])
    BY <1>4 DEF Pending, Open
  <2> QED BY <2>1 DEF Uses, Leads
<1> QED BY <1>2, <1>3, <1>4

(* The inputs of a graph stay alive until CCTX_runSuccessor() returns, as  *)
(* long as the depth fits the C type that ranks are kept in.               *)
THEOREM InputsStayAlive ==
    ASSUME PlainRoutes
    PROVE  Spec /\ [](depth <= UINT_MAX) => []InputsHeld
BY HeldInputs, HeldInductive, PTL

(* An edge that can still be used leads to a live stream.                  *)
THEOREM EdgesLeadToLiveStreams ==
    ASSUME PlainRoutes
    PROVE  Spec /\ [](depth <= UINT_MAX) => []EdgesHeld
BY HeldEdges, HeldInductive, PTL

-----------------------------------------------------------------------------
(* The depth of the recursion.                                             *)
(*                                                                         *)
(* The limit is suspended while inBackupMode is set, so the invariant says *)
(* when it is: while a fallback is on the stack, over which only graphs of *)
(* the library run, or on the way out after a fallback failed.             *)

(* The graphs of the library that can be under a graph of the library.     *)
Height(graph) ==
    CASE graph = "generic" -> 3 [] graph = "compress1" -> 2 [] graph = "store1" -> 1
      [] OTHER -> 0

(* The library's graphs lead to graphs of the library, and their           *)
(* successors do not lead back to them.                                    *)
LibEdges(f) ==
    f.graph \in Library =>
        /\ \A i \in DOMAIN f.edges : f.edges[i].graph \in Library
        /\ f.pc = "succ" =>
              \A i \in Pending(f) : Height(f.edges[i].graph) < Height(f.graph)

(* A fallback is on the stack.                                             *)
FallbackIn(st) == \E d \in 1 .. Len(st) : st[d].mode = "backup"

(* Where the session is on its way out.                                    *)
FailLabels == {"err", "chunkErr"}

(* b is the flag cctx->inBackupMode.                                       *)
FlagOK(ph, st, b) ==
    /\ ph \in {"idle", "start", "flush", "graph", "store", "ok"} => ~ b
    /\ ph = "run" /\ b => FallbackIn(st) \/ st[Len(st)].pc \in FailLabels

(* How deep a stack is: under the limit, but for the library's graphs over *)
(* a fallback.                                                             *)
DepthsOK(st) ==
    \A d \in 1 .. Len(st) :
        /\ (\A c \in 1 .. d : st[c].mode # "backup") => d < MaxGraphDepth
        /\ st[d].graph \in Library => d + Height(st[d].graph) <= MaxGraphDepth + 2

(* The stack, whatever the session.                                        *)
LibStack(st) == LibraryOK(st) /\ \A d \in 1 .. Len(st) : LibEdges(st[d])

(* Where the flag is reliable: in the first session of a context, and in   *)
(* contexts that are not permissive.                                       *)
Trusted == sessions = 0 \/ TRUE \notin PermissiveModes

(* The invariant.                                                          *)
DInv ==
    /\ IInv /\ LibStack(stack)
    /\ Trusted => FlagOK(phase, stack, inBackupMode) /\ DepthsOK(stack)

(* The top of the stack is replaced by a frame of the same graph.          *)
OnTop(new, st, g) == new = [st EXCEPT ![Len(st)] = g]
SameGraph(g, t) == g.graph = t.graph /\ g.mode = t.mode /\ LibEdges(g)

(* The heights.                                                            *)
LEMMA Heights ==
    /\ \A graph : Height(graph) \in 0 .. 3
    /\ Height("generic") = 3 /\ Height("compress1") = 2 /\ Height("store1") = 1
    /\ Height("serialStore") = 0
BY DEF Height

(* The top frame goes on: same graph, same mode.                           *)
LEMMA TopLib ==
    ASSUME NEW st \in Seq(Frame), st # <<>>, NEW g \in Frame,
           SameGraph(g, st[Len(st)]), LibStack(st), NEW new, OnTop(new, st, g)
    PROVE  /\ LibStack(new) /\ (DepthsOK(st) => DepthsOK(new))
           /\ FallbackIn(st) => FallbackIn(new)
           /\ Len(new) = Len(st) /\ new[Len(new)] = g
<1>1. Len(st) \in Nat /\ Len(st) \in 1 .. Len(st) /\ LibEdges(g)
  BY LenProperties, EmptySeq DEF SameGraph
<1>2. /\ Len(new) = Len(st)
      /\ \A j \in 1 .. Len(st) : new[j] = IF j = Len(st) THEN g ELSE st[j]
  BY <1>1, ExceptSeq DEF OnTop
<1>3. \A j \in 1 .. Len(st) : new[j].graph = st[j].graph /\ new[j].mode = st[j].mode
  BY <1>2 DEF SameGraph
<1>4. LibraryOK(new)
  BY <1>2, <1>3 DEF LibStack, LibraryOK
<1>5. \A j \in 1 .. Len(st) : LibEdges(new[j])
  BY <1>1, <1>2 DEF LibStack
<1>6. DepthsOK(st) => DepthsOK(new)
  <2>1. \A d \in 1 .. Len(st) : \A c \in 1 .. d : c \in 1 .. Len(st)
    BY <1>1
  <2> QED BY <1>2, <1>3, <2>1 DEF DepthsOK
<1>7. FallbackIn(st) => FallbackIn(new)
  BY <1>2, <1>3 DEF FallbackIn
<1> QED BY <1>1, <1>2, <1>4, <1>5, <1>6, <1>7 DEF LibStack

(* What is known of the frame that takes the next step.                    *)
LEMMA TopDepth ==
    ASSUME DInv, NEW label, AtGraph(label)
    PROVE  /\ IInv /\ stack \in Seq(Frame) /\ stack # <<>> /\ phase = "run"
           /\ Len(stack) \in Nat /\ Len(stack) \in 1 .. Len(stack)
           /\ LibStack(stack) /\ Top \in Frame /\ FrameOK(Top) /\ Top.pc = label
           /\ LibEdges(Top) /\ Top = stack[Len(stack)]
<1>1. IInv /\ LibStack(stack)
  BY DEF DInv, Trusted
<1>2. Top \in Frame /\ FrameOK(Top) /\ Top.pc = label /\ stack # <<>> /\ phase = "run"
  BY <1>1, TopOK
<1>3. stack \in Seq(Frame)
  BY <1>1 DEF IInv, StackOK
<1>4. Len(stack) \in Nat /\ Len(stack) \in 1 .. Len(stack)
  BY <1>2, <1>3, LenProperties, EmptySeq
<1>5. Top = stack[Len(stack)]
  BY DEF Top, depth
<1>6. LibEdges(Top)
  BY <1>1, <1>4, <1>5 DEF LibStack
<1> QED BY <1>1, <1>2, <1>3, <1>4, <1>5, <1>6

(* A step of the top frame.                                                *)
LEMMA StepDepth ==
    ASSUME DInv, IInv', NEW STATE label, AtGraph(label), NEW STATE g, SetTop(g),
           SameGraph(g, Top), label \in FailLabels => g.pc \in FailLabels,
           UNCHANGED <<phase, inBackupMode, sessions>>
    PROVE  DInv'
<1>1. /\ stack \in Seq(Frame) /\ stack # <<>> /\ phase = "run" /\ LibStack(stack)
      /\ Top.pc = label /\ Top = stack[Len(stack)] /\ Len(stack) \in 1 .. Len(stack)
  BY TopDepth
<1>2. stack' = [stack EXCEPT ![Len(stack)] = g]
  BY DEF SetTop, depth
<1>3. PICK new, f : new = stack' /\ f = g
  OBVIOUS
<1>6. OnTop(new, stack, f) /\ SameGraph(f, stack[Len(stack)]) /\ f \in Frame
  <2>1. OnTop(new, stack, f) /\ SameGraph(f, stack[Len(stack)])
    BY <1>1, <1>2, <1>3 DEF OnTop
  <2>2. new \in Seq(Frame)
    BY <1>3 DEF IInv, StackOK
  <2>3. DOMAIN new = DOMAIN stack /\ new[Len(stack)] = f /\ Len(stack) \in DOMAIN stack
    BY <1>1, <1>2, <1>3
  <2>4. \A i \in DOMAIN new : new[i] \in Frame
    BY <2>2, LenProperties, ElementOfSeq
  <2> QED BY <2>1, <2>3, <2>4
<1>4. /\ LibStack(new) /\ (DepthsOK(stack) => DepthsOK(new))
      /\ FallbackIn(stack) => FallbackIn(new)
      /\ Len(new) = Len(stack) /\ new[Len(new)] = f
  BY <1>1, <1>6, TopLib
<1>5. ASSUME Trusted
      PROVE  FlagOK(phase, new, inBackupMode) /\ DepthsOK(new)
  <2>1. FlagOK(phase, stack, inBackupMode) /\ DepthsOK(stack)
    BY <1>5 DEF DInv, Trusted
  <2> QED BY <1>1, <1>3, <1>4, <2>1 DEF FlagOK
<1> QED BY <1>3, <1>4, <1>5 DEF DInv, Trusted

(* The top frame leaves its graph, or moves on in it.                      *)
LEMMA GotoDepth ==
    ASSUME DInv, IInv', NEW STATE label, AtGraph(label), NEW STATE to, Goto(to),
           to \in PC \ {"succ"},
           label \in FailLabels => to \in FailLabels,
           UNCHANGED <<phase, inBackupMode, sessions>>
    PROVE  DInv'
<1>1. Top \in Frame /\ LibEdges(Top)
  BY TopDepth
<1>2. PICK g : g = [Top EXCEPT !.pc = to]
  OBVIOUS
<1>3. /\ g \in Frame /\ g.graph = Top.graph /\ g.mode = Top.mode /\ g.pc = to
      /\ g.edges = Top.edges
  BY <1>1, <1>2 DEF Frame
<1>4. SetTop(g)
  BY <1>2 DEF Goto
<1>5. SameGraph(g, Top)
  BY <1>1, <1>3 DEF LibEdges, SameGraph, PC
<1> QED BY <1>3, <1>4, <1>5, StepDepth

(* The failure is passed on to the caller.                                 *)
LEMMA FailDepth ==
    ASSUME NEW STATE callers, callers \in Seq(Frame), LibStack(callers),
           ReturnTo(callers, "err")
    PROVE  /\ LibStack(stack') /\ (DepthsOK(callers) => DepthsOK(stack'))
           /\ \A b : FlagOK(phase', stack', b)
<1>1. Len(callers) \in Nat /\ (callers = <<>> <=> Len(callers) = 0)
  BY LenProperties, EmptySeq
<1>2. CASE Len(callers) = 0
  <2>1. stack' = callers /\ phase' = "err"
    BY <1>2 DEF ReturnTo
  <2> QED BY <2>1 DEF FlagOK
<1>3. CASE Len(callers) # 0
  <2>1. PICK t : t = callers[Len(callers)]
    OBVIOUS
  <2>2. PICK g : g = Failed(t)
    OBVIOUS
  <2>3. t \in Frame /\ LibEdges(t)
    <3>1. Len(callers) \in 1 .. Len(callers)
      BY <1>1, <1>3
    <3> QED BY <2>1, <3>1, ElementOfSeq DEF LibStack
  <2>4. /\ g \in Frame /\ g.graph = t.graph /\ g.mode = t.mode /\ g.edges = t.edges
        /\ g.pc \in FailLabels
    BY <2>2, <2>3 DEF Failed, Frame, PC, FailLabels
  <2>5. LibEdges(g)
    BY <2>3, <2>4 DEF LibEdges, FailLabels
  <2>6. stack' = [callers EXCEPT ![Len(callers)] = g] /\ phase' = "run"
    BY <1>1, <1>3, <2>1, <2>2 DEF ReturnTo
  <2>7. PICK new, st : new = stack' /\ st = callers
    OBVIOUS
  <2>8. /\ st \in Seq(Frame) /\ st # <<>> /\ LibStack(st)
        /\ SameGraph(g, st[Len(st)]) /\ OnTop(new, st, g)
    BY <1>1, <1>3, <2>1, <2>4, <2>5, <2>6, <2>7 DEF SameGraph, OnTop
  <2>9. /\ LibStack(new) /\ (DepthsOK(st) => DepthsOK(new))
        /\ Len(new) = Len(st) /\ new[Len(new)] = g
    BY <2>4, <2>8, TopLib
  <2>10. \A b : FlagOK("run", new, b)
    BY <2>4, <2>9 DEF FlagOK
  <2> QED BY <2>6, <2>7, <2>9, <2>10
<1> QED BY <1>2, <1>3

(* A frame on top of others.                                               *)
LEMMA PushLib ==
    ASSUME NEW st \in Seq(Frame), LibStack(st), NEW f \in Frame, f.edges = <<>>,
           f.mode # "backup", FallbackIn(st) => f.graph \in Library
    PROVE  /\ LibStack(Append(st, f)) /\ (FallbackIn(st) => FallbackIn(Append(st, f)))
           /\ /\ DepthsOK(st) /\ (~ FallbackIn(st) => Len(st) + 1 < MaxGraphDepth)
              /\ f.graph \in Library => Len(st) + 1 + Height(f.graph) <= MaxGraphDepth + 2
              => DepthsOK(Append(st, f))
<1> DEFINE n == Len(st)
           new == Append(st, f)
<1>1. n \in Nat
  BY LenProperties
<1>2. /\ Len(new) = n + 1 /\ (\A j \in 1 .. n : new[j] = st[j])
      /\ new[n + 1] = f
  BY AppendProperties
<1>3. \A d \in 1 .. (n + 1) : d \in 1 .. n \/ d = n + 1
  BY <1>1
<1>4. DOMAIN f.edges = {}
  OBVIOUS
<1>5. LibEdges(f)
  BY <1>4 DEF LibEdges, Pending
<1> HIDE DEF new, n
<1>6. LibraryOK(new)
  <2> SUFFICES ASSUME NEW c \in 1 .. (n + 1), NEW d \in 1 .. (n + 1), c <= d,
                      new[c].mode = "backup"
               PROVE  new[d].graph \in Library
    BY <1>2 DEF LibraryOK
  <2>1. c \in 1 .. n /\ st[c].mode = "backup"
    BY <1>2, <1>3
  <2>2. CASE d = n + 1
    BY <1>2, <2>1, <2>2 DEF FallbackIn, n
  <2>3. CASE d \in 1 .. n
    BY <1>2, <2>1, <2>3 DEF LibStack, LibraryOK, n
  <2> QED BY <1>3, <2>2, <2>3
<1>7. \A d \in 1 .. (n + 1) : LibEdges(new[d])
  BY <1>2, <1>3, <1>5 DEF LibStack, n
<1>8. FallbackIn(st) => FallbackIn(new)
  <2>1. \A d \in 1 .. n : d \in 1 .. (n + 1)
    BY <1>1
  <2> QED BY <1>2, <2>1 DEF FallbackIn, n
<1>9. ASSUME DepthsOK(st), ~ FallbackIn(st) => n + 1 < MaxGraphDepth,
             f.graph \in Library => n + 1 + Height(f.graph) <= MaxGraphDepth + 2
      PROVE  DepthsOK(new)
  <2> SUFFICES ASSUME NEW d \in 1 .. (n + 1)
               PROVE  /\ (\A c \in 1 .. d : new[c].mode # "backup") => d < MaxGraphDepth
                      /\ new[d].graph \in Library => d + Height(new[d].graph) <= MaxGraphDepth + 2
    BY <1>2 DEF DepthsOK
  <2>1. CASE d = n + 1
    <3>1. ASSUME \A c \in 1 .. d : new[c].mode # "backup" PROVE d < MaxGraphDepth
      <4>1. \A c \in 1 .. n : c \in 1 .. d
        BY <1>1, <2>1
      <4>2. ~ FallbackIn(st)
        BY <1>2, <3>1, <4>1 DEF FallbackIn, n
      <4> QED BY <1>9, <2>1, <4>2
    <3> QED BY <1>2, <1>9, <2>1, <3>1
  <2>2. CASE d \in 1 .. n
    <3>1. \A c \in 1 .. d : c \in 1 .. n
      BY <1>1, <2>2
    <3>2. \A c \in 1 .. d : new[c] = st[c]
      BY <1>2, <3>1
    <3>3. /\ (\A c \in 1 .. d : st[c].mode # "backup") => d < MaxGraphDepth
          /\ st[d].graph \in Library => d + Height(st[d].graph) <= MaxGraphDepth + 2
      BY <1>9, <2>2 DEF DepthsOK, n
    <3> QED BY <1>2, <2>2, <3>2, <3>3
  <2> QED BY <1>3, <2>1, <2>2
<1> QED BY <1>2, <1>6, <1>7, <1>8, <1>9 DEF LibStack, n, new

(* CCTX_runSuccessor(): over a fallback the library runs out of graphs,    *)
(* without one the limit holds.                                            *)
LEMMA RunSuccessorDepth ==
    ASSUME NEW STATE callers, NEW STATE nds, NEW STATE strs, NEW STATE graph, NEW STATE ins,
           callers \in Seq(Frame), nds \in Seq(Node), graph \in Graphs, ins \in SidList,
           LibStack(callers), FallbackIn(callers) => graph \in Library,
           Trusted => DepthsOK(callers) /\ (inBackupMode => FallbackIn(callers)),
           Trusted /\ FallbackIn(callers) =>
               Len(callers) + 1 + Height(graph) <= MaxGraphDepth + 2,
           CCTX_runSuccessor(callers, nds, strs, graph, ins), IInv',
           UNCHANGED <<inBackupMode, sessions>>
    PROVE  DInv'
<1> DEFINE d == Len(callers) + 1
           segmentable == IsSegmentable(nds, ins)
<1>1. d \in Nat /\ Len(callers) \in Nat /\ segmentable \in BOOLEAN
  BY LenProperties DEF IsSegmentable
<1>2. ASSUME ReturnTo(callers, "err") PROVE DInv'
  <2>1. /\ LibStack(stack') /\ (DepthsOK(callers) => DepthsOK(stack'))
        /\ \A b : FlagOK(phase', stack', b)
    BY <1>2, FailDepth
  <2> QED BY <2>1 DEF DInv, Trusted
<1>3. ASSUME NEW f \in Frame, f.edges = <<>>, f.mode # "backup",
             FallbackIn(callers) => f.graph \in Library,
             Trusted /\ ~ FallbackIn(callers) => d < MaxGraphDepth,
             Trusted /\ f.graph \in Library => d + Height(f.graph) <= MaxGraphDepth + 2,
             stack' = Append(callers, f), phase' = "run"
      PROVE  DInv'
  <2>1. /\ LibStack(Append(callers, f))
        /\ FallbackIn(callers) => FallbackIn(Append(callers, f))
        /\ /\ DepthsOK(callers) /\ (~ FallbackIn(callers) => Len(callers) + 1 < MaxGraphDepth)
           /\ f.graph \in Library => Len(callers) + 1 + Height(f.graph) <= MaxGraphDepth + 2
           => DepthsOK(Append(callers, f))
    BY <1>3, PushLib
  <2>2. ASSUME Trusted PROVE FlagOK("run", stack', inBackupMode) /\ DepthsOK(stack')
    BY <1>3, <2>1, <2>2 DEF FlagOK
  <2> QED BY <1>3, <2>1, <2>2 DEF DInv, Trusted
<1>4. CASE DepthExceeded(d) \/ (graph = "segmenter" /\ ~ segmentable)
  BY <1>2, <1>4 DEF CCTX_runSuccessor
<1>5. CASE ~ DepthExceeded(d) /\ graph = "segmenter" /\ segmentable
  <2> DEFINE f == NewFrame("segmenter", ins, TRUE, nds, "normal", "seg")
  <2>1. /\ f \in Frame /\ f.edges = <<>> /\ f.graph = "segmenter" /\ f.mode # "backup"
    <3>1. "segmenter" \in Graphs /\ "normal" \in Mode /\ "seg" \in PC /\ TRUE \in BOOLEAN
      BY DEF Graphs, Mode, PC
    <3>2. <<>> \in Seq(Edge) /\ Len(nds) \in Nat
      BY EmptySeq, LenProperties
    <3> QED BY <3>1, <3>2 DEF NewFrame, Frame
  <2>2. ReturnTo(callers, "err") \/ (stack' = Append(callers, f) /\ phase' = "run")
    BY <1>5 DEF CCTX_runSuccessor, CCTX_runSegmenter
  <2> HIDE DEF f
  <2>3. f.graph \notin Library /\ ~ FallbackIn(callers)
    BY <1>5, <2>1 DEF Library
  <2>4. Trusted => d < MaxGraphDepth
    BY <1>1, <1>5, <2>3 DEF DepthExceeded
  <2> QED BY <1>2, <1>3, <2>1, <2>2, <2>3, <2>4
<1>6. CASE ~ DepthExceeded(d) /\ graph # "segmenter"
  <2> DEFINE small == NewFrame("store1", ins, segmentable, nds, "small", "enter")
             full == NewFrame(graph, ins, segmentable, nds, "normal", "enter")
             f == IF IsSmall(strs, graph, ins) THEN small ELSE full
  <2>1. /\ small \in Frame /\ small.edges = <<>> /\ small.graph = "store1"
        /\ small.mode # "backup"
    <3>1. /\ "store1" \in Graphs /\ "small" \in Mode /\ "enter" \in PC
      BY DEF Graphs, Mode, PC
    <3> HIDE DEF segmentable
    <3> QED BY <1>1, <3>1, EnterFrame
  <2>2. /\ full \in Frame /\ full.edges = <<>> /\ full.graph = graph
        /\ full.mode # "backup"
    <3>1. /\ "normal" \in Mode /\ "enter" \in PC
      BY DEF Mode, PC
    <3> HIDE DEF segmentable
    <3> QED BY <1>1, <3>1, EnterFrame
  <2>3. stack' = Append(callers, f) /\ phase' = "run"
    BY <1>6 DEF CCTX_runSuccessor
  <2> HIDE DEF small, full, segmentable
  <2>4. /\ f \in Frame /\ f.edges = <<>> /\ f.mode # "backup"
        /\ f.graph = graph \/ (f.graph = "store1" /\ graph # "serialStore")
    BY <2>1, <2>2 DEF IsSmall
  <2> HIDE DEF f
  <2>5. FallbackIn(callers) => f.graph \in Library
    BY <2>4 DEF Library
  <2>6. Trusted /\ ~ FallbackIn(callers) => d < MaxGraphDepth
    BY <1>1, <1>6 DEF DepthExceeded
  <2>7. ASSUME Trusted, f.graph \in Library PROVE d + Height(f.graph) <= MaxGraphDepth + 2
    <3>1. PICK h, k : h = Height(f.graph) /\ k = Height(graph)
      OBVIOUS
    <3>2. h \in 0 .. 3 /\ k \in 0 .. 3
      BY <3>1, Heights
    <3>3. CASE FallbackIn(callers)
      <4>1. graph \in Library /\ d + k <= MaxGraphDepth + 2
        BY <2>7, <3>1, <3>3
      <4>2. h <= k
        BY <2>4, <3>1, <4>1 DEF Library, Height
      <4> QED BY <1>1, <3>1, <3>2, <4>1, <4>2
    <3>4. CASE ~ FallbackIn(callers)
      BY <1>1, <2>6, <2>7, <3>1, <3>2, <3>4
    <3> QED BY <3>3, <3>4
  <2> QED BY <1>3, <2>3, <2>4, <2>5, <2>6, <2>7
<1> QED BY <1>4, <1>5, <1>6

(* A frame with other edges.                                               *)
OtherEdges(g, t, es) ==
    \/ g = [t EXCEPT !.edges = es]
    \/ \E n \in Nat \ {0} : g = [t EXCEPT !.edges = es, !.next = n]
    \/ g = [t EXCEPT !.edges = es, !.status = TRUE]
    \/ g = [t EXCEPT !.edges = es, !.pc = "succ"]

(* It runs the same graph.                                                 *)
LEMMA EdgeFields ==
    ASSUME NEW t \in Frame, NEW es, NEW g, OtherEdges(g, t, es)
    PROVE  g.graph = t.graph /\ g.mode = t.mode /\ g.edges = es
BY DEF Frame, OtherEdges

(* CCTX_convertInputs(): until a graph says otherwise an edge leads to the *)
(* generic graph.                                                          *)
LEMMA NextEdgeDepth ==
    ASSUME DInv, IInv', AtGraph("enter"), NEW STATE sid, sid \in Nat,
           NEW STATE g, MoreEdge(g, Top, sid), SetTop(g),
           UNCHANGED <<phase, inBackupMode, sessions>>
    PROVE  DInv'
<1>1. Top \in Frame /\ LibEdges(Top)
  BY TopDepth
<1>2. PICK e : e = NewEdge(sid)
  OBVIOUS
<1>3. e \in Edge /\ e.graph = "generic"
  BY <1>2, NewEdgeOK DEF NewEdge
<1>4. /\ Top.edges \in Seq(Edge) /\ Len(Top.edges) \in Nat /\ Top.next + 1 \in Nat \ {0}
      /\ DOMAIN Top.edges = 1 .. Len(Top.edges)
  BY <1>1, FrameTypes, LenProperties
<1>5. PICK es, n, t : es = Append(Top.edges, e) /\ n = Top.next + 1 /\ t = Top
  OBVIOUS
<1>6. /\ es \in Seq(Edge) /\ Len(es) = Len(Top.edges) + 1 /\ es[Len(Top.edges) + 1] = e
      /\ \A i \in 1 .. Len(Top.edges) : es[i] = Top.edges[i]
      /\ DOMAIN es = 1 .. (Len(Top.edges) + 1)
  <2>1. es \in Seq(Edge) /\ Len(es) = Len(Top.edges) + 1
    BY <1>3, <1>4, <1>5, AppendProperties
  <2> QED BY <1>3, <1>4, <1>5, <2>1, AppendProperties, LenProperties
<1>7. g = [t EXCEPT !.edges = es, !.next = n]
  BY <1>1, <1>2, <1>5 DEF MoreEdge, Frame
<1>8. OtherEdges(g, t, es) /\ t \in Frame
  BY <1>1, <1>4, <1>5, <1>7 DEF OtherEdges
<1>9. g.graph = t.graph /\ g.mode = t.mode /\ g.edges = es
  BY <1>8, EdgeFields
<1>10. \A i \in 1 .. (Len(Top.edges) + 1) : i \in 1 .. Len(Top.edges) \/ i = Len(Top.edges) + 1
  BY <1>4
<1>11. g.pc = "enter"
  <2>1. Top.pc = "enter"
    BY TopDepth
  <2> QED BY <1>5, <1>7, <1>8, <2>1 DEF Frame
<1>12. LibEdges(g)
  <2> SUFFICES ASSUME Top.graph \in Library, NEW i \in 1 .. (Len(Top.edges) + 1)
               PROVE  es[i].graph \in Library
    BY <1>5, <1>6, <1>9, <1>11 DEF LibEdges
  <2>1. CASE i = Len(Top.edges) + 1
    BY <1>3, <1>6, <2>1 DEF Library
  <2>2. CASE i \in 1 .. Len(Top.edges)
    BY <1>1, <1>4, <1>6, <2>2 DEF LibEdges
  <2> QED BY <1>10, <2>1, <2>2
<1>13. SameGraph(g, Top)
  BY <1>5, <1>9, <1>12 DEF SameGraph
<1> QED BY <1>13, StepDepth DEF FailLabels

LEMMA KeepInputDepth ==
    ASSUME DInv, KeepInput
    PROVE  DInv'
<1>1. AtGraph("enter") /\ Top.next <= Len(Top.ins)
  BY DEF KeepInput
<1>2. Top \in Frame
  BY <1>1, TopDepth
<1>3. PICK sid : sid = Top.ins[Top.next]
  OBVIOUS
<1>4. sid \in Nat
  <2>1. Top.ins \in Seq(Nat) /\ Top.next \in Nat \ {0}
    BY <1>2, FrameTypes DEF SidList, Frame
  <2>2. Top.next \in 1 .. Len(Top.ins)
    BY <1>1, <2>1, LenProperties
  <2> QED BY <1>3, <2>1, <2>2, ElementOfSeq
<1>5. PICK g : MoreEdge(g, Top, sid)
  BY DEF MoreEdge
<1>6. SetTop(g) /\ UNCHANGED <<phase, inBackupMode, sessions>>
  BY <1>3, <1>5 DEF KeepInput, MoreEdge, sessionVars
<1>7. IInv'
  BY KeepInputStep DEF DInv, Trusted
<1> QED BY <1>1, <1>4, <1>5, <1>6, <1>7, NextEdgeDepth

LEMMA ConvertInputDepth ==
    ASSUME DInv, ConvertInput
    PROVE  DInv'
<1>1. AtGraph("enter") /\ UNCHANGED <<phase, inBackupMode, sessions>>
  BY DEF ConvertInput, sessionVars
<1>2. IInv' /\ IInv
  BY ConvertInputStep DEF DInv, Trusted
<1>3. Len(streams) \in Nat
  BY <1>1, <1>2, TopOK
<1>4. PICK sid \in Nat : sid = Len(streams) + 1
  BY <1>3
<1>5. PICK g : MoreEdge(g, Top, sid)
  BY DEF MoreEdge
<1>6. SetTop(g) \/ Goto("err")
  BY <1>4, <1>5 DEF ConvertInput, MoreEdge
<1>7. CASE SetTop(g)
  BY <1>1, <1>2, <1>5, <1>7, NextEdgeDepth
<1>8. CASE Goto("err")
  BY <1>1, <1>2, <1>8, GotoDepth DEF PC, FailLabels
<1> QED BY <1>6, <1>7, <1>8

LEMMA StartGraphDepth ==
    ASSUME DInv, StartGraph
    PROVE  DInv'
<1>1. AtGraph("enter") /\ UNCHANGED <<phase, inBackupMode, sessions>>
  BY DEF StartGraph, sessionVars
<1>2. IInv'
  BY StartGraphStep DEF DInv, Trusted
<1>3. Top \in Frame /\ LibEdges(Top)
  BY <1>1, TopDepth
<1>4. PICK g : g = [Top EXCEPT !.pc = "fn", !.next = 1]
  OBVIOUS
<1>5. g.graph = Top.graph /\ g.mode = Top.mode /\ g.edges = Top.edges /\ g.pc = "fn"
  BY <1>3, <1>4 DEF Frame
<1>6. SameGraph(g, Top)
  BY <1>3, <1>5 DEF SameGraph, LibEdges
<1>7. SetTop(g) \/ Goto("ok")
  BY <1>4 DEF StartGraph
<1>8. CASE SetTop(g)
  BY <1>1, <1>2, <1>6, <1>8, StepDepth DEF FailLabels
<1>9. CASE Goto("ok")
  BY <1>1, <1>2, <1>9, GotoDepth DEF PC, FailLabels
<1> QED BY <1>7, <1>8, <1>9

(* A graph of the user may send its edges anywhere.                        *)
LEMMA UserStepDepth ==
    ASSUME DInv, IInv', AtGraph("fn"), Top.graph \in UserGraphs,
           NEW STATE g, g.graph = Top.graph, g.mode = Top.mode, SetTop(g),
           UNCHANGED <<phase, inBackupMode, sessions>>
    PROVE  DInv'
<1>1. SameGraph(g, Top)
  BY DEF SameGraph, LibEdges, UserGraphs, Library
<1> QED BY <1>1, StepDepth DEF FailLabels

(* Nothing happened that the invariant looks at.                           *)
LEMMA SameDepth ==
    ASSUME DInv, IInv', UNCHANGED <<stack, phase, inBackupMode, sessions>>
    PROVE  DInv'
BY DEF DInv, Trusted

LEMMA RunNodeDepth ==
    ASSUME DInv, ZL_Edge_runMultiInputNode
    PROVE  DInv'
<1>1. /\ AtGraph("fn") /\ Top.graph \in UserGraphs
      /\ UNCHANGED <<phase, inBackupMode, sessions>>
  BY DEF ZL_Edge_runMultiInputNode, AtUserFn, sessionVars
<1>2. IInv'
  BY RunNodeStep DEF DInv, Trusted
<1>3. Top \in Frame
  BY <1>1, TopDepth
<1>4. \/ \E list, made : SetTop([Top EXCEPT !.edges = ProcessEdges(@, list, made)])
      \/ Goto("err") \/ UNCHANGED stack
  BY DEF ZL_Edge_runMultiInputNode
<1>5. ASSUME NEW list, NEW made, SetTop([Top EXCEPT !.edges = ProcessEdges(@, list, made)])
      PROVE  DInv'
  <2>1. PICK g, es : /\ es = ProcessEdges(Top.edges, list, made)
                     /\ g = [Top EXCEPT !.edges = ProcessEdges(@, list, made)]
    OBVIOUS
  <2>2. OtherEdges(g, Top, es)
    BY <1>3, <2>1 DEF OtherEdges, Frame
  <2>3. g.graph = Top.graph /\ g.mode = Top.mode
    BY <1>3, <2>2, EdgeFields
  <2>4. SetTop(g)
    BY <1>5, <2>1
  <2> QED BY <1>1, <1>2, <2>3, <2>4, UserStepDepth
<1>6. CASE Goto("err")
  BY <1>1, <1>2, <1>6, GotoDepth DEF PC, FailLabels
<1>7. CASE UNCHANGED stack
  BY <1>1, <1>2, <1>7, SameDepth
<1> QED BY <1>4, <1>5, <1>6, <1>7

LEMMA SetDestinationDepth ==
    ASSUME DInv, ZL_Edge_setDestination
    PROVE  DInv'
<1>1. /\ AtGraph("fn") /\ Top.graph \in UserGraphs
      /\ UNCHANGED <<phase, inBackupMode, sessions>>
  BY DEF ZL_Edge_setDestination, AtUserFn, sessionVars
<1>2. IInv'
  BY SetDestinationStep DEF DInv, Trusted
<1>3. Top \in Frame
  BY <1>1, TopDepth
<1>4. PICK list, to : SetTop([Top EXCEPT !.edges = AssignEdges(@, list, to)])
  BY DEF ZL_Edge_setDestination
<1>5. PICK g, es : /\ es = AssignEdges(Top.edges, list, to)
                   /\ g = [Top EXCEPT !.edges = AssignEdges(@, list, to)]
  OBVIOUS
<1>6. OtherEdges(g, Top, es)
  BY <1>3, <1>5 DEF OtherEdges, Frame
<1>7. g.graph = Top.graph /\ g.mode = Top.mode
  BY <1>3, <1>6, EdgeFields
<1>8. SetTop(g)
  BY <1>4, <1>5
<1> QED BY <1>1, <1>2, <1>7, <1>8, UserStepDepth

LEMMA SetDestinationTwiceDepth ==
    ASSUME DInv, SetDestinationTwice
    PROVE  DInv'
<1>1. /\ AtGraph("fn") /\ Top.graph \in UserGraphs
      /\ UNCHANGED <<phase, inBackupMode, sessions>>
  BY DEF SetDestinationTwice, AtUserFn, sessionVars
<1>2. IInv'
  BY SetDestinationTwiceStep DEF DInv, Trusted
<1>3. Top \in Frame
  BY <1>1, TopDepth
<1>4. PICK list : SetTop([Top EXCEPT !.edges = TakeFirst(@, list), !.status = TRUE])
  BY DEF SetDestinationTwice
<1>5. PICK g, es : /\ es = TakeFirst(Top.edges, list)
                   /\ g = [Top EXCEPT !.edges = TakeFirst(@, list), !.status = TRUE]
  OBVIOUS
<1>6. OtherEdges(g, Top, es)
  BY <1>3, <1>5 DEF OtherEdges, Frame
<1>7. g.graph = Top.graph /\ g.mode = Top.mode
  BY <1>3, <1>6, EdgeFields
<1>8. SetTop(g)
  BY <1>4, <1>5
<1> QED BY <1>1, <1>2, <1>7, <1>8, UserStepDepth

LEMMA UserGraphReturnsDepth ==
    ASSUME DInv, UserGraphReturns
    PROVE  DInv'
<1>1. /\ AtGraph("fn") /\ Top.graph \in UserGraphs
      /\ UNCHANGED <<phase, inBackupMode, sessions>>
  BY DEF UserGraphReturns, AtUserFn, sessionVars
<1>2. IInv'
  BY UserGraphReturnsStep DEF DInv, Trusted
<1>3. Top \in Frame
  BY <1>1, TopDepth
<1>4. PICK g : g = [Top EXCEPT !.pc = "succ", !.next = 1]
  OBVIOUS
<1>5. g.graph = Top.graph /\ g.mode = Top.mode
  BY <1>3, <1>4 DEF Frame
<1>6. SetTop(g) \/ Goto("err")
  BY <1>4 DEF UserGraphReturns
<1>7. CASE SetTop(g)
  BY <1>1, <1>2, <1>5, <1>7, UserStepDepth
<1>8. CASE Goto("err")
  BY <1>1, <1>2, <1>8, GotoDepth DEF PC, FailLabels
<1> QED BY <1>6, <1>7, <1>8

(* A graph of the library sends its edges to a graph of the library.       *)
LEMMA SentOnDepth ==
    ASSUME DInv, IInv', AtGraph("fn"), NEW STATE es, es \in Seq(Edge),
           \A i \in DOMAIN es :
              /\ es[i].graph \in Library
              /\ es[i].st # "processed" => Height(es[i].graph) < Height(Top.graph),
           SetTop([Top EXCEPT !.edges = es, !.pc = "succ"]),
           UNCHANGED <<phase, inBackupMode, sessions>>
    PROVE  DInv'
<1>1. Top \in Frame
  BY TopDepth
<1>2. PICK g : g = [Top EXCEPT !.edges = es, !.pc = "succ"]
  OBVIOUS
<1>3. OtherEdges(g, Top, es)
  BY <1>2 DEF OtherEdges
<1>4. g.graph = Top.graph /\ g.mode = Top.mode /\ g.edges = es
  BY <1>1, <1>3, EdgeFields
<1>5. SameGraph(g, Top)
  <2>1. \A i \in Pending(g) : i \in DOMAIN es /\ es[i].st # "processed"
    BY <1>4 DEF Pending
  <2> QED BY <1>4, <2>1 DEF SameGraph, LibEdges
<1>6. SetTop(g)
  BY <1>2
<1> QED BY <1>5, <1>6, StepDepth DEF FailLabels

LEMMA RedirectDepth ==
    ASSUME DInv, Redirect
    PROVE  DInv'
<1>1. AtGraph("fn") /\ UNCHANGED <<phase, inBackupMode, sessions>>
  BY DEF Redirect, sessionVars
<1>2. IInv' /\ IInv
  BY RedirectStep DEF DInv, Trusted
<1>3. Top \in Frame /\ Top.edges \in Seq(Edge) /\ Top.edges # <<>>
  BY <1>1, <1>2, TopOK DEF FrameOK
<1>4. PICK to : to = IF Top.graph = "generic" THEN "compress1" ELSE "serialStore"
  OBVIOUS
<1>5. to \in Library /\ to \in Graphs
  BY <1>4 DEF Library, Graphs
<1>6. PICK es : es = AllTo(Top.edges, to)
  OBVIOUS
<1>7. /\ es \in Seq(Edge)
      /\ \A i \in DOMAIN es :
            es[i].graph \in Library /\ Height(es[i].graph) < Height(Top.graph)
  <2>1. es \in Seq(Edge) /\ \A i \in DOMAIN es : es[i].graph = to
    BY <1>3, <1>5, <1>6, AllToOK, AllToIs
  <2>2. Top.graph \in {"generic", "store1"}
    BY DEF Redirect
  <2>3. Height(to) < Height(Top.graph)
    BY <1>4, <2>2 DEF Height
  <2> QED BY <1>5, <2>1, <2>3
<1>8. SetTop([Top EXCEPT !.edges = es, !.pc = "succ"])
  <2>1. [Top EXCEPT !.edges = AllTo(@, to), !.pc = "succ"]
          = [Top EXCEPT !.edges = es, !.pc = "succ"]
    BY <1>3, <1>6 DEF Frame
  <2> QED BY <1>4, <2>1 DEF Redirect
<1> QED BY <1>1, <1>2, <1>7, <1>8, SentOnDepth

LEMMA Compress1Depth ==
    ASSUME DInv, ZL_GRAPH_COMPRESS1
    PROVE  DInv'
<1>1. /\ AtGraph("fn") /\ UNCHANGED <<phase, inBackupMode, sessions>>
      /\ Top.graph = "compress1"
  BY DEF ZL_GRAPH_COMPRESS1, sessionVars
<1>2. IInv' /\ IInv
  BY Compress1Step DEF DInv, Trusted
<1>3. /\ Top \in Frame /\ Top.edges \in Seq(Edge) /\ Top.edges # <<>> /\ LibEdges(Top)
      /\ Len(streams) \in Nat
  BY <1>1, <1>2, TopOK, TopDepth DEF FrameOK
<1>4. PICK stored : stored = AllTo(Top.edges, "store1")
  OBVIOUS
<1>5. "store1" \in Library /\ "store1" \in Graphs
  BY DEF Library, Graphs
<1>6. stored \in Seq(Edge) /\ \A i \in DOMAIN stored : stored[i].graph = "store1"
  BY <1>3, <1>4, <1>5, AllToOK, AllToIs
<1>7. PICK one, old : /\ one = <<NewEdge(Len(streams) + 1)>>
                      /\ old = [Top.edges[1] EXCEPT !.st = "processed"]
  OBVIOUS
<1>8. one \in Seq(Edge) /\ one # <<>> /\ DOMAIN one = {1}
  <2>1. NewEdge(Len(streams) + 1) \in Edge
    BY <1>3, NewEdgeOK
  <2> QED BY <1>7, <2>1, Singleton
<1>9. PICK last : last = AllTo(one, "store1")
  OBVIOUS
<1>10. last \in Seq(Edge) /\ DOMAIN last = {1} /\ last[1].graph = "store1"
  BY <1>5, <1>8, <1>9, AllToOK, AllToIs
<1>11. old \in Edge /\ old.graph \in Library /\ old.st = "processed"
  <2>1. Len(Top.edges) \in Nat \ {0} /\ DOMAIN Top.edges = 1 .. Len(Top.edges)
    BY <1>3, LenProperties, EmptySeq
  <2>2. 1 \in DOMAIN Top.edges
    BY <2>1
  <2>3. PICK e \in Edge : e = Top.edges[1]
    BY <1>3, <2>1, <2>2, ElementOfSeq
  <2>4. e.graph \in Library
    BY <1>1, <1>3, <2>2, <2>3 DEF LibEdges, Library
  <2>5. old = [e EXCEPT !.st = "processed"]
    BY <1>7, <2>3
  <2>6. old.graph = e.graph /\ old.st = "processed"
    BY <2>5 DEF Edge
  <2> QED BY <2>4, <2>5, <2>6, EdgeTypes
<1>12. PICK coded : coded = <<old>> \o last
  OBVIOUS
<1>13. /\ coded \in Seq(Edge)
       /\ \A i \in DOMAIN coded :
             /\ coded[i].graph \in Library
             /\ coded[i].st # "processed" => coded[i].graph = "store1"
  <2>1. <<old>> \in Seq(Edge) /\ Len(<<old>>) = 1 /\ <<old>>[1] = old
    BY <1>11, Singleton
  <2>2. Len(last) = 1
    BY <1>10, LenProperties
  <2>3. coded \in Seq(Edge) /\ Len(coded) = 2
    BY <1>10, <1>12, <2>1, <2>2, ConcatProperties
  <2>4. coded[1] = old /\ coded[2] = last[1]
    BY <1>10, <1>12, <2>1, <2>2, ConcatProperties
  <2>5. DOMAIN coded = 1 .. 2
    BY <2>3, LenProperties
  <2>6. \A i \in 1 .. 2 : i = 1 \/ i = 2
    OBVIOUS
  <2> QED BY <1>5, <1>10, <1>11, <2>3, <2>4, <2>5, <2>6
<1>14. \/ SetTop([Top EXCEPT !.edges = stored, !.pc = "succ"])
       \/ SetTop([Top EXCEPT !.edges = coded, !.pc = "succ"])
       \/ Goto("err")
  <2>1. [Top EXCEPT !.edges = AllTo(@, "store1"), !.pc = "succ"]
          = [Top EXCEPT !.edges = stored, !.pc = "succ"]
    BY <1>3, <1>4 DEF Frame
  <2> QED BY <1>7, <1>9, <1>12, <2>1 DEF ZL_GRAPH_COMPRESS1
<1>15. Height("store1") < Height(Top.graph)
  BY <1>1, Heights
<1>16. CASE Goto("err")
  BY <1>1, <1>2, <1>16, GotoDepth DEF PC, FailLabels
<1>17. CASE SetTop([Top EXCEPT !.edges = stored, !.pc = "succ"])
  BY <1>1, <1>2, <1>5, <1>6, <1>15, <1>17, SentOnDepth
<1>18. CASE SetTop([Top EXCEPT !.edges = coded, !.pc = "succ"])
  BY <1>1, <1>2, <1>13, <1>15, <1>18, SentOnDepth
<1> QED BY <1>14, <1>16, <1>17, <1>18

(* CCTX_runSuccessors(): over a fallback the graph that sends its edges on *)
(* is the library's.                                                       *)
LEMMA RunNextSuccessorDepth ==
    ASSUME DInv, RunNextSuccessor
    PROVE  DInv'
<1>1. AtGraph("succ") /\ UNCHANGED <<inBackupMode, sessions>>
  BY DEF RunNextSuccessor, sessionVars
<1>2. IInv' /\ IInv /\ nodes \in Seq(Node)
  <2>1. IInv' /\ IInv
    BY RunNextSuccessorStep DEF DInv, Trusted
  <2> QED BY <1>1, <2>1, TopOK
<1>3. /\ stack \in Seq(Frame) /\ stack # <<>> /\ phase = "run" /\ LibStack(stack)
      /\ Top \in Frame /\ Top.pc = "succ" /\ LibEdges(Top) /\ Top = stack[Len(stack)]
      /\ Len(stack) \in Nat /\ Len(stack) \in 1 .. Len(stack)
  BY <1>1, TopDepth
<1>4. PICK i \in Pending(Top) :
         CCTX_runSuccessor([stack EXCEPT ![depth].next = i + 1], nodes, streams,
                           Top.edges[i].graph, Top.edges[i].with)
  BY DEF RunNextSuccessor
<1>5. i \in DOMAIN Top.edges
  BY DEF Pending
<1>6. i + 1 \in Nat \ {0} /\ Top.edges[i] \in Edge
  <2>1. Top.edges \in Seq(Edge)
    BY <1>3, FrameTypes
  <2>2. i \in 1 .. Len(Top.edges)
    BY <1>5, <2>1, LenProperties
  <2> QED BY <2>1, <2>2, ElementOfSeq, LenProperties
<1>7. PICK callers, graph, ins, g :
         /\ callers = [stack EXCEPT ![depth].next = i + 1]
         /\ graph = Top.edges[i].graph /\ ins = Top.edges[i].with
         /\ g = [Top EXCEPT !.next = i + 1]
  OBVIOUS
<1>8. graph \in Graphs /\ ins \in SidList
  BY <1>6, <1>7, EdgeTypes
<1>9. /\ g \in Frame /\ g.graph = Top.graph /\ g.mode = Top.mode /\ g.edges = Top.edges
      /\ g.pc = "succ" /\ g.next = i + 1
  BY <1>3, <1>6, <1>7 DEF Frame
<1>10. SameGraph(g, stack[Len(stack)]) /\ OnTop(callers, stack, g)
  <2>1. callers = [stack EXCEPT ![Len(stack)] = g]
    BY <1>7 DEF Top, depth
  <2>2. Pending(g) \subseteq Pending(Top)
    <3>1. i >= Top.next /\ Top.next \in Nat /\ i \in Nat /\ DOMAIN Top.edges \subseteq Nat
      <4>1. Top.edges \in Seq(Edge) /\ Top.next \in Nat
        BY <1>3, FrameTypes
      <4>2. DOMAIN Top.edges = 1 .. Len(Top.edges)
        BY <4>1, LenProperties
      <4> QED BY <1>5, <4>1, <4>2 DEF Pending
    <3> QED BY <1>9, <3>1 DEF Pending
  <2>3. LibEdges(g)
    BY <1>3, <1>9, <2>2 DEF LibEdges
  <2> QED BY <1>3, <1>9, <2>1, <2>3 DEF SameGraph, OnTop
<1>11. /\ LibStack(callers) /\ (DepthsOK(stack) => DepthsOK(callers))
       /\ FallbackIn(stack) => FallbackIn(callers)
       /\ Len(callers) = Len(stack) /\ callers[Len(callers)] = g
  BY <1>3, <1>9, <1>10, TopLib
<1>12. callers \in Seq(Frame)
  BY <1>3, <1>9, <1>10, ExceptSeq DEF OnTop
<1>13. ASSUME FallbackIn(callers) PROVE graph \in Library
  <2>1. PICK c \in 1 .. Len(callers) : callers[c].mode = "backup"
    BY <1>13 DEF FallbackIn
  <2>2. c <= Len(callers) /\ Len(callers) \in 1 .. Len(callers)
    BY <1>3, <1>11
  <2>3. g.graph \in Library
    BY <1>11, <2>1, <2>2 DEF LibStack, LibraryOK
  <2> QED BY <1>3, <1>5, <1>7, <1>9, <2>3 DEF LibEdges
<1>14. ASSUME Trusted
       PROVE  DepthsOK(callers) /\ (inBackupMode => FallbackIn(callers))
  BY <1>3, <1>11, <1>14 DEF DInv, Trusted, FlagOK, FailLabels
<1>15. CCTX_runSuccessor(callers, nodes, streams, graph, ins)
  BY <1>4, <1>7
<1>16. ASSUME Trusted, FallbackIn(callers)
       PROVE  Len(callers) + 1 + Height(graph) <= MaxGraphDepth + 2
  <2>1. PICK c \in 1 .. Len(callers) : callers[c].mode = "backup"
    BY <1>16 DEF FallbackIn
  <2>2. c <= Len(callers) /\ Len(callers) \in 1 .. Len(callers)
    BY <1>3, <1>11
  <2>3. g.graph \in Library
    BY <1>11, <2>1, <2>2 DEF LibStack, LibraryOK
  <2>4. Len(callers) + Height(g.graph) <= MaxGraphDepth + 2
    BY <1>11, <1>14, <1>16, <2>2, <2>3 DEF DepthsOK
  <2>5. Height(graph) < Height(g.graph)
    BY <1>3, <1>7, <1>9, <2>3 DEF LibEdges
  <2>6. Height(graph) \in 0 .. 3 /\ Height(g.graph) \in 0 .. 3
    BY Heights
  <2> QED BY <2>2, <2>4, <2>5, <2>6
<1> QED BY <1>1, <1>2, <1>8, <1>11, <1>12, <1>13, <1>14, <1>15, <1>16, RunSuccessorDepth

LEMMA SuccessorsDoneDepth ==
    ASSUME DInv, SuccessorsDone
    PROVE  DInv'
<1>1. /\ AtGraph("succ") /\ Goto("ok") /\ UNCHANGED <<phase, inBackupMode, sessions>>
  BY DEF SuccessorsDone, sessionVars
<1>2. IInv'
  BY SuccessorsDoneStep DEF DInv, Trusted
<1> QED BY <1>1, <1>2, GotoDepth DEF PC, FailLabels

(* CCTX_triggerBackupMode(): the graph under the fallback becomes generic. *)
LEMMA TriggerBackupDepth ==
    ASSUME DInv, CCTX_triggerBackupMode
    PROVE  DInv'
<1>1. /\ AtGraph("err") /\ UNCHANGED <<phase, sessions>> /\ ~ inBackupMode
  BY DEF CCTX_triggerBackupMode, sessionVars, MayFallBack
<1>2. IInv' /\ IInv
  BY TriggerBackupStep DEF DInv, Trusted
<1>3. /\ stack \in Seq(Frame) /\ stack # <<>> /\ phase = "run" /\ LibStack(stack)
      /\ Top \in Frame /\ Len(stack) \in Nat /\ Len(stack) \in 1 .. Len(stack)
  BY <1>1, TopDepth
<1>4. PICK g : g = [Top EXCEPT !.graph = "generic", !.mode = "backup",
                               !.pc = "enter", !.edges = <<>>, !.next = 1,
                               !.status = FALSE]
  OBVIOUS
<1>5. g \in Frame /\ g.graph = "generic" /\ g.mode = "backup" /\ g.edges = <<>>
  <2>1. <<>> \in Seq(Edge) /\ 1 \in Nat \ {0}
    BY EmptySeq
  <2> QED BY <1>3, <1>4, <2>1 DEF Frame, PC, Graphs, Mode
<1>6. PICK new : new = stack'
  OBVIOUS
<1>7. new = [stack EXCEPT ![Len(stack)] = g]
  BY <1>4, <1>6 DEF CCTX_triggerBackupMode, SetTop, depth
<1>8. /\ Len(new) = Len(stack)
      /\ \A j \in 1 .. Len(stack) : new[j] = IF j = Len(stack) THEN g ELSE stack[j]
  BY <1>3, <1>5, <1>7, ExceptSeq
<1>9. \A d \in 1 .. Len(stack) : stack[d].mode # "backup"
  BY <1>1, <1>2 DEF IInv, ModeOK
<1>10. LibraryOK(new)
  <2> SUFFICES ASSUME NEW c \in 1 .. Len(stack), NEW d \in 1 .. Len(stack), c <= d,
                      new[c].mode = "backup"
               PROVE  new[d].graph \in Library
    BY <1>8 DEF LibraryOK
  <2>1. c = Len(stack)
    BY <1>8, <1>9
  <2>2. d = Len(stack)
    BY <1>3, <2>1
  <2> QED BY <1>5, <1>8, <2>2 DEF Library
<1>11. \A d \in 1 .. Len(new) : LibEdges(new[d])
  <2>1. DOMAIN g.edges = {}
    BY <1>5
  <2>2. LibEdges(g)
    BY <2>1 DEF LibEdges, Pending
  <2> QED BY <1>3, <1>8, <2>2 DEF LibStack
<1>12. FallbackIn(new)
  BY <1>3, <1>5, <1>8 DEF FallbackIn
<1>13. DepthsOK(stack) => DepthsOK(new)
  <2> SUFFICES ASSUME DepthsOK(stack), NEW d \in 1 .. Len(stack)
               PROVE  /\ (\A c \in 1 .. d : new[c].mode # "backup") => d < MaxGraphDepth
                      /\ new[d].graph \in Library => d + Height(new[d].graph) <= MaxGraphDepth + 2
    BY <1>8 DEF DepthsOK
  <2>1. \A c \in 1 .. d : c \in 1 .. Len(stack)
    BY <1>3
  <2>2. d < MaxGraphDepth
    BY <1>9, <2>1 DEF DepthsOK
  <2>3. Height(new[d].graph) \in 0 .. 3
    BY Heights
  <2> QED BY <1>3, <2>2, <2>3
<1>14. Trusted => FlagOK("run", new, TRUE) /\ DepthsOK(new)
  BY <1>12, <1>13 DEF DInv, Trusted, FlagOK
<1>15. inBackupMode' = TRUE
  BY DEF CCTX_triggerBackupMode
<1> QED BY <1>1, <1>2, <1>3, <1>6, <1>10, <1>11, <1>14, <1>15 DEF DInv, Trusted, LibStack

(* The frames under the top one.                                           *)
LEMMA PopLib ==
    ASSUME NEW st \in Seq(Frame), st # <<>>, LibStack(st), NEW new,
           new = SubSeq(st, 1, Len(st) - 1)
    PROVE  /\ new \in Seq(Frame) /\ LibStack(new) /\ (DepthsOK(st) => DepthsOK(new))
           /\ FallbackIn(st) /\ st[Len(st)].mode # "backup" => FallbackIn(new)
           /\ Len(new) = Len(st) - 1
           /\ \A j \in 1 .. Len(new) : new[j] = st[j]
<1>1. Len(st) \in Nat /\ Len(st) # 0
  BY LenProperties, EmptySeq
<1>2. /\ new \in Seq(Frame) /\ Len(new) = Len(st) - 1
      /\ \A j \in 1 .. Len(st) - 1 : new[j] = st[j]
  <2>1. Len(st) - 1 \in 0 .. Len(st)
    BY <1>1
  <2> QED BY <1>1, <2>1, Prefix
<1>3. \A j \in 1 .. Len(st) - 1 : j \in 1 .. Len(st)
  BY <1>1
<1>4. \A j \in 1 .. Len(st) : j \in 1 .. Len(st) - 1 \/ j = Len(st)
  BY <1>1
<1>5. LibraryOK(new) /\ \A d \in 1 .. Len(new) : LibEdges(new[d])
  BY <1>2, <1>3 DEF LibStack, LibraryOK
<1>6. DepthsOK(st) => DepthsOK(new)
  <2>1. \A d \in 1 .. Len(st) - 1 : \A c \in 1 .. d : c \in 1 .. Len(st) - 1
    BY <1>1
  <2> QED BY <1>2, <1>3, <2>1 DEF DepthsOK
<1>7. FallbackIn(st) /\ st[Len(st)].mode # "backup" => FallbackIn(new)
  BY <1>2, <1>4 DEF FallbackIn
<1> QED BY <1>2, <1>5, <1>6, <1>7 DEF LibStack

(* CCTX_runSuccessor() returns: a fallback that succeeded takes the flag   *)
(* down, and no segmenter is under a graph that runs in backup mode.       *)
LEMMA ReturnsDepth ==
    ASSUME DInv, CCTX_runSuccessorReturns
    PROVE  DInv'
<1>1. PICK label \in {"ok", "err"} : AtGraph(label)
  BY DEF CCTX_runSuccessorReturns
<1>2. IInv' /\ IInv /\ UNCHANGED sessions
  BY ReturnStep DEF DInv, Trusted, CCTX_runSuccessorReturns, sessionVars
<1>3. /\ stack \in Seq(Frame) /\ stack # <<>> /\ phase = "run" /\ LibStack(stack)
      /\ Top.pc = label /\ Top = stack[Len(stack)]
  BY <1>1, TopDepth
<1>4. PICK callers : callers = Callers
  OBVIOUS
<1>5. /\ callers \in Seq(Frame) /\ LibStack(callers)
      /\ DepthsOK(stack) => DepthsOK(callers)
      /\ FallbackIn(stack) /\ Top.mode # "backup" => FallbackIn(callers)
  <2>1. callers = SubSeq(stack, 1, Len(stack) - 1)
    BY <1>4 DEF Callers, depth
  <2> QED BY <1>3, <2>1, PopLib
<1>6. ReturnTo(callers, label)
  BY <1>3, <1>4 DEF CCTX_runSuccessorReturns
<1>7. CASE label = "err"
  <2>1. ReturnTo(callers, "err")
    BY <1>6, <1>7
  <2>2. /\ LibStack(stack') /\ (DepthsOK(callers) => DepthsOK(stack'))
        /\ \A b : FlagOK(phase', stack', b)
    BY <1>5, <2>1, FailDepth
  <2> QED BY <1>2, <1>5, <2>2 DEF DInv, Trusted
<1>8. CASE label = "ok"
  <2>1. stack' = callers
    BY <1>6, <1>8 DEF ReturnTo
  <2>2. ASSUME Trusted, inBackupMode'
        PROVE  FallbackIn(callers) /\ phase' = "run"
    <3>1. inBackupMode /\ Top.mode # "backup"
      BY <1>3, <1>8, <2>2 DEF CCTX_runSuccessorReturns
    <3>2. FallbackIn(stack)
      BY <1>3, <1>8, <2>2, <3>1 DEF DInv, Trusted, FlagOK, FailLabels
    <3>3. FallbackIn(callers)
      BY <1>5, <3>1, <3>2
    <3>4. PICK c \in 1 .. Len(callers) : callers[c].mode = "backup"
      BY <3>3 DEF FallbackIn
    <3>5. Len(callers) \in Nat
      BY <1>5, LenProperties
    <3>6. Len(callers) # 0 /\ c <= Len(callers) /\ Len(callers) \in 1 .. Len(callers)
      BY <3>5
    <3>7. callers[Len(callers)].graph # "segmenter"
      BY <1>5, <3>4, <3>6 DEF LibStack, LibraryOK, Library
    <3> QED BY <1>6, <1>8, <3>3, <3>6, <3>7 DEF ReturnTo
  <2>3. Trusted => FlagOK(phase', callers, inBackupMode') /\ DepthsOK(callers)
    BY <1>5, <2>2 DEF FlagOK, DInv, Trusted
  <2> QED BY <1>2, <1>5, <2>1, <2>3 DEF DInv, Trusted
<1> QED BY <1>7, <1>8

(* CCTX_flushChunk() returns: no fallback is under way.                    *)
LEMMA FlushReturnsDepth ==
    ASSUME DInv, IInv', phase \in {"flush", "graph", "store"},
           NEW STATE r, r \in {"ok", "err"}, FlushReturns(r),
           UNCHANGED <<inBackupMode, sessions>>
    PROVE  DInv'
<1>1. IInv /\ LibStack(stack) /\ (Trusted => DepthsOK(stack) /\ ~ inBackupMode)
  BY DEF DInv, Trusted, FlagOK
<1>2. stack \in Seq(Frame) /\ Len(stack) \in Nat /\ (stack = <<>> <=> Len(stack) = 0)
  BY <1>1, LenProperties, EmptySeq DEF IInv, StackOK
<1>3. CASE depth = 0
  <2>1. stack' = stack /\ phase' = r
    BY <1>3 DEF FlushReturns
  <2>2. Trusted => FlagOK(phase', stack', inBackupMode') /\ DepthsOK(stack')
    BY <1>1, <2>1 DEF FlagOK
  <2> QED BY <1>1, <2>1, <2>2 DEF DInv, Trusted
<1>4. CASE depth # 0
  <2>1. PICK label : label = IF r = "ok" THEN "seg" ELSE "chunkErr"
    OBVIOUS
  <2>2. PICK g : g = [Top EXCEPT !.pc = label]
    OBVIOUS
  <2>3. SetTop(g) /\ phase' = "run"
    BY <1>4, <2>1, <2>2 DEF FlushReturns, Goto
  <2>4. stack # <<>> /\ Len(stack) \in 1 .. Len(stack) /\ Top = stack[Len(stack)]
    BY <1>2, <1>4 DEF depth, Top
  <2>5. Top \in Frame /\ LibEdges(Top)
    BY <1>1, <1>2, <2>4, ElementOfSeq DEF LibStack
  <2>6. /\ g \in Frame /\ g.graph = Top.graph /\ g.mode = Top.mode /\ g.edges = Top.edges
        /\ g.pc # "succ"
    BY <2>1, <2>2, <2>5 DEF Frame, PC
  <2>7. PICK new : new = stack'
    OBVIOUS
  <2>8. SameGraph(g, stack[Len(stack)]) /\ OnTop(new, stack, g)
    BY <2>3, <2>4, <2>5, <2>6, <2>7 DEF SameGraph, LibEdges, OnTop, SetTop, depth
  <2>9. LibStack(new) /\ (DepthsOK(stack) => DepthsOK(new))
    BY <1>1, <1>2, <2>4, <2>6, <2>8, TopLib
  <2>10. Trusted => FlagOK("run", new, inBackupMode) /\ DepthsOK(new)
    BY <1>1, <2>9 DEF FlagOK
  <2> QED BY <2>3, <2>7, <2>9, <2>10 DEF DInv, Trusted
<1> QED BY <1>3, <1>4

(* The chunk goes on: the flag is down, and stays so.                      *)
LEMMA OutsideDepth ==
    ASSUME DInv, IInv', phase \in {"idle", "start", "flush", "graph", "store", "ok"},
           phase' # "run", UNCHANGED <<stack, inBackupMode, sessions>>
    PROVE  DInv'
<1>1. Trusted => ~ inBackupMode
  BY DEF DInv, Trusted, FlagOK
<1>2. Trusted => FlagOK(phase', stack, inBackupMode)
  BY <1>1 DEF FlagOK
<1> QED BY <1>2 DEF DInv, Trusted

LEMMA GetFinalGraphDepth ==
    ASSUME DInv, GetFinalGraph
    PROVE  DInv'
<1>1. IInv' /\ phase = "flush" /\ UNCHANGED <<inBackupMode, sessions>>
  BY GetFinalGraphStep DEF DInv, Trusted, GetFinalGraph, sessionVars
<1>2. FlushReturns("err") \/ (phase' = "graph" /\ UNCHANGED stack)
  BY DEF GetFinalGraph
<1> QED BY <1>1, <1>2, FlushReturnsDepth, OutsideDepth

LEMMA ReplaceWithStoreDepth ==
    ASSUME DInv, CCTX_replaceChunkWithStore
    PROVE  DInv'
<1>1. IInv' /\ phase = "graph" /\ UNCHANGED <<inBackupMode, sessions>>
  BY ReplaceWithStoreStep DEF DInv, Trusted, CCTX_replaceChunkWithStore, sessionVars
<1>2. FlushReturns("err") \/ (phase' = "store" /\ UNCHANGED stack)
  BY DEF CCTX_replaceChunkWithStore
<1> QED BY <1>1, <1>2, FlushReturnsDepth, OutsideDepth

LEMMA WriteChunkDepth ==
    ASSUME DInv, WriteChunk
    PROVE  DInv'
<1>1. IInv' /\ phase \in {"graph", "store"} /\ UNCHANGED <<inBackupMode, sessions>>
  BY WriteChunkStep DEF DInv, Trusted, WriteChunk, sessionVars
<1>2. FlushReturns("err") \/ FlushReturns("ok")
  BY DEF WriteChunk
<1> QED BY <1>1, <1>2, FlushReturnsDepth

(* A segmenter is not under a fallback, nor over one.                      *)
LEMMA SegmenterApart ==
    ASSUME NEW st \in Seq(Frame), st # <<>>, LibStack(st), st[Len(st)].graph = "segmenter"
    PROVE  ~ FallbackIn(st)
<1> SUFFICES ASSUME NEW c \in 1 .. Len(st), st[c].mode = "backup" PROVE FALSE
  BY DEF FallbackIn
<1>1. c <= Len(st) /\ Len(st) \in 1 .. Len(st)
  BY LenProperties, EmptySeq
<1> QED BY <1>1 DEF LibStack, LibraryOK, Library

LEMMA ProcessChunkDepth ==
    ASSUME DInv, ZL_Segmenter_processChunk
    PROVE  DInv'
<1>1. AtGraph("seg") /\ UNCHANGED <<inBackupMode, sessions>>
  BY DEF ZL_Segmenter_processChunk, sessionVars
<1>2. IInv' /\ IInv
  BY ProcessChunkStep DEF DInv, Trusted
<1>3. /\ stack \in Seq(Frame) /\ stack # <<>> /\ phase = "run" /\ LibStack(stack)
      /\ Top \in Frame /\ Top.pc = "seg" /\ LibEdges(Top) /\ Top = stack[Len(stack)]
      /\ Len(stack) \in Nat /\ Len(stack) \in 1 .. Len(stack) /\ Top.graph = "segmenter"
  BY <1>1, TopDepth DEF FrameOK
<1>4. PICK callers, ins, f, none :
         /\ callers = [stack EXCEPT ![depth].pc = "chunk"] /\ none = <<>>
         /\ ins = [n \in DOMAIN inputs |-> n] /\ f = [Top EXCEPT !.pc = "chunk"]
  OBVIOUS
<1>5. PICK strs, g : g \in StartGraphs /\ CCTX_runSuccessor(callers, none, strs, g, ins)
  BY <1>4 DEF ZL_Segmenter_processChunk
<1>6. ins \in SidList /\ g \in Graphs /\ none \in Seq(Node)
  <2>1. inputs \in Seq(Kind) /\ inputs # <<>>
    BY <1>2, <1>3 DEF IInv, RestOK
  <2>2. ins \in SidList
    BY <1>4, <2>1, AllInputs
  <2>3. g \in Graphs
    BY <1>5 DEF Graphs
  <2> QED BY <1>4, <2>2, <2>3, EmptySeq
<1>7. /\ f \in Frame /\ f.graph = Top.graph /\ f.mode = Top.mode /\ f.edges = Top.edges
  BY <1>3, <1>4 DEF Frame, PC
<1>8. SameGraph(f, stack[Len(stack)]) /\ OnTop(callers, stack, f)
  <2>1. callers = [stack EXCEPT ![Len(stack)] = f]
    BY <1>4 DEF Top, depth
  <2> QED BY <1>3, <1>7, <2>1 DEF SameGraph, LibEdges, OnTop, Library
<1>9. /\ LibStack(callers) /\ (DepthsOK(stack) => DepthsOK(callers))
      /\ Len(callers) = Len(stack) /\ callers[Len(callers)] = f
  BY <1>3, <1>7, <1>8, TopLib
<1>10. callers \in Seq(Frame) /\ callers # <<>>
  <2>1. callers \in Seq(Frame)
    BY <1>3, <1>7, <1>8, ExceptSeq DEF OnTop
  <2> QED BY <1>3, <1>9, <2>1, EmptySeq
<1>11. ~ FallbackIn(callers) /\ ~ FallbackIn(stack)
  BY <1>3, <1>7, <1>9, <1>10, SegmenterApart
<1>12. ASSUME Trusted
       PROVE  DepthsOK(callers) /\ (inBackupMode => FallbackIn(callers))
  BY <1>3, <1>9, <1>11, <1>12 DEF DInv, Trusted, FlagOK, FailLabels
<1> QED BY <1>1, <1>2, <1>5, <1>6, <1>9, <1>10, <1>11, <1>12, RunSuccessorDepth

(* A segmenter that reports the failure of its chunk.                      *)
LEMMA ChunkFailedDepth ==
    ASSUME ~ Swallow, DInv, ChunkFailed
    PROVE  DInv'
<1>1. AtGraph("chunkErr") /\ Goto("err") /\ UNCHANGED <<phase, inBackupMode, sessions>>
  BY DEF ChunkFailed, sessionVars
<1>2. IInv'
  BY ChunkFailedStep DEF DInv, Trusted
<1> QED BY <1>1, <1>2, GotoDepth DEF PC, FailLabels

LEMMA SegmenterReturnsDepth ==
    ASSUME DInv, SegmenterReturns
    PROVE  DInv'
<1>1. /\ AtGraph("seg") /\ (Goto("err") \/ Goto("ok"))
      /\ UNCHANGED <<phase, inBackupMode, sessions>>
  BY DEF SegmenterReturns, sessionVars
<1>2. IInv'
  BY SegmenterReturnsStep DEF DInv, Trusted
<1>3. CASE Goto("err")
  BY <1>1, <1>2, <1>3, GotoDepth DEF PC, FailLabels
<1>4. CASE Goto("ok")
  BY <1>1, <1>2, <1>4, GotoDepth DEF PC, FailLabels
<1> QED BY <1>1, <1>3, <1>4

LEMMA StartCompressionDepth ==
    ASSUME DInv, CCTX_startCompression
    PROVE  DInv'
<1>1. /\ IInv' /\ phase = "idle" /\ phase' = "start"
      /\ UNCHANGED <<stack, inBackupMode, sessions>>
  BY StartCompressionStep DEF DInv, Trusted, CCTX_startCompression
<1> QED BY <1>1, OutsideDepth

(* An empty stack.                                                         *)
LEMMA EmptyLib ==
    ASSUME NEW st, st = <<>>
    PROVE  LibStack(st) /\ DepthsOK(st) /\ ~ FallbackIn(st)
<1>1. Len(st) = 0
  BY EmptySeq
<1>2. 1 .. Len(st) = {}
  BY <1>1
<1> QED BY <1>2 DEF LibStack, LibraryOK, DepthsOK, FallbackIn

LEMMA RunStartingGraphDepth ==
    ASSUME DInv, RunStartingGraph
    PROVE  DInv'
<1>1. IInv' /\ IInv /\ phase = "start" /\ UNCHANGED <<inBackupMode, sessions>>
  BY RunStartingGraphStep DEF DInv, Trusted, RunStartingGraph, sessionVars
<1>2. PICK ins, none : ins = [n \in DOMAIN inputs |-> n] /\ none = <<>>
  OBVIOUS
<1>3. PICK g \in StartGraphs : CCTX_runSuccessor(none, nodes, streams, g, ins)
  BY <1>2 DEF RunStartingGraph
<1>4. ins \in SidList /\ g \in Graphs /\ none \in Seq(Frame) /\ nodes \in Seq(Node)
  <2>1. inputs \in Seq(Kind) /\ inputs # <<>> /\ nodes \in Seq(Node)
    BY <1>1 DEF IInv, RestOK, GraphOK
  <2>2. ins \in SidList
    BY <1>2, <2>1, AllInputs
  <2> QED BY <1>2, <2>1, <2>2, EmptySeq DEF Graphs
<1>5. LibStack(none) /\ DepthsOK(none) /\ ~ FallbackIn(none)
  BY <1>2, EmptyLib
<1>6. Trusted => ~ inBackupMode
  BY <1>1 DEF DInv, Trusted, FlagOK
<1> QED BY <1>1, <1>3, <1>4, <1>5, <1>6, RunSuccessorDepth

(* Sessions are counted.                                                   *)
LEMMA SessionsGrow ==
    ASSUME [Next]_vars
    PROVE  sessions' = sessions \/ sessions' = sessions + 1
<1>1. CASE UNCHANGED vars \/ Rest
  BY <1>1 DEF vars, Rest
<1>2. CASE CCTX_startCompression
  BY <1>2 DEF CCTX_startCompression
<1>3. CASE KeepInput \/ ConvertInput \/ StartGraph \/ RunStartingGraph
  BY <1>3 DEF KeepInput, ConvertInput, StartGraph, RunStartingGraph, sessionVars
<1>4. CASE ZL_Edge_runMultiInputNode \/ ZL_Edge_setDestination \/ SetDestinationTwice
  BY <1>4 DEF ZL_Edge_runMultiInputNode, ZL_Edge_setDestination, SetDestinationTwice,
              sessionVars
<1>5. CASE UserGraphReturns \/ Redirect \/ ZL_GRAPH_COMPRESS1
  BY <1>5 DEF UserGraphReturns, Redirect, ZL_GRAPH_COMPRESS1, sessionVars
<1>6. CASE RunNextSuccessor \/ SuccessorsDone
  BY <1>6 DEF RunNextSuccessor, SuccessorsDone, sessionVars
<1>7. CASE CCTX_runSuccessorReturns \/ CCTX_triggerBackupMode
  BY <1>7 DEF CCTX_runSuccessorReturns, CCTX_triggerBackupMode, sessionVars
<1>8. CASE GetFinalGraph \/ CCTX_replaceChunkWithStore \/ WriteChunk
  BY <1>8 DEF GetFinalGraph, CCTX_replaceChunkWithStore, WriteChunk, sessionVars
<1>9. CASE ZL_Segmenter_processChunk \/ ChunkFailed \/ SegmenterReturns
  BY <1>9 DEF ZL_Segmenter_processChunk, ChunkFailed, SegmenterReturns, sessionVars
<1>10. CASE CCTX_clean
  BY <1>10 DEF CCTX_clean
<1> QED BY <1>1, <1>2, <1>3, <1>4, <1>5, <1>6, <1>7, <1>8, <1>9, <1>10 DEF Next

(* A context that is not permissive never raises the flag.                 *)
StrictOK == TRUE \notin PermissiveModes => ~ permissive /\ ~ inBackupMode

LEMMA StrictStep == StrictOK /\ [Next]_vars => StrictOK'
<1> SUFFICES ASSUME StrictOK, [Next]_vars, TRUE \notin PermissiveModes
             PROVE  ~ permissive' /\ ~ inBackupMode'
  BY DEF StrictOK
<1>1. ~ permissive /\ ~ inBackupMode
  BY DEF StrictOK
<1>2. CASE UNCHANGED vars \/ Rest
  BY <1>1, <1>2 DEF vars, Rest
<1>3. CASE CCTX_startCompression
  BY <1>1, <1>3 DEF CCTX_startCompression
<1>4. CASE KeepInput \/ ConvertInput \/ StartGraph \/ RunStartingGraph
  BY <1>1, <1>4 DEF KeepInput, ConvertInput, StartGraph, RunStartingGraph, sessionVars
<1>5. CASE ZL_Edge_runMultiInputNode \/ ZL_Edge_setDestination \/ SetDestinationTwice
  <2>1. permissive' = permissive /\ inBackupMode' = inBackupMode
    BY <1>5 DEF ZL_Edge_runMultiInputNode, ZL_Edge_setDestination, SetDestinationTwice,
                sessionVars
  <2> QED BY <1>1, <2>1
<1>6. CASE UserGraphReturns \/ Redirect \/ ZL_GRAPH_COMPRESS1
  BY <1>1, <1>6 DEF UserGraphReturns, Redirect, ZL_GRAPH_COMPRESS1, sessionVars
<1>7. CASE RunNextSuccessor \/ SuccessorsDone
  BY <1>1, <1>7 DEF RunNextSuccessor, SuccessorsDone, sessionVars
<1>8. CASE CCTX_triggerBackupMode
  BY <1>1, <1>8 DEF CCTX_triggerBackupMode, MayFallBack
<1>9. CASE CCTX_runSuccessorReturns
  BY <1>1, <1>9 DEF CCTX_runSuccessorReturns, sessionVars
<1>10. CASE GetFinalGraph \/ CCTX_replaceChunkWithStore \/ WriteChunk
  BY <1>1, <1>10 DEF GetFinalGraph, CCTX_replaceChunkWithStore, WriteChunk, sessionVars
<1>11. CASE ZL_Segmenter_processChunk \/ ChunkFailed \/ SegmenterReturns
  BY <1>1, <1>11 DEF ZL_Segmenter_processChunk, ChunkFailed, SegmenterReturns, sessionVars
<1>12. CASE CCTX_clean
  BY <1>1, <1>12 DEF CCTX_clean
<1> QED BY <1>2, <1>3, <1>4, <1>5, <1>6, <1>7, <1>8, <1>9, <1>10, <1>11, <1>12 DEF Next

(* CCTX_clean() does not take the flag down: nothing is said of the next   *)
(* session of a permissive context.                                        *)
LEMMA CleanDepth ==
    ASSUME DInv, StrictOK, CCTX_clean
    PROVE  DInv'
<1>1. /\ IInv' /\ IInv /\ UNCHANGED <<stack, inBackupMode>> /\ phase \in {"ok", "err"}
      /\ phase' = "idle" /\ sessions' = sessions + 1 /\ sessions \in Nat
  BY CleanStep DEF DInv, CCTX_clean, IInv, RestOK
<1>2. sessions' # 0
  BY <1>1
<1>3. stack = <<>>
  BY <1>1 DEF IInv, PhaseOK
<1>4. LibStack(stack) /\ DepthsOK(stack)
  BY <1>3, EmptyLib
<1>5. TRUE \notin PermissiveModes => FlagOK("idle", stack, inBackupMode)
  BY DEF StrictOK, FlagOK
<1> QED BY <1>1, <1>2, <1>4, <1>5 DEF DInv, Trusted

LEMMA InitDepth == Init => DInv /\ StrictOK
<1> SUFFICES ASSUME Init PROVE DInv /\ StrictOK
  OBVIOUS
<1>1. IInv /\ stack = <<>> /\ ~ inBackupMode /\ ~ permissive
  BY InitOK DEF Init
<1>2. LibStack(stack) /\ DepthsOK(stack)
  BY <1>1, EmptyLib
<1>3. FlagOK(phase, stack, inBackupMode)
  BY <1>1 DEF FlagOK
<1> QED BY <1>1, <1>2, <1>3 DEF DInv, StrictOK

(* Every step preserves the invariant: one lemma per action.               *)
LEMMA NextDepth ==
    ASSUME ~ Swallow
    PROVE  DInv /\ StrictOK /\ [Next]_vars => DInv'
<1> SUFFICES ASSUME DInv, StrictOK, [Next]_vars PROVE DInv'
  OBVIOUS
<1>1. CASE UNCHANGED vars
  <2>1. IInv'
    BY <1>1, NextOK DEF DInv
  <2> QED BY <1>1, <2>1, SameDepth DEF vars
<1>2. CASE Rest
  BY <1>1, <1>2 DEF Rest
<1> QED
  BY <1>1, <1>2, StartCompressionDepth, RunStartingGraphDepth, KeepInputDepth,
     ConvertInputDepth, StartGraphDepth, RunNodeDepth, SetDestinationDepth,
     SetDestinationTwiceDepth, UserGraphReturnsDepth, RedirectDepth,
     Compress1Depth, RunNextSuccessorDepth, SuccessorsDoneDepth,
     TriggerBackupDepth, ReturnsDepth, GetFinalGraphDepth, ReplaceWithStoreDepth,
     WriteChunkDepth, ProcessChunkDepth, ChunkFailedDepth, SegmenterReturnsDepth,
     CleanDepth DEF Next

(* How deep the invariant lets the stack be.                               *)
LEMMA DepthIs ==
    ASSUME DInv, Trusted
    PROVE  depth <= MaxGraphDepth + 2 /\ UserGraphDepthBounded
<1>1. DepthsOK(stack) /\ LibStack(stack) /\ stack \in Seq(Frame)
  BY DEF DInv, IInv, StackOK
<1>2. DOMAIN stack = 1 .. Len(stack) /\ Len(stack) \in Nat
  BY <1>1, LenProperties
<1>3. ASSUME NEW d \in 1 .. Len(stack), stack[d].graph \notin Library
      PROVE  d < MaxGraphDepth
  <2>1. ASSUME NEW c \in 1 .. d PROVE stack[c].mode # "backup"
    <3>1. c \in 1 .. Len(stack) /\ c <= d
      BY <1>2
    <3> QED BY <1>1, <1>3, <3>1 DEF LibStack, LibraryOK
  <2> QED BY <1>1, <2>1 DEF DepthsOK
<1>4. ASSUME NEW d \in 1 .. Len(stack) PROVE d <= MaxGraphDepth + 2
  <2>1. CASE stack[d].graph \in Library
    <3>1. d + Height(stack[d].graph) <= MaxGraphDepth + 2
      BY <1>1, <2>1 DEF DepthsOK
    <3>2. Height(stack[d].graph) \in 0 .. 3
      BY Heights
    <3> QED BY <1>2, <3>1, <3>2
  <2>2. CASE stack[d].graph \notin Library
    BY <1>2, <1>3, <2>2
  <2> QED BY <2>1, <2>2
<1>5. depth <= MaxGraphDepth + 2
  <2>1. CASE Len(stack) = 0
    BY <2>1 DEF depth
  <2>2. CASE Len(stack) # 0
    BY <1>2, <1>4, <2>2 DEF depth
  <2> QED BY <2>1, <2>2
<1>6. \A graph \in UserGraphs : graph \notin Library
  BY DEF UserGraphs, Library
<1> QED BY <1>2, <1>3, <1>5, <1>6 DEF UserGraphDepthBounded

(* `Depth limit: catch runaway recursion in user-defined graphs'           *)
(* (cctx.c:1388): in the first session of a context, or in all of them     *)
(* without permissive mode, and when segmenters report the failure of      *)
(* their chunks, no user graph runs at ZL_MAX_GRAPH_DEPTH or below, and    *)
(* fallbacks reach two levels beyond.  Without the hypotheses it is false: *)
(* inBackupMode stays up after a fallback failed.                          *)
THEOREM RecursionIsBounded ==
    ASSUME ~ Swallow
    PROVE  Spec => [](Trusted => depth <= MaxGraphDepth + 2 /\ UserGraphDepthBounded)
<1>1. Init => DInv /\ StrictOK
  BY InitDepth
<1>2. DInv /\ StrictOK /\ [Next]_vars => (DInv /\ StrictOK)'
  BY NextDepth, StrictStep
<1>3. DInv /\ StrictOK => (Trusted => depth <= MaxGraphDepth + 2 /\ UserGraphDepthBounded)
  BY DepthIs
<1> QED BY <1>1, <1>2, <1>3, PTL DEF Spec

(* Both invariants together: where the flag is reliable the depth fits the *)
(* C type by itself, and streams stay alive as long as they are needed.    *)
THEOREM StreamsStayAlive ==
    ASSUME PlainRoutes, ~ Swallow, MaxGraphDepth + 2 <= UINT_MAX
    PROVE  Spec => [](Trusted => InputsHeld /\ EdgesHeld)
<1> DEFINE Inv == DInv /\ StrictOK /\ (Trusted => HInv)
<1>1. Init => Inv
  BY InitDepth, InitHeld
<1>2. Inv /\ [Next]_vars => Inv'
  <2> SUFFICES ASSUME Inv, [Next]_vars PROVE Inv'
    OBVIOUS
  <2>1. (DInv /\ StrictOK)'
    BY NextDepth, StrictStep
  <2>2. ASSUME Trusted' PROVE HInv'
    <3>1. Trusted
      <4>1. sessions \in Nat
        BY DEF DInv, IInv, RestOK
      <4>2. sessions' = sessions \/ sessions' = sessions + 1
        BY SessionsGrow
      <4>3. sessions' = 0 => sessions = 0
        BY <4>1, <4>2
      <4> QED BY <2>2, <4>3, Zenon DEF Trusted
    <3>2. depth <= MaxGraphDepth + 2 /\ depth \in Nat
      <4>1. stack \in Seq(Frame)
        BY DEF DInv, IInv, StackOK
      <4> QED BY <3>1, <4>1, DepthIs, LenProperties DEF depth
    <3>3. depth <= UINT_MAX
      BY <3>2 DEF UINT_MAX
    <3> QED BY <3>1, <3>3, NextHeld
  <2> QED BY <2>1, <2>2
<1>3. Inv => (Trusted => InputsHeld /\ EdgesHeld)
  BY HeldInputs, HeldEdges
<1> HIDE DEF Inv
<1> QED BY <1>1, <1>2, <1>3, PTL DEF Spec

=============================================================================
