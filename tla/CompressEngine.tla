---------------------------- MODULE CompressEngine ----------------------------
(***************************************************************************)
(* The compression engine of a ZL_CCtx (compress/cctx.c): the depth-first  *)
(* execution of a graph of graphs.  A graph function runs nodes on its     *)
(* edges and gives every edge it keeps a destination; when it returns the  *)
(* destinations run, one after the other, one level deeper.  In permissive *)
(* mode an error is answered, at the depth where it is caught, by undoing  *)
(* what was built since and running the generic graph on the same inputs.  *)
(*                                                                         *)
(* The recursion of the C functions is the variable `stack': frame d is    *)
(* the activation of CCTX_runSuccessor() with depth = d, and the functions *)
(* it calls down to the graph function.  Nothing is concurrent: the top    *)
(* frame takes the next step.  What is open is what the graphs of the user *)
(* do, and which operation fails.                                          *)
(***************************************************************************)
EXTENDS FinalGraph

CONSTANTS
    MaxGraphDepth,   \* ZL_MAX_GRAPH_DEPTH
    MaxInputs,       \* bound: inputs of a session
    InputKinds,      \* kinds of the inputs of a session
    NodeShapes,      \* [out1s, vos, kind]: outputs a user node may have
    StartGraphs,     \* graphs a session or a chunk may start with
    Destinations,    \* graphs a user graph may send its edges to
    PermissiveModes, \* values of ZL_CParam_permissiveCompression in use
    Swallow,         \* TRUE: user callbacks may go on after an error
    RepeatEdges,     \* TRUE: a node may be given the same edge twice
    MaxChunks,       \* bound: chunks a segmenter cuts
    MaxSessions      \* bound: compressions run on the same context

Graphs == {"user", "serialUser", "generic", "compress1", "store1",
           "serialStore", "segmenter"}
UserGraphs == {"user", "serialUser"}

ASSUME EngineAssumption ==
    /\ MaxGraphDepth \in Nat \ {0}
    /\ MaxInputs \in Nat \ {0}
    /\ InputKinds \subseteq Kind /\ InputKinds # {}
    /\ NodeShapes \subseteq [out1s : Nat, vos : Nat, kind : Kind]
    /\ StartGraphs \subseteq Graphs
    /\ Destinations \subseteq Graphs
    /\ PermissiveModes \subseteq BOOLEAN
    /\ Swallow \in BOOLEAN /\ RepeatEdges \in BOOLEAN
    /\ MaxChunks \in Nat /\ MaxSessions \in Nat

VARIABLES
    nodes,           \* rtgraph.nodes
    streams,         \* rtgraph.streams
    stack,           \* activations of CCTX_runSuccessor()
    inBackupMode,    \* cctx->inBackupMode
    segmenterDepth,  \* cctx->segmenterDepth
    numSegments,     \* cctx->numSegments
    numChunks,       \* segmenter->numChunks
    sent,            \* segments in trHeaders.sentHeaderStream
    inputs,          \* cctx->inputs: kinds of the session's inputs
    permissive,      \* applied ZL_CParam_permissiveCompression
    phase,           \* where the session is, outside of the stack
    sessions         \* compressions finished on this context

vars == <<nodes, streams, stack, inBackupMode, segmenterDepth, numSegments,
          numChunks, sent, inputs, permissive, phase, sessions>>

graphVars == <<nodes, streams, sent>>
sessionVars == <<inputs, permissive, sessions>>
segmentVars == <<segmenterDepth, numSegments, numChunks>>

-----------------------------------------------------------------------------
(* Frames.  An edge is a DG_StreamCtx; a "trigger" edge also holds the     *)
(* DestGraphDesc it leads to.                                              *)
EdgeState == {"unassigned", "trigger", "follow", "processed"}
SidList == Seq(Nat) \ {<<>>}
Edge == [sid : Nat, st : EdgeState, graph : Graphs, with : SidList]

(* Faulty: SCTX_initInput() leaves the state of the edge as it is.         *)
EdgeUninitialized(sid) ==
    [sid |-> sid, st |-> "garbage", graph |-> "generic", with |-> <<sid>>]

NewEdge(sid) ==
    [sid |-> sid, st |-> "unassigned", graph |-> "generic", with |-> <<sid>>]

(* pc of a frame that runs a graph: "enter", CCTX_runSupervisedGraphID()   *)
(* looks at input number `next'; "fn", the graph function runs; "succ",    *)
(* CCTX_runSuccessors() is at edge number `next'; "ok" and "err", it       *)
(* returned.  A segmenter is at "seg" in its own code, at "chunk" while a  *)
(* chunk runs, and at "chunkErr" when ZL_Segmenter_processChunk() failed.  *)
(* mode: "normal", "small" (STORE1 replaces the graph), "backup".          *)
PC == {"enter", "fn", "succ", "seg", "chunk", "chunkErr", "ok", "err"}
Mode == {"normal", "small", "backup"}
Frame == [graph : Graphs, ins : SidList, segmentable : BOOLEAN,
          nodesBefore : Nat, mode : Mode, pc : PC, edges : Seq(Edge),
          next : Nat \ {0}, status : BOOLEAN]

depth == Len(stack)
Top == stack[depth]
Callers == SubSeq(stack, 1, depth - 1)
SetTop(frame) == stack' = [stack EXCEPT ![depth] = frame]
Goto(label) == SetTop([Top EXCEPT !.pc = label])

(* The caller's frame when a call failed.                                  *)
Failed(frame) ==
    [frame EXCEPT !.pc = IF frame.graph = "segmenter" THEN "chunkErr"
                         ELSE "err"]

(* A call returns "ok" or "err" to the frame on top of callers, or, from   *)
(* depth 1, to CCTX_startCompression().  CCTX_runSuccessors() stops at the *)
(* first error; ZL_Segmenter_processChunk() flushes on success.            *)
ReturnTo(callers, r) ==
    LET k == Len(callers)
        toSegmenter == k > 0 /\ callers[k].graph = "segmenter"
    IN  /\ stack' = IF k = 0 \/ r = "ok" THEN callers
                    ELSE [callers EXCEPT ![k] = Failed(callers[k])]
        /\ phase' =
             IF r = "ok" /\ (toSegmenter \/ (k = 0 /\ numSegments = 0))
             THEN "flush"
             ELSE IF k = 0 THEN r ELSE "run"

-----------------------------------------------------------------------------
(* CCTX_runSuccessor(): the depth limit, the route to a segmenter, the     *)
(* guard on the inputs.                                                    *)

(* Faulty: one level too many.                                             *)
DepthExceededLate(d) == d > MaxGraphDepth /\ ~ inBackupMode

DepthExceeded(d) == d >= MaxGraphDepth /\ ~ inBackupMode

(* A segmenter must be given the whole input, before any node has run.     *)
IsSegmentable(nds, ins) ==
    /\ ins[1] = 1
    /\ Len(ins) = Len(inputs)
    /\ numSegments = 0
    /\ segmenterDepth = 0
    /\ Len(nds) = 0

(* A single input below minStreamSize is stored at once.                   *)
IsSmall(strs, graph, ins) ==
    graph # "serialStore" /\ Len(ins) = 1 /\ strs[ins[1]].kind = "tiny"

NewFrame(graph, ins, segmentable, nds, mode, pc) ==
    [graph |-> graph, ins |-> ins, segmentable |-> segmentable,
     nodesBefore |-> Len(nds), mode |-> mode, pc |-> pc,
     edges |-> <<>>, next |-> 1, status |-> FALSE]

(* CCTX_runSegmenter(): types are checked, then SEGM_init() takes its own  *)
(* references to the inputs and empties the runtime graph.                 *)
CCTX_runSegmenter(callers, nds, strs, ins) ==
    \/ /\ stack' = Append(callers, NewFrame("segmenter", ins, TRUE, nds,
                                            "normal", "seg"))
       /\ nodes' = <<>> /\ streams' = <<>>
       /\ segmenterDepth' = Len(callers) + 1
       /\ numChunks' = 0
       /\ phase' = "run"
    \/ /\ ReturnTo(callers, "err")      \* input types need a conversion
       /\ nodes' = nds /\ streams' = strs
       /\ UNCHANGED <<segmenterDepth, numChunks>>

CCTX_runSuccessor(callers, nds, strs, graph, ins) ==
    LET d == Len(callers) + 1
        segmentable == IsSegmentable(nds, ins)
    IN  IF DepthExceeded(d) \/ (graph = "segmenter" /\ ~ segmentable)
        THEN /\ ReturnTo(callers, "err")
             /\ nodes' = nds /\ streams' = strs
             /\ UNCHANGED <<segmenterDepth, numChunks>>
        ELSE IF graph = "segmenter"
        THEN CCTX_runSegmenter(callers, nds, strs, ins)
        ELSE /\ stack' = Append(callers,
                   IF IsSmall(strs, graph, ins)
                   THEN NewFrame("store1", ins, segmentable, nds, "small",
                                 "enter")
                   ELSE NewFrame(graph, ins, segmentable, nds, "normal",
                                 "enter"))
             /\ nodes' = nds
             /\ streams' = RTGM_guardRTStream(strs, ins, d)
             /\ phase' = "run"
             /\ UNCHANGED <<segmenterDepth, numChunks>>

-----------------------------------------------------------------------------
(* The session: CCTX_startCompression() and the clean-up after it.         *)

CCTX_startCompression ==
    /\ phase = "idle" /\ sessions < MaxSessions
    /\ \E n \in 1 .. MaxInputs : inputs' \in [1 .. n -> InputKinds]
    /\ permissive' \in PermissiveModes
    /\ streams' = RTGM_refInputs(inputs')
    /\ numSegments' = 0 /\ segmenterDepth' = 0
    /\ phase' = "start"
    /\ UNCHANGED <<nodes, sent, stack, inBackupMode, numChunks, sessions>>

RunStartingGraph ==
    /\ phase = "start"
    /\ \E g \in StartGraphs :
          CCTX_runSuccessor(<<>>, nodes, streams, g,
                            [n \in DOMAIN inputs |-> n])
    /\ UNCHANGED <<sent, inBackupMode, numSegments, sessionVars>>

(* CCTX_clean(), which every session ends with, whatever its result.       *)
CCTX_clean ==
    /\ phase \in {"ok", "err"}
    /\ nodes' = <<>> /\ streams' = <<>> /\ sent' = 0
    /\ segmenterDepth' = 0
    /\ phase' = "idle"
    /\ sessions' = sessions + 1
    /\ UNCHANGED <<stack, inBackupMode, numSegments, numChunks, inputs,
                   permissive>>

-----------------------------------------------------------------------------
(* CCTX_runSupervisedGraphID(): implicit conversions, then STORE or the    *)
(* graph function.                                                         *)

AcceptsKind(graph, kind) ==
    graph \in {"serialStore", "serialUser"} => kind # "typed"

(* CCTX_runCNode_wParams(): the node enters the graph, its transform       *)
(* creates `made' streams; on success the inputs that nothing protects are *)
(* freed.  It can also end with the node or the stream vector full, or     *)
(* with an error of the transform; the node then stays in the graph.       *)
NodeRuns(ins, shape, made, result) ==
    LET outs == RTGM_addStreams(streams, shape.out1s, made, shape.kind)
    IN  CASE result = "ok" ->
               /\ CanPushNode(nodes) /\ Len(outs) <= StreamLimit
               /\ nodes' = RTGM_createNode(nodes, streams, ins, shape.out1s,
                                           made)
               /\ streams' = RTGM_clearRTStream(outs, ins, 0)
          [] result = "failed" ->
               /\ CanPushNode(nodes) /\ Len(outs) <= StreamLimit
               /\ nodes' = RTGM_createNode(nodes, streams, ins, shape.out1s,
                                           made)
               /\ streams' = outs
          [] result = "noStream" ->
               /\ CanPushNode(nodes)
               /\ ~ CanGrowStreams(streams, shape.out1s)
               /\ nodes' = RTGM_createNode(nodes, streams, ins, shape.out1s, 0)
               /\ UNCHANGED streams
          [] result = "noNode" ->
               /\ ~ CanPushNode(nodes)
               /\ UNCHANGED <<nodes, streams>>

AtGraph(label) == phase = "run" /\ depth > 0 /\ Top.pc = label

ConversionShape == [out1s |-> 1, vos |-> 0, kind |-> "serial"]

(* One turn of the loop of CCTX_convertInputs().                           *)
KeepInput ==
    /\ AtGraph("enter") /\ Top.next <= Len(Top.ins)
    /\ AcceptsKind(Top.graph, streams[Top.ins[Top.next]].kind)
    /\ SetTop([Top EXCEPT !.edges = Append(@, NewEdge(Top.ins[Top.next])),
                          !.next = @ + 1])
    /\ UNCHANGED <<graphVars, inBackupMode, segmentVars, sessionVars, phase>>

ConvertInput ==
    /\ AtGraph("enter") /\ Top.next <= Len(Top.ins)
    /\ ~ AcceptsKind(Top.graph, streams[Top.ins[Top.next]].kind)
    /\ \/ /\ NodeRuns(<<Top.ins[Top.next]>>, ConversionShape, 1, "ok")
          /\ SetTop([Top EXCEPT
                       !.edges = Append(@, NewEdge(Len(streams) + 1)),
                       !.next = @ + 1])
       \/ /\ \E r \in {"failed", "noStream", "noNode"} :
                NodeRuns(<<Top.ins[Top.next]>>, ConversionShape, 0, r)
          /\ Goto("err")
    /\ UNCHANGED <<sent, inBackupMode, segmentVars, sessionVars, phase>>

StartGraph ==
    /\ AtGraph("enter") /\ Top.next > Len(Top.ins)
    /\ IF Top.graph = "serialStore"
       THEN /\ streams' = RTGM_storeStream(streams, Top.edges[1].sid)
            /\ Goto("ok")
       ELSE /\ SetTop([Top EXCEPT !.pc = "fn", !.next = 1])
            /\ UNCHANGED streams
    /\ UNCHANGED <<nodes, sent, inBackupMode, segmentVars, sessionVars, phase>>

-----------------------------------------------------------------------------
(* The graph functions.  A user graph calls ZL_Edge_runMultiInputNode()    *)
(* and ZL_Edge_setDestination() in any order, then returns.                *)

AtUserFn == AtGraph("fn") /\ Top.graph \in UserGraphs

Unassigned(edges) == {i \in DOMAIN edges : edges[i].st = "unassigned"}

(* One edge, or two edges in either order.                                 *)
EdgeLists(choice) ==
    {<<i>> : i \in choice} \cup
    {e \in choice \X choice : RepeatEdges \/ e[1] # e[2]}

Sids(edges, list) == [k \in DOMAIN list |-> edges[list[k]].sid]

(* Faulty: the inputs of the node can be used again.                       *)
InputsStayFree(edges, list, made) ==
    edges \o [k \in 1 .. made |-> NewEdge(Len(streams) + k)]

ProcessEdges(edges, list, made) ==
    [i \in DOMAIN edges |->
        IF i \in Range(list) THEN [edges[i] EXCEPT !.st = "processed"]
        ELSE edges[i]]
    \o [k \in 1 .. made |-> NewEdge(Len(streams) + k)]

(* ZL_Edge_runMultiInputNode(): all the edges must be free.  An error is   *)
(* returned to the graph function and is not recorded in gctx->status.     *)
ZL_Edge_runMultiInputNode ==
    /\ AtUserFn
    /\ \E list \in EdgeLists(Unassigned(Top.edges)), shape \in NodeShapes :
         LET ins == Sids(Top.edges, list)
         IN  \E made \in 0 .. shape.out1s + shape.vos :
               \/ /\ NodeRuns(ins, shape, made, "ok")
                  /\ SetTop([Top EXCEPT
                               !.edges = ProcessEdges(@, list, made)])
               \/ /\ \/ NodeRuns(ins, shape, made, "failed")
                     \/ /\ made = 0
                        /\ \E r \in {"noStream", "noNode"} :
                              NodeRuns(ins, shape, made, r)
                  /\ Goto("err") \/ (Swallow /\ UNCHANGED stack)
    /\ UNCHANGED <<sent, inBackupMode, segmentVars, sessionVars, phase>>

OneInput(graph) == graph \in {"compress1", "store1", "serialStore"}

AssignEdges(edges, list, graph) ==
    [i \in DOMAIN edges |->
        IF i = list[1]
        THEN [edges[i] EXCEPT !.st = "trigger", !.graph = graph,
                              !.with = Sids(edges, list)]
        ELSE IF i \in Range(list) THEN [edges[i] EXCEPT !.st = "follow"]
        ELSE edges[i]]

(* Faulty: the state of an edge is not looked at.                          *)
AnyEdges(edges) == DOMAIN edges

(* The edges that ZL_Edge_setParameterizedDestination() accepts.           *)
FreeEdges(edges) == Unassigned(edges)

(* An edge that is not free, or that comes twice in the same list, is      *)
(* refused.  The edge before it in the list is already taken.              *)
RefusedDestination(edges, list) ==
    \E k \in DOMAIN list : \/ list[k] \notin FreeEdges(edges)
                           \/ \E j \in 1 .. k - 1 : list[j] = list[k]

TakeFirst(edges, list) ==
    [i \in DOMAIN edges |->
        IF i = list[1] /\ i \in FreeEdges(edges)
        THEN [edges[i] EXCEPT !.st = "trigger"]
        ELSE edges[i]]

ZL_Edge_setDestination ==
    /\ AtUserFn
    /\ \E list \in EdgeLists(FreeEdges(Top.edges)), g \in Destinations :
         /\ OneInput(g) => Len(list) = 1
         /\ ~ RefusedDestination(Top.edges, list)
         /\ SetTop([Top EXCEPT !.edges = AssignEdges(@, list, g)])
    /\ UNCHANGED <<graphVars, inBackupMode, segmentVars, sessionVars, phase>>

(* The error is recorded in gctx->status, in case the function ignores it. *)
SetDestinationTwice ==
    /\ AtUserFn /\ Swallow
    /\ \E list \in EdgeLists(DOMAIN Top.edges) :
         /\ RefusedDestination(Top.edges, list)
         /\ SetTop([Top EXCEPT !.edges = TakeFirst(@, list),
                               !.status = TRUE])
    /\ UNCHANGED <<graphVars, inBackupMode, segmentVars, sessionVars, phase>>

(* CCTX_runGraph_internal() after the function: its report, gctx->status,  *)
(* GCTX_checkSuccessors().                                                 *)
UserGraphReturns ==
    /\ AtUserFn
    /\ \/ Goto("err")
       \/ /\ ~ Top.status
          /\ permissive \/ Unassigned(Top.edges) = {}
          /\ SetTop([Top EXCEPT !.pc = "succ", !.next = 1])
    /\ UNCHANGED <<graphVars, inBackupMode, segmentVars, sessionVars, phase>>

(* MultiInputGraph_compress() and SI_selector_store(): every edge gets the *)
(* same destination.                                                       *)
AllTo(edges, graph) ==
    [i \in DOMAIN edges |-> [edges[i] EXCEPT !.st = "trigger",
                                            !.graph = graph]]

Redirect ==
    /\ AtGraph("fn") /\ Top.graph \in {"generic", "store1"}
    /\ SetTop([Top EXCEPT
                 !.edges = AllTo(@, IF Top.graph = "generic"
                                    THEN "compress1" ELSE "serialStore"),
                 !.pc = "succ"])
    /\ UNCHANGED <<graphVars, inBackupMode, segmentVars, sessionVars, phase>>

(* The library's graph for one stream, down to its codec: it stores the    *)
(* stream, or runs one node and stores the output; an error is reported.   *)
ZL_GRAPH_COMPRESS1 ==
    /\ AtGraph("fn") /\ Top.graph = "compress1"
    /\ \/ /\ SetTop([Top EXCEPT !.edges = AllTo(@, "store1"), !.pc = "succ"])
          /\ UNCHANGED <<nodes, streams>>
       \/ /\ NodeRuns(<<Top.edges[1].sid>>, ConversionShape, 1, "ok")
          /\ SetTop([Top EXCEPT
                       !.edges = <<[Top.edges[1] EXCEPT !.st = "processed"]>>
                         \o AllTo(<<NewEdge(Len(streams) + 1)>>, "store1"),
                       !.pc = "succ"])
       \/ /\ \E r \in {"failed", "noStream", "noNode"} :
                NodeRuns(<<Top.edges[1].sid>>, ConversionShape, 0, r)
          /\ Goto("err")
    /\ UNCHANGED <<sent, inBackupMode, segmentVars, sessionVars, phase>>

-----------------------------------------------------------------------------
(* CCTX_runSuccessors(): in the order of the edges.  In permissive mode an *)
(* edge without destination goes to the generic graph.                     *)

Pending(frame) ==
    {i \in DOMAIN frame.edges :
        i >= frame.next /\ frame.edges[i].st \in {"trigger", "unassigned"}}

(* Faulty: the loop does not advance.                                      *)
SameSuccessorAgain ==
    /\ AtGraph("succ")
    /\ \E i \in Pending(Top) :
         /\ \A j \in Pending(Top) : i <= j
         /\ CCTX_runSuccessor(stack, nodes, streams,
                              Top.edges[i].graph, Top.edges[i].with)
    /\ UNCHANGED <<sent, inBackupMode, numSegments, sessionVars>>

RunNextSuccessor ==
    /\ AtGraph("succ")
    /\ \E i \in Pending(Top) :
         /\ \A j \in Pending(Top) : i <= j
         /\ CCTX_runSuccessor([stack EXCEPT ![depth].next = i + 1],
                              nodes, streams,
                              Top.edges[i].graph, Top.edges[i].with)
    /\ UNCHANGED <<sent, inBackupMode, numSegments, sessionVars>>

SuccessorsDone ==
    /\ AtGraph("succ") /\ Pending(Top) = {}
    /\ Goto("ok")
    /\ UNCHANGED <<graphVars, inBackupMode, segmentVars, sessionVars, phase>>

(* Faulty: a backup under way is not looked at.                            *)
MayFallBackAgain(frame, d) ==
    /\ frame.mode = "normal" /\ frame.graph # "segmenter"
    /\ permissive
    /\ ~ (segmenterDepth # 0 /\ d <= segmenterDepth)

(* CCTX_runSuccessor_internal() on an error: permissive mode, no backup    *)
(* under way, and not above a segmenter.                                   *)
MayFallBack(frame, d) ==
    /\ frame.mode = "normal" /\ frame.graph # "segmenter"
    /\ permissive /\ ~ inBackupMode
    /\ ~ (segmenterDepth # 0 /\ d <= segmenterDepth)

(* CCTX_triggerBackupMode(), after RTGM_clearNodesFrom().                  *)
CCTX_triggerBackupMode ==
    /\ AtGraph("err") /\ MayFallBack(Top, depth)
    /\ nodes' = NodesUpTo(nodes, Top.nodesBefore)
    /\ streams' = StreamsBeforeNode(nodes, streams, Top.nodesBefore)
    /\ inBackupMode' = TRUE
    /\ SetTop([Top EXCEPT !.graph = "generic", !.mode = "backup",
                          !.pc = "enter", !.edges = <<>>, !.next = 1,
                          !.status = FALSE])
    /\ UNCHANGED <<sent, segmentVars, sessionVars, phase>>

(* CCTX_runSuccessor() returns: backup mode ends if it succeeded, and the  *)
(* inputs are freed unless a segmenter was possible at that place.         *)
CCTX_runSuccessorReturns ==
    /\ AtGraph("ok") \/ (AtGraph("err") /\ ~ MayFallBack(Top, depth))
    /\ inBackupMode' = (inBackupMode /\ ~ (Top.mode = "backup" /\ Top.pc = "ok"))
    /\ streams' = IF Top.segmentable THEN streams
                  ELSE RTGM_clearRTStream(streams, Top.ins, depth)
    /\ ReturnTo(Callers, Top.pc)
    /\ UNCHANGED <<nodes, sent, segmentVars, sessionVars>>

-----------------------------------------------------------------------------
(* CCTX_flushChunk(), for the only chunk of a session (empty stack) or for *)
(* a chunk of the segmenter on top of the stack.  In the second case       *)
(* ZL_Segmenter_processChunk() counts the chunk and cleans up, whatever    *)
(* the result.                                                             *)

CCTX_cleanChunk == nodes' = <<>> /\ streams' = <<>> /\ sent' = 0

FlushReturns(r) ==
    IF depth = 0
    THEN phase' = r /\ UNCHANGED <<stack, graphVars, numChunks>>
    ELSE /\ Goto(IF r = "ok" THEN "seg" ELSE "chunkErr")
         /\ phase' = "run"
         /\ numChunks' = numChunks + 1
         /\ CCTX_cleanChunk

(* The transforms' headers are copied, in the order of decoding, to the    *)
(* stream the chunk starts with.                                           *)
GetFinalGraph ==
    /\ phase = "flush"
    /\ IF FinalGraphAllowed(nodes, streams)
       THEN /\ sent' = sent + Len(nodes)
            /\ phase' = "graph"
            /\ UNCHANGED <<nodes, streams, stack, numChunks>>
       ELSE FlushReturns("err")
    /\ UNCHANGED <<inBackupMode, segmenterDepth, numSegments, sessionVars>>

(* ZL_GRAPH_STORE on fresh references to the inputs: serial inputs are     *)
(* stored as they are, typed ones after a conversion node.                 *)
NbTyped(kinds, n) == Cardinality({m \in 1 .. n : kinds[m] = "typed"})

(* Input number j of the typed ones: the one after those that see fewer.   *)
TypedInput(kinds, j) ==
    Cardinality({n \in 1 .. Len(kinds) : NbTyped(kinds, n) < j}) + 1

StoreNodes(kinds) ==
    [j \in 1 .. NbTyped(kinds, Len(kinds)) |->
        [ins |-> <<TypedInput(kinds, j)>>, start |-> Len(kinds) + j,
         out1s |-> 1, outs |-> 1]]

StoreStreams(kinds) ==
    [n \in DOMAIN kinds |->
        [NewStream(kinds[n]) EXCEPT !.toStore = (kinds[n] # "typed")]]
    \o [j \in 1 .. NbTyped(kinds, Len(kinds)) |->
          [NewStream("serial") EXCEPT !.toStore = TRUE]]

(* CCTX_replaceChunkWithStore(): the compressed chunk is not smaller than  *)
(* its content, or its header does not fit.                                *)
CCTX_replaceChunkWithStore ==
    /\ phase = "graph" /\ Len(nodes) > 0
    /\ \/ /\ FinalGraphAllowed(StoreNodes(inputs), StoreStreams(inputs))
          /\ nodes' = StoreNodes(inputs)
          /\ streams' = StoreStreams(inputs)
          /\ sent' = Len(nodes')
          /\ phase' = "store"
          /\ UNCHANGED <<stack, numChunks>>
       \/ FlushReturns("err")
    /\ UNCHANGED <<inBackupMode, segmenterDepth, numSegments, sessionVars>>

(* The chunk is copied to the frame, or does not fit in it.                *)
WriteChunk ==
    /\ phase \in {"graph", "store"}
    /\ \/ numSegments' = numSegments + 1 /\ FlushReturns("ok")
       \/ UNCHANGED numSegments /\ FlushReturns("err")
    /\ UNCHANGED <<inBackupMode, segmenterDepth, sessionVars>>

-----------------------------------------------------------------------------
(* The segmenter function.  What it consumes of the inputs is modelled in  *)
(* Segmenter.tla; here it cuts some chunks and each of them runs a graph.  *)

(* A slice of a serial input can be shorter than minStreamSize.            *)
ChunkKinds ==
    {kinds \in [DOMAIN inputs -> Kind] :
        \A n \in DOMAIN inputs :
            kinds[n] = inputs[n] \/ (inputs[n] = "serial" /\ kinds[n] = "tiny")}

ZL_Segmenter_processChunk ==
    /\ AtGraph("seg") /\ numChunks < MaxChunks
    /\ \E kinds \in ChunkKinds, g \in StartGraphs :
          CCTX_runSuccessor([stack EXCEPT ![depth].pc = "chunk"],
                            <<>>, RTGM_refInputs(kinds), g,
                            [n \in DOMAIN inputs |-> n])
    /\ UNCHANGED <<sent, inBackupMode, numSegments, sessionVars>>

(* processChunk() failed: the function reports it, or goes on.             *)
ChunkFailed ==
    /\ AtGraph("chunkErr")
    /\ Goto("err") \/ (Swallow /\ Goto("seg"))
    /\ UNCHANGED <<graphVars, inBackupMode, segmentVars, sessionVars, phase>>

(* SEGM_runSegmenter(): post-conditions of the segmenter function.         *)
SegmenterReturns ==
    /\ AtGraph("seg")
    /\ Goto("err") \/ (numChunks > 0 /\ Goto("ok"))
    /\ UNCHANGED <<graphVars, inBackupMode, segmentVars, sessionVars, phase>>

(* The bound on the number of sessions is reached.                         *)
Rest ==
    /\ phase = "idle" /\ sessions = MaxSessions
    /\ UNCHANGED vars

-----------------------------------------------------------------------------
Init ==
    /\ nodes = <<>> /\ streams = <<>> /\ stack = <<>>
    /\ inBackupMode = FALSE /\ segmenterDepth = 0
    /\ numSegments = 0 /\ numChunks = 0 /\ sent = 0
    /\ inputs = <<>> /\ permissive = FALSE
    /\ phase = "idle" /\ sessions = 0

Next ==
    \/ CCTX_startCompression
    \/ RunStartingGraph
    \/ KeepInput
    \/ ConvertInput
    \/ StartGraph
    \/ ZL_Edge_runMultiInputNode
    \/ ZL_Edge_setDestination
    \/ SetDestinationTwice
    \/ UserGraphReturns
    \/ Redirect
    \/ ZL_GRAPH_COMPRESS1
    \/ RunNextSuccessor
    \/ SuccessorsDone
    \/ CCTX_triggerBackupMode
    \/ CCTX_runSuccessorReturns
    \/ GetFinalGraph
    \/ CCTX_replaceChunkWithStore
    \/ WriteChunk
    \/ ZL_Segmenter_processChunk
    \/ ChunkFailed
    \/ SegmenterReturns
    \/ CCTX_clean
    \/ Rest

Spec == Init /\ [][Next]_vars

(* The program is sequential: it takes its next step until the call ends,  *)
(* and the callbacks of the user return.                                   *)
FairSpec == Spec /\ WF_vars(Next)

-----------------------------------------------------------------------------
(* Properties.                                                             *)

(* Every variable has its type; the stack only exists during a run.        *)
TypeOK ==
    /\ nodes \in Seq(Node)
    /\ streams \in Seq(Stream)
    /\ stack \in Seq(Frame)
    /\ inBackupMode \in BOOLEAN
    /\ segmenterDepth \in Nat
    /\ numSegments \in Nat /\ numChunks \in Nat /\ sent \in Nat
    /\ inputs \in Seq(Kind)
    /\ permissive \in BOOLEAN
    /\ phase \in {"idle", "start", "run", "flush", "graph", "store", "ok",
                  "err"}
    /\ sessions \in Nat
    /\ (phase = "run" => stack # <<>>)
    /\ (phase \in {"idle", "start", "ok", "err"} => stack = <<>>)

(* `It only works in a serial "depth first" strategy, so that all nodes    *)
(* and streams created after nbNodesBefore are necessarily descendants of  *)
(* the current Successor' (cctx.c:1356).  The number of nodes every        *)
(* activation remembers stays meaningful, the outer ones the smaller, and  *)
(* the first stream of every node stays in or next to the vector, in the   *)
(* order of the nodes: cutting both vectors at any of them is possible.    *)
RevertPoints ==
    /\ \A d \in DOMAIN stack : stack[d].nodesBefore <= Len(nodes)
    /\ \A d, e \in DOMAIN stack :
          d <= e => stack[d].nodesBefore <= stack[e].nodesBefore
    /\ \A m \in DOMAIN nodes : nodes[m].start <= Len(streams) + 1
    /\ \A m, n \in DOMAIN nodes : m <= n => nodes[m].start <= nodes[n].start

(* The frames that still use the runtime graph.  SEGM_init() empties it    *)
(* under the frames that led to the segmenter, so those must neither fall  *)
(* back nor free their inputs.                                             *)
ActiveDepths ==
    {d \in DOMAIN stack : \/ d > segmenterDepth
                          \/ stack[d].mode = "backup"
                          \/ ~ stack[d].segmentable}

Alive(sid) == sid \in DOMAIN streams /\ streams[sid].live

(* The inputs of a graph stay alive until CCTX_runSuccessor() returns,     *)
(* whatever the nodes and successors below it did, failed or freed: the    *)
(* fallback runs again on them.  This is what guard and clear ranks, the   *)
(* `isSegmentable' test and the limits of RTGM_clearNodesFrom() are for.   *)
InputsHeld ==
    \A d \in ActiveDepths : \A s \in Range(stack[d].ins) : Alive(s)

(* An edge that still can be used, by the running graph function or as the *)
(* input of a successor that has not run yet, leads to a live stream:      *)
(* running earlier successors and freeing their inputs does not take it.   *)
EdgesHeld ==
    \A d \in ActiveDepths :
        /\ stack[d].pc = "fn" =>
              \A i \in Unassigned(stack[d].edges) :
                  Alive(stack[d].edges[i].sid)
        /\ stack[d].pc = "succ" =>
              \A i \in Pending(stack[d]) :
                  \A s \in Range(stack[d].edges[i].with) : Alive(s)

(* The assertions of RTGM_guardRTStream() (rtgraphs.c:503,508) at the next *)
(* successor: its inputs are not stored yet, and their rank is smaller     *)
(* than the depth of the successor.                                        *)
GuardPrecondition ==
    \A d \in ActiveDepths :
        stack[d].pc = "succ" =>
            \A i \in Pending(stack[d]) :
                stack[d].edges[i].graph # "segmenter" =>
                    \A s \in Range(stack[d].edges[i].with) :
                        Alive(s) => /\ ~ streams[s].toStore
                                    /\ streams[s].rank <= d

(* `Recursive backup shouldn't happen' (cctx.c:1273): while a fallback     *)
(* runs, none of the frames under it or over it is another fallback, and   *)
(* the flag that suspends the depth limit is up.                           *)
NoRecursiveBackup ==
    \A d \in DOMAIN stack :
        stack[d].mode = "backup" =>
            /\ inBackupMode
            /\ \A e \in DOMAIN stack : stack[e].mode = "backup" => e = d

(* `Depth limit: catch runaway recursion in user-defined graphs'           *)
(* (cctx.c:1388): no user graph runs at ZL_MAX_GRAPH_DEPTH or below.       *)
UserGraphDepthBounded ==
    \A d \in DOMAIN stack : stack[d].graph \in UserGraphs => d < MaxGraphDepth

(* A chunk that is about to be written decodes: the decoder accepts its    *)
(* graph, every stream of the encoder is either stored or regenerated by   *)
(* the one transform that consumed it, and the transforms' headers are the *)
(* ones of this graph and of no other.                                     *)
WrittenChunkDecodes ==
    phase \in {"graph", "store"} =>
        /\ ChunkDecodes(nodes, streams, Len(inputs))
        /\ sent = Len(nodes)

(* A compression ends, with a result, whatever graphs recurse into each    *)
(* other and however often their nodes fail.                               *)
SessionEnds == (phase = "start") ~> (phase \in {"ok", "err"})
=============================================================================
