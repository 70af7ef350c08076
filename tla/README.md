# A TLA+ model of the OpenZL core

This directory holds TLA+ specifications of the core of OpenZL (the C library
under `src/src/openzl`) and of the thread pool of its training tools, the TLC
configurations that check them and TLAPS proofs about them. The specifications
follow the code; line references are to the repository at the commit this
directory is kept beside. `PROJECT.json` is the
machine-readable index: components, runs, mutants, the map from definitions to
source lines, findings, hazards and theorems.

    cd tla
    tlc -workers 2 -config EngineFull.cfg MCCompressEngine
    tlapm CompressEngine_proofs.tla

## 1. The system and its parts

OpenZL compresses typed inputs by running *graphs*. A graph function looks at
its input streams (*edges*), runs *nodes* (transforms with several inputs and
outputs) on them, and sends every edge it keeps to a *destination*, another
graph, which runs one level deeper. A graph of graphs ends in STORE. What was
executed is the *runtime graph*; its nodes in reverse order, with positions of
streams, are the chunk header, and the stored streams are the chunk content.
The universal decoder runs the transforms backwards, knowing nothing of the
graph functions that chose them. A *segmenter* is a graph that cuts the inputs
into chunks, each of which is compressed by a graph of its own.

The library is sequential: no thread, no lock, no message. What makes it hard
is that user callbacks (graph functions, segmenters, transforms) run in the
middle of the engine, in any order and with any error; that an error is
answered, in permissive mode, by undoing part of the work in place and trying
again; that buffers are freed eagerly during the recursion, shared with a cache,
or written in place; and that the contexts are reused for the next chunk and the
next session. Only the training tools (`src/tools/training`) have threads: a
pool whose tasks compress samples, and trainers that wait for them.

| Component | State | Operations | Interacts with | What makes it correct |
|---|---|---|---|---|
| Compression engine (`compress/cctx.c`, `dyngraph_interface.c`) | C call stack, `inBackupMode`, `segmenterDepth`, `numSegments`, `trHeaders` | start, runSuccessor, convertInputs, runGraph, setDestination, runNode, runSuccessors, triggerBackupMode, flushChunk, cleanChunk, clean | calls graph functions and transforms; owns the runtime graph; called back by the segmenter | a successful chunk decodes; an error is contained; recursion ends |
| Runtime graph (`compress/rtgraphs.c`) | vectors of nodes and streams, protection ranks, storage marks | createNode, addStream, storeStream, guard, clear, clearNodesFrom | used by the engine only | streams live as long as someone needs them; reverting is exact |
| Final graph, decoder reconstruction (`cctx.c`, `decompress/decompress2.c`) | header record, decoder slots | getFinalGraph, listBuffersToStore, fillStoredStreams | the frame is the only link | decoding inverts encoding |
| Segmenter (`compress/segmenter.c`) | `consumed[]`, `numChunks`, slices | init, processChunk, runSegmenter | calls the engine per chunk, is called by it | chunks cover the inputs, once and in order |
| Standard segmenters (`compress/segmenters`) | none | cut into fixed sizes | callbacks of the segmenter | sizes add up, one chunk for old formats |
| Compression session, parameters (`compress2.c`, `gcparams.c`, `cctx.c`) | requested and applied parameters, compressor, starting graph, comment, session arena, destination cursor | setParameter, refCompressor, selectStartingGraphID, addHeaderComment, compress, resetParameters | engine, frame header | a frame shows what was asked for; settings do not leak or dangle |
| Decompression session (`decompress2.c`, `gdparams.c`) | applied parameters, outputs, position in the frame | decode header, decode chunks, append, verify, end | final graph, decoders | outputs hold what was compressed or the call fails |
| Writing into the output (`decompress2.c`, `ZL_AppendToOutputOptimization`) | head and tail of the output, streams of the inputs | register, commitInputs, newStreamHook, preTransformHook | decoders and their output streams | the concatenation, in order, nothing overwritten |
| Codec output cache (`codec_output_cache.c`, `enc_interface.c`, `cctx.c`) | entries, budget, activation, borrowing | enable, lookup, replay, store, disable, reset | streams of runtime graphs refer to its entries; derived contexts borrow it | replay equals run; lifetime; budget |
| Frame header (`encode_frameheader.c`, `decode_frameheader.c`) | none | encode, decode | sessions | versions, checksums |
| Codecs (`codecs/`) | none | encode, decode | nodes of the engine, transforms of the decoder | inverse of each other; damaged streams are refused or decoded inside their bounds |
| Thread pool and its users (`tools/training`) | task queue, stop flag, condition variable, futures | run, wait, pop, get, destroy | trainers, `tryCompress()`, Pareto combination, explorer | every task runs once and ends; nothing refers to a scope that was left |
| Decoder fusion (`decoder_fusion.c`, `decompress2.c`) | table of fusions, marks on the transforms of a chunk, streams | register, clear, match, run, skip, run fused | decoders call each other through it | same streams regenerated, each stream made and freed once |
| Frame reflection | none | inspect | decoder | |
| Compressor registries (`cgraph.c`, `graphmgr.c`, `nodemgr.c`, ...) | registered nodes, graphs, names | register, lookup | read by the engine | built before a session, immutable in it |
| Dictionaries, serialization | bundles; none | load; CBOR | registries | parsing |
| Allocation (`common/allocation.c`) | primary buffer with its capacity, use and history; vector of heap blocks | malloc, realloc, free, freeAll, freeArena | contexts keep everything of a session in an arena | slices apart; nothing leaked or freed twice; the buffer fits the use |
| Streams, errors | buffers, reference counts | alloc, commit, ref, free | everywhere | no use after free |
| Entropy coders, SDDL, clustering, bindings, CLI, other tools | none or numeric | transforms of data | callbacks of the engine | inverse of each other |

`PROJECT.json` lists them all with the status of each.

### What is hard to test here

`hazards` in `PROJECT.json` lists them, each at its line. They fall into eight
groups:

- **Partial failure.** A graph fails after some of its nodes and successors ran
  and freed or stored streams; a session or a decode fails half way; one task of
  several throws. What was done must be undone, or kept as after a success.
- **State that outlives its scope.** `inBackupMode`, transforms' headers, nodes
  of the chunk before, the runtime graph a segmenter empties under its callers,
  sticky settings in a freed arena, cached outputs that streams refer to.
- **Callbacks that do something legal but unexpected.** The same edge twice, an
  error ignored, a request for more than is left.
- **Positions and order.** The decoder knows which stream is which only by
  counting; inputs of a concatenation are regenerated in any order and written
  in place from one end and moved from the other.
- **Limits and edges.** Vectors, destination, budget and reservations that are
  exactly full; rank 0 compared after an intended unsigned underflow; runs,
  sentinels and vector loads at the ends of their ranges.
- **Damage.** Truncated, extended and altered frames, and streams that do not
  match their header.
- **Termination.** Graphs select each other; the fallback suspends the depth
  limit that normally ends the recursion.
- **Threads.** Lost wakeups, tasks that wait for tasks of the same pool, the
  destructor, callers that unwind under running tasks.

## 2. Modules

| Module | Models | Kind |
|---|---|---|
| `RTGraph` | `rtgraphs.c`: the two vectors and the operators on them | operators |
| `FinalGraph` | `CCTX_getFinalGraph()`, `RTGM_listBuffersToStore()`; `fillStoredStreams()` | operators, with the reference definition `ChunkDecodes` |
| `CompressEngine` | `cctx.c`, `dyngraph_interface.c` and the two library graphs the engine itself relies on | state machine, composes the two above |
| `InputCover` | the promise of a chunked frame | abstract specification |
| `Segmenter` | `segmenter.c`, slices of `stream.c` | state machine, refines `InputCover` |
| `FrameFormat` | what a frame carries and its checksums cover, by version | operators |
| `SessionContract` | the promises of `zl_compress.h` about settings and sessions | abstract specification |
| `CompressSession` | `compress2.c`, `gcparams.c` and the settings in `cctx.c` | actions, refines `SessionContract` |
| `DecompressSession` | `ZL_DCtx_decompressMultiTBuffer()` and below, `gdparams.c` | actions |
| `FrameSession` | the two contexts, the frames between them and their damage | state machine, composes the two above |
| `AppendToOutput` | `ZL_AppendToOutputOptimization` of `decompress2.c` | state machine |
| `DecoderFusion` | `decoder_fusion.c`, `.h`; `fillStoredStreams()` and `runDecoders()` of `decompress2.c` | state machine |
| `Arena` | stack and heap arena of `allocation.c` | state machine |
| `CodecCache` | `codec_output_cache.c`, its use in `enc_interface.c` and by `tryGraph()` | state machine |
| `CodecKernels` | bindings and kernels of seven codecs | operators |
| `Codecs` | encode, damage, decode | state machine over `CodecKernels` |
| `TrainingPool` | `thread_pool.h`, `.cpp` and its callers | state machine with threads |
| `CompressEngine_proofs`, `Arena_proofs`, `CodecCache_proofs`, `Codecs_proofs`, `TrainingPool_proofs` | the module they are named after | proofs |
| `Session_proofs` | `FrameSession` and `Segmenter` | proofs |
| `CompressBooks_proofs` | that what `CompressEngine` writes decodes; extends `CompressEngine_proofs` | proofs |
| `Decoder_proofs` | `DecoderFusion` and `AppendToOutput` | proofs |
| `MC...` | | instances for TLC |

Definitions called or commented *Faulty* in the modules are the mutated forms
`PROJECT.json` names: each replaces one definition of the code by the way it could be wrong,
and TLC then finds the property violated.

### RTGraph and FinalGraph

A stream keeps `live` (its buffer is there), `toStore`, its protection `rank`
and its `kind`; a node keeps its inputs, its first stream, the number of
singleton outputs it declares and the number of outputs it made. Ids are
positions, from 1 where the C code counts from 0; only differences leave the
encoder. The kinds are what the engine tells apart: `serial`, `typed` (needs a
conversion node before it can be stored) and `tiny` (below `minStreamSize`).
The protection rank is compared with wrap-around as in the code
(`RTGM_clearRTStream`).

`CCTX_getFinalGraph` builds the header record and `DecoderAccepts`, `RegenIdx`
and `StoredAt` rebuild the decoder's slots from that record alone, with the
decoder's own checks. `ChunkDecodes` is the reference: slot *q* of the decoder
is stream *T - q* of the encoder, as a stored buffer or regenerated by the
transform that consumed it.

### CompressEngine

The C recursion is the variable `stack`: frame *d* is the activation of
`CCTX_runSuccessor()` at depth *d* with the graph it runs, its inputs, the
number of nodes before it, its edges and its place in the code (`pc`). Only the
top frame moves. Correspondence of the actions:

| Action | Code |
|---|---|
| `CCTX_startCompression`, `RunStartingGraph` | `CCTX_startCompression()` |
| `KeepInput`, `ConvertInput`, `StartGraph` | `CCTX_runSupervisedGraphID()`, `CCTX_convertInputs()`, STORE |
| `ZL_Edge_runMultiInputNode` | `ZL_Edge_runMultiInputNode_withParams()`, `CCTX_runCNode_wParams()`: success, transform error, either vector full |
| `ZL_Edge_setDestination`, `SetDestinationTwice` | `ZL_Edge_setParameterizedDestination()`: accepted, refused |
| `UserGraphReturns` | `CCTX_runGraph_internal()` after the function, `GCTX_checkSuccessors()` |
| `Redirect`, `ZL_GRAPH_COMPRESS1` | `MultiInputGraph_compress()`, `SI_selector_store()`, the generic graph of one stream |
| `RunNextSuccessor`, `SuccessorsDone` | `CCTX_runSuccessors()` |
| operator `CCTX_runSuccessor` | depth limit, segmenter route, small-input rule, guard |
| `CCTX_triggerBackupMode` | the fallback, `RTGM_clearNodesFrom()` included |
| `CCTX_runSuccessorReturns` | end of `CCTX_runSuccessor()`: backup flag, freeing of inputs |
| `GetFinalGraph`, `CCTX_replaceChunkWithStore`, `WriteChunk` | `CCTX_flushChunk()` |
| `ZL_Segmenter_processChunk`, `ChunkFailed`, `SegmenterReturns` | `segmenter.c` as the engine sees it |
| `CCTX_clean` | `CCTX_clean()`, after every session |

The user is the nondeterminism: which node, on which one or two edges, in which
order, with which outcome; which destinations; whether an error is passed on
(`Swallow`) and whether an edge may be given twice to a node (`RepeatEdges`).

### Segmenter and InputCover

`consumed[]` advances when a chunk is cut (`CutChunk`), before its graph runs
(`RunChunkGraph`) and before it is written (`CCTX_flushChunk`), as in
`ZL_Segmenter_processChunk()`. A request is compared input by input with the
size of the whole input. `InputCover` says what a frame promises: every input is
delivered in order, and the frame is complete only when everything was.
The refinement maps `delivered` to the end of the last chunk written.

### CompressSession, DecompressSession, FrameSession, SessionContract

A context keeps what the user asked for (`req`, `comment`), the compressor it
refers to (`cgraph`), and during a session the parameters that are applied: the
user's, then the compressor's, then the library's. `BeginSession` is the part of
`CCTX_compressInputs_withGraphSet_stage2()` and its callers before the first
byte, with every early return; `WriteFrameHeader`, `FlushChunk` and
`WriteFooter` write, or fail for lack of room; all exits end in `EndSession`,
which is `CCTX_clean()` with the reset of the parameters that are not sticky.
The copies a context makes in its session arena become `Freed` when the arena is
freed and something still points to them.

`DecompressSession` is the loop of `ZL_DCtx_decompressMultiTBuffer()`:
`BeginDecode` reads the header and looks at the output, `ZL_DCtx_decompressChunk`
verifies and appends one chunk, `EndDecode` does the final checks. `Truncated` is
a frame that ends where a chunk or the end marker should be. `FrameSession`
passes a frame from one to the other, as it is, with a chunk changed or lost,
truncated, extended, or with another size in its header.

`SessionContract` is what the headers promise of a context: the settings in
force are those made since the last session, or all if sticky; a comment is for
one frame; a failed session leaves the context as a successful one does.
`KeepsContract` is the refinement.

### AppendToOutput

`cut` is where in the chunk each input ends. A byte is the number of its place in
the finished output, so that the buffer is right where each byte is its own
position, and `Garbage` is what a decoder may leave in capacity that it reserved
and does not use. `st.head` and `st.tail` are the first and last input not moved yet, `headPtr` and
`tailPtr` the free gap between the two ends. The other decoders are
nondeterministic: any order, one or several inputs at a time, streams that were
stored, are created with any excess capacity (`NewStream`), or refer to an
existing buffer (`RefStream`). `CommitInputs` is `commitInputs()`,
`NewStreamHook` is the decision to let a decoder write in place, `JoinTail` the
final move. `EndDecoder` is what `DCTX_runDecoder()` does after the decoder has
returned, `DCTX_validateNodeOutputs()` included: a slot that is empty, for
whatever reason, fails the chunk.

### DecoderFusion

`table` is `ZL_DecoderFusionState`: the sorted array, the map from a parent codec
to its range, and whether the array pointed to is still there. Between chunks
`RegisterFusion` and `ClearFusions` change it; a registration may fail after the
array was enlarged, or leave a map with only some of its ranges.

| Action | Code |
|---|---|
| `AddTransform` | one turn of the loop of `fillStoredStreams()`: the transform's place over the slots, the static checks, `maybeFuse()` and the marks |
| `FillStored` | the rest of `fillStoredStreams()` |
| `RunDecoder` | `DCTX_runDecoder()` of a transform that is not fused |
| `SkipChild`, `StartFused`, `EndFused` | `runFusedDecoder()` |
| `RunCodec`, `SupplyChild` | what a fused decoder may do in between: run one of its codecs, or make a child's streams itself |

The transforms are any the header checks accept. What a fused decoder computes is
left out, and what it does is a free choice within what its callers in the
library do. `ReallocMoves` says whether `realloc()` may move what it enlarges.

### Arena

`pba` is the stack arena: whether the primary buffer is there, its capacity, what
is used of it, `wouldHaveNeeded`, `sessionUsage` and `wasted`. `ptrs` and `index`
are the vector of the heap arena and the place each block remembers in it.
`slices` and `blocks` are what the user holds; a slice is known by its offset and
becomes an orphan when the buffer goes away under it. A `Request` is
`ALLOC_StackArena_malloc()`: served by a new buffer, by the buffer, or by the
heap arena, which may fail. `Reset` is the end of a session, with the halving of
a buffer that was too large.

In `AnyUse` the user asks, enlarges and releases in any order. At the end of some
session it may `Settle` on a plan, a sequence of sizes that every later session
asks for; only then does memory not run out, and only then is there fairness.

### CodecCache

`ctxs` is the stack of contexts: the user's, and one derived from it for each
`tryGraph()` under way. `Enable`, `Disable` and `CleanChunk` are what
`ZL_Graph_tryMultiInputGraph()` and `CCTX_cleanChunk()` do to the private cache;
`RunCodec` is the lookup, replay or run and store of `enc_interface.c`. A stream
records which cache it refers to, if it does.

What a codec makes (`ResultOf`) and whether it may be cached are modelled apart.
The result depends on the code, its parameters, all of its inputs and on the state
it reads (`Reads`): a custom codec's own, its dictionary, its materialized
parameter, what a reference parameter refers to, what a pointer in copied bytes
points to. All of these may change between two compressions without a trace
(`ChangeHidden`). `Eligible` and `KeyOf` are the checks and the fields of
`CodecCache_buildKey()` and know nothing of `Reads`: no custom code at the end of
the chain of bases, no dictionary, no materialized parameter, no reference
parameter, no strings; the standard node, the bytes of the local parameters,
version and levels, the bytes of the input. That there is one input is tested by
the caller (`CacheFor`), that no output has strings when it is stored
(`MayInsert`). Of the built-in codecs the model takes over what the audit in
`codec_output_cache.c:311` says of them: of the global parameters they consult
version and levels only, and nothing of the context.

### CodecKernels and Codecs

`CodecKernels` has encoder and decoder of delta, zigzag, range_pack, sentinel,
merge_sorted, sparse_num and prefix with their bindings: what the header holds,
which inputs are refused, all checks of the decoder. Integers keep a width; the
widths are scaled down in the run (a byte has 4 values) so that every wrap-around,
sentinel value, full bitset and longest distance occurs. `Codecs` encodes an input,
changes at most one element, length or header field, and decodes.

The loop of a kernel is a recursive function from the number of turns to the state
after them, and its body an operator of its own: `SentinelEncodeElement`,
`SentinelDecodeElement`, `Vote`, `ScanElement`, `EncodeSparseElement`,
`DecodePrefixElement`, `SplitValue`. The merge of merge_sorted has the heap of the
code: `SwapUp` and `SwapDown` are a turn of `heapifyUp()` and `heapifyDown()`,
`AdvanceRun` is what a turn of the merge does to one run, `MergeTurn` a turn. The
`while` loops have as many turns as could be needed; those after the last one
change nothing.

In the vector code of prefix, `low`, `high` and `top` are the bounds of what was
touched: the load and the store of a blend, and what `ZS_wildcopy()` may read and
write past the bytes it copies (`ReachOf`, by `ZS_WILDCOPY_OVERLENGTH`).

### TrainingPool

One critical section of `queueMutex_` is one step; what happens outside of it is
a step of its own, so that a notification may come before or after a thread goes
to sleep, and a caller may unwind while a thread takes the next task.

| Action | Code |
|---|---|
| `Sleep`, `SpuriousWakeup`, `Pop`, `WorkerExit` | the loop of a thread (`thread_pool.cpp`) |
| `RunTask`, `RunCost` | the packaged task, which may throw; the last task of `tryCompress()`, which gets the futures of its samples |
| `Submit`, `NotifyOne` | `ThreadPool::run()` |
| `GetFuture`, `LeaveScope` | reading the futures, end of the scope the tasks refer to |
| `SetStop`, `NotifyAll`, `JoinThreads` | `~ThreadPool()` |

`Callers` are the ways the tools use the pool, in everything that calls `run()`:

| Pattern | Code | Tasks and futures |
|---|---|---|
| `join` | `getBackendGraphSelections()`, `joinBenchmarks()` (`pareto_combination.cpp:136`) | a task per candidate; gets every future, rethrows at the end |
| `trainer` | `FullSplitTrainer`, `BottomUpTrainer::buildTrainedFullSplitConfig()`, `GreedyTrainer::initSimilarInputs()` (`greedy_trainer.cpp:230`), `filterParetoFrontier()`, `LzGeneticAlgorithm::computeFitness()` (`lz_genetic_algorithm.cpp:276`) | a task per candidate; the first exception of a `get()` leaves the scope |
| `greedy` | the other loops of `GreedyTrainer` | `tryCompress()` per candidate, that is a task per sample and one that gets theirs; then the costs |
| `bottomUp` | `BottomUpTrainer::getTrainedClusteringConfig()` (`bottom_up_trainer.cpp:120`) | a task per candidate; for each, `get()` and then `tryCompress()`; then the costs |
| `shared` | `AutomatedCompressorExplorer::computeFitness()` | as `trainer`, but the tasks own what they use |

`AfterSubmit` and `AfterGet` are their loops. Every task may throw.

## 3. Runs

| Run | Instance | Properties | What it shows |
|---|---|---|---|
| `engine_full` | one input of each kind, a node with one fixed and one variable output, conversions, segmenters started directly or through user graphs, two chunks, permissive on and off | `TypeOK`, `InputsHeld`, `UserGraphDepthBounded`, `WrittenChunkDecodes`, `SessionEnds` | whatever fails at whatever depth, streams still needed stay alive, recursion is bounded, what is written decodes, nothing of a chunk is left for the next one, every session ends |
| `engine_multi` | two typed inputs, nodes with two outputs and destinations over two edges | `GuardPrecondition`, `NoRecursiveBackup`, `WrittenChunkDecodes` | the assertions of `RTGM_guardRTStream()` and of the fallback hold, distances come out right with several inputs |
| `engine_callbacks` | callbacks that ignore errors and repeat edges | `RevertPoints`, `EdgesHeld` | memory safety of the engine does not depend on the callbacks' manners |
| `segmenter_cover` | two inputs of up to two elements, three chunks | `FrameCoversInput`, `CoverSpec` | the frame covers the inputs; refinement of `InputCover` |
| `session` | settings in any order, sessions that fail anywhere, decodes of intact and damaged copies into new and reused outputs | `SettingsAreAlive`, `DecodedIsInput`, `DeliveredDecodes`, `KeepsContract` | no session uses what another freed; what decodes is what was compressed; what was delivered decodes; refinement of `SessionContract` |
| `append_output` | three inputs in any order, in place or moved, any excess, too little room | `ConcatInOrder`, `MovedBytesIntact`, `RefusedForRoomOrOrder` | the output is the concatenation, nothing is overwritten, excess never makes it fail; besides a lack of room only one order of a decoder of several inputs does (below) |
| `fusion` | fusions with one and two children and chains of them, over all graphs of three transforms | `LookupFindsAll`, `FusedAsWired`, `InputsPresent`, `ChunkDecoded` | the table finds what was registered, a fused decoder meets the wiring its pattern promises, no decoder misses an input, outputs are made and the rest is freed |
| `arena` | any use over any number of sessions, then the same session for ever | `SlicesApart`, `BackupExact`, `CapacityOfBuffer`, `SettlesInBuffer` | slices do not overlap and are never taken for heap blocks, nothing leaks, the buffer is never resized to nothing, and a user that repeats itself is served from the buffer in the end |
| `codec_cache` | private and user's cache, nested trials, chunks and sessions, failing allocations, nodes that fail each of the checks, state that changes unseen | `ReplayEqualsRun`, `NoDanglingOutput`, `BorrowedIsAlive`, `BudgetKept` | replay is as good as a run, but for pointers in copied parameters; entries outlive what refers to them; budget |
| `codecs` | all small inputs of seven codecs, and single damages | `RoundTrip`, `PassesAgree`, `MergedIsSortedUnion`, `AcceptedIsWritten`, `PrefixVectorsInside` | decoders invert encoders; what a decoder accepts is written completely from inside its streams; the passes and builds of one codec agree |
| `training_pool` | one or two threads, two calls of any pattern, any task may throw | `JoinedBeforeUnwind`, `OneOwnerPerTask`, `EveryTaskEnds`, `PoolStops` | no task is lost or doubled; `joinBenchmarks()` leaves none behind, the others only after an exception; tasks that wait for tasks end, whatever the number of threads, because the queue is first in first out; the destructor returns |

### Disagreements between the code and what it says

One run expects a violation; `findings` quotes the sentence it refutes.

- `sticky_dangling` (`compress2.c:156`): with sticky parameters, the runtime
  parameters of an explicit starting graph stay referenced after the session
  arena that holds their copy was freed.

Other counterexamples come out of the same modules with other constants or
another invariant of the module:

- Stale backup flag (`cctx.c:1282`). A fallback that fails leaves `inBackupMode`
  set. Neither `CCTX_clean()` nor the next start clears it, so the next
  compression on the context runs without the depth limit and never falls back.
  (`EngineFull.cfg` with `NodeLimit = 3`, `InputKinds = {"serial"}`,
  `NodeShapes <- OneOutput`, `StartGraphs = {"user"}`,
  `Destinations = {"user", "store1"}`, `PermissiveModes = {TRUE}`,
  `MaxChunks = 0`, `MaxSessions = 2`: `UserGraphDepthBounded`.)
- Decoder settings (`decompress2.c:2254`). A decoder resets parameters that are
  not sticky only after a success; `zl_decompress.h:161` says at the end of a
  session. (`Session.cfg`: `ParametersEndWithCall`.)
- Inputs of a codec that was run (`decoder_fusion.c:290`). What a fused decoder
  gets when it asks for the inputs of a codec after it ran that codec is not
  NULL, as documented, but pointers to the freed streams. No fused decoder of the
  library does it. (`Fusion.cfg`: `CodecInputsAlive`.)
- Table of fusions (`decoder_fusion.c:173`). A registration that runs out of
  memory after `realloc()` moved the array leaves `codecFusions` pointing to the
  old one. (`Fusion.cfg` with `MaxFusions = 3`, `MaxNodes = 1`, `MaxStreams = 2`,
  `ReallocMoves = TRUE`: `FusionsAlive`.)
- Growth and loss of the buffer (`allocation.c:594`). A user that needs more than
  half of the largest buffer in every session may never settle: growth adds what
  spilled to the whole capacity, passes the maximum, and the buffer is given up.
  (`Arena.cfg` with `Sizes = {0, 5, 29, 124}` and without the factor 2 in `Spills`:
  `SettlesInBuffer`; with the factor it holds.)
- Stored, then reverted (`rtgraphs.c:503`). `RTGM_clearNodesFrom()` drops what
  was created since the failed graph began but leaves `toStore` on streams that
  existed before. With two inputs, one stored before the failure, the fallback
  trips the assertion; without assertions the stream is stored and regenerated,
  and the frame does not decode. (`EngineMulti.cfg` with `StreamLimit = 8`,
  `MaxGraphDepth = 4`, `InputKinds = {"serial"}`, `NodeShapes <- OneOutput`,
  `Destinations = {"serialStore", "segmenter"}`: `GuardPrecondition`.)
- Swallowed error (`cctx.c:936`). The error of a node is not recorded in
  `gctx->status`, so a graph function that ignores it is not caught, unlike what
  the comment says. (`EngineCallbacks.cfg` with `StreamLimit = 6`,
  `InputKinds = {"serial"}`, `StartGraphs = {"user"}`,
  `Destinations = {"store1"}`, `PermissiveModes = {FALSE}`,
  `RepeatEdges = FALSE`, `MaxChunks = 0`: `WrittenChunkDecodes`.)
- Swallowed chunk (`segmenter.c:97`). "enforces that input is entirely consumed"
  is about `consumed[]`, which counts failed chunks too. (`SegmenterCover.cfg`
  with `NbInputs = 1`, `Swallow = TRUE`: `FrameCoversInput`.)
- Overrun (`segmenter.c:308`). A request is compared with the whole input instead
  of what is left; only an assertion in `stream.c` says the slice fits.
  (`SegmenterCover.cfg` with `NbInputs = 1`, `RequestsFit = FALSE`:
  `SliceWithinInput`.)
- Swapped inputs (`cctx.c:1403`). `isSegmentable` looks at the first input only. A
  user graph at depth 1 sends its two inputs in reverse order to another one, which
  is not segmentable for that reason; that one swaps them back and sends them to a
  segmenter, which is. `SEGM_init()` empties the runtime graph, and when depth 2
  returns, `RTGM_clearRTStream()` is called on streams that no longer exist. Found
  by the attempt to prove `InputsHeld` without a hypothesis on the routes to a
  segmenter. (`EngineMulti.cfg` with `NodeLimit = 1`, `StreamLimit = 4`,
  `MaxGraphDepth = 4`, `InputKinds = {"serial"}`, `NodeShapes <- OneOutput`,
  `StartGraphs = {"user", "store1"}`, `Destinations = {"user", "segmenter"}`,
  `MaxChunks = 1`, `MaxSessions = 1`: `InputsHeld`.)

Three more are part of what a property of a passing run says:

- Unwinding trainer (`full_split_trainer.cpp:44`). The clustering trainers, the
  genetic algorithm and `filterParetoFrontier()` leave their scope with the first
  exception, while other tasks refer to it; `pareto_combination.cpp:63` says why that
  must not be. The cost task of `tryCompress()` leaves its samples behind in the same
  way, so that not even a caller that gets every future of its own would be safe.
  `JoinedBeforeUnwind` says where it may happen: never under `joinBenchmarks()`, and
  elsewhere only after a task of the same call threw. (Without the second disjunct of
  `MayOutlive` TLC finds it with one call.)
- Output moved under its decoder (`decompress2.c:1598`). A decoder that regenerates
  several inputs of the concatenation, commits a later one and then creates the first
  missing one with `DCTX_newStream()`, has the later one moved to the tail by the
  hook, which empties its slot (`decompress2.c:517`). After the decoder has returned,
  `DCTX_validateNodeOutputs()` takes it for one that was never created and refuses the
  chunk ("Node didn't create expected regenerated stream!"), although there is room.
  Creating all outputs before committing one, or in order, avoids it; streams by
  reference do not go through the hook. `RefusedForRoomOrOrder` says that it is the
  only refusal besides a lack of room.
- Pointers in copied parameters (`codec_output_cache.c:321`). A known limitation: a
  hit may give what the codec made before the state behind such a pointer changed.
  `ReplayEqualsRun` allows that difference and no other; the run reaches it. (Without
  its second disjunct TLC finds it violated.)

Met while modelling, without a run:

- `zl_compress.h` documents format version 0 as the default version;
  `GCParams_finalize()` refuses it with `formatVersion_notSet`.
- A comment is dropped without an error for format versions below 22, and an
  explicit starting graph without a compressor is dropped for that of the
  internal compressor (`SessionContract` states both).
- A segmenter of the user's on a format version below 21 may write several
  chunks, which the decoder refuses.
- Checksums of the content are per chunk: whole chunks that were swapped, or a second damaged copy decoded into an output that was used before,
  are not detected (`DecodedIsInput` excludes reused outputs for damaged
  frames).

The passing runs step around these on purpose, and only as far as needed.
`engine_multi` has typed inputs, because two serial inputs in permissive mode
are stored, then reverted. `engine_callbacks` has no `user` destination: with
`Swallow`, a stale backup flag makes the recursion of user graphs unbounded in
the model as in the code. It leaves out `WrittenChunkDecodes`, which a swallowed
error breaks.
`segmenter_cover` has `Swallow = FALSE` and `RequestsFit = TRUE`; `session` has
`StickyWithParams = FALSE`; `fusion` has `ReallocMoves = FALSE`. `hazards` says of each
hazard whose failing case is left out that way that no run catches it.

### Bounds

- `NodeLimit`, `StreamLimit` (3 or 4, and 5 to 7) stand for the limits of the
  format. They are small so that both vectors run full in every situation:
  inside a node, inside a conversion, inside a fallback; and large enough for a
  conversion, a node and a fallback's node in one chunk. As `FinalGraphAllowed`
  wants one less than the vectors hold, the case in between is reached too.
- `MaxGraphDepth` 3 or 4: a fallback at depth 1 and depth 2, the limit reached
  by user graphs and exceeded by the fallback.
- `MaxInputs` 1 or 2, one or two edges per node: the smallest number for which
  order and distance matter.
- `MaxSessions` is 2 where state across sessions is the question, otherwise 1:
  `CCTX_clean()` leaves only `inBackupMode` behind (and counters that the next
  start resets).
- `MaxChunks` 2 or 3: a chunk after a chunk that succeeded and after one that
  failed.
- `Rest` and `Ended` stutter where the bound on sessions, or the call, ends;
  deadlock is checked everywhere else.
- `session`: format versions 20 and 22, the two sides of every feature that
  depends on the version; inputs of up to 2 bytes in chunks of 1; a destination
  of up to 4, so that header, either chunk or the end marker may be what does not
  fit; outputs of 1 and 3, too small and too large. The number of sessions and of
  decodes is not bounded.
- `append_output`: 3 inputs (head, tail and one between) of up to 2 bytes, 1 byte
  from an earlier chunk, up to 2 bytes reserved in excess, and up to 2 bytes of
  room beyond the chunk, or too few.
- `fusion`: 3 transforms over at most 5 slots with 1 or 2 outputs, of three codecs
  and a custom transform with the id of one of them; 2 fusions at once of five.
  That is enough for a parent with one child that makes two streams, with two
  children, and for a child that is the parent of another pattern.
- `arena`: alignment of 4, buffers of 8 to 40, a threshold of 16 for halving, a
  `size_t` of 7 bits, requests of 0, 1, 2, 5 and 124, 3 requests per session and
  plans of up to 3. A request may be empty, fit with and without its alignment,
  fill the buffer, overflow with its alignment, or be more than there is memory.
  Sessions are not bounded.
- `codec_cache`: `MaxNesting` 2 (a trial in a trial), one nested graph per context,
  budgets of 0 and 3 and a user's cache of 2: an entry weighs 1 or 2, so a budget is
  exactly full, nearly full and exceeded. Of the unseen state one kind differs from
  the beginning at a time (`MaxChanged`): each check of `Eligible` is about one kind,
  and dropping any of them breaks `ReplayEqualsRun`. Streams, sessions and chunks are
  not bounded.
- `codecs`: `ByteValues` 4, element widths 1, 2 and 4, at most 6 elements,
  `DistanceMax` 1, 2, 3 for the three widths of sparse_num's distances, vector
  loads of 2 bytes, `SampleMax` 4 (4096 in the code): sparse_num chooses the
  dominant value of up to 6 elements by the first 4. Deadlock is not checked: a job ends when
  it was decoded or refused.
- `training_pool`: 2 workers, of which either may not have been started, 2 samples,
  2 candidates (a cost task can hold a thread while the samples of the next one are
  queued), 2 calls (tasks left by the first meet the second).

Symmetry is not used. Inputs, edges and streams are ordered, and liveness is
checked where there are threads.

### Fairness

`SessionEnds` assumes `WF_vars(Next)`: the library runs on one thread, so while
a call has a next step it takes it. It includes that callbacks return. No
fairness is assumed for a particular outcome: callbacks may always fail, always
choose another graph, always add another node until the vectors are full. What
makes it true are the depth limit, the node limit and the fallback's not nesting.

`EveryTaskEnds` and `PoolStops` assume weak fairness for the step of the caller
and of each worker: the operating system runs every thread that can run, and the
compression a task does returns. Nothing is assumed of spurious wakeups, nor of
which sleeping thread a notification wakes.

`SettlesInBuffer` assumes weak fairness for the requests and the ends of the
sessions of a user that has settled: it goes on compressing. Before that, and if
it never settles, nothing is assumed.

## 4. Proofs

TLAPS proves the following for every value of the constants: limits, numbers,
sizes and kinds of inputs, shapes of nodes, graphs, chunks, sessions, threads.
Each component's theorems are in a module of their own. They rest on the
assumptions on the constants, which TLC evaluates in the runs:

- `EngineAssumption`, `LimitAssumption`, `SegmenterAssumption`, `PoolAssumption`,
  `CodecCacheAssumption`, `AppendAssumption`, `SessionAssumption`, `JobAssumption`,
  `OutputAssumption`, `DamageAssumption`: types of the constants; at least one
  input, one thread, one task; a depth limit and chunk size that are not 0; and
  that the values standing for "none", "freed" and the internal compressor are
  none of the values the user passes.
- `FusionAssumption`: types, and that the built-in fusions are valid and sorted by
  parent, which `decoder_fusion.c:126` relies on without a check.
- `ArenaAssumption`: the alignment is at least 2 (16 in the code; with 1, an
  empty first request would leave `pBuffUsed` at 0, which stands for a session that
  has not begun), a buffer has at least one byte
  (`pBuffSizeMin`) and less than `SIZE_MAX`. `PlansAssumption`: a steady user asks
  for what memory there is.
- `NumericAssumption`, `SortedAssumption`, `StringsAssumption`, `NumbersAssumption`:
  the inputs of a codec are sequences of its elements, numbers fit their width and
  the length of a string fits 32 bits. `WidthsAssumption`, `BitsetAssumption`,
  `DistanceAssumption`, `SampleAssumption`, `StringAssumption`: a byte has a value, a
  width of 1 exists, there is a largest width, the distances of sparse_num grow with
  their width, a vector is not empty. Nothing is assumed of the number of elements,
  nor that a byte has 256 values.

`CompressEngine_proofs`:

- `TypeCorrect`: `Spec => []TypeOK`.
- `RevertPointsValid`: `Spec => []RevertPoints`. At every depth the number of
  nodes an activation remembers is a valid cut of both vectors, which is what
  the comment at `cctx.c:1356` claims of the depth-first order.
- `FallbacksDoNotNest`: `Spec => []NoRecursiveBackup`.

None of the three is inductive. `Inductive` proves `IInv`, the conjunction of

- `GraphOK`: nodes' first streams are in order and at most one past the end.
  Needed because a node that failed before its slots were reserved starts just
  after the last stream;
- `StackOK`: the remembered numbers of nodes grow with the depth and do not
  exceed the nodes there are; with `FrameOK`: a graph that is entered has one
  edge per input it has looked at, a graph function has an edge, and a segmenter
  remembers 0 nodes. The last part is why it may empty the vectors under its
  callers: all of those remember 0 nodes too, by monotonicity;
- `ModeOK`: at most one frame is a fallback, and the flag is then set. The flag
  may be set without such a frame (a stale backup flag, section 3), so this is an
  implication;
- `PhaseOK`: a chunk is flushed for the session or for the segmenter on top of
  the stack, so cleaning the chunk takes no nodes from an activation;
- `RestOK`: types of the rest, and no node is left when the context is idle.

There is one lemma per action, over lemmas on what each operator of `RTGraph`
and each change of the stack preserves.

- `InputsStayAlive`, `EdgesLeadToLiveStreams`:
  `Spec /\ [](depth <= UINT_MAX) => []InputsHeld`, and the same for `EdgesHeld`,
  for callbacks with any manners. `PlainRoutes` is a hypothesis: a session has one
  input, or user graphs do not lead to a segmenter. Without it the swapped inputs
  of section 3 are a counterexample. The depth is bounded because
  `RTGM_clearRTStream()` compares `protectRank - 1` with an `unsigned` depth, and
  rank 0 must compare above it.

`HeldInductive` proves the invariant behind both, `HInv`, which adds to `IInv` who
needs which stream. A frame *takes* its inputs and *uses* the streams its open
edges lead to. A node frees inputs of rank 0, and a graph that returns frees inputs
guarded at its own depth; neither may hit a stream that another frame needs:

- `HeldOK`: what a frame over the segmenter takes is alive with a rank from 1 to
  its depth, what it uses is alive with a rank no larger than its depth, and no
  two open edges lead to the same stream;
- `ApartOK`: what a frame uses, no frame over it takes or uses. Ranks cannot tell
  two frames apart when a stream is passed on unchanged, this does;
- `BeforeOK`: what a frame or its callers need is older than the nodes that its
  fallback would undo, so reverting spares it;
- `UnderOK`: frames under a segmenter need no stream any more: they neither fall
  back nor free their inputs;
- `LibraryOK`: over a fallback only graphs of the library run, so no segmenter
  starts there;
- `Flow`: what the streams of the inputs are before a node has run, which is why
  the frames under a segmenter are all segmentable.

A third invariant is about the depth:

- `RecursionIsBounded`: user graphs run above `ZL_MAX_GRAPH_DEPTH`
  (`UserGraphDepthBounded`), and the recursion is at most `MaxGraphDepth + 2` deep,
  in the first session of a context, or in all of its sessions if it is never
  permissive (`Trusted`), when segmenters report the failure of their chunks. The
  limit is suspended while `inBackupMode` is set, so the invariant `DInv` says when
  it is: while a fallback is on the stack, or on the way out after one failed
  (`FlagOK`). Over a fallback every graph leads to one that is further down in the
  list generic, compress1, store1, serialStore (`LibEdges`), so it runs out of
  graphs after three levels (`DepthsOK`). In later sessions, and after a chunk
  whose failure was ignored, the flag may be stale (section 3), and both bounds
  are false.
- `StreamsStayAlive`: in the same sessions `InputsHeld` and `EdgesHeld` need no
  hypothesis on the depth but that the limit fits the type.

`CompressBooks_proofs`, that what the engine writes decodes:

- `BalancedDecodes`, about `FinalGraph` alone: in a graph where every stream is
  either stored or consumed by exactly one node (`Balanced`), and which respects the
  limit on streams, the header of `CCTX_getFinalGraph()` is accepted and the decoder
  has every stream in its slot (`ChunkDecodes`). The header counts from the last
  stream to the first, and so do the sums and the list of stored streams that the
  decoder rebuilds; the lemmas are inductions over the streams.
- `GuardsHold`: `Spec /\ [](depth <= UINT_MAX) => [](~permissive =>
  GuardPrecondition)`, for callbacks with any manners. In permissive mode it is
  false (section 3: stored, then reverted).
- `WrittenChunksDecode`: the same for `WrittenChunkDecodes`, for callbacks that
  report errors and use an edge once, and for sessions that do not start a graph of
  one input on several (`Disciplined`). A swallowed error leaves a stream that
  nobody stores (section 3), an edge used twice consumes a stream twice, and in
  permissive mode a fallback stores again what was stored.
- `TrustedChunksDecode`: both, in the sessions of `RecursionIsBounded`, without the
  hypothesis on the depth.

`BooksInductive` proves the invariant behind the last three, `BInv`. A frame *owes* the
streams that its open edges lead to and the inputs that `CCTX_convertInputs()` has not
come to (`Debts`). Outside of permissive mode

- nothing that is owed is stored (`UInv`), which is all that the guards need;
- every stream is stored, consumed or owed, and not two of these (`AccountsOK`);
  nodes and streams lie as the header counts them (`LayoutOK`, `LinksOK`). This is
  `BooksInv`, and holds while no error is on its way up and every node has made its
  singletons (`Filled`); a graph that goes on without them is refused by
  `CCTX_getFinalGraph()`. When the stack is down to the segmenter nothing is owed, so
  that what is flushed balances; for the chunk that replaces it,
  `StoreBalanced` shows the same from the conversions of its inputs;
- a graph of one input is given one (`SinglesOK`), since such a graph would forget
  the others;
- a segmenter that succeeds has written a chunk (`CutInv`), so that its frame does
  not end like a graph's, with a chunk of its own.

`Session_proofs`, about the two contexts and the frames between them:

- `TypeCorrect`: `Spec => []TypeOK`.
- `SessionsUseLiveSettings` (`SettingsAreAlive`) and `SessionsKeepContract`, the
  refinement `Spec => KeepsContract` of `SessionContract`, if `StickyWithParams` is
  FALSE. With it TRUE the first is false: that is the run `sticky_dangling`. The
  invariant `CInv` says that the parameters applied by a session under way are
  those that its settings give (`InForce`) and that no frame is delivered during
  one; `Live`, that nothing freed is referred to between sessions, for which a
  sticky starting graph must have no parameters. Every step then maps to a step
  of the contract or to a stutter.
- `DecodesToInput` (`DecodedIsInput`) and `DeliveredFramesDecode`
  (`DeliveredDecodes`), without condition. A frame under way is a cut of its input:
  there is a function from chunks to offsets (`IsCut`) such that each chunk is the
  part of the input between two of them, and the rest is yet to be compressed
  (`OutOK`, `FrameOK`). On the other side `Progress` says that the output holds the
  input up to the offset of the chunk that comes next, for every such cut, for an
  intact copy and for one whose checksums are verified. That a chunk which passes
  its checksum is the chunk that was written rests on the checksum's being the
  value it is computed from.

The same module, about the segmenter that cuts the inputs of a session:

- `SegmenterTypeCorrect`: `SegmenterSpec => []SegmenterTypeOK`, for any callback.
- `FrameIsComplete`: chunks are contiguous, lie within their inputs and a
  successful frame holds everything, if the callback reports failures and asks
  for no more than is left. The two hypotheses are necessary: without them the
  swallowed chunk and the overrun of section 3 are counterexamples. The
  inductive invariant is `CutIsWritten` with the type invariant; the chunks'
  being contiguous, `ChunksContiguous`, is part of the theorem and of no run.
- `SegmenterCovers`: `SegmenterSpec => CoverSpec`, the refinement, under the same
  hypotheses.

`Decoder_proofs`, about `AppendToOutput`:

- `TypeCorrect`, `ChunkInOrder` (`ConcatInOrder`), `MovedStay` (`MovedBytesIntact`,
  the assertion of `commitInput()` included), `RefusalsJustified`
  (`RefusedForRoomOrOrder`). The invariant relates pointers and inputs: `headPtr` is
  where the inputs before `head` end, `tailPtr` where those from `tail` on begin if
  they end with the buffer (`Ranges`); what lies outside of the gap is in its place
  or, in the tail, displaced by what is left of the gap at the end (`Bytes`);
  exactly the inputs outside of `head..tail` were freed (`Moved`); and a stream in
  place is the head's, fits, and once committed is there (`InPlaceOK`).
  `CommitMoves` shows that `commitInputs()` preserves it, and fails only if the
  chunk does not fit. Its condition, that nothing is being written in place at that
  moment (`Settled`), is why only one of the streams under way may be the head's.
  `EarlyInv` says why a slot can be empty again while its decoder runs: the decoder
  also makes the head, and the stream is one that was moved to the tail.

`Decoder_proofs`, about `DecoderFusion`:

- `MapFindsFusions` (`LookupFindsAll`). The array is sorted by parent, and by
  registration for the same parent; inserting after the last that is not greater
  keeps it so. The map's ranges then are exactly the runs of equal parents.
- `FusionsMatch` (`FusedAsWired`), `DecodersFindInputs` (`InputsPresent`) and
  `ChunksDecode` (`ChunkDecoded`). `ChunkInv` says how transforms lie over the slots
  and who produces each, and that a fused child has one parent, after it, whose
  pattern its wiring matches, the first stream included. `DataInv` says which
  streams are there when it is a transform's turn: those stored or made by the
  transforms before it that were not skipped, less those consumed; during a fused
  call only the streams of its codecs may differ.

`Arena_proofs`:

- `SlicesNeverOverlap` (`SlicesApart`), `HeapArenaExact` (`BackupExact`),
  `CapacityIsOfBuffer` (`CapacityOfBuffer`). The invariant adds that what
  is used of the buffer is within its capacity and that slices are numbered by the
  requests of the session (`BufferOK`, `SlicesOK`), and that blocks and places are
  inverse to each other (`HeapOK`), which the swap with the last block in a release
  needs.

`CodecCache_proofs`:

- `TypeCorrect`, `HitEqualsRun` (`ReplayEqualsRun`), `OutputsStay`
  (`NoDanglingOutput`), `BorrowedCachesLive` (`BorrowedIsAlive`), `CachesKeepBudget`
  (`BudgetKept`). The invariant says that an entry holds what the code makes of its
  key, for the one input and the state behind pointers that it was made with
  (`EntryOK`): that nothing else went into it is what the checks of
  `CodecCache_buildKey()` are needed for, each of them excludes one kind of state from
  `Reads`. Further, that a stream of a context refers to
  a cache of that context, one under it or the user's; and that a context borrows
  only from under it. Dropping the cache of the top context thus takes entries from
  no other context's streams.

`Codecs_proofs`, for inputs of any length:

- `CodecsRoundTrip` (`RoundTrip`): the seven codecs restore what they encoded.
- `SparsePassesAgree` (`PassesAgree`): the two passes of sparse_num count the same
  distances and values, also where a run is split.
- `MergeYieldsSortedUnion` (`MergedIsSortedUnion`): merge_sorted emits the values of
  its runs, each once, ascending, with the set of the runs that contain it.
- `AcceptedStreamsAreWritten` (`AcceptedIsWritten`): a decoder that accepts what it is
  given, damaged or not, has written all of its output.
- `VectorsStayInside` (`PrefixVectorsInside`): the vector code of prefix stays inside
  its buffers on any streams, wild copies included, and both builds decode the same.

`CodecsInductive` proves the invariant: what is on its way is well-formed (`SentIsWell`)
and, unless damaged, decodes to the input (`SentDecodes`), and what was decoded is
what the decoder makes of it (`ResultIsDecoded`). The work is in the lemmas about the
kernels. Each loop has a lemma `...States` with its first state and its turn; then
come the loop's own invariants:

- sentinel: every value is the element, or the sentinel of the next exception;
- sparse_num: what was written decodes to the elements before the current run, and
  the two passes have counted the same (`SparseTracks`). No run is longer than what
  the width of the distances holds, which the first pass chose;
- prefix: the register holds the beginning of the string before, as far as it
  reaches, and behind every element copied with vectors there is a vector of
  suffixes (`WildcopiesAreSafe`); a build with vectors and one without go on in
  lockstep (`PrefixSame`);
- merge_sorted, encoding: the heap is ordered, but at one place while it is repaired
  (`OrderedBut`, `OrderedAbove`); it holds exactly the heads of the runs, so its top
  is the least value left, and a run contains that value exactly if it is its head
  (`AdvancersHold`). Every turn emits a new value, and distinct values of the input
  are no more than its elements, so the heap is empty in time (`MergeEnds`, by the
  library's pigeonhole theorem);
- merge_sorted, decoding: the first element a destination lacks is not below the next
  value (`NotBelow`), so a value goes where it belongs. Of damaged streams that are
  accepted only that every destination was filled is known, and that is enough.

`TrainingPool_proofs`:

- `TypeCorrect` and `TaskHasOneOwner` (`OneOwnerPerTask`), for any number of
  threads, tasks and calls. The invariant `OwnersOK` says that a task is pending if
  and only if it is in the queue or with a thread, and is in one place only;
  `FreshOK`, that a task not yet submitted has no future.
- `TasksJoined` (`JoinedBeforeUnwind`), whichever tasks throw. Its
  invariant `JInv` says that a cost task that has come so far, or returned a value, has
  seen the samples before it end (`CostsOK`), likewise the caller the futures it got
  (`ReadOK`), and that the scope of a pending task is alive, or may be outlived
  because a task of a call other than `joinBenchmarks()`' threw (`ScopesOK`).

Steps that need the least element with a property (the first slot that is not
there, the first input that is not in its place) use the library's theorem that
the order of the naturals is well founded, in the form that takes a set
(`WFMin`); no theorem with an operator parameter is used. Induction is done the
same way (`SetInduction`): the numbers that have a property are a set, and a set
that has 0 and is closed under successors has all of them. That a recursive function
over `0 .. n` exists is one such induction (`LoopExists`), that it has a property
another.

Only model-checked:

- `SessionEnds`, `EveryTaskEnds`, `PoolStops`, `SettlesInBuffer`: liveness under
  fairness is beyond the prover.
- `GuardPrecondition` and `WrittenChunkDecodes` in permissive mode: with two inputs
  they are false (section 3: stored, then reverted), so that there is no theorem for
  all values of the constants. The runs have the fallbacks in which they hold.

## 5. Abstractions and what is not modelled

- The content of streams is one of three kinds. Sizes enter only as `tiny`, and
  as free choices: a chunk may be incompressible, a header or a chunk may not
  fit.
- A graph for one stream of the library (`ZL_GRAPH_COMPRESS1`) is one node and a
  store, or a store; the codecs behind it are transforms.
- `CCTX_replaceChunkWithStore()` is one step: nothing of the user runs in it.
- An error is a Boolean. Error reports, warnings, logging and introspection
  hooks are left out.
- `tryGraph()` (`dyngraph_interface.c:476`) compresses in a context of its own
  and throws the result away: `CompressEngine` leaves it out, `CodecCache` has
  it with the cache it uses.
- Which input the content of a chunk comes from is not kept in `CompressEngine`:
  a graph that permutes its inputs before a segmenter cannot be told apart from
  one that does not, although `isSegmentable` (`cctx.c:1404`) looks at the first
  input only.
- Destinations and nodes take one or two edges.
- `Segmenter` is the library built without assertions, since an assertion is all
  that stands against an overrun.
- `CompressSession` writes a chunk whole or fails: `CompressEngine` has what
  happens inside. Parameters that only choose how a codec works (levels, local
  parameters, thresholds) are left out, as is the encoding of the header's fields
  in bytes. There is one serial input and one serial output.
- A checksum is the value it is computed from: collisions are not modelled. Nor
  are those of the cache's hash, since keys are compared in full.
- `DecoderFusion` has one chunk at a time without the append optimization, which
  `fillStoredStreams()` only tries for transforms that are not fused
  (`AppendToOutput` has it), and without the streams kept for benchmarks.
- In `Arena` the limit of an arena is a refusal that any request may meet, and
  poisoning is the red zone it adds; how much memory an arena reports is left out.
- In `CodecCache` an output is everything it depends on, and the state that a key
  cannot show is one bit of each kind; statistics are left out.
- In `TrainingPool` one thread owns and uses the pool, as in the tools. What
  tasks compute is left out.

### Not modelled

The map covers a small share of the repository's lines. Of about 300,000, most
are vendored (`tools/json.hpp`, `shared/xxhash.h`), experiments (`contrib`),
bindings, parsers, tools and tests of codecs; and numeric kernels of codecs
(LZ, Huffman, FSE, float splitting, tokenization) that have no control state and
whose only property, that the decoder inverts the encoder, needs inputs far
larger than TLC enumerates. Reasons by component:

- *Frame reflection*: reads a decoded header.
- *Compressor registries*: filled before a session and constant in it; the
  engine's constants are their result.
- *Dictionaries, compressor serialization*: parsing of bytes into tables, without
  a protocol.
- *Errors, logging*: appear in the models as operations that may fail and as a
  Boolean.
- *Entropy coders, hashing, sorting, SDDL, clustering*: numeric code, and graph
  functions that are user graphs to the engine.
- *Training algorithms*: sequential searches by measured sizes; their use of the pool
  is in `TrainingPool`.
- *Bindings, CLI, other tools, parsers, contrib*: wrappers and applications above
  the library.

## 6. Plan

The modules are in place and the safety invariants of all nine state machines are
proved, with the hypotheses stated above. What is left, in this order:

1. The sticky starting graph, the parameters that a failed call leaves to the next
   one and the other disagreements of section 3, once the code has settled them: each
   is a hypothesis of a theorem, or a property no run checks, until then.
2. `CodecKernels`: further codecs with control of their own (tokenize, dispatch,
   splits), by the same lemmas about loops.
