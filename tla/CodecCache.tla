------------------------------- MODULE CodecCache -------------------------------
(***************************************************************************)
(* The codec output cache (compress/codec_output_cache.c) and its use by   *)
(* the compression contexts: a private cache that tryGraph() activates, a  *)
(* cache the user attaches, and the derived contexts that run the trials   *)
(* and borrow the cache of the context they are derived from.              *)
(*                                                                         *)
(* ctxs is the stack of contexts: the user's at position 1, above it the   *)
(* derived contexts of the nested trials under way; the top one runs.      *)
(* The cached outputs are owned by the cache: a stream made by replaying   *)
(* one only refers to it.  When a cache drops its entries, a stream that   *)
(* still refers to one becomes dangling (a mark of the model, the code has *)
(* none).                                                                  *)
(***************************************************************************)
EXTENDS Naturals, Sequences, FiniteSets

CONSTANTS
    Nodes,        \* nodes a graph may run: [code, custom, dict, mparam]; the
                  \* code is the standard node its chain of bases ends in,
                  \* or what a custom node registers
    StringMakers, \* codes that have an output of strings
    LocalParams,  \* local parameters: [bytes, ref], the integers and the
                  \* copied bytes, and whether there are reference parameters
    Pointing,     \* copied bytes that hold a pointer
    GlobalParams, \* format version and levels of a session
    Inputs,       \* inputs of a codec: [bytes, lens, more], the content with
                  \* its type, width and metadata, the lengths of strings (0
                  \* if it has none), and the further inputs (0 if none)
    EmptyOutput,  \* contents for which a codec makes an empty output
    Budgets,      \* maxBytes of the private cache; 0 turns it off
    UserBudget,   \* maxBytes of the cache the user owns
    MaxNesting,   \* bound: contexts derived from one another
    MaxDepth,     \* bound: graphs nested in a context
    MaxChanged    \* bound: kinds of hidden state changed at a time

ASSUME CodecCacheAssumption ==
    /\ \A x \in Inputs : x = [bytes |-> x.bytes, lens |-> x.lens, more |-> x.more]
    /\ Budgets \subseteq Nat /\ UserBudget \in Nat
    /\ MaxNesting \in Nat /\ MaxDepth \in Nat /\ MaxChanged \in Nat

VARIABLES
    phase,    \* "idle" or "compress": whether the user's context runs
    hidden,   \* the state of each kind that a codec may read and no key has
    caches,   \* the caches, by owner: the user, or a context (its position)
    ctxs      \* the contexts

vars == <<phase, hidden, caches, ctxs>>

(* A cache is known by its owner: the user, or the position of a context.  *)
User == 0
Owners == 0..(MaxNesting + 1)
None == MaxNesting + 2
Dangling == MaxNesting + 3

(* Where a codec finds state that its parameters and input do not show: a  *)
(* custom codec's own, a dictionary, a materialized parameter, what a      *)
(* reference parameter refers to and what a copied pointer points to.      *)
Kinds == {"own", "dict", "mparam", "ref", "pointer"}

(* A codec run has a node, parameters and input.  Its result depends on    *)
(* all of these and on the state that it reads.                            *)
RunsOf(g) == [node : Nodes, local : LocalParams, global : {g}, input : Inputs]

Reads(k) == {q \in Kinds :
    \/ q = "own" /\ k.node.custom
    \/ q = "dict" /\ k.node.dict
    \/ q = "mparam" /\ k.node.mparam
    \/ q = "ref" /\ k.local.ref
    \/ q = "pointer" /\ k.local.bytes \in Pointing}

Results == [code : {n.code : n \in Nodes}, local : {p.bytes : p \in LocalParams},
            global : GlobalParams, input : Inputs, lens : {0, 1},
            state : UNION {[S -> BOOLEAN] : S \in SUBSET Kinds}]
ResultOf(k) ==
    [code |-> k.node.code, local |-> k.local.bytes, global |-> k.global,
     input |-> k.input, lens |-> IF k.node.code \in StringMakers THEN 1 ELSE 0,
     state |-> [q \in Reads(k) |-> hidden[q]]]

(* ENC_snapshotCodecOutputCacheResult(): what is stored of a result has no *)
(* lengths of strings.                                                     *)
Snapshot(r) == [r EXCEPT !.lens = 0]

(* CodecCache_Key; the map compares all of its fields.                     *)
Keys == [code : {n.code : n \in Nodes}, local : {p.bytes : p \in LocalParams},
         global : GlobalParams, bytes : {x.bytes : x \in Inputs}]
KeyOf(k) == [code |-> k.node.code, local |-> k.local.bytes, global |-> k.global,
             bytes |-> k.input.bytes]

(* CodecCache_storedSize(): the payload of an entry.                       *)
StoredSize(k) == IF k.input.bytes \in EmptyOutput THEN 1 ELSE 2

NewCache(max) == [alive |-> TRUE, max |-> max, bytes |-> 0, insert |-> TRUE,
                  map |-> {}]
NoCache == [alive |-> FALSE, max |-> 0, bytes |-> 0, insert |-> FALSE,
            map |-> {}]
Entries == [key : Keys, result : Results]

(* CodecCache_resetCurrent()                                               *)
ResetCache(c) == IF c.alive THEN NewCache(c.max) ELSE c

NewCtx(attached, budget, global) ==
    [attached |-> attached, budget |-> budget, active |-> FALSE,
     frames |-> <<>>, streams |-> {}, global |-> global]

(* A stream: the cache whose entry it refers to, if it does.               *)
Streams == Owners \cup {None, Dangling}

TypeOK ==
    /\ phase \in {"idle", "compress"}
    /\ hidden \in [Kinds -> BOOLEAN]
    /\ DOMAIN caches = Owners
    /\ \A o \in Owners :
         /\ caches[o].alive \in BOOLEAN /\ caches[o].insert \in BOOLEAN
         /\ caches[o].max \in Nat /\ caches[o].bytes \in Nat
         /\ caches[o].map \subseteq Entries
    /\ Len(ctxs) \in 1..(MaxNesting + 1)
    /\ \A i \in DOMAIN ctxs :
         /\ ctxs[i].attached \in Owners \cup {None}
         /\ ctxs[i].budget \in Nat /\ ctxs[i].active \in BOOLEAN
         /\ ctxs[i].frames \in Seq(BOOLEAN)
         /\ ctxs[i].streams \subseteq Streams
         /\ ctxs[i].global \in GlobalParams

Init ==
    /\ phase = "idle"
    /\ hidden = [q \in Kinds |-> FALSE]
    /\ caches = [o \in Owners |-> IF o = User THEN NewCache(UserBudget)
                                  ELSE NoCache]
    /\ \E g \in GlobalParams : ctxs = <<NewCtx(None, 0, g)>>

Top == Len(ctxs)
Running == phase = "compress"

(* The entries of a cache are dropped: what still refers to them dangles.  *)
Dangle(cs, o) ==
    [i \in DOMAIN cs |->
       [cs[i] EXCEPT !.streams =
          {IF ref = o THEN Dangling ELSE ref : ref \in @}]]

(* CCTX_getCodecOutputCache()                                              *)
CacheInUse(i) ==
    IF ctxs[i].attached # None THEN ctxs[i].attached
    ELSE IF ctxs[i].active THEN i ELSE None

-----------------------------------------------------------------------------
(* What the user does between two compressions.                            *)

SetTryGraphCacheBudget(b) ==
    /\ phase = "idle"
    /\ ctxs' = Dangle([ctxs EXCEPT ![1].active = FALSE, ![1].budget = b], 1)
    /\ caches' = [caches EXCEPT ![1] = NoCache]
    /\ UNCHANGED <<phase, hidden>>

SetCodecOutputCache(c) ==
    /\ phase = "idle"
    /\ ctxs' = [ctxs EXCEPT ![1].attached = c]
    /\ UNCHANGED <<phase, hidden, caches>>

ResetUserCache ==
    /\ phase = "idle"
    /\ caches' = [caches EXCEPT ![User] = ResetCache(@)]
    /\ ctxs' = Dangle(ctxs, User)
    /\ UNCHANGED <<phase, hidden>>

(* Another dictionary, another object behind a pointer: nothing a key can  *)
(* tell.                                                                   *)
ChangeHidden(q) ==
    /\ phase = "idle"
    /\ hidden' = [hidden EXCEPT ![q] = ~@]
    /\ Cardinality({p \in Kinds : hidden'[p]}) <= MaxChanged
    /\ UNCHANGED <<phase, caches, ctxs>>

-----------------------------------------------------------------------------
(* The life of a context.                                                  *)

(* CCTX_startCompression() of the user's context, with its parameters.     *)
Start(g) ==
    /\ phase = "idle"
    /\ phase' = "compress"
    /\ caches' = [caches EXCEPT ![1] = ResetCache(@)]
    /\ ctxs' = Dangle([ctxs EXCEPT ![1].active = FALSE, ![1].global = g], 1)
    /\ UNCHANGED hidden

(* CCTX_cleanChunk(): the streams of the runtime graph are released, then  *)
(* the private cache drops its entries.                                    *)
CleanChunk(cs, i) ==
    Dangle([cs EXCEPT ![i].streams = {}, ![i].active = FALSE], i)

(* A segmenter cleans up after each chunk, with the graphs that led to the *)
(* segmenter still open.                                                   *)
NextChunk ==
    /\ Running
    /\ ctxs' = CleanChunk(ctxs, Top)
    /\ caches' = [caches EXCEPT ![Top] = ResetCache(@)]
    /\ UNCHANGED <<phase, hidden>>

EndCompression ==
    /\ Running /\ Top = 1 /\ ctxs[1].frames = <<>>
    /\ phase' = "idle"
    /\ ctxs' = CleanChunk(ctxs, 1)
    /\ caches' = [caches EXCEPT ![1] = ResetCache(@)]
    /\ UNCHANGED hidden

(* CCTX_runGraphDesc(): a graph starts, remembering whether the private    *)
(* cache was active; when it returns, the cache it activated has served    *)
(* all of its successors and is put aside, entries and all.                *)
EnterGraph ==
    /\ Running /\ Len(ctxs[Top].frames) < MaxDepth
    /\ ctxs' = [ctxs EXCEPT ![Top].frames = Append(@, ctxs[Top].active)]
    /\ UNCHANGED <<phase, hidden, caches>>

FaultyFinish(cs, i) == Dangle([cs EXCEPT ![i].active = FALSE], i)
Finish(cs, i) == [cs EXCEPT ![i].active = FALSE]

LeaveGraph ==
    /\ Running /\ ctxs[Top].frames # <<>>
    /\ LET f == ctxs[Top].frames
           was == f[Len(f)]
           popped == [ctxs EXCEPT ![Top].frames = SubSeq(f, 1, Len(f) - 1)]
       IN ctxs' = IF ~was /\ ctxs[Top].active THEN Finish(popped, Top) ELSE popped
    /\ UNCHANGED <<phase, hidden, caches>>

-----------------------------------------------------------------------------
(* A codec runs (ENC_runTransform_internal).                               *)

(* CodecCache_buildKey(): what a node or an input must not have.           *)
FaultyEligible(k) ==
    ~k.node.custom /\ ~k.node.mparam /\ ~k.local.ref /\ k.input.lens = 0
Eligible(k) ==
    /\ ~k.node.custom
    /\ ~k.node.dict
    /\ ~k.node.mparam
    /\ ~k.local.ref
    /\ k.input.lens = 0

(* The cache that a run of context i looks into: none if the codec has not *)
(* exactly one input.                                                      *)
CacheFor(i, k) ==
    IF k.input.more = 0 /\ Eligible(k) THEN CacheInUse(i) ELSE None

Lookup(c, k) == {e \in caches[c].map : e.key = KeyOf(k)}

AddStream(ref) == ctxs' = [ctxs EXCEPT ![Top].streams = @ \cup {ref}]

(* A hit: the outputs are replayed; an empty one is a stream of its own,   *)
(* the others refer to the cached content.                                 *)
Replay(k) ==
    LET c == CacheFor(Top, k) IN
    /\ c # None
    /\ Lookup(c, k) # {}
    /\ AddStream(IF k.input.bytes \in EmptyOutput THEN None ELSE c)
    /\ UNCHANGED caches

(* A miss, or no cache: the codec runs; its result is stored when the      *)
(* cache takes insertions and has the budget for it.  An allocation that   *)
(* fails loses the entry and nothing else.                                 *)
FaultyMayInsert(c, k) ==
    /\ caches[c].insert
    /\ k.node.code \notin StringMakers
    /\ caches[c].bytes <= caches[c].max
MayInsert(c, k) ==
    /\ caches[c].insert
    /\ k.node.code \notin StringMakers
    /\ caches[c].bytes + StoredSize(k) <= caches[c].max

Insert(c, k) ==
    caches' = [caches EXCEPT
                 ![c].map = @ \cup {[key |-> KeyOf(k), result |-> Snapshot(ResultOf(k))]},
                 ![c].bytes = @ + StoredSize(k)]

Execute(k) ==
    LET c == CacheFor(Top, k) IN
    /\ c # None => Lookup(c, k) = {}
    /\ AddStream(None)
    /\ \/ UNCHANGED caches
       \/ c # None /\ MayInsert(c, k) /\ Insert(c, k)

RunCodec(k) ==
    /\ Running /\ ctxs[Top].frames # <<>>
    /\ Replay(k) \/ Execute(k)
    /\ UNCHANGED <<phase, hidden>>

-----------------------------------------------------------------------------
(* tryGraph()                                                              *)

(* CCTX_enableTryGraphCodecOutputCache(): the private cache is created on  *)
(* first use, which may fail, and takes insertions during the trial.       *)
EnableFails == ctxs[Top].attached = None /\ ctxs[Top].budget > 0 /\ ~caches[Top].alive

Enable(cs) ==
    IF ctxs[Top].attached # None \/ ctxs[Top].budget = 0 THEN cs
    ELSE [cs EXCEPT ![Top] = IF @.alive THEN [@ EXCEPT !.insert = TRUE]
                             ELSE NewCache(ctxs[Top].budget)]

FaultyEnabled(created) ==
    [ctxs EXCEPT ![Top].active = @ \/ (ctxs[Top].attached = None /\ ctxs[Top].budget > 0)]
Enabled(created) ==
    [ctxs EXCEPT ![Top].active =
       IF ctxs[Top].attached = None /\ ctxs[Top].budget > 0 THEN created ELSE @]

(* CCTX_disableTryGraphCodecOutputCacheInsertions()                        *)
Disable(cs, i, c) ==
    IF c.attached = None /\ c.active THEN [cs EXCEPT ![i].insert = FALSE] ELSE cs

(* The trial starts: a derived context borrows the cache in use, with the  *)
(* parameters of its parent, and starts its own compression.               *)
TryGraph ==
    /\ Running /\ ctxs[Top].frames # <<>> /\ Top <= MaxNesting
    /\ \E created \in {TRUE} \cup {~EnableFails} :
         LET parents == Enabled(created)
             p == parents[Top]
             borrowed == IF p.attached # None THEN p.attached
                         ELSE IF p.active THEN Top ELSE None
         IN /\ caches' = IF created THEN Enable(caches) ELSE caches
            /\ ctxs' = Append(parents, NewCtx(borrowed, p.budget, p.global))
    /\ UNCHANGED <<phase, hidden>>

(* The derived context could not be made: insertions are closed again.     *)
TryGraphFails ==
    /\ Running /\ ctxs[Top].frames # <<>>
    /\ ctxs' = Enabled(TRUE)
    /\ caches' = Disable(Enable(caches), Top, Enabled(TRUE)[Top])
    /\ UNCHANGED <<phase, hidden>>

(* The trial ends: the derived context is cleaned and freed with its own   *)
(* private cache, and the parent's cache closes to insertions.             *)
EndTrial ==
    /\ Running /\ Top > 1 /\ ctxs[Top].frames = <<>>
    /\ LET cleaned == CleanChunk(ctxs, Top)
       IN ctxs' = SubSeq(cleaned, 1, Top - 1)
    /\ caches' = Disable([caches EXCEPT ![Top] = NoCache], Top - 1, ctxs[Top - 1])
    /\ UNCHANGED <<phase, hidden>>

-----------------------------------------------------------------------------
Next ==
    \/ \E b \in Budgets : SetTryGraphCacheBudget(b)
    \/ \E c \in {User, None} : SetCodecOutputCache(c)
    \/ ResetUserCache
    \/ \E q \in Kinds : ChangeHidden(q)
    \/ \E g \in GlobalParams : Start(g)
    \/ NextChunk \/ EndCompression
    \/ EnterGraph \/ LeaveGraph
    \/ \E k \in RunsOf(ctxs[Top].global) : RunCodec(k)
    \/ TryGraph \/ TryGraphFails \/ EndTrial

Spec == Init /\ [][Next]_vars

-----------------------------------------------------------------------------
(* Properties.                                                             *)

(* A cache hit reproduces what the codec would have made now, whatever     *)
(* state changed since the entry was stored, in any order of sessions with *)
(* other parameters, trials, chunks and cache resets: what a result        *)
(* depends on is in the key or makes the run uncacheable                   *)
(* ("Key-completeness audit", codec_output_cache.c:311).  The exception is *)
(* the documented one: behind a pointer in a copied parameter the state    *)
(* may have changed (codec_output_cache.c:321), and nothing else.          *)
ReplayEqualsRun ==
    \A i \in DOMAIN ctxs : \A k \in RunsOf(ctxs[i].global) :
      LET c == CacheFor(i, k)
          r == ResultOf(k)
      IN c # None => \A e \in Lookup(c, k) :
           \/ e.result = r
           \/ /\ k.local.bytes \in Pointing
              /\ e.result = [r EXCEPT !.state["pointer"] = ~@]

(* No stream refers to an entry that was dropped: a cache is only emptied  *)
(* or freed when no runtime graph, of its context or of one that borrowed  *)
(* it, has a stream made from it (cctx.c:210, cctx.c:1132).                *)
NoDanglingOutput ==
    \A i \in DOMAIN ctxs : Dangling \notin ctxs[i].streams

(* What a context may refer to or borrow is alive, and a private cache is  *)
(* only borrowed by the contexts derived from its owner.                   *)
BorrowedIsAlive ==
    \A i \in DOMAIN ctxs :
      LET c == ctxs[i].attached IN
      /\ c # None => caches[c].alive /\ (c = User \/ c < i)
      /\ ctxs[i].active => caches[i].alive

(* The sum of StoredSize over the entries: 1 for each, 1 more for those    *)
(* whose output is not empty.                                              *)
Weight(m) ==
    Cardinality(m) + Cardinality({e \in m : e.key.bytes \notin EmptyOutput})

(* bytesStored is what the entries weigh, within the budget, and a key has *)
(* one entry (CodecCache_store).                                           *)
BudgetKept ==
    \A o \in Owners :
      LET m == caches[o].map IN
      /\ caches[o].bytes = Weight(m)
      /\ caches[o].bytes <= caches[o].max
      /\ \A d, e \in m : d.key = e.key => d = e
=============================================================================
