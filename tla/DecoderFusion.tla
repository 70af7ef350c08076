----------------------------- MODULE DecoderFusion -----------------------------
(***************************************************************************)
(* How the decoder runs the transforms of a chunk (decompress/             *)
(* decompress2.c) and replaces some of them by fused decoders              *)
(* (decompress/decoder_fusion.h, .c).  A fusion is a pattern: a parent     *)
(* codec and children that feed all of their regenerated streams into it.  *)
(* While the header's transforms are laid out over the slots of the        *)
(* decoder, a parent whose children match is marked together with them;    *)
(* when the transforms run, a marked child is skipped and the parent's     *)
(* turn calls the fused decoder for all of them.                           *)
(*                                                                         *)
(* The transforms come from the frame and may be anything the checks let   *)
(* through.  Slots count from 0, transforms and fusions from 1.            *)
(***************************************************************************)
EXTENDS Naturals, Sequences, FiniteSetsExt

CONSTANTS
    Transforms,  \* decoders: [id, std, ins, regens], the last two sets of
                 \* the numbers of streams they accept
    BuiltIn,     \* ZL_DecoderFusion_array
    Fusions,     \* what may be registered: [parent, children], a child being
                 \* [codec, indices] with parentIndices counted from 0
    MaxFusions,  \* bound: fusions registered at once
    MaxNodes,    \* bound: transforms of a chunk
    MaxStreams,  \* bound: slots of a chunk
    MaxOutputs,  \* bound: outputs of the frame
    ReallocMoves \* whether realloc() may move what it enlarges

VARIABLES
    table,     \* ZL_DecoderFusionState: [fusions, next, owned, alive, map, built]
    chunk,     \* what is decoded: [total, outs, fuse, nodes, producer]
    data,      \* per slot: whether dataInfo[].data is there
    stage,     \* the transform whose turn it is
    call,      \* the fused decoder under way: [kids, inputs]
    phase      \* "idle", "header", "run", "fused", "done" or "error"

vars == <<table, chunk, data, stage, call, phase>>

NoChunk == [total |-> 0, outs |-> 0, fuse |-> FALSE, nodes |-> <<>>, producer |-> <<>>]
NoCall == [kids |-> <<>>, inputs |-> <<>>]
STORE == 0
Between == phase \in {"idle", "done", "error"}

-----------------------------------------------------------------------------
(* The table of fusions.  It is sorted by parent codec; map has, for each  *)
(* parent, the range of its fusions.  serial is the order of registration, *)
(* owned says whether codecFusions points to codecFusionStorage, alive     *)
(* whether what it points to was not freed, and built whether the last map *)
(* was completed.                                                          *)

(* ZL_DecoderFusionDesc_validate()                                         *)
Valid(f) ==
    LET uses == UNION {{<<c, r>> : r \in DOMAIN f.children[c].indices} :
                          c \in DOMAIN f.children}
    IN  /\ f.children # <<>>
        /\ \A c \in DOMAIN f.children :
             f.children[c].codec # f.parent /\ f.children[c].indices # <<>>
        /\ \A u, v \in uses :
             f.children[u[1]].indices[u[2]] = f.children[v[1]].indices[v[2]] => u = v

(* ZL_DecoderFusionState_buildMap(): a range ends where the parent         *)
(* changes.  Each range is inserted on its own, so that only the first n   *)
(* of them are there when the memory runs out.                             *)
Starts(fs) == {i \in DOMAIN fs : i = 1 \/ fs[i - 1].parent # fs[i].parent}
RangeOf(fs, i) ==
    [begin |-> i, size |-> Min({j \in Starts(fs) : j > i} \cup {Len(fs) + 1}) - i]
BuildMap(fs, n) ==
    LET first == {i \in Starts(fs) : Cardinality({j \in Starts(fs) : j <= i}) <= n}
    IN  [c \in {fs[i].parent : i \in first} |->
            RangeOf(fs, CHOOSE i \in first : fs[i].parent = c)]

(* The new fusion goes to the end of the range of its parent.              *)
FaultyPosition(fs, parent) ==
    Cardinality({i \in DOMAIN fs : fs[i].parent < parent}) + 1
Position(fs, parent) ==
    Cardinality({i \in DOMAIN fs : fs[i].parent <= parent}) + 1
InsertAtPosition(fs, f) ==
    LET k == Position(fs, f.parent)
    IN  SubSeq(fs, 1, k - 1) \o <<f>> \o SubSeq(fs, k, Len(fs))

Numbered(fs) ==
    [i \in DOMAIN fs |-> [parent |-> fs[i].parent, children |-> fs[i].children,
                          serial |-> i]]

(* ZL_DecoderFusionState_init()                                            *)
Init ==
    /\ table = [fusions |-> Numbered(BuiltIn), next |-> Len(BuiltIn) + 1,
                owned |-> FALSE, alive |-> TRUE,
                map |-> BuildMap(BuiltIn, Len(BuiltIn)), built |-> TRUE]
    /\ chunk = NoChunk /\ data = <<>> /\ stage = 0
    /\ call = NoCall /\ phase = "idle"

(* ZL_DecoderFusionDesc, and what the frame's transforms may be            *)
Descs == [parent : Nat, children : Seq([codec : Nat, indices : Seq(Nat)])]
Decoders == [id : Nat, std : BOOLEAN, ins : SUBSET Nat, regens : SUBSET Nat]

ASSUME FusionAssumption ==
    /\ BuiltIn \in Seq(Descs) /\ Fusions \subseteq Descs /\ Transforms \subseteq Decoders
    /\ \A i \in DOMAIN BuiltIn : Valid(BuiltIn[i])
    /\ \A i \in DOMAIN BuiltIn : i > 1 => BuiltIn[i - 1].parent <= BuiltIn[i].parent
    /\ MaxFusions \in Nat /\ MaxNodes \in Nat /\ MaxStreams \in Nat /\ MaxOutputs \in Nat

(* ZL_DecoderFusionState_registerFusion(), between two calls.  A fusion    *)
(* that is not valid changes nothing, nor does an array that cannot be     *)
(* enlarged.  Otherwise the array is enlarged, but the copy of the         *)
(* children fails; or the fusion is inserted, and the map built in full or *)
(* in part.                                                                *)
RegisterFusion(f) ==
    /\ Between
    /\ Valid(f)
    /\ Len(table.fusions) < MaxFusions
    /\ \/ \E moves \in {ReallocMoves, FALSE} :
            table' = [table EXCEPT !.alive = @ /\ ~(table.owned /\ moves)]
       \/ LET fs == InsertAtPosition(table.fusions,
                        [parent |-> f.parent, children |-> f.children,
                         serial |-> table.next])
          IN  \E n \in 0..Cardinality(Starts(fs)) :
                table' = [fusions |-> fs, next |-> table.next + 1, owned |-> TRUE,
                          alive |-> TRUE, map |-> BuildMap(fs, n),
                          built |-> n = Cardinality(Starts(fs))]
    /\ UNCHANGED <<chunk, data, stage, call, phase>>

(* ZL_DecoderFusionState_clearFusions()                                    *)
ClearFusions ==
    /\ Between
    /\ table' = [fusions |-> <<>>, next |-> 1, owned |-> FALSE, alive |-> TRUE,
                 map |-> <<>>, built |-> TRUE]
    /\ UNCHANGED <<chunk, data, stage, call, phase>>

-----------------------------------------------------------------------------
(* fillStoredStreams(): the transforms of the header, one after the other. *)

EndIdx(n) == n.base + n.nin
InputSlots(n) == n.base .. (EndIdx(n) - 1)
RegenSlots(n) == {n.regens[r] : r \in DOMAIN n.regens}

(* A decoder's inputs are laid out in reverse order.                       *)
InputSlot(n, k) == EndIdx(n) - 1 - k

(* ZL_DecoderFusionDesc_getProducerNodeIdx()                               *)
GetProducerNodeIdx(child, parent, producer) ==
    producer[InputSlot(parent, child.indices[1])]

(* All other regenerated streams of the child are where the pattern has    *)
(* them.                                                                   *)
FaultyOthersMapped(child, u, parent) ==
    \A r \in 2..Len(child.indices) : child.indices[r] < parent.nin
OthersMapped(child, u, parent) ==
    \A r \in 2..Len(child.indices) :
      /\ child.indices[r] < parent.nin
      /\ u.regens[r] = InputSlot(parent, child.indices[r])

FaultyUnfused(u) == TRUE
Unfused(u) == u.fusion = <<>>

(* ZL_DecoderFusionDesc_fuseIfMatches(), the matching                      *)
Matches(f, nodes, producer, parent) ==
    /\ parent.std /\ parent.id = f.parent
    /\ \A c \in DOMAIN f.children :
         LET child == f.children[c] IN
         /\ child.indices[1] < parent.nin
         /\ LET t == GetProducerNodeIdx(child, parent, producer) IN
            /\ t # STORE
            /\ nodes[t].std /\ nodes[t].id = child.codec
            /\ Unfused(nodes[t])
            /\ Len(nodes[t].regens) = Len(child.indices)
            /\ OthersMapped(child, nodes[t], parent)

(* ZL_DecoderFusionState_maybeFuse(): the first fusion that matches, or    *)
(* none.                                                                   *)
MaybeFuse(nodes, producer, parent) ==
    IF ~chunk.fuse \/ ~parent.std \/ parent.id \notin DOMAIN table.map THEN <<>>
    ELSE LET range == table.map[parent.id]
             hits == {i \in range.begin .. (range.begin + range.size - 1) :
                        Matches(table.fusions[i], nodes, producer, parent)}
         IN  IF hits = {} THEN <<>> ELSE <<table.fusions[Min(hits)]>>

Kids(f, parent, producer) ==
    [c \in DOMAIN f.children |-> GetProducerNodeIdx(f.children[c], parent, producer)]

(* The marks that a fusion leaves on its children.                         *)
Marked(nodes, producer, n) ==
    IF n.fusion = <<>> THEN nodes
    ELSE LET kids == Kids(n.fusion[1], n, producer)
         IN  [t \in DOMAIN nodes |->
                IF \E c \in DOMAIN kids : kids[c] = t
                THEN [nodes[t] EXCEPT !.fusion = n.fusion] ELSE nodes[t]]

BeginChunk ==
    /\ Between
    /\ table.alive
    /\ \E total \in 1..MaxStreams, outs \in 1..MaxOutputs, fuse \in BOOLEAN :
         /\ outs <= total
         /\ chunk' = [total |-> total, outs |-> outs, fuse |-> fuse, nodes |-> <<>>,
                      producer |-> [q \in 0..(total - 1) |-> STORE]]
    /\ data' = <<>> /\ stage' = 0 /\ call' = NoCall /\ phase' = "header"
    /\ UNCHANGED table

Ends(ns) == IF ns = <<>> THEN 0 ELSE EndIdx(ns[Len(ns)])

(* DCTX_validateNodeStatic(), and the checks on regenerated streams        *)
Accepted(n) ==
    /\ EndIdx(n) <= chunk.total - chunk.outs
    /\ \A r \in DOMAIN n.regens :
         /\ n.regens[r] < chunk.total
         /\ chunk.producer[n.regens[r]] = STORE
    /\ Cardinality(RegenSlots(n)) = Len(n.regens)

Fail ==
    /\ phase' = "error"
    /\ UNCHANGED <<table, chunk, data, stage, call>>

AddTransform ==
    /\ phase = "header"
    /\ Len(chunk.nodes) < MaxNodes
    /\ \E tr \in Transforms : \E nin \in tr.ins, k \in tr.regens :
         LET base == Ends(chunk.nodes) IN
         \E regens \in [1..k -> (base + nin)..chunk.total] :
           LET n == [id |-> tr.id, std |-> tr.std, base |-> base, nin |-> nin,
                     regens |-> <<>> \o regens, fusion |-> <<>>]
               t == Len(chunk.nodes) + 1
               producer == [q \in DOMAIN chunk.producer |->
                              IF q \in RegenSlots(n) THEN t ELSE chunk.producer[q]]
               m == [n EXCEPT !.fusion = MaybeFuse(chunk.nodes, producer, n)]
           IN  \/ /\ Accepted(n)
                  /\ chunk' = [chunk EXCEPT
                        !.nodes = Append(Marked(@, producer, m), m),
                        !.producer = producer]
                  /\ UNCHANGED <<table, data, stage, call, phase>>
               \/ ~Accepted(n) /\ Fail

(* Slots that nothing regenerates refer to the streams stored in the frame;*)
(* it is an error when there are fewer or more of these.                   *)
FillStored ==
    /\ phase = "header"
    /\ \/ /\ data' = [q \in DOMAIN chunk.producer |-> chunk.producer[q] = STORE]
          /\ stage' = 1 /\ phase' = "run"
          /\ UNCHANGED <<table, chunk, call>>
       \/ Fail

-----------------------------------------------------------------------------
(* runDecoders()                                                           *)

Node == chunk.nodes[stage]
Turn == phase = "run" /\ stage <= Len(chunk.nodes)

(* A decoder that ran: its outputs are there, its inputs freed.            *)
Freed(d, slots) == [q \in DOMAIN d |-> d[q] /\ q \notin slots]
Created(d, slots) == [q \in DOMAIN d |-> d[q] \/ q \in slots]
RunNode(d, n) == Freed(Created(d, RegenSlots(n)), InputSlots(n))

(* DCTX_runDecoder() of a transform that is not fused.                     *)
RunDecoder ==
    /\ Turn /\ Node.fusion = <<>>
    /\ \/ /\ data' = RunNode(data, Node)
          /\ stage' = stage + 1
          /\ UNCHANGED <<table, chunk, call, phase>>
       \/ Fail

(* ZL_DecoderFusionDesc_isParent()                                         *)
IsParent(n) == n.fusion # <<>> /\ n.id = n.fusion[1].parent

(* runFusedDecoder() of a child                                            *)
SkipChild ==
    /\ Turn /\ Node.fusion # <<>> /\ ~IsParent(Node)
    /\ stage' = stage + 1
    /\ UNCHANGED <<table, chunk, data, call, phase>>

(* runFusedDecoder() of the parent, up to the call: the codecs, children   *)
(* first, and what codecInputs has for each.  An input of a wrong type or  *)
(* a header out of range is an error.                                      *)
StartFused ==
    /\ Turn /\ IsParent(Node)
    /\ \/ /\ LET codecs == Append(Kids(Node.fusion[1], Node, chunk.producer), stage)
             IN  call' = [kids |-> codecs,
                          inputs |-> [i \in DOMAIN codecs |->
                              {q \in InputSlots(chunk.nodes[codecs[i]]) : data[q]}]]
          /\ phase' = "fused"
          /\ UNCHANGED <<table, chunk, data, stage>>
       \/ Fail

Codec(i) == chunk.nodes[call.kids[i]]

(* ZL_DecoderFusion_runCodec(), as the fused decoders use it: a child that *)
(* was not run, or the parent once all of its inputs are there.            *)
RunCodec(i) ==
    /\ phase = "fused"
    /\ \A q \in InputSlots(Codec(i)) : data[q]
    /\ \A q \in RegenSlots(Codec(i)) : ~data[q]
    /\ data' = RunNode(data, Codec(i))
    /\ UNCHANGED <<table, chunk, stage, call, phase>>

(* The fused decoder decodes a child itself and leaves the streams where   *)
(* the parent's decoder expects them.                                      *)
SupplyChild(i) ==
    /\ phase = "fused"
    /\ i < Len(call.kids)
    /\ \A q \in InputSlots(Codec(i)) : data[q]
    /\ \A q \in RegenSlots(Codec(i)) : ~data[q]
    /\ data' = Created(data, RegenSlots(Codec(i)))
    /\ UNCHANGED <<table, chunk, stage, call, phase>>

(* The end of runFusedDecoder(): the parent's streams were made by its     *)
(* decoder or by the fused one, and the inputs of all codecs are freed.    *)
FaultyConsumed(kids) == InputSlots(chunk.nodes[kids[Len(kids)]])
Consumed(kids) == UNION {InputSlots(chunk.nodes[kids[i]]) : i \in DOMAIN kids}

EndFused ==
    /\ phase = "fused"
    /\ \/ /\ data' = Freed(Created(data, RegenSlots(Node)), Consumed(call.kids))
          /\ stage' = stage + 1 /\ call' = NoCall /\ phase' = "run"
          /\ UNCHANGED <<table, chunk>>
       \/ Fail

(* The chunk is appended to the outputs; what is left of its streams is    *)
(* released before the next one (here: by BeginChunk).                     *)
EndChunk ==
    /\ phase = "run" /\ stage > Len(chunk.nodes)
    /\ phase' = "done"
    /\ UNCHANGED <<table, chunk, data, stage, call>>

Next ==
    \/ \E f \in Fusions : RegisterFusion(f)
    \/ ClearFusions
    \/ BeginChunk \/ AddTransform \/ FillStored
    \/ RunDecoder \/ SkipChild \/ StartFused
    \/ \E i \in DOMAIN call.kids : RunCodec(i) \/ SupplyChild(i)
    \/ EndFused \/ EndChunk

Spec == Init /\ [][Next]_vars

-----------------------------------------------------------------------------
(* Properties.                                                             *)

(* The map finds, for every parent, all of its fusions and nothing else,   *)
(* in the order of their registration, whatever was registered and cleared *)
(* before (decoder_fusion.h:184); a map that could not be completed only   *)
(* misses some.                                                            *)
LookupFindsAll ==
    LET fs == table.fusions IN
    /\ \A c \in DOMAIN table.map :
         LET found == table.map[c].begin .. (table.map[c].begin + table.map[c].size - 1)
         IN  /\ found = {i \in DOMAIN fs : fs[i].parent = c}
             /\ \A i, j \in found : i < j => fs[i].serial < fs[j].serial
    /\ table.built => DOMAIN table.map = {fs[i].parent : i \in DOMAIN fs}

Parents == {t \in DOMAIN chunk.nodes : IsParent(chunk.nodes[t])}
KidsOf(t) == LET n == chunk.nodes[t] IN Kids(n.fusion[1], n, chunk.producer)

(* What a fused decoder relies on: regenerated stream r of child c is the  *)
(* input of the parent that the pattern says, for every r, although the    *)
(* first one is never compared (decoder_fusion.c:381), and the children    *)
(* feed nothing else.                                                      *)
FusedAsWired ==
    \A t \in Parents :
      LET f == chunk.nodes[t].fusion[1] IN
      \A c \in DOMAIN f.children :
        LET n == chunk.nodes[KidsOf(t)[c]] IN
        n.regens = [r \in DOMAIN f.children[c].indices |->
                      InputSlot(chunk.nodes[t], f.children[c].indices[r])]

(* A decoder finds all of its inputs, as "already validated" in            *)
(* DCTX_validateNodeInputs() (decompress2.c:1213), and no stream where it  *)
(* will make one; a fused decoder finds the inputs of the children and     *)
(* those of the parent that no child feeds, whatever was skipped, run and  *)
(* freed before.                                                           *)
InputsPresent ==
    Turn /\ (Node.fusion = <<>> \/ IsParent(Node)) =>
      LET kids == IF IsParent(Node) THEN {KidsOf(stage)[c] : c \in DOMAIN KidsOf(stage)}
                  ELSE {}
          fed == UNION {RegenSlots(chunk.nodes[t]) : t \in kids}
          needed == (UNION {InputSlots(chunk.nodes[t]) : t \in kids \cup {stage}}) \ fed
      IN  /\ \A q \in needed : data[q]
          /\ \A q \in RegenSlots(Node) \cup fed : ~data[q]

(* At the end every output is there, and of the inputs of the transforms   *)
(* nothing is left, fused or not: no child was skipped and then forgotten. *)
ChunkDecoded ==
    phase = "done" =>
      \A q \in DOMAIN data :
        /\ q >= chunk.total - chunk.outs => data[q]
        /\ q < Ends(chunk.nodes) => ~data[q]

(* "Sorted array of all registered fusions" (decoder_fusion.h:186): the    *)
(* pointer is to the array that there is, also after a registration that   *)
(* failed.                                                                 *)
FusionsAlive == table.alive

(* "Inputs will be NULL after ZL_DecoderFusion_runCodec() is called for    *)
(* this codec, because the decoder frees its input streams"                *)
(* (decoder_fusion.h:142): what ZL_DecoderFusion_getCodecInputs() returns  *)
(* refers to no stream that was freed.                                     *)
CodecInputsAlive ==
    \A i \in DOMAIN call.inputs : \A q \in call.inputs[i] : phase = "fused" => data[q]
=============================================================================
