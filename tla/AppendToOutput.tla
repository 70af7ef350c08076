----------------------------- MODULE AppendToOutput -----------------------------
(***************************************************************************)
(* ZL_AppendToOutputOptimization of the decoder (decompress/decompress2.c):*)
(* the last decoder of an output only concatenates its inputs, so its      *)
(* inputs are moved into the output's buffer as soon as they are ready, in *)
(* whatever order the other decoders regenerate them: at the head of the   *)
(* free space, at its tail, or written there in place.                     *)
(*                                                                         *)
(* One chunk is decoded into an output whose buffer may already hold an    *)
(* earlier chunk.  A byte is known by its place in the finished output, so *)
(* that each one says where it belongs; a decoder may leave Garbage in the *)
(* whole of the capacity it reserved.                                      *)
(***************************************************************************)
EXTENDS Naturals, Sequences, FiniteSetsExt

CONSTANTS
    NbInputs,   \* inputs of the concatenating decoder
    MaxSize,    \* bound: size of an input
    MaxBefore,  \* bound: bytes in the buffer from earlier chunks
    MaxReserve, \* bound: capacity a decoder reserves beyond what it writes
    Spare       \* bound: bytes of the buffer beyond the end of the chunk

ASSUME AppendAssumption ==
    /\ NbInputs \in Nat \ {0}
    /\ MaxSize \in Nat \ {0} /\ MaxBefore \in Nat /\ MaxReserve \in Nat /\ Spare \in Nat

Inputs == 1..NbInputs

VARIABLES
    cut,     \* where in the chunk each input ends
    before,  \* bytes the output held when the chunk began
    st,      \* the optimization: [mem, head, tail, headPtr, tailPtr, data]
    running, \* the inputs the running decoder regenerates
    status   \* "decode", "done" or "error"

appendVars == <<cut, before, st, running, status>>

(* Where the inputs end: the first begins the chunk, and each one begins   *)
(* where the one before it ends.                                           *)
Cuts == {c \in [0..NbInputs -> 0..(NbInputs * MaxSize)] :
           c[0] = 0 /\ \A i \in Inputs : c[i - 1] <= c[i] /\ c[i] <= c[i - 1] + MaxSize}
Size(i) == cut[i] - cut[i - 1]

Garbage == 0
Before == [k \in 1..before |-> k]

(* The content of the inputs from i to j, in order.                        *)
Content(i, j) == [k \in 1..(cut[j] - cut[i - 1]) |-> before + cut[i - 1] + k]
Chunk == Content(1, NbInputs)

(* A stream: absent, created with the place it may write to, or committed; *)
(* ptr is its place in the output's buffer, 0 when it has its own memory.  *)
Absent == [is |-> "absent", ptr |-> 0, capacity |-> 0]
Stored == [is |-> "committed", ptr |-> 0, capacity |-> 0]
FreedStream == [is |-> "freed", ptr |-> 0, capacity |-> 0]
Stream == [is : {"absent", "created", "committed", "freed"}, ptr : Nat,
           capacity : Nat]

TypeOK ==
    /\ cut \in Cuts /\ before \in 0..MaxBefore
    /\ st.mem \in Seq(Nat)
    /\ st.head \in 1..(NbInputs + 1) /\ st.tail \in 1..(NbInputs + 1)
    /\ st.headPtr \in Nat /\ st.tailPtr \in Nat
    /\ st.data \in [Inputs -> Stream]
    /\ running \in SUBSET Inputs
    /\ status \in {"decode", "done", "error"}

(* ZL_AppendToOutputOptimization_register(), after fillStoredStreams() has *)
(* made streams of the inputs that are stored in the frame.  A frame that  *)
(* lies about its sizes leaves less room than the chunk needs.             *)
AppendInit ==
    /\ cut \in Cuts
    /\ before \in 0..MaxBefore
    /\ \E capacity \in 0..(Len(Chunk) + Spare), inFrame \in SUBSET Inputs :
         /\ capacity + 1 >= Len(Chunk)
         /\ st = [mem |-> [p \in 1..(before + capacity) |-> IF p <= before THEN p ELSE Garbage],
                  head |-> 1, tail |-> NbInputs + 1,
                  headPtr |-> before + 1, tailPtr |-> before + 1 + capacity,
                  data |-> [i \in Inputs |-> IF i \in inFrame THEN Stored
                                             ELSE Absent]]
    /\ running = {}
    /\ status = "decode"

-----------------------------------------------------------------------------
(* Moving inputs into the output.                                          *)

Gap(s) == s.tailPtr - s.headPtr

(* mem with the bytes of a sequence from a place on.  What runs over its   *)
(* end makes it longer.                                                    *)
Write(mem, ptr, bytes) ==
    LET places == ptr..(ptr + Len(bytes) - 1)
    IN  [p \in (DOMAIN mem) \cup places |->
           IF p \in places THEN bytes[p - ptr + 1] ELSE mem[p]]

Fails(s) == [s EXCEPT !.headPtr = 0]
Failed(s) == s.headPtr = 0

Ready(s, i) == s.data[i].is = "committed"

(* ZL_AppendToOutputOptimization_commitInputs(): the inputs that are ready *)
(* are moved, first from the head on and then from the tail back, until    *)
(* neither the first nor the last of those left is ready; one written in   *)
(* place is not copied, one that exceeds what is left of the gap is an     *)
(* error (commitInput).                                                    *)
FaultyTooLarge(s, n) == n >= Gap(s)
TooLarge(s, n) == n > Gap(s)
CommitInputs(s) ==
    LET waiting == {i \in s.head..(s.tail - 1) : ~Ready(s, i)}
        head == Min({s.tail} \cup waiting)
        tail == Max({head} \cup {i + 1 : i \in waiting})
        inPlace == IF s.head < head /\ s.data[s.head].ptr = s.headPtr
                   THEN Size(s.head) ELSE 0
        front == Content(s.head, head - 1)
        copied == SubSeq(front, inPlace + 1, Len(front))
        back == Content(tail, s.tail - 1)
    IN IF TooLarge(s, Len(front) + Len(back)) THEN Fails(s)
       ELSE [mem |-> Write(Write(s.mem, s.headPtr + inPlace, copied),
                           s.tailPtr - Len(back), back),
             head |-> head, tail |-> tail,
             headPtr |-> s.headPtr + Len(front), tailPtr |-> s.tailPtr - Len(back),
             data |-> [i \in Inputs |->
                         IF i \in (s.head..(head - 1)) \cup (tail..(s.tail - 1))
                         THEN FreedStream ELSE s.data[i]]]

-----------------------------------------------------------------------------
(* The decoders that regenerate the inputs, one after the other.           *)

(* DCTX_runDecoder(): a decoder that regenerates one stream only lets the  *)
(* inputs that are ready be moved first (preTransformHook).                *)
StartDecoder(group, single) ==
    /\ status = "decode" /\ running = {}
    /\ group # {} /\ \A i \in group : st.data[i].is = "absent"
    /\ single => \A i, j \in group : i = j
    /\ LET s == IF single THEN CommitInputs(st) ELSE st IN
       \/ /\ Failed(s)
          /\ status' = "error"
          /\ UNCHANGED <<st, running>>
       \/ /\ ~Failed(s)
          /\ st' = s
          /\ running' = group
          /\ UNCHANGED status
    /\ UNCHANGED <<cut, before>>

Create(s, i, ptr, capacity) ==
    [s EXCEPT !.data[i] = [is |-> "created", ptr |-> ptr, capacity |-> capacity]]

(* ZL_AppendToOutputOptimization_newStreamHook(): in place if it is the    *)
(* next input of the head and if there is room for all that it reserves.   *)
OutOfOrder(s, i) == i # s.head

FaultyNewStreamHook(s, i, capacity) ==
    LET c == CommitInputs(s) IN
    IF OutOfOrder(s, i) THEN Create(s, i, 0, capacity)
    ELSE IF Failed(c) THEN c
    ELSE Create(c, i, c.headPtr, capacity)
NewStreamHook(s, i, capacity) ==
    LET c == CommitInputs(s) IN
    IF OutOfOrder(s, i) THEN Create(s, i, 0, capacity)
    ELSE IF Failed(c) THEN c
    ELSE IF capacity > Gap(c) THEN Create(c, i, 0, capacity)
    ELSE Create(c, i, c.headPtr, capacity)

(* DCTX_newStream()                                                        *)
NewStream(i, capacity) ==
    /\ status = "decode" /\ i \in running /\ st.data[i].is = "absent"
    /\ LET s == NewStreamHook(st, i, capacity) IN
       \/ /\ Failed(s)
          /\ status' = "error"
          /\ UNCHANGED st
       \/ /\ ~Failed(s)
          /\ st' = s
          /\ UNCHANGED status
    /\ UNCHANGED <<cut, before, running>>

(* DCTX_newStreamFromStreamRef(): the input refers to another stream.      *)
RefStream(i) ==
    /\ status = "decode" /\ i \in running /\ st.data[i].is = "absent"
    /\ st' = [st EXCEPT !.data[i] = Stored]
    /\ UNCHANGED <<cut, before, running, status>>

(* The decoder writes the stream, using all the capacity it reserved, and  *)
(* commits its size.                                                       *)
CommitStream(i) ==
    /\ status = "decode" /\ st.data[i].is = "created"
    /\ LET d == st.data[i]
           bytes == [k \in 1..d.capacity |->
                      IF k <= Size(i) THEN before + cut[i - 1] + k ELSE Garbage]
       IN st' = [st EXCEPT !.data[i].is = "committed",
                           !.mem = IF d.ptr = 0 THEN @ ELSE Write(@, d.ptr, bytes)]
    /\ UNCHANGED <<cut, before, running, status>>

(* DCTX_validateNodeOutputs(): the slots the decoder regenerates must not  *)
(* be empty, and moving a stream into the output empties its slot.         *)
OutputsThere == \A i \in running : st.data[i].is \notin {"absent", "freed"}

(* The decoder returns and its outputs are validated.                      *)
EndDecoder ==
    /\ status = "decode" /\ running # {}
    /\ \A i \in running : st.data[i].is \notin {"absent", "created"}
    /\ \/ /\ OutputsThere
          /\ running' = {}
          /\ UNCHANGED status
       \/ /\ ~OutputsThere
          /\ status' = "error"
          /\ UNCHANGED running
    /\ UNCHANGED <<cut, before, st>>

(* The concatenating decoder is due: the rest of its inputs is moved, the  *)
(* tail joins the head, and the output commits the chunk.                  *)
FaultyJoinTail(s) == s.mem
JoinTail(s) ==
    Write(s.mem, s.headPtr, SubSeq(s.mem, s.tailPtr, Len(s.mem)))

RunConcat ==
    /\ status = "decode" /\ running = {}
    /\ \A i \in Inputs : st.data[i].is # "absent"
    /\ LET s == CommitInputs(st) IN
       \/ /\ Failed(s) \/ s.head # s.tail
          /\ status' = "error"
          /\ UNCHANGED st
       \/ /\ ~Failed(s) /\ s.head = s.tail
          /\ st' = [s EXCEPT !.mem = JoinTail(s),
                             !.headPtr = @ + (Len(s.mem) + 1 - s.tailPtr)]
          /\ status' = "done"
    /\ UNCHANGED <<cut, before, running>>

Finished == status \in {"done", "error"} /\ UNCHANGED appendVars

AppendNext ==
    \/ \E group \in SUBSET Inputs, single \in BOOLEAN : StartDecoder(group, single)
    \/ \E i \in Inputs, extra \in 0..MaxReserve : NewStream(i, Size(i) + extra)
    \/ \E i \in Inputs : RefStream(i)
    \/ \E i \in Inputs : CommitStream(i)
    \/ EndDecoder
    \/ RunConcat
    \/ Finished

AppendSpec == AppendInit /\ [][AppendNext]_appendVars

-----------------------------------------------------------------------------
(* Properties.                                                             *)

(* When the chunk is decoded the output holds what it held before and then *)
(* the inputs in their order, whatever the order they were regenerated in, *)
(* wherever they were written and whatever was reserved.                   *)
ConcatInOrder ==
    status = "done" =>
      SubSeq(st.mem, 1, st.headPtr - 1) = Before \o Chunk

(* The assertion of commitInput() (decompress2.c:485): a stream written in *)
(* place is the next of the head, and what it reserved lies in the gap.    *)
InPlaceIsNext ==
    \A i \in Inputs :
      st.data[i].ptr # 0 =>
        /\ i = st.head /\ st.data[i].ptr = st.headPtr
        /\ st.data[i].is = "created" => st.data[i].capacity <= Gap(st)

(* What was moved stays: neither a stream written in place nor a move      *)
(* overwrites the earlier chunks, the head or the tail, everything is      *)
(* within the buffer, and so is what a stream in place may still write.    *)
MovedBytesIntact ==
    /\ status = "decode" =>
         /\ SubSeq(st.mem, 1, st.headPtr - 1) = Before \o Content(1, st.head - 1)
         /\ SubSeq(st.mem, st.tailPtr, Len(st.mem)) = Content(st.tail, NbInputs)
    /\ InPlaceIsNext

(* A refused chunk is one that its output has no room for, or one of whose *)
(* decoders regenerates several inputs, among them the first that is       *)
(* missing and a later one that was moved to the tail while it still ran:  *)
(* DCTX_validateNodeOutputs() takes the slot that commitInput() emptied    *)
(* (decompress2.c:517) for an output that was never created.  So a decoder *)
(* of one output is never refused, nor is one whose outputs are not needed *)
(* at both ends, and what is reserved in excess never makes a chunk fail.  *)
MovedWhileRunning ==
    st.head \in running /\ \E i \in running : st.head < i /\ st.tail <= i
RefusedForRoomOrOrder ==
    status = "error" => before + Len(Chunk) > Len(st.mem) \/ MovedWhileRunning
=============================================================================
