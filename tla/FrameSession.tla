----------------------------- MODULE FrameSession -----------------------------
(***************************************************************************)
(* A compression context and a decompression context around the frames     *)
(* that go from one to the other.  A frame that was delivered is decoded,  *)
(* possibly several times, from copies that may be damaged; an output that *)
(* a failed decode left may be given to the next one.                      *)
(***************************************************************************)
EXTENDS CompressSession, DecompressSession

CONSTANT Damage    \* the data that a damaged chunk may turn into

ASSUME DamageAssumption == Damage \subseteq Seq(Nat)

VARIABLE reused    \* whether the output held something when decoding began

vars == <<cvars, dvars, reused>>

Init == CInit /\ DInit /\ reused = FALSE

(* External: what storage or transport may do to a frame.                  *)
Altered(f) ==
    {[f EXCEPT !.body[i].decodes = FALSE, !.body[i].data = <<0>>] : i \in DOMAIN f.body}
      \cup UNION {{[f EXCEPT !.body[i].data = d] : d \in Damage \ {f.body[i].data}} :
                    i \in DOMAIN f.body}
Lost(f) ==
    {[f EXCEPT !.body = SubSeq(@, 1, i - 1) \o SubSeq(@, i + 1, Len(@))] :
        i \in DOMAIN f.body}
Copies(f) ==
    {f} \cup Altered(f) \cup Lost(f)
        \cup {[f EXCEPT !.eof = FALSE], [f EXCEPT !.extra = TRUE], [f EXCEPT !.size = @ + 1]}

Empty(n) == [capacity |-> n, data |-> <<>>, last |-> <<>>]

(* The frame is given to the decoder with no buffer, a buffer of the       *)
(* user's, or the one that a failed call left.                             *)
Outputs ==
    {None} \cup {Empty(n) : n \in OutputSizes}
           \cup IF verdict = "error" THEN {out} ELSE {}
Decode(f, o) ==
    /\ BeginDecode(f, o)
    /\ reused' = (o # None /\ o.data # <<>>)
    /\ UNCHANGED cvars

DecodeStep ==
    /\ Truncated \/ ZL_DCtx_decompressChunk \/ EndDecode
    /\ UNCHANGED <<cvars, reused>>

(* The parameters are set before the first call and last as long as the    *)
(* decoder keeps them.                                                     *)
Configure ==
    /\ frame # NoFrame /\ verdict = "none"
    /\ \/ \E p \in DOMAIN DParamValues : \E v \in DParamValues[p] : ZL_DCtx_setParameter(p, v)
       \/ ZL_DCtx_resetParameters
    /\ UNCHANGED <<cvars, reused>>

(* The frame, its decompression context and its output are done with.      *)
DropFrame ==
    /\ frame # NoFrame /\ verdict # "running"
    /\ frame' = NoFrame /\ copy' = NoFrame /\ out' = None
    /\ dreq' = DZeroes /\ dapplied' = DZeroes
    /\ pos' = 1 /\ verdict' = "none" /\ reused' = FALSE
    /\ UNCHANGED <<req, cgraph, internal, comment, job>>

Next ==
    \/ CNext /\ UNCHANGED <<dvars, reused>>
    \/ /\ frame # NoFrame
       /\ \E f \in Copies(frame), o \in Outputs : Decode(f, o)
    \/ DecodeStep
    \/ Configure
    \/ DropFrame

Spec == Init /\ [][Next]_vars

TypeOK ==
    /\ CTypeOK /\ DTypeOK
    /\ copy \in Frames \cup {NoFrame}
    /\ reused \in BOOLEAN

-----------------------------------------------------------------------------
(* Properties.                                                             *)

Verified ==
    \/ copy.content /\ dapplied.content = "on"
    \/ copy.compressed /\ dapplied.compressed = "on"

(* What a decode that succeeds leaves in the output is what was            *)
(* compressed: from an intact frame always, even into an output that a     *)
(* failed call left; from a damaged one whenever some checksum is verified *)
(* and the output was empty.                                               *)
DecodedIsInput ==
    verdict = "ok" /\ (copy = frame \/ (Verified /\ ~reused)) =>
      out.data = frame.origin

(* A frame that the compressor delivered is accepted: an intact copy is    *)
(* refused only for lack of room or because the output was not empty.      *)
DeliveredDecodes ==
    verdict = "error" /\ copy = frame =>
      reused \/ (out # None /\ out.capacity < frame.size)

(* "By default, parameters are reset at end of decompression session"      *)
(* (zl_decompress.h:161): once a call has ended, either way, nothing that  *)
(* was not made sticky is left for the next one.                           *)
ParametersEndWithCall ==
    verdict \in {"ok", "error"} => dreq.sticky \/ dreq = DZeroes
=============================================================================
