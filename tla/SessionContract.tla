---------------------------- MODULE SessionContract ----------------------------
(***************************************************************************)
(* What a compression context promises its user, as the public headers put *)
(* it (zl_compress.h, zl_compressor.h): a session uses the settings made   *)
(* since the end of the one before, or all those made so far if they are   *)
(* sticky; a comment is for the next frame only; a session that fails ends *)
(* like one that succeeds.  CompressSession implements it.                 *)
(***************************************************************************)
EXTENDS FrameFormat

CONSTANTS
    Blank,          \* settings of a new context
    Effective(_, _),\* the setting in force for a parameter, given all settings
    Inputs          \* what may be compressed

VARIABLES asked, busy, delivered

AfterSession(a) ==
    IF a.sticky THEN [a EXCEPT !.comment = None] ELSE Blank

(* The frame carries what was asked for and nothing else.                  *)
AsAsked(f, a) ==
    /\ f.version = Effective(a, "version")
    /\ f.content = (Effective(a, "content") # "off")
    /\ f.compressed = (Effective(a, "compressed") # "off")
    /\ f.comment = IF f.version >= ZL_COMMENT_VERSION_MIN THEN a.comment ELSE None
    /\ f.graph = a.graph /\ f.start = a.start
    /\ f.origin \in Inputs /\ f.size = Len(f.origin)

Init == asked = Blank /\ busy = FALSE /\ delivered = NoFrame

Configure ==
    /\ ~busy
    /\ asked' # asked
    /\ UNCHANGED <<busy, delivered>>

(* Without a compressor a default one is taken, with its own start.        *)
Begin ==
    /\ ~busy /\ busy' = TRUE
    /\ asked' = IF asked.graph # None THEN asked
                ELSE [asked EXCEPT !.graph = "internal", !.start = None]
    /\ UNCHANGED delivered

End ==
    /\ busy /\ busy' = FALSE
    /\ asked' = AfterSession(asked)
    /\ delivered' = NoFrame \/ AsAsked(delivered', asked)

Consume == ~busy /\ delivered' = NoFrame /\ UNCHANGED <<asked, busy>>

Next == Configure \/ Begin \/ End \/ Consume

Spec == Init /\ [][Next]_<<asked, busy, delivered>>
=============================================================================
