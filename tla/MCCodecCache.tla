----------------------------- MODULE MCCodecCache -----------------------------
(* Instances of CodecCache for TLC.                                        *)
EXTENDS CodecCache

Node(code, custom, dict, mparam) ==
    [code |-> code, custom |-> custom, dict |-> dict, mparam |-> mparam]

(* A standard node and two derived from it, with a dictionary and with a   *)
(* materialized parameter, one that makes strings, and a custom one.       *)
MCNodes == {Node("zstd", FALSE, FALSE, FALSE), Node("zstd", FALSE, TRUE, FALSE),
            Node("zstd", FALSE, FALSE, TRUE), Node("strings", FALSE, FALSE, FALSE),
            Node("own", TRUE, FALSE, FALSE)}
MCLocalParams == {[bytes |-> 1, ref |-> FALSE], [bytes |-> 2, ref |-> FALSE],
                  [bytes |-> 1, ref |-> TRUE]}

(* One input, empty or not; strings with other lengths and the same bytes; *)
(* and an input with another one beside it.                                *)
MCInputs == {[bytes |-> "bytes", lens |-> 0, more |-> 0],
             [bytes |-> "empty", lens |-> 0, more |-> 0],
             [bytes |-> "texts", lens |-> 1, more |-> 0],
             [bytes |-> "texts", lens |-> 2, more |-> 0],
             [bytes |-> "bytes", lens |-> 0, more |-> 1]}
=============================================================================
