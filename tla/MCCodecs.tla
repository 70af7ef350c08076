------------------------------- MODULE MCCodecs -------------------------------
(* Instances of Codecs for TLC.                                            *)
EXTENDS Codecs

CONSTANTS NarrowValues, WideValues, MaxElts

Numbers(width, values, n) == {Stream(width, s) : s \in BoundedSeq(values, n)}

NarrowAndWide ==
    Numbers(1, NarrowValues, MaxElts) \cup Numbers(2, WideValues, MaxElts)
Sparse == Numbers(1, {0, 1}, 6) \cup Numbers(1, {0, 1, 2}, 4) \cup Numbers(2, {0, 5}, 3)
(* Four runs with four heads, so that the heap has two children to choose  *)
(* from; and five runs, one too many.                                      *)
FourHeads ==
    {s \in [1..6 -> 0..3] :
        LET runs == getSortedRuns(s)
        IN  Len(runs) = 4 /\ {s[runs[i].start + 1] : i \in DOMAIN runs} = 0..3}
Sorted ==
    Numbers(4, 0..2, 4) \cup Numbers(4, 0..1, 5) \cup Numbers(2, 0..1, 1)
    \cup {Stream(4, s) : s \in FourHeads}
Strings ==
    Numbers(1, {<<>>, <<1, 1, 2>>, <<1, 1, 2, 1>>, <<1, 2, 2>>}, 4)

ThreeDistances == <<1, 2, 3>>
=============================================================================
