---------------------------- MODULE MCDecoderFusion ----------------------------
(* Instances of DecoderFusion for TLC.                                     *)
EXTENDS DecoderFusion

(* Codec 1 takes two streams, codec 2 makes one or two of one, codec 3 one *)
(* of one; a custom transform has the id of codec 2.                       *)
Codecs123 ==
    {[id |-> 1, std |-> TRUE, ins |-> {2}, regens |-> {1}],
     [id |-> 2, std |-> TRUE, ins |-> {1}, regens |-> {1, 2}],
     [id |-> 3, std |-> TRUE, ins |-> {1}, regens |-> {1}],
     [id |-> 2, std |-> FALSE, ins |-> {1}, regens |-> {1}]}

Child(codec, indices) == [codec |-> codec, indices |-> indices]

(* One child with two streams; two children with the same codec; one child *)
(* whose parent may itself be a child; a second choice for one parent.     *)
Swapped == [parent |-> 1, children |-> <<Child(2, <<1, 0>>)>>]
TwoKids == [parent |-> 1, children |-> <<Child(2, <<0>>), Child(2, <<1>>)>>]
Chain   == [parent |-> 2, children |-> <<Child(3, <<0>>)>>]
SecondOnly == [parent |-> 1, children |-> <<Child(3, <<1>>)>>]
Itself  == [parent |-> 3, children |-> <<Child(3, <<0>>)>>]

OneBuiltIn == <<Swapped>>
Registrable == {TwoKids, Chain, SecondOnly, Itself}
=============================================================================
