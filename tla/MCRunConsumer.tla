---------------------------- MODULE MCRunConsumer ----------------------------
(* Two partitions, one of them with an undecodable record in the middle.     *)
EXTENDS RunConsumer

MCPartition == {"blocks", "alerts"}

MCRecord == {"b1", "b2", "a1", "a2", "poison"}

MCLog ==
    [p \in MCPartition |->
        IF p = "blocks" THEN <<"b1", "poison", "b2">> ELSE <<"a1", "a2">>]
==============================================================================
