--------------------------- MODULE MC_HashJoinProbe ---------------------------
(* Small instance of HashJoinProbe for TLC: a key with two matches in two  *)
(* batches, a key with one, a key with none, and five probe rows, so that *)
(* a null key or an absent key follows a probe that filled the buffer.     *)
EXTENDS HashJoinProbe

CONSTANTS k1, k2, k3, b1, b2

MCKeys == {k1, k2, k3}
MCBatches == {b1, b2}
MCTable == [k \in MCKeys |->
               CASE k = k1 -> <<[batch |-> b1, offset |-> 0], [batch |-> b2, offset |-> 1]>>
                 [] k = k2 -> <<[batch |-> b2, offset |-> 0]>>
                 [] k = k3 -> <<>>]
=============================================================================
