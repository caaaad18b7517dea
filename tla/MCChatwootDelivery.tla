------------------------- MODULE MCChatwootDelivery ------------------------
(* Instances of ChatwootDelivery for TLC: messages of ann, whom a search may *)
(* confuse with anna, never with bob.                                      *)
EXTENDS ChatwootDelivery

CONSTANTS ann, anna, bob, text, file

AllFrom == [j \in Jobs |-> ann]
FileCount == [j \in Jobs |-> IF j = file THEN 1 ELSE 0]
Similar == {<<ann, anna>>}
NobodyOrOthers == {<<>>, <<bob, anna>>}

OneEach == [f \in Faults |-> 1]
=============================================================================
