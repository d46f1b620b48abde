---- MODULE MCPayloadPurge ----
(* Values for checking PayloadPurge: a first request of a conversation and *)
(* two that repeat it and go on differently.                               *)
EXTENDS PayloadPurge

CONSTANTS t1, t2, t3, x, y, z

Bodies == [t \in Traces |-> IF t = t1 THEN <<x>> ELSE IF t = t2 THEN <<x, y>> ELSE <<x, z>>]
Lengths == [t \in Traces |-> IF t = t1 THEN 1 ELSE 2]
Times == [t \in Traces |-> IF t = t1 THEN 1 ELSE 2]
ThreeRequests == {t1, t2, t3}
====
