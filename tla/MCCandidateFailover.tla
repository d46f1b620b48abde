------------------------ MODULE MCCandidateFailover ------------------------
EXTENDS CandidateFailover

CONSTANTS a1, a2, a3, r1, r2

(* Two requests that want the first two of three accounts in opposite orders. *)
Opposite == [r \in Requests |-> IF r = r1 THEN <<a1, a2, a3>> ELSE <<a2, a1, a3>>]
=============================================================================
