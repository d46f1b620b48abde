---- MODULE MCTokenRefresh ----
(* Values for checking TokenRefresh.                                       *)
EXTENDS TokenRefresh

CONSTANTS a1, c1, c2

IssuedBound == [a \in Accounts |-> 3]
====
