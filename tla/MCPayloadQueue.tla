-------------------------- MODULE MCPayloadQueue --------------------------
EXTENDS PayloadQueue

(* Accounted sizes: every job has size one. *)
Units == [j \in 1 .. MaxJobs |-> 1]

(* What the environment may break in a run.                                *)
Setbacks == {"damage", "restore"}
Failures == {"write", "delete", "read", "damage", "oversize", "panic", "db"}
LiveFaults == {"write", "full", "delete", "damage", "db"}
=============================================================================
