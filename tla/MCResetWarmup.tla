--------------------------- MODULE MCResetWarmup ---------------------------
(* One account is shared by two executors; two cycles of it can fill the   *)
(* channel and the worker of an executor.                                  *)
EXTENDS ResetWarmup
=============================================================================
