---- MODULE BodyStore ----
(***************************************************************************)
(* What the storage of request bodies promises to a reader of the logs:    *)
(* a body is seen whole from when it is stored until a clear, or a prune   *)
(* by its age; one captured before a clear, or too old, never shows up.    *)
(* Nothing else, no background deletion and no restart, can be noticed.    *)
(***************************************************************************)
EXTENDS Integers

CONSTANTS Traces, Body, Created, Cutoffs

VARIABLES
  seen,    \* the bodies a reader sees, by trace
  fresh,   \* traces captured since the last clear
  floor    \* bodies captured before this time are not wanted

vars == <<seen, fresh, floor>>

Nothing == [t \in {} |-> Body[t]]

Init == seen = Nothing /\ fresh = {} /\ floor = 0

Capture(t) ==
  /\ t \notin fresh
  /\ fresh' = fresh \union {t}
  /\ UNCHANGED <<seen, floor>>

Store(t) ==
  /\ t \in fresh \ DOMAIN seen
  /\ floor <= Created[t]
  /\ UNCHANGED <<fresh, floor>>
  /\ seen' = [u \in DOMAIN seen \union {t} |-> IF u = t THEN Body[t] ELSE seen[u]]

Clear ==
  /\ UNCHANGED floor
  /\ fresh' = {} /\ seen' = Nothing

Prune(c) ==
  /\ floor' = IF c > floor THEN c ELSE floor
  /\ UNCHANGED fresh
  /\ seen' = [t \in {u \in DOMAIN seen : floor' <= Created[u]} |-> seen[t]]

Next ==
  \/ \E t \in Traces : Capture(t) \/ Store(t)
  \/ Clear \/ \E c \in Cutoffs : Prune(c)

Spec == Init /\ [][Next]_vars
====
