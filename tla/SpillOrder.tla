----------------------------- MODULE SpillOrder -----------------------------
(***************************************************************************)
(* Where a captured payload goes: the memory queue, the spill files or     *)
(* nowhere (core/request_log_spill/order.rs).  One operator per method of  *)
(* SpillOrderState, each from a state record `o` to the next one.  The     *)
(* callers hold the queue lock, so an application is one step.             *)
(***************************************************************************)
EXTENDS Naturals

CONSTANTS
    MemoryBudget,    \* bytes the memory queue may hold
    HandoffBudget    \* bytes waiting for the spill thread

ASSUME BudgetAssumption == MemoryBudget \in Nat /\ HandoffBudget \in Nat

(* SpillPos: positions in the segment stream, ordered by segment, then     *)
(* offset.  An offset counts records.                                      *)
Pos(s, n) == [segment |-> s, offset |-> n]
Positions == [segment : Nat, offset : Nat]

Before(p, q) ==
    \/ p.segment < q.segment
    \/ p.segment = q.segment /\ p.offset < q.offset

Later(p, q) == IF Before(p, q) THEN q ELSE p

(* The reason why spilling is blocked (disk full, no directory, locked)    *)
(* only matters to the statistics.                                         *)
OrderStates ==
    [spilling : BOOLEAN, blocked : BOOLEAN, memoryBytes : Nat,
     handoffBytes : Nat, handoffJobs : Nat,
     committed : Positions, consumed : Positions]

NewOrder(start, committed) ==
    [spilling |-> Before(start, committed), blocked |-> FALSE, memoryBytes |-> 0,
     handoffBytes |-> 0, handoffJobs |-> 0,
     committed |-> committed, consumed |-> start]

(* saturating_sub                                                          *)
Minus(a, b) == IF a < b THEN 0 ELSE a - b

(* route: the decision ...                                                 *)
FitsMemory(o, size) == ~o.spilling /\ o.memoryBytes + size <= MemoryBudget

(* ... a single oversized job is accepted when the hand-off area is empty  *)
FitsHandoff(o, size) == o.handoffJobs = 0 \/ o.handoffBytes + size <= HandoffBudget

Destination(o, size) ==
    IF FitsMemory(o, size) THEN "memory"
    ELSE IF o.blocked \/ ~FitsHandoff(o, size) THEN "drop"
    ELSE "spill"

(* ... and its accounting: from the first job that does not fit on, the    *)
(* queue spills, even when the hand-off area then refuses that job.        *)
Route(o, size) ==
    CASE Destination(o, size) = "memory" ->
           [o EXCEPT !.memoryBytes = @ + size]
      [] Destination(o, size) = "drop" ->
           [o EXCEPT !.spilling = o.spilling \/ ~o.blocked]
      [] Destination(o, size) = "spill" ->
           [o EXCEPT !.spilling = TRUE, !.handoffBytes = @ + size, !.handoffJobs = @ + 1]

ReleaseMemory(o, size) == [o EXCEPT !.memoryBytes = Minus(@, size)]

(* Seeded fault: only the bytes are released.                              *)
FinishHandoffBytes(o, jobs, size) == [o EXCEPT !.handoffBytes = Minus(@, size)]

(* finish_handoff of `jobs` jobs of together `size` bytes.                 *)
FinishHandoff(o, jobs, size) ==
    [o EXCEPT !.handoffBytes = Minus(@, size), !.handoffJobs = Minus(@, jobs)]

SetBlocked(o, b) == [o EXCEPT !.blocked = b]
SetCommitted(o, p) == [o EXCEPT !.committed = Later(@, p)]
SetConsumed(o, p) == [o EXCEPT !.consumed = Later(@, p)]

HasDiskBacklog(o) == Before(o.consumed, o.committed)

MayResume(o) == o.spilling /\ o.handoffJobs = 0 /\ ~HasDiskBacklog(o)

TryResumeMemory(o) == IF MayResume(o) THEN [o EXCEPT !.spilling = FALSE] ELSE o

SkipStreamTo(o, p) == TryResumeMemory(SetConsumed(SetCommitted(o, p), p))
=============================================================================
