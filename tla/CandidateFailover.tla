------------------------- MODULE CandidateFailover -------------------------
(***************************************************************************)
(* Gateway requests trying their candidate accounts one after the other:   *)
(* execute_candidate_sequence with the gates and in-flight counters of the *)
(* accounts and their cooldowns (candidate_executor.rs, stream_preflight.rs, *)
(* response_finalize.rs, metrics.rs, cooldown.rs).                         *)
(*                                                                         *)
(* The gate of an account is what RequestGate shows of it: it admits at    *)
(* most its limit and serves every request that keeps waiting.  Whether    *)
(* the client has gone or the deadline has passed is asked of the outside  *)
(* world at each check: a request that finds it so ends there.             *)
(***************************************************************************)
EXTENDS Integers, Sequences, FiniteSets

CONSTANTS Requests,
          Accounts,
          Candidates,   \* the ordered candidates of each request
          GateLimit,    \* account_max_concurrent_limit
          MaxInflight,  \* account_max_inflight, 0 for none
          Anthropic     \* requests that skip a cooling last candidate too

ASSUME RequestsAssumption == IsFiniteSet(Requests) /\ Anthropic \subseteq Requests
ASSUME CandidatesAssumption == Candidates \in [Requests -> Seq(Accounts)]
ASSUME LimitsAssumption == GateLimit \in Nat \ {0} /\ MaxInflight \in Nat

VARIABLES
  pc,         \* where execute_candidate_sequence stands
  at,         \* idx, from 1
  after,      \* where it goes once the guard is dropped
  tries,      \* the extra attempts made at this candidate
  decision,   \* what the last attempt decided
  gate,       \* who holds a slot of each account's gate
  inflight,   \* ACCOUNT_INFLIGHT
  cooling,    \* is `until` of the account in the future?
  sentLast,   \* was it sent to its last candidate? (history)
  result      \* how it ended

walk == <<pc, at, after, tries, decision>>
vars == <<walk, gate, inflight, cooling, sentLast, result>>

Account(r) == Candidates[r][at[r]]
More(r) == at[r] < Len(Candidates[r])

Inside == {"attempt", "decide", "preflight", "deliver", "drop"}
States == Inside \cup {"next", "gate", "wait", "enter", "free", "finish", "done"}
Decisions == {"none", "ok", "bad", "error", "terminal", "failover"}
Results == {"none", "ok", "error", "terminal", "exhausted", "cancelled", "expired", "unlogged"}

Init ==
  /\ pc = [r \in Requests |-> "next"]
  /\ at = [r \in Requests |-> 1]
  /\ after = [r \in Requests |-> "done"]
  /\ tries = [r \in Requests |-> {}]
  /\ decision = [r \in Requests |-> "none"]
  /\ gate = [a \in Accounts |-> {}]
  /\ inflight = [a \in Accounts |-> 0]
  /\ cooling = [a \in Accounts |-> FALSE]
  /\ sentLast = [r \in Requests |-> FALSE]
  /\ result = [r \in Requests |-> "none"]

Goto(r, l) == pc' = [pc EXCEPT ![r] = l]
EndWith(r, x) == result' = [result EXCEPT ![r] = x]

(* mark_account_cooldown keeps the later of two ends, so a mark never      *)
(* shortens a cooldown; `m` tells whether this answer makes one.           *)
Mark(a, m) == cooling' = [cooling EXCEPT ![a] = @ \/ m]

----------------------------------------------------------------------------
(* Choosing the next candidate.                                            *)

(* The loop is over: 503, no available account.                            *)
Exhausted(r) ==
  /\ pc[r] = "next" /\ at[r] > Len(Candidates[r])
  /\ Goto(r, "done") /\ EndWith(r, "exhausted")
  /\ UNCHANGED <<at, after, tries, decision, gate, inflight, cooling, sentLast>>

(* finalize_cancelled_candidate and the deadline, before each candidate.   *)
EndBefore(r) ==
  /\ pc[r] = "next" /\ at[r] <= Len(Candidates[r])
  /\ EndWith(r, "cancelled") \/ EndWith(r, "expired")
  /\ Goto(r, "done")
  /\ UNCHANGED <<at, after, tries, decision, gate, inflight, cooling, sentLast>>

(* candidate_skip_reason_for_proxy: the limit on requests in flight is     *)
(* soft, and the last candidate is tried even when it is exceeded.         *)
Skippable(r) ==
  \/ cooling[Account(r)] /\ (More(r) \/ r \in Anthropic)
  \/ MaxInflight > 0 /\ inflight[Account(r)] >= MaxInflight /\ More(r)

(* Seeded fault: a skip passes over the candidate after it, too.           *)
ChooseSkippingTwo(r) ==
  /\ pc[r] = "next" /\ at[r] <= Len(Candidates[r])
  /\ IF Skippable(r)
     THEN at' = [at EXCEPT ![r] = @ + 2] /\ UNCHANGED pc
     ELSE Goto(r, "gate") /\ UNCHANGED at
  /\ UNCHANGED <<after, tries, decision, gate, inflight, cooling, sentLast, result>>

Choose(r) ==
  /\ pc[r] = "next" /\ at[r] <= Len(Candidates[r])
  /\ IF Skippable(r)
     THEN at' = [at EXCEPT ![r] = @ + 1] /\ UNCHANGED pc
     ELSE Goto(r, "gate") /\ UNCHANGED at
  /\ UNCHANGED <<after, tries, decision, gate, inflight, cooling, sentLast, result>>

----------------------------------------------------------------------------
(* acquire_account_request_gate_async                                      *)

Free(a) == Cardinality(gate[a]) < GateLimit

(* try_acquire, or the wait for a slot.                                    *)
Admit(r) ==
  /\ pc[r] \in {"gate", "wait"} /\ Free(Account(r))
  /\ gate' = [gate EXCEPT ![Account(r)] = @ \cup {r}]
  /\ Goto(r, "enter")
  /\ UNCHANGED <<at, after, tries, decision, inflight, cooling, sentLast, result>>

Wait(r) ==
  /\ pc[r] = "gate" /\ ~Free(Account(r))
  /\ Goto(r, "wait")
  /\ UNCHANGED <<at, after, tries, decision, gate, inflight, cooling, sentLast, result>>

(* The wait is limited by request_gate_wait_timeout and by the deadline.   *)
GateTimeout(r) ==
  /\ pc[r] = "wait"
  /\ Goto(r, "next") /\ at' = [at EXCEPT ![r] = @ + 1]
  /\ UNCHANGED <<after, tries, decision, gate, inflight, cooling, sentLast, result>>

(* AccountRequestGateError::Cancelled returns without a final log.         *)
GateCancelled(r) ==
  /\ pc[r] \in {"gate", "wait"}
  /\ Goto(r, "done") /\ EndWith(r, "unlogged")
  /\ UNCHANGED <<at, after, tries, decision, gate, inflight, cooling, sentLast>>

(* acquire_account_inflight, whose guard then owns the gate's.             *)
Enter(r) ==
  /\ pc[r] = "enter"
  /\ inflight' = [inflight EXCEPT ![Account(r)] = @ + 1]
  /\ Goto(r, "attempt")
  /\ UNCHANGED <<at, after, tries, decision, gate, cooling, sentLast, result>>

----------------------------------------------------------------------------
(* Attempts at one candidate.                                              *)

(* Seeded fault: the last candidate fails over like the others.            *)
MayFailOverAlways(r) == TRUE

(* Every Failover asks has_more_candidates first (follow_up_action).       *)
MayFailOver(r) == More(r)

(* run_candidate_attempt: a success clears the cooldown, a failover has    *)
(* made one, the other answers may have.                                   *)
Attempt(r) ==
  /\ pc[r] = "attempt"
  /\ \E d \in Decisions \ {"none"}, m \in BOOLEAN :
       /\ d = "failover" => MayFailOver(r) /\ m
       /\ decision' = [decision EXCEPT ![r] = d]
       /\ IF d = "ok" THEN cooling' = [cooling EXCEPT ![Account(r)] = FALSE]
          ELSE Mark(Account(r), m)
  /\ sentLast' = [sentLast EXCEPT ![r] = @ \/ ~More(r)]
  /\ Goto(r, "decide")
  /\ UNCHANGED <<at, after, tries, gate, inflight, result>>

(* The locals of the candidate go with it.                                 *)
Leave(r, l) ==
  /\ Goto(r, "drop") /\ after' = [after EXCEPT ![r] = l]
  /\ tries' = [tries EXCEPT ![r] = {}]
  /\ decision' = [decision EXCEPT ![r] = "none"]

(* Seeded fault: a cancelled request is gone before its guard is.          *)
EndCancelledLeaking(r) ==
  /\ pc[r] \in {"attempt", "decide", "preflight"}
  /\ Goto(r, "done") /\ EndWith(r, "cancelled")
  /\ UNCHANGED <<at, after, tries, decision, gate, inflight, cooling, sentLast>>

(* The client went while the attempt or the preflight was awaited.         *)
EndCancelled(r) ==
  /\ pc[r] \in {"attempt", "decide", "preflight"}
  /\ Leave(r, "done") /\ EndWith(r, "cancelled")
  /\ UNCHANGED <<at, gate, inflight, cooling, sentLast>>

(* One more attempt: after a failover on the same account, once, and after *)
(* a 400 without the session affinity, once.                               *)
Again(r) ==
  /\ pc[r] = "decide"
  /\ \/ decision[r] = "failover" /\ tries[r] = {}
        /\ tries' = [tries EXCEPT ![r] = {"same"}]
     \/ decision[r] = "bad" /\ "strip" \notin tries[r]
        /\ tries' = [tries EXCEPT ![r] = @ \cup {"strip"}]
  /\ Goto(r, "attempt")
  /\ UNCHANGED <<at, after, decision, gate, inflight, cooling, sentLast, result>>

FailOver(r) ==
  /\ pc[r] = "decide"
  /\ decision[r] = "failover" /\ tries[r] # {}
  /\ Leave(r, "next")
  /\ UNCHANGED <<at, gate, inflight, cooling, sentLast, result>>

(* A terminal error that says something of the account fails over, except  *)
(* after the retry without session affinity; a usage limit marks it.       *)
FollowTerminal(r) ==
  /\ pc[r] = "decide"
  /\ decision[r] = "terminal" /\ "strip" \notin tries[r] /\ More(r)
  /\ \E m \in BOOLEAN : Mark(Account(r), m)
  /\ Leave(r, "next")
  /\ UNCHANGED <<at, gate, inflight, sentLast, result>>

RespondTerminal(r) ==
  /\ pc[r] = "decide" /\ decision[r] = "terminal"
  /\ Leave(r, "done") /\ EndWith(r, "terminal")
  /\ UNCHANGED <<at, gate, inflight, cooling, sentLast>>

RespondUpstream(r) ==
  /\ pc[r] = "decide" /\ decision[r] \in {"ok", "bad", "error"}
  /\ Goto(r, "preflight")
  /\ UNCHANGED <<at, after, tries, decision, gate, inflight, cooling, sentLast, result>>

----------------------------------------------------------------------------
(* preflight_stream_response: with more candidates, no status but 2xx and  *)
(* no stream that fails before its first content reaches the client.       *)

Deliverable(r) == decision[r] = "ok" \/ ~More(r)

PreflightFailOver(r) ==
  /\ pc[r] = "preflight" /\ More(r)
  /\ \E m \in BOOLEAN : Mark(Account(r), m)
  /\ Leave(r, "next")
  /\ UNCHANGED <<at, gate, inflight, sentLast, result>>

(* defer_upstream_response takes the guard.                                *)
Deliver(r) ==
  /\ pc[r] = "preflight" /\ Deliverable(r)
  /\ Goto(r, "deliver")
  /\ EndWith(r, IF decision[r] = "ok" THEN "ok" ELSE "error")
  /\ UNCHANGED <<at, after, tries, decision, gate, inflight, cooling, sentLast>>

Delivered(r) ==
  /\ pc[r] = "deliver"
  /\ Leave(r, "finish")
  /\ UNCHANGED <<at, gate, inflight, cooling, sentLast, result>>

----------------------------------------------------------------------------
(* The guard is dropped: its count first, then the gate it owns.           *)

Drop(r) ==
  /\ pc[r] = "drop"
  /\ inflight' = [inflight EXCEPT ![Account(r)] = IF @ > 1 THEN @ - 1 ELSE 0]
  /\ Goto(r, "free")
  /\ UNCHANGED <<at, after, tries, decision, gate, cooling, sentLast, result>>

Proceed(r) ==
  /\ Goto(r, after[r]) /\ after' = [after EXCEPT ![r] = "done"]
  /\ at' = IF after[r] = "next" THEN [at EXCEPT ![r] = @ + 1] ELSE at

(* Seeded fault: a request that goes on keeps the gate of its candidate.   *)
FreeGateKept(r) ==
  /\ pc[r] = "free"
  /\ Proceed(r)
  /\ gate' = IF after[r] = "next" THEN gate ELSE [a \in Accounts |-> gate[a] \ {r}]
  /\ UNCHANGED <<tries, decision, inflight, cooling, sentLast, result>>

FreeGate(r) ==
  /\ pc[r] = "free"
  /\ Proceed(r)
  /\ gate' = [gate EXCEPT ![Account(r)] = @ \ {r}]
  /\ UNCHANGED <<tries, decision, inflight, cooling, sentLast, result>>

(* finalize_bridge_result, after the guard is gone.                        *)
Finish(r) ==
  /\ pc[r] = "finish"
  /\ \E m \in BOOLEAN : Mark(Account(r), m)
  /\ Goto(r, "done")
  /\ UNCHANGED <<at, after, tries, decision, gate, inflight, sentLast, result>>

----------------------------------------------------------------------------
Rest(a) ==
  /\ cooling[a]
  /\ cooling' = [cooling EXCEPT ![a] = FALSE]
  /\ UNCHANGED <<walk, gate, inflight, sentLast, result>>

Step(r) ==
  \/ Exhausted(r) \/ Choose(r) \/ Wait(r) \/ Enter(r)
  \/ Attempt(r) \/ Again(r) \/ FailOver(r)
  \/ FollowTerminal(r) \/ RespondTerminal(r) \/ RespondUpstream(r)
  \/ PreflightFailOver(r) \/ Deliver(r) \/ Delivered(r)
  \/ Drop(r) \/ FreeGate(r) \/ Finish(r)

Interrupt(r) == EndBefore(r) \/ GateTimeout(r) \/ GateCancelled(r) \/ EndCancelled(r)

Next ==
  \/ \E r \in Requests : Step(r) \/ Admit(r) \/ Interrupt(r)
  \/ \E a \in Accounts : Rest(a)

Spec == Init /\ [][Next]_vars

(* Every await ends: attempts, preflight and delivery have timeouts of     *)
(* their own.  The gate serves who keeps waiting (RequestGate), and no     *)
(* timeout, cancellation or end of a cooldown is counted upon.             *)
FairSpec ==
  /\ Spec
  /\ \A r \in Requests : WF_vars(Step(r)) /\ SF_vars(Admit(r))

----------------------------------------------------------------------------
(* Only the ends of the walk may stand behind the last candidate.          *)
Located ==
  \A r \in Requests :
    /\ at[r] \in 1 .. Len(Candidates[r]) + 1
    /\ pc[r] \notin {"next", "done"} => at[r] <= Len(Candidates[r])

TypeOK ==
  /\ pc \in [Requests -> States]
  /\ at \in [Requests -> Nat]
  /\ after \in [Requests -> {"next", "done", "finish"}]
  /\ tries \in [Requests -> SUBSET {"same", "strip"}]
  /\ decision \in [Requests -> Decisions]
  /\ gate \in [Accounts -> SUBSET Requests]
  /\ inflight \in [Accounts -> Nat]
  /\ cooling \in [Accounts -> BOOLEAN]
  /\ sentLast \in [Requests -> BOOLEAN]
  /\ result \in [Requests -> Results]
  /\ Located

Counted(r) == pc[r] \in Inside
Holding(r) == Counted(r) \/ pc[r] \in {"enter", "free"}
Inflight(a) == {r \in Requests : Counted(r) /\ Account(r) = a}

(* However a request leaves a candidate (failover, answer, cancellation,   *)
(* end of a delivery), it takes its count and its slot with it: an account *)
(* counts exactly the requests between Enter and Drop, never more than its *)
(* gate admits, and a request holds the gate of one account at most.       *)
InflightExact ==
  \A a \in Accounts :
    /\ inflight[a] = Cardinality(Inflight(a))
    /\ inflight[a] <= GateLimit
    /\ gate[a] = {r \in Requests : Holding(r) /\ Account(r) = a}
    /\ Cardinality(gate[a]) <= GateLimit

(* "No available account" is never the answer to a request that was sent   *)
(* to its last candidate, and the client sees an error status of a         *)
(* provider only from the last one: an earlier one is always followed up.  *)
LastCandidateDecides ==
  \A r \in Requests :
    /\ result[r] = "exhausted" => ~sentLast[r]
    /\ result[r] = "error" => at[r] = Len(Candidates[r])

(* Requests that want the accounts of one another in opposite orders never *)
(* wait for each other for ever: each ends although nothing times out.     *)
EveryRequestEnds == \A r \in Requests : <>(pc[r] = "done")
=============================================================================
