---------------------------- MODULE ResetCredit ----------------------------
(***************************************************************************)
(* Redeeming a usage reset credit of one account                           *)
(* (service/usage/usage_reset_credits.rs and                               *)
(* core/storage/reset_credit_operations.rs).                               *)
(*                                                                         *)
(* A caller names an operation.  The operation is claimed in the database, *)
(* where a guard row lets one operation per account be pending, then one   *)
(* POST that is not to be repeated blindly goes to the provider, and the   *)
(* outcome is recorded.  Several processes may share the database; within  *)
(* one process calls take turns.  A transaction is one step.               *)
(*                                                                         *)
(* The redeem request id an operation carries is drawn once, when it is    *)
(* created, and stored with it: it is identified with the operation.       *)
(***************************************************************************)
EXTENDS Naturals

CONSTANTS
    Ops, NoOp,          \* operation ids callers may use
    Calls, NoCall,      \* concurrent invocations of consume_reset_credit_async
    Processes,          \* processes that share the database
    Legacy,             \* operations pending since before the guard table
    Credits             \* credits the account has

ASSUME CreditAssumption ==
    /\ NoOp \notin Ops /\ NoCall \notin Calls
    /\ Legacy \subseteq Ops
    /\ Credits \in Nat

VARIABLES
    status, guard,                \* the two tables
    gate, interrupted,            \* ResetCreditState of each process
    pc, op, at, resume, retried,  \* each call: step, operation, process, ...
    posted,                       \* calls whose request the provider has yet to see
    late,                         \* operations with a request nobody waits for
    redeemed, credits,            \* the provider
    resumed                       \* history: operations a call took up again

dbVars == <<status, guard>>
processVars == <<gate, interrupted>>
callVars == <<op, at, resume, retried>>
networkVars == <<posted, late>>
providerVars == <<redeemed, credits>>
vars == <<dbVars, processVars, pc, callVars, networkVars, providerVars, resumed>>

Returned == {"idle", "consumed", "failed", "unknown", "gone"}
Holding == {"claim", "check", "snapshot", "send", "waiting", "unauthorized",
            "rejected", "ambiguous", "accepted", "failing", "refreshing"}

(* Migration 136 gives the oldest pending operation the guard.             *)
Init ==
    /\ status = [o \in Ops |-> IF o \in Legacy THEN "pending" ELSE "absent"]
    /\ guard \in IF Legacy = {} THEN {NoOp} ELSE Legacy
    /\ gate = [p \in Processes |-> NoCall]
    /\ interrupted = [p \in Processes |-> FALSE]
    /\ pc = [c \in Calls |-> "idle"]
    /\ op = [c \in Calls |-> NoOp]
    /\ at \in [Calls -> Processes]
    /\ resume = [c \in Calls |-> FALSE]
    /\ retried = [c \in Calls |-> FALSE]
    /\ posted = {} /\ late = {}
    /\ redeemed \in SUBSET Legacy
    /\ credits = Credits
    /\ resumed = {}

Goto(c, step) == pc' = [pc EXCEPT ![c] = step]

(* The call returns and drops the guard of the mutex.                      *)
Return(c, answer) ==
    /\ Goto(c, answer)
    /\ gate' = [gate EXCEPT ![at[c]] = NoCall]

SetInterrupted(c, value) == interrupted' = [interrupted EXCEPT ![at[c]] = value]

-----------------------------------------------------------------------------
Start(c, o, p) ==
    /\ pc[c] \in Returned
    /\ Goto(c, "gate")
    /\ op' = [op EXCEPT ![c] = o]
    /\ at' = [at EXCEPT ![c] = p]
    /\ resume' = [resume EXCEPT ![c] = FALSE]
    /\ retried' = [retried EXCEPT ![c] = FALSE]
    /\ UNCHANGED <<dbVars, processVars, networkVars, providerVars, resumed>>

Enter(c) ==
    /\ pc[c] = "gate"
    /\ gate[at[c]] = NoCall
    /\ gate' = [gate EXCEPT ![at[c]] = c]
    /\ Goto(c, "claim")
    /\ UNCHANGED <<dbVars, interrupted, callVars, networkVars, providerVars, resumed>>

(* pending_operation_for_guard, which deletes a stale guard.               *)
Guarded == IF guard # NoOp /\ status[guard] = "pending" THEN guard ELSE NoOp

(* claim_reset_credit_operation: Created or Existing(pending) ...          *)
MayClaim(o) == status[o] \in {"absent", "pending"} /\ Guarded \in {NoOp, o}

Claim(c) ==
    /\ pc[c] = "claim"
    /\ MayClaim(op[c])
    /\ status' = [status EXCEPT ![op[c]] = "pending"]
    /\ guard' = op[c]
    /\ resume' = [resume EXCEPT ![c] = status[op[c]] = "pending"]
    /\ resumed' = IF status[op[c]] = "pending" THEN resumed \cup {op[c]} ELSE resumed
    /\ Goto(c, "check")
    /\ UNCHANGED <<processVars, op, at, retried, networkVars, providerVars>>

(* Seeded fault: the stored status is passed on as it is.                  *)
StoredStatus(s) == s

(* ... Existing(terminal) or PendingAccount; stored_operation_result.      *)
Stored(s) ==
    CASE s = "completed" -> "consumed" [] s = "failed" -> "failed" [] OTHER -> "unknown"

ClaimRefused(c) ==
    /\ pc[c] = "claim"
    /\ ~MayClaim(op[c])
    /\ guard' = Guarded
    /\ Return(c, Stored(status[op[c]]))
    /\ UNCHANGED <<status, interrupted, callVars, networkVars, providerVars, resumed>>

(* open_storage or the claim fails.                                        *)
ClaimError(c) ==
    /\ pc[c] = "claim"
    /\ Return(c, "unknown")
    /\ UNCHANGED <<dbVars, interrupted, callVars, networkVars, providerVars, resumed>>

(* A new operation is refused after an interruption; load_token may fail.  *)
Check(c) ==
    /\ pc[c] = "check"
    /\ \/ Goto(c, "failing")
       \/ /\ resume[c] \/ ~interrupted[at[c]]
          /\ Goto(c, IF resume[c] THEN "send" ELSE "snapshot")
    /\ UNCHANGED <<dbVars, processVars, callVars, networkVars, providerVars, resumed>>

(* fetch_snapshot_with_retry, for a new operation only.                    *)
Snapshot(c) ==
    /\ pc[c] = "snapshot"
    /\ \/ Goto(c, "failing")
       \/ credits > 0 /\ Goto(c, "send")
    /\ UNCHANGED <<dbVars, processVars, callVars, networkVars, providerVars, resumed>>

-----------------------------------------------------------------------------
(* The redemption.                                                         *)
Send(c) ==
    /\ pc[c] = "send"
    /\ SetInterrupted(c, TRUE)
    /\ posted' = posted \cup {c}
    /\ Goto(c, "waiting")
    /\ UNCHANGED <<dbVars, gate, callVars, late, providerVars, resumed>>

(* The provider charges a redeem request id once.                          *)
Charge(o) ==
    /\ o \in redeemed \/ credits > 0
    /\ redeemed' = redeemed \cup {o}
    /\ credits' = IF o \in redeemed THEN credits ELSE credits - 1

Answer(c, reply) ==
    /\ c \in posted
    /\ posted' = posted \ {c}
    /\ Goto(c, reply)
    /\ UNCHANGED <<dbVars, processVars, callVars, late, resumed>>

(* The answer to an accepted request may be lost on its way.               *)
Accept(c) ==
    /\ Charge(op[c])
    /\ \E reply \in {"accepted", "ambiguous"} : Answer(c, reply)

(* A 401, another refusal, or a request that got lost.  An id that was     *)
(* accepted before is refused for want of authorization only.              *)
Refuse(c) ==
    /\ \/ Answer(c, "unauthorized")
       \/ Answer(c, "ambiguous")
       \/ op[c] \notin redeemed /\ Answer(c, "rejected")
    /\ UNCHANGED providerVars

(* A request whose caller is gone is still served, or not.                 *)
ServeLate(o) ==
    /\ o \in late
    /\ late' = late \ {o}
    /\ Charge(o) \/ UNCHANGED providerVars
    /\ UNCHANGED <<dbVars, processVars, pc, callVars, posted, resumed>>

(* What becomes of the request of a call that stops waiting for it.        *)
Abandon(calls) ==
    /\ posted' = posted \ calls
    /\ late' = late \cup {op[c] : c \in posted \cap calls}

Timeout(c) ==
    /\ pc[c] = "waiting"
    /\ Abandon({c})
    /\ Goto(c, "ambiguous")
    /\ UNCHANGED <<dbVars, processVars, callVars, providerVars, resumed>>

(* After the first 401 the token is refreshed and the POST repeated; a     *)
(* failed refresh, like a second 401, is a definitive refusal.             *)
RefreshToken(c) ==
    /\ pc[c] = "unauthorized"
    /\ ~retried[c]
    /\ retried' = [retried EXCEPT ![c] = TRUE]
    /\ posted' = posted \cup {c}
    /\ Goto(c, "waiting")
    /\ UNCHANGED <<dbVars, processVars, op, at, resume, late, providerVars, resumed>>

Unauthorized(c) ==
    /\ pc[c] = "unauthorized"
    /\ Goto(c, "rejected")
    /\ UNCHANGED <<dbVars, processVars, callVars, networkVars, providerVars, resumed>>

(* Seeded fault: an ambiguous answer counts as a refusal.                  *)
DefinitiveAlways(c) == pc[c] \in {"failing", "rejected", "ambiguous"}

Definitive(c) == pc[c] \in {"failing", "rejected"}

(* is_ambiguous_non_idempotent: the operation stays pending.               *)
ReturnUnknown(c) ==
    /\ pc[c] = "ambiguous"
    /\ SetInterrupted(c, FALSE)
    /\ Return(c, "unknown")
    /\ UNCHANGED <<dbVars, callVars, networkVars, providerVars, resumed>>

-----------------------------------------------------------------------------
(* finish_reset_credit_operation: only a pending row changes, the guard    *)
(* goes in the same transaction.                                           *)

(* Seeded fault: the last writer wins.                                     *)
FinalAlways(o, outcome) == outcome

Final(o, outcome) == IF status[o] = "pending" THEN outcome ELSE status[o]

(* Seeded fault: the guard goes whoever owns it.                           *)
WithoutGuardAny(o) == NoOp

WithoutGuard(o) == IF guard = o THEN NoOp ELSE guard

FinishOperation(o, outcome) ==
    /\ status' = [status EXCEPT ![o] = Final(o, outcome)]
    /\ guard' = WithoutGuard(o)

(* fail_operation, or the error of its transaction.                        *)
FailOperation(c) ==
    /\ Definitive(c)
    /\ \/ /\ FinishOperation(op[c], "failed")
          /\ Return(c, Stored(Final(op[c], "failed")))
       \/ /\ UNCHANGED dbVars
          /\ Return(c, "unknown")
    /\ IF pc[c] = "failing" THEN UNCHANGED interrupted ELSE SetInterrupted(c, FALSE)
    /\ UNCHANGED <<callVars, networkVars, providerVars, resumed>>

(* complete_operation ...                                                  *)
CompleteOperation(c) ==
    /\ pc[c] = "accepted"
    /\ FinishOperation(op[c], "completed")
    /\ IF Final(op[c], "completed") = "completed"
       THEN SetInterrupted(c, FALSE) /\ Goto(c, "refreshing") /\ UNCHANGED gate
       ELSE SetInterrupted(c, TRUE) /\ Return(c, "unknown")
    /\ UNCHANGED <<callVars, networkVars, providerVars, resumed>>

(* ... or the error of its transaction.                                    *)
CompleteError(c) ==
    /\ pc[c] = "accepted"
    /\ SetInterrupted(c, TRUE)
    /\ Return(c, "unknown")
    /\ UNCHANGED <<dbVars, callVars, networkVars, providerVars, resumed>>

(* The usage refresh and update_completed_reset_credit_operation_result.   *)
UpdateResult(c) ==
    /\ pc[c] = "refreshing"
    /\ guard' \in {guard, WithoutGuard(op[c])}
    /\ Return(c, "consumed")
    /\ UNCHANGED <<status, interrupted, callVars, networkVars, providerVars, resumed>>

-----------------------------------------------------------------------------
(* The future is dropped at one of its awaits: the mutex is released,      *)
(* `interrupted` keeps its value.                                          *)
Awaiting == {"gate", "snapshot", "waiting", "unauthorized", "rejected", "ambiguous",
             "accepted", "refreshing"}

Cancel(c) ==
    /\ pc[c] \in Awaiting
    /\ Abandon({c})
    /\ Goto(c, "gone")
    /\ gate' = IF pc[c] = "gate" THEN gate ELSE [gate EXCEPT ![at[c]] = NoCall]
    /\ UNCHANGED <<dbVars, interrupted, callVars, providerVars, resumed>>

Restart(p) ==
    LET calls == {c \in Calls : at[c] = p /\ pc[c] \notin Returned}
    IN /\ Abandon(calls)
       /\ pc' = [c \in Calls |-> IF c \in calls THEN "gone" ELSE pc[c]]
       /\ gate' = [gate EXCEPT ![p] = NoCall]
       /\ interrupted' = [interrupted EXCEPT ![p] = FALSE]
       /\ UNCHANGED <<dbVars, callVars, providerVars, resumed>>

-----------------------------------------------------------------------------
Step(c) ==
    \/ Enter(c)
    \/ Claim(c) \/ ClaimRefused(c) \/ ClaimError(c)
    \/ Check(c) \/ Snapshot(c) \/ Send(c)
    \/ Accept(c) \/ Refuse(c) \/ Timeout(c) \/ Cancel(c)
    \/ RefreshToken(c) \/ Unauthorized(c)
    \/ ReturnUnknown(c) \/ FailOperation(c)
    \/ CompleteOperation(c) \/ CompleteError(c) \/ UpdateResult(c)

Next ==
    \/ \E c \in Calls : Step(c)
    \/ \E c \in Calls, o \in Ops, p \in Processes : Start(c, o, p)
    \/ \E o \in Ops : ServeLate(o)
    \/ \E p \in Processes : Restart(p)

Spec == Init /\ [][Next]_vars

-----------------------------------------------------------------------------
TypeOK ==
    /\ status \in [Ops -> {"absent", "pending", "completed", "failed"}]
    /\ guard \in Ops \cup {NoOp}
    /\ gate \in [Processes -> Calls \cup {NoCall}]
    /\ interrupted \in [Processes -> BOOLEAN]
    /\ pc \in [Calls -> Returned \cup Holding \cup {"gate"}]
    /\ op \in [Calls -> Ops \cup {NoOp}] /\ at \in [Calls -> Processes]
    /\ resume \in [Calls -> BOOLEAN] /\ retried \in [Calls -> BOOLEAN]
    /\ posted \subseteq Calls /\ late \subseteq Ops
    /\ redeemed \subseteq Ops /\ credits \in 0 .. Credits
    /\ resumed \subseteq Ops

(* The two tables agree although they are written by several processes,    *)
(* any of which may die between two transactions: the guard is that of a   *)
(* pending operation, and every pending operation has it.  (Operations     *)
(* older than the guard table may be pending without it.)                  *)
GuardMatchesPending ==
    /\ guard # NoOp => status[guard] = "pending"
    /\ \A o \in Ops \ Legacy : status[o] = "pending" => guard = o

(* What a call told its caller stays true, whatever other processes do     *)
(* with the same operation: "consumed" means recorded as completed and     *)
(* redeemed by the provider, a terminal failure recorded as failed.        *)
AnswerMatchesRecord ==
    \A c \in Calls :
        /\ pc[c] = "consumed" => status[op[c]] = "completed" /\ op[c] \in redeemed
        /\ pc[c] = "failed" => status[op[c]] = "failed"

(* Redeemed, or about to be by a request that is still on its way.         *)
MayBeRedeemed(o) == o \in redeemed \cup late \cup {op[c] : c \in posted}

(* "Keep the durable operation pending for transport failures and          *)
(* retryable server responses" (usage_http.rs:67): an operation that was   *)
(* given up at its first attempt has redeemed nothing and never will,      *)
(* although the next operation may start at once.                          *)
FirstFailureIsFinal ==
    \A o \in Ops \ (Legacy \cup resumed) : status[o] = "failed" => ~MayBeRedeemed(o)

(* "Callers must not start a second upstream redemption until that outcome *)
(* is reconciled" (reset_credit_operations.rs:47): no operation, resumed   *)
(* or not, makes room for another while it may have redeemed a credit.     *)
OutcomeReconciled ==
    \A o \in Ops : status[o] = "failed" => ~MayBeRedeemed(o)
=============================================================================
