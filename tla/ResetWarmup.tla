---------------------------- MODULE ResetWarmup ----------------------------
(***************************************************************************)
(* Warmups after a quota reset (storage/account_reset_warmups.rs in core,  *)
(* usage/refresh/reset_warmup.rs in service).  A usage snapshot that shows *)
(* an exhausted five-hour window leaves a reminder in the account's row;   *)
(* when it is due, an executor sends one small request so that the next    *)
(* window starts.  An executor is a polling loop, a bounded channel, the   *)
(* set of keys that were enqueued and some workers; it lives in a process  *)
(* and shares only the database with the executors of other processes.     *)
(*                                                                         *)
(* A cycle is named by the time of its reset.  Times are small numbers.    *)
(***************************************************************************)
EXTENDS Integers, Sequences, FiniteSets

CONSTANTS
    Accounts,
    Executors,
    Workers,        \* of one executor (RESET_WARMUP_WORKERS)
    Capacity,       \* of its channel (RESET_WARMUP_QUEUE_CAPACITY)
    Grace,          \* RESET_GRACE_SECONDS
    Horizon,        \* bound: the clock stops here
    MaxReset,       \* bound: the last reset of a five-hour window
    LongResets,     \* bound: resets of the long window
    MaxChanges,     \* bound: snapshots and changes of settings and accounts
    MaxStops        \* bound: shutdowns, deaths and panics

ASSUME WarmupAssumption ==
    /\ {Capacity, Grace, Horizon, MaxReset, MaxChanges, MaxStops} \subseteq Nat
    /\ LongResets \subseteq Nat \ {0}
    /\ Capacity > 0

Resets == 1 .. MaxReset
Null == 0              \* SQL NULL, respectively a window that is not exhausted
Unknown == -1          \* exhausted, with no reset time

VARIABLES
    now,
    pending, consumed,               \* rows of account_reset_warmups
    enabled,                         \* the switch, the account's status and its token
    long,                            \* the long window in the latest snapshot
    loop, stopping, listed,          \* per executor: the polling loop,
    keys, channel,                   \* the enqueued keys and the channel,
    pc, job,                         \* its workers
    uses,                            \* how often a cycle was used
    changes, stops

rowVars == <<pending, consumed, uses>>
accountVars == <<rowVars, enabled, long>>
loopVars == <<loop, stopping, listed>>
queueVars == <<keys, channel>>
workerVars == <<pc, job>>
vars == <<now, accountVars, loopVars, queueVars, workerVars, changes, stops>>

Larger(a, b) == IF a > b THEN a ELSE b

Key(t) == <<t.account, t.reset>>
Targets == [account : Accounts, reset : Resets, due : Nat]
NoJob == [account |-> Null]

Init ==
    /\ now = 0
    /\ enabled = [a \in Accounts |-> TRUE]
    /\ pending = [a \in Accounts |-> Null]
    /\ consumed = [a \in Accounts |-> Null]
    /\ long = [a \in Accounts |-> Null]
    /\ loop = [e \in Executors |-> TRUE]
    /\ stopping = [e \in Executors |-> FALSE]
    /\ listed = [e \in Executors |-> {}]
    /\ keys = [e \in Executors |-> {}]
    /\ channel = [e \in Executors |-> <<>>]
    /\ pc = [e \in Executors |-> [w \in Workers |-> "idle"]]
    /\ job = [e \in Executors |-> [w \in Workers |-> NoJob]]
    /\ uses = [a \in Accounts |-> [r \in Resets |-> 0]]
    /\ changes = 0 /\ stops = 0

----------------------------------------------------------------------------
(* The database.                                                           *)

(* eligible_targets_sql, with the due_at it computes.                      *)
Eligible(a) ==
    /\ enabled[a]
    /\ pending[a] # Null /\ pending[a] > consumed[a]
    /\ long[a] # Unknown

DueAt(a) == Larger(pending[a], long[a]) + Grace

Due(a) == Eligible(a) /\ DueAt(a) <= now

(* A snapshot with an exhausted five-hour window arms a reminder, unless   *)
(* its cycle was used ...                                                  *)
Arms(a, reset) == reset > consumed[a]

(* ... and a partly used window with a later reset shows that a request    *)
(* started the cycle the reminder is for.                                  *)
Overtaken(a, reset) ==
    pending[a] # Null /\ pending[a] < reset /\ pending[a] <= now

(* Seeded fault: the cycle is not remembered.                              *)
ForgetCycle(a) ==
    /\ pending' = [pending EXCEPT ![a] = Null]
    /\ uses' = [uses EXCEPT ![a][pending[a]] = @ + 1]
    /\ UNCHANGED consumed

(* The pending cycle is used, and its reminder goes.                       *)
UseCycle(a) ==
    /\ consumed' = [consumed EXCEPT ![a] = Larger(@, pending[a])]
    /\ pending' = [pending EXCEPT ![a] = Null]
    /\ uses' = [uses EXCEPT ![a][pending[a]] = @ + 1]

(* insert_usage_snapshot_and_prune_with_previous, with the time of storing *)
(* it: what it stores is always the latest.                                *)
Observe(a, used, reset) ==
    /\ changes < MaxChanges
    /\ changes' = changes + 1
    /\ \E exhausted \in LongResets \cup {Null, Unknown} : long' = [long EXCEPT ![a] = exhausted]
    /\ \/ /\ used = "part" /\ Overtaken(a, reset)
          /\ UseCycle(a)
       \/ /\ used = "full" /\ Arms(a, reset)
          /\ pending' = [pending EXCEPT ![a] = Larger(@, reset)]
          /\ UNCHANGED <<consumed, uses>>
       \/ /\ \/ used = "part" /\ ~Overtaken(a, reset)
             \/ used = "full" /\ ~Arms(a, reset)
             \/ used = "none"
          /\ UNCHANGED <<pending, consumed, uses>>
    /\ UNCHANGED <<now, enabled, loopVars, queueVars, workerVars, stops>>

(* set_account_reset_warmup_enabled, for one account of the selection; the *)
(* account is disabled or enabled, or its token goes or comes back.        *)
Switch(a) ==
    /\ changes < MaxChanges
    /\ changes' = changes + 1
    /\ enabled' = [enabled EXCEPT ![a] = ~@]
    /\ UNCHANGED <<now, rowVars, long, loopVars, queueVars, workerVars, stops>>

Tick ==
    /\ now < Horizon
    /\ now' = now + 1
    /\ UNCHANGED <<accountVars, loopVars, queueVars, workerVars, changes, stops>>

----------------------------------------------------------------------------
(* An executor.                                                            *)

Gone(e) == ~loop[e] /\ \A w \in Workers : pc[e][w] = "off"

(* ResetWarmupExecutor::new, in a new process, after the drain of the old  *)
(* one, or after a panic of another loop.                                  *)
Start(e) ==
    /\ Gone(e)
    /\ loop' = [loop EXCEPT ![e] = TRUE]
    /\ stopping' = [stopping EXCEPT ![e] = FALSE]
    /\ listed' = [listed EXCEPT ![e] = {}]
    /\ keys' = [keys EXCEPT ![e] = {}]
    /\ channel' = [channel EXCEPT ![e] = <<>>]
    /\ pc' = [pc EXCEPT ![e] = [w \in Workers |-> "idle"]]
    /\ UNCHANGED <<now, accountVars, job, changes, stops>>

(* list_account_reset_warmup_targets: the first of what is due.            *)
DueTargets == {[account |-> a, reset |-> pending[a], due |-> DueAt(a)] :
                 a \in {b \in Accounts : Due(b)}}

IsFirst(some, all) ==
    /\ some \subseteq all
    /\ Cardinality(some) = IF Cardinality(all) > Capacity THEN Capacity ELSE Cardinality(all)
    /\ \A t \in some, u \in all \ some : t.due <= u.due

Poll(e) ==
    /\ loop[e] /\ ~stopping[e] /\ listed[e] = {}
    /\ DueTargets # {}
    /\ \E some \in SUBSET DueTargets :
         IsFirst(some, DueTargets) /\ listed' = [listed EXCEPT ![e] = some]
    /\ UNCHANGED <<now, accountVars, loop, stopping, queueVars, workerVars, changes, stops>>

(* Seeded fault: the key of a target that found no place stays.            *)
KeyAfterFull(e, t) == keys[e] \cup {Key(t)}

(* try_send failed: the key is taken back.                                 *)
KeysWhenFull(e, t) == keys[e]

(* enqueue, for the next target of the list.                               *)
Enqueue(e) ==
    /\ loop[e] /\ ~stopping[e]
    /\ \E t \in listed[e] :
         /\ \A u \in listed[e] : t.due <= u.due
         /\ listed' = [listed EXCEPT ![e] = @ \ {t}]
         /\ \/ /\ Key(t) \in keys[e]
               /\ UNCHANGED queueVars
            \/ /\ Key(t) \notin keys[e] /\ Len(channel[e]) < Capacity
               /\ keys' = [keys EXCEPT ![e] = @ \cup {Key(t)}]
               /\ channel' = [channel EXCEPT ![e] = Append(@, t)]
            \/ /\ Key(t) \notin keys[e] /\ Len(channel[e]) >= Capacity
               /\ keys' = [keys EXCEPT ![e] = KeysWhenFull(e, t)]
               /\ UNCHANGED channel
    /\ UNCHANGED <<now, accountVars, loop, stopping, workerVars, changes, stops>>

(* The loop ends at a shutdown and drops the sender.                       *)
EndLoop(e) ==
    /\ loop[e] /\ stopping[e]
    /\ loop' = [loop EXCEPT ![e] = FALSE]
    /\ listed' = [listed EXCEPT ![e] = {}]
    /\ UNCHANGED <<now, accountVars, stopping, queueVars, workerVars, changes, stops>>

Receive(e, w) ==
    /\ ~stopping[e] /\ pc[e][w] = "idle"
    /\ channel[e] # <<>>
    /\ channel' = [channel EXCEPT ![e] = Tail(@)]
    /\ job' = [job EXCEPT ![e][w] = Head(channel[e])]
    /\ pc' = [pc EXCEPT ![e][w] = "claim"]
    /\ UNCHANGED <<now, accountVars, loopVars, keys, changes, stops>>

(* Seeded fault: a target that is given up keeps its key.                  *)
PutDownForgetful(e, w, next) ==
    /\ job' = [job EXCEPT ![e][w] = NoJob]
    /\ pc' = [pc EXCEPT ![e][w] = next]
    /\ UNCHANGED keys

(* The worker is done with its target: PendingGuard::drop.                 *)
PutDown(e, w, next) ==
    /\ keys' = [keys EXCEPT ![e] = @ \ {Key(job[e][w])}]
    /\ job' = [job EXCEPT ![e][w] = NoJob]
    /\ pc' = [pc EXCEPT ![e][w] = next]

(* The UPDATE of claim_account_reset_warmup finds the row as it was listed.*)
Claimable(t) == pending[t.account] = t.reset /\ Due(t.account)

(* claim_reset_warmup_task: reserve the attempt before anything is sent.   *)
Claim(e, w) ==
    LET t == job[e][w] IN
    /\ ~stopping[e] /\ pc[e][w] = "claim"
    /\ t.due <= now /\ Claimable(t)
    /\ UseCycle(t.account)
    /\ pc' = [pc EXCEPT ![e][w] = "send"]
    /\ UNCHANGED <<now, enabled, long, loopVars, queueVars, job, changes, stops>>

(* The row changed since it was listed ...                                 *)
ClaimRefused(e, w) ==
    /\ ~stopping[e] /\ pc[e][w] = "claim"
    /\ job[e][w].due > now \/ ~Claimable(job[e][w])
    /\ PutDown(e, w, "idle")
    /\ UNCHANGED <<now, accountVars, loopVars, channel, changes, stops>>

(* ... or the database cannot be used, or the task panics before it is.    *)
ClaimError(e, w) ==
    /\ ~stopping[e] /\ pc[e][w] = "claim"
    /\ PutDown(e, w, "idle")
    /\ UNCHANGED <<now, accountVars, loopVars, channel, changes, stops>>

(* The request succeeds, fails, times out or panics: it is not repeated.   *)
EndSend(e, w) ==
    /\ ~stopping[e] /\ pc[e][w] = "send"
    /\ PutDown(e, w, "idle")
    /\ UNCHANGED <<now, accountVars, loopVars, channel, changes, stops>>

(* A worker sees the shutdown, whatever it is doing ...                    *)
EndWorker(e, w) ==
    /\ stopping[e] /\ pc[e][w] # "off"
    /\ \/ /\ pc[e][w] = "idle"
          /\ pc' = [pc EXCEPT ![e][w] = "off"]
          /\ UNCHANGED <<keys, job>>
       \/ pc[e][w] # "idle" /\ PutDown(e, w, "off")
    /\ UNCHANGED <<now, accountVars, loopVars, channel, changes, stops>>

(* ... or that the sender is gone and the channel empty.                   *)
ChannelClosed(e, w) ==
    /\ ~loop[e] /\ channel[e] = <<>> /\ pc[e][w] = "idle"
    /\ pc' = [pc EXCEPT ![e][w] = "off"]
    /\ UNCHANGED <<now, accountVars, loopVars, queueVars, job, changes, stops>>

----------------------------------------------------------------------------
(* A shutdown begins, the loop panics, or the process dies.                *)
Stop(e) ==
    /\ stops < MaxStops /\ ~Gone(e) /\ ~stopping[e]
    /\ stops' = stops + 1
    /\ stopping' = [stopping EXCEPT ![e] = TRUE]
    /\ UNCHANGED <<now, accountVars, loop, listed, queueVars, workerVars, changes>>

LoopPanic(e) ==
    /\ stops < MaxStops /\ loop[e]
    /\ stops' = stops + 1
    /\ loop' = [loop EXCEPT ![e] = FALSE]
    /\ listed' = [listed EXCEPT ![e] = {}]
    /\ UNCHANGED <<now, accountVars, stopping, queueVars, workerVars, changes>>

Crash(e) ==
    /\ stops < MaxStops /\ ~Gone(e)
    /\ stops' = stops + 1
    /\ loop' = [loop EXCEPT ![e] = FALSE]
    /\ stopping' = [stopping EXCEPT ![e] = FALSE]
    /\ listed' = [listed EXCEPT ![e] = {}]
    /\ keys' = [keys EXCEPT ![e] = {}]
    /\ channel' = [channel EXCEPT ![e] = <<>>]
    /\ pc' = [pc EXCEPT ![e] = [w \in Workers |-> "off"]]
    /\ job' = [job EXCEPT ![e] = [w \in Workers |-> NoJob]]
    /\ UNCHANGED <<now, accountVars, changes>>

----------------------------------------------------------------------------
Change ==
    \E a \in Accounts :
      \/ Switch(a)
      \/ \E used \in {"none", "part", "full"}, reset \in Resets :
           Observe(a, used, reset)

LoopStep(e) == Poll(e) \/ Enqueue(e) \/ EndLoop(e)

WorkerStep(e, w) ==
    Receive(e, w) \/ Claim(e, w) \/ ClaimRefused(e, w) \/ EndSend(e, w)
      \/ EndWorker(e, w) \/ ChannelClosed(e, w)

Next ==
    \/ Tick \/ Change
    \/ \E e \in Executors :
         \/ Start(e) \/ LoopStep(e) \/ Stop(e) \/ LoopPanic(e) \/ Crash(e)
         \/ \E w \in Workers : WorkerStep(e, w) \/ ClaimError(e, w)

Spec == Init /\ [][Next]_vars

(* The clock runs, tasks run when they can, a request ends (it has a       *)
(* timeout), some process runs the warmups, and a claim that is tried      *)
(* again and again for an account does not fail for ever.                  *)
Restart == (\A e \in Executors : Gone(e)) /\ \E e \in Executors : Start(e)

ClaimFor(e, a) == \E w \in Workers : job[e][w].account = a /\ Claim(e, w)

FairSpec ==
    /\ Spec
    /\ WF_vars(Tick) /\ WF_vars(Restart)
    /\ \A e \in Executors :
         /\ WF_vars(LoopStep(e))
         /\ \A w \in Workers : WF_vars(WorkerStep(e, w))
         /\ \A a \in Accounts : SF_vars(ClaimFor(e, a))

----------------------------------------------------------------------------
TypeOK ==
    /\ now \in Nat
    /\ enabled \in [Accounts -> BOOLEAN]
    /\ pending \in [Accounts -> Resets \cup {Null}]
    /\ consumed \in [Accounts -> Resets \cup {Null}]
    /\ long \in [Accounts -> LongResets \cup {Null, Unknown}]
    /\ loop \in [Executors -> BOOLEAN] /\ stopping \in [Executors -> BOOLEAN]
    /\ listed \in [Executors -> SUBSET Targets]
    /\ keys \in [Executors -> SUBSET (Accounts \X Resets)]
    /\ channel \in [Executors -> Seq(Targets)]
    /\ pc \in [Executors -> [Workers -> {"off", "idle", "claim", "send"}]]
    /\ job \in [Executors -> [Workers -> Targets \cup {NoJob}]]
    /\ uses \in [Accounts -> [Resets -> Nat]]
    /\ changes \in Nat /\ stops \in Nat

(* "another worker, process, or settings change cannot claim the same      *)
(* cycle twice" (account_reset_warmups.rs:65), and stale snapshots "cannot *)
(* rearm it" (192): a cycle is used once, by a warmup or by the traffic    *)
(* that was seen to have started it, over all executors and restarts.      *)
OncePerCycle == \A a \in Accounts, r \in Resets : uses[a][r] <= 1

(* The set of keys that suppresses duplicates names exactly the targets in *)
(* the channel and in the hands of workers, each of them once: a key left  *)
(* behind would suppress the account's warmup for as long as the process   *)
(* lives.                                                                  *)
Working(e) == {w \in Workers : pc[e][w] \in {"claim", "send"}}

KeysExact ==
    \A e \in Executors :
      /\ keys[e] = {Key(channel[e][i]) : i \in DOMAIN channel[e]}
                     \cup {Key(job[e][w]) : w \in Working(e)}
      /\ \A i, j \in DOMAIN channel[e] : Key(channel[e][i]) = Key(channel[e][j]) => i = j
      /\ \A v, w \in Working(e) : Key(job[e][v]) = Key(job[e][w]) => v = w
      /\ \A i \in DOMAIN channel[e], w \in Working(e) : Key(channel[e][i]) # Key(job[e][w])

(* No reminder stays due for ever: it is claimed, however full the channel *)
(* was, whoever was stopped, and whatever was enqueued before it changed.  *)
EveryReminderEnds == \A a \in Accounts : []<>~Due(a)
=============================================================================
