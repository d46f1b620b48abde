---------------------------- MODULE RequestGate ----------------------------
(***************************************************************************)
(* The admission gate of the gateway: one counting semaphore per account   *)
(* or per client address, shared by every request with that key            *)
(* (service/gateway/routing/request_gate.rs).  The module follows one key. *)
(*                                                                         *)
(* The semaphore objects live in a table that forgets entries: the TTL     *)
(* sweep and clear_runtime_state drop an entry nobody else references.     *)
(* Requests on the account gate wait on a tokio Notify, requests on the    *)
(* client-address gate block on a Condvar; the object serves both at once. *)
(* The limit is an atomic that set_max_running stores without taking the   *)
(* mutex that guards `running`.                                            *)
(***************************************************************************)
EXTENDS Naturals, FiniteSets

CONSTANTS
    Requests,    \* the requests that want this gate, each once
    Blocking,    \* those that wait on the Condvar; the others wait on the Notify
    Locks,       \* identities for the gate objects the table may create
    Limits,      \* limits a caller may ask for, after `max(1)`
    NoLock       \* "the table has no entry", "the request holds no Arc"

ASSUME GateAssumption ==
    /\ IsFiniteSet(Requests)
    /\ Blocking \subseteq Requests
    /\ Limits \subseteq Nat \ {0} /\ Limits # {}
    /\ NoLock \notin Locks

VARIABLES
    table,       \* the object the table holds for the key, or NoLock
    running,     \* RequestGateState.running of each object
    limit,       \* max_running of each object
    permit,      \* the permit a Notify stores when nobody is registered
    pc,          \* where each request is
    lockOf,      \* the Arc each request holds
    note         \* what the Notified future of a request has received

vars == <<table, running, limit, permit, pc, lockOf, note>>

(* "arrived": holds the Arc, has not tried yet.  "queued": tried in vain,  *)
(* about to (re)check.  "blocked": found the gate full with the mutex held *)
(* and is about to sleep on the Condvar.  "enabled": its Notified future   *)
(* is registered, not yet checked.  "asleep": waiting for a notification.  *)
States == {"idle", "arrived", "queued", "blocked", "enabled", "asleep",
           "hold", "gone"}

Active(r) == pc[r] \notin {"idle", "gone"}

(* Seeded fault: the reference count sees guards only, not waiters.        *)
SharedByHoldersOnly(l) == \E r \in Requests : pc[r] = "hold" /\ lockOf[r] = l

Holders(l) == {r \in Requests : pc[r] = "hold" /\ lockOf[r] = l}
AllHolders == {r \in Requests : pc[r] = "hold"}

(* Arc::strong_count(l) > 1: somebody besides the table references it.     *)
Shared(l) == \E r \in Requests : Active(r) /\ lockOf[r] = l

MutexFree(l) == \A r \in Requests : pc[r] = "blocked" => lockOf[r] # l

Init ==
    /\ table = NoLock
    /\ running = [l \in Locks |-> 0]
    /\ limit = [l \in Locks |-> CHOOSE n \in Limits : TRUE]
    /\ permit = [l \in Locks |-> FALSE]
    /\ pc = [r \in Requests |-> "idle"]
    /\ lockOf = [r \in Requests |-> NoLock]
    /\ note = [r \in Requests |-> "none"]

-----------------------------------------------------------------------------
(* Notifications.                                                          *)

SyncSleepers(l) == {r \in Blocking : pc[r] = "asleep" /\ lockOf[r] = l}

(* Registered futures of l that no notification has reached yet.           *)
Registered(l) ==
    {r \in Requests \ Blocking :
        pc[r] \in {"enabled", "asleep"} /\ lockOf[r] = l /\ note[r] = "none"}

(* Notify::notify_one: one registered future, or the permit.               *)
NotifyOneAsync(l, waiters) ==
    IF waiters = {}
    THEN permit' = [permit EXCEPT ![l] = TRUE] /\ note' = note
    ELSE /\ \E w \in waiters : note' = [note EXCEPT ![w] = "one"]
         /\ permit' = permit

(* Seeded fault: a cancelled waiter keeps the wakeup it was given.         *)
DropNotifiedSilently(r) == note' = [note EXCEPT ![r] = "none"] /\ permit' = permit

(* Dropping a Notified future hands its wakeup on only when a notify_one   *)
(* reached it while it was registered; a future that took the stored       *)
(* permit is done and takes the permit with it.                            *)
DropNotified(r) ==
    IF note[r] = "one"
    THEN IF Registered(lockOf[r]) = {}
         THEN /\ permit' = [permit EXCEPT ![lockOf[r]] = TRUE]
              /\ note' = [note EXCEPT ![r] = "none"]
         ELSE /\ \E w \in Registered(lockOf[r]) :
                    note' = [note EXCEPT ![r] = "none", ![w] = "one"]
              /\ permit' = permit
    ELSE note' = [note EXCEPT ![r] = "none"] /\ permit' = permit

(* Seeded fault: the limit is stored without the clamp to at least one.    *)
AnnounceUnclamped(l, m, arriving) ==
    /\ limit' = [limit EXCEPT ![l] = m - 1]
    /\ pc' = [r \in Requests |->
                IF r = arriving THEN "arrived"
                ELSE IF r \in SyncSleepers(l) THEN "queued" ELSE pc[r]]
    /\ note' = [r \in Requests |->
                  IF r \in Registered(l) THEN "all" ELSE note[r]]

(* set_max_running: store the limit, Condvar::notify_all, notify_waiters.  *)
(* Neither needs the mutex, so a request that already found the gate full  *)
(* but does not sleep yet ("blocked") misses the notification.             *)
Announce(l, m, arriving) ==
    /\ limit' = [limit EXCEPT ![l] = m]
    /\ pc' = [r \in Requests |->
                IF r = arriving THEN "arrived"
                ELSE IF r \in SyncSleepers(l) THEN "queued" ELSE pc[r]]
    /\ note' = [r \in Requests |->
                  IF r \in Registered(l) THEN "all" ELSE note[r]]

-----------------------------------------------------------------------------
(* gate_lock_for_key: the TTL sweep (if due) may drop an entry nobody      *)
(* references, then the entry is found or created and its limit stored.    *)

Swept(sweep) == IF sweep /\ table # NoLock /\ ~Shared(table) THEN NoLock ELSE table

Fresh(l) == \A r \in Requests : lockOf[r] # l

Lookup(r) ==
    /\ pc[r] = "idle"
    /\ \E sweep \in BOOLEAN, m \in Limits, l \in Locks :
         /\ IF Swept(sweep) # NoLock
            THEN l = Swept(sweep) /\ running' = running /\ permit' = permit
            ELSE /\ Fresh(l)
                 /\ running' = [running EXCEPT ![l] = 0]
                 /\ permit' = [permit EXCEPT ![l] = FALSE]
         /\ table' = l
         /\ lockOf' = [lockOf EXCEPT ![r] = l]
         /\ Announce(l, m, r)

(* clear_runtime_state (settings reload).                                  *)
ClearRuntimeState ==
    /\ table # NoLock
    /\ ~Shared(table)
    /\ table' = NoLock
    /\ UNCHANGED <<running, limit, permit, pc, lockOf, note>>

-----------------------------------------------------------------------------
(* Taking and leaving a slot.                                              *)

(* Seeded faults: the limit is off by one; a slot is taken but not counted. *)
FullOffByOne(l) == running[l] > limit[l]
AdmitUncounted(r) == running' = running /\ pc' = [pc EXCEPT ![r] = "hold"]

Full(l) == running[l] >= limit[l]

Admit(r) ==
    /\ running' = [running EXCEPT ![lockOf[r]] = @ + 1]
    /\ pc' = [pc EXCEPT ![r] = "hold"]

Leave(r) == /\ pc' = [pc EXCEPT ![r] = "gone"]
            /\ lockOf' = [lockOf EXCEPT ![r] = NoLock]

(* try_acquire, which both gates attempt before they wait.                 *)
TryAcquire(r) ==
    /\ pc[r] = "arrived"
    /\ MutexFree(lockOf[r])
    /\ \/ ~Full(lockOf[r]) /\ Admit(r)
       \/ /\ Full(lockOf[r])
          /\ pc' = [pc EXCEPT ![r] = "queued"]
          /\ running' = running
    /\ UNCHANGED <<table, limit, permit, lockOf, note>>

(* The gate is full and the wait budget or the deadline is already spent.  *)
RefuseWithoutWait(r) ==
    /\ pc[r] = "arrived"
    /\ MutexFree(lockOf[r])
    /\ Full(lockOf[r])
    /\ Leave(r)
    /\ UNCHANGED <<table, running, limit, permit, note>>

(* wait_while / wait_timeout_while: the predicate is evaluated with the    *)
(* mutex held.                                                             *)
SyncCheck(r) ==
    /\ r \in Blocking
    /\ pc[r] = "queued"
    /\ MutexFree(lockOf[r])
    /\ \/ ~Full(lockOf[r]) /\ Admit(r)
       \/ /\ Full(lockOf[r])
          /\ pc' = [pc EXCEPT ![r] = "blocked"]
          /\ running' = running
    /\ UNCHANGED <<table, limit, permit, lockOf, note>>

SyncSleep(r) ==
    /\ pc[r] = "blocked"
    /\ pc' = [pc EXCEPT ![r] = "asleep"]
    /\ UNCHANGED <<table, running, limit, permit, lockOf, note>>

(* acquire_with_timeout gave up waiting: it still takes a free slot.       *)
SyncTimeout(r) ==
    /\ r \in Blocking
    /\ pc[r] \in {"queued", "asleep"}
    /\ MutexFree(lockOf[r])
    /\ \/ ~Full(lockOf[r]) /\ Admit(r) /\ lockOf' = lockOf
       \/ Full(lockOf[r]) /\ Leave(r) /\ running' = running
    /\ UNCHANGED <<table, limit, permit, note>>

(* acquire_async registers the future before it looks at the state. A      *)
(* future that finds a stored permit is done at once and not registered.   *)
AsyncEnable(r) ==
    /\ r \in Requests \ Blocking
    /\ pc[r] = "queued"
    /\ pc' = [pc EXCEPT ![r] = "enabled"]
    /\ note' = [note EXCEPT ![r] = IF permit[lockOf[r]] THEN "done" ELSE "none"]
    /\ permit' = [permit EXCEPT ![lockOf[r]] = FALSE]
    /\ UNCHANGED <<table, running, limit, lockOf>>

AsyncCheck(r) ==
    /\ pc[r] = "enabled"
    /\ MutexFree(lockOf[r])
    /\ \/ ~Full(lockOf[r]) /\ Admit(r) /\ DropNotified(r)
       \/ /\ Full(lockOf[r])
          /\ pc' = [pc EXCEPT ![r] = "asleep"]
          /\ UNCHANGED <<running, permit, note>>
    /\ UNCHANGED <<table, limit, lockOf>>

AsyncWake(r) ==
    /\ r \in Requests \ Blocking
    /\ pc[r] = "asleep"
    /\ note[r] # "none"
    /\ pc' = [pc EXCEPT ![r] = "queued"]
    /\ note' = [note EXCEPT ![r] = "none"]
    /\ UNCHANGED <<table, running, limit, permit, lockOf>>

(* tokio::time::timeout elapsed, or the client went away and               *)
(* with_response_cancellation dropped the future.  A future is dropped     *)
(* only between polls, and its only await is the notification.             *)
AsyncAbandon(r) ==
    /\ r \in Requests \ Blocking
    /\ pc[r] = "asleep"
    /\ Leave(r)
    /\ DropNotified(r)
    /\ UNCHANGED <<table, running, limit>>

(* RequestGateGuard::drop.                                                 *)
Release(r) ==
    LET l == lockOf[r] IN
    /\ pc[r] = "hold"
    /\ MutexFree(l)
    /\ running' = [running EXCEPT ![l] = IF @ = 0 THEN 0 ELSE @ - 1]
    /\ lockOf' = [lockOf EXCEPT ![r] = NoLock]
    /\ IF SyncSleepers(l) = {}
       THEN pc' = [pc EXCEPT ![r] = "gone"]
       ELSE \E w \in SyncSleepers(l) : pc' = [pc EXCEPT ![r] = "gone", ![w] = "queued"]
    /\ NotifyOneAsync(l, Registered(l))
    /\ UNCHANGED <<table, limit>>

-----------------------------------------------------------------------------
Advance(r) ==
    \/ TryAcquire(r) \/ SyncCheck(r) \/ SyncSleep(r)
    \/ AsyncEnable(r) \/ AsyncCheck(r) \/ AsyncWake(r)
    \/ Release(r)

GiveUp(r) == RefuseWithoutWait(r) \/ SyncTimeout(r) \/ AsyncAbandon(r)

Next ==
    \/ \E r \in Requests : Lookup(r) \/ Advance(r) \/ GiveUp(r)
    \/ ClearRuntimeState

Spec == Init /\ [][Next]_vars

(* A thread or task that can run does run, and a request that holds a slot *)
(* finishes.  Nobody has to arrive, time out or be cancelled.              *)
FairSpec == Spec /\ \A r \in Requests : WF_vars(Advance(r))

-----------------------------------------------------------------------------
TypeOK ==
    /\ table \in Locks \cup {NoLock}
    /\ running \in [Locks -> Nat]
    /\ limit \in [Locks -> Limits]
    /\ permit \in [Locks -> BOOLEAN]
    /\ pc \in [Requests -> States]
    /\ lockOf \in [Requests -> Locks \cup {NoLock}]
    /\ note \in [Requests -> {"none", "one", "done", "all"}]

(* Sweeping the table or reloading the settings never splits the gate:     *)
(* everybody waiting for or holding the key shares the object the next     *)
(* arrival will find ("In-flight requests and waiters must keep sharing    *)
(* the same admission gate", request_gate.rs:317).                         *)
SharedGate == \A r \in Requests : Active(r) => lockOf[r] = table

(* `running` counts exactly the guards alive: no path through timeouts,    *)
(* cancellation or release leaks or double-frees a slot.                   *)
SlotsExact == \A l \in Locks : running[l] = Cardinality(Holders(l))

(* A request is admitted only while fewer requests than the limit in force *)
(* hold the key, whichever object they came through.                       *)
AdmittedBelowLimit ==
    [][\A r \in Requests :
          pc[r] # "hold" /\ pc'[r] = "hold"
            => Cardinality(AllHolders) < limit[table]]_vars

(* With nobody timing out, every request that reaches the gate gets        *)
(* through: no notification is lost between a failed check and the sleep,  *)
(* not even when set_max_running skips the mutex.                          *)
EveryRequestServed ==
    \A r \in Requests : pc[r] = "arrived" ~> pc[r] = "gone"
=============================================================================
