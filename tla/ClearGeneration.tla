-------------------------- MODULE ClearGeneration --------------------------
(***************************************************************************)
(* The in-process mirror of the request payload clear generation           *)
(* (service/gateway/observability/request_log_payload_clear.rs): how a job *)
(* captured on the hot path, with three atomic loads and no lock, is told  *)
(* apart from the log clears that run around it until the writer decides,  *)
(* inside its write transaction, whether the job may still be stored.      *)
(*                                                                         *)
(* One step per atomic access or transaction.  The payload queue between   *)
(* capture and writer is a set here (PayloadQueue has its order and its    *)
(* files): a job may wait in it for any time and survive a restart.        *)
(***************************************************************************)
EXTENDS Integers, FiniteSets

CONSTANTS
    Jobs,           \* captured request payloads
    Clears,         \* log clears (requestlog/clear calls); they may overlap
    MaxRestores,    \* bound: how often an older database file is put back
    MaxRestarts,    \* bound: how often the process restarts
    MaxEvents       \* bound: clears, restored files and restarts together

ASSUME ClearAssumption ==
    /\ IsFiniteSet(Clears)
    /\ MaxRestores \in Nat
    /\ MaxRestarts \in Nat
    /\ MaxEvents \in Nat

Unresolved == -1    \* GENERATION_UNRESOLVED; also a failed read of SQLite
InFlight == -2      \* CLEAR_EPOCH_IN_FLIGHT, and read_epoch() = None

VARIABLES
    generation,     \* request_log_payload_state.generation in SQLite
    mirror, started, finished,                  \* ClearState
    clear, clearRead,                           \* each clear's progress
    at, loaded, epoch, gen, bootOf, seen,       \* each job
    writer, locked, batch, wLoaded, wEpoch, wGen, wClear,  \* writer thread
    boot, restores,
    commits         \* history: log clears committed so far

dbVars == <<generation, restores, commits>>
stateVars == <<mirror, started, finished>>
clearVars == <<clear, clearRead>>
jobVars == <<at, loaded, epoch, gen, bootOf, seen>>
writerVars == <<writer, locked, batch, wLoaded, wEpoch, wGen, wClear>>
vars == <<dbVars, stateVars, clearVars, jobVars, writerVars, boot>>

JobStates == {"new", "capturing", "checked", "queued", "written", "stale", "lost"}
ClearStates == {"idle", "begun", "committed", "read", "observed", "failed", "done", "aborted"}
WriterStates == {"idle", "start", "counted", "epoch", "read", "lower", "observed", "ready"}

(* Clears between begin_clear and finish_clear.                            *)
Running == {c \in Clears : clear[c] \in {"begun", "committed", "read", "observed", "failed"}}

(* A clear that committed and did not learn its generation when it         *)
(* finished.                                                               *)
ReadsFailed == \E c \in Clears : clear[c] \in {"observed", "done"} /\ clearRead[c] = Unresolved

(* Clears, restored files and restarts so far.                             *)
Events == Cardinality({c \in Clears : clear[c] # "idle"}) + restores + boot

Init ==
    /\ generation = 0 /\ restores = 0 /\ commits = 0
    /\ mirror \in {Unresolved, 0} /\ started = 0 /\ finished = 0
    /\ clear = [c \in Clears |-> "idle"]
    /\ clearRead = [c \in Clears |-> Unresolved]
    /\ at = [j \in Jobs |-> "new"]
    /\ loaded = [j \in Jobs |-> 0]
    /\ epoch = [j \in Jobs |-> 0]
    /\ gen = [j \in Jobs |-> Unresolved]
    /\ bootOf = [j \in Jobs |-> 0]
    /\ seen = [j \in Jobs |-> 0]
    /\ writer = "idle" /\ locked = FALSE /\ batch = {}
    /\ wLoaded = 0 /\ wEpoch = InFlight /\ wGen = Unresolved /\ wClear = 0
    /\ boot = 0

-----------------------------------------------------------------------------
(* Capture on the hot path: three loads, in this order.                    *)

CaptureFinished(j) ==
    /\ at[j] = "new"
    /\ at' = [at EXCEPT ![j] = "capturing"]
    /\ loaded' = [loaded EXCEPT ![j] = finished]
    /\ UNCHANGED <<dbVars, stateVars, clearVars, epoch, gen, bootOf, seen, writerVars, boot>>

(* Seeded fault: the epoch is taken although a clear is in flight.         *)
EpochIgnoringFlight(count) == started

(* clear_epoch, from the finished count loaded earlier.                    *)
EpochSince(count) == IF count = started THEN started ELSE InFlight

CaptureStarted(j) ==
    /\ at[j] = "capturing"
    /\ at' = [at EXCEPT ![j] = "checked"]
    /\ epoch' = [epoch EXCEPT ![j] = EpochSince(loaded[j])]
    /\ UNCHANGED <<dbVars, stateVars, clearVars, loaded, gen, bootOf, seen, writerVars, boot>>

CaptureMirror(j) ==
    /\ at[j] = "checked"
    /\ at' = [at EXCEPT ![j] = "queued"]
    /\ gen' = [gen EXCEPT ![j] = mirror]
    /\ bootOf' = [bootOf EXCEPT ![j] = boot]
    /\ seen' = [seen EXCEPT ![j] = commits]
    /\ UNCHANGED <<dbVars, stateVars, clearVars, loaded, epoch, writerVars, boot>>

-----------------------------------------------------------------------------
(* A log clear.                                                            *)

BeginClear(c) ==
    /\ clear[c] = "idle" /\ Events < MaxEvents
    /\ clear' = [clear EXCEPT ![c] = "begun"]
    /\ started' = started + 1
    /\ UNCHANGED <<dbVars, mirror, finished, clearRead, jobVars, writerVars, boot>>

(* Its transaction: the log rows go and the generation rises together.     *)
CommitClear(c) ==
    /\ clear[c] = "begun"
    /\ ~locked
    /\ clear' = [clear EXCEPT ![c] = "committed"]
    /\ generation' = generation + 1
    /\ commits' = commits + 1
    /\ UNCHANGED <<restores, stateVars, clearRead, jobVars, writerVars, boot>>

FailClear(c) ==
    /\ clear[c] = "begun"
    /\ clear' = [clear EXCEPT ![c] = "failed"]
    /\ UNCHANGED <<dbVars, stateVars, clearRead, jobVars, writerVars, boot>>

(* finish_request_log_payload_clear reads the generation back, which may   *)
(* fail (or is skipped: a clear whose connection could not restore its     *)
(* secure_delete mode reports an error although it committed) ...          *)
ReadBack(c) ==
    /\ clear[c] = "committed"
    /\ clear' = [clear EXCEPT ![c] = "read"]
    /\ \E g \in {generation, Unresolved} : clearRead' = [clearRead EXCEPT ![c] = g]
    /\ UNCHANGED <<dbVars, stateVars, jobVars, writerVars, boot>>

(* Seeded fault: a plain store instead of fetch_max.                       *)
RaisedByStore(g) == IF g < 0 THEN mirror ELSE g

(* observe_generation, first half: fetch_max.                              *)
Raised(g) == IF g > mirror THEN g ELSE mirror

(* ... publishes it (observe_generation without an epoch never lowers) ... *)
ObserveBack(c) ==
    /\ clear[c] = "read"
    /\ clear' = [clear EXCEPT ![c] = "observed"]
    /\ mirror' = Raised(clearRead[c])
    /\ UNCHANGED <<dbVars, started, finished, clearRead, jobVars, writerVars, boot>>

(* ... and counts the clear as finished.                                   *)
FinishClear(c) ==
    /\ clear[c] \in {"observed", "failed"}
    /\ clear' = [clear EXCEPT ![c] = IF @ = "failed" THEN "aborted" ELSE "done"]
    /\ finished' = finished + 1
    /\ UNCHANGED <<dbVars, mirror, started, clearRead, jobVars, writerVars, boot>>

-----------------------------------------------------------------------------
(* The writer thread.  Every round publishes the generation it reads; a    *)
(* round with a batch does so inside its write transaction.                *)

(* refresh_generation_mirror (no jobs) or gather.                          *)
WriterStart ==
    /\ writer = "idle"
    /\ writer' = "start"
    /\ batch' \in SUBSET {j \in Jobs : at[j] = "queued"}
    /\ UNCHANGED <<dbVars, stateVars, clearVars, jobVars, locked, wLoaded, wEpoch, wGen, wClear, boot>>

(* read_epoch: finished first, then started.                               *)
WriterFinished ==
    /\ writer = "start"
    /\ writer' = "counted"
    /\ wLoaded' = finished
    /\ UNCHANGED <<dbVars, stateVars, clearVars, jobVars, locked, batch, wEpoch, wGen, wClear, boot>>

WriterReadEpoch ==
    /\ writer = "counted"
    /\ writer' = "epoch"
    /\ wEpoch' = EpochSince(wLoaded)
    /\ UNCHANGED <<dbVars, stateVars, clearVars, jobVars, locked, batch, wLoaded, wGen, wClear, boot>>

(* Reading the generation; with a batch this opens the transaction, which  *)
(* holds SQLite's write lock until it ends.                                *)
WriterRead(g) ==
    /\ writer = "epoch"
    /\ writer' = "read"
    /\ locked' = (batch # {})
    /\ wGen' = g
    /\ UNCHANGED <<dbVars, stateVars, clearVars, jobVars, batch, wLoaded, wEpoch, wClear, boot>>

AfterObserve == IF batch = {} THEN "idle" ELSE "observed"

(* observe_generation, first half.                                         *)
WriterRaise ==
    /\ writer = "read"
    /\ mirror' = Raised(wGen)
    /\ writer' = IF wGen < 0 \/ wGen >= mirror \/ wEpoch = InFlight
                 THEN AfterObserve ELSE "lower"
    /\ UNCHANGED <<dbVars, started, finished, clearVars, jobVars, locked, batch, wLoaded, wEpoch, wGen, wClear, boot>>

(* Seeded fault: the mirror is never lowered.                              *)
MayLowerNever == FALSE

(* Under lower_lock, which begin_clear takes too: no clear can start, and  *)
(* when the check succeeds none runs, so nobody else moves the mirror      *)
(* between the check and the store.                                        *)
MayLower == started = finished /\ started = wEpoch

WriterLower ==
    /\ writer = "lower"
    /\ writer' = AfterObserve
    /\ mirror' = IF MayLower THEN wGen ELSE mirror
    /\ UNCHANGED <<dbVars, started, finished, clearVars, jobVars, locked, batch, wLoaded, wEpoch, wGen, wClear, boot>>

WriterClearEpoch ==
    /\ writer = "observed"
    /\ writer' = "ready"
    /\ wClear' = started
    /\ UNCHANGED <<dbVars, stateVars, clearVars, jobVars, locked, batch, wLoaded, wEpoch, wGen, boot>>

(* classify_generation: the generation to insert with, or Unresolved for   *)
(* a job that must not be written.                                         *)
WriteGeneration(j) ==
    IF gen[j] >= 0 THEN gen[j]
    ELSE IF epoch[j] # InFlight /\ bootOf[j] = boot /\ epoch[j] = wClear THEN wGen
    ELSE Unresolved

(* job_is_current and the *_if_current insert, in the same transaction.    *)
Accepted(j) == WriteGeneration(j) = generation

(* The commit: the jobs the transaction had time for (BATCH_MAX_HOLD) are  *)
(* stored or rejected, the rest stays pending for another transaction.     *)
WriterCommit ==
    /\ writer = "ready"
    /\ \E done \in SUBSET batch \ {{}} :
         /\ at' = [j \in Jobs |-> IF j \notin done THEN at[j]
                                  ELSE IF Accepted(j) THEN "written" ELSE "stale"]
         /\ batch' = batch \ done
         /\ writer' = IF batch = done THEN "idle" ELSE "start"
    /\ locked' = FALSE
    /\ UNCHANGED <<dbVars, stateVars, clearVars, loaded, epoch, gen, bootOf, seen, wLoaded, wEpoch, wGen, wClear, boot>>

(* SQLITE_BUSY at commit: rolled back, everything stays pending.           *)
WriterBusy ==
    /\ writer = "ready"
    /\ writer' = "start"
    /\ locked' = FALSE
    /\ UNCHANGED <<dbVars, stateVars, clearVars, jobVars, batch, wLoaded, wEpoch, wGen, wClear, boot>>

-----------------------------------------------------------------------------
(* The environment.                                                        *)

(* Somebody puts an older copy of the database file back.                  *)
RestoreDatabase ==
    /\ restores < MaxRestores /\ Events < MaxEvents
    /\ ~locked
    /\ generation' \in 0 .. (generation - 1)
    /\ restores' = restores + 1
    /\ UNCHANGED <<commits, stateVars, clearVars, jobVars, writerVars, boot>>

(* The process dies and comes back: the database and the jobs whose spill  *)
(* records reached the disk survive, and startup reads the generation      *)
(* before the gateway accepts traffic, if SQLite lets it.                  *)
Restart ==
    /\ boot < MaxRestarts /\ Events < MaxEvents
    /\ boot' = boot + 1
    /\ mirror' \in {Unresolved, generation}
    /\ started' = 0 /\ finished' = 0
    /\ clear' = [c \in Clears |-> IF c \in Running THEN "aborted" ELSE clear[c]]
    /\ \E spilled \in SUBSET Jobs :
         at' = [j \in Jobs |->
                  IF \/ at[j] \in {"capturing", "checked"}
                     \/ at[j] = "queued" /\ j \notin spilled
                  THEN "lost" ELSE at[j]]
    /\ writer' = "idle" /\ locked' = FALSE /\ batch' = {}
    /\ UNCHANGED <<dbVars, clearRead, loaded, epoch, gen, bootOf, seen, wLoaded, wEpoch, wGen, wClear>>

-----------------------------------------------------------------------------
Capture(j) == CaptureFinished(j) \/ CaptureStarted(j) \/ CaptureMirror(j)

ClearStep(c) ==
    \/ BeginClear(c) \/ CommitClear(c) \/ FailClear(c)
    \/ ReadBack(c) \/ ObserveBack(c) \/ FinishClear(c)

WriterOther ==
    \/ WriterStart \/ WriterFinished \/ WriterReadEpoch \/ WriterRaise
    \/ WriterLower \/ WriterClearEpoch \/ WriterCommit \/ WriterBusy

Next ==
    \/ \E j \in Jobs : Capture(j)
    \/ \E c \in Clears : ClearStep(c)
    \/ WriterOther
    \/ \E g \in {generation, Unresolved} : WriterRead(g)
    \/ RestoreDatabase
    \/ Restart

Spec == Init /\ [][Next]_vars

(* The writer thread keeps running, the database is readable again and     *)
(* again, the writer refreshes without a batch again and again, and        *)
(* finish_request_log_payload_clear, which has no await, runs to its end.  *)
(* That it is reached is not assumed: requestlog/clear awaits its          *)
(* transaction, and a future dropped there leaves the clear begun.         *)
FairSpec ==
    /\ Spec
    /\ WF_vars(WriterOther)
    /\ SF_vars(WriterRead(generation))
    /\ SF_vars(WriterCommit)
    /\ \A c \in Clears : WF_vars(ObserveBack(c) \/ FinishClear(c))

-----------------------------------------------------------------------------
TypeOK ==
    /\ generation \in Nat /\ commits \in Nat /\ restores \in 0 .. MaxRestores
    /\ mirror \in Nat \cup {Unresolved} /\ started \in Nat /\ finished \in Nat
    /\ clear \in [Clears -> ClearStates]
    /\ clearRead \in [Clears -> Nat \cup {Unresolved}]
    /\ at \in [Jobs -> JobStates]
    /\ loaded \in [Jobs -> Nat]
    /\ epoch \in [Jobs -> Nat \cup {InFlight}]
    /\ gen \in [Jobs -> Nat \cup {Unresolved}]
    /\ bootOf \in [Jobs -> Nat] /\ seen \in [Jobs -> Nat]
    /\ writer \in WriterStates /\ locked \in BOOLEAN /\ batch \subseteq Jobs
    /\ wLoaded \in Nat /\ wEpoch \in Nat \cup {InFlight}
    /\ wGen \in Nat \cup {Unresolved} /\ wClear \in Nat
    /\ boot \in 0 .. MaxRestarts

(* "A job captured before a log clear is never written after that clear    *)
(* (including after a restart or a spill replay)",                         *)
(* request_log_payload_clear.rs:3-4: no clear has committed since the      *)
(* capture of a job that is written.  Only while no older database file is *)
(* put back: after one, a second clear reuses a generation number.         *)
NoStaleWrite ==
    [][\A j \in Jobs : at[j] # "written" /\ at'[j] = "written" /\ restores = 0
                        => seen[j] = commits]_vars

(* The mirror is never ahead of the database, and once it was initialized  *)
(* and every clear has finished (and could read the generation back) it is *)
(* not behind either: a slow reader that read G before a clear committed   *)
(* G + 1 cannot move it back, so jobs captured after a finished clear are  *)
(* never taken for stale ones.                                             *)
MirrorExact ==
    restores = 0 =>
        /\ mirror <= generation
        /\ mirror >= 0 /\ Running = {} /\ ~ReadsFailed => mirror = generation

(* After a restored file, too, the mirror comes back to the database, so   *)
(* the jobs of a running service are stored again.  Only a clear that      *)
(* began and never finished keeps it ahead, until the process restarts.    *)
Unfinished == {c \in Clears : clear[c] \in {"begun", "committed"}}

MirrorCatchesUp == <>[](mirror # generation => mirror > generation /\ Unfinished # {})
=============================================================================
