----------------------- MODULE ClearGenerationProofs -----------------------
(***************************************************************************)
(* For any number of jobs, overlapping clears and restarts: no job is      *)
(* written after a clear that it was captured before, and the mirror is    *)
(* exact when no clear runs, as long as nobody restores the database.      *)
(***************************************************************************)
EXTENDS ClearGeneration, FiniteSetTheorems, TLAPS

-----------------------------------------------------------------------------
(* The inductive invariant.                                                *)

(* The two counters differ by the clears that run.                         *)
Balanced == started = finished + Cardinality(Running)

(* Every generation in the process was read from the database, which only  *)
(* goes up.                                                                *)
Behind == /\ mirror <= generation /\ wGen <= generation
          /\ \A c \in Clears : clearRead[c] <= generation

(* An epoch that was taken stays valid until the next clear starts.        *)
Quiet(e) == e # InFlight => e <= started /\ (e = started => Running = {})

EpochSafe ==
    \A j \in Jobs :
        /\ at[j] = "capturing" => loaded[j] <= finished
        /\ at[j] = "checked" => Quiet(epoch[j])
        /\ at[j] = "queued" /\ bootOf[j] = boot => Quiet(epoch[j])

(* A queued job is stale unless it carries the database's generation or    *)
(* nothing happened since its epoch.                                       *)
JobSafe ==
    \A j \in Jobs : at[j] = "queued" =>
        /\ bootOf[j] <= boot
        /\ gen[j] <= generation /\ (gen[j] = generation => seen[j] = commits)
        /\ gen[j] < 0 /\ bootOf[j] = boot /\ epoch[j] = started => seen[j] = commits

(* The transaction that decides holds the lock no clear can commit under.  *)
WriterSafe ==
    /\ batch \subseteq {j \in Jobs : at[j] = "queued"}
    /\ writer \in {"read", "lower"} => locked = (batch # {})
    /\ writer \in {"observed", "ready"} => locked
    /\ writer = "ready" =>
         \A j \in batch : gen[j] < 0 /\ bootOf[j] = boot /\ epoch[j] = wClear
                             => seen[j] = commits

(* A read made under a valid epoch is still what the database holds.       *)
ReaderSafe ==
    /\ writer = "counted" => wLoaded <= finished
    /\ writer \in {"epoch", "read", "lower"} => Quiet(wEpoch)
    /\ writer \in {"read", "lower"} /\ wEpoch = started => wGen \in {generation, Unresolved}
    /\ writer = "lower" => wGen >= 0

(* A value is published or about to be: the database holds it, or a clear  *)
(* that will publish a newer one has not done so yet.                      *)
Published(g) ==
    \/ g = generation
    \/ \E c \in Clears : \/ clear[c] = "committed"
                         \/ clear[c] = "read" /\ clearRead[c] \in {generation, Unresolved}

MirrorSafe ==
    ~ReadsFailed =>
        /\ mirror >= 0 => Published(mirror)
        /\ mirror < 0 =>
             /\ writer = "read" /\ wGen >= 0 => Published(wGen)
             /\ \A c \in Clears : clear[c] = "read" /\ clearRead[c] >= 0 => Published(clearRead[c])

IInv == /\ TypeOK /\ Balanced /\ Behind /\ EpochSafe /\ JobSafe /\ WriterSafe
        /\ ReaderSafe /\ MirrorSafe

-----------------------------------------------------------------------------
(* The clears that run are finitely many and change one at a time.         *)
LEMMA RunningFinite ==
  /\ IsFiniteSet(Running) /\ Cardinality(Running) \in Nat
  /\ Cardinality(Running) = 0 <=> Running = {}
BY ClearAssumption, FS_Subset, FS_CardinalityType, FS_EmptySet DEF Running

LEMMA OneMoreRunning ==
  ASSUME NEW c \in Clears, c \notin Running, Running' = Running \cup {c}
  PROVE  Cardinality(Running') = Cardinality(Running) + 1
BY RunningFinite, FS_AddElement

LEMMA OneLessRunning ==
  ASSUME NEW c \in Running, Running' = Running \ {c}
  PROVE  Cardinality(Running') = Cardinality(Running) - 1
BY RunningFinite, FS_RemoveElement

(* Equal counters mean that no clear runs.                                 *)
LEMMA EqualCountsQuiet ==
  ASSUME TypeOK, Balanced
  PROVE  /\ finished <= started
         /\ started = finished => Running = {}
BY RunningFinite DEF TypeOK, Balanced

(* The epoch read from a count that was current at the time is quiet.      *)
LEMMA EpochIsQuiet ==
  ASSUME TypeOK, Balanced, NEW n \in Nat, n <= finished
  PROVE  Quiet(EpochSince(n)) /\ EpochSince(n) \in Nat \cup {InFlight}
BY EqualCountsQuiet DEF Quiet, EpochSince, TypeOK, InFlight

-----------------------------------------------------------------------------
LEMMA TypeStep == IInv /\ [Next]_vars => TypeOK'
<1> SUFFICES ASSUME IInv, [Next]_vars PROVE TypeOK'
  OBVIOUS
<1> USE ClearAssumption DEF IInv, TypeOK, JobStates, ClearStates, WriterStates,
        Unresolved, InFlight, dbVars, stateVars, clearVars, jobVars, writerVars
<1>1. ASSUME NEW j \in Jobs, CaptureFinished(j) PROVE TypeOK'
  BY <1>1 DEF CaptureFinished, EpochSince
<1>2. ASSUME NEW j \in Jobs, CaptureStarted(j) PROVE TypeOK'
  BY <1>2 DEF CaptureStarted, EpochSince
<1>3. ASSUME NEW j \in Jobs, CaptureMirror(j) PROVE TypeOK'
  BY <1>3 DEF CaptureMirror, EpochSince
<1>4. ASSUME NEW c \in Clears, BeginClear(c) PROVE TypeOK'
  BY <1>4 DEF BeginClear, Raised
<1>5. ASSUME NEW c \in Clears, CommitClear(c) PROVE TypeOK'
  BY <1>5 DEF CommitClear, Raised
<1>6. ASSUME NEW c \in Clears, FailClear(c) PROVE TypeOK'
  BY <1>6 DEF FailClear, Raised
<1>7. ASSUME NEW c \in Clears, ReadBack(c) PROVE TypeOK'
  BY <1>7 DEF ReadBack, Raised
<1>8. ASSUME NEW c \in Clears, ObserveBack(c) PROVE TypeOK'
  BY <1>8 DEF ObserveBack, Raised
<1>9. ASSUME NEW c \in Clears, FinishClear(c) PROVE TypeOK'
  BY <1>9 DEF FinishClear, Raised
<1>10. CASE WriterStart
  BY <1>10 DEF WriterStart, Raised, AfterObserve, EpochSince
<1>11. CASE WriterFinished
  BY <1>11 DEF WriterFinished, Raised, AfterObserve, EpochSince
<1>12. CASE WriterReadEpoch
  BY <1>12 DEF WriterReadEpoch, Raised, AfterObserve, EpochSince
<1>13. CASE WriterRaise
  BY <1>13 DEF WriterRaise, Raised, AfterObserve, EpochSince
<1>14. CASE WriterLower
  BY <1>14 DEF WriterLower, Raised, AfterObserve, EpochSince
<1>15. CASE WriterClearEpoch
  BY <1>15 DEF WriterClearEpoch, Raised, AfterObserve, EpochSince
<1>16. CASE WriterCommit
  BY <1>16 DEF WriterCommit
<1>17. CASE WriterBusy
  BY <1>17 DEF WriterBusy, Raised, AfterObserve, EpochSince
<1>18. ASSUME NEW g \in {generation, Unresolved}, WriterRead(g) PROVE TypeOK'
  BY <1>18 DEF WriterRead
<1>19. CASE RestoreDatabase
  BY <1>19 DEF RestoreDatabase
<1>20. CASE Restart
  <2>1. at' \in [Jobs -> JobStates]
    BY <1>20 DEF Restart
  <2>2. clear' \in [Clears -> ClearStates] /\ boot' \in 0 .. MaxRestarts
    BY <1>20 DEF Restart
  <2>3. QED BY <1>20, <2>1, <2>2 DEF Restart
<1>21. CASE UNCHANGED vars
  BY <1>21 DEF vars
<1>22. QED
  BY <1>1, <1>2, <1>3, <1>4, <1>5, <1>6, <1>7, <1>8, <1>9, <1>10, <1>11, <1>12, <1>13, <1>14, <1>15, <1>16, <1>17, <1>18, <1>19, <1>20, <1>21
     DEF Next, Capture, ClearStep, WriterOther

-----------------------------------------------------------------------------
(* Clears begin and finish one at a time; a restart forgets them all.      *)
LEMMA BalancedStep ==
  ASSUME IInv, [Next]_vars
  PROVE  Balanced'
<1> USE ClearAssumption DEF IInv, TypeOK, Balanced, ClearStates, dbVars, stateVars, clearVars, jobVars, writerVars
<1>1. ASSUME NEW j \in Jobs, CaptureFinished(j) PROVE Balanced'
  <2>1. Running' = Running
    BY <1>1 DEF CaptureFinished, Running
  <2>2. QED BY <1>1, <2>1 DEF CaptureFinished
<1>2. ASSUME NEW j \in Jobs, CaptureStarted(j) PROVE Balanced'
  <2>1. Running' = Running
    BY <1>2 DEF CaptureStarted, Running
  <2>2. QED BY <1>2, <2>1 DEF CaptureStarted
<1>3. ASSUME NEW j \in Jobs, CaptureMirror(j) PROVE Balanced'
  <2>1. Running' = Running
    BY <1>3 DEF CaptureMirror, Running
  <2>2. QED BY <1>3, <2>1 DEF CaptureMirror
<1>4. ASSUME NEW c \in Clears, BeginClear(c) PROVE Balanced'
  <2>1. c \notin Running /\ Running' = Running \cup {c}
    BY <1>4 DEF BeginClear, Running
  <2>2. Cardinality(Running') = Cardinality(Running) + 1
    BY ONLY <1>4, <2>1, OneMoreRunning
  <2>3. started = finished + Cardinality(Running) /\ started \in Nat /\ finished \in Nat
    OBVIOUS
  <2>4. started' = started + 1 /\ finished' = finished
    BY <1>4 DEF BeginClear
  <2>5. QED BY ONLY <2>2, <2>3, <2>4, RunningFinite DEF Balanced
<1>5. ASSUME NEW c \in Clears, CommitClear(c) PROVE Balanced'
  <2>1. Running' = Running
    BY <1>5 DEF CommitClear, Running
  <2>2. QED BY <1>5, <2>1 DEF CommitClear
<1>6. ASSUME NEW c \in Clears, FailClear(c) PROVE Balanced'
  <2>1. Running' = Running
    BY <1>6 DEF FailClear, Running
  <2>2. QED BY <1>6, <2>1 DEF FailClear
<1>7. ASSUME NEW c \in Clears, ReadBack(c) PROVE Balanced'
  <2>1. Running' = Running
    BY <1>7 DEF ReadBack, Running
  <2>2. QED BY <1>7, <2>1 DEF ReadBack
<1>8. ASSUME NEW c \in Clears, ObserveBack(c) PROVE Balanced'
  <2>1. Running' = Running
    BY <1>8 DEF ObserveBack, Running
  <2>2. QED BY <1>8, <2>1 DEF ObserveBack
<1>9. ASSUME NEW c \in Clears, FinishClear(c) PROVE Balanced'
  <2>1. c \in Running /\ Running' = Running \ {c}
    BY <1>9 DEF FinishClear, Running
  <2>2. Cardinality(Running') = Cardinality(Running) - 1
    BY ONLY <1>9, <2>1, OneLessRunning
  <2>3. started = finished + Cardinality(Running) /\ started \in Nat /\ finished \in Nat
    OBVIOUS
  <2>4. started' = started /\ finished' = finished + 1
    BY <1>9 DEF FinishClear
  <2>5. QED BY ONLY <2>2, <2>3, <2>4, RunningFinite DEF Balanced
<1>10. CASE WriterStart
  <2>1. Running' = Running
    BY <1>10 DEF WriterStart, Running
  <2>2. QED BY <1>10, <2>1 DEF WriterStart
<1>11. CASE WriterFinished
  <2>1. Running' = Running
    BY <1>11 DEF WriterFinished, Running
  <2>2. QED BY <1>11, <2>1 DEF WriterFinished
<1>12. CASE WriterReadEpoch
  <2>1. Running' = Running
    BY <1>12 DEF WriterReadEpoch, Running
  <2>2. QED BY <1>12, <2>1 DEF WriterReadEpoch
<1>13. CASE WriterRaise
  <2>1. Running' = Running
    BY <1>13 DEF WriterRaise, Running
  <2>2. QED BY <1>13, <2>1 DEF WriterRaise
<1>14. CASE WriterLower
  <2>1. Running' = Running
    BY <1>14 DEF WriterLower, Running
  <2>2. QED BY <1>14, <2>1 DEF WriterLower
<1>15. CASE WriterClearEpoch
  <2>1. Running' = Running
    BY <1>15 DEF WriterClearEpoch, Running
  <2>2. QED BY <1>15, <2>1 DEF WriterClearEpoch
<1>16. CASE WriterCommit
  <2>1. Running' = Running
    BY <1>16 DEF WriterCommit, Running
  <2>2. QED BY <1>16, <2>1 DEF WriterCommit
<1>17. CASE WriterBusy
  <2>1. Running' = Running
    BY <1>17 DEF WriterBusy, Running
  <2>2. QED BY <1>17, <2>1 DEF WriterBusy
<1>18. ASSUME NEW g \in {generation, Unresolved}, WriterRead(g) PROVE Balanced'
  <2>1. Running' = Running
    BY <1>18 DEF WriterRead, Running
  <2>2. QED BY <1>18, <2>1 DEF WriterRead
<1>19. CASE RestoreDatabase
  <2>1. Running' = Running
    BY <1>19 DEF RestoreDatabase, Running
  <2>2. QED BY <1>19, <2>1 DEF RestoreDatabase
<1>20. CASE Restart
  <2>1. Running' = {}
    BY <1>20 DEF Restart, Running
  <2>2. QED BY <1>20, <2>1, FS_EmptySet DEF Restart
<1>21. CASE UNCHANGED vars
  <2>1. Running' = Running
    BY <1>21 DEF vars, Running
  <2>2. QED BY <1>21, <2>1 DEF vars
<1>22. QED
  BY <1>1, <1>2, <1>3, <1>4, <1>5, <1>6, <1>7, <1>8, <1>9, <1>10, <1>11, <1>12, <1>13, <1>14, <1>15, <1>16, <1>17, <1>18, <1>19, <1>20, <1>21
     DEF Next, Capture, ClearStep, WriterOther

(* Whatever is published was read, and the database has not gone back.     *)
LEMMA BehindStep ==
  ASSUME IInv, [Next]_vars, MaxRestores = 0
  PROVE  Behind'
<1> USE ClearAssumption DEF IInv, TypeOK, Behind, Unresolved, dbVars, stateVars, clearVars, jobVars, writerVars
<1>1. ASSUME NEW j \in Jobs, CaptureFinished(j) PROVE Behind'
  BY <1>1 DEF CaptureFinished
<1>2. ASSUME NEW j \in Jobs, CaptureStarted(j) PROVE Behind'
  BY <1>2 DEF CaptureStarted
<1>3. ASSUME NEW j \in Jobs, CaptureMirror(j) PROVE Behind'
  BY <1>3 DEF CaptureMirror
<1>4. ASSUME NEW c \in Clears, BeginClear(c) PROVE Behind'
  BY <1>4 DEF BeginClear
<1>5. ASSUME NEW c \in Clears, CommitClear(c) PROVE Behind'
  BY <1>5 DEF CommitClear
<1>6. ASSUME NEW c \in Clears, FailClear(c) PROVE Behind'
  BY <1>6 DEF FailClear
<1>7. ASSUME NEW c \in Clears, ReadBack(c) PROVE Behind'
  BY <1>7 DEF ReadBack
<1>8. ASSUME NEW c \in Clears, ObserveBack(c) PROVE Behind'
  BY <1>8 DEF ObserveBack, Raised
<1>9. ASSUME NEW c \in Clears, FinishClear(c) PROVE Behind'
  BY <1>9 DEF FinishClear
<1>10. CASE WriterStart
  BY <1>10 DEF WriterStart
<1>11. CASE WriterFinished
  BY <1>11 DEF WriterFinished
<1>12. CASE WriterReadEpoch
  BY <1>12 DEF WriterReadEpoch
<1>13. CASE WriterRaise
  BY <1>13 DEF WriterRaise, Raised
<1>14. CASE WriterLower
  BY <1>14 DEF WriterLower
<1>15. CASE WriterClearEpoch
  BY <1>15 DEF WriterClearEpoch
<1>16. CASE WriterCommit
  BY <1>16 DEF WriterCommit
<1>17. CASE WriterBusy
  BY <1>17 DEF WriterBusy
<1>18. ASSUME NEW g \in {generation, Unresolved}, WriterRead(g) PROVE Behind'
  BY <1>18 DEF WriterRead
<1>19. CASE RestoreDatabase
  BY <1>19 DEF RestoreDatabase
<1>20. CASE Restart
  BY <1>20 DEF Restart
<1>21. CASE UNCHANGED vars
  BY <1>21 DEF vars
<1>22. QED
  BY <1>1, <1>2, <1>3, <1>4, <1>5, <1>6, <1>7, <1>8, <1>9, <1>10, <1>11, <1>12, <1>13, <1>14, <1>15, <1>16, <1>17, <1>18, <1>19, <1>20, <1>21
     DEF Next, Capture, ClearStep, WriterOther

(* A clear that starts makes every epoch taken before it obsolete.         *)
LEMMA EpochStep ==
  ASSUME IInv, [Next]_vars
  PROVE  EpochSafe'
<1> USE ClearAssumption DEF IInv, TypeOK, EpochSafe, Quiet, dbVars, stateVars, clearVars, jobVars, writerVars
<1>1. ASSUME NEW j \in Jobs, CaptureFinished(j) PROVE EpochSafe'
  <2>1. Running' = Running
    BY <1>1 DEF CaptureFinished, Running
  <2>2. QED BY <1>1, <2>1 DEF CaptureFinished
<1>2. ASSUME NEW j \in Jobs, CaptureStarted(j) PROVE EpochSafe'
  <2>1. Running' = Running
    BY <1>2 DEF CaptureStarted, Running
  <2>2. Quiet(epoch'[j])
    BY <1>2, EpochIsQuiet DEF CaptureStarted
  <2>3. QED BY <1>2, <2>1, <2>2 DEF CaptureStarted
<1>3. ASSUME NEW j \in Jobs, CaptureMirror(j) PROVE EpochSafe'
  <2>1. Running' = Running
    BY <1>3 DEF CaptureMirror, Running
  <2>2. QED BY <1>3, <2>1 DEF CaptureMirror
<1>4. ASSUME NEW c \in Clears, BeginClear(c) PROVE EpochSafe'
  BY <1>4 DEF BeginClear, InFlight
<1>5. ASSUME NEW c \in Clears, CommitClear(c) PROVE EpochSafe'
  <2>1. Running # {}
    BY <1>5 DEF CommitClear, Running
  <2>2. QED BY <1>5, <2>1 DEF CommitClear, InFlight
<1>6. ASSUME NEW c \in Clears, FailClear(c) PROVE EpochSafe'
  <2>1. Running # {}
    BY <1>6 DEF FailClear, Running
  <2>2. QED BY <1>6, <2>1 DEF FailClear, InFlight
<1>7. ASSUME NEW c \in Clears, ReadBack(c) PROVE EpochSafe'
  <2>1. Running # {}
    BY <1>7 DEF ReadBack, Running
  <2>2. QED BY <1>7, <2>1 DEF ReadBack, InFlight
<1>8. ASSUME NEW c \in Clears, ObserveBack(c) PROVE EpochSafe'
  <2>1. Running # {}
    BY <1>8 DEF ObserveBack, Running
  <2>2. QED BY <1>8, <2>1 DEF ObserveBack, InFlight
<1>9. ASSUME NEW c \in Clears, FinishClear(c) PROVE EpochSafe'
  <2>1. Running # {}
    BY <1>9 DEF FinishClear, Running
  <2>2. QED BY <1>9, <2>1 DEF FinishClear, InFlight
<1>10. CASE WriterStart
  <2>1. Running' = Running
    BY <1>10 DEF WriterStart, Running
  <2>2. QED BY <1>10, <2>1 DEF WriterStart
<1>11. CASE WriterFinished
  <2>1. Running' = Running
    BY <1>11 DEF WriterFinished, Running
  <2>2. QED BY <1>11, <2>1 DEF WriterFinished
<1>12. CASE WriterReadEpoch
  <2>1. Running' = Running
    BY <1>12 DEF WriterReadEpoch, Running
  <2>2. QED BY <1>12, <2>1 DEF WriterReadEpoch
<1>13. CASE WriterRaise
  <2>1. Running' = Running
    BY <1>13 DEF WriterRaise, Running
  <2>2. QED BY <1>13, <2>1 DEF WriterRaise
<1>14. CASE WriterLower
  <2>1. Running' = Running
    BY <1>14 DEF WriterLower, Running
  <2>2. QED BY <1>14, <2>1 DEF WriterLower
<1>15. CASE WriterClearEpoch
  <2>1. Running' = Running
    BY <1>15 DEF WriterClearEpoch, Running
  <2>2. QED BY <1>15, <2>1 DEF WriterClearEpoch
<1>16. CASE WriterCommit
  <2>1. Running' = Running
    BY <1>16 DEF WriterCommit, Running
  <2>2. QED BY <1>16, <2>1 DEF WriterCommit
<1>17. CASE WriterBusy
  <2>1. Running' = Running
    BY <1>17 DEF WriterBusy, Running
  <2>2. QED BY <1>17, <2>1 DEF WriterBusy
<1>18. ASSUME NEW g \in {generation, Unresolved}, WriterRead(g) PROVE EpochSafe'
  <2>1. Running' = Running
    BY <1>18 DEF WriterRead, Running
  <2>2. QED BY <1>18, <2>1 DEF WriterRead
<1>19. CASE RestoreDatabase
  <2>1. Running' = Running
    BY <1>19 DEF RestoreDatabase, Running
  <2>2. QED BY <1>19, <2>1 DEF RestoreDatabase
<1>20. CASE Restart
  BY <1>20 DEF Restart, JobSafe
<1>21. CASE UNCHANGED vars
  <2>1. Running' = Running
    BY <1>21 DEF vars, Running
  <2>2. QED BY <1>21, <2>1 DEF vars
<1>22. QED
  BY <1>1, <1>2, <1>3, <1>4, <1>5, <1>6, <1>7, <1>8, <1>9, <1>10, <1>11, <1>12, <1>13, <1>14, <1>15, <1>16, <1>17, <1>18, <1>19, <1>20, <1>21
     DEF Next, Capture, ClearStep, WriterOther

(* A clear that commits makes every queued job stale.                      *)
LEMMA JobStep ==
  ASSUME IInv, [Next]_vars, MaxRestores = 0
  PROVE  JobSafe'
<1> USE ClearAssumption DEF IInv, TypeOK, JobSafe, dbVars, stateVars, clearVars, jobVars, writerVars
<1>1. ASSUME NEW j \in Jobs, CaptureFinished(j) PROVE JobSafe'
  BY <1>1 DEF CaptureFinished
<1>2. ASSUME NEW j \in Jobs, CaptureStarted(j) PROVE JobSafe'
  BY <1>2 DEF CaptureStarted
<1>3. ASSUME NEW j \in Jobs, CaptureMirror(j) PROVE JobSafe'
  BY <1>3 DEF CaptureMirror, Behind, Unresolved, EpochSafe, Quiet
<1>4. ASSUME NEW c \in Clears, BeginClear(c) PROVE JobSafe'
  BY <1>4 DEF BeginClear, EpochSafe, Quiet, InFlight
<1>5. ASSUME NEW c \in Clears, CommitClear(c) PROVE JobSafe'
  <2>1. Running # {}
    BY <1>5 DEF CommitClear, Running
  <2>2. \A j \in Jobs : at[j] = "queued" /\ bootOf[j] = boot => epoch[j] # started
    BY <2>1 DEF EpochSafe, Quiet, InFlight
  <2>3. ASSUME NEW j \in Jobs, at[j] = "queued" PROVE gen[j] < generation'
    BY <1>5, <2>3 DEF CommitClear, Unresolved
  <2>4. UNCHANGED <<at, bootOf, boot, gen, seen, epoch, started>>
    BY <1>5 DEF CommitClear
  <2>5. generation' \in Nat
    BY <1>5 DEF CommitClear
  <2>6. QED BY <2>2, <2>3, <2>4, <2>5 DEF Unresolved
<1>6. ASSUME NEW c \in Clears, FailClear(c) PROVE JobSafe'
  BY <1>6 DEF FailClear
<1>7. ASSUME NEW c \in Clears, ReadBack(c) PROVE JobSafe'
  BY <1>7 DEF ReadBack
<1>8. ASSUME NEW c \in Clears, ObserveBack(c) PROVE JobSafe'
  BY <1>8 DEF ObserveBack
<1>9. ASSUME NEW c \in Clears, FinishClear(c) PROVE JobSafe'
  BY <1>9 DEF FinishClear
<1>10. CASE WriterStart
  BY <1>10 DEF WriterStart
<1>11. CASE WriterFinished
  BY <1>11 DEF WriterFinished
<1>12. CASE WriterReadEpoch
  BY <1>12 DEF WriterReadEpoch
<1>13. CASE WriterRaise
  BY <1>13 DEF WriterRaise
<1>14. CASE WriterLower
  BY <1>14 DEF WriterLower
<1>15. CASE WriterClearEpoch
  BY <1>15 DEF WriterClearEpoch
<1>16. CASE WriterCommit
  BY <1>16 DEF WriterCommit
<1>17. CASE WriterBusy
  BY <1>17 DEF WriterBusy
<1>18. ASSUME NEW g \in {generation, Unresolved}, WriterRead(g) PROVE JobSafe'
  BY <1>18 DEF WriterRead
<1>19. CASE RestoreDatabase
  BY <1>19 DEF RestoreDatabase
<1>20. CASE Restart
  BY <1>20 DEF Restart
<1>21. CASE UNCHANGED vars
  BY <1>21 DEF vars
<1>22. QED
  BY <1>1, <1>2, <1>3, <1>4, <1>5, <1>6, <1>7, <1>8, <1>9, <1>10, <1>11, <1>12, <1>13, <1>14, <1>15, <1>16, <1>17, <1>18, <1>19, <1>20, <1>21
     DEF Next, Capture, ClearStep, WriterOther

(* A generation read under an epoch that is still valid is up to date.     *)
LEMMA ReaderStep ==
  ASSUME IInv, [Next]_vars, MaxRestores = 0
  PROVE  ReaderSafe'
<1> USE ClearAssumption DEF IInv, TypeOK, ReaderSafe, Quiet, InFlight, Unresolved, dbVars, stateVars, clearVars, jobVars, writerVars
<1>1. ASSUME NEW j \in Jobs, CaptureFinished(j) PROVE ReaderSafe'
  <2>1. Running' = Running
    BY <1>1 DEF CaptureFinished, Running
  <2>2. QED BY <1>1, <2>1 DEF CaptureFinished
<1>2. ASSUME NEW j \in Jobs, CaptureStarted(j) PROVE ReaderSafe'
  <2>1. Running' = Running
    BY <1>2 DEF CaptureStarted, Running
  <2>2. QED BY <1>2, <2>1 DEF CaptureStarted
<1>3. ASSUME NEW j \in Jobs, CaptureMirror(j) PROVE ReaderSafe'
  <2>1. Running' = Running
    BY <1>3 DEF CaptureMirror, Running
  <2>2. QED BY <1>3, <2>1 DEF CaptureMirror
<1>4. ASSUME NEW c \in Clears, BeginClear(c) PROVE ReaderSafe'
  BY <1>4 DEF BeginClear
<1>5. ASSUME NEW c \in Clears, CommitClear(c) PROVE ReaderSafe'
  <2>1. Running # {}
    BY <1>5 DEF CommitClear, Running
  <2>2. QED BY <1>5, <2>1 DEF CommitClear, InFlight
<1>6. ASSUME NEW c \in Clears, FailClear(c) PROVE ReaderSafe'
  <2>1. Running # {}
    BY <1>6 DEF FailClear, Running
  <2>2. QED BY <1>6, <2>1 DEF FailClear, InFlight
<1>7. ASSUME NEW c \in Clears, ReadBack(c) PROVE ReaderSafe'
  <2>1. Running # {}
    BY <1>7 DEF ReadBack, Running
  <2>2. QED BY <1>7, <2>1 DEF ReadBack, InFlight
<1>8. ASSUME NEW c \in Clears, ObserveBack(c) PROVE ReaderSafe'
  <2>1. Running # {}
    BY <1>8 DEF ObserveBack, Running
  <2>2. QED BY <1>8, <2>1 DEF ObserveBack, InFlight
<1>9. ASSUME NEW c \in Clears, FinishClear(c) PROVE ReaderSafe'
  <2>1. Running # {}
    BY <1>9 DEF FinishClear, Running
  <2>2. QED BY <1>9, <2>1 DEF FinishClear, InFlight
<1>10. CASE WriterStart
  <2>1. Running' = Running
    BY <1>10 DEF WriterStart, Running
  <2>2. QED BY <1>10, <2>1 DEF WriterStart
<1>11. CASE WriterFinished
  <2>1. Running' = Running
    BY <1>11 DEF WriterFinished, Running
  <2>2. QED BY <1>11, <2>1 DEF WriterFinished
<1>12. CASE WriterReadEpoch
  <2>1. Running' = Running
    BY <1>12 DEF WriterReadEpoch, Running
  <2>2. Quiet(wEpoch')
    BY <1>12, EpochIsQuiet DEF WriterReadEpoch
  <2>3. QED BY <1>12, <2>1, <2>2 DEF WriterReadEpoch
<1>13. CASE WriterRaise
  <2>1. Running' = Running
    BY <1>13 DEF WriterRaise, Running
  <2>2. QED BY <1>13, <2>1 DEF WriterRaise, AfterObserve
<1>14. CASE WriterLower
  <2>1. Running' = Running
    BY <1>14 DEF WriterLower, Running
  <2>2. QED BY <1>14, <2>1 DEF WriterLower, AfterObserve
<1>15. CASE WriterClearEpoch
  <2>1. Running' = Running
    BY <1>15 DEF WriterClearEpoch, Running
  <2>2. QED BY <1>15, <2>1 DEF WriterClearEpoch
<1>16. CASE WriterCommit
  <2>1. Running' = Running
    BY <1>16 DEF WriterCommit, Running
  <2>2. QED BY <1>16, <2>1 DEF WriterCommit
<1>17. CASE WriterBusy
  <2>1. Running' = Running
    BY <1>17 DEF WriterBusy, Running
  <2>2. QED BY <1>17, <2>1 DEF WriterBusy
<1>18. ASSUME NEW g \in {generation, Unresolved}, WriterRead(g) PROVE ReaderSafe'
  <2>1. Running' = Running
    BY <1>18 DEF WriterRead, Running
  <2>2. QED BY <1>18, <2>1 DEF WriterRead
<1>19. CASE RestoreDatabase
  <2>1. Running' = Running
    BY <1>19 DEF RestoreDatabase, Running
  <2>2. QED BY <1>19, <2>1 DEF RestoreDatabase
<1>20. CASE Restart
  BY <1>20 DEF Restart
<1>21. CASE UNCHANGED vars
  <2>1. Running' = Running
    BY <1>21 DEF vars, Running
  <2>2. QED BY <1>21, <2>1 DEF vars
<1>22. QED
  BY <1>1, <1>2, <1>3, <1>4, <1>5, <1>6, <1>7, <1>8, <1>9, <1>10, <1>11, <1>12, <1>13, <1>14, <1>15, <1>16, <1>17, <1>18, <1>19, <1>20, <1>21
     DEF Next, Capture, ClearStep, WriterOther

(* Only the clear that publishes last can be missing from the mirror.      *)
LEMMA MirrorStep ==
  ASSUME IInv, [Next]_vars, MaxRestores = 0
  PROVE  MirrorSafe'
<1> USE ClearAssumption DEF IInv, TypeOK, MirrorSafe, Published, Unresolved, dbVars, stateVars, clearVars, jobVars, writerVars
<1>1. ASSUME NEW j \in Jobs, CaptureFinished(j) PROVE MirrorSafe'
  BY <1>1 DEF CaptureFinished, ReadsFailed
<1>2. ASSUME NEW j \in Jobs, CaptureStarted(j) PROVE MirrorSafe'
  BY <1>2 DEF CaptureStarted, ReadsFailed
<1>3. ASSUME NEW j \in Jobs, CaptureMirror(j) PROVE MirrorSafe'
  BY <1>3 DEF CaptureMirror, ReadsFailed
<1>4. ASSUME NEW c \in Clears, BeginClear(c) PROVE MirrorSafe'
  BY <1>4 DEF BeginClear, ReadsFailed
<1>5. ASSUME NEW c \in Clears, CommitClear(c) PROVE MirrorSafe'
  BY <1>5 DEF CommitClear, ReadsFailed
<1>6. ASSUME NEW c \in Clears, FailClear(c) PROVE MirrorSafe'
  BY <1>6 DEF FailClear, ReadsFailed
<1>7. ASSUME NEW c \in Clears, ReadBack(c) PROVE MirrorSafe'
  BY <1>7 DEF ReadBack, ReadsFailed
<1>8. ASSUME NEW c \in Clears, ObserveBack(c) PROVE MirrorSafe'
  <2>1. clear[c] = "read" /\ clearRead[c] \in Nat \cup {Unresolved} /\ clearRead[c] <= generation
    BY <1>8 DEF ObserveBack, Behind
  <2>2. CASE clearRead[c] = Unresolved
    <3>1. ReadsFailed'
      BY <1>8, <2>2 DEF ObserveBack, ReadsFailed
    <3>2. QED BY <3>1
  <2>3. CASE clearRead[c] \in Nat
    <3> SUFFICES ASSUME ~ReadsFailed' PROVE mirror' \in Nat /\ Published(mirror)'
      BY <1>8, <2>3
    <3>1. ~ReadsFailed
      BY <1>8, <2>1 DEF ObserveBack, ReadsFailed
    <3>2. mirror' = (IF clearRead[c] > mirror THEN clearRead[c] ELSE mirror) /\ generation' = generation
      BY <1>8 DEF ObserveBack, Raised
    <3>3. Published(mirror')
      BY <2>1, <2>3, <3>1, <3>2 DEF Behind
    <3>4. CASE mirror' = generation
      BY <2>3, <3>2, <3>4
    <3>5. CASE mirror' # generation
      <4>1. clearRead[c] # generation
        BY <2>1, <2>3, <3>2, <3>5 DEF Behind
      <4>2. PICK d \in Clears : \/ clear[d] = "committed"
                                \/ clear[d] = "read" /\ clearRead[d] \in {generation, Unresolved}
        BY <3>3, <3>5
      <4>3. d # c /\ clear'[d] = clear[d] /\ clearRead'[d] = clearRead[d]
        BY <1>8, <2>1, <2>3, <4>1, <4>2 DEF ObserveBack
      <4>4. QED BY <2>3, <3>2, <4>2, <4>3
    <3>6. QED BY <3>4, <3>5
  <2>4. QED BY <2>1, <2>2, <2>3
<1>9. ASSUME NEW c \in Clears, FinishClear(c) PROVE MirrorSafe'
  BY <1>9 DEF FinishClear, ReadsFailed
<1>10. CASE WriterStart
  BY <1>10 DEF WriterStart, ReadsFailed
<1>11. CASE WriterFinished
  BY <1>11 DEF WriterFinished, ReadsFailed
<1>12. CASE WriterReadEpoch
  BY <1>12 DEF WriterReadEpoch, ReadsFailed
<1>13. CASE WriterRaise
  <2>1. writer' # "read" /\ mirror' = (IF wGen > mirror THEN wGen ELSE mirror)
    BY <1>13 DEF WriterRaise, Raised, AfterObserve
  <2>2. UNCHANGED <<clear, clearRead, generation>> /\ (ReadsFailed' <=> ReadsFailed)
    BY <1>13 DEF WriterRaise, ReadsFailed
  <2>3. CASE wGen > mirror
    <3>1. ~ReadsFailed => Published(wGen)
      BY <1>13, <2>3 DEF WriterRaise, Behind
    <3>2. QED BY <2>1, <2>2, <2>3, <3>1
  <2>4. CASE ~(wGen > mirror)
    BY <2>1, <2>2, <2>4
  <2>5. QED BY <2>3, <2>4
<1>14. CASE WriterLower
  <2>1. CASE MayLower
    <3>1. mirror' = generation
      BY <1>14, <2>1 DEF WriterLower, MayLower, ReaderSafe
    <3>2. QED BY <1>14, <3>1 DEF WriterLower
  <2>2. CASE ~MayLower
    BY <1>14, <2>2 DEF WriterLower, ReadsFailed, AfterObserve
  <2>3. QED BY <2>1, <2>2
<1>15. CASE WriterClearEpoch
  BY <1>15 DEF WriterClearEpoch, ReadsFailed
<1>16. CASE WriterCommit
  BY <1>16 DEF WriterCommit, ReadsFailed
<1>17. CASE WriterBusy
  BY <1>17 DEF WriterBusy, ReadsFailed
<1>18. ASSUME NEW g \in {generation, Unresolved}, WriterRead(g) PROVE MirrorSafe'
  BY <1>18 DEF WriterRead, ReadsFailed
<1>19. CASE RestoreDatabase
  BY <1>19 DEF RestoreDatabase, ReadsFailed
<1>20. CASE Restart
  <2>1. mirror' \in {Unresolved, generation} /\ generation' = generation
    BY <1>20 DEF Restart
  <2>2. writer' # "read" /\ \A c \in Clears : clear'[c] # "read"
    BY <1>20 DEF Restart, Running
  <2>3. QED BY <2>1, <2>2
<1>21. CASE UNCHANGED vars
  BY <1>21 DEF vars, ReadsFailed
<1>22. QED
  BY <1>1, <1>2, <1>3, <1>4, <1>5, <1>6, <1>7, <1>8, <1>9, <1>10, <1>11, <1>12, <1>13, <1>14, <1>15, <1>16, <1>17, <1>18, <1>19, <1>20, <1>21
     DEF Next, Capture, ClearStep, WriterOther

(* What the transaction checked under the lock stays true until it ends.   *)
LEMMA WriterStep ==
  ASSUME IInv, [Next]_vars, MaxRestores = 0
  PROVE  WriterSafe'
<1> USE ClearAssumption DEF IInv, TypeOK, WriterSafe, dbVars, stateVars, clearVars, jobVars, writerVars
<1>1. ASSUME NEW j \in Jobs, CaptureFinished(j) PROVE WriterSafe'
  BY <1>1 DEF CaptureFinished
<1>2. ASSUME NEW j \in Jobs, CaptureStarted(j) PROVE WriterSafe'
  BY <1>2 DEF CaptureStarted
<1>3. ASSUME NEW j \in Jobs, CaptureMirror(j) PROVE WriterSafe'
  BY <1>3 DEF CaptureMirror
<1>4. ASSUME NEW c \in Clears, BeginClear(c) PROVE WriterSafe'
  BY <1>4 DEF BeginClear
<1>5. ASSUME NEW c \in Clears, CommitClear(c) PROVE WriterSafe'
  BY <1>5 DEF CommitClear
<1>6. ASSUME NEW c \in Clears, FailClear(c) PROVE WriterSafe'
  BY <1>6 DEF FailClear
<1>7. ASSUME NEW c \in Clears, ReadBack(c) PROVE WriterSafe'
  BY <1>7 DEF ReadBack
<1>8. ASSUME NEW c \in Clears, ObserveBack(c) PROVE WriterSafe'
  BY <1>8 DEF ObserveBack
<1>9. ASSUME NEW c \in Clears, FinishClear(c) PROVE WriterSafe'
  BY <1>9 DEF FinishClear
<1>10. CASE WriterStart
  BY <1>10 DEF WriterStart
<1>11. CASE WriterFinished
  BY <1>11 DEF WriterFinished
<1>12. CASE WriterReadEpoch
  BY <1>12 DEF WriterReadEpoch
<1>13. CASE WriterRaise
  BY <1>13 DEF WriterRaise, AfterObserve
<1>14. CASE WriterLower
  BY <1>14 DEF WriterLower, AfterObserve
<1>15. CASE WriterClearEpoch
  BY <1>15 DEF WriterClearEpoch, JobSafe
<1>16. CASE WriterCommit
  BY <1>16 DEF WriterCommit
<1>17. CASE WriterBusy
  BY <1>17 DEF WriterBusy
<1>18. ASSUME NEW g \in {generation, Unresolved}, WriterRead(g) PROVE WriterSafe'
  BY <1>18 DEF WriterRead
<1>19. CASE RestoreDatabase
  BY <1>19 DEF RestoreDatabase
<1>20. CASE Restart
  BY <1>20 DEF Restart
<1>21. CASE UNCHANGED vars
  BY <1>21 DEF vars
<1>22. QED
  BY <1>1, <1>2, <1>3, <1>4, <1>5, <1>6, <1>7, <1>8, <1>9, <1>10, <1>11, <1>12, <1>13, <1>14, <1>15, <1>16, <1>17, <1>18, <1>19, <1>20, <1>21
     DEF Next, Capture, ClearStep, WriterOther

-----------------------------------------------------------------------------
LEMMA InitIInv == Init => IInv
<1> SUFFICES ASSUME Init PROVE IInv
  OBVIOUS
<1> USE ClearAssumption DEF Init, Unresolved, InFlight
<1>1. TypeOK
  <2>1. restores \in 0 .. MaxRestores /\ boot \in 0 .. MaxRestarts
    OBVIOUS
  <2>2. /\ clear \in [Clears -> ClearStates] /\ clearRead \in [Clears -> Nat \cup {Unresolved}]
        /\ at \in [Jobs -> JobStates] /\ writer \in WriterStates
    BY DEF JobStates, ClearStates, WriterStates
  <2>3. /\ loaded \in [Jobs -> Nat] /\ epoch \in [Jobs -> Nat \cup {InFlight}]
        /\ gen \in [Jobs -> Nat \cup {Unresolved}]
        /\ bootOf \in [Jobs -> Nat] /\ seen \in [Jobs -> Nat]
    OBVIOUS
  <2>4. /\ generation \in Nat /\ commits \in Nat /\ started \in Nat
        /\ finished \in Nat /\ wLoaded \in Nat /\ wClear \in Nat
        /\ mirror \in Nat \cup {Unresolved}
        /\ wEpoch \in Nat \cup {InFlight} /\ wGen \in Nat \cup {Unresolved}
    OBVIOUS
  <2>5. locked \in BOOLEAN /\ batch \subseteq Jobs
    OBVIOUS
  <2>6. QED BY <2>1, <2>2, <2>3, <2>4, <2>5 DEF TypeOK
<1>2. Balanced
  <2>1. Running = {} BY DEF Running
  <2>2. QED BY <2>1, FS_EmptySet DEF Balanced
<1>3. Behind /\ EpochSafe /\ JobSafe /\ WriterSafe /\ ReaderSafe
  BY DEF Behind, EpochSafe, JobSafe, WriterSafe, ReaderSafe, Quiet
<1>4. MirrorSafe
  BY DEF MirrorSafe, Published
<1>5. QED BY <1>1, <1>2, <1>3, <1>4 DEF IInv

LEMMA Inductive ==
  ASSUME MaxRestores = 0
  PROVE  Spec => []IInv
<1>1. IInv /\ [Next]_vars => IInv'
  BY TypeStep, BalancedStep, BehindStep, EpochStep, JobStep, WriterStep, ReaderStep, MirrorStep
     DEF IInv
<1>2. QED BY InitIInv, <1>1, PTL DEF Spec

(* With the database file left alone, every variable keeps its type.       *)
THEOREM ClearTypeCorrect ==
  ASSUME MaxRestores = 0
  PROVE  Spec => []TypeOK
<1>1. IInv => TypeOK BY DEF IInv
<1>2. QED BY <1>1, Inductive, PTL

(* The mirror is the database's generation whenever it should be.          *)
THEOREM MirrorIsExact ==
  ASSUME MaxRestores = 0
  PROVE  Spec => []MirrorExact
<1>1. IInv => MirrorExact
  <2> SUFFICES ASSUME IInv PROVE MirrorExact
    OBVIOUS
  <2>1. mirror <= generation
    BY DEF IInv, Behind
  <2>2. ASSUME mirror >= 0, Running = {}, ~ReadsFailed PROVE mirror = generation
    <3>1. Published(mirror)
      BY <2>2 DEF IInv, MirrorSafe
    <3>2. \A c \in Clears : clear[c] \notin {"committed", "read"}
      BY <2>2 DEF Running
    <3>3. QED BY <3>1, <3>2 DEF Published
  <2>3. QED BY <2>1, <2>2 DEF MirrorExact
<1>2. QED BY <1>1, Inductive, PTL

(* No job captured before a log clear is written after it, across any      *)
(* number of overlapping clears and restarts.                              *)
THEOREM NoStaleWriteEver ==
  ASSUME MaxRestores = 0
  PROVE  Spec => NoStaleWrite
<1> DEFINE Fresh == \A j \in Jobs : at[j] # "written" /\ at'[j] = "written"
                                      /\ restores = 0 => seen[j] = commits
<1>1. IInv /\ [Next]_vars => [Fresh]_vars
  <2> SUFFICES ASSUME IInv, Next, NEW j \in Jobs, at[j] # "written", at'[j] = "written"
               PROVE  seen[j] = commits
    BY DEF vars
  <2> USE DEF IInv, TypeOK
  <2>1. WriterCommit
    <3>1. ASSUME NEW i \in Jobs, Capture(i) PROVE FALSE
      BY <3>1 DEF Capture, CaptureFinished, CaptureStarted, CaptureMirror
    <3>2. ASSUME NEW c \in Clears, ClearStep(c) PROVE FALSE
      BY <3>2 DEF ClearStep, BeginClear, CommitClear, FailClear, ReadBack, ObserveBack,
                  FinishClear, jobVars
    <3>3. ASSUME NEW g \in {generation, Unresolved}, WriterRead(g) PROVE FALSE
      BY <3>3 DEF WriterRead, jobVars
    <3>4. CASE RestoreDatabase
      BY <3>4 DEF RestoreDatabase, jobVars
    <3>5. CASE Restart
      BY <3>5 DEF Restart
    <3>6. CASE WriterOther
      BY <3>6 DEF WriterOther, WriterStart, WriterFinished, WriterReadEpoch, WriterRaise,
                  WriterLower, WriterClearEpoch, WriterBusy, jobVars
    <3>7. QED BY <3>1, <3>2, <3>3, <3>4, <3>5, <3>6 DEF Next
  <2>2. writer = "ready" /\ j \in batch /\ Accepted(j)
    BY <2>1 DEF WriterCommit
  <2>3. at[j] = "queued"
    BY <2>2 DEF WriterSafe
  <2>4. CASE gen[j] >= 0
    BY <2>2, <2>3, <2>4 DEF JobSafe, Accepted, WriteGeneration
  <2>5. CASE ~(gen[j] >= 0)
    <3>1. gen[j] < 0 /\ bootOf[j] = boot /\ epoch[j] = wClear
      BY <2>2, <2>5 DEF Accepted, WriteGeneration, Unresolved
    <3>2. QED BY <2>2, <3>1 DEF WriterSafe
  <2>6. QED BY <2>4, <2>5
<1>2. QED BY <1>1, Inductive, PTL DEF Spec, NoStaleWrite
=============================================================================
