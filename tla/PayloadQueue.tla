---------------------------- MODULE PayloadQueue ----------------------------
(***************************************************************************)
(* The queue between the request hot path and the database for captured    *)
(* request payloads (request_log_payload_pipeline.rs, _spill.rs and        *)
(* _writer.rs in service/gateway/observability).                           *)
(*                                                                         *)
(*   hot path --> memory queue -----------------------------> writer       *)
(*           \--> hand-off queue --> spill thread --> segments --^         *)
(*                                                                         *)
(* A section of code under the queue mutex is one step; files are written, *)
(* read and deleted without it, and the segment store belongs to the spill *)
(* thread.  A log clear runs in its caller's thread.  ClearGeneration has  *)
(* the atomics of the generation mirror; here the mirror is one variable   *)
(* that is read and raised in one step.                                    *)
(***************************************************************************)
EXTENDS SpillStore

CONSTANTS
    MaxJobs,        \* bound: payloads captured, numbered in capture order
    Size,           \* accounted bytes of each job
    MaxClears,      \* bound: log clears, numbered as begin_clear does
    MaxWork,        \* bound: payloads and clears together
    MaxRestarts,    \* bound: process restarts
    FlushJobs,      \* unflushed records that force a flush (FLUSH_THRESHOLD_BYTES)
    Faults,         \* kinds of failure the environment may produce
    Overlap         \* may a clear begin while another one runs?

FaultKinds ==
    {"db",        \* a row, a transaction or reading the generation fails
     "write",     \* a segment cannot be written, flushed or opened
     "full",      \* check_spill_space refuses a record
     "sync",      \* sync_data fails although everything was written
     "delete",    \* a file cannot be removed
     "read",      \* the segment files cannot be read
     "damage",    \* a record fails its checksum
     "panic",     \* a thread of the queue panics and is restarted
     "oversize",  \* a record exceeds MAX_RECORD_PAYLOAD_BYTES
     "restore"}   \* a clear reports an error after its commit

ASSUME QueueAssumption ==
    /\ {MaxJobs, MaxClears, MaxWork, MaxRestarts} \subseteq Nat
    /\ FlushJobs \in Nat \ {0}
    /\ Size \in [1 .. MaxJobs -> Nat]
    /\ Faults \subseteq FaultKinds
    /\ Overlap \in BOOLEAN

Jobs == 1 .. MaxJobs
Clears == 1 .. MaxClears
Unresolved == -1
NotRunning == -2                          \* no threshold
None == [segment |-> 0, offset |-> 1]     \* no position

VARIABLES
    order, memory, handoff, held,            \* QueueInner: the queues ...
    rolls, boundary, purges, threshold,      \* ... what the clears asked for ...
    purgeSeq, readerBusy, releaseUpto, readStart, inFlight,
    writerAlive, spillRunning,
    store, spill,                            \* the spill thread
    writer,                                  \* the writer thread
    generation, mirror, clear, begun,        \* the database, the mirror, the clears
    captured, cap, fate,                     \* the jobs
    boot

queueVars == <<order, memory, handoff, held>>
clearReqVars == <<rolls, boundary, purges, threshold, purgeSeq>>
readVars == <<readerBusy, releaseUpto, readStart, inFlight>>
spillVars == <<store, spill>>
clearVars == <<generation, mirror, clear, begun>>
jobVars == <<captured, cap, fate>>
fixedVars == <<spillRunning, boot>>
vars == <<queueVars, clearReqVars, readVars, writerAlive, spillVars, writer,
          clearVars, jobVars, fixedVars>>

Running == {c \in Clears : clear[c] \in {"begun", "committed"}}

IdleSpill == [pc |-> "idle", hand |-> <<>>, seqs |-> {}, at |-> None, unflushed |-> <<>>]
IdleWriter(cursor, seen) ==
    [pc |-> "idle", batch |-> <<>>, taken |-> <<>>, from |-> None, upto |-> None,
     seq |-> 0, cursor |-> cursor, seen |-> seen]

Bytes(jobs) ==
    LET sum[n \in 0 .. Len(jobs)] == IF n = 0 THEN 0 ELSE sum[n - 1] + Size[jobs[n]]
    IN sum[Len(jobs)]

(* The jobs of a queue that are in S, in their order.                      *)
Among(jobs, S) ==
    LET some[n \in 0 .. Len(jobs)] ==
            IF n = 0 THEN <<>>
            ELSE IF jobs[n] \in S THEN Append(some[n - 1], jobs[n]) ELSE some[n - 1]
    IN some[Len(jobs)]

Settle(jobs, outcome) ==
    [j \in Jobs |-> IF j \in jobs /\ fate[j] = "pending" THEN outcome ELSE fate[j]]

Init ==
    /\ spillRunning \in BOOLEAN
    /\ store = OpenStore(<<>>)
    /\ order = SetBlocked(NewOrder(Pos(1, 0), Pos(1, 0)), ~spillRunning)
    /\ memory = <<>> /\ handoff = <<>> /\ held = <<>>
    /\ rolls = {} /\ boundary = [c \in Clears |-> None] /\ purges = {}
    /\ threshold = [c \in Clears |-> NotRunning] /\ purgeSeq = 0
    /\ readerBusy = FALSE /\ releaseUpto = None /\ readStart = Pos(1, 0)
    /\ inFlight = [start |-> None, next |-> None, panics |-> 0]
    /\ writerAlive \in BOOLEAN
    /\ spill = IdleSpill
    /\ writer = IdleWriter(Pos(1, 0), 0)
    /\ generation = 0 /\ mirror \in {Unresolved, 0}
    /\ clear = [c \in Clears |-> "idle"] /\ begun = 0
    /\ captured = 0
    /\ cap = [j \in Jobs |-> [gen |-> Unresolved, begun |-> 0, clean |-> FALSE, boot |-> 0]]
    /\ fate = [j \in Jobs |-> "new"]
    /\ boot = 0

-----------------------------------------------------------------------------
(* The hot path.                                                           *)

(* submit.  capture_snapshot and the routing decision share the lock.      *)
Submit ==
    /\ captured < MaxJobs /\ captured + begun < MaxWork
    /\ LET j == captured + 1
           to == IF writerAlive THEN Destination(order, Size[j]) ELSE "drop"
       IN /\ captured' = j
          /\ cap' = [cap EXCEPT ![j] = [gen |-> mirror, begun |-> begun,
                                        clean |-> Running = {}, boot |-> boot]]
          /\ order' = IF writerAlive THEN Route(order, Size[j]) ELSE order
          /\ memory' = IF to = "memory" THEN Append(memory, j) ELSE memory
          /\ handoff' = IF to = "spill" THEN Append(handoff, j) ELSE handoff
          /\ fate' = [fate EXCEPT ![j] = IF to = "drop" THEN "dropped" ELSE "pending"]
    /\ UNCHANGED <<held, clearReqVars, readVars, writerAlive, spillVars, writer,
                   clearVars, fixedVars>>

(* supervise_writer: the writer thread could not be spawned at startup.    *)
RespawnWriter ==
    /\ ~writerAlive
    /\ writerAlive' = TRUE
    /\ UNCHANGED <<queueVars, clearReqVars, readVars, spillVars, writer, clearVars,
                   jobVars, fixedVars>>

-----------------------------------------------------------------------------
(* Log clears.                                                             *)

(* begin_request_log_payload_clear: count the clear, then under the lock   *)
(* note the mirror and ask the spill thread to roll.                       *)
BeginClear ==
    /\ begun < MaxClears /\ captured + begun < MaxWork
    /\ Overlap \/ Running = {}
    /\ LET c == begun + 1
       IN /\ clear' = [clear EXCEPT ![c] = "begun"]
          /\ begun' = c
          /\ threshold' = [threshold EXCEPT ![c] = mirror]
          /\ rolls' = IF spillRunning THEN rolls \cup {c} ELSE rolls
    /\ UNCHANGED <<queueVars, boundary, purges, purgeSeq, readVars, writerAlive,
                   spillVars, writer, generation, mirror, jobVars, fixedVars>>

CommitClear(c) ==
    /\ clear[c] = "begun"
    /\ clear' = [clear EXCEPT ![c] = "committed"]
    /\ generation' = generation + 1
    /\ UNCHANGED <<queueVars, clearReqVars, readVars, writerAlive, spillVars, writer,
                   mirror, begun, jobVars, fixedVars>>

(* Seeded fault: the held jobs go behind the newer ones.                   *)
RequeueBehind(others) == IF others = {} THEN handoff \o held ELSE handoff

(* Seeded fault: the held jobs return although another clear still runs.   *)
RequeueTwice(others) == held \o handoff

(* Seeded fault: nobody puts the held jobs back.                           *)
RequeueNever(others) == handoff

(* When no other clear runs, the held jobs return to the front.            *)
Requeue(others) == IF others = {} THEN held \o handoff ELSE handoff

(* abandon_clear, for a clear that reported an error.                      *)
AbandonClear(c) ==
    /\ \/ clear[c] = "begun"
       \/ clear[c] = "committed" /\ "restore" \in Faults
    /\ clear' = [clear EXCEPT ![c] = "failed"]
    /\ rolls' = rolls \ {c}
    /\ boundary' = [boundary EXCEPT ![c] = None]
    /\ threshold' = [threshold EXCEPT ![c] = NotRunning]
    /\ handoff' = Requeue(Running \ {c})
    /\ held' = IF Running = {c} THEN <<>> ELSE held
    /\ UNCHANGED <<order, memory, purges, purgeSeq, readVars, writerAlive, spillVars,
                   writer, generation, mirror, begun, jobVars, fixedVars>>

(* Seeded fault: a job is fresh only when it is newer than the database.   *)
FreshStrict(j, limit) == cap[j].gen >= 0 /\ cap[j].gen > limit

(* is_fresh *)
Fresh(j, limit) == cap[j].gen >= 0 /\ cap[j].gen >= limit

(* finish_request_log_payload_clear after a success: purge_after_clear     *)
(* with the generation read back, or without it when that read failed.     *)
FinishClear(c, read) ==
    LET raised == IF read > mirror THEN read ELSE mirror
        limit == IF read = Unresolved THEN raised ELSE read
        fresh == {j \in Jobs : Fresh(j, limit)}
        last == Running = {c}
        fromMemory == Among(memory, Jobs \ fresh)
        fromHandoff == Among(handoff, Jobs \ fresh) \o (IF last THEN held ELSE <<>>)
        released == FinishHandoff(ReleaseMemory(order, Bytes(fromMemory)),
                                  Len(fromHandoff), Bytes(fromHandoff))
    IN /\ clear[c] = "committed"
       /\ clear' = [clear EXCEPT ![c] = "done"]
       /\ mirror' = raised
       /\ memory' = Among(memory, fresh)
       /\ handoff' = Among(handoff, fresh)
       /\ held' = IF last THEN <<>> ELSE held
       /\ threshold' = [threshold EXCEPT ![c] = NotRunning]
       /\ rolls' = rolls \ {c}
       /\ purges' = IF spillRunning THEN purges \cup {c} ELSE purges
       /\ purgeSeq' = purgeSeq + 1
       /\ order' = TryResumeMemory(released)
       /\ fate' = Settle(ToSet(fromMemory) \cup ToSet(fromHandoff), "discarded")
       /\ UNCHANGED <<boundary, readVars, writerAlive, spillVars, writer, generation,
                      begun, captured, cap, fixedVars>>

EndClear(c) ==
    \/ FinishClear(c, generation)
    \/ "db" \in Faults /\ FinishClear(c, Unresolved)

-----------------------------------------------------------------------------
(* The spill thread: next_step chooses, spill_loop executes.               *)

SpillIdle == spillRunning /\ spill.pc = "idle" /\ Len(spill.unflushed) < FlushJobs

(* finish_unflushed: the records settle against what is on disk, their     *)
(* accounting ends and the end of the readable stream is published.        *)
Lost(s, unflushed) ==
    {unflushed[i].job : i \in {k \in DOMAIN unflushed : ~Survives(s, unflushed[k].end)}}

Published(o, s, unflushed) ==
    SetCommitted(FinishHandoff(o, Len(unflushed), Bytes([i \in DOMAIN unflushed |-> unflushed[i].job])),
                 s.committed)

(* The buffered records that survive closing a file.                       *)
Keepable == IF "write" \in Faults THEN MayKeep(store) ELSE {Length(store, store.active)}

(* Step::Roll: close the active segment (no lock) ...                      *)
SpillRoll ==
    /\ SpillIdle
    /\ rolls # {}
    /\ rolls' = {}
    /\ \E kept \in Keepable :
         /\ store' = Roll(store, kept)
         /\ spill' = [spill EXCEPT !.pc = "rolled", !.seqs = rolls,
                                   !.at = Pos(store'.nextId, 0)]
    /\ UNCHANGED <<queueVars, boundary, purges, threshold, purgeSeq, readVars, writerAlive,
                   writer, clearVars, jobVars, fixedVars>>

(* ... settle what it held ...                                             *)
SpillRollSettle ==
    /\ spill.pc = "rolled"
    /\ order' = Published(order, store, spill.unflushed)
    /\ fate' = Settle(Lost(store, spill.unflushed), "dropped")
    /\ spill' = [spill EXCEPT !.pc = "settled", !.unflushed = <<>>]
    /\ UNCHANGED <<memory, handoff, held, clearReqVars, readVars, writerAlive, store,
                   writer, clearVars, captured, cap, fixedVars>>

(* ... and record the boundary of every clear that asked.                  *)
SpillRollRecord ==
    /\ spill.pc = "settled"
    /\ boundary' = [c \in Clears |-> IF c \in spill.seqs THEN spill.at ELSE boundary[c]]
    /\ spill' = [spill EXCEPT !.pc = "idle", !.seqs = {}, !.at = None]
    /\ UNCHANGED <<queueVars, rolls, purges, threshold, purgeSeq, readVars, writerAlive,
                   store, writer, clearVars, jobVars, fixedVars>>

(* Step::Purge, once no read is under way: take the requests.  Without a   *)
(* recorded boundary nothing is deleted ("never guess a boundary").        *)
Recorded == {c \in purges : boundary[c] # None}

SpillPurge ==
    /\ SpillIdle
    /\ rolls = {} /\ purges # {} /\ ~readerBusy
    /\ purges' = {}
    /\ boundary' = [c \in Clears |-> IF c \in purges THEN None ELSE boundary[c]]
    /\ spill' = IF Recorded = {} THEN spill
                ELSE [spill EXCEPT !.pc = "purging",
                                   !.at = Pos(Max({boundary[c].segment : c \in Recorded}), 0)]
    /\ UNCHANGED <<queueVars, rolls, threshold, purgeSeq, readVars, writerAlive, store,
                   writer, clearVars, jobVars, fixedVars>>

Undeletable == IF "delete" \in Faults THEN {{}, Ids(store)} ELSE {{}}

(* Unread records of the stream before a position, and those of them that  *)
(* no batch holds.                                                         *)
Unread(upto) ==
    LET stream == Stream(store, order.consumed, upto, {})
    IN {stream[i].job : i \in DOMAIN stream}

Skipped(upto) ==
    (IF Before(order.consumed, upto) THEN Unread(upto) ELSE {}) \ ToSet(writer.batch)

(* The files go (no lock): what was not read from them is discarded ...    *)
SpillPurgeDelete ==
    /\ spill.pc = "purging"
    /\ \E failed \in Undeletable : store' = PurgeBefore(store, spill.at, failed)
    /\ spill' = [spill EXCEPT !.pc = "purged"]
    /\ fate' = Settle(Skipped(spill.at), "discarded")
    /\ UNCHANGED <<queueVars, clearReqVars, readVars, writerAlive, writer, clearVars,
                   captured, cap, fixedVars>>

(* ... and the stream continues at the boundary.  A batch given back by a  *)
(* panic meanwhile is passed over where its file could not be deleted.     *)
SpillPurgeSkip ==
    /\ spill.pc = "purged"
    /\ order' = SkipStreamTo(order, spill.at)
    /\ readStart' = Later(readStart, spill.at)
    /\ spill' = [spill EXCEPT !.pc = "idle", !.at = None]
    /\ fate' = Settle(Skipped(spill.at), "discarded")
    /\ UNCHANGED <<memory, handoff, held, clearReqVars, readerBusy, releaseUpto, inFlight,
                   writerAlive, store, writer, clearVars, captured, cap, fixedVars>>

(* Step::Release: delete what the writer has consumed.                     *)
SpillRelease ==
    /\ SpillIdle
    /\ rolls = {} /\ purges = {} /\ releaseUpto # None
    /\ releaseUpto' = None
    /\ \E failed \in Undeletable : store' = ReleaseConsumed(store, releaseUpto, failed)
    /\ UNCHANGED <<queueVars, clearReqVars, readerBusy, readStart, inFlight, writerAlive,
                   spill, writer, clearVars, jobVars, fixedVars>>

(* While a clear runs, jobs captured before it are held back.              *)
MustHold(j) == \E c \in Clears : threshold[c] # NotRunning /\ cap[j].gen <= threshold[c]

(* Step::Job, first half: pop the first job that is not held back.         *)
SpillTake ==
    /\ SpillIdle
    /\ rolls = {} /\ purges = {} /\ releaseUpto = None
    /\ handoff # <<>>
    /\ LET free == {i \in DOMAIN handoff : ~MustHold(handoff[i])}
           first == IF free = {} THEN Len(handoff) + 1 ELSE Min(free)
       IN /\ held' = held \o SubSeq(handoff, 1, first - 1)
          /\ handoff' = SubSeq(handoff, first + 1, Len(handoff))
          /\ spill' = IF free = {} THEN spill
                      ELSE [spill EXCEPT !.pc = "job", !.hand = <<handoff[first]>>]
    /\ UNCHANGED <<order, memory, clearReqVars, readVars, writerAlive, store, writer,
                   clearVars, jobVars, fixedVars>>

(* Second half: the record is in the stream, buffered ...                  *)
SpillAppend ==
    /\ spill.pc = "job"
    /\ store' = AppendRecord(store, spill.hand[1])
    /\ spill' = [spill EXCEPT !.pc = "idle", !.hand = <<>>,
                              !.unflushed = Append(@, [job |-> spill.hand[1],
                                                       end |-> WritePosition(store')])]
    /\ UNCHANGED <<queueVars, clearReqVars, readVars, writerAlive, writer, clearVars,
                   jobVars, fixedVars>>

(* ... or refused for lack of space: HandoffGuard::fail ...                *)
SpillFull ==
    /\ "full" \in Faults
    /\ spill.pc = "job"
    /\ order' = SetBlocked(FinishHandoff(order, 1, Bytes(spill.hand)), TRUE)
    /\ fate' = Settle(ToSet(spill.hand), "dropped")
    /\ spill' = [spill EXCEPT !.pc = "idle", !.hand = <<>>]
    /\ UNCHANGED <<memory, handoff, held, clearReqVars, readVars, writerAlive, store, writer,
                   clearVars, captured, cap, fixedVars>>

(* ... or append failed.  The job is dropped and every buffered record is  *)
(* settled, whatever became of the segment.                                *)
AppendFailed(s) ==
    /\ spill.pc = "job"
    /\ store' = s
    /\ order' = FinishHandoff(Published(order, s, spill.unflushed), 1, Bytes(spill.hand))
    /\ fate' = Settle(ToSet(spill.hand) \cup Lost(s, spill.unflushed), "dropped")
    /\ spill' = IdleSpill
    /\ UNCHANGED <<memory, handoff, held, clearReqVars, readVars, writerAlive, writer,
                   clearVars, captured, cap, fixedVars>>

(* The full or the active segment could not be closed or written, no       *)
(* segment could be opened, or the new one could not be written.           *)
SpillAppendError ==
    /\ "write" \in Faults
    /\ LET newSegment == store.active = NoSegment \/ NeedsRoll(store) IN
       \/ \E kept \in MayKeep(store) :
            AppendFailed(IF NeedsRoll(store) THEN CloseActive(store, kept)
                         ELSE AbandonActive(store, kept))
       \/ newSegment /\ AppendFailed(AbandonActive(ReadyToAppend(store), 0))

(* encode_frame refuses the record: the segment stays as it is.            *)
SpillTooLarge ==
    /\ "oversize" \in Faults
    /\ AppendFailed(store)

(* Step::Flush, when a threshold is reached or nothing else is to do.      *)
SpillFlush ==
    /\ spillRunning /\ spill.pc = "idle" /\ spill.unflushed # <<>>
    /\ \/ Len(spill.unflushed) >= FlushJobs
       \/ rolls = {} /\ purges = {} /\ releaseUpto = None /\ handoff = <<>>
    /\ store' \in {Flush(store)}
                    \cup (IF "write" \in Faults
                          THEN {AbandonActive(store, k) : k \in MayKeep(store)} ELSE {})
    /\ order' = Published(order, store', spill.unflushed)
    /\ fate' = Settle(Lost(store', spill.unflushed), "dropped")
    /\ spill' = IdleSpill
    /\ UNCHANGED <<memory, handoff, held, clearReqVars, readVars, writerAlive, writer,
                   clearVars, captured, cap, fixedVars>>

(* maintenance, each part when its interval has passed: sync_data of the   *)
(* active segment, which flushes it without publishing the new end (and    *)
(* when only the sync fails the store itself does not note it) ...         *)
SpillSync ==
    /\ spillRunning /\ spill.pc = "idle"
    /\ store.active # NoSegment
    /\ store.flushed # Length(store, store.active) \/ store.committed # WritePosition(store)
    /\ store' \in {Flush(store)}
                    \cup (IF "write" \in Faults
                          THEN {AbandonActive(store, k) : k \in MayKeep(store)} ELSE {})
                    \cup (IF "sync" \in Faults THEN {FlushUnsynced(store)} ELSE {})
    /\ UNCHANGED <<queueVars, clearReqVars, readVars, writerAlive, spill, writer, clearVars,
                   jobVars, fixedVars>>

(* ... retrying failed deletes ...                                         *)
SpillRetryDeletes ==
    /\ spillRunning /\ spill.pc = "idle"
    /\ store.deletes # {}
    /\ store' = Delete(store, store.deletes, {})
    /\ UNCHANGED <<queueVars, clearReqVars, readVars, writerAlive, spill, writer, clearVars,
                   jobVars, fixedVars>>

(* ... and noticing that there is space again.                             *)
SpillUnblock ==
    /\ spillRunning /\ spill.pc = "idle"
    /\ order.blocked
    /\ order' = SetBlocked(order, FALSE)
    /\ UNCHANGED <<memory, handoff, held, clearReqVars, readVars, writerAlive, spillVars,
                   writer, clearVars, jobVars, fixedVars>>

(* spill_main after a panic: the job in hand is dropped, the rest settles. *)
SpillPanic ==
    /\ "panic" \in Faults
    /\ spill.pc = "job"
    /\ \E kept \in Keepable : store' = CloseActive(store, kept)
    /\ order' = FinishHandoff(Published(order, store', spill.unflushed), 1, Bytes(spill.hand))
    /\ fate' = Settle(ToSet(spill.hand) \cup Lost(store', spill.unflushed), "dropped")
    /\ spill' = IdleSpill
    /\ UNCHANGED <<memory, handoff, held, clearReqVars, readVars, writerAlive, writer,
                   clearVars, captured, cap, fixedVars>>

-----------------------------------------------------------------------------
(* The writer thread.                                                      *)

WriterIdle == writerAlive /\ writer.pc = "idle"

(* gather first notices a clear, once its files are gone.                  *)
Cursor == IF purgeSeq # writer.seen /\ purges = {}
          THEN Later(readStart, order.consumed) ELSE writer.cursor
Seen == IF purges = {} THEN purgeSeq ELSE writer.seen

Smaller(a, b) == IF a < b THEN a ELSE b

(* Memory comes first: those jobs are older than anything spilled.         *)
WriterTakeMemory ==
    /\ WriterIdle
    /\ memory # <<>>
    /\ LET n == Smaller(Len(memory), BatchJobs)
           jobs == SubSeq(memory, 1, n)
       IN /\ memory' = SubSeq(memory, n + 1, Len(memory))
          /\ writer' = [IdleWriter(Cursor, Seen) EXCEPT
                          !.pc = "memory", !.batch = jobs, !.taken = jobs]
    /\ UNCHANGED <<order, handoff, held, clearReqVars, readVars, writerAlive, spillVars,
                   clearVars, jobVars, fixedVars>>

(* Otherwise read spilled records, without the lock ...                    *)
WriterStartRead ==
    /\ WriterIdle
    /\ memory = <<>> /\ purges = {} /\ spillRunning
    /\ Before(Cursor, order.committed)
    /\ readerBusy' = TRUE
    /\ writer' = [IdleWriter(Cursor, Seen) EXCEPT
                    !.pc = "reading", !.from = Cursor, !.upto = order.committed, !.seq = purgeSeq]
    /\ UNCHANGED <<queueVars, clearReqVars, releaseUpto, readStart, inFlight, writerAlive,
                   spillVars, clearVars, jobVars, fixedVars>>

(* ... and forget what was read if a clear finished meanwhile.             *)
ReadIsCurrent == purgeSeq = writer.seq

DiscardRead ==
    /\ writer.pc = "reading"
    /\ ~ReadIsCurrent
    /\ readerBusy' = FALSE
    /\ writer' = IdleWriter(writer.cursor, writer.seen)
    /\ UNCHANGED <<queueVars, clearReqVars, releaseUpto, readStart, inFlight, writerAlive,
                   spillVars, clearVars, jobVars, fixedVars>>

(* Everything before p is consumed, without having been written.           *)
SkipTo(p) ==
    /\ order' = TryResumeMemory(SetConsumed(order, p))
    /\ releaseUpto' = p

(* A read that found records.  Records behind a damaged one are lost.      *)
EndRead(damaged) ==
    /\ writer.pc = "reading"
    /\ ReadIsCurrent
    /\ readerBusy' = FALSE
    /\ \E read \in {ReadBatch(store, writer.from, writer.upto, damaged)} :
         LET jobs == [i \in DOMAIN read.records |-> read.records[i].job]
             Passed(bad) == LET stream == Stream(store, writer.from, read.next, bad)
                            IN {stream[i].job : i \in DOMAIN stream}
         IN /\ fate' = Settle(Passed({}) \ Passed(damaged), "lost")
            /\ IF jobs = <<>>
               THEN /\ writer' = IdleWriter(read.next, writer.seen)
                    /\ SkipTo(read.next)
                    /\ inFlight' = inFlight
               ELSE /\ writer' = [IdleWriter(read.next, writer.seen) EXCEPT
                                    !.pc = "disk", !.batch = jobs, !.upto = read.next]
                    /\ inFlight' = [start |-> writer.from, next |-> read.next,
                                    panics |-> IF inFlight.start = writer.from
                                               THEN inFlight.panics ELSE 0]
                    /\ UNCHANGED <<order, releaseUpto>>
    /\ UNCHANGED <<memory, handoff, held, clearReqVars, readStart, writerAlive, spillVars,
                   clearVars, captured, cap, fixedVars>>

WriterEndRead ==
    \E damaged \in {{}} \cup (IF "damage" \in Faults THEN {{j} : j \in Jobs} ELSE {}) :
        EndRead(damaged)

(* The files cannot be read: retry, and after READ_ERROR_SKIP_AFTER        *)
(* failures skip them.                                                     *)
WriterReadFails ==
    /\ "read" \in Faults
    /\ writer.pc = "reading"
    /\ ReadIsCurrent
    /\ readerBusy' = FALSE
    /\ \/ /\ writer' = IdleWriter(writer.cursor, writer.seen)
          /\ UNCHANGED <<order, releaseUpto, fate>>
       \/ /\ writer' = IdleWriter(writer.upto, writer.seen)
          /\ fate' = Settle(LET s == Stream(store, writer.from, writer.upto, {})
                            IN {s[i].job : i \in DOMAIN s}, "lost")
          /\ SkipTo(writer.upto)
    /\ UNCHANGED <<memory, handoff, held, clearReqVars, readStart, inFlight, writerAlive,
                   spillVars, clearVars, captured, cap, fixedVars>>

(* gather with nothing to do.                                              *)
WriterResume ==
    /\ WriterIdle
    /\ memory = <<>>
    /\ purges # {} \/ ~Before(Cursor, order.committed)
    /\ MayResume(order)
    /\ order' = TryResumeMemory(order)
    /\ writer' = IdleWriter(Cursor, Seen)
    /\ UNCHANGED <<memory, handoff, held, clearReqVars, readVars, writerAlive, spillVars,
                   clearVars, jobVars, fixedVars>>

(* refresh_generation_mirror: when idle and while the database is busy.    *)
WriterRefresh ==
    /\ writerAlive /\ writer.pc # "reading"
    /\ mirror # generation
    /\ mirror' = generation
    /\ UNCHANGED <<queueVars, clearReqVars, readVars, writerAlive, spillVars, writer,
                   generation, clear, begun, jobVars, fixedVars>>

(* classify_generation and job_is_current (see ClearGeneration).           *)
Accepted(j) ==
    IF cap[j].gen >= 0 THEN cap[j].gen = generation
    ELSE cap[j].clean /\ cap[j].begun = begun /\ cap[j].boot = boot

(* One transaction: the first jobs of the batch are stored, or rejected,   *)
(* or fail one by one (a failed commit or BEGIN_ATTEMPTS failures to begin *)
(* fail several).  Storing a job again is a no-op.                         *)
WriterTransaction ==
    /\ writer.batch # <<>>
    /\ mirror' = generation
    /\ \E n \in 1 .. Len(writer.batch) :
         LET done == ToSet(SubSeq(writer.batch, 1, n))
         IN \E failed \in IF "db" \in Faults THEN {{}, done} ELSE {{}} :
              /\ fate' = [j \in Jobs |->
                            IF j \notin done THEN fate[j]
                            ELSE IF j \in failed THEN Settle({j}, "dropped")[j]
                            ELSE IF Accepted(j) THEN "written"
                            ELSE Settle({j}, "stale")[j]]
              /\ writer' = [writer EXCEPT !.batch = SubSeq(@, n + 1, Len(@))]
    /\ UNCHANGED <<queueVars, clearReqVars, readVars, writerAlive, spillVars, generation,
                   clear, begun, captured, cap, fixedVars>>

(* InFlightGuard::complete, respectively mark_consumed.                    *)
WriterDone ==
    /\ writer.pc \in {"memory", "disk"}
    /\ writer.batch = <<>>
    /\ IF writer.pc = "memory"
       THEN /\ order' = ReleaseMemory(order, Bytes(writer.taken))
            /\ UNCHANGED <<releaseUpto, inFlight>>
       ELSE LET consumed == SetConsumed(order, writer.upto) IN
            /\ order' = TryResumeMemory(consumed)
            /\ releaseUpto' = consumed.consumed
            /\ inFlight' = [start |-> None, next |-> None, panics |-> 0]
    /\ writer' = IdleWriter(writer.cursor, writer.seen)
    /\ UNCHANGED <<memory, handoff, held, clearReqVars, readerBusy, readStart, writerAlive,
                   spillVars, clearVars, jobVars, fixedVars>>

(* Seeded fault: a batch is skipped one panic too late.                    *)
PoisonedLate == inFlight.start # None /\ inFlight.panics + 1 > 2

(* The writer panics while it writes.  A memory batch is dropped; a disk   *)
(* batch is read again, and skipped when it panicked twice.                *)
Poisoned == inFlight.start # None /\ inFlight.panics + 1 >= 2

WriterPanic ==
    /\ "panic" \in Faults
    /\ writer.pc \in {"memory", "disk"}
    /\ LET released == ReleaseMemory(order, Bytes(writer.taken))
           skipped == SetConsumed(released, inFlight.next)
           now == IF Poisoned THEN TryResumeMemory(skipped) ELSE released
           cursor == Later(readStart, now.consumed)
           again == Stream(store, cursor, Pos(store.nextId, 0), {})
           kept == IF writer.pc = "disk" THEN {again[i].job : i \in DOMAIN again} ELSE {}
       IN /\ order' = now
          /\ releaseUpto' = IF Poisoned THEN inFlight.next ELSE releaseUpto
          /\ inFlight' = IF Poisoned THEN [start |-> None, next |-> None, panics |-> 0]
                         ELSE IF inFlight.start = None THEN inFlight
                         ELSE [inFlight EXCEPT !.panics = @ + 1]
          /\ fate' = Settle(ToSet(writer.batch) \ kept,
                            IF writer.pc = "memory" THEN "dropped" ELSE "lost")
          /\ writer' = IdleWriter(cursor, purgeSeq)
    /\ UNCHANGED <<memory, handoff, held, clearReqVars, readerBusy, readStart, writerAlive,
                   spillVars, clearVars, captured, cap, fixedVars>>

-----------------------------------------------------------------------------
(* The process dies and starts again.  Of the segments, whatever reached   *)
(* the disk is replayed before anything new; the rest of the queue is gone.*)
Restart ==
    /\ boot < MaxRestarts
    /\ boot' = boot + 1
    /\ \E kept \in 0 .. Length(store, store.active) :
         store' = OpenStore(IF store.active = NoSegment THEN store.files
                            ELSE Truncated(store, kept))
    /\ LET onDisk == UNION {ToSet(store'.files[id]) : id \in Ids(store')}
       IN fate' = Settle(Jobs \ onDisk, "lost")
    /\ order' = SetBlocked(NewOrder(store'.start, store'.committed), ~spillRunning)
    /\ memory' = <<>> /\ handoff' = <<>> /\ held' = <<>>
    /\ rolls' = {} /\ boundary' = [c \in Clears |-> None] /\ purges' = {}
    /\ threshold' = [c \in Clears |-> NotRunning] /\ purgeSeq' = 0
    /\ readerBusy' = FALSE /\ releaseUpto' = None /\ readStart' = store'.start
    /\ inFlight' = [start |-> None, next |-> None, panics |-> 0]
    /\ writerAlive' = TRUE
    /\ spill' = IdleSpill
    /\ writer' = IdleWriter(store'.start, 0)
    /\ mirror' \in {Unresolved, generation}
    /\ clear' = [c \in Clears |-> IF c \in Running THEN "aborted" ELSE clear[c]]
    /\ UNCHANGED <<generation, begun, captured, cap, spillRunning>>

-----------------------------------------------------------------------------
ClearStep ==
    \/ BeginClear
    \/ \E c \in Clears : CommitClear(c) \/ AbandonClear(c) \/ EndClear(c)

SpillStep ==
    \/ SpillRoll \/ SpillRollSettle \/ SpillRollRecord
    \/ SpillPurge \/ SpillPurgeDelete \/ SpillPurgeSkip
    \/ SpillRelease \/ SpillTake \/ SpillAppend \/ SpillFlush
    \/ SpillRetryDeletes \/ SpillUnblock

SpillOther == SpillFull \/ SpillAppendError \/ SpillTooLarge \/ SpillSync \/ SpillPanic

WriterStep ==
    \/ WriterTakeMemory \/ WriterStartRead \/ DiscardRead \/ EndRead({})
    \/ WriterResume \/ WriterTransaction \/ WriterDone \/ RespawnWriter

WriterOther == WriterEndRead \/ WriterReadFails \/ WriterRefresh \/ WriterPanic

Next ==
    \/ Submit \/ ClearStep
    \/ SpillStep \/ SpillOther
    \/ WriterStep \/ WriterOther
    \/ Restart

Spec == Init /\ [][Next]_vars

(* Both threads poll with a timeout, so they run whenever they can. That a *)
(* clear ends is not assumed: requestlog/clear awaits its transaction, and *)
(* its future may be dropped there.                                        *)
FairSpec == Spec /\ WF_vars(SpillStep) /\ WF_vars(WriterStep)

-----------------------------------------------------------------------------
PositionsOrNone == Positions \cup {None}

TypeOK ==
    /\ order \in OrderStates
    /\ memory \in Seq(Jobs) /\ handoff \in Seq(Jobs) /\ held \in Seq(Jobs)
    /\ rolls \subseteq Clears /\ purges \subseteq Clears
    /\ boundary \in [Clears -> PositionsOrNone]
    /\ threshold \in [Clears -> Nat \cup {Unresolved, NotRunning}]
    /\ purgeSeq \in Nat /\ readerBusy \in BOOLEAN
    /\ releaseUpto \in PositionsOrNone /\ readStart \in Positions
    /\ inFlight.start \in PositionsOrNone /\ inFlight.panics \in {0, 1}
    /\ writerAlive \in BOOLEAN /\ spillRunning \in BOOLEAN
    /\ spill.pc \in {"idle", "rolled", "settled", "purging", "purged", "job"}
    /\ writer.pc \in {"idle", "reading", "memory", "disk"}
    /\ store.committed \in Positions /\ store.deletes \subseteq Ids(store)
    /\ \A id \in Ids(store) : id < store.nextId /\ store.files[id] \in Seq(Jobs)
    /\ generation \in Nat /\ mirror \in Nat \cup {Unresolved}
    /\ fate \in [Jobs -> {"new", "pending", "written", "stale", "dropped", "discarded", "lost"}]

(* The budgets see exactly what is in memory: bytes are released once for  *)
(* every job, whichever way it leaves the queue (written, appended,        *)
(* refused, cleared while queued or held, dropped by a panic).             *)
InHandoff == handoff \o held \o spill.hand
               \o [i \in DOMAIN spill.unflushed |-> spill.unflushed[i].job]

AccountingExact ==
    /\ order.memoryBytes = Bytes(memory) + Bytes(writer.taken)
    /\ order.handoffBytes = Bytes(InHandoff)
    /\ order.handoffJobs = Len(InHandoff)

(* A job nobody has decided about is still somewhere: segments are deleted *)
(* and positions moved only past records that were dealt with.  The faults *)
(* "sync" and "oversize" break this: after the first, `flushed` is ahead   *)
(* of `committed`; after the second, the spill thread has forgotten what   *)
(* is still in the buffer.                                                 *)
Buffered ==
    IF store.active = NoSegment THEN {}
    ELSE ToSet(SubSeq(store.files[store.active], store.flushed + 1, Length(store, store.active)))

NothingVanishes ==
    \A j \in Jobs : fate[j] = "pending" =>
        j \in ToSet(memory) \cup ToSet(InHandoff) \cup ToSet(writer.batch)
                \cup Buffered \cup Unread(Pos(store.nextId, 0))

(* "This keeps the global capture order intact" (order.rs:8): jobs reach   *)
(* the database in the order they were captured.                           *)
CaptureOrder ==
    [][\A j, k \in Jobs :
          fate[j] = "pending" /\ fate'[j] = "written" /\ j < k => fate[k] # "written"]_vars

(* A clear throws away only what the database would reject: it "keeps jobs *)
(* captured after the clear committed" (pipeline.rs:414), in the queues    *)
(* and in the segments.                                                    *)
DiscardsOnlyStale ==
    [][\A j \in Jobs :
          fate[j] = "pending" /\ fate'[j] = "discarded" => ~Accepted(j)]_vars

(* Every captured job is decided about, or held back for a clear that has  *)
(* not ended.                                                              *)
HeldBack(j) == MustHold(j) /\ j \in ToSet(handoff) \cup ToSet(held)

EveryJobSettled ==
    \A j \in Jobs : fate[j] = "pending" ~> fate[j] # "pending" \/ HeldBack(j)

(* When no more jobs arrive everything but the jobs held back leaves the   *)
(* hand-off queue and the memory, and with none of them the queue returns  *)
(* to memory.                                                              *)
BackToMemory ==
    <>[](/\ order.memoryBytes = 0
         /\ order.handoffJobs = Cardinality({j \in Jobs : HeldBack(j)})
         /\ order.spilling => order.handoffJobs > 0)
=============================================================================
