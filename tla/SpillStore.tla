----------------------------- MODULE SpillStore -----------------------------
(***************************************************************************)
(* The segment files the spill thread owns and the writer reads            *)
(* (core/request_log_spill/segment.rs).  One operator per method of        *)
(* SpillStore, each from a store record `s` to the next one.               *)
(*                                                                         *)
(* A record is the job it stores.  files[id] is what was appended to       *)
(* segment id; of the active segment only the first `flushed` records have *)
(* left the BufWriter, every other segment is on disk completely.  When a  *)
(* write, flush or sync fails, the number `kept` of records that did reach *)
(* the file is the caller's nondeterministic choice.                       *)
(***************************************************************************)
EXTENDS Integers, Sequences, FiniteSets, SequencesExt, SpillOrder

CONSTANTS
    SegmentMax,      \* records a segment may hold before append rolls it
    BatchJobs        \* BATCH_MAX_JOBS: records one read returns at most

ASSUME StoreAssumption == SegmentMax \in Nat \ {0} /\ BatchJobs \in Nat \ {0}

NoSegment == 0      \* `active` is None; segment ids start at 1

Ids(s) == DOMAIN s.files
Length(s, id) == IF id \in Ids(s) THEN Len(s.files[id]) ELSE 0
OnDisk(s, id) == IF id = s.active THEN s.flushed ELSE Length(s, id)

(* SpillStore::open on what an earlier run left.                           *)
OpenStore(files) ==
    LET ids == DOMAIN files
        next == IF ids = {} THEN 1 ELSE Max(ids) + 1
    IN [files |-> files, active |-> NoSegment, flushed |-> 0, nextId |-> next,
        deletes |-> {},
        start |-> IF ids = {} THEN Pos(next, 0) ELSE Pos(Min(ids), 0),
        committed |-> IF ids = {} THEN Pos(next, 0) ELSE Pos(Max(ids), Len(files[Max(ids)]))]

(* How many records of the active segment a failing write may leave.       *)
MayKeep(s) == s.flushed .. Length(s, s.active)

Truncated(s, kept) ==
    [s.files EXCEPT ![s.active] = SubSeq(@, 1, kept)]

(* close_active, with the flush succeeding (kept is everything) or not.    *)
CloseActive(s, kept) ==
    IF s.active = NoSegment THEN s
    ELSE LET end == Later(Pos(s.active, kept), s.committed)
             whole == kept = Length(s, s.active)
         IN [s EXCEPT !.files = Truncated(s, kept),
                      !.active = NoSegment,
                      !.flushed = 0,
                      !.committed = IF whole THEN end ELSE Later(Pos(s.nextId, 0), end)]

(* abandon_active, after a failed write or flush.                          *)
AbandonActive(s, kept) ==
    IF s.active = NoSegment THEN s
    ELSE [s EXCEPT !.files = Truncated(s, kept),
                   !.active = NoSegment,
                   !.flushed = 0,
                   !.committed = Later(Pos(s.nextId, 0), s.committed)]

(* append: roll a full segment, open one if there is none, write.          *)
NeedsRoll(s) == s.active # NoSegment /\ Length(s, s.active) >= SegmentMax

OpenActive(s) ==
    IF s.active # NoSegment THEN s
    ELSE [s EXCEPT !.files = [id \in Ids(s) \cup {s.nextId} |->
                                IF id = s.nextId THEN <<>> ELSE s.files[id]],
                   !.active = s.nextId,
                   !.nextId = @ + 1]

ReadyToAppend(s) ==
    OpenActive(IF NeedsRoll(s) THEN CloseActive(s, Length(s, s.active)) ELSE s)

AppendRecord(s, job) ==
    LET r == ReadyToAppend(s)
    IN [r EXCEPT !.files[r.active] = Append(@, job)]

WritePosition(s) == Pos(s.active, Length(s, s.active))

(* Seeded fault: a record counts as surviving though its last byte is gone.*)
SurvivesOneShort(s, end) == end.segment \notin Ids(s) \/ Length(s, end.segment) + 1 >= end.offset

(* record_survives                                                         *)
Survives(s, end) == end.segment \notin Ids(s) \/ Length(s, end.segment) >= end.offset

Flush(s) ==
    IF s.active = NoSegment THEN s
    ELSE [s EXCEPT !.flushed = Length(s, s.active),
                   !.committed = WritePosition(s)]

(* maybe_sync whose sync_data failed: the file has it all, `committed` is  *)
(* not moved.                                                              *)
FlushUnsynced(s) == [s EXCEPT !.flushed = Length(s, s.active)]

(* Deleting files; those in `failed` could not be removed and are retried. *)
Delete(s, ids, failed) ==
    LET gone == (ids \ {s.active}) \ failed
    IN [s EXCEPT !.files = [id \in Ids(s) \ gone |-> s.files[id]],
                 !.deletes = (@ \ gone) \cup ((ids \ {s.active}) \cap failed)]

(* release_consumed closes the active segment when everything is read.     *)
FullyRead(s, consumed) ==
    /\ s.active # NoSegment
    /\ ~Before(consumed, s.committed)
    /\ Length(s, s.active) = s.flushed
    /\ s.active <= consumed.segment

Consumed(s, consumed) ==
    LET allRead == ~Before(consumed, s.committed)
    IN {id \in Ids(s) : id < consumed.segment}
         \cup (IF FullyRead(s, consumed) THEN {s.active} ELSE {})
         \cup (IF allRead /\ s.active = NoSegment THEN {consumed.segment} \cap Ids(s) ELSE {})

ReleaseConsumed(s, consumed, failed) ==
    LET closed == IF FullyRead(s, consumed) THEN CloseActive(s, s.flushed) ELSE s
    IN Delete(closed, Consumed(s, consumed), failed)

(* roll: everything appended so far lies before the boundary.              *)
Roll(s, kept) ==
    LET closed == CloseActive(s, kept)
    IN [closed EXCEPT !.committed = Later(@, Pos(closed.nextId, 0))]

Older(s, boundary) == {id \in Ids(s) : id < boundary.segment}

PurgeBefore(s, boundary, failed) ==
    [Delete(s, Older(s, boundary), failed) EXCEPT
        !.start = Later(@, boundary),
        !.committed = Later(@, boundary)]

(* SpillReader::read, which sees the files only.  The readable records of  *)
(* segment id between two positions, each with the position after it ...   *)
Slice(s, from, upto, id) ==
    LET first == IF id = from.segment THEN from.offset ELSE 0
        limit == IF id = upto.segment
                 THEN Min({upto.offset, OnDisk(s, id)})
                 ELSE OnDisk(s, id)
    IN [k \in 1 .. Minus(limit, first) |->
          [job |-> s.files[id][first + k],
           next |-> IF first + k = limit /\ id < upto.segment
                    THEN Pos(id + 1, 0) ELSE Pos(id, first + k)]]

(* ... and of all segments.  A missing or exhausted segment is skipped.  A *)
(* damaged record (one of `damaged`) ends the reading of its segment.      *)
Undamaged(slice, damaged) ==
    LET bad == {k \in DOMAIN slice : slice[k].job \in damaged}
    IN IF bad = {} THEN slice ELSE SubSeq(slice, 1, Min(bad) - 1)

Stream(s, from, upto, damaged) ==
    FlattenSeq([i \in 1 .. (upto.segment - from.segment + 1) |->
                  Undamaged(Slice(s, from, upto, from.segment + i - 1), damaged)])

(* Seeded fault: a full batch moves the cursor to the end as well.         *)
ReadBatchToEnd(s, from, upto, damaged) ==
    LET stream == Stream(s, from, upto, damaged)
    IN [records |-> SubSeq(stream, 1, IF Len(stream) < BatchJobs THEN Len(stream) ELSE BatchJobs),
        next |-> upto]

ReadBatch(s, from, upto, damaged) ==
    LET stream == Stream(s, from, upto, damaged)
    IN IF Len(stream) < BatchJobs
       THEN [records |-> stream, next |-> upto]
       ELSE [records |-> SubSeq(stream, 1, BatchJobs), next |-> stream[BatchJobs].next]
=============================================================================
