---- MODULE PayloadPurge ----
(***************************************************************************)
(* The stored request bodies of one conversation, and their deletion:      *)
(* request_log_payload_store.rs and request_log_payload_purge.rs.          *)
(*                                                                         *)
(* A body is a list of items. A manifest row keeps the items that its      *)
(* parent, an earlier row of the conversation, does not have; items are    *)
(* stored once, in blobs. A log clear and a retention prune only make rows *)
(* invisible; a drain deletes them later, batch by batch, and sweeps the   *)
(* blobs nobody refers to. Every transaction is BEGIN IMMEDIATE, hence one *)
(* step; what a drain has read before a transaction may be out of date.    *)
(***************************************************************************)
EXTENDS Integers, FiniteSets

CONSTANTS Traces,      \* request bodies, by trace id
          Length,      \* number of items of each body
          Body,        \* the items of each body, by position
          Created,     \* time each body was captured at
          Cutoffs,     \* retention cutoffs
          BatchRows,   \* rows deleted per transaction
          BatchBlobs,  \* BLOB_SCAN_ROWS
          MaxClears    \* bound on the number of log clears

NoTrace == "none"
Positions(t) == 1 .. Length[t]

ASSUME TracesAssumption == IsFiniteSet(Traces) /\ NoTrace \notin Traces
ASSUME BodiesAssumption ==
  /\ Length \in [Traces -> Nat]
  /\ DOMAIN Body = Traces
  /\ Created \in [Traces -> Nat]
  /\ Cutoffs \subseteq Nat
ASSUME ItemsAssumption ==
  \A t \in Traces : Body[t] = [p \in Positions(t) |-> Body[t][p]]
ASSUME BatchAssumption == BatchRows \in Nat \ {0} /\ BatchBlobs \in Nat \ {0}
ASSUME BoundsAssumption == MaxClears \in Nat

VARIABLES
  generation,  \* request_log_payload_state.generation
  cutoff,      \* request_log_payload_state.retention_cutoff
  marker,      \* the clear marker of the manifests table
  gc,          \* the marker of the blob sweep
  rows,        \* request_log_payload_manifests with their items
  blobs,       \* request_log_payload_blobs: id to content
  nextBlob,    \* the next id AUTOINCREMENT gives out
  captured,    \* the generation each job was captured at, -1 before
  hint,        \* ParentCache: the manifest written last and its item ids
  drain,       \* where drain_request_log_payload_purges stands, "off" when none runs
  read,        \* the marker it has read
  bound        \* the cutoff it has read

tables == <<rows, blobs, nextBlob>>
state == <<generation, cutoff>>
purges == <<marker, gc>>
drainVars == <<drain, read, bound>>
vars == <<state, purges, tables, captured, hint, drainVars>>

NoMarker == [max |-> 0, generation |-> 0]
NoSweep == [on |-> FALSE, max |-> 0, cursor |-> 0]
NoHint == [trace |-> NoTrace, ids |-> << >>]
Drains == {"off", "clear", "batch", "cutoff", "retain", "sweep"}

Init ==
  /\ generation = 0 /\ cutoff = 0
  /\ marker = NoMarker /\ gc = NoSweep
  /\ rows = << >> /\ blobs = << >> /\ nextBlob = 1
  /\ captured = [t \in Traces |-> -1]
  /\ hint = NoHint
  /\ drain = "off" /\ read = NoMarker /\ bound = 0

----------------------------------------------------------------------------
(* What a reader sees.                                                     *)

Stored == DOMAIN rows
MaxRow == IF Stored = {} THEN 0
          ELSE CHOOSE n \in {rows[t].rowid : t \in Stored} :
                 \A t \in Stored : rows[t].rowid <= n
MaxBlob == IF DOMAIN blobs = {} THEN 0
           ELSE CHOOSE n \in DOMAIN blobs : \A b \in DOMAIN blobs : b <= n

(* cleared_row_sql: the row is one of those the marker dooms.              *)
Cleared(t, m) == rows[t].rowid <= m.max /\ rows[t].generation < m.generation

Live(t) == t \in Stored /\ Created[t] >= cutoff /\ ~Cleared(t, marker)

(* The rows resolve_request_log_payload_item_ids visits for one position:  *)
(* a row hands the position on to its parent when it is in the prefix they *)
(* share: no set of others is closed under that. A parent that is gone     *)
(* ends the walk.                                                          *)
HandsOn(t, p) == t \in Stored /\ rows[t].parent # NoTrace /\ p <= rows[t].shared
Visited(t, p) ==
  {u \in Traces : \A S \in SUBSET (Traces \ {u}) :
     t \in S => \E v \in S : HandsOn(v, p) /\ rows[v].parent \notin S}

(* The blob id found at the end of the walk, 0 when there is none.         *)
Found(t, p) == {u \in Visited(t, p) \cap Stored : ~HandsOn(u, p) /\ p > rows[u].shared}
ItemId(t, p) ==
  IF Found(t, p) = {} THEN 0 ELSE rows[CHOOSE u \in Found(t, p) : TRUE].items[p]
Resolves(t) == \A p \in Positions(t) : ItemId(t, p) \in Nat \ {0}

----------------------------------------------------------------------------
(* Storing a body.                                                         *)

Capture(t) ==
  /\ captured[t] = -1
  /\ captured' = [captured EXCEPT ![t] = generation]
  /\ UNCHANGED <<state, purges, tables, hint, drainVars>>

(* request_log_payload_job_is_current, and no row of this trace yet.       *)
Accepts(t) == captured[t] = generation /\ cutoff <= Created[t] /\ t \notin Stored

(* upsert_request_log_payload_blobs: contents that have no blob get one.   *)
(* Ids are never used again; that they may leave gaps changes nothing.     *)
FirstAt(t, c) == CHOOSE p \in Positions(t) : Body[t][p] = c /\ \A q \in 1 .. p - 1 : Body[t][q] # c

(* Seeded fault: the first new content takes the id after the next.        *)
IdOfOffByOne(t, c) == IF \E b \in DOMAIN blobs : blobs[b] = c
                      THEN CHOOSE b \in DOMAIN blobs : blobs[b] = c
                      ELSE nextBlob + FirstAt(t, c)

IdOf(t, c) == IF \E b \in DOMAIN blobs : blobs[b] = c
              THEN CHOOSE b \in DOMAIN blobs : blobs[b] = c
              ELSE nextBlob + FirstAt(t, c) - 1
ItemIds(t) == [p \in Positions(t) |-> IdOf(t, Body[t][p])]

(* common_prefix_len                                                       *)
Agree(t, ids, n) ==
  n <= Length[t] /\ \A p \in 1 .. n : p \in DOMAIN ids /\ ids[p] = ItemIds(t)[p]
SharedPrefix(t, ids) ==
  CHOOSE n \in 0 .. Length[t] : Agree(t, ids, n) /\ ~Agree(t, ids, n + 1)

(* The newest manifest a reader sees.                                      *)
Newer(u, v) == \/ Created[u] > Created[v]
               \/ Created[u] = Created[v] /\ rows[u].rowid >= rows[v].rowid
Newest(u, S) == u \in S /\ \A v \in S : Newer(u, v)

Usable(u) == Live(u)

(* select_request_log_payload_parent: the parent and the ids it has.       *)
Parents(t) ==
  IF hint.trace # t /\ Usable(hint.trace)
  THEN {<<hint.trace, hint.ids>>}
  ELSE {<<u, [p \in Positions(u) |-> ItemId(u, p)]>> :
          u \in {v \in Stored : Newest(v, {w \in Stored : Live(w)}) /\ Resolves(v)}}

Manifest(t, parent, shared) ==
  [rowid |-> MaxRow + 1, generation |-> generation,
   parent |-> IF shared > 0 THEN parent ELSE NoTrace, shared |-> shared,
   items |-> [p \in Positions(t) |-> IF p > shared THEN ItemIds(t)[p] ELSE 0]]

Insert(t) ==
  /\ Accepts(t)
  /\ \/ \E c \in Parents(t) :
          rows' = [u \in Stored \union {t} |->
                     IF u = t THEN Manifest(t, c[1], SharedPrefix(t, c[2])) ELSE rows[u]]
     \/ /\ Parents(t) = {}
        /\ rows' = [u \in Stored \union {t} |-> IF u = t THEN Manifest(t, NoTrace, 0) ELSE rows[u]]
  /\ blobs' = [b \in DOMAIN blobs \union {ItemIds(t)[p] : p \in Positions(t)} |->
                 IF b \in DOMAIN blobs THEN blobs[b]
                 ELSE Body[t][CHOOSE p \in Positions(t) : ItemIds(t)[p] = b]]
  /\ nextBlob' = nextBlob + Length[t]
  /\ hint' = [trace |-> t, ids |-> ItemIds(t)]
  /\ UNCHANGED <<state, purges, captured, drainVars>>

(* The transaction of the writer's batch fails to commit, after the cache  *)
(* has been told of the manifest. The job is tried again or dropped.       *)
InsertRolledBack(t) ==
  /\ Accepts(t)
  /\ hint' = [trace |-> t, ids |-> ItemIds(t)]
  /\ UNCHANGED <<state, purges, tables, captured, drainVars>>

----------------------------------------------------------------------------
(* Clearing and pruning.                                                   *)

(* Seeded fault: a sweep that is under way is not started again.           *)
MarkedKeepingCursor ==
  [on |-> TRUE, max |-> IF gc.on /\ gc.max > MaxBlob THEN gc.max ELSE MaxBlob,
   cursor |-> gc.cursor]

(* mark_request_log_payload_blob_gc                                        *)
Marked == [on |-> TRUE, max |-> IF gc.on /\ gc.max > MaxBlob THEN gc.max ELSE MaxBlob,
           cursor |-> 0]

(* begin_request_log_payload_clear; without rows no marker is written.     *)
Clear ==
  /\ generation < MaxClears
  /\ generation' = generation + 1
  /\ marker' = IF Stored = {} THEN marker
               ELSE [max |-> IF marker.max > MaxRow THEN marker.max ELSE MaxRow,
                     generation |-> generation + 1]
  /\ gc' = Marked
  /\ UNCHANGED <<cutoff, tables, captured, hint, drainVars>>

(* Seeded fault: a survivor as old as the cutoff is forgotten.             *)
SurvivorsOffByOne(c) ==
  {t \in Stored : Created[t] > c /\ rows[t].parent \in Stored /\ Created[rows[t].parent] < c}

(* The rows that stay while their parents go.                              *)
Survivors(c) ==
  {t \in Stored : Created[t] >= c /\ rows[t].parent \in Stored /\ Created[rows[t].parent] < c}

(* materialize_request_log_payload_manifest                                *)
Materialized(t) ==
  [rows[t] EXCEPT !.parent = NoTrace, !.shared = 0,
                  !.items = IF Resolves(t) THEN [p \in Positions(t) |-> ItemId(t, p)] ELSE @]

(* prune_request_logs_before, as far as payloads go.                       *)
Prune(c) ==
  /\ c > 0
  /\ cutoff' = IF c > cutoff THEN c ELSE cutoff
  /\ rows' = [t \in Stored |-> IF t \in Survivors(c) THEN Materialized(t) ELSE rows[t]]
  /\ gc' = Marked
  /\ UNCHANGED <<generation, marker, blobs, nextBlob, captured, hint, drainVars>>

----------------------------------------------------------------------------
(* The drain: one at a time (DrainSlot), called after every clear and      *)
(* prune and by every maintenance tick.                                    *)

StartDrain ==
  /\ drain = "off"
  /\ drain' = "clear"
  /\ UNCHANGED <<state, purges, tables, captured, hint, read, bound>>

(* The next marker, or the retention cutoff once there is none.            *)
ReadMarker ==
  /\ drain = "clear"
  /\ read' = marker
  /\ drain' = IF marker = NoMarker THEN "cutoff" ELSE "batch"
  /\ UNCHANGED <<state, purges, tables, captured, hint, bound>>

Without(S) == [t \in Stored \ S |-> rows[t]]

(* One transaction: some doomed rows go, with their items, and the sweep   *)
(* has to look at the blobs again.                                         *)
DeleteRows(S) ==
  /\ rows' = Without(S)
  /\ gc' = IF S = {} THEN gc ELSE Marked

Batch(doomed) ==
  {S \in SUBSET doomed : Cardinality(S) = BatchRows \/ (S = doomed /\ Cardinality(S) < BatchRows)}
First(S, doomed) == \A t \in S, u \in doomed \ S : rows[t].rowid < rows[u].rowid

(* Seeded fault: the marker goes although a newer clear has extended it.   *)
MarkerAfterAny(finished) == IF finished THEN NoMarker ELSE marker

(* Only the marker the batch worked on goes when its rows are gone.        *)
MarkerAfter(finished) == IF finished /\ marker = read THEN NoMarker ELSE marker

ClearBatch ==
  LET doomed == {t \in Stored : Cleared(t, read)} IN
  /\ drain = "batch"
  /\ \E S \in Batch(doomed) :
       /\ First(S, doomed)
       /\ DeleteRows(S)
       /\ marker' = MarkerAfter(Cardinality(S) < BatchRows)
       /\ drain' = IF Cardinality(S) < BatchRows THEN "cutoff" ELSE "clear"
  /\ read' = NoMarker
  /\ UNCHANGED <<state, blobs, nextBlob, captured, hint, bound>>

ReadCutoff ==
  /\ drain = "cutoff"
  /\ bound' = cutoff
  /\ drain' = IF cutoff > 0 THEN "retain" ELSE "sweep"
  /\ UNCHANGED <<state, purges, tables, captured, hint, read>>

RetentionBatch ==
  /\ drain = "retain"
  /\ \E S \in Batch({t \in Stored : Created[t] < bound}) :
       /\ DeleteRows(S)
       /\ IF Cardinality(S) < BatchRows
          THEN drain' = "sweep" /\ bound' = 0
          ELSE UNCHANGED <<drain, bound>>
  /\ UNCHANGED <<state, marker, blobs, nextBlob, captured, hint, read>>

Referenced == UNION {{rows[t].items[p] : p \in Positions(t)} : t \in Stored}
InSweep == {b \in DOMAIN blobs : gc.cursor < b /\ b <= gc.max}

(* Seeded fault: the drain forgets to give its slot back.                  *)
SweepEndKeepingSlot ==
  /\ gc' = IF gc.on THEN NoSweep ELSE gc
  /\ drain' = "sweep"
  /\ UNCHANGED blobs

SweepEnd ==
  /\ gc' = IF gc.on THEN NoSweep ELSE gc
  /\ drain' = "off"
  /\ UNCHANGED blobs

SweepBatch ==
  /\ drain = "sweep"
  /\ \/ (~gc.on \/ InSweep = {}) /\ SweepEnd
     \/ /\ gc.on
        /\ \E ids \in SUBSET InSweep :
             /\ ids # {}
             /\ Cardinality(ids) = BatchBlobs \/ (ids = InSweep /\ Cardinality(ids) < BatchBlobs)
             /\ \A b \in ids, c \in InSweep \ ids : b < c
             /\ blobs' = [b \in DOMAIN blobs \ (ids \ Referenced) |-> blobs[b]]
             /\ gc' = [gc EXCEPT !.cursor = CHOOSE b \in ids : \A c \in ids : c <= b]
        /\ UNCHANGED drain
  /\ UNCHANGED <<state, marker, rows, nextBlob, captured, hint, read, bound>>

(* The time budget is used up, or a statement fails: the database is busy. *)
StopDrain ==
  /\ drain # "off"
  /\ drain' = "off" /\ read' = NoMarker /\ bound' = 0
  /\ UNCHANGED <<state, purges, tables, captured, hint>>

(* The process ends and starts again; spilled jobs are still there.        *)
Restart ==
  /\ hint' = NoHint
  /\ drain' = "off" /\ read' = NoMarker /\ bound' = 0
  /\ UNCHANGED <<state, purges, tables, captured>>

----------------------------------------------------------------------------
DrainStep == ReadMarker \/ ClearBatch \/ ReadCutoff \/ RetentionBatch \/ SweepBatch

Next ==
  \/ \E t \in Traces : Capture(t) \/ Insert(t) \/ InsertRolledBack(t)
  \/ Clear \/ \E c \in Cutoffs : Prune(c)
  \/ StartDrain \/ DrainStep \/ StopDrain \/ Restart

Spec == Init /\ [][Next]_vars

(* Maintenance ticks come again and again. A drain may be stopped at any   *)
(* point by its budget or a busy database, but not every time before it    *)
(* has done the same step.                                                 *)
Fairness ==
  /\ WF_vars(StartDrain)
  /\ SF_vars(ReadMarker) /\ SF_vars(ClearBatch) /\ SF_vars(ReadCutoff)
  /\ SF_vars(RetentionBatch) /\ SF_vars(SweepBatch)

FairSpec == Spec /\ Fairness

----------------------------------------------------------------------------
(* The variables keep the types of the tables.                             *)
Row(t) == [rowid : Nat \ {0}, generation : Nat, parent : Traces \union {NoTrace},
           shared : 0 .. Length[t], items : [Positions(t) -> Nat]]
TypeOK ==
  /\ generation \in Nat /\ cutoff \in Nat
  /\ marker \in [max : Nat, generation : Nat]
  /\ gc \in [on : BOOLEAN, max : Nat, cursor : Nat]
  /\ Stored \subseteq Traces /\ \A t \in Stored : rows[t] \in Row(t)
  /\ nextBlob \in Nat \ {0} /\ DOMAIN blobs \subseteq 1 .. nextBlob - 1
  /\ captured \in [Traces -> Nat \union {-1}]
  /\ hint.trace \in Traces \union {NoTrace}
  /\ hint.trace # NoTrace => hint.ids \in [Positions(hint.trace) -> Nat \ {0}]
  /\ drain \in Drains
  /\ read \in [max : Nat, generation : Nat] /\ bound \in Nat

(* A row written before a clear is never seen again: not while its rows    *)
(* are deleted in batches, not when a batch that has emptied its range     *)
(* drops the marker that a newer clear has extended, not when rowids are   *)
(* used again.                                                             *)
ClearedStaysHidden ==
  \A t \in Stored : rows[t].generation < generation => ~Live(t)

(* Every body a reader can see is complete: its chain of parents leads to  *)
(* blobs that hold its items, whatever was cleared, pruned and swept.      *)
LiveBodiesComplete ==
  \A t \in Stored : Live(t) =>
    \A p \in Positions(t) :
      ItemId(t, p) \in DOMAIN blobs /\ blobs[ItemId(t, p)] = Body[t][p]

(* Only rows written before a clear, or captured before the retention      *)
(* cutoff, are deleted: not one written since with a rowid used before.    *)
OnlyDoomedDeleted ==
  [][\A t \in Stored :
       t \notin DOMAIN rows' => rows[t].generation < generation \/ Created[t] < cutoff]_vars

(* The promise made to a reader, with manifests, blobs, markers, batches   *)
(* and restarts out of sight. An item whose blob is gone reads as Lost.    *)
Lost == "lost"
SeenItem(t, p) == LET id == ItemId(t, p) IN IF id \in DOMAIN blobs THEN blobs[id] ELSE Lost
SeenBodies == [t \in {u \in Stored : Live(u)} |-> [p \in Positions(t) |-> SeenItem(t, p)]]
FreshTraces == {t \in Traces : captured[t] = generation}

Reader == INSTANCE BodyStore WITH seen <- SeenBodies, fresh <- FreshTraces, floor <- cutoff

(* What a reader sees changes only as the abstract store allows: the       *)
(* drain, the sweep, a rolled-back batch and a restart show nothing.       *)
ReaderSpec == Reader!Spec

(* A blob nobody refers to is ahead of the sweep.                          *)
GarbageIsMarked ==
  \A b \in DOMAIN blobs \ Referenced : gc.on /\ gc.cursor < b /\ b <= gc.max

(* Whatever a clear or a prune has hidden is gone in the end, and so are   *)
(* the blobs nobody refers to, unless prunes (each of which starts the     *)
(* sweep again) never stop.                                                *)
Purged == (\A t \in Stored : Live(t)) /\ DOMAIN blobs \subseteq Referenced
PurgeEnds == <>[][\A c \in Cutoffs : ~Prune(c)]_vars => []<>Purged
====
