---------------------- MODULE PayloadQueueInvariants ----------------------
(***************************************************************************)
(* What the proofs about PayloadQueue are stated with: its inductive       *)
(* invariants, IInv and ClearInv, with their parts, and the relations      *)
(* between one store, queue or stream and the next that they are kept by.  *)
(***************************************************************************)
EXTENDS PayloadQueue

-----------------------------------------------------------------------------
(* Sequences.  A function g defined by recursion up to N ...               *)
Recursive(A, a, N, D, g) ==
  g \in [0 .. N -> A] /\ g[0] = a /\ \A n \in 1 .. N : g[n] = D[n][g[n - 1]]

(* ... what is picked of s, element after element ...                      *)
Picked(s, S, g) ==
  /\ g \in [0 .. Len(s) -> Seq(Jobs)] /\ g[0] = <<>>
  /\ \A n \in 1 .. Len(s) : g[n] = IF s[n] \in S THEN Append(g[n - 1], s[n]) ELSE g[n - 1]

(* ... and sequences put one behind the other: the elements of part i      *)
(* follow position off[i - 1].                                             *)
Offsets(ss, off) ==
  /\ off \in [0 .. Len(ss) -> Nat] /\ off[0] = 0
  /\ \A i \in 1 .. Len(ss) : off[i] = off[i - 1] + Len(ss[i])

Flattened(ss, off, F) ==
  /\ \A i \in 1 .. Len(ss) : \A k \in 1 .. Len(ss[i]) :
       off[i - 1] + k \in 1 .. Len(F) /\ F[off[i - 1] + k] = ss[i][k]
  /\ \A p \in 1 .. Len(F) :
       \E i \in 1 .. Len(ss) : \E k \in 1 .. Len(ss[i]) : p = off[i - 1] + k /\ F[p] = ss[i][k]

-----------------------------------------------------------------------------
(* The shape of a store: only files with a number below the next one, and  *)
(* the active one among them, flushed up to some record of it.             *)
StoreOK(s) ==
  /\ s = [files |-> s.files, active |-> s.active, flushed |-> s.flushed, nextId |-> s.nextId,
          deletes |-> s.deletes, start |-> s.start, committed |-> s.committed]
  /\ s.files \in [Ids(s) -> Seq(Jobs)]
  /\ s.nextId \in Nat \ {0} /\ Ids(s) \subseteq 1 .. s.nextId - 1
  /\ s.active \in Ids(s) \cup {NoSegment}
  /\ s.flushed \in 0 .. Length(s, s.active)
  /\ s.deletes \subseteq Ids(s) \ {s.active}
  /\ s.start \in Positions /\ s.committed \in Positions

-----------------------------------------------------------------------------
(* What the writer reads of the files between two positions: the records   *)
(* of a segment between its first and its last one ...                     *)
Records == [job : Jobs, next : Positions]

First(from, id) == IF id = from.segment THEN from.offset ELSE 0

Limit(s, upto, id) ==
  IF id = upto.segment THEN Min({upto.offset, OnDisk(s, id)}) ELSE OnDisk(s, id)

(* ... those before the first damaged one ...                              *)
Part(s, from, upto, damaged, id) == Undamaged(Slice(s, from, upto, id), damaged)

(* ... and the stream as these parts.                                      *)
Layout(s, from, upto, damaged, ss, off) ==
  /\ ss \in Seq(Seq(Records)) /\ Offsets(ss, off)
  /\ Stream(s, from, upto, damaged) = FlattenSeq(ss)
  /\ \A i \in Int : i \in 1 .. Len(ss) <=> 1 <= i /\ from.segment + i - 1 <= upto.segment
  /\ \A i \in 1 .. Len(ss) : ss[i] = Part(s, from, upto, damaged, from.segment + i - 1)

JobsIn(stream) == {stream[i].job : i \in DOMAIN stream}

(* The records on disk between two positions.                              *)
Between(s, from, upto) ==
  {j \in Jobs : \E id \in Ids(s) : \E k \in 1 .. OnDisk(s, id) :
                   j = s.files[id][k] /\ Before(from, Pos(id, k)) /\ ~Before(upto, Pos(id, k))}

JobsOf(seq) == [i \in DOMAIN seq |-> seq[i].job]

(* The record k of segment id is one of the stream, and one of those up to *)
(* the record k0 of segment id0, after which a full batch ends at next.    *)
Reads(s, from, upto, damaged, id, k) ==
  /\ id \in Nat /\ from.segment <= id /\ id <= upto.segment
  /\ k \in 1 .. Len(Part(s, from, upto, damaged, id))

InBatch(s, from, upto, damaged, id0, k0, next, id, k) ==
  /\ id <= id0
  /\ k \in 1 .. Len(Part(s, from, upto, damaged, id))
  /\ id = id0 => k <= k0
  /\ Part(s, from, upto, damaged, id)[k].job = Part(s, from, next, damaged, id)[k].job

-----------------------------------------------------------------------------
(* What an operation makes of a store: the active segment is closed after  *)
(* `kept` records ...                                                      *)
Cut(s, t, kept) ==
  /\ Ids(t) = Ids(s) /\ t.nextId = s.nextId /\ t.active = NoSegment /\ t.flushed = 0
  /\ t.deletes = s.deletes /\ t.start = s.start
  /\ \A id \in Ids(s) \ {s.active} : t.files[id] = s.files[id]
  /\ Len(t.files[s.active]) = kept
  /\ \A k \in 1 .. kept : t.files[s.active][k] = s.files[s.active][k]

Closed(s, kept, c) ==
  [s EXCEPT !.files = Truncated(s, kept), !.active = NoSegment, !.flushed = 0, !.committed = c]

Recommitted(s, c) == [s EXCEPT !.committed = c]

Flushed(s, c) == [s EXCEPT !.flushed = Length(s, s.active), !.committed = c]

(* ... a segment is opened when there is none ...                          *)
Opened(s) ==
  [s EXCEPT !.files = [id \in Ids(s) \cup {s.nextId} |->
                         IF id = s.nextId THEN <<>> ELSE s.files[id]],
            !.active = s.nextId,
            !.nextId = s.nextId + 1]

(* ... and a record appended, after closing a full segment ...             *)
BeforeOpening(s) == IF NeedsRoll(s) THEN CloseActive(s, Length(s, s.active)) ELSE s

Appended(r, j) == [r EXCEPT !.files[r.active] = Append(@, j)]

(* ... and files are deleted; those that fail are noted.                   *)
Deleted(s, t, ids, failed) ==
  /\ StoreOK(t) /\ t.active = s.active /\ t.nextId = s.nextId /\ t.flushed = s.flushed
  /\ t.committed = s.committed /\ t.start = s.start
  /\ Ids(t) = Ids(s) \ ((ids \ {s.active}) \ failed)
  /\ t.deletes \subseteq (s.deletes \ ((ids \ {s.active}) \ failed)) \cup (ids \ {s.active})
  /\ \A id \in Ids(t) : t.files[id] = s.files[id]

-----------------------------------------------------------------------------
(* The inductive invariant: types, with what each thread holds in each of  *)
(* its states ...                                                          *)
Entries == [job : Jobs, end : Positions]

SpillStates ==
  [pc : {"idle", "rolled", "settled", "purging", "purged", "job"},
   hand : Seq(Jobs), seqs : SUBSET Clears, at : Positions, unflushed : Seq(Entries)]

SpillTyped ==
  /\ spill \in SpillStates
  /\ spill.pc = "job" => \E j \in Jobs : spill.hand = <<j>>
  /\ spill.pc # "job" => spill.hand = <<>>
  /\ spill.pc = "settled" => spill.unflushed = <<>>

WriterStates ==
  [pc : {"idle", "reading", "memory", "disk"}, batch : Seq(Jobs), taken : Seq(Jobs),
   from : Positions, upto : Positions, seq : Nat, cursor : Positions, seen : Nat]

WriterTyped ==
  /\ writer \in WriterStates
  /\ writer.pc \in {"idle", "reading"} => writer.batch = <<>>
  /\ writer.pc # "memory" => writer.taken = <<>>

Fates == {"new", "pending", "written", "stale", "dropped", "discarded", "lost"}

Types ==
  /\ order \in OrderStates
  /\ memory \in Seq(Jobs) /\ handoff \in Seq(Jobs) /\ held \in Seq(Jobs)
  /\ rolls \subseteq Clears /\ purges \subseteq Clears
  /\ boundary \in [Clears -> Positions]
  /\ threshold \in [Clears -> Nat \cup {Unresolved, NotRunning}]
  /\ purgeSeq \in Nat /\ readerBusy \in BOOLEAN
  /\ releaseUpto \in Positions /\ readStart \in Positions
  /\ inFlight \in [start : Positions, next : Positions, panics : {0, 1}]
  /\ writerAlive \in BOOLEAN /\ spillRunning \in BOOLEAN
  /\ StoreOK(store)
  /\ SpillTyped /\ WriterTyped
  /\ generation \in Nat /\ mirror \in Nat \cup {Unresolved}
  /\ clear \in [Clears -> {"idle", "begun", "committed", "done", "failed", "aborted"}]
  /\ begun \in Nat /\ captured \in Nat /\ boot \in Nat
  /\ cap \in [Jobs -> [gen : Nat \cup {Unresolved}, begun : Nat, clean : BOOLEAN, boot : Nat]]
  /\ fate \in [Jobs -> Fates]

(* ... what the budgets count ...                                          *)
Counted ==
  /\ order.memoryBytes = Bytes(memory) + Bytes(writer.taken)
  /\ order.handoffBytes = Bytes(handoff) + Bytes(held) + Bytes(spill.hand)
                             + Bytes(JobsOf(spill.unflushed))
  /\ order.handoffJobs = Len(handoff) + Len(held) + Len(spill.hand) + Len(spill.unflushed)

(* ... where the records of a store are ...                                *)
Placed(s) ==
  /\ \A id \in Ids(s) : \A k \in 1 .. OnDisk(s, id) : ~Before(s.committed, Pos(id, k))
  /\ ~Before(Pos(s.nextId, 0), s.committed)
  /\ s.active # NoSegment =>
       /\ s.active = s.nextId - 1
       /\ ~Before(Pos(s.active, s.flushed), s.committed)
       /\ s.flushed > 0 => s.committed = Pos(s.active, s.flushed)

(* ... no job is numbered before it is captured ...                        *)
Numbered(s, n) == \A id \in Ids(s) : \A k \in 1 .. Length(s, id) : s.files[id][k] <= n

Known ==
  /\ ToSet(handoff) \cup ToSet(held) \cup ToSet(spill.hand) \subseteq 1 .. captured
  /\ Numbered(store, captured)

(* ... the order of the positions in the stream ...                        *)
Ordered ==
  /\ order.consumed.segment > 0
  /\ ~Before(order.consumed, readStart)
  /\ ~Before(order.committed, order.consumed)
  /\ ~Before(store.committed, order.committed)
  /\ ~Before(order.consumed, releaseUpto)
  /\ ~Before(order.consumed, writer.from)
  /\ ~Before(order.committed, writer.upto)
  /\ ~Before(order.committed, inFlight.next)
  /\ IF writer.pc = "disk"
     THEN writer.cursor = writer.upto /\ inFlight.next = writer.upto
     ELSE ~Before(order.consumed, writer.cursor)

(* ... only what was dealt with waits for another attempt to delete it:    *)
(* it was consumed, or a purge is about to pass over it ...                *)
Clean(s, from, purged) ==
  \A id \in s.deletes : \A k \in 1 .. Length(s, id) : ~Before(from, Pos(id, k)) \/ id < purged

PurgedBelow == IF spill.pc = "purged" THEN spill.at.segment ELSE 0

Removable == Clean(store, order.consumed, PurgedBelow)

(* ... a boundary separates what was there from what comes after it ...    *)
Separates(s, u, p) ==
  /\ p.segment <= s.nextId
  /\ s.active # NoSegment => p.segment <= s.active
  /\ \A i \in 1 .. Len(u) : p.segment <= u[i].end.segment

Boundaries ==
  /\ \A c \in Clears : Separates(store, spill.unflushed, boundary[c])
  /\ spill.pc \in {"rolled", "settled"} => store.active = NoSegment /\ spill.at = Pos(store.nextId, 0)
  /\ spill.pc \in {"purging", "purged"} =>
       spill.at.offset = 0 /\ Separates(store, spill.unflushed, spill.at)
  /\ spill.pc = "purged" => ~Before(store.committed, spill.at)

(* ... the spill thread remembers what it has not published ...            *)
Remembered(s, c, e) ==
  /\ e.end.segment \in Ids(s) \ s.deletes /\ e.end.offset > 0
  /\ Before(c, e.end)
  /\ e.end.offset <= Length(s, e.end.segment) => s.files[e.end.segment][e.end.offset] = e.job
  /\ IF e.end.segment = s.active
     THEN e.end.offset <= Length(s, e.end.segment)
     ELSE ~Before(s.committed, e.end)

Noted(s, u, c) ==
  /\ \A i \in 1 .. Len(u) : Remembered(s, c, u[i])
  /\ \A id \in Ids(s) : \A k \in 1 .. Length(s, id) :
       Before(c, Pos(id, k)) => \E i \in 1 .. Len(u) : u[i].end = Pos(id, k)

Unpublished == Noted(store, spill.unflushed, order.committed)

(* ... the queue is in memory only when nothing is left in the files, and  *)
(* what is in memory was captured before what is in the files ...          *)
NothingBeyond(s, from) ==
  \A id \in Ids(s) : \A k \in 1 .. Length(s, id) : ~Before(from, Pos(id, k))

NothingBetween(s, from, upto) ==
  \A id \in Ids(s) : \A k \in 1 .. OnDisk(s, id) :
    ~(Before(from, Pos(id, k)) /\ ~Before(upto, Pos(id, k)))

MemoryFirst ==
  /\ order.handoffJobs > 0 => order.spilling
  /\ ~order.spilling => NothingBeyond(store, order.consumed)
  /\ memory # <<>> \/ writer.pc = "memory" =>
       /\ inFlight.start # None => NothingBetween(store, order.consumed, inFlight.next)
       /\ writer.pc = "reading" => NothingBetween(store, order.consumed, writer.upto)

(* ... and a batch from the files holds all that is passed over with it.   *)
Pending(j) == fate[j] = "pending"

InBatchOrSettled ==
  writer.pc = "disk" =>
    \A j \in Between(store, order.consumed, writer.upto) : Pending(j) => j \in ToSet(writer.batch)

Queued ==
  ToSet(memory) \cup ToSet(handoff) \cup ToSet(held) \cup ToSet(spill.hand)
    \cup ToSet(JobsOf(spill.unflushed)) \cup ToSet(writer.batch)

Beyond(s, from) == Between(s, from, Pos(s.nextId, 0))

Somewhere == \A j \in Jobs : Pending(j) => j \in Queued \cup Beyond(store, order.consumed)

IInv ==
  /\ Types /\ Counted
  /\ Placed(store) /\ Known /\ Ordered /\ Removable /\ Boundaries /\ Unpublished
  /\ MemoryFirst /\ InBatchOrSettled /\ Somewhere

-----------------------------------------------------------------------------
(* What a restart finds.                                                   *)
Found(kept) ==
  IF store.active = NoSegment THEN store.files ELSE Truncated(store, kept)

-----------------------------------------------------------------------------
(* Nothing is lost.  First the stores: what an operation that deletes      *)
(* nothing keeps, from one store to the next.                              *)
Keeps(s, t) ==
  /\ Placed(t)
  /\ Ids(s) \subseteq Ids(t) /\ s.nextId <= t.nextId /\ t.deletes = s.deletes
  /\ ~Before(t.committed, s.committed)
  /\ \A id \in Ids(t) : \A k \in 1 .. Length(t, id) :
       id \in Ids(s) /\ k <= Length(s, id) /\ t.files[id][k] = s.files[id][k]
  /\ \A id \in Ids(s) : OnDisk(s, id) <= OnDisk(t, id)
  /\ t.active \in {s.active, NoSegment} \/ t.active >= s.nextId
  /\ t.active = s.active => Length(t, t.active) = Length(s, s.active)
  /\ s.active # NoSegment /\ t.active # s.active =>
       ~Before(t.committed, Pos(s.active, Length(s, s.active)))

Whole(s) == \A id \in Ids(s) : OnDisk(s, id) = Length(s, id)

(* Files that are gone.                                                    *)
Fewer(s, t) ==
  /\ Ids(t) \subseteq Ids(s) /\ t.active = s.active /\ t.flushed = s.flushed /\ t.nextId = s.nextId
  /\ \A id \in Ids(t) : t.files[id] = s.files[id]

-----------------------------------------------------------------------------
(* The steps.  What the types say of each part of the state ...            *)
Parts ==
  /\ order \in OrderStates /\ order.consumed \in Positions /\ order.committed \in Positions
  /\ order.handoffJobs \in Nat /\ order.spilling \in BOOLEAN
  /\ StoreOK(store) /\ store.committed \in Positions /\ store.nextId \in Nat
  /\ Pos(store.nextId, 0) \in Positions
  /\ spill.hand \in Seq(Jobs) /\ spill.unflushed \in Seq(Entries) /\ spill.at \in Positions
  /\ spill.seqs \subseteq Clears
  /\ writer.batch \in Seq(Jobs) /\ writer.taken \in Seq(Jobs)
  /\ writer.from \in Positions /\ writer.upto \in Positions /\ writer.cursor \in Positions
  /\ inFlight.start \in Positions /\ inFlight.next \in Positions
  /\ readStart \in Positions /\ releaseUpto \in Positions
  /\ boundary \in [Clears -> Positions] /\ \A c \in Clears : boundary[c] \in Positions
  /\ memory \in Seq(Jobs) /\ handoff \in Seq(Jobs) /\ held \in Seq(Jobs)
  /\ captured \in Nat /\ fate \in [Jobs -> Fates]

(* Nothing comes to the part of the stream after a position.               *)
Narrows(s, t, from) ==
  /\ NothingBeyond(s, from) => NothingBeyond(t, from)
  /\ \A upto \in Positions : ~Before(s.committed, upto) =>
       /\ Between(t, from, upto) \subseteq Between(s, from, upto)
       /\ NothingBetween(s, from, upto) => NothingBetween(t, from, upto)

-----------------------------------------------------------------------------
(* The queue returns to memory only when the files hold nothing to read.   *)
Resumes(o, n) ==
  /\ n.handoffJobs <= o.handoffJobs
  /\ o.spilling => n.spilling \/ (n.handoffJobs = 0 /\ ~Before(n.consumed, n.committed))

(* What a finishing clear takes out: gone from memory, stale from handoff; *)
(* let are the held jobs it lets go, and out all it takes from the spill   *)
(* side.                                                                   *)
Finished(fresh, gone, stale, let, out) ==
  /\ fresh \subseteq Jobs
  /\ gone \in Seq(Jobs) /\ stale \in Seq(Jobs) /\ let \in Seq(Jobs) /\ out \in Seq(Jobs)
  /\ memory' = Among(memory, fresh) /\ gone = Among(memory, Jobs \ fresh)
  /\ handoff' = Among(handoff, fresh) /\ stale = Among(handoff, Jobs \ fresh)
  /\ memory' \in Seq(Jobs) /\ handoff' \in Seq(Jobs) /\ out = stale \o let
  /\ (let = held /\ held' = <<>>) \/ (let = <<>> /\ held' = held)
  /\ fate' = Settle(ToSet(gone) \cup ToSet(out), "discarded")
  /\ order' \in OrderStates /\ Resumes(order, order')
  /\ order'.memoryBytes = Minus(order.memoryBytes, Bytes(gone))
  /\ order'.handoffBytes = Minus(order.handoffBytes, Bytes(out))
  /\ order'.handoffJobs = Minus(order.handoffJobs, Len(out))
  /\ order'.committed = order.committed /\ order'.consumed = order.consumed

-----------------------------------------------------------------------------
(* The writer: the positions it works with, and what is read when there    *)
(* are jobs in memory.                                                     *)
WriterOrdered ==
  /\ ~Before(order.consumed, releaseUpto) /\ ~Before(order.consumed, writer.from)
  /\ ~Before(order.committed, writer.upto) /\ ~Before(order.committed, inFlight.next)
  /\ IF writer.pc = "disk"
     THEN writer.cursor = writer.upto /\ inFlight.next = writer.upto
     ELSE ~Before(order.consumed, writer.cursor)

ReadersAhead ==
  memory # <<>> \/ writer.pc = "memory" =>
    /\ inFlight.start # None => NothingBetween(store, order.consumed, inFlight.next)
    /\ writer.pc = "reading" => NothingBetween(store, order.consumed, writer.upto)

-----------------------------------------------------------------------------
(* The process starts: the segments it finds lie between the two ends of   *)
(* the stream, and nothing else is left.                                   *)
Reopened(t) ==
  /\ t.active = NoSegment /\ t.deletes = {} /\ t.start.segment > 0
  /\ ~Before(t.committed, t.start) /\ ~Before(Pos(t.nextId, 0), t.committed)
  /\ \A id \in Ids(t) : \A k \in 1 .. Length(t, id) :
       Before(t.start, Pos(id, k)) /\ ~Before(t.committed, Pos(id, k))

Started ==
  /\ Reopened(store) /\ Numbered(store, captured)
  /\ order = SetBlocked(NewOrder(store.start, store.committed), ~spillRunning)
  /\ memory = <<>> /\ handoff = <<>> /\ held = <<>>
  /\ boundary = [c \in Clears |-> None]
  /\ releaseUpto = None /\ readStart = store.start
  /\ inFlight = [start |-> None, next |-> None, panics |-> 0]
  /\ spill = IdleSpill /\ writer = IdleWriter(store.start, 0)
  /\ \A j \in Jobs : Pending(j) => \E id \in Ids(store) : j \in ToSet(store.files[id])

-----------------------------------------------------------------------------
(* What a clear discards.  The jobs in a file, and what the steps of the   *)
(* spill thread do to them: a record stays in its file until it is gone,   *)
(* and a new one goes to a file at least as new as the active one.         *)
Stored(s, id) ==
  {j \in Jobs : id \in Ids(s) /\ \E k \in 1 .. Length(s, id) : s.files[id][k] = j}

All(s, S) == \A id \in Nat : Stored(s, id) \subseteq S

Below(s, n, S) == \A id \in Nat : id < n => Stored(s, id) \subseteq S

Within(s, t) ==
  /\ \A id \in Nat : Stored(t, id) \subseteq Stored(s, id)
  /\ s.nextId <= t.nextId /\ t.active \in {s.active, NoSegment}

Grown(s, t, j) ==
  /\ \A id \in Nat : Stored(t, id) \subseteq Stored(s, id) \cup (IF id = t.active THEN {j} ELSE {})
  /\ s.nextId <= t.nextId /\ t.active \in Nat \ {NoSegment}
  /\ t.active = s.active \/ t.active = s.nextId

(* A boundary leaves everything in S behind it, and only that.             *)
Parted(s, n, S) == Below(s, n, S) /\ n <= s.nextId /\ (s.active # NoSegment => n <= s.active)

-----------------------------------------------------------------------------
(* The inductive invariant of the clears.  The clears and the generation:  *)
(* what a clear noted as its threshold is older than what it commits ...   *)
Clearing ==
  /\ mirror <= generation
  /\ \A c \in Clears : c > begun => clear[c] = "idle"
  /\ \A c \in purges : clear[c] = "done"
  /\ \A c \in Clears : threshold[c] # NotRunning =>
       /\ c \in Running /\ threshold[c] <= generation
       /\ clear[c] = "committed" => threshold[c] < generation
  /\ \A c, d \in Running : c = d

(* ... what the stamp of a job says of the clears ...                      *)
Earlier(c) == {j \in Jobs : cap[j].begun < c}

Stamped ==
  /\ \A j \in Jobs : cap[j].gen <= generation /\ cap[j].begun <= begun
  /\ \A c \in Clears : clear[c] \in {"committed", "done"} =>
       \A j \in Earlier(c) : cap[j].gen < generation
  /\ Running # {} => \A j \in Jobs : ~(cap[j].clean /\ cap[j].begun = begun /\ cap[j].boot = boot)

(* ... what the spill thread has was captured, and what is held back is    *)
(* older than the clear that runs ...                                      *)
Caught == {j \in Jobs : j <= captured}

InHand ==
  /\ ToSet(handoff) \cup ToSet(held) \cup ToSet(spill.hand) \subseteq Caught
  /\ \A j \in ToSet(held) : MustHold(j)

(* ... and so is everything that lies before a boundary.                   *)
Outdated ==
  {j \in Jobs : IF cap[j].gen >= 0 THEN cap[j].gen < generation
                ELSE ~(cap[j].clean /\ cap[j].begun = begun /\ cap[j].boot = boot)}

Asked == \A c \in rolls : All(store, Earlier(c)) /\ ToSet(spill.hand) \subseteq Earlier(c)

Rolled ==
  spill.pc \in {"rolled", "settled"} =>
    /\ store.active = NoSegment /\ spill.at = Pos(store.nextId, 0)
    /\ \A c \in spill.seqs : All(store, Earlier(c))

Bounds == \A c \in Clears : Parted(store, boundary[c].segment, Earlier(c))

Purged ==
  spill.pc \in {"purging", "purged"} =>
    spill.at.offset = 0 /\ Below(store, spill.at.segment, Outdated)

Filed == All(store, Caught) /\ Asked /\ Rolled /\ Bounds /\ Purged

ClearInv == Types /\ Clearing /\ Stamped /\ InHand /\ Filed

-----------------------------------------------------------------------------
(* What the steps of the other threads leave of the clears.                *)
Quiet == UNCHANGED <<generation, clear, begun, threshold, cap, boot>> /\ mirror' \in {mirror, generation}
           /\ purges' \in {purges, {}}

-----------------------------------------------------------------------------
(* The queues.  Most steps of the spill thread only lose records.          *)
Stays == UNCHANGED <<handoff, held, rolls, boundary, captured, cap, generation, begun, boot, threshold>>

Plain ==
  /\ Stays /\ Within(store, store')
  /\ spill'.pc = "idle" /\ spill'.hand \in {spill.hand, <<>>}

(* The steps of the spill thread that move boundaries.                     *)
Moves ==
  /\ UNCHANGED <<handoff, held, captured, cap, generation, begun, boot, threshold>>
  /\ spill'.hand \in {spill.hand, <<>>}

-----------------------------------------------------------------------------
(* A step of the action property DiscardsOnlyStale is about.               *)
Discarded(j) == fate[j] = "pending" /\ fate'[j] = "discarded"
=============================================================================
