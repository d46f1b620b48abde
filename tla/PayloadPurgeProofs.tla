------------------------- MODULE PayloadPurgeProofs -------------------------
(***************************************************************************)
(* For any bodies, batch sizes, clears and cutoffs: what a clear has       *)
(* hidden stays hidden, only what is doomed is deleted, every body that a  *)
(* reader can see is complete, and the sweep misses no garbage.            *)
(***************************************************************************)
EXTENDS PayloadPurge, WellFoundedInduction, NaturalsInduction, TLAPS

USE TracesAssumption, BodiesAssumption, BatchAssumption, BoundsAssumption

(* The rows of this generation that the retention keeps.                   *)
Kept(t) == t \in Stored /\ rows[t].generation = generation /\ Created[t] >= cutoff

Holds(id, c) == id \in DOMAIN blobs /\ blobs[id] = c

(* Rows are numbered; rows of earlier generations are under the marker.    *)
RowsBounded == \E n \in Nat : \A t \in Stored : rows[t].rowid <= n
Generations ==
  /\ \A t \in Stored : /\ rows[t].generation <= generation
                       /\ rows[t].generation < generation => Cleared(t, marker)
  /\ marker.generation <= generation /\ read.generation <= generation
  /\ bound <= cutoff
  /\ \A t \in Traces : captured[t] <= generation

(* Each content has one blob.                                              *)
BlobsUnique == \A b, c \in DOMAIN blobs : blobs[b] = blobs[c] => b = c

(* One link of a chain: the row has the item itself, or an older row that  *)
(* is kept as well has the same item at this position.                     *)
Link(t, p) ==
  IF p > rows[t].shared
  THEN Holds(rows[t].items[p], Body[t][p])
  ELSE /\ rows[t].parent # NoTrace /\ Kept(rows[t].parent)
       /\ p \in Positions(rows[t].parent) /\ Body[rows[t].parent][p] = Body[t][p]
       /\ rows[rows[t].parent].rowid < rows[t].rowid
Chains == \A t \in Traces : Kept(t) => \A p \in Positions(t) : Link(t, p)

(* The cached ids of a manifest that is still there are its items.         *)
HintSound ==
  Kept(hint.trace) => \A p \in Positions(hint.trace) : Holds(hint.ids[p], Body[hint.trace][p])

IInv ==
  TypeOK /\ RowsBounded /\ Generations /\ BlobsUnique /\ Chains /\ HintSound /\ GarbageIsMarked

-----------------------------------------------------------------------------
(* Numbers.                                                                *)

LEMMA LeastExists ==
  ASSUME NEW S, S \subseteq Nat, S # {}
  PROVE  \E m \in S : \A n \in S : m <= n
<1> DEFINE R == OpToRel(<, Nat)
<1>1. IsWellFoundedOn(R, Nat)
  BY NatLessThanWellFounded
<1>2. \A n, m \in S : n < m => <<n, m>> \in R
  BY Zenon DEF OpToRel
<1> HIDE DEF R
<1>3. PICK m \in S : \A n \in S : ~ (<<n, m>> \in R)
  BY <1>1, WFMin
<1>4. \A n \in S : ~(n < m)
  BY <1>2, <1>3
<1> QED BY <1>4

LEMMA GreatestExists ==
  ASSUME NEW S, S \subseteq Nat, S # {}, NEW k \in Nat, \A n \in S : n <= k
  PROVE  \E m \in S : \A n \in S : n <= m
<1> DEFINE U == {u \in Nat : \A n \in S : n <= u}
<1>1. PICK m \in U : \A u \in U : m <= u
  <2>1. k \in U /\ U \subseteq Nat
    OBVIOUS
  <2> HIDE DEF U
  <2> QED BY <2>1, LeastExists
<1>2. m \in S
  <2> SUFFICES ASSUME m \notin S PROVE FALSE
    OBVIOUS
  <2>1. PICK s \in S : TRUE
    OBVIOUS
  <2>2. \A n \in S : n < m
    BY <1>1
  <2>3. m - 1 \in U
    BY <2>1, <2>2
  <2> QED BY <1>1, <2>3
<1> QED BY <1>1, <1>2

LEMMA RowNumbers ==
  ASSUME TypeOK, RowsBounded
  PROVE  MaxRow \in Nat /\ \A t \in Stored : rows[t].rowid <= MaxRow
<1>1. CASE Stored = {}
  BY <1>1 DEF MaxRow
<1>2. CASE Stored # {}
  <2> DEFINE R == {rows[t].rowid : t \in Stored}
  <2>1. R \subseteq Nat /\ R # {}
    BY <1>2 DEF TypeOK, Row
  <2>2. PICK k \in Nat : \A n \in R : n <= k
    BY DEF RowsBounded
  <2>3. \E m \in R : \A n \in R : n <= m
    <3> HIDE DEF R
    <3> QED BY <2>1, <2>2, GreatestExists
  <2>4. \E m \in R : \A t \in Stored : rows[t].rowid <= m
    BY <2>3
  <2> QED BY <1>2, <2>1, <2>4 DEF MaxRow
<1> QED BY <1>1, <1>2

LEMMA BlobNumbers ==
  ASSUME TypeOK
  PROVE  MaxBlob \in Nat /\ \A b \in DOMAIN blobs : b <= MaxBlob /\ b \in Nat /\ b > 0
<1>1. CASE DOMAIN blobs = {}
  BY <1>1 DEF MaxBlob
<1>2. CASE DOMAIN blobs # {}
  <2>1. DOMAIN blobs \subseteq Nat /\ \A b \in DOMAIN blobs : b <= nextBlob
    BY DEF TypeOK
  <2>2. \E m \in DOMAIN blobs : \A n \in DOMAIN blobs : n <= m
    BY <1>2, <2>1, GreatestExists DEF TypeOK
  <2> QED BY <1>2, <2>1, <2>2 DEF MaxBlob, TypeOK
<1> QED BY <1>1, <1>2

-----------------------------------------------------------------------------
(* What a reader sees.                                                     *)

LEMMA LiveIsKept ==
  ASSUME TypeOK, Generations, NEW t
  PROVE  Live(t) <=> Kept(t)
<1>1. ASSUME t \in Stored PROVE Cleared(t, marker) <=> rows[t].generation # generation
  <2>1. rows[t].generation \in Nat /\ marker.generation \in Nat /\ generation \in Nat
    BY <1>1 DEF TypeOK, Row
  <2>2. rows[t].generation <= generation /\ marker.generation <= generation
    BY <1>1 DEF Generations
  <2>3. rows[t].generation < generation => Cleared(t, marker)
    BY <1>1 DEF Generations
  <2> QED BY <2>1, <2>2, <2>3 DEF Cleared
<1> QED BY <1>1 DEF Live, Kept

(* The walk along the parents of a kept row finds a blob with its item.    *)
LEMMA ChainComplete ==
  ASSUME TypeOK, Chains, NEW t \in Traces, Kept(t), NEW p \in Positions(t)
  PROVE  /\ Holds(ItemId(t, p), Body[t][p])
         /\ \E u \in Stored : p \in Positions(u) /\ ItemId(t, p) = rows[u].items[p]
<1> DEFINE Same(v) == Kept(v) /\ p \in Positions(v) /\ Body[v][p] = Body[t][p]
           S0 == {v \in Traces : Same(v)}
<1>1. t \in S0 /\ \A v \in S0 : HandsOn(v, p) => rows[v].parent \in S0
  <2>1. ASSUME NEW v \in S0, HandsOn(v, p) PROVE rows[v].parent \in S0
    <3>1. Link(v, p) /\ ~(p > rows[v].shared)
      BY <2>1 DEF Chains, HandsOn, TypeOK, Row, Positions
    <3> QED BY <2>1, <3>1 DEF Link, TypeOK, Row, Kept
  <2> QED BY <2>1
<1>2. Visited(t, p) \subseteq S0
  <2> SUFFICES ASSUME NEW u \in Visited(t, p), u \notin S0 PROVE FALSE
    OBVIOUS
  <2>1. S0 \in SUBSET (Traces \ {u})
    OBVIOUS
  <2> HIDE DEF S0
  <2>2. \E v \in S0 : HandsOn(v, p) /\ rows[v].parent \notin S0
    BY <1>1, <2>1 DEF Visited
  <2> QED BY <1>1, <2>2
<1>3. \A v \in Visited(t, p) : HandsOn(v, p) => rows[v].parent \in Visited(t, p)
  <2> SUFFICES ASSUME NEW v \in Visited(t, p), HandsOn(v, p),
                      NEW S \in SUBSET (Traces \ {rows[v].parent}), t \in S
               PROVE  \E w \in S : HandsOn(w, p) /\ rows[w].parent \notin S
    BY <1>1, <1>2 DEF Visited
  <2>1. CASE v \in S
    BY <2>1
  <2>2. CASE v \notin S
    BY <2>2 DEF Visited
  <2> QED BY <2>1, <2>2
<1>4. t \in Visited(t, p)
  BY DEF Visited
<1> DEFINE R == {rows[v].rowid : v \in Visited(t, p)}
<1>5. PICK v \in Visited(t, p) : \A w \in Visited(t, p) : rows[v].rowid <= rows[w].rowid
  <2>1. R \subseteq Nat /\ R # {}
    BY <1>2, <1>4 DEF Kept, TypeOK, Row
  <2>2. \E m \in R : \A n \in R : m <= n
    <3> HIDE DEF R
    <3> QED BY <2>1, LeastExists
  <2> QED BY <2>2
<1>6. Kept(v) /\ v \in Stored /\ Link(v, p)
  BY <1>2 DEF Chains, Kept
<1>7. ~HandsOn(v, p)
  <2> SUFFICES ASSUME HandsOn(v, p) PROVE FALSE
    OBVIOUS
  <2>1. rows[v].parent \in Visited(t, p) /\ rows[rows[v].parent].rowid < rows[v].rowid
    BY <1>3, <1>6 DEF HandsOn, Link, TypeOK, Row, Positions
  <2>2. rows[v].rowid \in Nat /\ rows[rows[v].parent].rowid \in Nat
    BY <1>2, <1>6, <2>1 DEF Kept, TypeOK, Row
  <2> QED BY <1>5, <2>1, <2>2
<1>8. v \in Found(t, p)
  BY <1>6, <1>7 DEF Found, Link, HandsOn, TypeOK, Row, Positions
<1>9. PICK u \in Found(t, p) : ItemId(t, p) = rows[u].items[p]
  BY <1>8 DEF ItemId
<1>10. Same(u) /\ u \in Stored /\ p > rows[u].shared /\ Link(u, p)
  BY <1>2 DEF Found, Chains
<1> QED BY <1>9, <1>10 DEF Link

LEMMA LiveComplete ==
  ASSUME TypeOK, Generations, Chains
  PROVE  LiveBodiesComplete
BY LiveIsKept, ChainComplete DEF LiveBodiesComplete, Holds, TypeOK

LEMMA KeptResolves ==
  ASSUME TypeOK, Chains, NEW t \in Traces, Kept(t)
  PROVE  Resolves(t)
<1> SUFFICES ASSUME NEW p \in Positions(t) PROVE ItemId(t, p) \in Nat \ {0}
  BY DEF Resolves
<1> QED BY ChainComplete DEF Holds, TypeOK

(* Only kept rows matter, and what they need is what it was.               *)
LEMMA ChainsFrame ==
  ASSUME Chains,
         \A t \in Traces : Kept(t)' => Kept(t) /\ rows'[t] = rows[t],
         \A t, u \in Traces : Kept(t)' /\ Kept(u) => Kept(u)',
         \A t \in Traces : Kept(t)' => \A p \in Positions(t) :
           p > rows[t].shared /\ Holds(rows[t].items[p], Body[t][p]) =>
             Holds(rows[t].items[p], Body[t][p])',
         Stored \subseteq Traces
  PROVE  Chains'
<1> SUFFICES ASSUME NEW t \in Traces, Kept(t)', NEW p \in Positions(t) PROVE Link(t, p)'
  BY DEF Chains
<1>1. Kept(t) /\ rows'[t] = rows[t] /\ Link(t, p)
  BY DEF Chains
<1>2. CASE p > rows[t].shared
  BY <1>1, <1>2 DEF Link
<1>3. CASE ~(p > rows[t].shared)
  <2> DEFINE u == rows[t].parent
  <2>1. /\ u # NoTrace /\ Kept(u) /\ u \in Traces
        /\ p \in Positions(u) /\ Body[u][p] = Body[t][p] /\ rows[u].rowid < rows[t].rowid
    BY <1>1, <1>3 DEF Link, Kept
  <2>2. Kept(u)' /\ rows'[u] = rows[u]
    BY <2>1
  <2> QED BY <1>1, <1>3, <2>1, <2>2 DEF Link
<1> QED BY <1>2, <1>3

LEMMA MarkedSound ==
  ASSUME TypeOK
  PROVE  /\ Marked \in [on : BOOLEAN, max : Nat, cursor : Nat]
         /\ \A b \in DOMAIN blobs : Marked.on /\ Marked.cursor < b /\ b <= Marked.max
<1>1. gc.max \in Nat
  BY DEF TypeOK
<1> QED BY <1>1, BlobNumbers DEF Marked

-----------------------------------------------------------------------------
(* Storing a body.                                                         *)

LEMMA FirstAtSound ==
  ASSUME NEW t \in Traces, NEW p \in Positions(t)
  PROVE  /\ FirstAt(t, Body[t][p]) \in Positions(t)
         /\ Body[t][FirstAt(t, Body[t][p])] = Body[t][p]
<1> DEFINE S == {q \in Positions(t) : Body[t][q] = Body[t][p]}
<1>1. PICK m \in S : \A n \in S : m <= n
  <2>1. S \subseteq Nat /\ S # {}
    BY DEF Positions
  <2> HIDE DEF S
  <2> QED BY <2>1, LeastExists
<1>2. \A q \in 1 .. m - 1 : Body[t][q] # Body[t][p]
  BY <1>1 DEF Positions
<1> QED BY <1>1, <1>2 DEF FirstAt

(* The id of an item is the blob of its content, or a new one.             *)
LEMMA IdSound ==
  ASSUME TypeOK, NEW t \in Traces, NEW p \in Positions(t)
  PROVE  /\ ItemIds(t)[p] \in 1 .. nextBlob + Length[t] - 1
         /\ ItemIds(t)[p] \in DOMAIN blobs => blobs[ItemIds(t)[p]] = Body[t][p]
         /\ ItemIds(t)[p] \notin DOMAIN blobs =>
              /\ ItemIds(t)[p] = nextBlob + FirstAt(t, Body[t][p]) - 1
              /\ \A b \in DOMAIN blobs : blobs[b] # Body[t][p]
<1> DEFINE c == Body[t][p]
<1>1. ItemIds(t)[p] = IdOf(t, c)
  BY DEF ItemIds
<1>2. FirstAt(t, c) \in Positions(t) /\ Length[t] \in Nat /\ nextBlob \in Nat \ {0}
  BY FirstAtSound DEF TypeOK
<1>3. DOMAIN blobs \subseteq 1 .. nextBlob - 1
  BY DEF TypeOK
<1>4. CASE \E b \in DOMAIN blobs : blobs[b] = c
  <2>1. IdOf(t, c) \in DOMAIN blobs /\ blobs[IdOf(t, c)] = c
    BY <1>4 DEF IdOf
  <2> QED BY <1>1, <1>2, <1>3, <2>1
<1>5. CASE ~ \E b \in DOMAIN blobs : blobs[b] = c
  <2>1. IdOf(t, c) = nextBlob + FirstAt(t, c) - 1
    BY <1>5 DEF IdOf
  <2>2. IdOf(t, c) \notin DOMAIN blobs /\ IdOf(t, c) \in 1 .. nextBlob + Length[t] - 1
    BY <1>2, <1>3, <2>1 DEF Positions
  <2> QED BY <1>1, <1>5, <2>1, <2>2
<1> QED BY <1>4, <1>5

LEMMA SharedSound ==
  ASSUME NEW t \in Traces, NEW ids
  PROVE  SharedPrefix(t, ids) \in 0 .. Length[t] /\ Agree(t, ids, SharedPrefix(t, ids))
<1> DEFINE S == {n \in Nat : ~Agree(t, ids, n + 1)}
<1>1. Length[t] \in S
  BY DEF Agree
<1>2. PICK m \in S : \A n \in S : m <= n
  <2>1. S \subseteq Nat /\ S # {}
    BY <1>1
  <2> HIDE DEF S
  <2> QED BY <2>1, LeastExists
<1>3. Agree(t, ids, m)
  <2>1. CASE m = 0
    BY <2>1 DEF Agree
  <2>2. CASE m # 0
    <3>1. m - 1 \in Nat /\ m - 1 \notin S
      BY <1>2, <2>2
    <3>2. (m - 1) + 1 = m
      BY <2>2
    <3> QED BY <3>1, <3>2
  <2> QED BY <2>1, <2>2
<1>4. m \in 0 .. Length[t] /\ Agree(t, ids, m) /\ ~Agree(t, ids, m + 1)
  BY <1>1, <1>2, <1>3
<1> QED BY <1>4 DEF SharedPrefix

(* A parent is kept, and its ids are those of its items.                   *)
LEMMA ParentSound ==
  ASSUME TypeOK, Generations, Chains, HintSound, NEW t \in Traces, NEW c \in Parents(t)
  PROVE  /\ Kept(c[1]) /\ c[1] \in Traces /\ DOMAIN c[2] = Positions(c[1])
         /\ \A p \in Positions(c[1]) : Holds(c[2][p], Body[c[1]][p])
<1>1. CASE hint.trace # t /\ Usable(hint.trace)
  <2>1. c = <<hint.trace, hint.ids>> /\ Kept(hint.trace)
    BY <1>1, LiveIsKept DEF Parents, Usable
  <2>2. hint.trace \in Traces /\ DOMAIN hint.ids = Positions(hint.trace)
    BY <2>1 DEF Kept, TypeOK
  <2> QED BY <2>1, <2>2 DEF HintSound
<1>2. CASE ~(hint.trace # t /\ Usable(hint.trace))
  <2>1. PICK u \in Stored : /\ Newest(u, {w \in Stored : Live(w)})
                            /\ c = <<u, [p \in Positions(u) |-> ItemId(u, p)]>>
    BY <1>2 DEF Parents
  <2>2. Kept(u) /\ u \in Traces
    BY <2>1, LiveIsKept DEF Newest, TypeOK
  <2> QED BY <2>1, <2>2, ChainComplete
<1> QED BY <1>1, <1>2

(* What Insert writes: a row with its own items after those it shares with *)
(* a kept parent, and one blob for every item.                             *)
Writes(t, row) ==
  /\ rows' = [u \in Stored \union {t} |-> IF u = t THEN row ELSE rows[u]]
  /\ row.rowid = MaxRow + 1 /\ row.generation = generation
  /\ \A p \in Positions(t) : p > row.shared => row.items[p] = ItemIds(t)[p]
  /\ \A p \in Positions(t) : p <= row.shared =>
       /\ row.parent \in Traces /\ Kept(row.parent) /\ p \in Positions(row.parent)
       /\ Body[row.parent][p] = Body[t][p] /\ ItemIds(t)[p] \in DOMAIN blobs

LEMMA InsertedRow ==
  ASSUME TypeOK, RowsBounded, Generations, Chains, HintSound, NEW t \in Traces, Insert(t)
  PROVE  \E row \in Row(t) : Writes(t, row)
<1>1. \A p \in Positions(t) : ItemIds(t)[p] \in Nat
  BY IdSound DEF TypeOK
<1>2. MaxRow + 1 \in Nat \ {0} /\ generation \in Nat
  BY RowNumbers DEF TypeOK
<1>3. ASSUME NEW u, NEW k \in 0 .. Length[t], k > 0 => u \in Traces
      PROVE  /\ Manifest(t, u, k) \in Row(t)
             /\ Manifest(t, u, k).rowid = MaxRow + 1
             /\ Manifest(t, u, k).generation = generation
             /\ Manifest(t, u, k).shared = k
             /\ k > 0 => Manifest(t, u, k).parent = u
             /\ \A p \in Positions(t) : p > k => Manifest(t, u, k).items[p] = ItemIds(t)[p]
  <2>1. [p \in Positions(t) |-> IF p > k THEN ItemIds(t)[p] ELSE 0] \in [Positions(t) -> Nat]
    BY <1>1
  <2>2. (IF k > 0 THEN u ELSE NoTrace) \in Traces \union {NoTrace}
    BY <1>3
  <2> QED BY <1>2, <2>1, <2>2 DEF Manifest, Row
<1>4. ASSUME NEW c \in Parents(t),
             rows' = [u \in Stored \union {t} |->
                        IF u = t THEN Manifest(t, c[1], SharedPrefix(t, c[2])) ELSE rows[u]]
      PROVE  \E row \in Row(t) : Writes(t, row)
  <2> DEFINE k == SharedPrefix(t, c[2])
  <2>1. k \in 0 .. Length[t] /\ Agree(t, c[2], k)
    BY SharedSound
  <2>2. /\ Kept(c[1]) /\ c[1] \in Traces /\ DOMAIN c[2] = Positions(c[1])
        /\ \A p \in Positions(c[1]) : Holds(c[2][p], Body[c[1]][p])
    BY ParentSound
  <2> HIDE DEF k
  <2>3. ASSUME NEW p \in Positions(t), p <= k
        PROVE  /\ p \in Positions(c[1]) /\ Body[c[1]][p] = Body[t][p]
               /\ ItemIds(t)[p] \in DOMAIN blobs
    <3>1. p \in DOMAIN c[2] /\ c[2][p] = ItemIds(t)[p]
      BY <2>1, <2>3 DEF Agree, Positions
    <3>2. Holds(ItemIds(t)[p], Body[c[1]][p])
      BY <2>2, <3>1
    <3> QED BY <2>2, <3>1, <3>2, IdSound DEF Holds
  <2>4. \A p \in Positions(t) : p <= k => k > 0
    BY <2>1 DEF Positions
  <2> DEFINE row == Manifest(t, c[1], k)
  <2>5. /\ row \in Row(t) /\ row.rowid = MaxRow + 1 /\ row.generation = generation
        /\ row.shared = k /\ (k > 0 => row.parent = c[1])
        /\ \A p \in Positions(t) : p > k => row.items[p] = ItemIds(t)[p]
    BY <1>3, <2>1, <2>2
  <2>6. rows' = [u \in Stored \union {t} |-> IF u = t THEN row ELSE rows[u]]
    BY <1>4 DEF k
  <2> HIDE DEF row
  <2> QED BY <2>2, <2>3, <2>4, <2>5, <2>6 DEF Writes
<1>5. ASSUME rows' = [u \in Stored \union {t} |-> IF u = t THEN Manifest(t, NoTrace, 0) ELSE rows[u]]
      PROVE  \E row \in Row(t) : Writes(t, row)
  <2> DEFINE row == Manifest(t, NoTrace, 0)
  <2>1. /\ row \in Row(t) /\ row.rowid = MaxRow + 1 /\ row.generation = generation
        /\ row.shared = 0
        /\ \A p \in Positions(t) : p > 0 => row.items[p] = ItemIds(t)[p]
    BY <1>3
  <2>2. rows' = [u \in Stored \union {t} |-> IF u = t THEN row ELSE rows[u]]
    BY <1>5
  <2>3. \A p \in Positions(t) : ~(p <= 0)
    BY DEF Positions
  <2> HIDE DEF row
  <2> QED BY <2>1, <2>2, <2>3 DEF Writes
<1> QED BY <1>4, <1>5 DEF Insert

LEMMA InsertedBlobs ==
  ASSUME TypeOK, BlobsUnique, NEW t \in Traces, Insert(t)
  PROVE  /\ \A b \in DOMAIN blobs : b \in DOMAIN blobs' /\ blobs'[b] = blobs[b]
         /\ \A p \in Positions(t) :
              ItemIds(t)[p] \in DOMAIN blobs' /\ blobs'[ItemIds(t)[p]] = Body[t][p]
         /\ \A b \in DOMAIN blobs' \ DOMAIN blobs : \E p \in Positions(t) : b = ItemIds(t)[p]
         /\ DOMAIN blobs' \subseteq 1 .. nextBlob' - 1 /\ nextBlob' \in Nat \ {0}
         /\ BlobsUnique'
<1> DEFINE ids == {ItemIds(t)[p] : p \in Positions(t)}
           at(b) == CHOOSE p \in Positions(t) : ItemIds(t)[p] = b
<1>1. blobs' = [b \in DOMAIN blobs \union ids |->
                  IF b \in DOMAIN blobs THEN blobs[b] ELSE Body[t][at(b)]]
  BY DEF Insert
<1>2. ASSUME NEW p \in Positions(t), NEW q \in Positions(t),
             ItemIds(t)[p] \notin DOMAIN blobs, ItemIds(t)[q] = ItemIds(t)[p]
      PROVE  Body[t][p] = Body[t][q]
  <2>1. /\ ItemIds(t)[p] = nextBlob + FirstAt(t, Body[t][p]) - 1
        /\ ItemIds(t)[q] = nextBlob + FirstAt(t, Body[t][q]) - 1
    BY <1>2, IdSound
  <2>2. FirstAt(t, Body[t][p]) \in Nat /\ FirstAt(t, Body[t][q]) \in Nat /\ nextBlob \in Nat
    BY FirstAtSound DEF Positions, TypeOK
  <2>3. FirstAt(t, Body[t][p]) = FirstAt(t, Body[t][q])
    BY <1>2, <2>1, <2>2
  <2> QED BY <2>3, FirstAtSound
<1>3. ASSUME NEW p \in Positions(t)
      PROVE  ItemIds(t)[p] \in DOMAIN blobs' /\ blobs'[ItemIds(t)[p]] = Body[t][p]
  <2>1. CASE ItemIds(t)[p] \in DOMAIN blobs
    BY <1>1, <2>1, IdSound
  <2>2. CASE ItemIds(t)[p] \notin DOMAIN blobs
    <3>1. at(ItemIds(t)[p]) \in Positions(t) /\ ItemIds(t)[at(ItemIds(t)[p])] = ItemIds(t)[p]
      OBVIOUS
    <3> HIDE DEF at
    <3>2. Body[t][at(ItemIds(t)[p])] = Body[t][p]
      BY <1>2, <2>2, <3>1
    <3> QED BY <1>1, <2>2, <3>2
  <2> QED BY <2>1, <2>2
<1> HIDE DEF at
<1>4. \A b \in DOMAIN blobs : b \in DOMAIN blobs' /\ blobs'[b] = blobs[b]
  BY <1>1
<1>5. DOMAIN blobs' = DOMAIN blobs \union ids
  BY <1>1
<1>6. DOMAIN blobs' \subseteq 1 .. nextBlob' - 1 /\ nextBlob' \in Nat \ {0}
  BY <1>5, IdSound DEF Insert, TypeOK
<1>7. ASSUME NEW b \in DOMAIN blobs', NEW c \in DOMAIN blobs', blobs'[b] = blobs'[c]
      PROVE  b = c
  <2>1. CASE b \in DOMAIN blobs /\ c \in DOMAIN blobs
    BY <1>4, <1>7, <2>1 DEF BlobsUnique
  <2>2. ASSUME NEW e \in ids \ DOMAIN blobs
        PROVE  /\ e = nextBlob + FirstAt(t, blobs'[e]) - 1
               /\ \A d \in DOMAIN blobs : blobs'[d] # blobs'[e]
    <3>1. PICK p \in Positions(t) : e = ItemIds(t)[p]
      BY <2>2
    <3> QED BY <1>3, <1>4, <2>2, <3>1, IdSound
  <2> QED BY <1>5, <1>7, <2>1, <2>2
<1> QED BY <1>3, <1>4, <1>5, <1>6, <1>7 DEF BlobsUnique

(* The hint an insert leaves is sound for a row that is there, and an item *)
(* that its row shares is in the blobs already.                            *)
LEMMA InsertKeeps ==
  ASSUME IInv, NEW t \in Traces, Insert(t)
  PROVE  IInv'
<1> USE DEF IInv
<1>1. PICK row \in Row(t) :
        /\ rows' = [u \in Stored \union {t} |-> IF u = t THEN row ELSE rows[u]]
        /\ row.rowid = MaxRow + 1 /\ row.generation = generation
        /\ \A p \in Positions(t) : p > row.shared => row.items[p] = ItemIds(t)[p]
        /\ \A p \in Positions(t) : p <= row.shared =>
             /\ row.parent \in Traces /\ Kept(row.parent) /\ p \in Positions(row.parent)
             /\ Body[row.parent][p] = Body[t][p] /\ ItemIds(t)[p] \in DOMAIN blobs
  BY InsertedRow DEF Writes
<1>2. /\ t \notin Stored /\ Stored' = Stored \union {t} /\ rows'[t] = row
      /\ \A u \in Stored : rows'[u] = rows[u]
  <2>1. t \notin Stored
    BY DEF Insert, Accepts
  <2> QED BY <1>1, <2>1 DEF Stored
<1>3. /\ \A b \in DOMAIN blobs : b \in DOMAIN blobs' /\ blobs'[b] = blobs[b]
      /\ \A p \in Positions(t) :
           ItemIds(t)[p] \in DOMAIN blobs' /\ blobs'[ItemIds(t)[p]] = Body[t][p]
      /\ \A b \in DOMAIN blobs' \ DOMAIN blobs : \E p \in Positions(t) : b = ItemIds(t)[p]
      /\ DOMAIN blobs' \subseteq 1 .. nextBlob' - 1 /\ nextBlob' \in Nat \ {0}
      /\ BlobsUnique'
  BY InsertedBlobs
<1>4. /\ UNCHANGED <<generation, cutoff, marker, gc, captured, drain, read, bound>>
      /\ hint' = [trace |-> t, ids |-> ItemIds(t)]
  BY DEF Insert, state, purges, drainVars
<1>5. TypeOK'
  <2>1. \A u \in Stored' : rows'[u] \in Row(u)
    BY <1>1, <1>2 DEF TypeOK
  <2>2. ItemIds(t) \in [Positions(t) -> Nat \ {0}]
    BY IdSound DEF ItemIds, TypeOK
  <2>3. hint'.trace \in Traces /\ hint'.ids \in [Positions(hint'.trace) -> Nat \ {0}]
    BY <1>4, <2>2
  <2>4. Stored' \subseteq Traces
    BY <1>2 DEF TypeOK
  <2> QED BY <1>3, <1>4, <2>1, <2>3, <2>4 DEF TypeOK
<1>6. RowsBounded'
  <2>1. MaxRow \in Nat /\ \A u \in Stored : rows[u].rowid <= MaxRow /\ rows[u].rowid \in Nat
    BY RowNumbers DEF TypeOK, Row
  <2>2. MaxRow + 1 \in Nat /\ \A u \in Stored' : rows'[u].rowid <= MaxRow + 1
    BY <1>1, <1>2, <2>1
  <2> QED BY <2>2 DEF RowsBounded
<1>7. Generations'
  BY <1>1, <1>2, <1>4 DEF Generations, Cleared, TypeOK
<1>8. \A u \in Traces : u # t => (Kept(u)' <=> Kept(u))
  BY <1>2, <1>4 DEF Kept
<1>9. Chains'
  <2> SUFFICES ASSUME NEW u \in Traces, Kept(u)', NEW p \in Positions(u) PROVE Link(u, p)'
    BY DEF Chains
  <2>1. CASE u = t
    <3>1. CASE p > row.shared
      BY <1>1, <1>2, <1>3, <2>1, <3>1 DEF Link, Holds
    <3>2. CASE ~(p > row.shared)
      <4> DEFINE v == row.parent
      <4>1. p <= row.shared
        BY <3>2 DEF Row, Positions
      <4>2. /\ v \in Traces /\ Kept(v) /\ p \in Positions(v) /\ Body[v][p] = Body[t][p]
        BY <1>1, <2>1, <4>1
      <4>3. v # t /\ v \in Stored /\ v # NoTrace /\ rows'[v] = rows[v] /\ Kept(v)'
        BY <1>2, <1>8, <4>2 DEF Kept
      <4>4. rows[v].rowid < row.rowid
        <5>1. rows[v].rowid \in Nat
          BY <4>3 DEF TypeOK, Row
        <5> QED BY <1>1, <4>3, <5>1, RowNumbers
      <4> HIDE DEF v
      <4>5. rows'[u].parent = v /\ rows'[u].shared = row.shared /\ rows'[u].rowid = row.rowid
        BY <1>2, <2>1 DEF v
      <4> QED BY <2>1, <3>2, <4>2, <4>3, <4>4, <4>5 DEF Link
    <3> QED BY <3>1, <3>2
  <2>2. CASE u # t
    <3>1. Kept(u) /\ Link(u, p) /\ rows'[u] = rows[u]
      BY <1>2, <1>8, <2>2 DEF Chains, Kept
    <3>2. CASE p > rows[u].shared
      BY <1>3, <3>1, <3>2 DEF Link, Holds
    <3>3. CASE ~(p > rows[u].shared)
      <4>1. Kept(rows[u].parent) /\ rows[u].parent \in Traces
        BY <3>1, <3>3 DEF Link, Kept, TypeOK
      <4>2. rows[u].parent # t
        BY <1>2, <4>1 DEF Kept
      <4> QED BY <1>2, <1>8, <3>1, <3>3, <4>1, <4>2 DEF Link, Kept
    <3> QED BY <3>2, <3>3
  <2> QED BY <2>1, <2>2
<1>10. HintSound'
  BY <1>3, <1>4 DEF HintSound, Holds
<1>11. GarbageIsMarked'
  <2> SUFFICES ASSUME NEW b \in DOMAIN blobs', b \notin Referenced'
               PROVE  gc.on /\ gc.cursor < b /\ b <= gc.max
    BY <1>4 DEF GarbageIsMarked
  <2>1. b \in DOMAIN blobs
    <3> SUFFICES ASSUME b \notin DOMAIN blobs PROVE FALSE
      OBVIOUS
    <3>1. PICK p \in Positions(t) : b = ItemIds(t)[p]
      BY <1>3
    <3>2. p > row.shared
      BY <1>1, <3>1 DEF Row, Positions
    <3>3. b = rows'[t].items[p] /\ t \in Stored'
      BY <1>1, <1>2, <3>1, <3>2
    <3> QED BY <3>3 DEF Referenced
  <2>2. b \notin Referenced
    BY <1>2 DEF Referenced
  <2> QED BY <2>1, <2>2 DEF GarbageIsMarked
<1> QED BY <1>3, <1>5, <1>6, <1>7, <1>9, <1>10, <1>11

(* A transaction that deletes rows which are not kept.                     *)
LEMMA DeleteKeeps ==
  ASSUME IInv, NEW S, S \subseteq Stored, DeleteRows(S), \A t \in S : ~Kept(t),
         UNCHANGED <<generation, cutoff, blobs, nextBlob, captured, hint>>
  PROVE  /\ Stored' = Stored \ S /\ \A t \in Stored' : rows'[t] = rows[t]
         /\ \A t : Kept(t)' <=> Kept(t)
         /\ gc' \in [on : BOOLEAN, max : Nat, cursor : Nat]
         /\ RowsBounded' /\ BlobsUnique' /\ Chains' /\ HintSound' /\ GarbageIsMarked'
<1> USE DEF IInv
<1>1. Stored' = Stored \ S /\ \A t \in Stored' : rows'[t] = rows[t]
  BY DEF DeleteRows, Without, Stored
<1>2. gc' \in [on : BOOLEAN, max : Nat, cursor : Nat]
  BY MarkedSound DEF DeleteRows, TypeOK
<1>3. \A t : Kept(t)' <=> Kept(t)
  BY <1>1 DEF Kept
<1>4. RowsBounded'
  BY <1>1 DEF RowsBounded
<1>5. Chains'
  <2>1. \A t \in Traces : Kept(t)' => Kept(t) /\ rows'[t] = rows[t]
    BY <1>1, <1>3 DEF Kept
  <2>2. \A t \in Traces : Kept(t)' => \A p \in Positions(t) :
           p > rows[t].shared /\ Holds(rows[t].items[p], Body[t][p]) =>
             Holds(rows[t].items[p], Body[t][p])'
    BY <2>1 DEF Holds
  <2> QED BY <1>3, <2>1, <2>2, ChainsFrame DEF TypeOK
<1>6. HintSound' /\ BlobsUnique'
  BY <1>3 DEF HintSound, Holds, BlobsUnique
<1>7. GarbageIsMarked'
  <2>1. CASE S = {}
    <3>1. Referenced' = Referenced /\ gc' = gc
      BY <1>1, <2>1 DEF Referenced, DeleteRows
    <3> QED BY <3>1 DEF GarbageIsMarked
  <2>2. CASE S # {}
    BY <2>2, MarkedSound DEF DeleteRows, GarbageIsMarked
  <2> QED BY <2>1, <2>2
<1> QED BY <1>1, <1>2, <1>3, <1>4, <1>5, <1>6, <1>7

LEMMA ClearBatchKeeps ==
  ASSUME IInv, ClearBatch
  PROVE  /\ IInv'
         /\ \A t \in Stored : t \notin Stored' => rows[t].generation < generation
         /\ \A t : Kept(t)' <=> Kept(t)
<1> USE DEF IInv
<1> DEFINE doomed == {t \in Stored : Cleared(t, read)}
<1>1. PICK S \in Batch(doomed) :
        /\ DeleteRows(S)
        /\ marker' = MarkerAfter(Cardinality(S) < BatchRows)
        /\ drain' = IF Cardinality(S) < BatchRows THEN "cutoff" ELSE "clear"
  BY DEF ClearBatch
<1>2. S \subseteq doomed /\ (Cardinality(S) < BatchRows => S = doomed)
  BY DEF Batch
<1>3. /\ read' = NoMarker
      /\ UNCHANGED <<generation, cutoff, blobs, nextBlob, captured, hint, bound>>
  BY DEF ClearBatch, state
<1>4. \A t \in doomed : rows[t].generation < generation
  BY DEF Cleared, Generations, TypeOK, Row
<1>5. \A t \in S : ~Kept(t)
  BY <1>2, <1>4 DEF Kept, TypeOK
<1>6. /\ Stored' = Stored \ S /\ \A t \in Stored' : rows'[t] = rows[t]
      /\ \A t : Kept(t)' <=> Kept(t)
      /\ gc' \in [on : BOOLEAN, max : Nat, cursor : Nat]
      /\ RowsBounded' /\ BlobsUnique' /\ Chains' /\ HintSound' /\ GarbageIsMarked'
  BY <1>1, <1>2, <1>3, <1>5, DeleteKeeps
<1>7. marker' = marker \/ (marker' = NoMarker /\ S = doomed /\ marker = read)
  BY <1>1, <1>2 DEF MarkerAfter
<1>8. TypeOK'
  BY <1>1, <1>3, <1>6, <1>7 DEF TypeOK, NoMarker, Drains, Row
<1>9. Generations'
  <2>1. ASSUME NEW t \in Stored'
        PROVE  /\ rows'[t].generation <= generation'
               /\ rows'[t].generation < generation' => Cleared(t, marker)'
    <3>1. /\ t \in Stored /\ t \notin S /\ rows'[t] = rows[t]
          /\ rows[t].generation <= generation
          /\ rows[t].generation < generation => Cleared(t, marker)
      BY <1>6 DEF Generations
    <3> QED BY <1>3, <1>7, <3>1 DEF Cleared
  <2>2. NoMarker.generation = 0 /\ generation \in Nat
    BY DEF NoMarker, TypeOK
  <2> QED BY <1>3, <1>7, <2>1, <2>2 DEF Generations
<1> QED BY <1>2, <1>4, <1>6, <1>8, <1>9

LEMMA RetentionBatchKeeps ==
  ASSUME IInv, RetentionBatch
  PROVE  /\ IInv' /\ \A t \in Stored : t \notin Stored' => Created[t] < cutoff
         /\ \A t : Kept(t)' <=> Kept(t)
<1> USE DEF IInv
<1> DEFINE doomed == {t \in Stored : Created[t] < bound}
<1>1. PICK S \in Batch(doomed) :
        /\ DeleteRows(S)
        /\ IF Cardinality(S) < BatchRows
           THEN drain' = "sweep" /\ bound' = 0
           ELSE UNCHANGED <<drain, bound>>
  BY DEF RetentionBatch
<1>2. S \subseteq doomed
  BY DEF Batch
<1>3. UNCHANGED <<generation, cutoff, marker, blobs, nextBlob, captured, hint, read>>
  BY DEF RetentionBatch, state
<1>4. \A t \in doomed : Created[t] < cutoff
  BY DEF Generations, TypeOK
<1>5. \A t \in S : ~Kept(t)
  BY <1>2, <1>4 DEF Kept, TypeOK
<1>6. /\ Stored' = Stored \ S /\ \A t \in Stored' : rows'[t] = rows[t]
      /\ \A t : Kept(t)' <=> Kept(t)
      /\ gc' \in [on : BOOLEAN, max : Nat, cursor : Nat]
      /\ RowsBounded' /\ BlobsUnique' /\ Chains' /\ HintSound' /\ GarbageIsMarked'
  BY <1>1, <1>2, <1>3, <1>5, DeleteKeeps
<1>7. (bound' = bound /\ drain' = drain) \/ (bound' = 0 /\ drain' = "sweep")
  BY <1>1
<1>8. TypeOK'
  BY <1>3, <1>6, <1>7 DEF TypeOK, Drains, Row
<1>9. Generations'
  BY <1>3, <1>6, <1>7 DEF Generations, Cleared, TypeOK
<1> QED BY <1>2, <1>4, <1>6, <1>8, <1>9

-----------------------------------------------------------------------------
(* Clearing and pruning.                                                   *)

LEMMA ClearKeeps ==
  ASSUME IInv, Clear
  PROVE  IInv' /\ Stored' = Stored
<1> USE DEF IInv
<1>1. /\ generation' = generation + 1 /\ gc' = Marked
      /\ marker' = IF Stored = {} THEN marker
                   ELSE [max |-> IF marker.max > MaxRow THEN marker.max ELSE MaxRow,
                         generation |-> generation + 1]
      /\ UNCHANGED <<cutoff, rows, blobs, nextBlob, captured, hint, drain, read, bound>>
  BY DEF Clear, tables, drainVars
<1>2. MaxRow \in Nat /\ \A t \in Stored : rows[t].rowid <= MaxRow
  BY RowNumbers
<1>3. TypeOK'
  BY <1>1, <1>2, MarkedSound DEF TypeOK, Row, Stored
<1>4. \A t : ~Kept(t)'
  BY <1>1 DEF Kept, Generations, TypeOK, Stored
<1>5. Generations'
  <2>1. ASSUME NEW t \in Stored
        PROVE  /\ rows[t].generation <= generation + 1
               /\ rows[t].generation < generation + 1 => Cleared(t, marker)'
    <3>1. rows[t].generation \in Nat /\ rows[t].rowid \in Nat /\ generation \in Nat
      BY DEF TypeOK, Row
    <3>2. rows[t].generation <= generation
      BY DEF Generations
    <3>3. marker'.generation = generation + 1 /\ rows[t].rowid <= marker'.max
      BY <1>1, <1>2, <3>1 DEF TypeOK
    <3> QED BY <1>1, <3>1, <3>2, <3>3 DEF Cleared
  <2>2. marker'.generation <= generation + 1 /\ read.generation <= generation + 1
    BY <1>1 DEF Generations, TypeOK
  <2>3. \A t \in Traces : captured[t] <= generation + 1
    BY DEF Generations, TypeOK
  <2>4. bound <= cutoff
    BY DEF Generations
  <2> QED BY <1>1, <2>1, <2>2, <2>3, <2>4 DEF Generations, Stored
<1>6. RowsBounded' /\ BlobsUnique' /\ Chains' /\ HintSound'
  BY <1>1, <1>4 DEF RowsBounded, BlobsUnique, Chains, HintSound, Stored
<1>7. GarbageIsMarked'
  BY <1>1, MarkedSound DEF GarbageIsMarked, Referenced, Stored
<1> QED BY <1>1, <1>3, <1>5, <1>6, <1>7 DEF Stored

(* A survivor gets its own copy of every item; the parents of the others   *)
(* are as young as the cutoff.                                             *)
LEMMA PruneKeeps ==
  ASSUME IInv, NEW c \in Cutoffs, Prune(c)
  PROVE  IInv' /\ Stored' = Stored
<1> USE DEF IInv
<1>1. /\ cutoff' = (IF c > cutoff THEN c ELSE cutoff) /\ gc' = Marked
      /\ rows' = [t \in Stored |-> IF t \in Survivors(c) THEN Materialized(t) ELSE rows[t]]
      /\ UNCHANGED <<generation, marker, blobs, nextBlob, captured, hint, drain, read, bound>>
  BY DEF Prune, drainVars
<1>2. c \in Nat /\ cutoff \in Nat /\ cutoff' \in Nat /\ cutoff <= cutoff' /\ c <= cutoff'
  <2>1. c \in Nat
    OBVIOUS
  <2>2. cutoff \in Nat
    BY DEF TypeOK
  <2>3. cutoff' = IF c > cutoff THEN c ELSE cutoff
    BY <1>1
  <2> HIDE DEF IInv
  <2> QED BY <2>1, <2>2, <2>3
<1>3. Stored' = Stored /\ Stored \subseteq Traces
  BY <1>1 DEF TypeOK, Stored
<1>4. ASSUME NEW t \in Stored
      PROVE  /\ rows'[t] \in Row(t)
             /\ rows'[t].rowid = rows[t].rowid /\ rows'[t].generation = rows[t].generation
  <2>1. rows[t] \in Row(t) /\ t \in Traces
    BY DEF TypeOK
  <2>2. Materialized(t) \in Row(t) /\ Materialized(t).rowid = rows[t].rowid
        /\ Materialized(t).generation = rows[t].generation
    <3>1. Resolves(t) => [p \in Positions(t) |-> ItemId(t, p)] \in [Positions(t) -> Nat]
      BY DEF Resolves
    <3>2. (IF Resolves(t) THEN [p \in Positions(t) |-> ItemId(t, p)] ELSE rows[t].items)
            \in [Positions(t) -> Nat]
      BY <2>1, <3>1 DEF Row
    <3>3. 0 \in 0 .. Length[t]
      BY <2>1
    <3> QED BY <2>1, <3>2, <3>3 DEF Materialized, Row
  <2> QED BY <1>1, <2>1, <2>2
<1>5. TypeOK'
  BY <1>1, <1>2, <1>3, <1>4, MarkedSound DEF TypeOK
<1>6. RowsBounded' /\ BlobsUnique'
  BY <1>1, <1>3, <1>4 DEF RowsBounded, BlobsUnique
<1>7. Generations'
  <2>1. \A t \in Stored : Cleared(t, marker)' <=> Cleared(t, marker)
    BY <1>1, <1>4 DEF Cleared
  <2>2. bound <= cutoff'
    BY <1>2 DEF Generations, TypeOK
  <2> QED BY <1>1, <1>3, <1>4, <2>1, <2>2 DEF Generations
<1>8. \A t \in Traces : Kept(t)' <=> Kept(t) /\ Created[t] >= cutoff'
  BY <1>1, <1>2, <1>3, <1>4 DEF Kept
<1>9. HintSound'
  <2>1. Kept(hint.trace)' => Kept(hint.trace)
    BY <1>1, <1>3, <1>8 DEF Kept, Stored
  <2> QED BY <1>1, <2>1 DEF HintSound, Holds
<1>10. ASSUME NEW t \in Traces, Kept(t)', NEW p \in Positions(t)
       PROVE  Link(t, p)'
  <2>1. Kept(t) /\ t \in Stored /\ Link(t, p) /\ Created[t] >= c
    BY <1>2, <1>8, <1>10 DEF Chains, Kept
  <2>2. CASE t \in Survivors(c)
    <3>1. rows'[t] = Materialized(t) /\ Resolves(t)
      BY <1>1, <2>1, <2>2, KeptResolves
    <3>2. rows'[t].shared = 0 /\ rows'[t].items[p] = ItemId(t, p) /\ p > 0
      BY <2>1, <3>1 DEF Materialized, TypeOK, Row, Positions
    <3>3. Holds(ItemId(t, p), Body[t][p])
      BY <2>1, ChainComplete
    <3> QED BY <1>1, <3>2, <3>3 DEF Link, Holds
  <2>3. CASE t \notin Survivors(c)
    <3>1. rows'[t] = rows[t]
      BY <1>1, <2>1, <2>3
    <3>2. CASE p > rows[t].shared
      BY <1>1, <2>1, <3>1, <3>2 DEF Link, Holds
    <3>3. CASE ~(p > rows[t].shared)
      <4>1. PICK u \in Traces :
              /\ u = rows[t].parent /\ u # NoTrace /\ Kept(u) /\ u \in Stored
              /\ p \in Positions(u) /\ Body[u][p] = Body[t][p] /\ rows[u].rowid < rows[t].rowid
        BY <1>3, <2>1, <3>3 DEF Link, Kept
      <4>2. Created[u] >= c
        BY <1>2, <2>1, <2>3, <4>1 DEF Survivors
      <4>3. Kept(u)'
        BY <1>1, <1>8, <4>1, <4>2 DEF Kept
      <4>4. rows'[u].rowid = rows[u].rowid
        BY <1>4, <4>1
      <4> QED BY <3>1, <3>3, <4>1, <4>3, <4>4 DEF Link
    <3> QED BY <3>2, <3>3
  <2> QED BY <2>2, <2>3
<1>11. Chains'
  BY <1>10 DEF Chains
<1>12. GarbageIsMarked'
  BY <1>1, MarkedSound DEF GarbageIsMarked
<1> QED BY <1>3, <1>5, <1>6, <1>7, <1>9, <1>11, <1>12

-----------------------------------------------------------------------------
(* The sweep keeps what an item of a row, or the cached manifest, needs.   *)

LEMMA SweepKeeps ==
  ASSUME IInv, SweepBatch
  PROVE  IInv' /\ Stored' = Stored /\ \A t : Kept(t)' <=> Kept(t)
<1> USE DEF IInv
<1>1. UNCHANGED <<generation, cutoff, marker, rows, nextBlob, captured, hint, read, bound>>
  BY DEF SweepBatch, state
<1>2. Stored' = Stored /\ Referenced' = Referenced /\ \A t : Kept(t)' <=> Kept(t)
  BY <1>1 DEF Stored, Referenced, Kept
<1>3. ASSUME ~gc.on \/ InSweep = {}, SweepEnd
      PROVE  IInv'
  <2>1. blobs' = blobs /\ drain' \in Drains
    BY <1>3 DEF SweepEnd, Drains
  <2>2. gc' \in [on : BOOLEAN, max : Nat, cursor : Nat]
    BY <1>3 DEF SweepEnd, NoSweep, TypeOK
  <2>3. TypeOK'
    BY <1>1, <1>2, <2>1, <2>2 DEF TypeOK
  <2>4. GarbageIsMarked'
    <3>1. DOMAIN blobs \subseteq Referenced
      BY <1>3 DEF GarbageIsMarked, InSweep
    <3> QED BY <1>2, <2>1, <3>1 DEF GarbageIsMarked
  <2> QED BY <1>1, <1>2, <2>1, <2>3, <2>4
      DEF RowsBounded, Generations, Cleared, BlobsUnique, Chains, Link, Holds, HintSound, Kept
<1>4. ASSUME NEW ids \in SUBSET InSweep, gc.on, ids # {},
             \A b \in ids, c \in InSweep \ ids : b < c,
             blobs' = [b \in DOMAIN blobs \ (ids \ Referenced) |-> blobs[b]],
             gc' = [gc EXCEPT !.cursor = CHOOSE b \in ids : \A c \in ids : c <= b],
             UNCHANGED drain
      PROVE  IInv'
  <2>1. DOMAIN blobs' \subseteq DOMAIN blobs /\ \A b \in DOMAIN blobs' : blobs'[b] = blobs[b]
    BY <1>4
  <2>2. \A b \in DOMAIN blobs : b \in Referenced => b \in DOMAIN blobs'
    BY <1>4
  <2>3. PICK last \in ids : (\A c \in ids : c <= last) /\ gc' = [gc EXCEPT !.cursor = last]
    <3>1. ids \subseteq Nat /\ gc.max \in Nat /\ \A b \in ids : b <= gc.max
      BY BlobNumbers DEF InSweep, TypeOK
    <3>2. \E m \in ids : \A n \in ids : n <= m
      BY <1>4, <3>1, GreatestExists
    <3> QED BY <1>4, <3>2
  <2>4. last \in Nat /\ last \in DOMAIN blobs /\ last <= gc.max
    BY BlobNumbers DEF InSweep
  <2>5. TypeOK'
    <3>1. gc' \in [on : BOOLEAN, max : Nat, cursor : Nat]
      BY <2>3, <2>4 DEF TypeOK
    <3> QED BY <1>1, <1>2, <1>4, <2>1, <3>1 DEF TypeOK
  <2>6. ASSUME NEW t \in Traces, Kept(t), NEW p \in Positions(t), NEW id,
               Holds(id, Body[t][p])
        PROVE  Holds(id, Body[t][p])'
    <3>1. PICK u \in Stored : p \in Positions(u) /\ ItemId(t, p) = rows[u].items[p]
      BY <2>6, ChainComplete
    <3>2. ItemId(t, p) \in Referenced
      BY <3>1 DEF Referenced
    <3>3. Holds(ItemId(t, p), Body[t][p])
      BY <2>6, ChainComplete
    <3>4. id = ItemId(t, p)
      BY <2>6, <3>3 DEF BlobsUnique, Holds
    <3> QED BY <2>1, <2>2, <2>6, <3>2, <3>4 DEF Holds
  <2>7. Chains'
    <3>1. \A t \in Traces : Kept(t)' => \A p \in Positions(t) :
            p > rows[t].shared /\ Holds(rows[t].items[p], Body[t][p]) =>
              Holds(rows[t].items[p], Body[t][p])'
      <4> SUFFICES ASSUME NEW t \in Traces, Kept(t)', NEW p \in Positions(t),
                          Holds(rows[t].items[p], Body[t][p])
                   PROVE  Holds(rows[t].items[p], Body[t][p])'
        OBVIOUS
      <4>1. Holds(rows[t].items[p], Body[t][p])' <=>
              (rows[t].items[p] \in DOMAIN blobs' /\ blobs'[rows[t].items[p]] = Body[t][p])
        BY <1>1 DEF Holds
      <4> DEFINE id == rows[t].items[p]
      <4>2. PICK i : i = id
        OBVIOUS
      <4>3. Holds(i, Body[t][p])'
        BY <1>2, <2>6, <4>2
      <4> QED BY <4>1, <4>2, <4>3 DEF Holds
    <3>2. \A t \in Traces : Kept(t)' => Kept(t) /\ rows'[t] = rows[t]
      BY <1>1, <1>2
    <3> QED BY <1>2, <3>1, <3>2, ChainsFrame DEF TypeOK
  <2>8. HintSound'
    <3> SUFFICES ASSUME Kept(hint.trace)', NEW p \in Positions(hint.trace)
                 PROVE  Holds(hint.ids[p], Body[hint.trace][p])'
      BY <1>1 DEF HintSound
    <3>1. Kept(hint.trace) /\ hint.trace \in Traces
      BY <1>1, <1>2 DEF Kept, Stored, TypeOK
    <3>2. PICK i : i = hint.ids[p]
      OBVIOUS
    <3>3. PICK t \in Traces : t = hint.trace
      BY <3>1
    <3>4. Holds(i, Body[t][p])
      BY <3>1, <3>2, <3>3 DEF HintSound
    <3>5. Holds(i, Body[t][p])'
      BY <2>6, <3>1, <3>3, <3>4
    <3> QED BY <1>1, <3>2, <3>3, <3>5 DEF Holds
  <2>9. GarbageIsMarked'
    <3> SUFFICES ASSUME NEW b \in DOMAIN blobs', b \notin Referenced
                 PROVE  gc.on /\ last < b /\ b <= gc.max
      BY <1>2, <2>3 DEF GarbageIsMarked, TypeOK
    <3>1. gc.on /\ gc.cursor < b /\ b <= gc.max /\ b \in DOMAIN blobs
      BY <2>1 DEF GarbageIsMarked
    <3>2. b \in InSweep \ ids
      BY <1>4, <3>1 DEF InSweep
    <3> QED BY <1>4, <3>1, <3>2
  <2>10. RowsBounded' /\ Generations' /\ BlobsUnique'
    BY <1>1, <1>2, <2>1 DEF RowsBounded, Generations, Cleared, BlobsUnique
  <2> QED BY <2>5, <2>7, <2>8, <2>9, <2>10
<1> QED BY <1>2, <1>3, <1>4 DEF SweepBatch

LEMMA OtherStepsKeep ==
  ASSUME IInv,
         \/ UNCHANGED vars \/ StartDrain \/ ReadMarker \/ ReadCutoff \/ StopDrain \/ Restart
         \/ \E t \in Traces : Capture(t) \/ InsertRolledBack(t)
  PROVE  IInv' /\ Stored' = Stored
<1> USE DEF IInv
<1>1. UNCHANGED <<generation, cutoff, marker, gc, rows, blobs, nextBlob>>
  BY DEF vars, StartDrain, ReadMarker, ReadCutoff, StopDrain, Restart, Capture,
         InsertRolledBack, state, purges, tables
<1>2. /\ drain' \in Drains /\ read' \in {read, marker, NoMarker} /\ bound' \in {bound, cutoff, 0}
  BY DEF vars, StartDrain, ReadMarker, ReadCutoff, StopDrain, Restart, Capture,
         InsertRolledBack, drainVars, TypeOK, Drains
<1>3. captured' \in [Traces -> Nat \union {-1}]
  BY DEF vars, StartDrain, ReadMarker, ReadCutoff, StopDrain, Restart, Capture,
         InsertRolledBack, TypeOK
<1>4. /\ hint'.trace \in Traces \union {NoTrace}
      /\ hint'.trace # NoTrace => hint'.ids \in [Positions(hint'.trace) -> Nat \ {0}]
      /\ HintSound'
  <2>1. CASE hint' = hint
    BY <1>1, <2>1 DEF TypeOK, HintSound, Kept, Stored, Holds
  <2>2. CASE Restart
    <3>1. hint' = NoHint /\ NoHint.trace = NoTrace
      BY <2>2 DEF Restart, NoHint
    <3> QED BY <1>1, <3>1 DEF HintSound, Kept, Stored, TypeOK
  <2>3. ASSUME NEW t \in Traces, InsertRolledBack(t)
        PROVE  <1>4!1 /\ <1>4!2 /\ <1>4!3
    <3>1. hint' = [trace |-> t, ids |-> ItemIds(t)] /\ t \notin Stored
      BY <2>3 DEF InsertRolledBack, Accepts
    <3>2. ItemIds(t) \in [Positions(t) -> Nat \ {0}]
      BY IdSound DEF ItemIds, TypeOK
    <3> QED BY <1>1, <3>1, <3>2 DEF HintSound, Kept, Stored
  <2> QED BY <2>1, <2>2, <2>3
      DEF vars, StartDrain, ReadMarker, ReadCutoff, StopDrain, Capture
<1>5. TypeOK'
  BY <1>1, <1>2, <1>3, <1>4 DEF TypeOK, Stored, NoMarker
<1>6. Stored' = Stored /\ RowsBounded' /\ BlobsUnique' /\ Chains' /\ GarbageIsMarked'
  BY <1>1 DEF Stored, RowsBounded, BlobsUnique, Chains, Link, Holds, Kept, GarbageIsMarked, Referenced
<1>7. Generations'
  <2>1. \A t \in Traces : captured'[t] <= generation
    BY DEF vars, StartDrain, ReadMarker, ReadCutoff, StopDrain, Restart, Capture,
           InsertRolledBack, Generations, TypeOK
  <2> QED BY <1>1, <1>2, <2>1 DEF Generations, Cleared, Stored, NoMarker, TypeOK
<1> QED BY <1>4, <1>5, <1>6, <1>7

-----------------------------------------------------------------------------
LEMMA InitEstablishes ==
  ASSUME Init
  PROVE  IInv
<1>1. Stored = {} /\ DOMAIN blobs = {}
  BY DEF Init, Stored
<1>2. TypeOK
  BY <1>1 DEF Init, TypeOK, NoMarker, NoSweep, NoHint, Drains
<1>3. RowsBounded /\ BlobsUnique /\ GarbageIsMarked
  BY <1>1 DEF RowsBounded, BlobsUnique, GarbageIsMarked
<1>4. Generations
  BY <1>1 DEF Init, Generations, NoMarker
<1>5. Chains /\ HintSound
  BY <1>1 DEF Chains, HintSound, Kept
<1> QED BY <1>2, <1>3, <1>4, <1>5 DEF IInv

LEMMA StepKeeps ==
  ASSUME IInv, [Next]_vars
  PROVE  /\ IInv'
         /\ \A t \in Stored : t \notin Stored' => rows[t].generation < generation \/ Created[t] < cutoff
<1>1. CASE \E t \in Traces : Insert(t)
  <2>1. PICK t \in Traces : Insert(t)
    BY <1>1
  <2>2. Stored \subseteq Stored'
    BY <2>1 DEF Insert, Stored
  <2> QED BY <2>1, <2>2, InsertKeeps
<1>2. CASE Clear
  BY <1>2, ClearKeeps
<1>3. CASE \E c \in Cutoffs : Prune(c)
  BY <1>3, PruneKeeps
<1>4. CASE ClearBatch
  BY <1>4, ClearBatchKeeps
<1>5. CASE RetentionBatch
  BY <1>5, RetentionBatchKeeps
<1>6. CASE SweepBatch
  BY <1>6, SweepKeeps
<1>7. CASE \/ UNCHANGED vars \/ StartDrain \/ ReadMarker \/ ReadCutoff \/ StopDrain \/ Restart
           \/ \E t \in Traces : Capture(t) \/ InsertRolledBack(t)
  BY <1>7, OtherStepsKeep
<1> QED BY <1>1, <1>2, <1>3, <1>4, <1>5, <1>6, <1>7 DEF Next, DrainStep

(* The inductive invariant holds of every behaviour.                       *)
THEOREM PurgeInvariant == Spec => []IInv
<1>1. Init => IInv
  BY InitEstablishes
<1>2. IInv /\ [Next]_vars => IInv'
  BY StepKeeps
<1> QED BY <1>1, <1>2, PTL DEF Spec

(* The variables keep the types of the tables.                             *)
THEOREM PurgeTypeCorrect == Spec => []TypeOK
<1>1. IInv => TypeOK
  BY DEF IInv
<1> QED BY <1>1, PurgeInvariant, PTL

(* A row written before a clear is never seen again, however many clears,  *)
(* batches and restarts there are.                                         *)
THEOREM ClearedStayHidden == Spec => []ClearedStaysHidden
<1>1. IInv => ClearedStaysHidden
  BY DEF IInv, Generations, ClearedStaysHidden, Live
<1> QED BY <1>1, PurgeInvariant, PTL

(* Every body a reader can see resolves to blobs that hold its items.      *)
THEOREM BodiesStayComplete == Spec => []LiveBodiesComplete
<1>1. IInv => LiveBodiesComplete
  BY LiveComplete DEF IInv
<1> QED BY <1>1, PurgeInvariant, PTL

(* The sweep has every blob that nobody refers to still ahead.             *)
THEOREM SweepMissesNothing == Spec => []GarbageIsMarked
<1>1. IInv => GarbageIsMarked
  BY DEF IInv
<1> QED BY <1>1, PurgeInvariant, PTL

(* Only rows that a clear or a prune has doomed are deleted.               *)
THEOREM DoomedOnly == Spec => OnlyDoomedDeleted
<1>1. IInv /\ [Next]_vars =>
        [\A t \in Stored : t \notin DOMAIN rows' =>
           rows[t].generation < generation \/ Created[t] < cutoff]_vars
  BY StepKeeps DEF Stored
<1> QED BY <1>1, PurgeInvariant, PTL DEF Spec, OnlyDoomedDeleted

-----------------------------------------------------------------------------
(* The promise to a reader.                                                *)

Visible == {u \in Traces : Kept(u)}

LEMMA SeenIsBodies == IInv => SeenBodies = [t \in Visible |-> Body[t]]
<1> SUFFICES ASSUME IInv PROVE SeenBodies = [t \in Visible |-> Body[t]]
  OBVIOUS
<1> USE DEF IInv
<1>1. {u \in Stored : Live(u)} = Visible
  BY LiveIsKept DEF Visible, Kept, TypeOK
<1>2. ASSUME NEW t \in Traces, Kept(t)
      PROVE  [p \in Positions(t) |-> SeenItem(t, p)] = Body[t]
  <2>1. \A p \in Positions(t) : SeenItem(t, p) = Body[t][p]
    BY <1>2, ChainComplete DEF SeenItem, Holds
  <2>2. [p \in Positions(t) |-> SeenItem(t, p)] = [p \in Positions(t) |-> Body[t][p]]
    BY <2>1
  <2>3. Body[t] = [p \in Positions(t) |-> Body[t][p]]
    BY ItemsAssumption
  <2> QED BY <2>2, <2>3, Zenon
<1> QED BY <1>1, <1>2 DEF SeenBodies, Visible

LEMMA StutterMaps ==
  ASSUME UNCHANGED <<generation, cutoff, captured>>, \A t : Kept(t)' <=> Kept(t),
         SeenBodies = [t \in Visible |-> Body[t]], SeenBodies' = [t \in Visible' |-> Body[t]]
  PROVE  UNCHANGED <<SeenBodies, FreshTraces, cutoff>>
<1>1. Visible' = Visible
  BY DEF Visible
<1>2. SeenBodies' = SeenBodies
  BY <1>1
<1>3. FreshTraces' = FreshTraces
  BY DEF FreshTraces
<1> QED BY <1>2, <1>3

(* Clears, prunes, captures and inserts map to the actions of the abstract *)
(* store, everything else to a stutter: it leaves the kept rows as they    *)
(* are.                                                                    *)
LEMMA StepMaps ==
  ASSUME IInv, [Next]_vars
  PROVE  [Reader!Next]_<<SeenBodies, FreshTraces, cutoff>>
<1>1. IInv'
  BY StepKeeps
<1>2. /\ SeenBodies = [t \in Visible |-> Body[t]]
      /\ SeenBodies' = [t \in Visible' |-> Body[t]]
  <2>1. (SeenBodies = [t \in Visible |-> Body[t]])'
    BY <1>1, SeenIsBodies, PTL
  <2> QED BY <2>1, SeenIsBodies
<1>3. DOMAIN SeenBodies = Visible
  BY <1>2
<1>4. generation \in Nat /\ cutoff \in Nat /\ Stored \subseteq Traces
  BY DEF IInv, TypeOK
<1>5. ASSUME NEW t \in Traces, Capture(t) PROVE Reader!Capture(t)
  <2>1. /\ captured[t] = -1 /\ captured' = [captured EXCEPT ![t] = generation]
        /\ UNCHANGED <<generation, cutoff, rows, marker>>
    BY <1>5 DEF Capture, state, tables, purges
  <2>2. \A u : Kept(u)' <=> Kept(u)
    BY <2>1 DEF Kept, Stored
  <2>3. SeenBodies' = SeenBodies
    <3>1. Visible' = Visible
      BY <2>2 DEF Visible
    <3> QED BY <1>2, <3>1
  <2>4. t \notin FreshTraces /\ FreshTraces' = FreshTraces \union {t}
    BY <1>4, <2>1 DEF FreshTraces, IInv, TypeOK
  <2> QED BY <2>1, <2>3, <2>4 DEF Reader!Capture
<1>6. ASSUME NEW t \in Traces, Insert(t) PROVE Reader!Store(t)
  <2>1. /\ captured[t] = generation /\ cutoff <= Created[t] /\ t \notin Stored
        /\ UNCHANGED <<generation, cutoff, captured>>
    BY <1>6 DEF Insert, Accepts, state
  <2>2. PICK row \in Row(t) :
          /\ rows' = [u \in Stored \union {t} |-> IF u = t THEN row ELSE rows[u]]
          /\ row.generation = generation
    BY <1>6, InsertedRow DEF Writes, IInv
  <2>3. \A u : Kept(u)' <=> Kept(u) \/ u = t
    BY <1>4, <2>1, <2>2 DEF Kept, Stored
  <2>4. Visible' = Visible \union {t} /\ t \notin Visible
    BY <2>1, <2>3 DEF Visible, Kept
  <2>5. SeenBodies' = [u \in DOMAIN SeenBodies \union {t} |->
                         IF u = t THEN Body[t] ELSE SeenBodies[u]]
    BY <1>2, <1>3, <2>4
  <2>6. t \in FreshTraces /\ FreshTraces' = FreshTraces
    BY <2>1 DEF FreshTraces
  <2> QED BY <1>3, <2>1, <2>4, <2>5, <2>6 DEF Reader!Store
<1>7. ASSUME Clear PROVE Reader!Clear
  <2>1. generation' = generation + 1 /\ UNCHANGED <<cutoff, rows, captured>>
    BY <1>7 DEF Clear, tables
  <2>2. Visible' = {} /\ FreshTraces' = {}
    <3>1. \A t \in Stored : rows[t].generation <= generation /\ rows[t].generation \in Nat
      BY DEF IInv, TypeOK, Row, Generations
    <3>2. \A t \in Traces : captured[t] <= generation /\ captured[t] \in Int
      BY DEF IInv, TypeOK, Generations
    <3> QED BY <1>4, <2>1, <3>1, <3>2 DEF Visible, FreshTraces, Kept, Stored
  <2>3. SeenBodies' = [t \in {} |-> Body[t]]
    BY <1>2, <2>2
  <2> QED BY <2>1, <2>2, <2>3 DEF Reader!Clear, Reader!Nothing
<1>8. ASSUME NEW c \in Cutoffs, Prune(c) PROVE Reader!Prune(c)
  <2>1. /\ cutoff' = (IF c > cutoff THEN c ELSE cutoff)
        /\ rows' = [t \in Stored |-> IF t \in Survivors(c) THEN Materialized(t) ELSE rows[t]]
        /\ UNCHANGED <<generation, captured>>
    BY <1>8 DEF Prune
  <2>2. \A t \in Stored : rows'[t].generation = rows[t].generation
    BY <2>1 DEF Materialized, IInv, TypeOK, Row
  <2>3. c \in Nat /\ cutoff' \in Nat /\ cutoff <= cutoff'
    BY <1>4, <2>1
  <2>4. Visible' = {t \in Visible : cutoff' <= Created[t]}
    BY <1>4, <2>1, <2>2, <2>3 DEF Visible, Kept, Stored
  <2>5. SeenBodies' = [t \in {u \in DOMAIN SeenBodies : cutoff' <= Created[u]} |-> SeenBodies[t]]
    BY <1>2, <1>3, <2>4
  <2>6. FreshTraces' = FreshTraces
    BY <2>1 DEF FreshTraces
  <2> QED BY <2>1, <2>5, <2>6 DEF Reader!Prune
<1>9. CASE ClearBatch \/ RetentionBatch \/ SweepBatch
  <2>1. \A t : Kept(t)' <=> Kept(t)
    BY <1>9, ClearBatchKeeps, RetentionBatchKeeps, SweepKeeps
  <2>2. UNCHANGED <<generation, cutoff, captured>>
    BY <1>9 DEF ClearBatch, RetentionBatch, SweepBatch, state
  <2> QED BY <1>2, <2>1, <2>2, StutterMaps
<1>10. CASE \/ UNCHANGED vars \/ StartDrain \/ ReadMarker \/ ReadCutoff \/ StopDrain \/ Restart
            \/ \E t \in Traces : InsertRolledBack(t)
  <2>1. UNCHANGED <<generation, cutoff, captured, rows>>
    BY <1>10 DEF vars, StartDrain, ReadMarker, ReadCutoff, StopDrain, Restart,
                 InsertRolledBack, state, tables
  <2>2. \A t : Kept(t)' <=> Kept(t)
    BY <2>1 DEF Kept, Stored
  <2> QED BY <1>2, <2>1, <2>2, StutterMaps
<1> QED BY <1>5, <1>6, <1>7, <1>8, <1>9, <1>10 DEF Next, DrainStep, Reader!Next

(* Readers are kept the promise of the abstract store.                     *)
THEOREM ReaderPromise == Spec => ReaderSpec
<1>1. Init => Reader!Init
  <2> SUFFICES ASSUME Init PROVE Reader!Init
    OBVIOUS
  <2>1. SeenBodies = [t \in {} |-> Body[t]]
    BY DEF Init, SeenBodies, Stored
  <2>2. FreshTraces = {} /\ cutoff = 0
    BY DEF Init, FreshTraces
  <2> QED BY <2>1, <2>2 DEF Reader!Init, Reader!Nothing
<1>2. IInv /\ [Next]_vars => [Reader!Next]_<<SeenBodies, FreshTraces, cutoff>>
  BY StepMaps
<1> QED BY <1>1, <1>2, PurgeInvariant, PTL DEF Spec, ReaderSpec, Reader!Spec, Reader!vars
=============================================================================
