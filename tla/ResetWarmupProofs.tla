------------------------- MODULE ResetWarmupProofs -------------------------
(***************************************************************************)
(* For any accounts, executors, workers and capacities: a cycle is used    *)
(* once, and the duplicate filter of an executor names what is under way.  *)
(***************************************************************************)
EXTENDS ResetWarmup, TLAPS

(* A reminder is for a cycle later than every cycle that was used.         *)
Ahead(a) ==
  /\ pending[a] # Null => pending[a] > consumed[a]
  /\ \A r \in Resets : uses[a][r] <= 1 /\ (uses[a][r] = 1 => r <= consumed[a])

Cycles == \A a \in Accounts : Ahead(a)

(* KeysExact for one executor, in terms of the keys of a channel; the      *)
(* workers that are said to have a target have one.                        *)
KeysOf(s) == {Key(s[i]) : i \in DOMAIN s}
NoRepeat(s) == \A i, j \in DOMAIN s : Key(s[i]) = Key(s[j]) => i = j

Exact(e) ==
  /\ \A w \in Working(e) : job[e][w] \in Targets
  /\ keys[e] = KeysOf(channel[e]) \cup {Key(job[e][w]) : w \in Working(e)}
  /\ NoRepeat(channel[e])
  /\ \A v, w \in Working(e) : Key(job[e][v]) = Key(job[e][w]) => v = w
  /\ \A w \in Working(e) : Key(job[e][w]) \notin KeysOf(channel[e])

Filters == \A e \in Executors : Exact(e)

IInv == TypeOK /\ Cycles /\ Filters

----------------------------------------------------------------------------
(* Data.                                                                   *)
LEMMA ResetType ==
  /\ \A r \in Resets : r \in Nat /\ r # 0
  /\ \A r \in LongResets : r \in Nat
  /\ Grace \in Nat
BY WarmupAssumption DEF Resets

LEMMA KeyType ==
  ASSUME NEW t \in Targets
  PROVE  Key(t) \in Accounts \X Resets
BY DEF Key, Targets

LEMMA AppendKeys ==
  ASSUME NEW s \in Seq(Targets), NEW t \in Targets
  PROVE  /\ Append(s, t) \in Seq(Targets)
         /\ KeysOf(Append(s, t)) = KeysOf(s) \cup {Key(t)}
         /\ NoRepeat(s) /\ Key(t) \notin KeysOf(s) => NoRepeat(Append(s, t))
<1> DEFINE n == Len(s)  b == Append(s, t)
<1>1. n \in Nat /\ DOMAIN s = 1 .. n OBVIOUS
<1>2. b \in Seq(Targets) /\ Len(b) = n + 1 /\ DOMAIN b = 1 .. n + 1 OBVIOUS
<1>3. \A i \in 1 .. n : b[i] = s[i] OBVIOUS
<1>4. b[n + 1] = t OBVIOUS
<1> HIDE DEF n, b
<1>5. KeysOf(b) = KeysOf(s) \cup {Key(t)}
  <2>1. 1 .. n + 1 = (1 .. n) \cup {n + 1} BY <1>1
  <2>2. QED BY <1>1, <1>2, <1>3, <1>4, <2>1 DEF KeysOf
<1>6. ASSUME NoRepeat(s), Key(t) \notin KeysOf(s) PROVE NoRepeat(b)
  <2> SUFFICES ASSUME NEW i \in 1 .. n + 1, NEW j \in 1 .. n + 1, Key(b[i]) = Key(b[j])
               PROVE  i = j
    BY <1>2 DEF NoRepeat
  <2>1. CASE i \in 1 .. n /\ j \in 1 .. n
    BY <2>1, <1>1, <1>3, <1>6 DEF NoRepeat
  <2>2. \A k \in 1 .. n : Key(s[k]) # Key(t)
    BY <1>1, <1>6 DEF KeysOf
  <2>3. QED BY <1>1, <1>3, <1>4, <2>1, <2>2
<1>7. QED BY <1>2, <1>5, <1>6 DEF b

LEMMA TailKeys ==
  ASSUME NEW s \in Seq(Targets), s # <<>>
  PROVE  /\ Head(s) \in Targets /\ Tail(s) \in Seq(Targets)
         /\ KeysOf(s) = KeysOf(Tail(s)) \cup {Key(Head(s))}
         /\ NoRepeat(s) => NoRepeat(Tail(s)) /\ Key(Head(s)) \notin KeysOf(Tail(s))
<1> DEFINE n == Len(s)  b == Tail(s)
<1>1. n \in Nat /\ n > 0 /\ DOMAIN s = 1 .. n OBVIOUS
<1>2. b \in Seq(Targets) /\ DOMAIN b = 1 .. n - 1 OBVIOUS
<1>3. \A i \in 1 .. n - 1 : b[i] = s[i + 1] OBVIOUS
<1>4. Head(s) = s[1] /\ Head(s) \in Targets OBVIOUS
<1> HIDE DEF n, b
<1>5. KeysOf(s) = KeysOf(b) \cup {Key(Head(s))}
  <2>1. \A i \in 1 .. n : i = 1 \/ i - 1 \in 1 .. n - 1 BY <1>1
  <2>2. ASSUME NEW k \in KeysOf(s) PROVE k \in KeysOf(b) \cup {Key(Head(s))}
    <3>1. PICK i \in 1 .. n : k = Key(s[i]) BY <1>1, <2>2 DEF KeysOf
    <3>2. CASE i = 1 BY <3>1, <3>2, <1>4
    <3>3. CASE i # 1
      <4>1. i - 1 \in 1 .. n - 1 /\ b[i - 1] = s[i] BY <3>3, <1>1, <1>3
      <4>2. QED BY <4>1, <3>1, <1>2 DEF KeysOf
    <3>4. QED BY <3>2, <3>3
  <2>3. ASSUME NEW k \in KeysOf(b) PROVE k \in KeysOf(s)
    <3>1. PICK i \in 1 .. n - 1 : k = Key(b[i]) BY <1>2, <2>3 DEF KeysOf
    <3>2. i + 1 \in 1 .. n /\ b[i] = s[i + 1] BY <1>1, <1>3
    <3>3. QED BY <3>1, <3>2, <1>1 DEF KeysOf
  <2>4. Key(Head(s)) \in KeysOf(s)
    <3>1. 1 \in 1 .. n BY <1>1
    <3>2. QED BY <3>1, <1>1, <1>4 DEF KeysOf
  <2>5. QED BY <2>2, <2>3, <2>4
<1>6. ASSUME NoRepeat(s) PROVE NoRepeat(b) /\ Key(Head(s)) \notin KeysOf(b)
  <2>1. \A i \in 1 .. n - 1 : i + 1 \in 1 .. n /\ i + 1 # 1 BY <1>1
  <2>2. 1 \in 1 .. n BY <1>1
  <2>3. ASSUME NEW i \in 1 .. n - 1, NEW j \in 1 .. n - 1, Key(b[i]) = Key(b[j]) PROVE i = j
    <3>1. i + 1 = j + 1 BY <2>3, <2>1, <1>1, <1>3, <1>6 DEF NoRepeat
    <3>2. QED BY <3>1
  <2>4. \A i \in 1 .. n - 1 : Key(b[i]) # Key(s[1])
    BY <2>1, <2>2, <1>1, <1>3, <1>6 DEF NoRepeat
  <2>5. QED BY <2>3, <2>4, <1>2, <1>4 DEF NoRepeat, KeysOf
<1>7. QED BY <1>2, <1>4, <1>5, <1>6 DEF b

LEMMA EmptyKeys == KeysOf(<<>>) = {} /\ NoRepeat(<<>>)
BY DEF KeysOf, NoRepeat

----------------------------------------------------------------------------
LEMMA InitIInv == Init => IInv
<1> SUFFICES ASSUME Init PROVE IInv OBVIOUS
<1>1. TypeOK BY DEF Init, TypeOK
<1>2. Cycles
  BY DEF Init, Cycles, Ahead
<1>3. Filters
  BY EmptyKeys DEF Init, Filters, Exact, Working
<1>4. QED BY <1>1, <1>2, <1>3 DEF IInv

----------------------------------------------------------------------------
(* Using a cycle, which must be a pending one later than the used ones.    *)
LEMMA UseType ==
  ASSUME TypeOK, NEW a \in Accounts, pending[a] \in Resets, UseCycle(a)
  PROVE  /\ pending' \in [Accounts -> Resets \cup {Null}]
         /\ consumed' \in [Accounts -> Resets \cup {Null}]
         /\ uses' \in [Accounts -> [Resets -> Nat]]
<1>1. consumed[a] \in Resets \cup {Null} BY DEF TypeOK
<1>2. Larger(consumed[a], pending[a]) \in Resets \cup {Null} BY <1>1 DEF Larger
<1>3. uses[a] \in [Resets -> Nat] BY DEF TypeOK
<1>4. [uses[a] EXCEPT ![pending[a]] = @ + 1] \in [Resets -> Nat] BY <1>3
<1>5. uses' = [uses EXCEPT ![a] = [uses[a] EXCEPT ![pending[a]] = @ + 1]]
  BY DEF UseCycle
<1>6. QED BY <1>2, <1>4, <1>5 DEF UseCycle, TypeOK

LEMMA UseAhead ==
  ASSUME TypeOK, Cycles, NEW a \in Accounts, pending[a] \in Resets, UseCycle(a)
  PROVE  Cycles'
<1> SUFFICES ASSUME NEW b \in Accounts PROVE Ahead(b)' BY DEF Cycles
<1>1. Ahead(b) BY DEF Cycles
<1>2. CASE b # a
  <2>1. pending'[b] = pending[b] /\ consumed'[b] = consumed[b] /\ uses'[b] = uses[b]
    BY <1>2 DEF UseCycle, TypeOK
  <2>2. QED BY <1>1, <2>1 DEF Ahead
<1>3. CASE b = a
  <2> DEFINE p == pending[a]  c == consumed[a]
  <2>1. p \in Nat /\ p # 0 /\ c \in Nat BY ResetType DEF TypeOK, Null
  <2>2. p > c BY <1>1, <1>3, <2>1 DEF Ahead, Null
  <2>3. pending'[a] = Null /\ consumed'[a] = p
    BY <2>1, <2>2 DEF UseCycle, TypeOK, Larger
  <2>4. \A r \in Resets : uses'[a][r] = IF r = p THEN uses[a][r] + 1 ELSE uses[a][r]
    BY DEF UseCycle, TypeOK
  <2> HIDE DEF p, c
  <2>5. ASSUME NEW r \in Resets
        PROVE  uses'[a][r] <= 1 /\ (uses'[a][r] = 1 => r <= consumed'[a])
    <3>1. r \in Nat /\ uses[a][r] \in Nat BY ResetType DEF TypeOK
    <3>2. uses[a][r] <= 1 /\ (uses[a][r] = 1 => r <= c) BY <1>1, <1>3 DEF Ahead, c
    <3>3. QED BY <2>1, <2>2, <2>3, <2>4, <3>1, <3>2
  <2>6. QED BY <1>3, <2>3, <2>5 DEF Ahead
<1>4. QED BY <1>2, <1>3

(* The rows, and with them the account of cycles, are kept.                *)
LEMMA RowsKept == Cycles /\ UNCHANGED rowVars => Cycles'
BY DEF Cycles, Ahead, rowVars

(* What a snapshot does to the rows.                                       *)
LEMMA ObserveRows ==
  ASSUME TypeOK, Cycles, NEW a \in Accounts, NEW reset \in Resets,
         NEW used \in {"none", "part", "full"}, Observe(a, used, reset)
  PROVE  /\ pending' \in [Accounts -> Resets \cup {Null}]
         /\ consumed' \in [Accounts -> Resets \cup {Null}]
         /\ uses' \in [Accounts -> [Resets -> Nat]]
         /\ Cycles'
<1> DEFINE Part == used = "part" /\ Overtaken(a, reset) /\ UseCycle(a)
           Full == /\ used = "full" /\ Arms(a, reset)
                   /\ pending' = [pending EXCEPT ![a] = Larger(@, reset)]
                   /\ UNCHANGED <<consumed, uses>>
           Same == UNCHANGED <<pending, consumed, uses>>
<1>1. Part \/ Full \/ Same BY DEF Observe
<1>2. CASE Part
  <2>1. pending[a] \in Resets BY <1>2 DEF Overtaken, TypeOK
  <2>2. QED BY <1>2, <2>1, UseType, UseAhead
<1>3. CASE Full
  <2>1. pending[a] \in Resets \cup {Null} /\ consumed[a] \in Resets \cup {Null}
    BY DEF TypeOK
  <2>2. Larger(pending[a], reset) \in Resets \cup {Null} BY <2>1 DEF Larger
  <2>3. pending' \in [Accounts -> Resets \cup {Null}] BY <1>3, <2>2 DEF TypeOK
  <2>4. pending'[a] > consumed'[a]
    <3>1. reset \in Nat /\ pending[a] \in Nat /\ consumed[a] \in Nat
      BY <2>1, ResetType DEF Null
    <3>2. reset > consumed[a] BY <1>3 DEF Arms
    <3>3. Larger(pending[a], reset) > consumed[a] BY <3>1, <3>2 DEF Larger
    <3>4. QED BY <1>3, <3>3 DEF TypeOK
  <2>5. \A b \in Accounts \ {a} : pending'[b] = pending[b] BY <1>3 DEF TypeOK
  <2>6. UNCHANGED <<consumed, uses>> BY <1>3
  <2>7. Cycles'
    <3> SUFFICES ASSUME NEW b \in Accounts PROVE Ahead(b)' BY DEF Cycles
    <3>1. Ahead(b) BY DEF Cycles
    <3>2. CASE b = a BY <3>1, <3>2, <2>4, <2>6 DEF Ahead
    <3>3. CASE b # a BY <3>1, <3>3, <2>5, <2>6 DEF Ahead
    <3>4. QED BY <3>2, <3>3
  <2>8. QED BY <2>3, <2>6, <2>7 DEF TypeOK
<1>4. CASE Same BY <1>4, RowsKept DEF rowVars, TypeOK
<1>5. QED BY <1>1, <1>2, <1>3, <1>4

(* A claimed target is a pending cycle.                                    *)
LEMMA ClaimRows ==
  ASSUME IInv, NEW e \in Executors, NEW w \in Workers, Claim(e, w)
  PROVE  /\ pending' \in [Accounts -> Resets \cup {Null}]
         /\ consumed' \in [Accounts -> Resets \cup {Null}]
         /\ uses' \in [Accounts -> [Resets -> Nat]]
         /\ Cycles'
<1>1. job[e][w] \in Targets
  BY DEF Claim, IInv, Filters, Exact, Working
<1>2. job[e][w].account \in Accounts /\ pending[job[e][w].account] \in Resets
  BY <1>1 DEF Claim, Claimable, Targets
<1>3. QED BY <1>2, UseType, UseAhead DEF Claim, IInv

----------------------------------------------------------------------------
(* The type invariant.                                                     *)
LEMMA PutDownType ==
  ASSUME TypeOK, NEW e \in Executors, NEW w \in Workers, NEW next \in {"off", "idle"},
         PutDown(e, w, next)
  PROVE  /\ keys' \in [Executors -> SUBSET (Accounts \X Resets)]
         /\ pc' \in [Executors -> [Workers -> {"off", "idle", "claim", "send"}]]
         /\ job' \in [Executors -> [Workers -> Targets \cup {NoJob}]]
BY DEF PutDown, TypeOK

LEMMA PollType ==
  ASSUME TypeOK
  PROVE  DueTargets \subseteq Targets
<1> SUFFICES ASSUME NEW a \in Accounts, Due(a)
             PROVE  [account |-> a, reset |-> pending[a], due |-> DueAt(a)] \in Targets
  BY DEF DueTargets
<1>1. pending[a] \in Resets BY DEF Due, Eligible, TypeOK
<1>2. long[a] \in LongResets \cup {Null} BY DEF Due, Eligible, TypeOK
<1>3. pending[a] \in Nat /\ long[a] \in Nat /\ Grace \in Nat
  BY <1>1, <1>2, ResetType DEF Null
<1>4. DueAt(a) \in Nat BY <1>3 DEF DueAt, Larger
<1>5. QED BY <1>1, <1>4 DEF Targets

(* Values a step may give to the variables of an executor.                 *)
LEMMA Updates ==
  ASSUME TypeOK, NEW e \in Executors
  PROVE  /\ \A b \in BOOLEAN : /\ [loop EXCEPT ![e] = b] \in [Executors -> BOOLEAN]
                              /\ [stopping EXCEPT ![e] = b] \in [Executors -> BOOLEAN]
         /\ \A s \in SUBSET Targets : [listed EXCEPT ![e] = s] \in [Executors -> SUBSET Targets]
         /\ \A t : [listed EXCEPT ![e] = @ \ {t}] \in [Executors -> SUBSET Targets]
         /\ \A s \in SUBSET (Accounts \X Resets) :
              [keys EXCEPT ![e] = s] \in [Executors -> SUBSET (Accounts \X Resets)]
         /\ \A s \in Seq(Targets) : [channel EXCEPT ![e] = s] \in [Executors -> Seq(Targets)]
         /\ \A l \in {"off", "idle", "claim", "send"} :
              /\ [pc EXCEPT ![e] = [w \in Workers |-> l]]
                   \in [Executors -> [Workers -> {"off", "idle", "claim", "send"}]]
              /\ \A w \in Workers :
                   [pc EXCEPT ![e][w] = l]
                     \in [Executors -> [Workers -> {"off", "idle", "claim", "send"}]]
         /\ [job EXCEPT ![e] = [w \in Workers |-> NoJob]]
              \in [Executors -> [Workers -> Targets \cup {NoJob}]]
         /\ \A t \in Targets, w \in Workers :
              [job EXCEPT ![e][w] = t] \in [Executors -> [Workers -> Targets \cup {NoJob}]]
BY DEF TypeOK

LEMMA EnqueueType ==
  ASSUME TypeOK, NEW e \in Executors, Enqueue(e)
  PROVE  TypeOK'
<1>1. PICK t \in listed[e] :
        /\ listed' = [listed EXCEPT ![e] = @ \ {t}]
        /\ \/ UNCHANGED queueVars
           \/ /\ keys' = [keys EXCEPT ![e] = @ \cup {Key(t)}]
              /\ channel' = [channel EXCEPT ![e] = Append(@, t)]
           \/ keys' = [keys EXCEPT ![e] = keys[e]] /\ UNCHANGED channel
  BY DEF Enqueue, KeysWhenFull
<1>2. t \in Targets /\ channel[e] \in Seq(Targets) BY DEF TypeOK
<1>3. Key(t) \in Accounts \X Resets BY <1>2, KeyType
<1>4. Append(channel[e], t) \in Seq(Targets) BY <1>2, AppendKeys
<1>5. channel' \in [Executors -> Seq(Targets)]
  BY <1>1, <1>4 DEF TypeOK, queueVars
<1>6. keys' \in [Executors -> SUBSET (Accounts \X Resets)]
  BY <1>1, <1>3 DEF TypeOK, queueVars
<1>7. listed' \in [Executors -> SUBSET Targets] BY <1>1, Updates
<1>8. QED BY <1>5, <1>6, <1>7 DEF Enqueue, TypeOK, accountVars, rowVars, workerVars

LEMMA WorkerType ==
  ASSUME IInv, NEW e \in Executors, NEW w \in Workers,
         WorkerStep(e, w) \/ ClaimError(e, w)
  PROVE  TypeOK'
<1> USE DEF accountVars, rowVars, loopVars, queueVars, workerVars
<1>0. TypeOK BY DEF IInv
<1>1. CASE Receive(e, w)
  <2>1. channel[e] \in Seq(Targets) BY <1>0 DEF TypeOK
  <2>2. Head(channel[e]) \in Targets /\ Tail(channel[e]) \in Seq(Targets)
    BY <1>1, <2>1, TailKeys DEF Receive
  <2>3. channel' \in [Executors -> Seq(Targets)] BY <1>0, <1>1, <2>2 DEF Receive, TypeOK
  <2>4. job' \in [Executors -> [Workers -> Targets \cup {NoJob}]]
    BY <1>0, <1>1, <2>2, Updates DEF Receive
  <2>5. pc' \in [Executors -> [Workers -> {"off", "idle", "claim", "send"}]]
    BY <1>0, <1>1, Updates DEF Receive
  <2>6. QED BY <1>0, <1>1, <2>3, <2>4, <2>5 DEF Receive, TypeOK
<1>2. CASE Claim(e, w)
  <2>1. pc' \in [Executors -> [Workers -> {"off", "idle", "claim", "send"}]]
    BY <1>0, <1>2, Updates DEF Claim
  <2>2. QED BY <1>0, <1>2, <2>1, ClaimRows DEF Claim, TypeOK
<1>3. CASE ClaimRefused(e, w)
  BY <1>0, <1>3, PutDownType DEF ClaimRefused, TypeOK
<1>4. CASE ClaimError(e, w)
  BY <1>0, <1>4, PutDownType DEF ClaimError, TypeOK
<1>5. CASE EndSend(e, w)
  BY <1>0, <1>5, PutDownType DEF EndSend, TypeOK
<1>6. CASE EndWorker(e, w)
  <2>1. CASE pc' = [pc EXCEPT ![e][w] = "off"] /\ UNCHANGED <<keys, job>>
    <3>1. pc' \in [Executors -> [Workers -> {"off", "idle", "claim", "send"}]]
      BY <1>0, <2>1, Updates
    <3>2. QED BY <1>0, <1>6, <2>1, <3>1 DEF EndWorker, TypeOK
  <2>2. CASE PutDown(e, w, "off")
    BY <1>0, <1>6, <2>2, PutDownType DEF EndWorker, TypeOK
  <2>3. QED BY <1>6, <2>1, <2>2 DEF EndWorker
<1>7. CASE ChannelClosed(e, w)
  <2>1. pc' \in [Executors -> [Workers -> {"off", "idle", "claim", "send"}]]
    BY <1>0, <1>7, Updates DEF ChannelClosed
  <2>2. QED BY <1>0, <1>7, <2>1 DEF ChannelClosed, TypeOK
<1>8. QED BY <1>1, <1>2, <1>3, <1>4, <1>5, <1>6, <1>7 DEF WorkerStep

LEMMA ExecutorType ==
  ASSUME IInv, NEW e \in Executors,
         \/ Start(e) \/ LoopStep(e) \/ Stop(e) \/ LoopPanic(e) \/ Crash(e)
         \/ \E w \in Workers : WorkerStep(e, w) \/ ClaimError(e, w)
  PROVE  TypeOK'
<1> USE DEF accountVars, rowVars, loopVars, queueVars, workerVars
<1>0. TypeOK BY DEF IInv
<1>1. {} \in SUBSET Targets /\ {} \in SUBSET (Accounts \X Resets) /\ <<>> \in Seq(Targets)
  OBVIOUS
<1>2. CASE Start(e) BY <1>0, <1>1, <1>2, Updates DEF Start, TypeOK
<1>3. CASE Poll(e)
  <2>1. PICK some \in SUBSET DueTargets : listed' = [listed EXCEPT ![e] = some]
    BY <1>3 DEF Poll
  <2>2. some \in SUBSET Targets BY <1>0, PollType
  <2>3. QED BY <1>0, <1>3, <2>1, <2>2, Updates DEF Poll, TypeOK
<1>4. CASE Enqueue(e) BY <1>0, <1>4, EnqueueType
<1>5. CASE EndLoop(e) BY <1>0, <1>1, <1>5, Updates DEF EndLoop, TypeOK
<1>6. CASE Stop(e) BY <1>0, <1>6, Updates DEF Stop, TypeOK
<1>7. CASE LoopPanic(e) BY <1>0, <1>1, <1>7, Updates DEF LoopPanic, TypeOK
<1>8. CASE Crash(e) BY <1>0, <1>1, <1>8, Updates DEF Crash, TypeOK
<1>9. CASE \E w \in Workers : WorkerStep(e, w) \/ ClaimError(e, w) BY <1>9, WorkerType
<1>10. QED BY <1>2, <1>3, <1>4, <1>5, <1>6, <1>7, <1>8, <1>9 DEF LoopStep

LEMMA StepType == IInv /\ [Next]_vars => TypeOK'
<1> SUFFICES ASSUME IInv, [Next]_vars PROVE TypeOK' OBVIOUS
<1> USE DEF accountVars, rowVars, loopVars, queueVars, workerVars
<1>0. TypeOK BY DEF IInv
<1>1. CASE Tick BY <1>0, <1>1 DEF Tick, TypeOK
<1>2. CASE Change
  <2>1. PICK a \in Accounts : \/ Switch(a)
                              \/ \E used \in {"none", "part", "full"}, reset \in Resets :
                                   Observe(a, used, reset)
    BY <1>2 DEF Change
  <2>2. CASE Switch(a) BY <1>0, <2>2 DEF Switch, TypeOK
  <2>3. CASE \E used \in {"none", "part", "full"}, reset \in Resets : Observe(a, used, reset)
    <3>1. PICK used \in {"none", "part", "full"}, reset \in Resets : Observe(a, used, reset)
      BY <2>3
    <3>2. /\ pending' \in [Accounts -> Resets \cup {Null}]
          /\ consumed' \in [Accounts -> Resets \cup {Null}]
          /\ uses' \in [Accounts -> [Resets -> Nat]]
      BY <3>1, ObserveRows DEF IInv
    <3>3. long' \in [Accounts -> LongResets \cup {Null, Unknown}]
      BY <1>0, <3>1 DEF Observe, TypeOK
    <3>4. changes' \in Nat BY <1>0, <3>1 DEF Observe, TypeOK
    <3>5. QED BY <1>0, <3>1, <3>2, <3>3, <3>4 DEF Observe, TypeOK
  <2>4. QED BY <2>1, <2>2, <2>3
<1>3. CASE \E e \in Executors :
             \/ Start(e) \/ LoopStep(e) \/ Stop(e) \/ LoopPanic(e) \/ Crash(e)
             \/ \E w \in Workers : WorkerStep(e, w) \/ ClaimError(e, w)
  BY <1>3, ExecutorType
<1>4. CASE UNCHANGED vars BY <1>0, <1>4 DEF vars, TypeOK
<1>5. QED BY <1>1, <1>2, <1>3, <1>4 DEF Next

----------------------------------------------------------------------------
(* The cycles: only a snapshot and a claim touch the rows.                 *)
LEMMA StepCycles == IInv /\ [Next]_vars => Cycles'
<1> SUFFICES ASSUME IInv, [Next]_vars PROVE Cycles' OBVIOUS
<1>0. TypeOK /\ Cycles BY DEF IInv
<1>1. CASE \E a \in Accounts, used \in {"none", "part", "full"}, reset \in Resets :
             Observe(a, used, reset)
  BY <1>0, <1>1, ObserveRows
<1>2. CASE \E e \in Executors, w \in Workers : Claim(e, w)
  BY <1>2, ClaimRows
<1>3. CASE UNCHANGED rowVars BY <1>0, <1>3, RowsKept
<1>4. QED
  <2> USE DEF accountVars
  <2>1. CASE Change BY <1>1, <1>3, <2>1 DEF Change, Switch
  <2>2. ASSUME NEW e \in Executors,
               \/ Start(e) \/ LoopStep(e) \/ Stop(e) \/ LoopPanic(e) \/ Crash(e)
        PROVE  UNCHANGED rowVars
    BY <2>2 DEF Start, LoopStep, Poll, Enqueue, EndLoop, Stop, LoopPanic, Crash
  <2>3. ASSUME NEW e \in Executors, NEW w \in Workers,
               WorkerStep(e, w) \/ ClaimError(e, w)
        PROVE  Claim(e, w) \/ UNCHANGED rowVars
    BY <2>3 DEF WorkerStep, Receive, ClaimRefused, ClaimError, EndSend, EndWorker, ChannelClosed
  <2>4. CASE Tick BY <1>3, <2>4 DEF Tick
  <2>5. CASE UNCHANGED vars BY <1>3, <2>5 DEF vars
  <2>6. QED BY <1>2, <1>3, <2>1, <2>2, <2>3, <2>4, <2>5 DEF Next

----------------------------------------------------------------------------
(* The filters: a step of an executor touches its own.                     *)
LEMMA OwnFilter ==
  ASSUME TypeOK, Filters, NEW e \in Executors, Exact(e)',
         \A x \in Executors \ {e} : /\ keys'[x] = keys[x] /\ channel'[x] = channel[x]
                                    /\ pc'[x] = pc[x] /\ job'[x] = job[x]
  PROVE  Filters'
<1> SUFFICES ASSUME NEW x \in Executors, x # e PROVE Exact(x)' BY DEF Filters
<1>1. Exact(x) BY DEF Filters
<1>2. Working(x)' = Working(x) BY DEF Working
<1>3. QED BY <1>1, <1>2 DEF Exact

LEMMA FilterKept == Filters /\ UNCHANGED <<queueVars, workerVars>> => Filters'
<1> SUFFICES ASSUME Filters, UNCHANGED <<queueVars, workerVars>>, NEW e \in Executors
             PROVE  Exact(e)'
  BY DEF Filters
<1>1. Exact(e) BY DEF Filters
<1>2. Working(e)' = Working(e) BY DEF Working, workerVars
<1>3. QED BY <1>1, <1>2 DEF Exact, queueVars, workerVars

(* An executor without a target.                                           *)
LEMMA FilterEmpty ==
  ASSUME NEW e \in Executors, keys'[e] = {}, channel'[e] = <<>>,
         \A w \in Workers : pc'[e][w] \in {"off", "idle"}
  PROVE  Exact(e)'
<1>1. Working(e)' = {} BY DEF Working
<1>2. QED BY <1>1, EmptyKeys DEF Exact

LEMMA PutDownFilter ==
  ASSUME TypeOK, Filters, NEW e \in Executors, NEW w \in Workers, w \in Working(e),
         NEW next \in {"off", "idle"}, PutDown(e, w, next), UNCHANGED channel
  PROVE  Filters'
<1>1. Exact(e) BY DEF Filters
<1>2. /\ keys'[e] = keys[e] \ {Key(job[e][w])}
      /\ \A v \in Workers \ {w} : job'[e][v] = job[e][v] /\ pc'[e][v] = pc[e][v]
      /\ pc'[e][w] = next
  BY DEF PutDown, TypeOK
<1>3. Working(e)' = Working(e) \ {w} BY <1>2 DEF Working
<1>4. \A v \in Working(e) \ {w} : job'[e][v] = job[e][v] BY <1>2 DEF Working
<1>5. {Key(job[e][v]) : v \in Working(e)}
        = {Key(job[e][v]) : v \in Working(e) \ {w}} \cup {Key(job[e][w])}
  OBVIOUS
<1>6. Key(job[e][w]) \notin {Key(job[e][v]) : v \in Working(e) \ {w}}
  BY <1>1 DEF Exact
<1>7. Key(job[e][w]) \notin KeysOf(channel[e])
  BY <1>1 DEF Exact
<1>8. keys'[e] = KeysOf(channel[e]) \cup {Key(job[e][v]) : v \in Working(e) \ {w}}
  BY <1>1, <1>2, <1>5, <1>6, <1>7 DEF Exact
<1>9. {Key(job'[e][v]) : v \in Working(e)'} = {Key(job[e][v]) : v \in Working(e) \ {w}}
  BY <1>3, <1>4
<1>10. Exact(e)'
  BY <1>1, <1>3, <1>4, <1>8, <1>9 DEF Exact
<1>11. QED BY <1>10, OwnFilter DEF PutDown, TypeOK

LEMMA EnqueueFilter ==
  ASSUME TypeOK, Filters, NEW e \in Executors, Enqueue(e)
  PROVE  Filters'
<1>1. PICK t \in listed[e] :
        \/ UNCHANGED queueVars
        \/ /\ Key(t) \notin keys[e]
           /\ keys' = [keys EXCEPT ![e] = @ \cup {Key(t)}]
           /\ channel' = [channel EXCEPT ![e] = Append(@, t)]
        \/ keys' = [keys EXCEPT ![e] = keys[e]] /\ UNCHANGED channel
  BY DEF Enqueue, KeysWhenFull
<1>2. UNCHANGED workerVars BY DEF Enqueue
<1>3. CASE UNCHANGED queueVars BY <1>2, <1>3, FilterKept
<1>4. CASE keys' = [keys EXCEPT ![e] = keys[e]] /\ UNCHANGED channel
  <2>1. keys' = keys BY <1>4 DEF TypeOK
  <2>2. QED BY <1>2, <1>4, <2>1, FilterKept DEF queueVars
<1>5. CASE /\ Key(t) \notin keys[e]
           /\ keys' = [keys EXCEPT ![e] = @ \cup {Key(t)}]
           /\ channel' = [channel EXCEPT ![e] = Append(@, t)]
  <2>1. Exact(e) BY DEF Filters
  <2>2. t \in Targets /\ channel[e] \in Seq(Targets) BY DEF TypeOK
  <2>3. channel'[e] = Append(channel[e], t) /\ keys'[e] = keys[e] \cup {Key(t)}
    BY <1>5 DEF TypeOK
  <2>4. Working(e)' = Working(e) BY <1>2 DEF Working, workerVars
  <2>5. Key(t) \notin KeysOf(channel[e]) /\ \A w \in Working(e) : Key(t) # Key(job[e][w])
    BY <1>5, <2>1 DEF Exact
  <2>6. KeysOf(channel'[e]) = KeysOf(channel[e]) \cup {Key(t)} /\ NoRepeat(channel'[e])
    BY <2>1, <2>2, <2>3, <2>5, AppendKeys DEF Exact
  <2>7. job' = job BY <1>2 DEF workerVars
  <2>8. \A w \in Working(e) : Key(job[e][w]) \notin KeysOf(channel'[e])
    BY <2>1, <2>5, <2>6 DEF Exact
  <2>9. Exact(e)'
    BY <2>1, <2>3, <2>4, <2>6, <2>7, <2>8 DEF Exact
  <2>10. QED BY <1>2, <1>5, <2>9, OwnFilter DEF TypeOK, workerVars
<1>6. QED BY <1>1, <1>3, <1>4, <1>5

LEMMA ReceiveFilter ==
  ASSUME TypeOK, Filters, NEW e \in Executors, NEW w \in Workers, Receive(e, w)
  PROVE  Filters'
<1> DEFINE t == Head(channel[e])
<1>1. Exact(e) BY DEF Filters
<1>2. channel[e] \in Seq(Targets) /\ channel[e] # <<>> BY DEF Receive, TypeOK
<1>3. /\ t \in Targets
      /\ KeysOf(channel[e]) = KeysOf(Tail(channel[e])) \cup {Key(t)}
      /\ NoRepeat(Tail(channel[e])) /\ Key(t) \notin KeysOf(Tail(channel[e]))
  BY <1>1, <1>2, TailKeys DEF Exact
<1>4. /\ channel'[e] = Tail(channel[e]) /\ keys'[e] = keys[e]
      /\ job'[e][w] = t /\ pc'[e][w] = "claim"
      /\ \A v \in Workers \ {w} : job'[e][v] = job[e][v] /\ pc'[e][v] = pc[e][v]
  BY DEF Receive, TypeOK
<1> HIDE DEF t
<1>5. w \notin Working(e) BY DEF Receive, Working
<1>6. Working(e)' = Working(e) \cup {w} BY <1>4 DEF Working
<1>7. \A v \in Working(e) : job'[e][v] = job[e][v] /\ v # w
  BY <1>4, <1>5 DEF Working
<1>8. {Key(job'[e][v]) : v \in Working(e)'} = {Key(job[e][v]) : v \in Working(e)} \cup {Key(t)}
  BY <1>4, <1>6, <1>7
<1>9. \A v \in Working(e) : Key(job[e][v]) # Key(t) /\ Key(job[e][v]) \notin KeysOf(channel'[e])
  BY <1>1, <1>3, <1>4 DEF Exact
<1>10. \A u, v \in Working(e)' : Key(job'[e][u]) = Key(job'[e][v]) => u = v
  BY <1>1, <1>4, <1>6, <1>7, <1>9 DEF Exact
<1>11. keys'[e] = KeysOf(channel'[e]) \cup {Key(job'[e][v]) : v \in Working(e)'}
  BY <1>1, <1>3, <1>4, <1>8 DEF Exact
<1>12. \A v \in Working(e)' : job'[e][v] \in Targets /\ Key(job'[e][v]) \notin KeysOf(channel'[e])
  BY <1>1, <1>3, <1>4, <1>6, <1>7, <1>9 DEF Exact
<1>13. Exact(e)' BY <1>3, <1>4, <1>10, <1>11, <1>12 DEF Exact
<1>14. QED BY <1>13, OwnFilter DEF Receive, TypeOK

LEMMA WorkerFilter ==
  ASSUME TypeOK, Filters, NEW e \in Executors, NEW w \in Workers,
         WorkerStep(e, w) \/ ClaimError(e, w)
  PROVE  Filters'
<1>1. CASE Receive(e, w) BY <1>1, ReceiveFilter
<1>2. CASE Claim(e, w)
  <2>1. Exact(e) BY DEF Filters
  <2>2. /\ pc'[e][w] = "send" /\ pc[e][w] = "claim"
        /\ \A v \in Workers \ {w} : pc'[e][v] = pc[e][v]
    BY <1>2 DEF Claim, TypeOK
  <2>3. Working(e)' = Working(e) BY <2>2 DEF Working
  <2>4. UNCHANGED <<keys, channel, job>> BY <1>2 DEF Claim, queueVars
  <2>5. Exact(e)' BY <2>1, <2>3, <2>4 DEF Exact
  <2>6. QED BY <1>2, <2>4, <2>5, OwnFilter DEF Claim, TypeOK
<1>3. CASE ClaimRefused(e, w)
  BY <1>3, PutDownFilter DEF ClaimRefused, Working
<1>4. CASE ClaimError(e, w)
  BY <1>4, PutDownFilter DEF ClaimError, Working
<1>5. CASE EndSend(e, w)
  BY <1>5, PutDownFilter DEF EndSend, Working
<1>6. CASE EndWorker(e, w)
  <2>1. CASE /\ pc[e][w] = "idle" /\ pc' = [pc EXCEPT ![e][w] = "off"]
             /\ UNCHANGED <<keys, job>>
    <3>1. Working(e)' = Working(e) BY <2>1 DEF Working, TypeOK
    <3>2. UNCHANGED <<keys, channel, job>> BY <1>6, <2>1 DEF EndWorker
    <3>3. Exact(e) BY DEF Filters
    <3>4. Exact(e)' BY <3>1, <3>2, <3>3 DEF Exact
    <3>5. QED BY <2>1, <3>2, <3>4, OwnFilter DEF TypeOK
  <2>2. CASE pc[e][w] # "idle" /\ PutDown(e, w, "off")
    <3>1. w \in Working(e) BY <1>6, <2>2 DEF EndWorker, Working, TypeOK
    <3>2. QED BY <1>6, <2>2, <3>1, PutDownFilter DEF EndWorker
  <2>3. QED BY <1>6, <2>1, <2>2 DEF EndWorker
<1>7. CASE ChannelClosed(e, w)
  <2>1. Working(e)' = Working(e) BY <1>7 DEF ChannelClosed, Working, TypeOK
  <2>2. UNCHANGED <<keys, channel, job>> BY <1>7 DEF ChannelClosed, queueVars
  <2>3. Exact(e) BY DEF Filters
  <2>4. Exact(e)' BY <2>1, <2>2, <2>3 DEF Exact
  <2>5. QED BY <1>7, <2>2, <2>4, OwnFilter DEF ChannelClosed, TypeOK
<1>8. QED BY <1>1, <1>2, <1>3, <1>4, <1>5, <1>6, <1>7 DEF WorkerStep

LEMMA StepFilters == IInv /\ [Next]_vars => Filters'
<1> SUFFICES ASSUME IInv, [Next]_vars PROVE Filters' OBVIOUS
<1>0. TypeOK /\ Filters BY DEF IInv
<1>1. CASE UNCHANGED <<queueVars, workerVars>> BY <1>0, <1>1, FilterKept
<1>2. ASSUME NEW e \in Executors, Start(e) \/ Crash(e) PROVE Filters'
  <2>1. keys'[e] = {} /\ channel'[e] = <<>> BY <1>0, <1>2 DEF Start, Crash, TypeOK
  <2>2. \A w \in Workers : pc'[e][w] \in {"off", "idle"}
    BY <1>0, <1>2 DEF Start, Crash, TypeOK
  <2>3. Exact(e)' BY <2>1, <2>2, FilterEmpty
  <2>4. QED BY <1>0, <1>2, <2>3, OwnFilter DEF Start, Crash, TypeOK
<1>3. ASSUME NEW e \in Executors, Poll(e) \/ EndLoop(e) \/ Stop(e) \/ LoopPanic(e)
      PROVE  UNCHANGED <<queueVars, workerVars>>
  BY <1>3 DEF Poll, EndLoop, Stop, LoopPanic
<1>4. ASSUME NEW e \in Executors, Enqueue(e) PROVE Filters'
  BY <1>0, <1>4, EnqueueFilter
<1>5. ASSUME NEW e \in Executors, NEW w \in Workers, WorkerStep(e, w) \/ ClaimError(e, w)
      PROVE  Filters'
  BY <1>0, <1>5, WorkerFilter
<1>6. CASE Tick \/ Change
  BY <1>1, <1>6 DEF Tick, Change, Switch, Observe
<1>7. CASE UNCHANGED vars
  BY <1>1, <1>7 DEF vars
<1>8. QED BY <1>1, <1>2, <1>3, <1>4, <1>5, <1>6, <1>7 DEF Next, LoopStep

----------------------------------------------------------------------------
LEMMA Inductive == Spec => []IInv
<1>1. IInv /\ [Next]_vars => IInv' BY StepType, StepCycles, StepFilters DEF IInv
<1>2. QED BY InitIInv, <1>1, PTL DEF Spec

(* The values of every variable are of the type the code gives them        *)
(* (reset_warmup.rs:58, account_reset_warmups.rs:17).                      *)
THEOREM WarmupTypeCorrect == Spec => []TypeOK
<1>1. IInv => TypeOK BY DEF IInv
<1>2. QED BY <1>1, Inductive, PTL

(* A cycle of an account is used once, by one warmup or by the traffic     *)
(* that was seen to have started it (account_reset_warmups.rs:65, 191).    *)
THEOREM CycleUsedOnce == Spec => []OncePerCycle
<1>1. IInv => OncePerCycle BY DEF IInv, Cycles, Ahead, OncePerCycle
<1>2. QED BY <1>1, Inductive, PTL

(* The duplicate filter names what is in the channel and what the workers  *)
(* have in hand, each once (reset_warmup.rs:77 and 92).                    *)
THEOREM KeysAlwaysExact == Spec => []KeysExact
<1>1. IInv => KeysExact
  <2> SUFFICES ASSUME IInv, NEW e \in Executors, Exact(e)
               PROVE  /\ keys[e] = {Key(channel[e][i]) : i \in DOMAIN channel[e]}
                                     \cup {Key(job[e][w]) : w \in Working(e)}
                      /\ \A i, j \in DOMAIN channel[e] :
                           Key(channel[e][i]) = Key(channel[e][j]) => i = j
                      /\ \A v, w \in Working(e) : Key(job[e][v]) = Key(job[e][w]) => v = w
                      /\ \A i \in DOMAIN channel[e], w \in Working(e) :
                           Key(channel[e][i]) # Key(job[e][w])
    BY DEF IInv, Filters, KeysExact
  <2>1. QED BY DEF Exact, KeysOf, NoRepeat
<1>2. QED BY <1>1, Inductive, PTL
=============================================================================
