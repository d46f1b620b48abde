---------------------- MODULE CandidateFailoverProofs ----------------------
(***************************************************************************)
(* For any number of requests, accounts and candidates and any limits: the *)
(* counters and gates of the accounts are exact, and the last candidate    *)
(* decides.                                                                *)
(***************************************************************************)
EXTENDS CandidateFailover, FiniteSetTheorems, TLAPS

(* A request that was sent to its last candidate never walks on.  This     *)
(* needs to know where a failover may stand, and that a request with a     *)
(* result is on its way out.                                               *)
Walks(r) ==
  /\ sentLast[r] => at[r] = Len(Candidates[r]) /\ pc[r] \notin {"next", "gate", "wait", "enter"}
  /\ pc[r] \in {"drop", "free"} /\ after[r] = "next" => More(r)
  /\ pc[r] = "decide" /\ decision[r] = "failover" => More(r)

Settled(r) ==
  /\ result[r] # "none" => pc[r] \in {"deliver", "drop", "free", "finish", "done"}
  /\ result[r] # "none" /\ pc[r] \in {"drop", "free"} => after[r] # "next"
  /\ result[r] = "exhausted" => ~sentLast[r]
  /\ result[r] = "error" => at[r] = Len(Candidates[r])

WalksOn == \A r \in Requests : Walks(r) /\ Settled(r)

Counts == \A a \in Accounts :
  /\ inflight[a] = Cardinality(Inflight(a))
  /\ gate[a] = {r \in Requests : Holding(r) /\ Account(r) = a}
  /\ Cardinality(gate[a]) <= GateLimit

IInv == TypeOK /\ Counts /\ WalksOn

----------------------------------------------------------------------------
(* The types of the data a request works on.                               *)
LEMMA AccountType ==
  ASSUME TypeOK, NEW r \in Requests, at[r] <= Len(Candidates[r])
  PROVE  Account(r) \in Accounts
BY CandidatesAssumption DEF TypeOK, Located, Account

LEMMA LengthType ==
  ASSUME NEW r \in Requests
  PROVE  Candidates[r] \in Seq(Accounts) /\ Len(Candidates[r]) \in Nat
BY CandidatesAssumption

LEMMA InflightFinite ==
  ASSUME NEW a \in Accounts
  PROVE  IsFiniteSet(Inflight(a)) /\ Cardinality(Inflight(a)) \in Nat
BY RequestsAssumption, FS_Subset, FS_CardinalityType DEF Inflight

LEMMA GateFinite ==
  ASSUME TypeOK, NEW a \in Accounts
  PROVE  IsFiniteSet(gate[a]) /\ Cardinality(gate[a]) \in Nat
BY RequestsAssumption, FS_Subset, FS_CardinalityType DEF TypeOK

(* The counted requests of an account hold its gate.                       *)
LEMMA CountsBound == TypeOK /\ Counts => InflightExact
<1> SUFFICES ASSUME TypeOK, Counts, NEW a \in Accounts
             PROVE  inflight[a] <= GateLimit
  BY DEF InflightExact, Counts
<1>1. Inflight(a) \subseteq gate[a]
  BY DEF Counts, Inflight, Holding
<1>2. Cardinality(Inflight(a)) <= Cardinality(gate[a])
  BY <1>1, GateFinite, FS_Subset
<1>3. inflight[a] = Cardinality(Inflight(a)) /\ Cardinality(gate[a]) <= GateLimit
  BY DEF Counts
<1>4. QED BY <1>2, <1>3, GateFinite, InflightFinite, LimitsAssumption

----------------------------------------------------------------------------
(* A step of one request outside Enter, Admit, Drop and FreeGate leaves    *)
(* the counted requests and the holders as they are.                       *)
LEMMA CountsKept ==
  ASSUME TypeOK, Counts, NEW r \in Requests,
         \A q \in Requests \ {r} : pc'[q] = pc[q] /\ at'[q] = at[q],
         Counted(r)' <=> Counted(r), Holding(r)' <=> Holding(r),
         Holding(r) => at'[r] = at[r],
         UNCHANGED <<gate, inflight>>
  PROVE  Counts'
<1> SUFFICES ASSUME NEW a \in Accounts
             PROVE  /\ Inflight(a)' = Inflight(a)
                    /\ {q \in Requests : Holding(q) /\ Account(q) = a}'
                         = {q \in Requests : Holding(q) /\ Account(q) = a}
  BY DEF Counts
<1>1. \A q \in Requests : (Counted(q)' <=> Counted(q)) /\ (Holding(q)' <=> Holding(q))
  BY DEF Counted, Holding
<1>2. \A q \in Requests : Holding(q) => Account(q)' = Account(q)
  BY DEF Account
<1>3. \A q \in Requests : Counted(q) => Holding(q)
  BY DEF Holding
<1>4. QED BY <1>1, <1>2, <1>3 DEF Inflight

(* The values a step may give to the variables of one request.             *)
LEMMA Updates ==
  ASSUME TypeOK, NEW r \in Requests
  PROVE  /\ \A l \in States : [pc EXCEPT ![r] = l] \in [Requests -> States]
         /\ \A l \in {"next", "done", "finish"} :
              [after EXCEPT ![r] = l] \in [Requests -> {"next", "done", "finish"}]
         /\ \A t \in SUBSET {"same", "strip"} :
              [tries EXCEPT ![r] = t] \in [Requests -> SUBSET {"same", "strip"}]
         /\ \A d \in Decisions : [decision EXCEPT ![r] = d] \in [Requests -> Decisions]
         /\ \A x \in Results : [result EXCEPT ![r] = x] \in [Requests -> Results]
         /\ [at EXCEPT ![r] = @ + 1] \in [Requests -> Nat]
         /\ \A b \in BOOLEAN : [sentLast EXCEPT ![r] = @ \/ b] \in [Requests -> BOOLEAN]
BY DEF TypeOK

(* Names of places, decisions and results are what they are.               *)
LEMMA Names ==
  /\ "next" \in States /\ "gate" \in States /\ "wait" \in States /\ "enter" \in States
  /\ "attempt" \in States /\ "decide" \in States /\ "preflight" \in States
  /\ "deliver" \in States /\ "drop" \in States /\ "free" \in States
  /\ "finish" \in States /\ "done" \in States
  /\ "none" \in Decisions
  /\ "ok" \in Results /\ "error" \in Results /\ "terminal" \in Results
  /\ "exhausted" \in Results /\ "cancelled" \in Results /\ "expired" \in Results
  /\ "unlogged" \in Results
BY DEF States, Inside, Decisions, Results

LEMMA AccountUpdates ==
  ASSUME TypeOK, NEW a
  PROVE  /\ \A m \in BOOLEAN : [cooling EXCEPT ![a] = @ \/ m] \in [Accounts -> BOOLEAN]
         /\ [cooling EXCEPT ![a] = FALSE] \in [Accounts -> BOOLEAN]
         /\ [inflight EXCEPT ![a] = @ + 1] \in [Accounts -> Nat]
         /\ [inflight EXCEPT ![a] = IF @ > 1 THEN @ - 1 ELSE 0] \in [Accounts -> Nat]
         /\ \A r \in Requests : [gate EXCEPT ![a] = @ \cup {r}] \in [Accounts -> SUBSET Requests]
         /\ \A r \in Requests : [gate EXCEPT ![a] = @ \ {r}] \in [Accounts -> SUBSET Requests]
<1>1. /\ \A m \in BOOLEAN : [cooling EXCEPT ![a] = @ \/ m] \in [Accounts -> BOOLEAN]
      /\ [cooling EXCEPT ![a] = FALSE] \in [Accounts -> BOOLEAN]
  <2>1. cooling \in [Accounts -> BOOLEAN]
    BY DEF TypeOK
  <2>2. ASSUME NEW m \in BOOLEAN PROVE (cooling[a] \/ m) \in BOOLEAN
    OBVIOUS
  <2>3. \A x \in BOOLEAN : [cooling EXCEPT ![a] = x] \in [Accounts -> BOOLEAN]
    BY <2>1
  <2>4. ASSUME NEW m \in BOOLEAN
        PROVE  [cooling EXCEPT ![a] = @ \/ m] \in [Accounts -> BOOLEAN]
    BY <2>2, <2>3, Zenon
  <2>5. [cooling EXCEPT ![a] = FALSE] \in [Accounts -> BOOLEAN]
    BY <2>3
  <2>6. QED BY <2>4, <2>5
<1>2. [inflight EXCEPT ![a] = @ + 1] \in [Accounts -> Nat]
  <2>1. inflight \in [Accounts -> Nat]
    BY DEF TypeOK
  <2>2. \A b \in Accounts : inflight[b] + 1 \in Nat
    BY <2>1
  <2>3. QED BY <2>1, <2>2
<1>3. [inflight EXCEPT ![a] = IF @ > 1 THEN @ - 1 ELSE 0] \in [Accounts -> Nat]
  <2>1. inflight \in [Accounts -> Nat]
    BY DEF TypeOK
  <2>2. \A b \in Accounts : (IF inflight[b] > 1 THEN inflight[b] - 1 ELSE 0) \in Nat
    BY <2>1
  <2>3. QED BY <2>1, <2>2
<1>4. \A r \in Requests : [gate EXCEPT ![a] = @ \cup {r}] \in [Accounts -> SUBSET Requests]
  BY DEF TypeOK
<1>5. \A r \in Requests : [gate EXCEPT ![a] = @ \ {r}] \in [Accounts -> SUBSET Requests]
  BY DEF TypeOK
<1>6. QED BY <1>1, <1>2, <1>3, <1>4, <1>5

(* A step of one request keeps Located when its own place stays in range.  *)
LEMMA LocatedStep ==
  ASSUME Located, NEW r \in Requests,
         \A q \in Requests \ {r} : pc'[q] = pc[q] /\ at'[q] = at[q],
         at'[r] \in 1 .. Len(Candidates[r]) + 1,
         pc'[r] \notin {"next", "done"} => at'[r] <= Len(Candidates[r])
  PROVE  Located'
BY DEF Located

LEMMA PlaceStep ==
  ASSUME TypeOK, NEW r \in Requests, NEW l, pc' = [pc EXCEPT ![r] = l],
         \/ at' = at /\ (pc[r] \notin {"next", "done"} \/ l \in {"next", "done"}
                           \/ at[r] <= Len(Candidates[r]))
         \/ at' = [at EXCEPT ![r] = @ + 1] /\ l = "next" /\ at[r] <= Len(Candidates[r])
  PROVE  Located'
<1>1. /\ \A q \in Requests \ {r} : pc'[q] = pc[q] /\ at'[q] = at[q]
      /\ pc'[r] = l
  BY DEF TypeOK
<1>2. at[r] \in Nat /\ at[r] \in 1 .. Len(Candidates[r]) + 1
  BY DEF TypeOK, Located
<1>3. at'[r] = at[r] \/ (at'[r] = at[r] + 1 /\ at[r] <= Len(Candidates[r]))
  BY DEF TypeOK
<1>4. at'[r] \in 1 .. Len(Candidates[r]) + 1
  BY <1>2, <1>3, LengthType
<1>5. ASSUME l \notin {"next", "done"}
      PROVE  at'[r] <= Len(Candidates[r])
  BY <1>5 DEF TypeOK, Located
<1>6. QED BY <1>1, <1>4, <1>5, LocatedStep DEF TypeOK

LEMMA TypeStep == TypeOK /\ [Next]_vars => TypeOK'
<1> SUFFICES ASSUME TypeOK, [Next]_vars PROVE TypeOK'
  OBVIOUS
<1> USE DEF Goto, EndWith
<1>1. ASSUME NEW r \in Requests, Step(r) \/ Admit(r) \/ Interrupt(r) PROVE TypeOK'
  <2> USE Names
  <2>1. CASE Exhausted(r)
    <3>1. Located'
      BY <2>1, PlaceStep DEF Exhausted
    <3>2. QED BY <2>1, <3>1, Updates DEF Exhausted, TypeOK
  <2>2. CASE Choose(r)
    <3>1. CASE Skippable(r)
      <4>1. /\ pc' = [pc EXCEPT ![r] = "next"]
            /\ at' = [at EXCEPT ![r] = @ + 1] /\ at[r] <= Len(Candidates[r])
        BY <2>2, <3>1 DEF Choose, TypeOK
      <4>2. Located'  BY <4>1, PlaceStep
      <4>3. QED BY <2>2, <4>1, <4>2, Updates DEF Choose, TypeOK
    <3>2. CASE ~Skippable(r)
      <4>1. pc' = [pc EXCEPT ![r] = "gate"] /\ at' = at /\ at[r] <= Len(Candidates[r])
        BY <2>2, <3>2 DEF Choose
      <4>2. Located'  BY <4>1, PlaceStep
      <4>3. QED BY <2>2, <4>1, <4>2, Updates DEF Choose, TypeOK
    <3>3. QED BY <3>1, <3>2
  <2>3. CASE Wait(r)
    <3>1. Located'
      BY <2>3, PlaceStep DEF Wait
    <3>2. QED BY <2>3, <3>1, Updates DEF Wait, TypeOK
  <2>4. CASE Enter(r)
    <3>1. Located'
      BY <2>4, PlaceStep DEF Enter
    <3>2. QED BY <2>4, <3>1, Updates, AccountUpdates DEF Enter, TypeOK
  <2>5. CASE Attempt(r)
    <3>1. Located'
      BY <2>5, PlaceStep DEF Attempt
    <3>2. PICK d \in Decisions \ {"none"}, m \in BOOLEAN :
            /\ decision' = [decision EXCEPT ![r] = d]
            /\ IF d = "ok" THEN cooling' = [cooling EXCEPT ![Account(r)] = FALSE]
               ELSE cooling' = [cooling EXCEPT ![Account(r)] = @ \/ m]
      BY <2>5 DEF Attempt, Mark
    <3>3. cooling' \in [Accounts -> BOOLEAN]
      <4>1. CASE d = "ok"   BY <3>2, <4>1, AccountUpdates
      <4>2. CASE d # "ok"
        <5>1. cooling' = [cooling EXCEPT ![Account(r)] = @ \/ m]
          BY <3>2, <4>2
        <5>2. QED BY <5>1, AccountUpdates
      <4>3. QED BY <4>1, <4>2
    <3>4. sentLast' \in [Requests -> BOOLEAN]
      BY <2>5, Updates DEF Attempt, More
    <3>5. decision' \in [Requests -> Decisions]
      BY <3>2, Updates
    <3>6. QED BY <2>5, <3>1, <3>3, <3>4, <3>5, Updates DEF Attempt, TypeOK
  <2>6. CASE Again(r)
    <3>1. Located'
      BY <2>6, PlaceStep DEF Again
    <3>2. \/ tries' = [tries EXCEPT ![r] = {"same"}]
          \/ tries' = [tries EXCEPT ![r] = tries[r] \cup {"strip"}]
      BY <2>6 DEF Again
    <3>3. tries[r] \cup {"strip"} \in SUBSET {"same", "strip"}
      BY DEF TypeOK
    <3>4. tries' \in [Requests -> SUBSET {"same", "strip"}]
      BY <3>2, <3>3, Updates
    <3>5. QED BY <2>6, <3>1, <3>4, Updates DEF Again, TypeOK
  <2>7. CASE FailOver(r)
    <3>1. Located'
      BY <2>7, PlaceStep DEF FailOver, Leave
    <3>2. QED BY <2>7, <3>1, Updates DEF FailOver, Leave, TypeOK
  <2>8. CASE FollowTerminal(r)
    <3>1. Located'
      BY <2>8, PlaceStep DEF FollowTerminal, Leave
    <3>2. cooling' \in [Accounts -> BOOLEAN]
      BY <2>8, AccountUpdates DEF FollowTerminal, Mark
    <3>3. QED BY <2>8, <3>1, <3>2, Updates DEF FollowTerminal, Leave, TypeOK
  <2>9. CASE RespondTerminal(r)
    <3>1. Located'
      BY <2>9, PlaceStep DEF RespondTerminal, Leave
    <3>2. QED BY <2>9, <3>1, Updates DEF RespondTerminal, Leave, TypeOK
  <2>10. CASE RespondUpstream(r)
    <3>1. Located'
      BY <2>10, PlaceStep DEF RespondUpstream
    <3>2. QED BY <2>10, <3>1, Updates DEF RespondUpstream, TypeOK
  <2>11. CASE PreflightFailOver(r)
    <3>1. Located'
      BY <2>11, PlaceStep DEF PreflightFailOver, Leave
    <3>2. cooling' \in [Accounts -> BOOLEAN]
      <4>1. PICK m \in BOOLEAN : Mark(Account(r), m)
        BY <2>11 DEF PreflightFailOver
      <4>2. QED BY <4>1, AccountUpdates DEF Mark
    <3>3. QED BY <2>11, <3>1, <3>2, Updates DEF PreflightFailOver, Leave, TypeOK
  <2>12. CASE Deliver(r)
    <3>1. Located'
      BY <2>12, PlaceStep DEF Deliver
    <3>2. QED BY <2>12, <3>1, Updates DEF Deliver, TypeOK
  <2>13. CASE Delivered(r)
    <3>1. Located'
      BY <2>13, PlaceStep DEF Delivered, Leave
    <3>2. QED BY <2>13, <3>1, Updates DEF Delivered, Leave, TypeOK
  <2>14. CASE Drop(r)
    <3>1. Located'
      BY <2>14, PlaceStep DEF Drop
    <3>2. QED BY <2>14, <3>1, Updates, AccountUpdates DEF Drop, TypeOK
  <2>15. CASE FreeGate(r)
    <3>1. after[r] \in {"next", "done", "finish"} /\ at[r] <= Len(Candidates[r])
      BY <2>15 DEF FreeGate, TypeOK, Located
    <3>2. after[r] \in States
      BY <3>1
    <3>3. Located'
      BY <2>15, <3>1, PlaceStep DEF FreeGate, Proceed
    <3>4. at' \in [Requests -> Nat]
      BY <2>15, Updates DEF FreeGate, Proceed, TypeOK
    <3>5. QED BY <2>15, <3>2, <3>3, <3>4, Updates, AccountUpdates DEF FreeGate, Proceed, TypeOK
  <2>16. CASE Finish(r)
    <3>1. Located'
      BY <2>16, PlaceStep DEF Finish
    <3>2. cooling' \in [Accounts -> BOOLEAN]
      BY <2>16, AccountUpdates DEF Finish, Mark
    <3>3. QED BY <2>16, <3>1, <3>2, Updates DEF Finish, TypeOK
  <2>17. CASE Admit(r)
    <3>1. Located'
      BY <2>17, PlaceStep DEF Admit
    <3>2. QED BY <2>17, <3>1, Updates, AccountUpdates DEF Admit, TypeOK
  <2>18. CASE EndBefore(r)
    <3>1. Located'
      BY <2>18, PlaceStep DEF EndBefore
    <3>2. result' \in [Requests -> Results]
      BY <2>18, Updates DEF EndBefore
    <3>3. QED BY <2>18, <3>1, <3>2, Updates DEF EndBefore, TypeOK
  <2>19. CASE GateTimeout(r)
    <3>1. at[r] <= Len(Candidates[r])
      BY <2>19 DEF GateTimeout, TypeOK, Located
    <3>2. Located'
      BY <2>19, <3>1, PlaceStep DEF GateTimeout
    <3>3. QED BY <2>19, <3>2, Updates DEF GateTimeout, TypeOK
  <2>20. CASE GateCancelled(r)
    <3>1. Located'
      BY <2>20, PlaceStep DEF GateCancelled
    <3>2. QED BY <2>20, <3>1, Updates DEF GateCancelled, TypeOK
  <2>21. CASE EndCancelled(r)
    <3>1. Located'
      BY <2>21, PlaceStep DEF EndCancelled, Leave
    <3>2. QED BY <2>21, <3>1, Updates DEF EndCancelled, Leave, TypeOK
  <2>22. QED
    BY <1>1, <2>1, <2>2, <2>3, <2>4, <2>5, <2>6, <2>7, <2>8, <2>9, <2>10, <2>11, <2>12, <2>13, <2>14, <2>15, <2>16, <2>17, <2>18, <2>19, <2>20, <2>21 DEF Step, Interrupt
<1>2. ASSUME NEW a \in Accounts, Rest(a) PROVE TypeOK'
  BY <1>2, AccountUpdates DEF Rest, walk, TypeOK, Located
<1>3. CASE UNCHANGED vars
  BY <1>3 DEF vars, walk, TypeOK, Located
<1>4. QED BY <1>1, <1>2, <1>3 DEF Next

----------------------------------------------------------------------------
(* Admit takes a slot that is free, Enter counts who holds one, and Drop   *)
(* and FreeGate give both back; no other step touches them.                *)
LEMMA AdmitCounts ==
  ASSUME TypeOK, Counts, NEW r \in Requests, Admit(r)
  PROVE  Counts'
<1> DEFINE b == Account(r)
<1>1. b \in Accounts
  BY AccountType DEF Admit, TypeOK, Located
<1>2. /\ pc' = [pc EXCEPT ![r] = "enter"] /\ at' = at /\ inflight' = inflight
      /\ gate' = [gate EXCEPT ![b] = @ \cup {r}]
  BY DEF Admit, Goto
<1>3. ~Holding(r) /\ Holding(r)' /\ ~Counted(r) /\ ~Counted(r)'
  BY <1>2 DEF Admit, Holding, Counted, Inside, TypeOK
<1>4. \A q \in Requests \ {r} : (Holding(q)' <=> Holding(q)) /\ (Counted(q)' <=> Counted(q))
  BY <1>2 DEF Holding, Counted, TypeOK
<1>5. \A q \in Requests : Account(q)' = Account(q)
  BY <1>2 DEF Account
<1> SUFFICES ASSUME NEW a \in Accounts
             PROVE  /\ inflight'[a] = Cardinality(Inflight(a)')
                    /\ gate'[a] = {q \in Requests : Holding(q)' /\ Account(q)' = a}
                    /\ Cardinality(gate'[a]) <= GateLimit
  BY DEF Counts
<1>6. Inflight(a)' = Inflight(a)
  BY <1>3, <1>4, <1>5 DEF Inflight
<1>7. gate'[a] = IF a = b THEN gate[a] \cup {r} ELSE gate[a]
  BY <1>1, <1>2 DEF TypeOK
<1>8. gate[a] = {q \in Requests : Holding(q) /\ Account(q) = a}
  BY DEF Counts
<1>9. gate'[a] = {q \in Requests : Holding(q)' /\ Account(q)' = a}
  <2>1. CASE a = b    BY <2>1, <1>3, <1>4, <1>5, <1>7, <1>8
  <2>2. CASE a # b    BY <2>2, <1>3, <1>4, <1>5, <1>7, <1>8
  <2>3. QED BY <2>1, <2>2
<1>10. Cardinality(gate'[a]) <= GateLimit
  <2>1. CASE a = b
    <3>1. r \notin gate[a]
      BY <1>3, <1>8
    <3>2. Cardinality(gate[a] \cup {r}) = Cardinality(gate[a]) + 1
      BY <3>1, GateFinite, FS_AddElement
    <3>3. Cardinality(gate[a]) < GateLimit
      BY <2>1 DEF Admit, Free
    <3>4. QED BY <2>1, <1>7, <3>2, <3>3, GateFinite, LimitsAssumption
  <2>2. CASE a # b
    BY <2>2, <1>7 DEF Counts
  <2>3. QED BY <2>1, <2>2
<1>11. QED BY <1>2, <1>6, <1>9, <1>10 DEF Counts

LEMMA EnterCounts ==
  ASSUME TypeOK, Counts, NEW r \in Requests, Enter(r)
  PROVE  Counts'
<1> DEFINE b == Account(r)
<1>1. b \in Accounts
  BY AccountType DEF Enter, TypeOK, Located
<1>2. /\ pc' = [pc EXCEPT ![r] = "attempt"] /\ at' = at /\ gate' = gate
      /\ inflight' = [inflight EXCEPT ![b] = @ + 1]
  BY DEF Enter, Goto
<1>3. Holding(r) /\ Holding(r)' /\ ~Counted(r) /\ Counted(r)'
  BY <1>2 DEF Enter, Holding, Counted, Inside, TypeOK
<1>4. \A q \in Requests \ {r} : (Holding(q)' <=> Holding(q)) /\ (Counted(q)' <=> Counted(q))
  BY <1>2 DEF Holding, Counted, TypeOK
<1>5. \A q \in Requests : Account(q)' = Account(q)
  BY <1>2 DEF Account
<1> SUFFICES ASSUME NEW a \in Accounts
             PROVE  /\ inflight'[a] = Cardinality(Inflight(a)')
                    /\ gate'[a] = {q \in Requests : Holding(q)' /\ Account(q)' = a}
                    /\ Cardinality(gate'[a]) <= GateLimit
  BY DEF Counts
<1>6. {q \in Requests : Holding(q)' /\ Account(q)' = a}
        = {q \in Requests : Holding(q) /\ Account(q) = a}
  BY <1>3, <1>4, <1>5
<1>7. inflight'[a] = Cardinality(Inflight(a)')
  <2>1. CASE a = b
    <3>1. Inflight(a)' = Inflight(a) \cup {r} /\ r \notin Inflight(a)
      BY <2>1, <1>3, <1>4, <1>5 DEF Inflight
    <3>2. Cardinality(Inflight(a) \cup {r}) = Cardinality(Inflight(a)) + 1
      BY <3>1, InflightFinite, FS_AddElement
    <3>3. inflight'[a] = inflight[a] + 1
      BY <1>1, <1>2, <2>1 DEF TypeOK
    <3>4. QED BY <3>1, <3>2, <3>3 DEF Counts
  <2>2. CASE a # b
    <3>1. Inflight(a)' = Inflight(a)
      BY <2>2, <1>3, <1>4, <1>5 DEF Inflight
    <3>2. inflight'[a] = inflight[a]
      BY <1>2, <2>2 DEF TypeOK
    <3>3. QED BY <3>1, <3>2 DEF Counts
  <2>3. QED BY <2>1, <2>2
<1>8. QED BY <1>2, <1>6, <1>7 DEF Counts

LEMMA DropCounts ==
  ASSUME TypeOK, Counts, NEW r \in Requests, Drop(r)
  PROVE  Counts'
<1> DEFINE b == Account(r)
<1>1. b \in Accounts
  BY AccountType DEF Drop, TypeOK, Located
<1>2. /\ pc' = [pc EXCEPT ![r] = "free"] /\ at' = at /\ gate' = gate
      /\ inflight' = [inflight EXCEPT ![b] = IF @ > 1 THEN @ - 1 ELSE 0]
  BY DEF Drop, Goto
<1>3. Holding(r) /\ Holding(r)' /\ Counted(r) /\ ~Counted(r)'
  BY <1>2 DEF Drop, Holding, Counted, Inside, TypeOK
<1>4. \A q \in Requests \ {r} : (Holding(q)' <=> Holding(q)) /\ (Counted(q)' <=> Counted(q))
  BY <1>2 DEF Holding, Counted, TypeOK
<1>5. \A q \in Requests : Account(q)' = Account(q)
  BY <1>2 DEF Account
<1> SUFFICES ASSUME NEW a \in Accounts
             PROVE  /\ inflight'[a] = Cardinality(Inflight(a)')
                    /\ gate'[a] = {q \in Requests : Holding(q)' /\ Account(q)' = a}
                    /\ Cardinality(gate'[a]) <= GateLimit
  BY DEF Counts
<1>6. {q \in Requests : Holding(q)' /\ Account(q)' = a}
        = {q \in Requests : Holding(q) /\ Account(q) = a}
  BY <1>3, <1>4, <1>5
<1>7. inflight'[a] = Cardinality(Inflight(a)')
  <2>1. CASE a = b
    <3>1. Inflight(a)' = Inflight(a) \ {r} /\ r \in Inflight(a)
      BY <2>1, <1>3, <1>4, <1>5 DEF Inflight
    <3>2. Cardinality(Inflight(a) \ {r}) = Cardinality(Inflight(a)) - 1
      BY <3>1, InflightFinite, FS_RemoveElement
    <3>3. Cardinality(Inflight(a) \ {r}) \in Nat
      BY InflightFinite, FS_RemoveElement, FS_CardinalityType
    <3>4. inflight[a] = Cardinality(Inflight(a)) /\ inflight[a] \in Nat
      BY InflightFinite DEF Counts
    <3>5. inflight'[a] = IF inflight[a] > 1 THEN inflight[a] - 1 ELSE 0
      BY <1>1, <1>2, <2>1 DEF TypeOK
    <3>6. inflight'[a] = inflight[a] - 1
      BY <3>2, <3>3, <3>4, <3>5
    <3>7. QED BY <3>1, <3>2, <3>4, <3>6
  <2>2. CASE a # b
    <3>1. Inflight(a)' = Inflight(a)
      BY <2>2, <1>3, <1>4, <1>5 DEF Inflight
    <3>2. inflight'[a] = inflight[a]
      BY <1>2, <2>2 DEF TypeOK
    <3>3. QED BY <3>1, <3>2 DEF Counts
  <2>3. QED BY <2>1, <2>2
<1>8. QED BY <1>2, <1>6, <1>7 DEF Counts

LEMMA FreeGateCounts ==
  ASSUME TypeOK, Counts, NEW r \in Requests, FreeGate(r)
  PROVE  Counts'
<1> DEFINE b == Account(r)
<1>1. b \in Accounts
  BY AccountType DEF FreeGate, TypeOK, Located
<1>2. /\ pc' = [pc EXCEPT ![r] = after[r]] /\ inflight' = inflight
      /\ gate' = [gate EXCEPT ![b] = @ \ {r}]
      /\ \A q \in Requests \ {r} : at'[q] = at[q]
      /\ after[r] \in {"next", "done", "finish"}
  BY DEF FreeGate, Proceed, Goto, TypeOK
<1>3. Holding(r) /\ ~Holding(r)' /\ ~Counted(r) /\ ~Counted(r)'
  BY <1>2 DEF FreeGate, Holding, Counted, Inside, TypeOK
<1>4. \A q \in Requests \ {r} : (Holding(q)' <=> Holding(q)) /\ (Counted(q)' <=> Counted(q))
  BY <1>2 DEF Holding, Counted, TypeOK
<1>5. \A q \in Requests \ {r} : Account(q)' = Account(q)
  BY <1>2 DEF Account
<1> SUFFICES ASSUME NEW a \in Accounts
             PROVE  /\ inflight'[a] = Cardinality(Inflight(a)')
                    /\ gate'[a] = {q \in Requests : Holding(q)' /\ Account(q)' = a}
                    /\ Cardinality(gate'[a]) <= GateLimit
  BY DEF Counts
<1>6. Inflight(a)' = Inflight(a)
  BY <1>3, <1>4, <1>5 DEF Inflight
<1>7. gate'[a] = IF a = b THEN gate[a] \ {r} ELSE gate[a]
  BY <1>1, <1>2 DEF TypeOK
<1>8. gate[a] = {q \in Requests : Holding(q) /\ Account(q) = a}
  BY DEF Counts
<1>9. gate'[a] = {q \in Requests : Holding(q)' /\ Account(q)' = a}
  <2>1. CASE a = b    BY <2>1, <1>3, <1>4, <1>5, <1>7, <1>8
  <2>2. CASE a # b    BY <2>2, <1>3, <1>4, <1>5, <1>7, <1>8
  <2>3. QED BY <2>1, <2>2
<1>10. Cardinality(gate'[a]) <= Cardinality(gate[a])
  BY <1>7, GateFinite, FS_Subset
<1>11. Cardinality(gate'[a]) <= GateLimit
  <2>1. Cardinality(gate'[a]) \in Nat
    BY <1>7, GateFinite, FS_Subset, FS_CardinalityType
  <2>2. QED BY <2>1, <1>10, GateFinite, LimitsAssumption DEF Counts
<1>12. QED BY <1>2, <1>6, <1>9, <1>11 DEF Counts

LEMMA CountsStep == TypeOK /\ Counts /\ [Next]_vars => Counts'
<1> SUFFICES ASSUME TypeOK, Counts, [Next]_vars PROVE Counts'
  OBVIOUS
<1>1. ASSUME NEW r \in Requests, Step(r) \/ Admit(r) \/ Interrupt(r) PROVE Counts'
  <2>1. CASE Enter(r)      BY <2>1, EnterCounts
  <2>2. CASE Drop(r)       BY <2>2, DropCounts
  <2>3. CASE FreeGate(r)   BY <2>3, FreeGateCounts
  <2>4. CASE Admit(r)      BY <2>4, AdmitCounts
  <2>5. CASE Choose(r) \/ GateTimeout(r)
    <3>1. /\ \A q \in Requests \ {r} : pc'[q] = pc[q] /\ at'[q] = at[q]
          /\ pc[r] \in {"next", "wait"} /\ pc'[r] \in {"next", "gate"}
          /\ UNCHANGED <<gate, inflight>>
      BY <2>5 DEF Choose, GateTimeout, Goto, TypeOK
    <3>2. QED BY <3>1, CountsKept DEF Holding, Counted, Inside
  <2>6. CASE Attempt(r)
    <3>1. pc' = [pc EXCEPT ![r] = "decide"] /\ pc[r] = "attempt" /\ UNCHANGED <<at, gate, inflight>>
      BY <2>6 DEF Attempt, Goto
    <3>2. /\ \A q \in Requests \ {r} : pc'[q] = pc[q] /\ at'[q] = at[q]
          /\ pc'[r] = "decide" /\ at'[r] = at[r]
      BY <3>1 DEF TypeOK
    <3>3. QED BY <3>1, <3>2, CountsKept DEF Holding, Counted, Inside
  <2>7. CASE Again(r) \/ FailOver(r) \/ FollowTerminal(r) \/ RespondTerminal(r)
             \/ RespondUpstream(r) \/ PreflightFailOver(r) \/ Deliver(r) \/ Delivered(r)
             \/ EndCancelled(r)
    <3>1. /\ \A q \in Requests \ {r} : pc'[q] = pc[q]
          /\ pc[r] \in Inside /\ pc'[r] \in Inside
          /\ UNCHANGED <<at, gate, inflight>>
      BY <2>7 DEF Again, FailOver, FollowTerminal, RespondTerminal, RespondUpstream,
                  PreflightFailOver, Deliver, Delivered, EndCancelled, Leave, Goto, Inside, TypeOK
    <3>2. QED BY <3>1, CountsKept DEF Holding, Counted
  <2>8. CASE Exhausted(r) \/ Wait(r) \/ Finish(r) \/ EndBefore(r) \/ GateCancelled(r)
    <3>1. /\ \A q \in Requests \ {r} : pc'[q] = pc[q]
          /\ pc[r] \in {"next", "gate", "wait", "finish"} /\ pc'[r] \in {"wait", "done"}
          /\ UNCHANGED <<at, gate, inflight>>
      BY <2>8 DEF Exhausted, Wait, Finish, EndBefore, GateCancelled, Goto, TypeOK
    <3>2. QED BY <3>1, CountsKept DEF Holding, Counted, Inside
  <2>9. QED
    BY <1>1, <2>1, <2>2, <2>3, <2>4, <2>5, <2>6, <2>7, <2>8 DEF Step, Interrupt
<1>2. ASSUME UNCHANGED <<pc, at, gate, inflight>> PROVE Counts'
  BY <1>2 DEF Counts, Inflight, Holding, Counted, Account
<1>3. QED BY <1>1, <1>2 DEF Next, Rest, vars, walk

----------------------------------------------------------------------------
(* What a request walks by is its own.                                     *)
LEMMA Others ==
  ASSUME WalksOn, NEW r \in Requests, Walks(r)', Settled(r)',
         \A q \in Requests \ {r} :
           /\ pc'[q] = pc[q] /\ at'[q] = at[q] /\ after'[q] = after[q]
           /\ decision'[q] = decision[q] /\ sentLast'[q] = sentLast[q]
           /\ result'[q] = result[q]
  PROVE  WalksOn'
BY DEF WalksOn, Walks, Settled, More

LEMMA WalkStep == TypeOK /\ WalksOn /\ [Next]_vars => WalksOn'
<1> SUFFICES ASSUME TypeOK, WalksOn, [Next]_vars PROVE WalksOn'
  OBVIOUS
<1>1. ASSUME NEW r \in Requests, Step(r) \/ Admit(r) \/ Interrupt(r) PROVE WalksOn'
  <2> SUFFICES ASSUME Step(r) \/ Admit(r) \/ Interrupt(r) PROVE WalksOn'
    BY <1>1
  <2>a. Walks(r) /\ Settled(r)
    BY DEF WalksOn
  <2>b. /\ at[r] \in Nat /\ Len(Candidates[r]) \in Nat
        /\ pc[r] \notin {"next", "done"} => at[r] <= Len(Candidates[r])
    BY LengthType DEF TypeOK, Located
  <2>1. CASE Exhausted(r)
    <3>1. Walks(r)' /\ Settled(r)'
      BY <2>a, <2>b, <2>1 DEF Exhausted, Goto, EndWith, TypeOK, Walks, Settled, More
    <3>2. QED BY <2>1, <3>1, Others DEF Exhausted, Goto, EndWith, TypeOK
  <2>2. CASE Choose(r)
    <3>1. Walks(r)' /\ Settled(r)'
      BY <2>a, <2>b, <2>2 DEF Choose, Goto, EndWith, TypeOK, Walks, Settled, More
    <3>2. QED BY <2>2, <3>1, Others DEF Choose, Goto, EndWith, TypeOK
  <2>3. CASE Wait(r)
    <3>1. Walks(r)' /\ Settled(r)'
      BY <2>a, <2>b, <2>3 DEF Wait, Goto, EndWith, TypeOK, Walks, Settled, More
    <3>2. QED BY <2>3, <3>1, Others DEF Wait, Goto, EndWith, TypeOK
  <2>4. CASE Enter(r)
    <3>1. Walks(r)' /\ Settled(r)'
      BY <2>a, <2>b, <2>4 DEF Enter, Goto, EndWith, TypeOK, Walks, Settled, More
    <3>2. QED BY <2>4, <3>1, Others DEF Enter, Goto, EndWith, TypeOK
  <2>5. CASE Attempt(r)
    <3>1. Walks(r)' /\ Settled(r)'
      <4>1. PICK d \in Decisions \ {"none"} :
              decision' = [decision EXCEPT ![r] = d] /\ (d = "failover" => More(r))
        BY <2>5 DEF Attempt, MayFailOver
      <4>2. /\ sentLast' = [sentLast EXCEPT ![r] = @ \/ ~More(r)]
            /\ pc[r] = "attempt" /\ pc' = [pc EXCEPT ![r] = "decide"]
            /\ UNCHANGED <<at, after, result>>
        BY <2>5 DEF Attempt, Goto
      <4>3. at[r] <= Len(Candidates[r]) /\ result[r] = "none"
        BY <2>a, <2>b, <4>2 DEF Settled
      <4>4. /\ pc'[r] = "decide" /\ result'[r] = "none" /\ at'[r] = at[r]
            /\ decision'[r] = d
        BY <4>1, <4>2, <4>3 DEF TypeOK
      <4>5. sentLast'[r] => sentLast[r] \/ ~More(r)
        BY <4>2 DEF TypeOK
      <4>6. QED BY <2>a, <2>b, <4>1, <4>3, <4>4, <4>5 DEF Walks, Settled, More
    <3>2. QED BY <2>5, <3>1, Others DEF Attempt, Goto, EndWith, TypeOK
  <2>6. CASE Again(r)
    <3>1. Walks(r)' /\ Settled(r)'
      BY <2>a, <2>b, <2>6 DEF Again, Goto, EndWith, TypeOK, Walks, Settled, More
    <3>2. QED BY <2>6, <3>1, Others DEF Again, Goto, EndWith, TypeOK
  <2>7. CASE FailOver(r)
    <3>1. Walks(r)' /\ Settled(r)'
      BY <2>a, <2>b, <2>7 DEF FailOver, Leave, Goto, EndWith, TypeOK, Walks, Settled, More
    <3>2. QED BY <2>7, <3>1, Others DEF FailOver, Leave, Goto, EndWith, TypeOK
  <2>8. CASE FollowTerminal(r)
    <3>1. Walks(r)' /\ Settled(r)'
      BY <2>a, <2>b, <2>8 DEF FollowTerminal, Leave, Goto, EndWith, TypeOK, Walks, Settled, More
    <3>2. QED BY <2>8, <3>1, Others DEF FollowTerminal, Leave, Goto, EndWith, TypeOK
  <2>9. CASE RespondTerminal(r)
    <3>1. Walks(r)' /\ Settled(r)'
      BY <2>a, <2>b, <2>9 DEF RespondTerminal, Leave, Goto, EndWith, TypeOK, Walks, Settled, More
    <3>2. QED BY <2>9, <3>1, Others DEF RespondTerminal, Leave, Goto, EndWith, TypeOK
  <2>10. CASE RespondUpstream(r)
    <3>1. Walks(r)' /\ Settled(r)'
      BY <2>a, <2>b, <2>10 DEF RespondUpstream, Goto, EndWith, TypeOK, Walks, Settled, More
    <3>2. QED BY <2>10, <3>1, Others DEF RespondUpstream, Goto, EndWith, TypeOK
  <2>11. CASE PreflightFailOver(r)
    <3>1. Walks(r)' /\ Settled(r)'
      BY <2>a, <2>b, <2>11 DEF PreflightFailOver, Leave, Goto, EndWith, TypeOK, Walks, Settled, More
    <3>2. QED BY <2>11, <3>1, Others DEF PreflightFailOver, Leave, Goto, EndWith, TypeOK
  <2>12. CASE Deliver(r)
    <3>1. Walks(r)' /\ Settled(r)'
      BY <2>a, <2>b, <2>12 DEF Deliver, Deliverable, Goto, EndWith, TypeOK, Walks, Settled, More
    <3>2. QED BY <2>12, <3>1, Others DEF Deliver, Deliverable, Goto, EndWith, TypeOK
  <2>13. CASE Delivered(r)
    <3>1. Walks(r)' /\ Settled(r)'
      BY <2>a, <2>b, <2>13 DEF Delivered, Leave, Goto, EndWith, TypeOK, Walks, Settled, More
    <3>2. QED BY <2>13, <3>1, Others DEF Delivered, Leave, Goto, EndWith, TypeOK
  <2>14. CASE Drop(r)
    <3>1. Walks(r)' /\ Settled(r)'
      BY <2>a, <2>b, <2>14 DEF Drop, Goto, EndWith, TypeOK, Walks, Settled, More
    <3>2. QED BY <2>14, <3>1, Others DEF Drop, Goto, EndWith, TypeOK
  <2>15. CASE FreeGate(r)
    <3>1. Walks(r)' /\ Settled(r)'
      BY <2>a, <2>b, <2>15 DEF FreeGate, Proceed, Goto, EndWith, TypeOK, Walks, Settled, More
    <3>2. QED BY <2>15, <3>1, Others DEF FreeGate, Proceed, Goto, EndWith, TypeOK
  <2>16. CASE Finish(r)
    <3>1. Walks(r)' /\ Settled(r)'
      BY <2>a, <2>b, <2>16 DEF Finish, Goto, EndWith, TypeOK, Walks, Settled, More
    <3>2. QED BY <2>16, <3>1, Others DEF Finish, Goto, EndWith, TypeOK
  <2>17. CASE Admit(r)
    <3>1. Walks(r)' /\ Settled(r)'
      BY <2>a, <2>b, <2>17 DEF Admit, Goto, EndWith, TypeOK, Walks, Settled, More
    <3>2. QED BY <2>17, <3>1, Others DEF Admit, Goto, EndWith, TypeOK
  <2>18. CASE EndBefore(r)
    <3>1. Walks(r)' /\ Settled(r)'
      BY <2>a, <2>b, <2>18 DEF EndBefore, Goto, EndWith, TypeOK, Walks, Settled, More
    <3>2. QED BY <2>18, <3>1, Others DEF EndBefore, Goto, EndWith, TypeOK
  <2>19. CASE GateTimeout(r)
    <3>1. Walks(r)' /\ Settled(r)'
      BY <2>a, <2>b, <2>19 DEF GateTimeout, Goto, EndWith, TypeOK, Walks, Settled, More
    <3>2. QED BY <2>19, <3>1, Others DEF GateTimeout, Goto, EndWith, TypeOK
  <2>20. CASE GateCancelled(r)
    <3>1. Walks(r)' /\ Settled(r)'
      BY <2>a, <2>b, <2>20 DEF GateCancelled, Goto, EndWith, TypeOK, Walks, Settled, More
    <3>2. QED BY <2>20, <3>1, Others DEF GateCancelled, Goto, EndWith, TypeOK
  <2>21. CASE EndCancelled(r)
    <3>1. Walks(r)' /\ Settled(r)'
      BY <2>a, <2>b, <2>21 DEF EndCancelled, Leave, Goto, EndWith, TypeOK, Walks, Settled, More
    <3>2. QED BY <2>21, <3>1, Others DEF EndCancelled, Leave, Goto, EndWith, TypeOK
  <2>22. QED
    BY <2>1, <2>2, <2>3, <2>4, <2>5, <2>6, <2>7, <2>8, <2>9, <2>10, <2>11, <2>12, <2>13, <2>14, <2>15, <2>16, <2>17, <2>18, <2>19, <2>20, <2>21 DEF Step, Interrupt
<1>2. ASSUME UNCHANGED <<pc, at, after, decision, sentLast, result>> PROVE WalksOn'
  BY <1>2 DEF WalksOn, Walks, Settled, More
<1>3. QED BY <1>1, <1>2 DEF Next, Rest, vars, walk

----------------------------------------------------------------------------
LEMMA InitIInv == Init => IInv
<1> SUFFICES ASSUME Init PROVE IInv
  OBVIOUS
<1>1. TypeOK
  BY Names, LengthType DEF Init, TypeOK, Located, Inside, States, Decisions, Results
<1>2. Counts
  <2> SUFFICES ASSUME NEW a \in Accounts
               PROVE  /\ Inflight(a) = {}
                      /\ {r \in Requests : Holding(r) /\ Account(r) = a} = {}
    BY FS_EmptySet, LimitsAssumption DEF Init, Counts
  <2>1. QED BY DEF Init, Inflight, Holding, Counted, Inside
<1>3. WalksOn
  BY DEF Init, WalksOn, Walks, Settled
<1>4. QED BY <1>1, <1>2, <1>3 DEF IInv

(* The counters, the gates and the walk of every request are as they       *)
(* should be at every moment, however requests interleave, fail over,      *)
(* are cancelled or time out.                                              *)
THEOREM FailoverInvariant == Spec => []IInv
<1>1. IInv /\ [Next]_vars => IInv'
  BY TypeStep, CountsStep, WalkStep DEF IInv
<1>2. QED BY InitIInv, <1>1, PTL DEF Spec

(* The candidate a request works on is one of its candidates: neither a    *)
(* skip nor a failover leads past the end of the list.                     *)
THEOREM FailoverTypeCorrect == Spec => []TypeOK
<1>1. IInv => TypeOK
  BY DEF IInv
<1>2. QED BY FailoverInvariant, <1>1, PTL

(* acquire_account_inflight and the drop of the guard: an account counts   *)
(* exactly the requests that use it, within the limit of its gate.         *)
THEOREM InflightAlwaysExact == Spec => []InflightExact
<1>1. IInv => InflightExact
  BY CountsBound DEF IInv
<1>2. QED BY FailoverInvariant, <1>1, PTL

(* execute_candidate_sequence: a request that was sent to its last         *)
(* candidate gets that candidate's answer and no "no available account".   *)
THEOREM LastCandidateAlwaysDecides == Spec => []LastCandidateDecides
<1>1. IInv => LastCandidateDecides
  BY DEF IInv, WalksOn, Settled, LastCandidateDecides
<1>2. QED BY FailoverInvariant, <1>1, PTL
=============================================================================
