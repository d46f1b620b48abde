------------------------- MODULE RequestGateProofs -------------------------
(***************************************************************************)
(* For any number of requests, objects and limits: the gate is never       *)
(* split, its counter is exact, and nobody is admitted at the limit.       *)
(***************************************************************************)
EXTENDS RequestGate, FiniteSetTheorems, TLAPS

(* The inductive invariant.  SharedGate alone is not inductive: a lookup   *)
(* that creates an object must know that an active request holds a real    *)
(* one (ActiveHasLock), and SlotsExact needs SharedGate's typing.          *)
ActiveHasLock == \A r \in Requests : Active(r) <=> lockOf[r] # NoLock

IInv == TypeOK /\ ActiveHasLock /\ SharedGate /\ SlotsExact

(* The seats of one object, as a function of pc and lockOf.                *)
LEMMA HoldersFinite ==
  ASSUME NEW l \in Locks
  PROVE  /\ IsFiniteSet(Holders(l))
         /\ Cardinality(Holders(l)) \in Nat
BY GateAssumption, FS_Subset, FS_CardinalityType DEF Holders

(* Taking a slot and leaving one move the cardinality by one.              *)
LEMMA HoldersAdd ==
  ASSUME NEW l \in Locks, NEW r \in Requests, r \notin Holders(l),
         Holders(l)' = Holders(l) \cup {r}
  PROVE  Cardinality(Holders(l)') = Cardinality(Holders(l)) + 1
BY HoldersFinite, FS_AddElement

LEMMA HoldersRemove ==
  ASSUME NEW l \in Locks, NEW r \in Holders(l),
         Holders(l)' = Holders(l) \ {r}
  PROVE  /\ Cardinality(Holders(l)') = Cardinality(Holders(l)) - 1
         /\ Cardinality(Holders(l)) # 0
<1>1. Cardinality(Holders(l)') = Cardinality(Holders(l)) - 1
  BY HoldersFinite, FS_RemoveElement
<1>2. Cardinality(Holders(l)) # 0
  BY HoldersFinite, FS_EmptySet
<1>3. QED BY <1>1, <1>2

-----------------------------------------------------------------------------
(* A step that keeps the holders and the counters keeps SlotsExact.        *)
LEMMA SlotsKept ==
  ASSUME SlotsExact, UNCHANGED running, \A l \in Locks : Holders(l)' = Holders(l)
  PROVE  SlotsExact'
BY DEF SlotsExact

LEMMA AdmitKeepsSlots ==
  ASSUME IInv, NEW r \in Requests, Active(r), pc[r] # "hold", Admit(r),
         UNCHANGED lockOf
  PROVE  SlotsExact'
<1> DEFINE k == lockOf[r]
<1>1. k \in Locks
  BY DEF IInv, TypeOK, ActiveHasLock
<1>2. Holders(k)' = Holders(k) \cup {r} /\ r \notin Holders(k)
  BY <1>1 DEF Admit, Holders, IInv, TypeOK
<1>3. running'[k] = Cardinality(Holders(k)')
  BY <1>1, <1>2, HoldersAdd DEF Admit, IInv, TypeOK, SlotsExact
<1>4. ASSUME NEW l \in Locks, l # k
      PROVE  running'[l] = Cardinality(Holders(l)')
  <2>1. Holders(l)' = Holders(l)
    BY <1>4 DEF Admit, Holders, IInv, TypeOK
  <2>2. running'[l] = running[l]
    BY <1>1, <1>4 DEF Admit, IInv, TypeOK
  <2>3. QED BY <2>1, <2>2 DEF IInv, SlotsExact
<1>5. QED BY <1>3, <1>4 DEF SlotsExact

-----------------------------------------------------------------------------
(* Storing or consuming the permit of an object keeps its type.            *)
LEMMA PermitStored ==
  ASSUME NEW l \in Locks, NEW b \in BOOLEAN, permit \in [Locks -> BOOLEAN]
  PROVE  [permit EXCEPT ![l] = b] \in [Locks -> BOOLEAN]
OBVIOUS

LEMMA TypeStep == IInv /\ [Next]_vars => TypeOK'
<1> SUFFICES ASSUME IInv, [Next]_vars PROVE TypeOK'
  OBVIOUS
<1> USE GateAssumption DEF IInv, TypeOK, States, ActiveHasLock
<1>1. ASSUME NEW r \in Requests, Lookup(r) PROVE TypeOK'
  <2>1. PICK sweep \in BOOLEAN, m \in Limits, l \in Locks :
          /\ running' = running \/ running' = [running EXCEPT ![l] = 0]
          /\ permit' = permit \/ permit' = [permit EXCEPT ![l] = FALSE]
          /\ table' = l
          /\ lockOf' = [lockOf EXCEPT ![r] = l]
          /\ Announce(l, m, r)
    BY <1>1 DEF Lookup
  <2>6. running' \in [Locks -> Nat]
    BY <2>1
  <2>2. permit' \in [Locks -> BOOLEAN]
    BY <2>1, PermitStored
  <2>3. limit' \in [Locks -> Limits] /\ pc' \in [Requests -> States]
    BY <2>1 DEF Announce
  <2>4. note' \in [Requests -> {"none", "one", "done", "all"}]
    BY <2>1 DEF Announce
  <2>5. QED BY <2>1, <2>6, <2>2, <2>3, <2>4
<1>2. ASSUME NEW r \in Requests, TryAcquire(r) PROVE TypeOK'
  BY <1>2 DEF TryAcquire, Admit, Active
<1>3. ASSUME NEW r \in Requests, SyncCheck(r) PROVE TypeOK'
  BY <1>3 DEF SyncCheck, Admit, Active
<1>4. ASSUME NEW r \in Requests, SyncSleep(r) PROVE TypeOK'
  BY <1>4 DEF SyncSleep
<1>5. ASSUME NEW r \in Requests, AsyncEnable(r) PROVE TypeOK'
  <2>1. permit' \in [Locks -> BOOLEAN]
    BY <1>5 DEF AsyncEnable
  <2>2. pc' \in [Requests -> States]
    BY <1>5 DEF AsyncEnable
  <2>3. note' \in [Requests -> {"none", "one", "done", "all"}]
    <3>1. \/ note' = [note EXCEPT ![r] = "done"]
          \/ note' = [note EXCEPT ![r] = "none"]
      BY <1>5 DEF AsyncEnable
    <3>2. QED BY <3>1
  <2>4. QED BY <1>5, <2>1, <2>2, <2>3 DEF AsyncEnable
<1>6. ASSUME NEW r \in Requests, AsyncCheck(r) PROVE TypeOK'
  <2>1. running' \in [Locks -> Nat] /\ pc' \in [Requests -> States]
    BY <1>6 DEF AsyncCheck, Admit, Active
  <2>2. permit' \in [Locks -> BOOLEAN]
    BY <1>6, PermitStored DEF AsyncCheck, DropNotified, Active
  <2>3. note' \in [Requests -> {"none", "one", "done", "all"}]
    BY <1>6 DEF AsyncCheck, DropNotified, Registered
  <2>4. QED BY <1>6, <2>1, <2>2, <2>3 DEF AsyncCheck
<1>7. ASSUME NEW r \in Requests, AsyncWake(r) PROVE TypeOK'
  BY <1>7 DEF AsyncWake
<1>8. ASSUME NEW r \in Requests, Release(r) PROVE TypeOK'
  <2>1. running' \in [Locks -> Nat]
    BY <1>8 DEF Release, Active
  <2>2. pc' \in [Requests -> States] /\ lockOf' \in [Requests -> Locks \cup {NoLock}]
    BY <1>8 DEF Release, SyncSleepers
  <2>3. note' \in [Requests -> {"none", "one", "done", "all"}] /\ permit' \in [Locks -> BOOLEAN]
    BY <1>8 DEF Release, NotifyOneAsync, Registered
  <2>4. QED BY <1>8, <2>1, <2>2, <2>3 DEF Release
<1>9. ASSUME NEW r \in Requests, RefuseWithoutWait(r) PROVE TypeOK'
  BY <1>9 DEF RefuseWithoutWait, Leave
<1>10. ASSUME NEW r \in Requests, SyncTimeout(r) PROVE TypeOK'
  BY <1>10 DEF SyncTimeout, Admit, Leave, Active
<1>11. ASSUME NEW r \in Requests, AsyncAbandon(r) PROVE TypeOK'
  BY <1>11 DEF AsyncAbandon, Leave, DropNotified, Registered
<1>12. CASE ClearRuntimeState
  BY <1>12 DEF ClearRuntimeState
<1>13. CASE UNCHANGED vars
  BY <1>13 DEF vars
<1>14. QED
  BY <1>1, <1>2, <1>3, <1>4, <1>5, <1>6, <1>7, <1>8, <1>9, <1>10, <1>11, <1>12, <1>13
     DEF Next, Advance, GiveUp

LEMMA SharedStep == IInv /\ [Next]_vars => ActiveHasLock' /\ SharedGate'
<1> SUFFICES ASSUME IInv, [Next]_vars PROVE ActiveHasLock' /\ SharedGate'
  OBVIOUS
<1> USE GateAssumption DEF IInv, TypeOK, States, ActiveHasLock, SharedGate, Active
<1>1. ASSUME NEW r \in Requests, Lookup(r) PROVE ActiveHasLock' /\ SharedGate'
  <2>1. PICK sweep \in BOOLEAN, m \in Limits, l \in Locks :
          /\ Swept(sweep) # NoLock => l = Swept(sweep)
          /\ table' = l
          /\ lockOf' = [lockOf EXCEPT ![r] = l]
          /\ Announce(l, m, r)
    BY <1>1 DEF Lookup
  <2>2. \A q \in Requests : pc'[q] \in {"idle", "gone"} <=> q # r /\ pc[q] \in {"idle", "gone"}
    BY <2>1 DEF Announce, SyncSleepers
  <2>3. \A q \in Requests : q # r /\ Active(q) => lockOf[q] = l
    <3>1. CASE Swept(sweep) # NoLock
      BY <3>1, <2>1 DEF Swept
    <3>2. CASE Swept(sweep) = NoLock
      <4>1. \A q \in Requests : ~Active(q)
        BY <3>2 DEF Swept, Shared
      <4>2. QED BY <4>1
    <3>3. QED BY <3>1, <3>2
  <2>4. QED BY <2>1, <2>2, <2>3
<1>2. ASSUME NEW r \in Requests, TryAcquire(r) PROVE ActiveHasLock' /\ SharedGate'
  BY <1>2 DEF TryAcquire, Admit
<1>3. ASSUME NEW r \in Requests, SyncCheck(r) PROVE ActiveHasLock' /\ SharedGate'
  BY <1>3 DEF SyncCheck, Admit
<1>4. ASSUME NEW r \in Requests, SyncSleep(r) PROVE ActiveHasLock' /\ SharedGate'
  BY <1>4 DEF SyncSleep
<1>5. ASSUME NEW r \in Requests, AsyncEnable(r) PROVE ActiveHasLock' /\ SharedGate'
  BY <1>5 DEF AsyncEnable
<1>6. ASSUME NEW r \in Requests, AsyncCheck(r) PROVE ActiveHasLock' /\ SharedGate'
  BY <1>6 DEF AsyncCheck, Admit
<1>7. ASSUME NEW r \in Requests, AsyncWake(r) PROVE ActiveHasLock' /\ SharedGate'
  BY <1>7 DEF AsyncWake
<1>8. ASSUME NEW r \in Requests, Release(r) PROVE ActiveHasLock' /\ SharedGate'
  BY <1>8 DEF Release, SyncSleepers
<1>9. ASSUME NEW r \in Requests, RefuseWithoutWait(r) PROVE ActiveHasLock' /\ SharedGate'
  BY <1>9 DEF RefuseWithoutWait, Leave
<1>10. ASSUME NEW r \in Requests, SyncTimeout(r) PROVE ActiveHasLock' /\ SharedGate'
  BY <1>10 DEF SyncTimeout, Admit, Leave
<1>11. ASSUME NEW r \in Requests, AsyncAbandon(r) PROVE ActiveHasLock' /\ SharedGate'
  BY <1>11 DEF AsyncAbandon, Leave
<1>12. CASE ClearRuntimeState
  BY <1>12 DEF ClearRuntimeState, Shared
<1>13. CASE UNCHANGED vars
  BY <1>13 DEF vars
<1>14. QED
  BY <1>1, <1>2, <1>3, <1>4, <1>5, <1>6, <1>7, <1>8, <1>9, <1>10, <1>11, <1>12, <1>13
     DEF Next, Advance, GiveUp

LEMMA SlotsStep == IInv /\ [Next]_vars => SlotsExact'
<1> SUFFICES ASSUME IInv, [Next]_vars PROVE SlotsExact'
  OBVIOUS
<1> USE GateAssumption DEF IInv, TypeOK, States
<1>1. ASSUME NEW r \in Requests, Lookup(r) PROVE SlotsExact'
  <2>1. PICK sweep \in BOOLEAN, m \in Limits, k \in Locks :
          /\ \/ running' = running
             \/ Fresh(k) /\ running' = [running EXCEPT ![k] = 0]
          /\ lockOf' = [lockOf EXCEPT ![r] = k]
          /\ Announce(k, m, r)
    BY <1>1 DEF Lookup
  <2>2. \A l \in Locks : Holders(l)' = Holders(l)
    BY <1>1, <2>1 DEF Lookup, Announce, SyncSleepers, Holders
  <2>3. CASE running' = running
    BY <2>2, <2>3, SlotsKept
  <2>4. CASE Fresh(k) /\ running' = [running EXCEPT ![k] = 0]
    <3>1. Holders(k) = {}
      BY <2>4 DEF Fresh, Holders
    <3>2. Cardinality(Holders(k)') = 0
      BY <2>2, <3>1, FS_EmptySet
    <3>3. QED BY <2>2, <2>4, <3>2 DEF SlotsExact
  <2>5. QED BY <2>1, <2>3, <2>4
<1>2. ASSUME NEW r \in Requests, TryAcquire(r) PROVE SlotsExact'
  <2>1. CASE Admit(r)
    BY <1>2, <2>1, AdmitKeepsSlots DEF TryAcquire, Active
  <2>2. CASE ~Admit(r)
    <3>1. \A l \in Locks : Holders(l)' = Holders(l)
      BY <1>2, <2>2 DEF TryAcquire, Holders
    <3>2. QED BY <1>2, <2>2, <3>1, SlotsKept DEF TryAcquire
  <2>3. QED BY <2>1, <2>2
<1>3. ASSUME NEW r \in Requests, SyncCheck(r) PROVE SlotsExact'
  <2>1. CASE Admit(r)
    BY <1>3, <2>1, AdmitKeepsSlots DEF SyncCheck, Active
  <2>2. CASE ~Admit(r)
    <3>1. \A l \in Locks : Holders(l)' = Holders(l)
      BY <1>3, <2>2 DEF SyncCheck, Holders
    <3>2. QED BY <1>3, <2>2, <3>1, SlotsKept DEF SyncCheck
  <2>3. QED BY <2>1, <2>2
<1>4. ASSUME NEW r \in Requests, SyncSleep(r) PROVE SlotsExact'
  <2>1. \A l \in Locks : Holders(l)' = Holders(l)
    BY <1>4 DEF SyncSleep, Holders
  <2>2. QED BY <1>4, <2>1, SlotsKept DEF SyncSleep
<1>5. ASSUME NEW r \in Requests, AsyncEnable(r) PROVE SlotsExact'
  <2>1. \A l \in Locks : Holders(l)' = Holders(l)
    BY <1>5 DEF AsyncEnable, Holders
  <2>2. QED BY <1>5, <2>1, SlotsKept DEF AsyncEnable
<1>6. ASSUME NEW r \in Requests, AsyncCheck(r) PROVE SlotsExact'
  <2>1. CASE Admit(r)
    BY <1>6, <2>1, AdmitKeepsSlots DEF AsyncCheck, Active
  <2>2. CASE ~Admit(r)
    <3>1. \A l \in Locks : Holders(l)' = Holders(l)
      BY <1>6, <2>2 DEF AsyncCheck, Holders
    <3>2. QED BY <1>6, <2>2, <3>1, SlotsKept DEF AsyncCheck
  <2>3. QED BY <2>1, <2>2
<1>7. ASSUME NEW r \in Requests, AsyncWake(r) PROVE SlotsExact'
  <2>1. \A l \in Locks : Holders(l)' = Holders(l)
    BY <1>7 DEF AsyncWake, Holders
  <2>2. QED BY <1>7, <2>1, SlotsKept DEF AsyncWake
<1>8. ASSUME NEW r \in Requests, Release(r) PROVE SlotsExact'
  <2>1. lockOf[r] \in Locks /\ r \in Holders(lockOf[r])
    BY <1>8 DEF Release, Holders, ActiveHasLock, Active
  <2>2. PICK k \in Locks : k = lockOf[r]
    BY <2>1
  <2>3. /\ pc'[r] = "gone" /\ lockOf' = [lockOf EXCEPT ![r] = NoLock]
        /\ \A q \in Requests : q # r => (pc'[q] = "hold" <=> pc[q] = "hold")
    BY <1>8 DEF Release, SyncSleepers
  <2>4. Holders(k)' = Holders(k) \ {r}
    BY <2>2, <2>3 DEF Holders
  <2>5. running'[k] = IF running[k] = 0 THEN 0 ELSE running[k] - 1
    BY <1>8, <2>2 DEF Release
  <2>6. running'[k] = Cardinality(Holders(k)')
    BY <2>1, <2>2, <2>4, <2>5, HoldersRemove, HoldersFinite DEF SlotsExact
  <2>7. ASSUME NEW l \in Locks, l # k PROVE running'[l] = Cardinality(Holders(l)')
    <3>1. Holders(l)' = Holders(l)
      BY <2>2, <2>3, <2>7 DEF Holders
    <3>2. running'[l] = running[l]
      BY <1>8, <2>2, <2>7 DEF Release
    <3>3. QED BY <3>1, <3>2 DEF SlotsExact
  <2>8. QED BY <2>6, <2>7 DEF SlotsExact
<1>9. ASSUME NEW r \in Requests, RefuseWithoutWait(r) PROVE SlotsExact'
  <2>1. \A l \in Locks : Holders(l)' = Holders(l)
    BY <1>9 DEF RefuseWithoutWait, Leave, Holders
  <2>2. QED BY <1>9, <2>1, SlotsKept DEF RefuseWithoutWait
<1>10. ASSUME NEW r \in Requests, SyncTimeout(r) PROVE SlotsExact'
  <2>1. CASE Admit(r) /\ lockOf' = lockOf
    BY <1>10, <2>1, AdmitKeepsSlots DEF SyncTimeout, Active
  <2>2. CASE Leave(r) /\ running' = running
    <3>1. \A l \in Locks : Holders(l)' = Holders(l)
      BY <1>10, <2>2 DEF SyncTimeout, Leave, Holders
    <3>2. QED BY <2>2, <3>1, SlotsKept
  <2>3. QED BY <1>10, <2>1, <2>2 DEF SyncTimeout
<1>11. ASSUME NEW r \in Requests, AsyncAbandon(r) PROVE SlotsExact'
  <2>1. \A l \in Locks : Holders(l)' = Holders(l)
    BY <1>11 DEF AsyncAbandon, Leave, Holders
  <2>2. QED BY <1>11, <2>1, SlotsKept DEF AsyncAbandon
<1>12. CASE ClearRuntimeState
  <2>1. \A l \in Locks : Holders(l)' = Holders(l)
    BY <1>12 DEF ClearRuntimeState, Holders
  <2>2. QED BY <1>12, <2>1, SlotsKept DEF ClearRuntimeState
<1>13. CASE UNCHANGED vars
  <2>1. \A l \in Locks : Holders(l)' = Holders(l)
    BY <1>13 DEF vars, Holders
  <2>2. QED BY <1>13, <2>1, SlotsKept DEF vars
<1>14. QED
  BY <1>1, <1>2, <1>3, <1>4, <1>5, <1>6, <1>7, <1>8, <1>9, <1>10, <1>11, <1>12, <1>13
     DEF Next, Advance, GiveUp

-----------------------------------------------------------------------------
LEMMA InitIInv == Init => IInv
<1> SUFFICES ASSUME Init PROVE IInv
  OBVIOUS
<1>1. TypeOK /\ ActiveHasLock /\ SharedGate
  BY GateAssumption DEF Init, TypeOK, States, ActiveHasLock, SharedGate, Active
<1>2. SlotsExact
  <2>1. \A l \in Locks : Holders(l) = {}
    BY DEF Init, Holders
  <2>2. QED BY <2>1, FS_EmptySet DEF Init, SlotsExact
<1>3. QED BY <1>1, <1>2 DEF IInv

LEMMA Inductive == Spec => []IInv
<1>1. IInv /\ [Next]_vars => IInv'
  BY TypeStep, SharedStep, SlotsStep DEF IInv
<1>2. QED BY InitIInv, <1>1, PTL DEF Spec

(* Every value a variable takes is one the code can hold.                  *)
THEOREM GateTypeCorrect == Spec => []TypeOK
<1>1. IInv => TypeOK BY DEF IInv
<1>2. QED BY <1>1, Inductive, PTL

(* Sweeping or reloading the table never splits the gate of a key.         *)
THEOREM GateNeverSplits == Spec => []SharedGate
<1>1. IInv => SharedGate BY DEF IInv
<1>2. QED BY <1>1, Inductive, PTL

(* The counter equals the guards alive, whatever path they took.           *)
THEOREM GateCountsGuards == Spec => []SlotsExact
<1>1. IInv => SlotsExact BY DEF IInv
<1>2. QED BY <1>1, Inductive, PTL

(* Admission happens only below the limit in force.                        *)
THEOREM GateAdmitsBelowLimit == Spec => AdmittedBelowLimit
<1> DEFINE Below == \A r \in Requests :
              pc[r] # "hold" /\ pc'[r] = "hold"
                => Cardinality(AllHolders) < limit[table]
<1>1. IInv /\ [Next]_vars => [Below]_vars
  <2> SUFFICES ASSUME IInv, Next, NEW q \in Requests, pc[q] # "hold", pc'[q] = "hold"
               PROVE  Cardinality(AllHolders) < limit[table]
    BY DEF vars
  <2> USE DEF IInv, TypeOK, States
  <2>1. Active(q) /\ ~Full(lockOf[q])
    <3>1. ASSUME NEW r \in Requests, Lookup(r) PROVE FALSE
      BY <3>1 DEF Lookup, Announce, SyncSleepers
    <3>2. ASSUME NEW r \in Requests, Advance(r) PROVE Active(q) /\ ~Full(lockOf[q])
      BY <3>2 DEF Advance, TryAcquire, SyncCheck, SyncSleep, AsyncEnable, AsyncCheck,
                  AsyncWake, Release, Admit, Active, SyncSleepers
    <3>3. ASSUME NEW r \in Requests, GiveUp(r) PROVE Active(q) /\ ~Full(lockOf[q])
      BY <3>3 DEF GiveUp, RefuseWithoutWait, SyncTimeout, AsyncAbandon, Admit, Leave, Active
    <3>4. CASE ClearRuntimeState
      BY <3>4 DEF ClearRuntimeState
    <3>5. QED BY <3>1, <3>2, <3>3, <3>4 DEF Next
  <2>2. lockOf[q] = table /\ table \in Locks
    BY <2>1, GateAssumption DEF SharedGate, ActiveHasLock
  <2>3. AllHolders = Holders(table)
    BY DEF AllHolders, Holders, SharedGate, Active
  <2>4. running[table] < limit[table]
    <3>1. running[table] \in Nat /\ limit[table] \in Nat
      BY <2>2, GateAssumption
    <3>2. ~(running[table] >= limit[table])
      BY <2>1, <2>2 DEF Full
    <3>3. QED BY <3>1, <3>2
  <2>5. QED
    BY <2>2, <2>3, <2>4 DEF SlotsExact
<1>2. QED BY <1>1, Inductive, PTL DEF Spec, AdmittedBelowLimit
=============================================================================
