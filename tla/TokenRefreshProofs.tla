------------------------- MODULE TokenRefreshProofs -------------------------
(***************************************************************************)
(* For any accounts, callers and slots: the slots, the count and the locks *)
(* of the refresh are exact, the drain ends only when nothing runs or can  *)
(* start, a rotated grant is stored unless one of the things happened to   *)
(* it that RotationStored names, and a spent grant is sent only when its   *)
(* successor is out of reach.                                              *)
(***************************************************************************)
EXTENDS TokenRefresh, FiniteSetTheorems, TLAPS

USE SlotsAssumption, CallersAssumption, AccountsAssumption, BoundsAssumption,
    NoCallerAssumption

(* Who is in the registration mutex, and what the drain has seen.          *)
RegistryHeld == \A c \in Callers : pc[c] = "count" <=> registry = c
DrainAfterShutdown == drain # "off" => stopping

(* The guards of calls and completions.                                    *)
Guards ==
  /\ SlotsExact /\ LockHasOneOwner /\ RegistryHeld
  /\ DrainAfterShutdown /\ DrainedIsQuiet

(* Every number of an account was issued to it.                            *)
Known(r, a) == r.access <= issued[a] /\ r.grant <= issued[a]
Issued(a) ==
  /\ \A g \in live[a] \union spent[a] : g <= issued[a]
  /\ live[a] \intersect spent[a] = {}
  /\ \A t \in seen[a] : t.access # NoRow.access /\ Known(t, a)
  /\ row[a] = NoRow \/ row[a] \in seen[a]

(* A grant that only the one who got it has.                               *)
Fresh(a, g) == g \in live[a] /\ g # NoRow.grant /\ \A t \in seen[a] : t.grant # g

(* A token made of an older one by an answer of the provider.              *)
Answers(a, old, new) ==
  /\ old \in seen[a] /\ Known(new, a)
  /\ new.access >= old.access
  /\ new.grant = old.grant \/ Fresh(a, new.grant)

(* What completions and the gateway have in their hands.                   *)
Holding(a) ==
  /\ at[a] \in {"send", "persist"} => base[a] \in seen[a]
  /\ at[a] \in {"exchange", "storeKey"} => next[a] \in seen[a]
  /\ at[a] = "persist" => Answers(a, base[a], next[a])
  /\ gateway[a] # "none" => held[a] \in seen[a]
  /\ gateway[a] = "persist" => Answers(a, held[a], answer[a])
  /\ at[a] = "persist" /\ gateway[a] = "persist" /\ next[a].grant = answer[a].grant
       => next[a].grant = base[a].grant

(* Unless it lost, a completion finds the row it read or another grant.    *)
BaseKnown(a) ==
  at[a] \in {"send", "persist"} /\ row[a] # NoRow /\ row[a].grant = base[a].grant
    => row[a] = base[a] \/ Lost(a, base[a].grant)

Stored(a) == Dead(a) => Carried(a) \/ GatewayCarries(a, row[a].grant) \/ Lost(a, row[a].grant)
SentOnce(a) ==
  at[a] = "send" /\ base[a].grant \in spent[a]
    => GatewayCarries(a, base[a].grant) \/ Lost(a, base[a].grant)

Grant(a) == Issued(a) /\ Holding(a) /\ BaseKnown(a) /\ Stored(a) /\ SentOnce(a)
Grants == \A a \in Accounts : Grant(a)

IInv == TypeOK /\ Guards /\ Grants

-----------------------------------------------------------------------------
LEMMA FiniteCounts ==
  /\ IsFiniteSet(Admitted) /\ Cardinality(Admitted) \in Nat
  /\ IsFiniteSet(Completing) /\ Cardinality(Completing) \in Nat
<1>1. Admitted \subseteq Callers /\ Completing \subseteq Accounts
  BY DEF Admitted, Completing
<1>2. QED BY <1>1, FS_Subset, FS_CardinalityType

LEMMA FiniteCountsNext ==
  /\ IsFiniteSet(Admitted') /\ Cardinality(Admitted') \in Nat
  /\ IsFiniteSet(Completing') /\ Cardinality(Completing') \in Nat
<1>1. Admitted' \subseteq Callers /\ Completing' \subseteq Accounts
  BY DEF Admitted, Completing
<1>2. QED BY <1>1, FS_Subset, FS_CardinalityType

LEMMA RowShapes ==
  /\ NoRow \in Rows /\ NoToken \in Tokens
  /\ \A r \in Rows : Credentials(r) \in Tokens
  /\ \A r \in Rows, k \in Nat :
       /\ [r EXCEPT !.key = k] \in Rows
       /\ [r EXCEPT !.key = k].access = r.access /\ [r EXCEPT !.key = k].grant = r.grant
BY DEF NoRow, NoToken, Rows, Tokens, Credentials

LEMMA GuardsInit == Init => TypeOK /\ Guards
<1> SUFFICES ASSUME Init PROVE TypeOK /\ Guards
  OBVIOUS
<1>1. TypeOK
  <2>1. [access |-> 1, grant |-> 1, key |-> NoKey] \in Rows
    BY DEF Rows, NoKey
  <2>2. {1} \in SUBSET Nat /\ {} \in SUBSET Nat
    OBVIOUS
  <2>3. live \in [Accounts -> SUBSET Nat] /\ spent \in [Accounts -> SUBSET Nat]
    BY <2>2 DEF Init
  <2>4. row \in [Accounts -> Rows] /\ seen \in [Accounts -> SUBSET Rows]
    BY <2>1, RowShapes DEF Init
  <2>16. /\ gateway \in [Accounts -> {"none", "key", "send", "resend", "persist", "rekey"}]
         /\ held \in [Accounts -> Rows] /\ answer \in [Accounts -> Rows]
    BY RowShapes DEF Init
  <2>5. input \in [Accounts -> Tokens] /\ base \in [Accounts -> Rows] /\ next \in [Accounts -> Rows]
    BY RowShapes DEF Init
  <2>6. token \in [Callers -> Tokens]
    BY RowShapes DEF Init
  <2>7. lost \in [Accounts -> SUBSET Losses]
    BY DEF Init
  <2>8. locked \in [Accounts -> BOOLEAN] /\ stopping \in BOOLEAN
    BY DEF Init
  <2>14. permits \in 0..Slots /\ active \in Nat
    BY DEF Init
  <2>15. registry \in Callers \union {NoCaller}
    BY DEF Init
  <2>9. drain \in {"off", "armed", "waiting", "done"} /\ changed \in BOOLEAN
    BY DEF Init
  <2>10. pc \in [Callers -> {"idle", "lock", "slot", "register", "count", "wait"}]
    BY DEF Init
  <2>11. at \in [Accounts -> {"none", "read", "send", "persist", "exchange", "storeKey"}]
    BY DEF Init
  <2>12. resent \in [Accounts -> BOOLEAN] /\ issued \in [Accounts -> Nat] /\ work \in Nat
    BY DEF Init
  <2>13. QED BY <2>3, <2>4, <2>5, <2>6, <2>7, <2>8, <2>9, <2>10, <2>11, <2>12, <2>14, <2>15, <2>16
    DEF Init, TypeOK
<1>2. Admitted = {} /\ Completing = {}
  BY DEF Init, Admitted, Completing
<1>3. SlotsExact
  BY <1>2, FS_EmptySet DEF Init, SlotsExact
<1>4. LockHasOneOwner /\ RegistryHeld /\ DrainAfterShutdown /\ DrainedIsQuiet
  BY DEF Init, LockHasOneOwner, Owner, RegistryHeld, DrainAfterShutdown, DrainedIsQuiet
<1>5. QED BY <1>1, <1>3, <1>4 DEF Guards

LEMMA GrantsInit == Init => Grants
BY DEF Init, Grants, Grant, Issued, Known, Holding, BaseKnown, Stored, SentOnce, Dead, NoRow

-----------------------------------------------------------------------------
(* Completions start and end one at a time.                                *)
LEMMA CompletingAdds ==
  ASSUME TypeOK, NEW a \in Accounts, at[a] = "none", NEW w, w # "none",
         at' = [at EXCEPT ![a] = w]
  PROVE  /\ Cardinality(Completing') = Cardinality(Completing) + 1
<1>1. Completing' = Completing \union {a} /\ a \notin Completing
  BY DEF Completing, TypeOK
<1>2. QED BY <1>1, FiniteCounts, FS_AddElement

LEMMA CompletingDrops ==
  ASSUME TypeOK, NEW a \in Accounts, at[a] # "none",
         at' = [at EXCEPT ![a] = "none"]
  PROVE  /\ Cardinality(Completing') = Cardinality(Completing) - 1
         /\ Cardinality(Completing) >= 1
<1>1. Completing' = Completing \ {a} /\ a \in Completing
  BY DEF Completing, TypeOK
<1>2. Cardinality(Completing') = Cardinality(Completing) - 1
  BY <1>1, FiniteCounts, FS_RemoveElement
<1>3. QED BY <1>2, FiniteCounts, FiniteCountsNext

LEMMA AdmittedAdds ==
  ASSUME TypeOK, NEW c \in Callers, pc[c] \notin {"register", "count"},
         pc' = [pc EXCEPT ![c] = "register"]
  PROVE  Cardinality(Admitted') = Cardinality(Admitted) + 1
<1>1. Admitted' = Admitted \union {c} /\ c \notin Admitted
  BY DEF Admitted, TypeOK
<1>2. QED BY <1>1, FiniteCounts, FS_AddElement

LEMMA AdmittedDrops ==
  ASSUME TypeOK, NEW c \in Callers, pc[c] \in {"register", "count"},
         NEW w, w \notin {"register", "count"}, pc' = [pc EXCEPT ![c] = w]
  PROVE  /\ Cardinality(Admitted') = Cardinality(Admitted) - 1
         /\ Cardinality(Admitted) >= 1
<1>1. Admitted' = Admitted \ {c} /\ c \in Admitted
  BY DEF Admitted, TypeOK
<1>2. Cardinality(Admitted') = Cardinality(Admitted) - 1
  BY <1>1, FiniteCounts, FS_RemoveElement
<1>3. QED BY <1>2, FiniteCounts, FiniteCountsNext

-----------------------------------------------------------------------------
(* The guards are kept, one action at a time. Finish first: six actions    *)
(* end a completion.                                                       *)
LEMMA FinishKeepsGuards ==
  ASSUME TypeOK, Guards, NEW a \in Accounts, at[a] # "none", Finish(a)
  PROVE  /\ Guards'
         /\ locked' \in [Accounts -> BOOLEAN] /\ permits' \in 0..Slots /\ active' \in Nat
         /\ pc' \in [Callers -> {"idle", "lock", "slot", "register", "count", "wait"}]
         /\ at' \in [Accounts -> {"none", "read", "send", "persist", "exchange", "storeKey"}]
         /\ input' \in [Accounts -> Tokens] /\ base' \in [Accounts -> Rows]
         /\ next' \in [Accounts -> Rows] /\ resent' \in [Accounts -> BOOLEAN]
         /\ changed' \in BOOLEAN
<1>1. /\ Cardinality(Completing') = Cardinality(Completing) - 1
      /\ Cardinality(Completing) >= 1
  BY CompletingDrops DEF Finish, Goto
<1>2. Admitted' = Admitted
  BY DEF Finish, Admitted, TypeOK
<1>3. SlotsExact' /\ permits' \in 0..Slots /\ active' \in Nat
  BY <1>1, <1>2, FiniteCounts, FiniteCountsNext DEF Finish, SlotsExact, Guards, TypeOK
<1>4. \A c \in Callers, b \in Accounts : Owner(c, b)' <=> Owner(c, b)
  BY DEF Finish, Owner, TypeOK
<1>5. LockHasOneOwner'
  BY <1>4 DEF Finish, Goto, LockHasOneOwner, Guards, TypeOK
<1>6. RegistryHeld' /\ DrainAfterShutdown' /\ DrainedIsQuiet'
  BY DEF Finish, Goto, RegistryHeld, DrainAfterShutdown, DrainedIsQuiet, Guards, TypeOK,
         Completing
<1>7. QED
  BY <1>3, <1>5, <1>6, RowShapes DEF Finish, Goto, Guards, TypeOK

(* A step that moves neither calls nor completions over the counted places *)
(* keeps the guards.                                                       *)
LEMMA GuardsKept ==
  ASSUME TypeOK, Guards, UNCHANGED <<locked, permits, active, registry, stopping, drain, pc, acct>>,
         \A a \in Accounts : at'[a] = "none" <=> at[a] = "none"
  PROVE  Guards'
<1>1. Admitted' = Admitted /\ Completing' = Completing
  BY DEF Admitted, Completing
<1>2. SlotsExact'
  BY <1>1 DEF SlotsExact, Guards
<1>3. \A c \in Callers, a \in Accounts : Owner(c, a)' <=> Owner(c, a)
  BY DEF Owner
<1>4. LockHasOneOwner'
  BY <1>3 DEF LockHasOneOwner, Guards
<1>5. RegistryHeld' /\ DrainAfterShutdown' /\ DrainedIsQuiet'
  BY <1>1 DEF RegistryHeld, DrainAfterShutdown, DrainedIsQuiet, Guards
<1>6. QED BY <1>2, <1>4, <1>5 DEF Guards

-----------------------------------------------------------------------------
LEMMA CallStepKeepsGuards ==
  ASSUME TypeOK, Guards, NEW c \in Callers, Call(c) \/ CallStep(c) \/ Cancel(c)
  PROVE  TypeOK' /\ Guards'
<1> USE DEF TypeOK, Guards
<1>1. CASE Call(c)
  <2>1. TypeOK'
    BY <1>1, RowShapes DEF Call, Begins, countVars, stopVars, taskVars, taskLocals, rowVars, gatewayVars, providerVars
  <2>2. Admitted' = Admitted /\ Completing' = Completing
    BY <1>1 DEF Call, Admitted, Completing, taskVars
  <2>3. SlotsExact'
    BY <1>1, <2>2 DEF Call, SlotsExact, countVars
  <2>4. \A d \in Callers, a \in Accounts : Owner(d, a)' <=> Owner(d, a)
    BY <1>1 DEF Call, Owner
  <2>5. LockHasOneOwner'
    BY <1>1, <2>4 DEF Call, LockHasOneOwner, countVars, taskVars
  <2>6. RegistryHeld' /\ DrainAfterShutdown' /\ DrainedIsQuiet'
    BY <1>1, <2>2 DEF Call, RegistryHeld, DrainAfterShutdown, DrainedIsQuiet, stopVars
  <2>7. QED BY <2>1, <2>3, <2>5, <2>6
<1>2. CASE AcquireLock(c)
  <2>1. TypeOK'
    BY <1>2 DEF AcquireLock, stopVars, taskVars, taskLocals, rowVars, gatewayVars, providerVars
  <2>2. Admitted' = Admitted /\ Completing' = Completing
    BY <1>2 DEF AcquireLock, Admitted, Completing, taskVars
  <2>3. SlotsExact'
    BY <1>2, <2>2 DEF AcquireLock, SlotsExact
  <2>4. \A d \in Callers, a \in Accounts :
          Owner(d, a)' <=> Owner(d, a) \/ (d = c /\ a = acct[c])
    BY <1>2 DEF AcquireLock, Owner
  <2>5. LockHasOneOwner'
    BY <1>2, <2>4 DEF AcquireLock, LockHasOneOwner, taskVars
  <2>6. RegistryHeld' /\ DrainAfterShutdown' /\ DrainedIsQuiet'
    BY <1>2, <2>2 DEF AcquireLock, RegistryHeld, DrainAfterShutdown, DrainedIsQuiet, stopVars
  <2>7. QED BY <2>1, <2>3, <2>5, <2>6
<1>3. CASE AcquireSlot(c)
  <2>1. Cardinality(Admitted') = Cardinality(Admitted) + 1
    BY <1>3, AdmittedAdds DEF AcquireSlot
  <2>2. Completing' = Completing
    BY <1>3 DEF AcquireSlot, Completing, taskVars
  <2>3. TypeOK'
    BY <1>3 DEF AcquireSlot, stopVars, taskVars, taskLocals, rowVars, gatewayVars, providerVars
  <2>4. SlotsExact'
    BY <1>3, <2>1, <2>2, FiniteCounts DEF AcquireSlot, SlotsExact
  <2>5. \A d \in Callers, a \in Accounts : Owner(d, a)' <=> Owner(d, a)
    BY <1>3 DEF AcquireSlot, Owner
  <2>6. LockHasOneOwner'
    BY <1>3, <2>5 DEF AcquireSlot, LockHasOneOwner, taskVars
  <2>7. RegistryHeld' /\ DrainAfterShutdown' /\ DrainedIsQuiet'
    BY <1>3, <2>2 DEF AcquireSlot, RegistryHeld, DrainAfterShutdown, DrainedIsQuiet, stopVars
  <2>8. QED BY <2>3, <2>4, <2>6, <2>7
<1>4. CASE EnterRegistry(c)
  <2>1. TypeOK'
    BY <1>4 DEF EnterRegistry, countVars, taskVars, taskLocals, rowVars, gatewayVars, providerVars
  <2>2. Admitted' = Admitted /\ Completing' = Completing
    BY <1>4 DEF EnterRegistry, Admitted, Completing, taskVars
  <2>3. SlotsExact'
    BY <1>4, <2>2 DEF EnterRegistry, SlotsExact, countVars
  <2>4. \A d \in Callers, a \in Accounts : Owner(d, a)' <=> Owner(d, a)
    BY <1>4 DEF EnterRegistry, Owner
  <2>5. LockHasOneOwner'
    BY <1>4, <2>4 DEF EnterRegistry, LockHasOneOwner, countVars, taskVars
  <2>6. RegistryHeld'
    BY <1>4 DEF EnterRegistry, RegistryHeld
  <2>7. DrainAfterShutdown' /\ DrainedIsQuiet'
    BY <1>4 DEF EnterRegistry, DrainAfterShutdown, DrainedIsQuiet
  <2>8. QED BY <2>1, <2>3, <2>5, <2>6, <2>7
<1>5. CASE RefuseAtShutdown(c)
  <2>1. /\ Cardinality(Admitted') = Cardinality(Admitted) - 1
        /\ Cardinality(Admitted) >= 1
    BY <1>5, AdmittedDrops DEF RefuseAtShutdown
  <2>2. Completing' = Completing
    BY <1>5 DEF RefuseAtShutdown, Completing, taskVars
  <2>3. SlotsExact' /\ permits' \in 0..Slots
    BY <1>5, <2>1, <2>2, FiniteCounts DEF RefuseAtShutdown, SlotsExact
  <2>4. TypeOK'
    BY <1>5, <2>3, RowShapes DEF RefuseAtShutdown, stopVars, taskVars, taskLocals, rowVars, gatewayVars, providerVars
  <2>5. \A d \in Callers, a \in Accounts : Owner(d, a)' <=> Owner(d, a) /\ d # c
    BY <1>5 DEF RefuseAtShutdown, Owner
  <2>6. Owner(c, acct[c])
    BY <1>5 DEF RefuseAtShutdown, Owner
  <2>7. LockHasOneOwner'
    BY <1>5, <2>5, <2>6 DEF RefuseAtShutdown, LockHasOneOwner, taskVars, Owner
  <2>8. RegistryHeld' /\ DrainAfterShutdown' /\ DrainedIsQuiet'
    BY <1>5, <2>2 DEF RefuseAtShutdown, RegistryHeld, DrainAfterShutdown, DrainedIsQuiet, stopVars
  <2>9. QED BY <2>3, <2>4, <2>7, <2>8
<1>6. CASE Spawn(c)
  <2> DEFINE a == acct[c]
  <2>0. Owner(c, a) /\ at[a] = "none" /\ a \in Accounts
    BY <1>6 DEF Spawn, Owner, LockHasOneOwner
  <2>1. /\ Cardinality(Admitted') = Cardinality(Admitted) - 1
        /\ Cardinality(Admitted) >= 1
    BY <1>6, AdmittedDrops DEF Spawn
  <2>2. Cardinality(Completing') = Cardinality(Completing) + 1
    BY <1>6, <2>0, CompletingAdds DEF Spawn
  <2>3. SlotsExact'
    BY <1>6, <2>1, <2>2, FiniteCounts DEF Spawn, SlotsExact
  <2>4. TypeOK'
    BY <1>6, <2>3, RowShapes DEF Spawn, rowVars, gatewayVars, providerVars
  <2>5. \A d \in Callers, b \in Accounts : Owner(d, b)' <=> Owner(d, b) /\ d # c
    BY <1>6 DEF Spawn, Owner
  <2>6. LockHasOneOwner'
    BY <1>6, <2>0, <2>5 DEF Spawn, LockHasOneOwner, Owner
  <2>7. RegistryHeld'
    BY <1>6 DEF Spawn, RegistryHeld
  <2>8. DrainAfterShutdown' /\ DrainedIsQuiet'
    BY <1>6 DEF Spawn, DrainAfterShutdown, DrainedIsQuiet
  <2>9. QED BY <2>3, <2>4, <2>6, <2>7, <2>8
<1>7. CASE Cancel(c)
  <2>1. TypeOK'
    BY <1>7, RowShapes DEF Cancel, stopVars, taskVars, taskLocals, rowVars, gatewayVars, providerVars
  <2>2. Admitted' = Admitted /\ Completing' = Completing
    BY <1>7 DEF Cancel, Admitted, Completing, taskVars
  <2>3. SlotsExact'
    BY <1>7, <2>2 DEF Cancel, SlotsExact
  <2>4. \A d \in Callers, b \in Accounts : Owner(d, b)' <=> Owner(d, b) /\ d # c
    BY <1>7 DEF Cancel, Owner
  <2>5. LockHasOneOwner'
    <3>1. CASE pc[c] = "slot"
      BY <1>7, <2>4, <3>1 DEF Cancel, LockHasOneOwner, taskVars, Owner
    <3>2. CASE pc[c] # "slot"
      <4>1. \A b \in Accounts : ~Owner(c, b)
        BY <1>7, <3>2 DEF Cancel, Owner
      <4>2. QED BY <1>7, <2>4, <3>2, <4>1 DEF Cancel, LockHasOneOwner, taskVars
    <3>3. QED BY <3>1, <3>2
  <2>6. RegistryHeld' /\ DrainAfterShutdown' /\ DrainedIsQuiet'
    BY <1>7, <2>2 DEF Cancel, RegistryHeld, DrainAfterShutdown, DrainedIsQuiet, stopVars
  <2>7. QED BY <2>1, <2>3, <2>5, <2>6
<1>8. QED BY <1>1, <1>2, <1>3, <1>4, <1>5, <1>6, <1>7 DEF CallStep

-----------------------------------------------------------------------------
(* The shutdown and its drain.                                             *)
LEMMA DrainKeepsGuards ==
  ASSUME TypeOK, Guards, RequestShutdown \/ DrainStep
  PROVE  TypeOK' /\ Guards'
<1> USE DEF TypeOK, Guards
<1>1. UNCHANGED <<rowVars, countVars, registry, callVars, taskVars, rowVars, gatewayVars, providerVars, work, lost>>
  BY DEF RequestShutdown, DrainStep, DrainArm, DrainCheck, DrainWake
<1>2. TypeOK'
  BY <1>1 DEF RequestShutdown, DrainStep, DrainArm, DrainCheck, DrainWake, countVars, callVars,
              taskVars, taskLocals, rowVars, gatewayVars, providerVars
<1>3. Admitted' = Admitted /\ Completing' = Completing
  BY <1>1 DEF Admitted, Completing, callVars, taskVars
<1>4. SlotsExact'
  BY <1>1, <1>3 DEF SlotsExact, countVars
<1>5. \A d \in Callers, b \in Accounts : Owner(d, b)' <=> Owner(d, b)
  BY <1>1 DEF Owner, callVars
<1>6. LockHasOneOwner'
  BY <1>1, <1>5 DEF LockHasOneOwner, countVars, taskVars
<1>7. RegistryHeld'
  BY <1>1 DEF RegistryHeld, callVars
<1>8. DrainAfterShutdown'
  BY DEF DrainAfterShutdown, RequestShutdown, DrainStep, DrainArm, DrainCheck, DrainWake
<1>9. DrainedIsQuiet'
  <2>1. CASE DrainCheck
    <3>1. active = 0 => Completing = {}
      BY FiniteCounts, FS_EmptySet DEF SlotsExact
    <3>2. \A c \in Callers : pc[c] # "count"
      BY <2>1 DEF DrainCheck, RegistryHeld
    <3>3. QED BY <2>1, <1>1, <1>3, <3>1, <3>2 DEF DrainCheck, DrainedIsQuiet, callVars
  <2>2. CASE ~DrainCheck
    BY <2>2, <1>1, <1>3 DEF DrainedIsQuiet, RequestShutdown, DrainStep, DrainArm, DrainWake, callVars
  <2>3. QED BY <2>1, <2>2
<1>10. QED BY <1>2, <1>4, <1>6, <1>7, <1>8, <1>9

-----------------------------------------------------------------------------
(* Steps of calls and of the shutdown do not touch what Grants is about.   *)

(* Steps of calls and of the shutdown do not touch what Grants is about.   *)
Untouched(b) ==
  /\ row'[b] = row[b] /\ seen'[b] = seen[b]
  /\ base'[b] = base[b] /\ next'[b] = next[b]
  /\ gateway'[b] = gateway[b] /\ held'[b] = held[b] /\ answer'[b] = answer[b]
  /\ live'[b] = live[b] /\ spent'[b] = spent[b] /\ issued'[b] = issued[b]
  /\ lost'[b] = lost[b]

LEMMA GrantKept ==
  ASSUME NEW b \in Accounts, Grant(b), Untouched(b),
         at'[b] = at[b] \/ (at'[b] = "read" /\ at[b] = "none")
  PROVE  Grant(b)'
<1> USE DEF Untouched, Grant
<1>1. Issued(b)'
  BY DEF Issued, Known
<1>2. Holding(b)'
  BY DEF Holding, Answers, Fresh, Known
<1>3. BaseKnown(b)' /\ Stored(b)' /\ SentOnce(b)'
  BY DEF BaseKnown, Stored, SentOnce, Dead, Carried, GatewayCarries, Lost
<1>4. QED BY <1>1, <1>2, <1>3

LEMMA CallKeepsGrants ==
  ASSUME TypeOK, Guards, Grants, NEW c \in Callers, Call(c) \/ CallStep(c) \/ Cancel(c)
  PROVE  Grants'
<1>1. UNCHANGED <<row, seen, base, next, gateway, held, answer, live, spent, issued, lost>>
  BY DEF Call, CallStep, AcquireLock, AcquireSlot, EnterRegistry, RefuseAtShutdown, Spawn,
         Cancel, taskVars, taskLocals, rowVars, gatewayVars, providerVars
<1>2. \A b \in Accounts : at'[b] = at[b] \/ (at'[b] = "read" /\ at[b] = "none")
  <2>1. CASE Spawn(c)
    <3>1. acct[c] \in Accounts /\ at[acct[c]] = "none"
      BY <2>1 DEF Spawn, Guards, LockHasOneOwner, Owner, TypeOK
    <3>2. QED BY <2>1, <3>1 DEF Spawn, TypeOK
  <2>2. CASE ~Spawn(c)
    BY <2>2 DEF Call, CallStep, AcquireLock, AcquireSlot, EnterRegistry, RefuseAtShutdown,
                Cancel, taskVars
  <2>3. QED BY <2>1, <2>2
<1>3. ASSUME NEW b \in Accounts PROVE Grant(b)'
  <2>1. Grant(b) /\ Untouched(b)
    BY <1>1 DEF Grants, Untouched
  <2>2. QED BY <1>2, <2>1, GrantKept
<1>4. QED BY <1>3 DEF Grants

-----------------------------------------------------------------------------
(* The steps of a completion, and of the others who write its row. Each    *)
(* touches one account.                                                    *)
LEMMA OneAccount ==
  ASSUME Grants, NEW a \in Accounts, Grant(a)',
         \A b \in Accounts \ {a} : Untouched(b) /\ at'[b] = at[b]
  PROVE  Grants'
<1>1. ASSUME NEW b \in Accounts, b # a PROVE Grant(b)'
  <2>1. Grant(b)
    BY DEF Grants
  <2>2. QED BY <1>1, <2>1, GrantKept
<1>2. QED BY <1>1 DEF Grants

LEMMA Typed ==
  ASSUME TypeOK, NEW a \in Accounts
  PROVE  /\ row[a] \in Rows /\ base[a] \in Rows /\ next[a] \in Rows
         /\ held[a] \in Rows /\ answer[a] \in Rows /\ seen[a] \subseteq Rows
         /\ live[a] \subseteq Nat /\ spent[a] \subseteq Nat /\ issued[a] \in Nat
         /\ \A r \in Rows : r.access \in Nat /\ r.grant \in Nat /\ r.key \in Nat
         /\ NoRow.access = 0 /\ NoRow.grant = 0
BY DEF TypeOK, Rows, NoRow

(* Losses are only added, and to one account.                              *)
LostGrows(a) ==
  /\ lost' \in [Accounts -> SUBSET Losses] /\ lost[a] \subseteq lost'[a]
  /\ \A b \in Accounts \ {a} : lost'[b] = lost[b]

LostNow(a, g) == \E x \in lost'[a] : x.grant = g

LEMMA LosingGrows ==
  ASSUME TypeOK, NEW a \in Accounts
  PROVE  \A g \in Nat, by \in Causes :
           lost' = Losing(a, g, by) => LostGrows(a) /\ LostNow(a, g)
<1> SUFFICES ASSUME NEW g \in Nat, NEW by \in Causes, lost' = Losing(a, g, by)
             PROVE  LostGrows(a) /\ LostNow(a, g)
  OBVIOUS
<1>1. [grant |-> g, by |-> by] \in Losses
  BY DEF Losses
<1>2. lost'[a] = lost[a] \union {[grant |-> g, by |-> by]}
  BY DEF Losing, TypeOK
<1>3. LostGrows(a)
  BY <1>1, <1>2 DEF LostGrows, Losing, TypeOK
<1>4. \E x \in lost'[a] : x.grant = g
  <2>1. [grant |-> g, by |-> by].grant = g /\ [grant |-> g, by |-> by] \in lost'[a]
    BY <1>2
  <2>2. QED BY <2>1
<1>5. QED BY <1>3, <1>4 DEF LostNow

LEMMA OvertakingGrows ==
  ASSUME TypeOK, NEW a \in Accounts, NEW by \in Causes, lost' = Overtaking(a, by)
  PROVE  LostGrows(a) /\ (at[a] \in {"send", "persist"} => LostNow(a, base[a].grant))
<1>1. CASE at[a] \in {"send", "persist"}
  <2>1. lost' = Losing(a, base[a].grant, by) /\ base[a].grant \in Nat
    BY <1>1, Typed DEF Overtaking
  <2>2. QED BY <2>1, LosingGrows
<1>2. CASE at[a] \notin {"send", "persist"}
  BY <1>2 DEF Overtaking, LostGrows, TypeOK
<1>3. QED BY <1>1, <1>2

LEMMA DroppingGrows ==
  ASSUME TypeOK, NEW a \in Accounts, lost' = Dropping(a)
  PROVE  LostGrows(a) /\ (GatewayCarries(a, held[a].grant) => LostNow(a, held[a].grant))
<1>1. CASE GatewayCarries(a, held[a].grant)
  <2>1. lost' = Losing(a, held[a].grant, "gateway") /\ held[a].grant \in Nat /\ "gateway" \in Causes
    BY <1>1, Typed DEF Dropping, Causes
  <2>2. QED BY <2>1, LosingGrows
<1>2. CASE ~GatewayCarries(a, held[a].grant)
  BY <1>2 DEF Dropping, LostGrows, TypeOK
<1>3. QED BY <1>1, <1>2

LEMMA NothingLost ==
  ASSUME TypeOK, NEW a \in Accounts, lost' = lost
  PROVE  LostGrows(a)
BY DEF LostGrows, TypeOK

(* A completion that ends without having redeemed its grant, or after a    *)
(* swap that failed, leaves the row as it was.                             *)
LEMMA FinishKeepsGrants ==
  ASSUME TypeOK, Guards, Grants, NEW a \in Accounts, at[a] # "none", Finish(a),
         ~Carried(a) \/ LostNow(a, base[a].grant), LostGrows(a),
         UNCHANGED <<rowVars, gatewayVars, providerVars>>
  PROVE  Grants'
<1>1. Grant(a)
  BY DEF Grants
<1>2. /\ at'[a] = "none" /\ row'[a] = row[a] /\ seen'[a] = seen[a] /\ gateway'[a] = gateway[a]
      /\ held'[a] = held[a] /\ answer'[a] = answer[a] /\ live'[a] = live[a]
      /\ spent'[a] = spent[a] /\ issued'[a] = issued[a] /\ lost[a] \subseteq lost'[a]
  BY DEF Finish, Goto, TypeOK, LostGrows, rowVars, gatewayVars, providerVars
<1>3. Issued(a)'
  BY <1>1, <1>2 DEF Grant, Issued, Known
<1>4. Holding(a)'
  BY <1>1, <1>2 DEF Grant, Holding, Answers, Fresh, Known
<1>5. BaseKnown(a)' /\ SentOnce(a)'
  BY <1>2 DEF BaseKnown, SentOnce
<1>6. Stored(a)'
  BY <1>1, <1>2 DEF Grant, Stored, Dead, Carried, GatewayCarries, Lost, LostNow
<1>7. Grant(a)'
  BY <1>3, <1>4, <1>5, <1>6 DEF Grant
<1>8. \A b \in Accounts \ {a} : Untouched(b) /\ at'[b] = at[b]
  BY DEF Untouched, Finish, Goto, TypeOK, LostGrows, rowVars, gatewayVars, providerVars
<1>9. QED BY <1>7, <1>8, OneAccount

LEMMA FinishKeepsTypes ==
  ASSUME TypeOK, Guards, NEW a \in Accounts, at[a] # "none", Finish(a), LostGrows(a),
         row' \in [Accounts -> Rows], seen' \in [Accounts -> SUBSET Rows],
         UNCHANGED <<gatewayVars, providerVars, work>>
  PROVE  TypeOK' /\ Guards'
BY FinishKeepsGuards DEF TypeOK, Finish, LostGrows, gatewayVars, providerVars

(* A row is stored: types, and what is known of the one account.           *)
LEMMA StoreTypes ==
  ASSUME TypeOK, NEW a \in Accounts, NEW r \in Rows, Store(a, r)
  PROVE  /\ row' \in [Accounts -> Rows] /\ seen' \in [Accounts -> SUBSET Rows]
         /\ row'[a] = r /\ seen'[a] = seen[a] \union {r}
         /\ \A b \in Accounts \ {a} : row'[b] = row[b] /\ seen'[b] = seen[b]
BY DEF Store, TypeOK

(* The end of a completion that has nothing in its hands.                  *)
LEMMA EndKeeps ==
  ASSUME TypeOK, Guards, Grants, NEW a \in Accounts, at[a] # "none", Finish(a),
         ~Carried(a) \/ LostNow(a, base[a].grant), LostGrows(a),
         UNCHANGED <<rowVars, gatewayVars, providerVars, work>>
  PROVE  TypeOK' /\ Guards' /\ Grants'
<1>1. row' \in [Accounts -> Rows] /\ seen' \in [Accounts -> SUBSET Rows]
  BY DEF TypeOK, rowVars
<1>2. QED BY <1>1, FinishKeepsTypes, FinishKeepsGrants

LEMMA ReadLatestKeeps ==
  ASSUME TypeOK, Guards, Grants, NEW a \in Accounts, ReadLatest(a)
  PROVE  TypeOK' /\ Guards' /\ Grants'
<1>1. UNCHANGED <<rowVars, gatewayVars, providerVars, work, lost>> /\ at[a] = "read"
  BY DEF ReadLatest
<1>2. CASE Finish(a)
  BY <1>1, <1>2, EndKeeps, NothingLost DEF Carried
<1>3. CASE ~Finish(a)
  <2>1. /\ row[a] # NoRow /\ base' = [base EXCEPT ![a] = row[a]]
        /\ at' = [at EXCEPT ![a] = "send"] /\ input' = [input EXCEPT ![a] = NoToken]
        /\ UNCHANGED <<countVars, stopVars, callVars, next, resent>>
    BY <1>3 DEF ReadLatest, Goto
  <2>2. TypeOK'
    BY <1>1, <2>1, RowShapes DEF TypeOK, countVars, stopVars, callVars, rowVars, gatewayVars, providerVars
  <2>3. Guards'
    <3>1. \A b \in Accounts : at'[b] = "none" <=> at[b] = "none"
      BY <1>1, <2>1 DEF TypeOK
    <3>2. QED BY <2>1, <3>1, GuardsKept DEF countVars, stopVars, callVars
  <2>4. Grant(a)
    BY DEF Grants
  <2>5. /\ at'[a] = "send" /\ base'[a] = row[a] /\ row'[a] = row[a] /\ seen'[a] = seen[a]
        /\ next'[a] = next[a] /\ gateway'[a] = gateway[a] /\ held'[a] = held[a]
        /\ answer'[a] = answer[a] /\ live'[a] = live[a] /\ spent'[a] = spent[a]
        /\ issued'[a] = issued[a] /\ lost'[a] = lost[a]
    BY <1>1, <2>1 DEF TypeOK, rowVars, gatewayVars, providerVars
  <2>6. Issued(a)'
    BY <2>4, <2>5 DEF Grant, Issued, Known
  <2>7. Holding(a)'
    BY <2>1, <2>4, <2>5 DEF Grant, Issued, Holding, Answers, Fresh, Known
  <2>8. BaseKnown(a)' /\ Stored(a)' /\ SentOnce(a)'
    BY <1>1, <2>1, <2>4, <2>5 DEF Grant, Issued, BaseKnown, Stored, SentOnce, Dead, Carried,
                                  GatewayCarries, Lost
  <2>9. Grant(a)'
    BY <2>6, <2>7, <2>8 DEF Grant
  <2>10. \A b \in Accounts \ {a} : Untouched(b) /\ at'[b] = at[b]
    BY <1>1, <2>1 DEF Untouched, TypeOK, rowVars, gatewayVars, providerVars
  <2>11. QED BY <2>2, <2>3, <2>9, <2>10, OneAccount
<1>4. QED BY <1>2, <1>3

(* The provider redeems a grant: what changes is known.                    *)
LEMMA ProviderTypes ==
  ASSUME TypeOK, NEW a \in Accounts
  PROVE  \A g \in live[a], rotate \in BOOLEAN : ProviderRedeems(a, g, rotate) =>
           /\ live' \in [Accounts -> SUBSET Nat] /\ spent' \in [Accounts -> SUBSET Nat]
           /\ issued' \in [Accounts -> Nat] /\ issued'[a] = issued[a] + 1
           /\ live'[a] = (IF rotate THEN (live[a] \ {g}) \union {issued[a] + 1} ELSE live[a])
           /\ spent'[a] = (IF rotate THEN spent[a] \union {g} ELSE spent[a])
           /\ \A b \in Accounts \ {a} : /\ live'[b] = live[b] /\ spent'[b] = spent[b]
                                        /\ issued'[b] = issued[b]
<1> SUFFICES ASSUME NEW g \in live[a], NEW rotate \in BOOLEAN, ProviderRedeems(a, g, rotate)
             PROVE  /\ live' \in [Accounts -> SUBSET Nat] /\ spent' \in [Accounts -> SUBSET Nat]
                    /\ issued' \in [Accounts -> Nat] /\ issued'[a] = issued[a] + 1
                    /\ live'[a] = (IF rotate THEN (live[a] \ {g}) \union {issued[a] + 1} ELSE live[a])
                    /\ spent'[a] = (IF rotate THEN spent[a] \union {g} ELSE spent[a])
                    /\ \A b \in Accounts \ {a} : /\ live'[b] = live[b] /\ spent'[b] = spent[b]
                                                 /\ issued'[b] = issued[b]
  OBVIOUS
<1>1. issued[a] + 1 \in Nat /\ g \in Nat
  BY DEF TypeOK
<1>2. QED BY <1>1 DEF ProviderRedeems, TypeOK

(* Afterwards the numbers are still known, the new grant is fresh and so   *)
(* is every other one that was.                                            *)
FreshNow(a, g) == g \in live'[a] /\ g # NoRow.grant /\ \A t \in seen'[a] : t.grant # g

LEMMA ProviderIssues ==
  ASSUME TypeOK, Grants, NEW a \in Accounts, UNCHANGED rowVars
  PROVE  \A g \in live[a], rotate \in BOOLEAN : ProviderRedeems(a, g, rotate) =>
           /\ Issued(a)'
           /\ rotate => FreshNow(a, issued[a] + 1)
           /\ \A h \in Nat : Fresh(a, h) /\ h # g => FreshNow(a, h) /\ h # issued[a] + 1
           /\ \A r \in Rows : r.access <= issued[a] => r.access <= issued'[a]
           /\ \A r \in Rows : r.grant <= issued[a] => r.grant <= issued'[a]
<1> SUFFICES ASSUME NEW g \in live[a], NEW rotate \in BOOLEAN, ProviderRedeems(a, g, rotate)
             PROVE  /\ Issued(a)'
                    /\ rotate => FreshNow(a, issued[a] + 1)
                    /\ \A h \in Nat : Fresh(a, h) /\ h # g => FreshNow(a, h) /\ h # issued[a] + 1
                    /\ \A r \in Rows : r.access <= issued[a] => r.access <= issued'[a]
                    /\ \A r \in Rows : r.grant <= issued[a] => r.grant <= issued'[a]
  OBVIOUS
<1> DEFINE n == issued[a] + 1
<1>1. /\ issued'[a] = n /\ n \in Nat /\ issued[a] \in Nat /\ g \in Nat
      /\ live'[a] = (IF rotate THEN (live[a] \ {g}) \union {n} ELSE live[a])
      /\ spent'[a] = (IF rotate THEN spent[a] \union {g} ELSE spent[a])
      /\ row'[a] = row[a] /\ seen'[a] = seen[a]
  <2>1. row'[a] = row[a] /\ seen'[a] = seen[a]
    BY DEF rowVars
  <2>2. issued[a] \in Nat /\ n \in Nat /\ g \in Nat
    BY Typed
  <2>3. QED BY <2>1, <2>2 DEF ProviderRedeems, TypeOK
<1>2. /\ \A x \in live[a] \union spent[a] : x \in Nat /\ x <= issued[a]
      /\ live[a] \intersect spent[a] = {}
      /\ \A t \in seen[a] : /\ t \in Rows /\ t.access # NoRow.access
                           /\ t.access <= issued[a] /\ t.grant <= issued[a]
      /\ row[a] = NoRow \/ row[a] \in seen[a]
  BY Typed DEF Grants, Grant, Issued, Known
<1>3. \A x \in Nat : x <= issued[a] => x <= n /\ x # n
  BY <1>1
<1>4. \A x \in live'[a] \union spent'[a] : x <= n
  BY <1>1, <1>2, <1>3
<1>5. live'[a] \intersect spent'[a] = {}
  <2>1. n \notin spent[a] /\ n # g
    BY <1>1, <1>2, <1>3
  <2>2. QED BY <1>1, <1>2, <2>1
<1>6. \A t \in seen[a] : t.access <= n /\ t.grant <= n /\ t.grant # n
  BY <1>2, <1>3, Typed
<1>7. Issued(a)'
  BY <1>1, <1>2, <1>4, <1>5, <1>6 DEF Issued, Known
<1>8. rotate => FreshNow(a, n)
  BY <1>1, <1>6, Typed DEF FreshNow
<1>9. \A h \in Nat : Fresh(a, h) /\ h # g => FreshNow(a, h) /\ h # n
  BY <1>1, <1>2, <1>3 DEF Fresh, FreshNow
<1>10. \A r \in Rows : (r.access <= issued[a] => r.access <= n) /\ (r.grant <= issued[a] => r.grant <= n)
  BY <1>3, Typed
<1>11. QED BY <1>1, <1>7, <1>8, <1>9, <1>10
LEMMA RedeemKeeps ==
  ASSUME TypeOK, Guards, Grants, NEW a \in Accounts, Redeem(a)
  PROVE  TypeOK' /\ Guards' /\ Grants'
<1> DEFINE g == base[a].grant
           n == issued[a] + 1
<1>1. PICK rotate \in BOOLEAN :
        /\ ProviderRedeems(a, g, rotate)
        /\ next' = [next EXCEPT ![a] = Answered(a, base[a], rotate)]
  BY DEF Redeem
<1>2. /\ at[a] = "send" /\ at' = [at EXCEPT ![a] = "persist"]
      /\ UNCHANGED <<rowVars, countVars, stopVars, callVars, input, base, resent, gatewayVars, work, lost>>
  BY DEF Redeem, Goto
<1>3. /\ base[a] \in Rows /\ n \in Nat /\ g \in Nat /\ g \in live[a]
      /\ issued[a] \in Nat
  BY <1>1, Typed DEF ProviderRedeems
<1>4. next' \in [Accounts -> Rows] /\ next'[a] \in Rows /\ next'[a].access = n
      /\ next'[a].grant = (IF rotate THEN n ELSE g)
  BY <1>1, <1>3 DEF TypeOK, Rows, Answered
<1>5. /\ live' \in [Accounts -> SUBSET Nat] /\ spent' \in [Accounts -> SUBSET Nat]
      /\ issued' \in [Accounts -> Nat] /\ issued'[a] = n
      /\ live'[a] = (IF rotate THEN (live[a] \ {g}) \union {n} ELSE live[a])
      /\ spent'[a] = (IF rotate THEN spent[a] \union {g} ELSE spent[a])
      /\ \A b \in Accounts \ {a} : /\ live'[b] = live[b] /\ spent'[b] = spent[b]
                                   /\ issued'[b] = issued[b]
  BY <1>1, <1>3 DEF ProviderRedeems, TypeOK
<1>6. TypeOK'
  BY <1>2, <1>4, <1>5 DEF TypeOK, countVars, stopVars, callVars, rowVars, gatewayVars
<1>7. Guards'
  <2>1. \A b \in Accounts : at'[b] = "none" <=> at[b] = "none"
    BY <1>2 DEF TypeOK
  <2>2. QED BY <1>2, <2>1, GuardsKept DEF countVars, stopVars, callVars
<1>8. Grant(a)
  BY DEF Grants
<1>9. /\ at'[a] = "persist" /\ row'[a] = row[a] /\ base'[a] = base[a] /\ seen'[a] = seen[a]
      /\ gateway'[a] = gateway[a] /\ held'[a] = held[a] /\ answer'[a] = answer[a]
      /\ lost'[a] = lost[a]
  BY <1>2 DEF TypeOK, rowVars, gatewayVars
<1>10. /\ Issued(a)' /\ (rotate => FreshNow(a, n))
       /\ \A h \in Nat : Fresh(a, h) /\ h # g => FreshNow(a, h) /\ h # n
       /\ \A r \in Rows : r.access <= issued[a] => r.access <= issued'[a]
       /\ \A r \in Rows : r.grant <= issued[a] => r.grant <= issued'[a]
  BY <1>1, <1>2, <1>3, ProviderIssues
<1>11. Holding(a)'
  <2>1. base[a] \in seen[a] /\ Known(base[a], a)
    BY <1>2, <1>8 DEF Grant, Holding, Issued
  <2>2. Answers(a, base[a], next[a])'
    BY <1>3, <1>4, <1>5, <1>9, <1>10, <2>1, Typed DEF Answers, Known, Fresh, FreshNow
  <2>3. gateway[a] # "none" => held[a] \in seen[a]
    BY <1>8 DEF Grant, Holding
  <2>4. ASSUME gateway[a] = "persist" PROVE Answers(a, held[a], answer[a])'
    <3>1. Answers(a, held[a], answer[a]) /\ answer[a] \in Rows /\ answer[a].grant \in Nat
      BY <1>8, <2>4, Typed DEF Grant, Holding
    <3>2. answer[a].grant = held[a].grant \/ FreshNow(a, answer[a].grant)
      BY <1>10, <2>1, <3>1 DEF Answers, Fresh
    <3>3. QED BY <1>9, <1>10, <3>1, <3>2 DEF Answers, Known, Fresh, FreshNow
  <2>5. ASSUME gateway[a] = "persist", next'[a].grant = answer[a].grant
        PROVE  next'[a].grant = base[a].grant
    <3>1. Known(answer[a], a) /\ answer[a].grant \in Nat
      BY <1>8, <2>5, Typed DEF Grant, Holding, Answers
    <3>2. answer[a].grant # n
      BY <1>3, <3>1 DEF Known
    <3>3. QED BY <1>4, <2>5, <3>2
  <2>6. QED BY <1>9, <2>1, <2>2, <2>3, <2>4, <2>5 DEF Holding
<1>12. BaseKnown(a)'
  BY <1>2, <1>8, <1>9 DEF Grant, BaseKnown, Lost
<1>13. Stored(a)'
  <2>1. ~Carried(a)
    BY <1>2 DEF Carried
  <2>2. CASE Dead(a)
    BY <1>8, <1>9, <2>1, <2>2 DEF Grant, Stored, Dead, GatewayCarries, Lost
  <2>3. CASE row[a] # NoRow /\ row[a].grant = g /\ rotate
    <3>1. n # g
      BY <1>3, <1>8 DEF Grant, Issued
    <3>2. row[a] = base[a] \/ Lost(a, g)
      BY <1>2, <1>8, <2>3 DEF Grant, BaseKnown
    <3>3. QED BY <1>4, <1>9, <2>3, <3>1, <3>2 DEF Stored, Carried, Lost
  <2>4. CASE row[a] # NoRow /\ row[a].grant \in live[a] /\ ~(row[a].grant = g /\ rotate)
    BY <1>5, <1>9, <2>4 DEF Stored, Dead
  <2>5. CASE row[a] = NoRow
    BY <1>9, <2>5 DEF Stored, Dead
  <2>6. QED BY <2>2, <2>3, <2>4, <2>5 DEF Dead
<1>14. SentOnce(a)'
  BY <1>9 DEF SentOnce
<1>15. Grant(a)'
  BY <1>10, <1>11, <1>12, <1>13, <1>14 DEF Grant
<1>16. \A b \in Accounts \ {a} : Untouched(b) /\ at'[b] = at[b]
  BY <1>1, <1>2, <1>5 DEF Untouched, TypeOK, rowVars, gatewayVars
<1>17. QED BY <1>6, <1>7, <1>15, <1>16, OneAccount

LEMMA RejectKeeps ==
  ASSUME TypeOK, Guards, Grants, NEW a \in Accounts, Reject(a)
  PROVE  TypeOK' /\ Guards' /\ Grants'
<1>1. UNCHANGED <<rowVars, gatewayVars, providerVars, work, lost>> /\ at[a] = "send" /\ Finish(a)
  BY DEF Reject
<1>2. QED BY <1>1, EndKeeps, NothingLost DEF Carried

LEMMA LoseAnswerKeeps ==
  ASSUME TypeOK, Guards, Grants, NEW a \in Accounts, LoseAnswer(a)
  PROVE  TypeOK' /\ Guards' /\ Grants'
<1>1. /\ at[a] \in {"send", "persist"} /\ UNCHANGED <<rowVars, gatewayVars, providerVars, work>>
      /\ lost' = IF at[a] = "persist" THEN Losing(a, base[a].grant, "answer") ELSE lost
  BY DEF LoseAnswer
<1>2. LostGrows(a) /\ (at[a] = "persist" => LostNow(a, base[a].grant))
  <2>1. CASE at[a] = "persist"
    <3>1. base[a].grant \in Nat /\ "answer" \in Causes
      BY Typed DEF Causes
    <3>2. QED BY <1>1, <2>1, <3>1, LosingGrows
  <2>2. CASE at[a] # "persist"
    BY <1>1, <2>2, NothingLost
  <2>3. QED BY <2>1, <2>2
<1>3. CASE Finish(a)
  BY <1>1, <1>2, <1>3, EndKeeps DEF Carried
<1>4. CASE ~Finish(a)
  <2>1. /\ resent' = [resent EXCEPT ![a] = TRUE] /\ next' = [next EXCEPT ![a] = NoRow]
        /\ at' = [at EXCEPT ![a] = "send"] /\ UNCHANGED <<countVars, stopVars, callVars, input, base>>
    BY <1>4 DEF LoseAnswer, Goto
  <2>2. TypeOK'
    BY <1>1, <1>2, <2>1, RowShapes DEF TypeOK, LostGrows, countVars, stopVars, callVars, rowVars,
                                       gatewayVars, providerVars
  <2>3. Guards'
    <3>1. \A b \in Accounts : at'[b] = "none" <=> at[b] = "none"
      BY <1>1, <2>1 DEF TypeOK
    <3>2. QED BY <2>1, <3>1, GuardsKept DEF countVars, stopVars, callVars
  <2>4. Grant(a)
    BY DEF Grants
  <2>5. /\ at'[a] = "send" /\ row'[a] = row[a] /\ seen'[a] = seen[a] /\ base'[a] = base[a]
        /\ gateway'[a] = gateway[a] /\ held'[a] = held[a] /\ answer'[a] = answer[a]
        /\ live'[a] = live[a] /\ spent'[a] = spent[a] /\ issued'[a] = issued[a]
        /\ lost[a] \subseteq lost'[a]
    BY <1>1, <1>2, <2>1 DEF TypeOK, LostGrows, rowVars, gatewayVars, providerVars
  <2>6. Issued(a)'
    BY <2>4, <2>5 DEF Grant, Issued, Known
  <2>7. Holding(a)'
    BY <1>1, <2>4, <2>5 DEF Grant, Holding, Answers, Fresh, Known
  <2>8. BaseKnown(a)'
    BY <1>1, <2>4, <2>5 DEF Grant, BaseKnown, Lost
  <2>9. Stored(a)'
    BY <1>1, <1>2, <2>4, <2>5 DEF Grant, Stored, Dead, Carried, GatewayCarries, Lost, LostNow
  <2>10. SentOnce(a)'
    BY <1>1, <1>2, <2>4, <2>5 DEF Grant, SentOnce, GatewayCarries, Lost, LostNow
  <2>11. Grant(a)'
    BY <2>6, <2>7, <2>8, <2>9, <2>10 DEF Grant
  <2>12. \A b \in Accounts \ {a} : Untouched(b) /\ at'[b] = at[b]
    BY <1>1, <1>2, <2>1 DEF Untouched, TypeOK, LostGrows, rowVars, gatewayVars, providerVars
  <2>13. QED BY <2>2, <2>3, <2>11, <2>12, OneAccount
<1>5. QED BY <1>3, <1>4
(* What a stored row does to what is known: nothing, but that its grant is *)
(* not fresh any more.                                                     *)
LEMMA StoreIssues ==
  ASSUME TypeOK, Grants, NEW a \in Accounts, UNCHANGED providerVars
  PROVE  \A r \in Rows : Store(a, r) /\ r.access # NoRow.access /\ Known(r, a) =>
           /\ Issued(a)'
           /\ \A h \in Nat : Fresh(a, h) /\ h # r.grant => FreshNow(a, h)
<1> SUFFICES ASSUME NEW r \in Rows, Store(a, r), r.access # NoRow.access, Known(r, a)
             PROVE  /\ Issued(a)'
                    /\ \A h \in Nat : Fresh(a, h) /\ h # r.grant => FreshNow(a, h)
  OBVIOUS
<1>1. Grant(a)
  BY DEF Grants
<1>2. /\ row'[a] = r /\ seen'[a] = seen[a] \union {r}
      /\ live'[a] = live[a] /\ spent'[a] = spent[a] /\ issued'[a] = issued[a]
  BY DEF Store, TypeOK, providerVars
<1>3. Issued(a)'
  BY <1>1, <1>2 DEF Grant, Issued, Known
<1>4. QED BY <1>2, <1>3 DEF Fresh, FreshNow

(* The two swaps: the row becomes the completion's, or the completion ends *)
(* and the row stays.                                                      *)
LEMMA PersistKeeps ==
  ASSUME TypeOK, Guards, Grants, NEW a \in Accounts, Persist(a)
  PROVE  TypeOK' /\ Guards' /\ Grants'
<1>1. at[a] = "persist" /\ UNCHANGED <<gatewayVars, providerVars, work, lost>>
  BY DEF Persist
<1>2. Grant(a) /\ next[a] \in Rows
  BY Typed DEF Grants
<1>3. CASE row[a] # base[a]
  <2>1. Finish(a) /\ UNCHANGED rowVars
    BY <1>3 DEF Persist, CurrentRow
  <2>2. QED BY <1>1, <1>3, <2>1, EndKeeps, NothingLost DEF Carried
<1>4. CASE row[a] = base[a]
  <2>1. Store(a, next[a])
    BY <1>4 DEF Persist, CurrentRow
  <2>2. /\ row' \in [Accounts -> Rows] /\ seen' \in [Accounts -> SUBSET Rows]
        /\ row'[a] = next[a] /\ seen'[a] = seen[a] \union {next[a]}
        /\ \A b \in Accounts \ {a} : row'[b] = row[b] /\ seen'[b] = seen[b]
    BY <1>2, <2>1 DEF Store, TypeOK
  <2>3. TypeOK' /\ Guards'
    <3>1. CASE Finish(a)
      BY <1>1, <2>2, <3>1, FinishKeepsTypes, NothingLost
    <3>2. CASE ~Finish(a)
      <4>1. /\ at' = [at EXCEPT ![a] = "exchange"] /\ base' = [base EXCEPT ![a] = NoRow]
            /\ resent' = [resent EXCEPT ![a] = FALSE]
            /\ UNCHANGED <<countVars, stopVars, callVars, input, next>>
        BY <1>4, <3>2 DEF Persist, CurrentRow, Goto
      <4>2. \A b \in Accounts : at'[b] = "none" <=> at[b] = "none"
        BY <1>1, <4>1 DEF TypeOK
      <4>3. Guards'
        BY <4>1, <4>2, GuardsKept DEF countVars, stopVars, callVars
      <4>4. TypeOK'
        BY <1>1, <2>2, <4>1, RowShapes DEF TypeOK, countVars, stopVars, callVars, gatewayVars,
                                           providerVars
      <4>5. QED BY <4>3, <4>4
    <3>3. QED BY <3>1, <3>2
  <2>4. /\ at'[a] = "none" \/ (at'[a] = "exchange" /\ next'[a] = next[a])
        /\ \A b \in Accounts \ {a} : /\ at'[b] = at[b]
                                     /\ base'[b] = base[b] /\ next'[b] = next[b]
    BY <1>4 DEF Persist, CurrentRow, Finish, Goto, TypeOK
  <2>5. /\ gateway'[a] = gateway[a] /\ held'[a] = held[a] /\ answer'[a] = answer[a]
        /\ live'[a] = live[a] /\ spent'[a] = spent[a] /\ issued'[a] = issued[a]
        /\ lost'[a] = lost[a]
    BY <1>1 DEF gatewayVars, providerVars
  <2>6. Answers(a, base[a], next[a]) /\ base[a] \in seen[a]
    BY <1>1, <1>2 DEF Grant, Holding
  <2>7. next[a].access # NoRow.access
    <3>1. base[a].access # NoRow.access /\ base[a] \in Rows
      BY <1>2, <2>6, Typed DEF Grant, Issued
    <3>2. QED BY <1>2, <2>6, <3>1, Typed DEF Answers
  <2>8. Issued(a)' /\ \A h \in Nat : Fresh(a, h) /\ h # next[a].grant => FreshNow(a, h)
    BY <1>1, <1>2, <2>1, <2>6, <2>7, StoreIssues DEF Answers
  <2>9. Holding(a)'
    <3>1. next[a] \in seen'[a] /\ (gateway[a] # "none" => held[a] \in seen'[a])
      BY <1>2, <2>2 DEF Grant, Holding
    <3>2. ASSUME gateway[a] = "persist" PROVE Answers(a, held[a], answer[a])'
      <4>1. Answers(a, held[a], answer[a]) /\ answer[a].grant \in Nat
        BY <1>2, <3>2, Typed DEF Grant, Holding
      <4>2. answer[a].grant = held[a].grant \/ FreshNow(a, answer[a].grant)
        BY <1>1, <1>2, <2>6, <2>8, <3>2, <4>1 DEF Answers, Fresh, Grant, Holding
      <4>3. QED BY <2>2, <2>5, <4>1, <4>2 DEF Answers, Known, Fresh, FreshNow
    <3>3. QED BY <2>4, <2>5, <3>1, <3>2 DEF Holding
  <2>10. BaseKnown(a)' /\ SentOnce(a)'
    BY <2>4 DEF BaseKnown, SentOnce
  <2>11. Stored(a)'
    <3>1. SUFFICES ASSUME next[a].grant \notin live[a] PROVE Stored(a)'
      BY <2>2, <2>5 DEF Stored, Dead
    <3>2. next[a].grant = row[a].grant
      BY <1>4, <2>6, <3>1 DEF Answers, Fresh
    <3>3. Dead(a) /\ ~Carried(a)
      BY <1>2, <1>4, <2>6, <3>1, <3>2 DEF Dead, Carried, Grant, Issued
    <3>4. QED BY <1>2, <2>2, <2>5, <3>2, <3>3 DEF Grant, Stored, GatewayCarries, Lost
  <2>12. Grant(a)'
    BY <2>8, <2>9, <2>10, <2>11 DEF Grant
  <2>13. \A b \in Accounts \ {a} : Untouched(b) /\ at'[b] = at[b]
    BY <1>1, <2>2, <2>4 DEF Untouched, gatewayVars, providerVars
  <2>14. QED BY <2>3, <2>12, <2>13, OneAccount
<1>5. QED BY <1>3, <1>4

LEMMA ExchangeKeeps ==
  ASSUME TypeOK, Guards, Grants, NEW a \in Accounts, Exchange(a)
  PROVE  TypeOK' /\ Guards' /\ Grants'
<1>1. at[a] = "exchange" /\ UNCHANGED <<rowVars, gatewayVars, providerVars, work, lost>>
  BY DEF Exchange
<1>2. CASE Finish(a)
  BY <1>1, <1>2, EndKeeps, NothingLost DEF Carried
<1>3. CASE ~Finish(a)
  <2>1. at' = [at EXCEPT ![a] = "storeKey"]
        /\ UNCHANGED <<countVars, stopVars, callVars, taskLocals>>
    BY <1>3 DEF Exchange, Goto
  <2>2. \A b \in Accounts : at'[b] = "none" <=> at[b] = "none"
    BY <1>1, <2>1 DEF TypeOK
  <2>3. Guards'
    BY <2>1, <2>2, GuardsKept DEF countVars, stopVars, callVars
  <2>4. TypeOK'
    BY <1>1, <2>1 DEF TypeOK, countVars, stopVars, callVars, taskLocals, rowVars, gatewayVars, providerVars
  <2>5. Grant(a) /\ at'[a] = "storeKey" /\ Untouched(a)
    BY <1>1, <2>1 DEF Grants, Untouched, TypeOK, taskLocals, rowVars, gatewayVars, providerVars
  <2>6. Issued(a)' /\ Holding(a)'
    BY <1>1, <2>5 DEF Grant, Issued, Holding, Answers, Fresh, Known, Untouched
  <2>7. BaseKnown(a)' /\ Stored(a)' /\ SentOnce(a)'
    BY <1>1, <2>5 DEF Grant, BaseKnown, Stored, SentOnce, Dead, Carried, GatewayCarries, Lost, Untouched
  <2>8. Grant(a)'
    BY <2>6, <2>7 DEF Grant
  <2>9. \A b \in Accounts \ {a} : Untouched(b) /\ at'[b] = at[b]
    BY <1>1, <2>1 DEF Untouched, TypeOK, taskLocals, rowVars, gatewayVars, providerVars
  <2>10. QED BY <2>3, <2>4, <2>8, <2>9, OneAccount
<1>4. QED BY <1>2, <1>3

(* Another key of the row: its credentials stay.                           *)
LEMMA StoreKeyKeeps ==
  ASSUME TypeOK, Guards, Grants, NEW a \in Accounts, StoreKey(a)
  PROVE  TypeOK' /\ Guards' /\ Grants'
<1>1. at[a] = "storeKey" /\ Finish(a) /\ UNCHANGED <<gatewayVars, providerVars, work, lost>>
  BY DEF StoreKey
<1>2. CASE row[a] # next[a]
  <2>1. UNCHANGED rowVars
    BY <1>2 DEF StoreKey, CurrentRow
  <2>2. QED BY <1>1, <2>1, EndKeeps, NothingLost DEF Carried
<1>3. CASE row[a] = next[a]
  <2> DEFINE r == [next[a] EXCEPT !.key = OwnKey]
  <2>1. Store(a, r)
    BY <1>3 DEF StoreKey, CurrentRow
  <2>2. r \in Rows /\ r.access = row[a].access /\ r.grant = row[a].grant
    <3>1. next[a] \in Rows /\ OwnKey \in Nat
      BY Typed DEF OwnKey
    <3>2. QED BY <1>3, <3>1, RowShapes
  <2>3. /\ row' \in [Accounts -> Rows] /\ seen' \in [Accounts -> SUBSET Rows]
        /\ row'[a] = r /\ seen'[a] = seen[a] \union {r}
        /\ \A b \in Accounts \ {a} : row'[b] = row[b] /\ seen'[b] = seen[b]
    BY <2>1, <2>2 DEF Store, TypeOK
  <2>4. TypeOK' /\ Guards'
    BY <1>1, <2>3, FinishKeepsTypes, NothingLost
  <2>5. Grant(a)
    BY DEF Grants
  <2>6. /\ at'[a] = "none" /\ gateway'[a] = gateway[a] /\ held'[a] = held[a]
        /\ answer'[a] = answer[a] /\ live'[a] = live[a] /\ spent'[a] = spent[a]
        /\ issued'[a] = issued[a] /\ lost'[a] = lost[a]
    BY <1>1 DEF Finish, Goto, TypeOK, gatewayVars, providerVars
  <2>7. row[a] \in seen[a] /\ row[a].access # NoRow.access /\ Known(row[a], a)
    BY <1>1, <1>3, <2>5 DEF Grant, Holding, Issued
  <2>8. Issued(a)' /\ \A h \in Nat : Fresh(a, h) => FreshNow(a, h)
    <3>1. Issued(a)' /\ \A h \in Nat : Fresh(a, h) /\ h # r.grant => FreshNow(a, h)
      BY <1>1, <2>1, <2>2, <2>7, StoreIssues DEF Known
    <3>2. QED BY <2>2, <2>7, <3>1 DEF Fresh
  <2>9. Holding(a)'
    <3>1. ASSUME gateway[a] = "persist" PROVE Answers(a, held[a], answer[a])'
      <4>1. Answers(a, held[a], answer[a]) /\ answer[a].grant \in Nat
        BY <2>5, <3>1, Typed DEF Grant, Holding
      <4>2. QED BY <2>3, <2>6, <2>8, <4>1 DEF Answers, Known, Fresh, FreshNow
    <3>2. QED BY <2>3, <2>5, <2>6, <3>1 DEF Grant, Holding
  <2>10. BaseKnown(a)' /\ SentOnce(a)'
    BY <2>6 DEF BaseKnown, SentOnce
  <2>11. Stored(a)'
    BY <1>1, <2>2, <2>3, <2>5, <2>6, <2>7 DEF Grant, Stored, Dead, Carried, GatewayCarries, Lost
  <2>12. Grant(a)'
    BY <2>8, <2>9, <2>10, <2>11 DEF Grant
  <2>13. \A b \in Accounts \ {a} : Untouched(b) /\ at'[b] = at[b]
    BY <1>1, <2>3 DEF Untouched, Finish, Goto, TypeOK, gatewayVars, providerVars
  <2>14. QED BY <2>4, <2>12, <2>13, OneAccount
<1>4. QED BY <1>2, <1>3
-----------------------------------------------------------------------------
(* The others who write the row leave calls and completions alone.         *)
LEMMA OutsideKeeps ==
  ASSUME TypeOK, Guards, NEW a \in Accounts, LostGrows(a), work' \in Nat,
         UNCHANGED <<countVars, stopVars, callVars, taskVars>>,
         row' \in [Accounts -> Rows], seen' \in [Accounts -> SUBSET Rows],
         gateway' \in [Accounts -> {"none", "key", "send", "resend", "persist", "rekey"}],
         held' \in [Accounts -> Rows], answer' \in [Accounts -> Rows],
         live' \in [Accounts -> SUBSET Nat], spent' \in [Accounts -> SUBSET Nat],
         issued' \in [Accounts -> Nat]
  PROVE  TypeOK' /\ Guards'
<1>1. TypeOK'
  BY DEF TypeOK, LostGrows, countVars, stopVars, callVars, taskVars, taskLocals
<1>2. Guards'
  BY GuardsKept DEF countVars, stopVars, callVars, taskVars
<1>3. QED BY <1>1, <1>2

LEMMA ImportKeeps ==
  ASSUME TypeOK, Guards, Grants, NEW a \in Accounts, Import(a)
  PROVE  TypeOK' /\ Guards' /\ Grants'
<1> DEFINE n == issued[a] + 1
<1>1. /\ issued' = [issued EXCEPT ![a] = n] /\ work' = work + 1
      /\ UNCHANGED <<countVars, stopVars, callVars, taskVars, gatewayVars, spent, lost>>
  BY DEF Import, Begins
<1>2. n \in Nat /\ issued[a] \in Nat
  BY Typed
<1>3. PICK r \in Rows : Store(a, r) /\ r.access = n /\ r.grant = n
  <2>1. PICK k \in {NoKey, OwnKey} : Store(a, [access |-> n, grant |-> n, key |-> k])
    BY DEF Import
  <2>2. [access |-> n, grant |-> n, key |-> k] \in Rows
    BY <1>2 DEF Rows, NoKey, OwnKey
  <2>3. QED BY <2>1, <2>2
<1>4. /\ row' \in [Accounts -> Rows] /\ seen' \in [Accounts -> SUBSET Rows]
      /\ row'[a] = r /\ seen'[a] = seen[a] \union {r}
      /\ \A b \in Accounts \ {a} : row'[b] = row[b] /\ seen'[b] = seen[b]
  BY <1>3 DEF Store, TypeOK
<1>5. \/ live' = [live EXCEPT ![a] = @ \union {n}]
      \/ live' = [live EXCEPT ![a] = (@ \ {row[a].grant}) \union {n}]
  BY DEF Import
<1>6. /\ live' \in [Accounts -> SUBSET Nat] /\ n \in live'[a]
      /\ live[a] \ {row[a].grant} \subseteq live'[a] /\ live'[a] \subseteq live[a] \union {n}
      /\ \A b \in Accounts \ {a} : live'[b] = live[b]
  BY <1>2, <1>5 DEF TypeOK
<1>7. TypeOK' /\ Guards'
  <2>1. issued' \in [Accounts -> Nat] /\ work' \in Nat
    BY <1>1, <1>2 DEF TypeOK
  <2>2. LostGrows(a)
    BY <1>1, NothingLost
  <2>3. QED BY <1>1, <1>4, <1>6, <2>1, <2>2, OutsideKeeps DEF TypeOK, gatewayVars
<1>8. Grant(a)
  BY DEF Grants
<1>9. /\ issued'[a] = n /\ spent'[a] = spent[a] /\ at'[a] = at[a] /\ base'[a] = base[a]
      /\ next'[a] = next[a] /\ gateway'[a] = gateway[a] /\ held'[a] = held[a]
      /\ answer'[a] = answer[a] /\ lost'[a] = lost[a]
  BY <1>1 DEF TypeOK, taskVars, taskLocals, gatewayVars
<1>10. /\ \A x \in live[a] \union spent[a] : x \in Nat /\ x <= issued[a]
       /\ live[a] \intersect spent[a] = {} /\ NoRow.grant = 0 /\ NoRow.access = 0
       /\ \A t \in seen[a] : /\ t.access \in Nat /\ t.grant \in Nat /\ t.access # NoRow.access
                            /\ t.access <= issued[a] /\ t.grant <= issued[a]
  BY <1>8, Typed DEF Grant, Issued, Known
<1>11. Issued(a)'
  <2>1. \A x \in live'[a] \union spent'[a] : x <= n
    BY <1>2, <1>6, <1>9, <1>10
  <2>2. n \notin spent[a]
    BY <1>2, <1>10
  <2>3. live'[a] \intersect spent'[a] = {}
    BY <1>6, <1>9, <1>10, <2>2
  <2>4. \A t \in seen'[a] : t.access # NoRow.access /\ t.access <= n /\ t.grant <= n
    BY <1>2, <1>3, <1>4, <1>10
  <2>5. QED BY <1>4, <1>9, <2>1, <2>3, <2>4 DEF Issued, Known
<1>12. \A h \in Nat : Fresh(a, h) /\ h <= issued[a] => FreshNow(a, h)
  <2>1. \A h \in Nat : Fresh(a, h) => h # row[a].grant
    BY <1>8 DEF Fresh, Grant, Issued
  <2>2. \A h \in Nat : h <= issued[a] => h # n
    BY <1>2
  <2>3. QED BY <1>3, <1>4, <1>6, <2>1, <2>2 DEF Fresh, FreshNow
<1>13. Holding(a)'
  <2>1. \A r0, r1 \in Rows : Answers(a, r0, r1) =>
           /\ r0 \in seen'[a] /\ r1.access <= n /\ r1.grant <= n /\ r1.access >= r0.access
           /\ r1.grant = r0.grant \/ FreshNow(a, r1.grant)
    <3>1. \A x \in Nat : x <= issued[a] => x <= n
      BY <1>2
    <3>2. QED BY <1>4, <1>12, <3>1, Typed DEF Answers, Known
  <2>2. at[a] = "persist" => Answers(a, base[a], next[a])'
    BY <1>8, <1>9, <2>1, Typed DEF Grant, Holding, Answers, Known, Fresh, FreshNow
  <2>3. gateway[a] = "persist" => Answers(a, held[a], answer[a])'
    BY <1>8, <1>9, <2>1, Typed DEF Grant, Holding, Answers, Known, Fresh, FreshNow
  <2>4. QED BY <1>4, <1>8, <1>9, <2>2, <2>3 DEF Grant, Holding
<1>14. BaseKnown(a)'
  <2>1. at[a] \in {"send", "persist"} => base[a].grant # n
    BY <1>2, <1>8, <1>10 DEF Grant, Holding
  <2>2. QED BY <1>3, <1>4, <1>9, <2>1 DEF BaseKnown
<1>15. Stored(a)'
  BY <1>3, <1>4, <1>6 DEF Stored, Dead
<1>16. SentOnce(a)'
  BY <1>8, <1>9 DEF Grant, SentOnce, GatewayCarries, Lost
<1>17. Grant(a)'
  BY <1>11, <1>13, <1>14, <1>15, <1>16 DEF Grant
<1>18. \A b \in Accounts \ {a} : Untouched(b) /\ at'[b] = at[b]
  BY <1>1, <1>4, <1>6 DEF Untouched, TypeOK, taskVars, taskLocals, gatewayVars
<1>19. QED BY <1>7, <1>17, <1>18, OneAccount

LEMMA DeleteKeeps ==
  ASSUME TypeOK, Guards, Grants, NEW a \in Accounts, Delete(a)
  PROVE  TypeOK' /\ Guards' /\ Grants'
<1>1. /\ row' = [row EXCEPT ![a] = NoRow] /\ work' = work + 1
      /\ UNCHANGED <<seen, countVars, stopVars, callVars, taskVars, gatewayVars, providerVars, lost>>
  BY DEF Delete, Begins
<1>2. TypeOK' /\ Guards'
  <2>1. row' \in [Accounts -> Rows] /\ work' \in Nat
    BY <1>1, RowShapes DEF TypeOK
  <2>2. LostGrows(a)
    BY <1>1, NothingLost
  <2>3. QED BY <1>1, <2>1, <2>2, OutsideKeeps DEF TypeOK, gatewayVars, providerVars
<1>3. /\ Grant(a) /\ row'[a] = NoRow /\ seen'[a] = seen[a] /\ at'[a] = at[a]
      /\ base'[a] = base[a] /\ next'[a] = next[a] /\ gateway'[a] = gateway[a]
      /\ held'[a] = held[a] /\ answer'[a] = answer[a] /\ live'[a] = live[a]
      /\ spent'[a] = spent[a] /\ issued'[a] = issued[a] /\ lost'[a] = lost[a]
  BY <1>1 DEF Grants, TypeOK, taskVars, taskLocals, gatewayVars, providerVars
<1>4. Issued(a)'
  BY <1>3 DEF Grant, Issued, Known
<1>5. Holding(a)'
  BY <1>3 DEF Grant, Holding, Answers, Fresh, Known
<1>6. BaseKnown(a)' /\ Stored(a)' /\ SentOnce(a)'
  BY <1>3 DEF Grant, BaseKnown, Stored, SentOnce, Dead, GatewayCarries, Lost
<1>7. Grant(a)'
  BY <1>4, <1>5, <1>6 DEF Grant
<1>8. \A b \in Accounts \ {a} : Untouched(b) /\ at'[b] = at[b]
  BY <1>1 DEF Untouched, TypeOK, taskVars, taskLocals, gatewayVars, providerVars
<1>9. QED BY <1>2, <1>7, <1>8, OneAccount
(* Another key of the row overtakes a completion that has read it.         *)
LEMMA KeyKeeps ==
  ASSUME TypeOK, Grants, NEW a \in Accounts, LostGrows(a),
         row[a] # NoRow, row'[a] \in Rows, row'[a].access = row[a].access,
         row'[a].grant = row[a].grant, seen'[a] = seen[a] \union {row'[a]},
         at[a] \in {"send", "persist"} => LostNow(a, base[a].grant),
         UNCHANGED <<taskVars, providerVars>>,
         \/ gateway'[a] = gateway[a] /\ held'[a] = held[a] /\ answer'[a] = answer[a]
         \/ gateway'[a] = "none" /\ gateway[a] # "persist"
  PROVE  Grant(a)'
<1>1. Grant(a)
  BY DEF Grants
<1>2. /\ at'[a] = at[a] /\ base'[a] = base[a] /\ next'[a] = next[a] /\ live'[a] = live[a]
      /\ spent'[a] = spent[a] /\ issued'[a] = issued[a] /\ lost[a] \subseteq lost'[a]
  BY DEF taskVars, taskLocals, providerVars, LostGrows
<1>3. row[a] \in seen[a] /\ row[a].access # NoRow.access /\ Known(row[a], a)
  BY <1>1 DEF Grant, Issued
<1>4. Issued(a)'
  BY <1>1, <1>2, <1>3 DEF Grant, Issued, Known
<1>5. \A h \in Nat : Fresh(a, h) => FreshNow(a, h)
  BY <1>2, <1>3 DEF Fresh, FreshNow
<1>6. Holding(a)'
  <2>1. at[a] = "persist" => Answers(a, base[a], next[a])'
    BY <1>1, <1>2, <1>5, Typed DEF Grant, Holding, Answers, Known, Fresh, FreshNow
  <2>2. gateway'[a] = "persist" => Answers(a, held[a], answer[a])'
    BY <1>1, <1>2, <1>5, Typed DEF Grant, Holding, Answers, Known, Fresh, FreshNow
  <2>3. QED BY <1>1, <1>2, <2>1, <2>2 DEF Grant, Holding
<1>7. BaseKnown(a)'
  BY <1>2 DEF BaseKnown, Lost, LostNow
<1>8. Stored(a)'
  BY <1>1, <1>2 DEF Grant, Stored, Dead, Carried, GatewayCarries, Lost, LostNow
<1>9. SentOnce(a)'
  BY <1>2 DEF SentOnce, Lost, LostNow
<1>10. QED BY <1>4, <1>6, <1>7, <1>8, <1>9 DEF Grant

LEMMA DropKeyKeeps ==
  ASSUME TypeOK, Guards, Grants, NEW a \in Accounts, DropKey(a)
  PROVE  TypeOK' /\ Guards' /\ Grants'
<1> DEFINE r == [row[a] EXCEPT !.key = NoKey]
<1>1. /\ row[a].key # NoKey /\ Store(a, r) /\ work' = work + 1 /\ lost' = Overtaking(a, "key")
      /\ UNCHANGED <<countVars, stopVars, callVars, taskVars, gatewayVars, providerVars>>
  BY DEF DropKey, Begins
<1>2. r \in Rows /\ r.access = row[a].access /\ r.grant = row[a].grant
  <2>1. row[a] \in Rows /\ NoKey \in Nat
    BY Typed DEF NoKey
  <2>2. QED BY <2>1, RowShapes
<1>3. /\ row' \in [Accounts -> Rows] /\ seen' \in [Accounts -> SUBSET Rows]
      /\ row'[a] = r /\ seen'[a] = seen[a] \union {r}
      /\ \A b \in Accounts \ {a} : row'[b] = row[b] /\ seen'[b] = seen[b]
  BY <1>1, <1>2 DEF Store, TypeOK
<1>4. LostGrows(a) /\ (at[a] \in {"send", "persist"} => LostNow(a, base[a].grant))
  <2>1. "key" \in Causes
    BY DEF Causes
  <2>2. QED BY <1>1, <2>1, OvertakingGrows
<1>5. TypeOK' /\ Guards'
  <2>1. work' \in Nat
    BY <1>1 DEF TypeOK
  <2>2. QED BY <1>1, <1>3, <1>4, <2>1, OutsideKeeps DEF TypeOK, gatewayVars, providerVars
<1>6. row[a] # NoRow
  BY <1>1 DEF NoRow, NoKey
<1>7. Grant(a)'
  BY <1>1, <1>2, <1>3, <1>4, <1>6, KeyKeeps DEF gatewayVars
<1>8. \A b \in Accounts \ {a} : Untouched(b) /\ at'[b] = at[b]
  BY <1>1, <1>3, <1>4 DEF Untouched, LostGrows, taskVars, taskLocals, gatewayVars, providerVars
<1>9. QED BY <1>5, <1>7, <1>8, OneAccount

-----------------------------------------------------------------------------
(* The gateway. Steps that only move a request that has no answer, and     *)
(* leave it a token there has been, keep everything.                       *)
LEMMA MoveKeeps ==
  ASSUME TypeOK, Guards, Grants, NEW a \in Accounts, gateway[a] # "persist", work' \in Nat,
         UNCHANGED <<rowVars, answer, countVars, stopVars, callVars, taskVars, providerVars, lost>>,
         gateway' \in [Accounts -> {"none", "key", "send", "resend", "persist", "rekey"}],
         held' \in [Accounts -> Rows], gateway'[a] # "persist", held'[a] \in seen[a],
         \A b \in Accounts \ {a} : gateway'[b] = gateway[b] /\ held'[b] = held[b]
  PROVE  TypeOK' /\ Guards' /\ Grants'
<1>1. TypeOK' /\ Guards'
  BY NothingLost, OutsideKeeps DEF TypeOK, rowVars, providerVars
<1>2. /\ Grant(a) /\ row'[a] = row[a] /\ seen'[a] = seen[a] /\ at'[a] = at[a]
      /\ base'[a] = base[a] /\ next'[a] = next[a] /\ live'[a] = live[a]
      /\ spent'[a] = spent[a] /\ issued'[a] = issued[a] /\ lost'[a] = lost[a]
  BY DEF Grants, taskVars, taskLocals, rowVars, providerVars
<1>3. Issued(a)'
  BY <1>2 DEF Grant, Issued, Known
<1>4. Holding(a)'
  BY <1>2 DEF Grant, Holding, Answers, Fresh, Known
<1>5. BaseKnown(a)' /\ Stored(a)' /\ SentOnce(a)'
  BY <1>2 DEF Grant, BaseKnown, Stored, SentOnce, Dead, Carried, GatewayCarries, Lost
<1>6. Grant(a)'
  BY <1>3, <1>4, <1>5 DEF Grant
<1>7. \A b \in Accounts \ {a} : Untouched(b) /\ at'[b] = at[b]
  BY DEF Untouched, taskVars, taskLocals, rowVars, providerVars
<1>8. QED BY <1>1, <1>6, <1>7, OneAccount

LEMMA EnterExchangeKeeps ==
  ASSUME TypeOK, Guards, Grants, NEW a \in Accounts, EnterExchange(a)
  PROVE  TypeOK' /\ Guards' /\ Grants'
<1>1. PICK t \in seen[a] : held' = [held EXCEPT ![a] = t]
  BY DEF EnterExchange
<1>2. /\ gateway[a] = "none" /\ gateway' = [gateway EXCEPT ![a] = "key"] /\ work' = work + 1
      /\ UNCHANGED <<rowVars, answer, countVars, stopVars, callVars, taskVars, providerVars, lost>>
  BY DEF EnterExchange, GatewayAt, Begins
<1>3. /\ gateway' \in [Accounts -> {"none", "key", "send", "resend", "persist", "rekey"}]
      /\ held' \in [Accounts -> Rows] /\ gateway'[a] = "key" /\ held'[a] = t /\ work' \in Nat
      /\ \A b \in Accounts \ {a} : gateway'[b] = gateway[b] /\ held'[b] = held[b]
  BY <1>1, <1>2 DEF TypeOK
<1>4. QED BY <1>2, <1>3, MoveKeeps

LEMMA FailKeyKeeps ==
  ASSUME TypeOK, Guards, Grants, NEW a \in Accounts, FailKey(a)
  PROVE  TypeOK' /\ Guards' /\ Grants'
<1>1. /\ gateway[a] = "key" /\ gateway' = [gateway EXCEPT ![a] = "send"]
      /\ UNCHANGED <<rowVars, held, answer, countVars, stopVars, callVars, taskVars, providerVars, work, lost>>
  BY DEF FailKey, GatewayAt
<1>2. /\ gateway' \in [Accounts -> {"none", "key", "send", "resend", "persist", "rekey"}]
      /\ held' \in [Accounts -> Rows] /\ gateway'[a] = "send" /\ work' \in Nat
      /\ \A b \in Accounts \ {a} : gateway'[b] = gateway[b] /\ held'[b] = held[b]
  BY <1>1 DEF TypeOK
<1>3. held'[a] \in seen[a]
  BY <1>1 DEF Grants, Grant, Holding
<1>4. QED BY <1>1, <1>2, <1>3, MoveKeeps

LEMMA ObtainKeyKeeps ==
  ASSUME TypeOK, Guards, Grants, NEW a \in Accounts, ObtainKey(a)
  PROVE  TypeOK' /\ Guards' /\ Grants'
<1>1. /\ gateway[a] \in {"key", "rekey"}
      /\ UNCHANGED <<work, countVars, stopVars, callVars, taskVars, providerVars>>
  BY DEF ObtainKey
<1>2. held[a] \in seen[a] /\ held[a].access # NoRow.access
  BY <1>1 DEF Grants, Grant, Holding, Issued
<1>3. CASE row[a] = held[a]
  <2> DEFINE r == [held[a] EXCEPT !.key = ExchangedKey(work)]
  <2>1. Store(a, r) /\ lost' = Overtaking(a, "key") /\ LeaveExchange(a)
    BY <1>3 DEF ObtainKey, CurrentRow
  <2>2. r \in Rows /\ r.access = row[a].access /\ r.grant = row[a].grant
    <3>1. held[a] \in Rows /\ ExchangedKey(work) \in Nat
      BY Typed DEF ExchangedKey, TypeOK
    <3>2. QED BY <1>3, <3>1, RowShapes
  <2>3. /\ row' \in [Accounts -> Rows] /\ seen' \in [Accounts -> SUBSET Rows]
        /\ row'[a] = r /\ seen'[a] = seen[a] \union {r}
        /\ \A b \in Accounts \ {a} : row'[b] = row[b] /\ seen'[b] = seen[b]
    BY <2>1, <2>2 DEF Store, TypeOK
  <2>4. LostGrows(a) /\ (at[a] \in {"send", "persist"} => LostNow(a, base[a].grant))
    <3>1. "key" \in Causes
      BY DEF Causes
    <3>2. QED BY <2>1, <3>1, OvertakingGrows
  <2>5. /\ gateway' \in [Accounts -> {"none", "key", "send", "resend", "persist", "rekey"}]
        /\ held' \in [Accounts -> Rows] /\ answer' \in [Accounts -> Rows] /\ gateway'[a] = "none"
        /\ \A b \in Accounts \ {a} : /\ gateway'[b] = gateway[b] /\ held'[b] = held[b]
                                     /\ answer'[b] = answer[b]
    BY <2>1, RowShapes DEF LeaveExchange, GatewayAt, TypeOK
  <2>6. TypeOK' /\ Guards'
    BY <1>1, <2>3, <2>4, <2>5, OutsideKeeps DEF TypeOK, providerVars
  <2>7. Grant(a)'
    BY <1>1, <1>2, <1>3, <2>2, <2>3, <2>4, <2>5, KeyKeeps
  <2>8. \A b \in Accounts \ {a} : Untouched(b) /\ at'[b] = at[b]
    BY <1>1, <2>3, <2>4, <2>5 DEF Untouched, LostGrows, taskVars, taskLocals, providerVars
  <2>9. QED BY <2>6, <2>7, <2>8, OneAccount
<1>4. CASE row[a] # held[a]
  <2>1. /\ gateway' = [gateway EXCEPT ![a] = "send"]
        /\ held' = IF row[a] = NoRow THEN held ELSE [held EXCEPT ![a] = row[a]]
        /\ UNCHANGED <<rowVars, answer, lost>>
    BY <1>4 DEF ObtainKey, CurrentRow, GatewayAt
  <2>2. /\ gateway' \in [Accounts -> {"none", "key", "send", "resend", "persist", "rekey"}]
        /\ held' \in [Accounts -> Rows] /\ gateway'[a] = "send" /\ work' \in Nat
        /\ held'[a] = (IF row[a] = NoRow THEN held[a] ELSE row[a])
        /\ \A b \in Accounts \ {a} : gateway'[b] = gateway[b] /\ held'[b] = held[b]
    BY <1>1, <2>1 DEF TypeOK
  <2>3. held'[a] \in seen[a]
    BY <1>2, <2>2 DEF Grants, Grant, Issued
  <2>4. QED BY <1>1, <2>1, <2>2, <2>3, MoveKeeps
<1>5. QED BY <1>3, <1>4
(* The request is over, or goes on without an answer, and what it had is   *)
(* noted as lost.                                                          *)
LEMMA LeaveKeeps ==
  ASSUME TypeOK, Guards, Grants, NEW a \in Accounts, lost' = Dropping(a),
         UNCHANGED <<rowVars, work, countVars, stopVars, callVars, taskVars, providerVars>>,
         gateway' \in [Accounts -> {"none", "key", "send", "resend", "persist", "rekey"}],
         held' \in [Accounts -> Rows], answer' \in [Accounts -> Rows],
         gateway'[a] = "none" \/ (gateway'[a] = "rekey" /\ held'[a] \in seen[a]),
         \A b \in Accounts \ {a} : /\ gateway'[b] = gateway[b] /\ held'[b] = held[b]
                                  /\ answer'[b] = answer[b]
  PROVE  TypeOK' /\ Guards' /\ Grants'
<1>1. LostGrows(a) /\ (GatewayCarries(a, held[a].grant) => LostNow(a, held[a].grant))
  BY DroppingGrows
<1>2. TypeOK' /\ Guards'
  BY <1>1, OutsideKeeps DEF TypeOK, rowVars, providerVars
<1>3. /\ Grant(a) /\ row'[a] = row[a] /\ seen'[a] = seen[a] /\ at'[a] = at[a]
      /\ base'[a] = base[a] /\ next'[a] = next[a] /\ live'[a] = live[a]
      /\ spent'[a] = spent[a] /\ issued'[a] = issued[a] /\ lost[a] \subseteq lost'[a]
  BY <1>1 DEF Grants, LostGrows, taskVars, taskLocals, rowVars, providerVars
<1>4. \A g \in Nat : GatewayCarries(a, g) => LostNow(a, g)
  BY <1>1 DEF GatewayCarries
<1>5. Issued(a)'
  BY <1>3 DEF Grant, Issued, Known
<1>6. Holding(a)'
  BY <1>3 DEF Grant, Holding, Answers, Fresh, Known
<1>7. BaseKnown(a)'
  BY <1>3 DEF Grant, BaseKnown, Lost
<1>8. Stored(a)'
  BY <1>3, <1>4, Typed DEF Grant, Stored, Dead, Carried, Lost, LostNow
<1>9. SentOnce(a)'
  BY <1>3, <1>4, Typed DEF Grant, SentOnce, Lost, LostNow
<1>10. Grant(a)'
  BY <1>5, <1>6, <1>7, <1>8, <1>9 DEF Grant
<1>11. \A b \in Accounts \ {a} : Untouched(b) /\ at'[b] = at[b]
  BY <1>1 DEF Untouched, LostGrows, taskVars, taskLocals, rowVars, providerVars
<1>12. QED BY <1>2, <1>10, <1>11, OneAccount

LEMMA GatewayEndsKeeps ==
  ASSUME TypeOK, Guards, Grants, NEW a \in Accounts, GatewayEnds(a)
  PROVE  TypeOK' /\ Guards' /\ Grants'
<1>1. /\ lost' = Dropping(a)
      /\ UNCHANGED <<rowVars, work, countVars, stopVars, callVars, taskVars, providerVars>>
  BY DEF GatewayEnds
<1>2. /\ gateway' \in [Accounts -> {"none", "key", "send", "resend", "persist", "rekey"}]
      /\ held' \in [Accounts -> Rows] /\ answer' \in [Accounts -> Rows] /\ gateway'[a] = "none"
      /\ \A b \in Accounts \ {a} : /\ gateway'[b] = gateway[b] /\ held'[b] = held[b]
                                   /\ answer'[b] = answer[b]
  BY RowShapes DEF GatewayEnds, LeaveExchange, GatewayAt, TypeOK
<1>3. QED BY <1>1, <1>2, LeaveKeeps

LEMMA StoreGrantKeeps ==
  ASSUME TypeOK, Guards, Grants, NEW a \in Accounts, StoreGrant(a)
  PROVE  TypeOK' /\ Guards' /\ Grants'
<1>1. /\ gateway[a] = "persist"
      /\ UNCHANGED <<work, countVars, stopVars, callVars, taskVars, providerVars>>
  BY DEF StoreGrant
<1>2. Grant(a) /\ Answers(a, held[a], answer[a]) /\ held[a] \in seen[a] /\ answer[a] \in Rows
      /\ held[a] \in Rows /\ held[a].access # NoRow.access
  BY <1>1, Typed DEF Grants, Grant, Holding, Issued
<1>3. CASE row[a] # held[a]
  <2>1. lost' = Dropping(a) /\ UNCHANGED rowVars
    BY <1>3 DEF StoreGrant, CurrentRow
  <2>2. \/ row[a] = NoRow /\ LeaveExchange(a)
        \/ /\ row[a] # NoRow /\ gateway' = [gateway EXCEPT ![a] = "rekey"]
           /\ held' = [held EXCEPT ![a] = row[a]] /\ answer' = [answer EXCEPT ![a] = NoRow]
    BY <2>1 DEF StoreGrant, GatewayAt, rowVars
  <2>3. /\ gateway' \in [Accounts -> {"none", "key", "send", "resend", "persist", "rekey"}]
        /\ held' \in [Accounts -> Rows] /\ answer' \in [Accounts -> Rows]
        /\ gateway'[a] = "none" \/ (gateway'[a] = "rekey" /\ held'[a] = row[a] /\ row[a] # NoRow)
        /\ \A b \in Accounts \ {a} : /\ gateway'[b] = gateway[b] /\ held'[b] = held[b]
                                     /\ answer'[b] = answer[b]
    <3>1. CASE row[a] = NoRow /\ LeaveExchange(a)
      BY <3>1, RowShapes DEF LeaveExchange, GatewayAt, TypeOK
    <3>2. CASE /\ row[a] # NoRow /\ gateway' = [gateway EXCEPT ![a] = "rekey"]
               /\ held' = [held EXCEPT ![a] = row[a]] /\ answer' = [answer EXCEPT ![a] = NoRow]
      BY <3>2, RowShapes DEF TypeOK
    <3>3. QED BY <2>2, <3>1, <3>2
  <2>4. gateway'[a] = "none" \/ (gateway'[a] = "rekey" /\ held'[a] \in seen[a])
    BY <1>2, <2>3 DEF Grant, Issued
  <2>5. QED BY <1>1, <2>1, <2>3, <2>4, LeaveKeeps
<1>4. CASE row[a] = held[a]
  <2>1. Store(a, answer[a]) /\ lost' = Overtaking(a, "gateway")
    BY <1>4 DEF StoreGrant, CurrentRow
  <2>2. /\ row' \in [Accounts -> Rows] /\ seen' \in [Accounts -> SUBSET Rows]
        /\ row'[a] = answer[a] /\ seen'[a] = seen[a] \union {answer[a]}
        /\ \A b \in Accounts \ {a} : row'[b] = row[b] /\ seen'[b] = seen[b]
    BY <1>2, <2>1 DEF Store, TypeOK
  <2>3. LostGrows(a) /\ (at[a] \in {"send", "persist"} => LostNow(a, base[a].grant))
    <3>1. "gateway" \in Causes
      BY DEF Causes
    <3>2. QED BY <2>1, <3>1, OvertakingGrows
  <2>4. row[a] # NoRow
    BY <1>2, <1>4
  <2>5. /\ gateway' = [gateway EXCEPT ![a] = "rekey"] /\ held' = [held EXCEPT ![a] = row'[a]]
        /\ answer' = [answer EXCEPT ![a] = NoRow]
    BY <2>4 DEF StoreGrant, GatewayAt
  <2>6. /\ gateway' \in [Accounts -> {"none", "key", "send", "resend", "persist", "rekey"}]
        /\ held' \in [Accounts -> Rows] /\ answer' \in [Accounts -> Rows]
        /\ gateway'[a] = "rekey" /\ held'[a] = answer[a]
        /\ \A b \in Accounts \ {a} : /\ gateway'[b] = gateway[b] /\ held'[b] = held[b]
                                     /\ answer'[b] = answer[b]
    BY <1>2, <2>2, <2>5, RowShapes DEF TypeOK
  <2>7. TypeOK' /\ Guards'
    BY <1>1, <2>2, <2>3, <2>6, OutsideKeeps DEF TypeOK, providerVars
  <2>8. /\ at'[a] = at[a] /\ base'[a] = base[a] /\ next'[a] = next[a] /\ live'[a] = live[a]
        /\ spent'[a] = spent[a] /\ issued'[a] = issued[a] /\ lost[a] \subseteq lost'[a]
    BY <1>1, <2>3 DEF LostGrows, taskVars, taskLocals, providerVars
  <2>9. Issued(a)' /\ \A h \in Nat : Fresh(a, h) /\ h # answer[a].grant => FreshNow(a, h)
    <3>1. answer[a].access # NoRow.access
      BY <1>2, Typed DEF Answers
    <3>2. QED BY <1>1, <1>2, <2>1, <3>1, StoreIssues DEF Answers
  <2>10. Holding(a)'
    <3>1. ASSUME at[a] = "persist" PROVE Answers(a, base[a], next[a])'
      <4>1. Answers(a, base[a], next[a]) /\ next[a].grant \in Nat
        BY <1>2, <3>1, Typed DEF Grant, Holding
      <4>2. next[a].grant = base[a].grant \/ FreshNow(a, next[a].grant)
        BY <1>1, <1>2, <2>9, <3>1, <4>1 DEF Answers, Fresh, Grant, Holding
      <4>3. QED BY <2>2, <2>8, <4>1, <4>2 DEF Answers, Known, Fresh, FreshNow
    <3>2. QED BY <1>2, <2>2, <2>6, <2>8, <3>1 DEF Grant, Holding
  <2>11. BaseKnown(a)' /\ SentOnce(a)'
    BY <2>3, <2>8 DEF BaseKnown, SentOnce, Lost, LostNow
  <2>12. Stored(a)'
    <3>1. SUFFICES ASSUME answer[a].grant \notin live[a] PROVE Stored(a)'
      BY <2>2, <2>8 DEF Stored, Dead
    <3>2. answer[a].grant = row[a].grant
      BY <1>2, <1>4, <3>1 DEF Answers, Fresh
    <3>3. Dead(a) /\ ~GatewayCarries(a, row[a].grant)
      BY <1>4, <2>4, <3>1, <3>2 DEF Dead, GatewayCarries
    <3>4. QED BY <1>2, <2>2, <2>3, <2>8, <3>2, <3>3 DEF Grant, Stored, Carried, Lost, LostNow
  <2>13. Grant(a)'
    BY <2>9, <2>10, <2>11, <2>12 DEF Grant
  <2>14. \A b \in Accounts \ {a} : Untouched(b) /\ at'[b] = at[b]
    BY <1>1, <2>2, <2>3, <2>6 DEF Untouched, LostGrows, taskVars, taskLocals, providerVars
  <2>15. QED BY <2>7, <2>13, <2>14, OneAccount
<1>5. QED BY <1>3, <1>4

LEMMA GatewayRedeemKeeps ==
  ASSUME TypeOK, Guards, Grants, NEW a \in Accounts, GatewayRedeem(a)
  PROVE  TypeOK' /\ Guards' /\ Grants'
<1> DEFINE g == held[a].grant
           n == issued[a] + 1
<1>1. PICK rotate \in BOOLEAN :
        /\ ProviderRedeems(a, g, rotate)
        /\ \/ /\ answer' = [answer EXCEPT ![a] = Answered(a, held[a], rotate)]
              /\ GatewayAt(a, "persist") /\ UNCHANGED <<held, lost>>
           \/ /\ lost' = IF rotate THEN Losing(a, g, "gateway") ELSE lost
              /\ IF gateway[a] = "send"
                 THEN GatewayAt(a, "resend") /\ UNCHANGED <<held, answer>>
                 ELSE LeaveExchange(a)
  BY DEF GatewayRedeem
<1>2. /\ gateway[a] \in {"send", "resend"}
      /\ UNCHANGED <<rowVars, work, countVars, stopVars, callVars, taskVars>>
  BY DEF GatewayRedeem
<1>3. /\ held[a] \in Rows /\ n \in Nat /\ g \in Nat /\ g \in live[a] /\ issued[a] \in Nat
      /\ Grant(a) /\ held[a] \in seen[a] /\ Known(held[a], a)
  BY <1>1, <1>2, Typed DEF ProviderRedeems, Grants, Grant, Holding, Issued
<1>4. /\ live' \in [Accounts -> SUBSET Nat] /\ spent' \in [Accounts -> SUBSET Nat]
      /\ issued' \in [Accounts -> Nat] /\ issued'[a] = n
      /\ live'[a] = (IF rotate THEN (live[a] \ {g}) \union {n} ELSE live[a])
      /\ spent'[a] = (IF rotate THEN spent[a] \union {g} ELSE spent[a])
      /\ \A b \in Accounts \ {a} : /\ live'[b] = live[b] /\ spent'[b] = spent[b]
                                   /\ issued'[b] = issued[b]
  BY <1>1, <1>3 DEF ProviderRedeems, TypeOK
<1>5. Answered(a, held[a], rotate) \in Rows
      /\ Answered(a, held[a], rotate).access = n
      /\ Answered(a, held[a], rotate).grant = (IF rotate THEN n ELSE g)
  BY <1>3, Typed DEF Answered, Rows
<1>6. n # g
  BY <1>3 DEF Grant, Issued
<1>7. LostGrows(a)
  <2>1. "gateway" \in Causes
    BY DEF Causes
  <2>2. QED BY <1>1, <1>3, <2>1, LosingGrows, NothingLost
<1>8. /\ gateway' \in [Accounts -> {"none", "key", "send", "resend", "persist", "rekey"}]
      /\ held' \in [Accounts -> Rows] /\ answer' \in [Accounts -> Rows]
      /\ \A b \in Accounts \ {a} : /\ gateway'[b] = gateway[b] /\ held'[b] = held[b]
                                   /\ answer'[b] = answer[b]
  <2>1. CASE /\ answer' = [answer EXCEPT ![a] = Answered(a, held[a], rotate)]
             /\ GatewayAt(a, "persist") /\ UNCHANGED <<held, lost>>
    BY <1>5, <2>1 DEF GatewayAt, TypeOK
  <2>2. CASE GatewayAt(a, "resend") /\ UNCHANGED <<held, answer>>
    BY <2>2 DEF GatewayAt, TypeOK
  <2>3. CASE LeaveExchange(a)
    BY <2>3, RowShapes DEF LeaveExchange, GatewayAt, TypeOK
  <2>4. QED BY <1>1, <2>1, <2>2, <2>3
<1>9. TypeOK' /\ Guards'
  BY <1>2, <1>4, <1>7, <1>8, OutsideKeeps DEF TypeOK, rowVars
<1>10. /\ at'[a] = at[a] /\ row'[a] = row[a] /\ base'[a] = base[a] /\ next'[a] = next[a]
       /\ seen'[a] = seen[a] /\ lost[a] \subseteq lost'[a]
  BY <1>2, <1>7 DEF rowVars, taskVars, taskLocals, LostGrows
<1>11. \/ /\ gateway'[a] = "persist" /\ held'[a] = held[a]
          /\ answer'[a] = Answered(a, held[a], rotate)
       \/ /\ gateway'[a] = "resend" /\ held'[a] = held[a] /\ (rotate => LostNow(a, g))
       \/ gateway'[a] = "none" /\ (rotate => LostNow(a, g))
  <2>1. rotate /\ lost' = Losing(a, g, "gateway") => LostNow(a, g)
    <3>1. "gateway" \in Causes
      BY DEF Causes
    <3>2. QED BY <1>3, <3>1, LosingGrows
  <2>2. gateway \in [Accounts -> {"none", "key", "send", "resend", "persist", "rekey"}]
        /\ answer \in [Accounts -> Rows] /\ held \in [Accounts -> Rows]
    BY DEF TypeOK
  <2>3. CASE /\ answer' = [answer EXCEPT ![a] = Answered(a, held[a], rotate)]
             /\ GatewayAt(a, "persist") /\ UNCHANGED <<held, lost>>
    BY <2>2, <2>3 DEF GatewayAt
  <2>4. CASE /\ lost' = IF rotate THEN Losing(a, g, "gateway") ELSE lost
             /\ IF gateway[a] = "send"
                THEN GatewayAt(a, "resend") /\ UNCHANGED <<held, answer>>
                ELSE LeaveExchange(a)
    BY <2>1, <2>2, <2>4 DEF GatewayAt, LeaveExchange
  <2>5. QED BY <1>1, <2>3, <2>4
<1>12. rotate => LostNow(a, g) \/ GatewayCarries(a, g)'
  <2>1. CASE rotate /\ gateway'[a] = "persist"
    BY <1>5, <1>6, <1>11, <2>1 DEF GatewayCarries
  <2>2. QED BY <1>11, <2>1
<1>13. /\ Issued(a)' /\ (rotate => FreshNow(a, n))
       /\ \A h \in Nat : Fresh(a, h) /\ h # g => FreshNow(a, h) /\ h # n
       /\ \A r \in Rows : r.access <= issued[a] => r.access <= issued'[a]
       /\ \A r \in Rows : r.grant <= issued[a] => r.grant <= issued'[a]
  BY <1>1, <1>2, <1>3, ProviderIssues
<1>14. Holding(a)'
  <2>1. ASSUME at[a] = "persist" PROVE Answers(a, base[a], next[a])'
    <3>1. Answers(a, base[a], next[a]) /\ next[a] \in Rows /\ next[a].grant \in Nat
      BY <1>3, <2>1, Typed DEF Grant, Holding
    <3>2. next[a].grant = base[a].grant \/ FreshNow(a, next[a].grant)
      BY <1>3, <1>13, <3>1 DEF Answers, Fresh
    <3>3. QED BY <1>10, <1>13, <3>1, <3>2 DEF Answers, Known, Fresh, FreshNow
  <2>2. CASE gateway'[a] = "persist"
    <3>1. held'[a] = held[a] /\ answer'[a] = Answered(a, held[a], rotate)
      BY <1>11, <2>2
    <3>2. Answers(a, held[a], answer[a])'
      BY <1>3, <1>4, <1>5, <1>10, <1>13, <3>1, Typed DEF Answers, Known, Fresh, FreshNow
    <3>3. ASSUME at[a] = "persist", next[a].grant = answer'[a].grant
          PROVE  next[a].grant = base[a].grant
      <4>1. Answers(a, base[a], next[a]) /\ next[a].grant \in Nat
        BY <1>3, <3>3, Typed DEF Grant, Holding
      <4>2. next[a].grant = base[a].grant \/ (next[a].grant # n /\ next[a].grant # g)
        BY <1>3, <1>13, <4>1 DEF Answers, Fresh
      <4>3. QED BY <1>5, <3>1, <3>3, <4>2
    <3>4. QED BY <1>3, <1>10, <2>1, <3>1, <3>2, <3>3 DEF Grant, Holding
  <2>3. CASE gateway'[a] # "persist"
    BY <1>3, <1>10, <1>11, <2>1, <2>3 DEF Grant, Holding
  <2>4. QED BY <2>2, <2>3
<1>15. BaseKnown(a)'
  BY <1>3, <1>10 DEF Grant, BaseKnown, Lost
<1>16. Stored(a)'
  <2>1. CASE row[a] # NoRow /\ row[a].grant = g /\ rotate
    <3>1. GatewayCarries(a, g)' => GatewayCarries(a, row[a].grant)'
      BY <1>10, <1>11, <2>1 DEF GatewayCarries
    <3>2. QED BY <1>10, <1>12, <2>1, <3>1 DEF Stored, Lost, LostNow
  <2>2. CASE Dead(a)
    BY <1>2, <1>3, <1>10, <2>2 DEF Grant, Stored, Dead, Carried, GatewayCarries, Lost
  <2>3. CASE row[a] # NoRow /\ row[a].grant \in live[a] /\ ~(row[a].grant = g /\ rotate)
    BY <1>4, <1>10, <2>3 DEF Stored, Dead
  <2>4. CASE row[a] = NoRow
    BY <1>10, <2>4 DEF Stored, Dead
  <2>5. QED BY <2>1, <2>2, <2>3, <2>4 DEF Dead
<1>17. SentOnce(a)'
  <2>1. CASE rotate /\ base[a].grant = g
    <3>1. GatewayCarries(a, g)' => GatewayCarries(a, base[a].grant)'
      BY <1>10, <1>11, <2>1 DEF GatewayCarries
    <3>2. QED BY <1>10, <1>12, <2>1, <3>1 DEF SentOnce, Lost, LostNow
  <2>2. CASE ~(rotate /\ base[a].grant = g)
    BY <1>2, <1>3, <1>4, <1>10, <2>2 DEF Grant, SentOnce, GatewayCarries, Lost
  <2>3. QED BY <2>1, <2>2
<1>18. Grant(a)'
  BY <1>13, <1>14, <1>15, <1>16, <1>17 DEF Grant
<1>19. \A b \in Accounts \ {a} : Untouched(b) /\ at'[b] = at[b]
  BY <1>2, <1>4, <1>7, <1>8 DEF Untouched, LostGrows, taskVars, taskLocals, rowVars
<1>20. QED BY <1>9, <1>18, <1>19, OneAccount

-----------------------------------------------------------------------------
LEMMA InvInit == Init => IInv
BY GuardsInit, GrantsInit DEF IInv

LEMMA InvNext == IInv /\ [Next]_vars => IInv'
<1> SUFFICES ASSUME IInv, [Next]_vars PROVE IInv'
  OBVIOUS
<1> USE DEF IInv
<1>1. CASE UNCHANGED vars
  <2>1. UNCHANGED <<rowVars, countVars, stopVars, callVars, taskVars, gatewayVars, providerVars, work, lost>>
    BY <1>1 DEF vars
  <2>2. TypeOK'
    BY <2>1 DEF TypeOK, countVars, stopVars, callVars, taskVars, taskLocals, rowVars, gatewayVars,
                providerVars
  <2>3. Guards'
    BY <2>1, GuardsKept DEF countVars, stopVars, callVars, taskVars
  <2>4. ASSUME NEW b \in Accounts PROVE Grant(b)'
    <3>1. Grant(b)
      BY DEF Grants
    <3>2. Untouched(b) /\ at'[b] = at[b]
      BY <2>1 DEF Untouched, taskVars, taskLocals, rowVars, gatewayVars, providerVars
    <3>3. QED BY <3>1, <3>2, GrantKept
  <2>5. QED BY <2>2, <2>3, <2>4 DEF Grants
<1>2. ASSUME NEW c \in Callers, Call(c) \/ CallStep(c) \/ Cancel(c) PROVE IInv'
  BY <1>2, CallStepKeepsGuards, CallKeepsGrants
<1>3. ASSUME NEW a \in Accounts, TaskStep(a) PROVE IInv'
  BY <1>3, ReadLatestKeeps, RedeemKeeps, RejectKeeps, LoseAnswerKeeps, PersistKeeps,
     ExchangeKeeps, StoreKeyKeeps DEF TaskStep
<1>4. ASSUME NEW a \in Accounts, Import(a) \/ Delete(a) \/ DropKey(a) PROVE IInv'
  BY <1>4, ImportKeeps, DeleteKeeps, DropKeyKeeps
<1>5. ASSUME NEW a \in Accounts, GatewayStep(a) PROVE IInv'
  BY <1>5, EnterExchangeKeeps, ObtainKeyKeeps, FailKeyKeeps, GatewayRedeemKeeps, StoreGrantKeeps,
     GatewayEndsKeeps DEF GatewayStep
<1>6. ASSUME RequestShutdown \/ DrainStep PROVE IInv'
  <2>1. UNCHANGED <<rowVars, taskVars, gatewayVars, providerVars, lost>>
    BY <1>6 DEF RequestShutdown, DrainStep, DrainArm, DrainCheck, DrainWake
  <2>2. ASSUME NEW b \in Accounts PROVE Grant(b)'
    <3>1. Grant(b)
      BY DEF Grants
    <3>2. Untouched(b) /\ at'[b] = at[b]
      BY <2>1 DEF Untouched, taskVars, taskLocals, rowVars, gatewayVars, providerVars
    <3>3. QED BY <3>1, <3>2, GrantKept
  <2>3. QED BY <1>6, <2>2, DrainKeepsGuards DEF Grants
<1>7. QED BY <1>1, <1>2, <1>3, <1>4, <1>5, <1>6 DEF Next

LEMMA InvAlways == Spec => []IInv
BY InvInit, InvNext, PTL DEF Spec

(* The variables keep their types.                                         *)
THEOREM RefreshTypeCorrect == Spec => []TypeOK
<1>1. IInv => TypeOK
  BY DEF IInv
<1>2. QED BY <1>1, InvAlways, PTL

(* Slots, count and locks are exact whatever is cancelled.                 *)
THEOREM RefreshGuardsExact == Spec => [](SlotsExact /\ LockHasOneOwner)
<1>1. IInv => SlotsExact /\ LockHasOneOwner
  BY DEF IInv, Guards
<1>2. QED BY <1>1, InvAlways, PTL

(* When the drain is over, no completion runs or can start.                *)
THEOREM DrainIsComplete == Spec => []DrainedIsQuiet
<1>1. IInv => DrainedIsQuiet
  BY DEF IInv, Guards
<1>2. QED BY <1>1, InvAlways, PTL

(* The rotation of an admitted refresh is stored, but for the exemptions   *)
(* named there, though the gateway redeems the same grants beside it.      *)
THEOREM RotatedGrantStored == Spec => []RotationStored
<1>1. IInv => RotationStored
  BY DEF IInv, Grants, Grant, Stored, RotationStored
<1>2. QED BY <1>1, InvAlways, PTL

(* A completion sends a spent grant only when its answer was lost or the   *)
(* gateway has, or had, its successor.                                     *)
THEOREM GrantSentOnce == Spec => []NoGrantSentTwice
<1>1. IInv => NoGrantSentTwice
  BY DEF IInv, Grants, Grant, SentOnce, NoGrantSentTwice
<1>2. QED BY <1>1, InvAlways, PTL

(* No step replaces stored credentials by older ones.                      *)
THEOREM NewerCredentialsKept == Spec => NewerCredentialsStay
<1> DEFINE Kept(a) ==
      row'[a] # NoRow =>
        /\ row'[a].access >= row[a].access
        /\ row[a] = NoRow => issued'[a] # issued[a] /\ row'[a].access = issued'[a]
<1>1. ASSUME IInv, [Next]_vars PROVE [\A a \in Accounts : Kept(a)]_vars
  <2>1. SUFFICES ASSUME NEW b \in Accounts, Next PROVE Kept(b)
    BY <1>1
  <2>2. /\ TypeOK /\ Grant(b) /\ row[b] \in Rows /\ next[b] \in Rows /\ held[b] \in Rows
        /\ answer[b] \in Rows /\ base[b] \in Rows /\ issued[b] \in Nat /\ row[b].access \in Nat
        /\ row \in [Accounts -> Rows] /\ issued \in [Accounts -> Nat]
    BY <1>1, Typed DEF IInv, Grants, TypeOK
  <2>3. CASE row'[b] = row[b]
    BY <2>2, <2>3
  <2>4. CASE row'[b] # row[b]
    <3>1. PICK a \in Accounts : \/ Persist(a) \/ StoreKey(a) \/ Import(a) \/ Delete(a)
                              \/ DropKey(a) \/ ObtainKey(a) \/ StoreGrant(a)
      <4>1. row' # row
        BY <2>4
      <4>2. ~ \E c \in Callers : Call(c) \/ CallStep(c) \/ Cancel(c)
        BY <4>1 DEF Call, CallStep, AcquireLock, AcquireSlot, EnterRegistry, RefuseAtShutdown,
                    Spawn, Cancel, rowVars
      <4>3. ~ \E a \in Accounts : \/ ReadLatest(a) \/ Redeem(a) \/ Reject(a) \/ LoseAnswer(a)
                                 \/ Exchange(a)
        BY <4>1 DEF ReadLatest, Redeem, Reject, LoseAnswer, Exchange, rowVars
      <4>4. ~ \E a \in Accounts : \/ EnterExchange(a) \/ FailKey(a) \/ GatewayRedeem(a)
                                 \/ GatewayEnds(a)
        BY <4>1 DEF EnterExchange, FailKey, GatewayRedeem, GatewayEnds, rowVars
      <4>5. ~ (RequestShutdown \/ DrainStep)
        BY <4>1 DEF RequestShutdown, DrainStep, DrainArm, DrainCheck, DrainWake, rowVars
      <4>6. QED BY <2>1, <4>2, <4>3, <4>4, <4>5, Zenon DEF Next, TaskStep, GatewayStep
    <3>2. CASE Persist(a)
      <4>1. b = a /\ row'[b] = next[b] /\ row[b] = base[b] /\ at[b] = "persist"
        BY <2>2, <2>4, <3>2 DEF Persist, CurrentRow, Store, rowVars
      <4>2. Answers(b, base[b], next[b]) /\ base[b] # NoRow
        BY <2>2, <4>1 DEF Grant, Holding, Issued
      <4>3. QED BY <4>1, <4>2 DEF Answers
    <3>3. CASE StoreKey(a)
      <4>1. b = a /\ row'[b] = [next[b] EXCEPT !.key = OwnKey] /\ row[b] = next[b] /\ at[b] = "storeKey"
        BY <2>2, <2>4, <3>3 DEF StoreKey, CurrentRow, Store, rowVars
      <4>2. next[b] # NoRow /\ OwnKey \in Nat
        BY <2>2, <4>1 DEF Grant, Holding, Issued, OwnKey
      <4>3. QED BY <2>2, <4>1, <4>2, RowShapes
    <3>4. CASE Import(a)
      <4>1. PICK k \in {NoKey, OwnKey} :
              row' = [row EXCEPT ![a] = [access |-> issued[a] + 1, grant |-> issued[a] + 1, key |-> k]]
        BY <3>4 DEF Import, Store
      <4>2. issued' = [issued EXCEPT ![a] = issued[a] + 1]
        BY <3>4 DEF Import
      <4>3. b = a /\ row'[b].access = issued[b] + 1 /\ issued'[b] = issued[b] + 1
        BY <2>2, <2>4, <4>1, <4>2
      <4>4. row[b].access <= issued[b]
        BY <2>2, Typed DEF Grant, Issued, Known
      <4>5. QED BY <2>2, <4>3, <4>4
    <3>5. CASE Delete(a)
      BY <2>2, <2>4, <3>5 DEF Delete
    <3>6. CASE DropKey(a)
      <4>1. b = a /\ row'[b] = [row[b] EXCEPT !.key = NoKey] /\ row[b].key # NoKey
        BY <2>2, <2>4, <3>6 DEF DropKey, Store
      <4>2. row[b] # NoRow /\ NoKey \in Nat
        BY <4>1 DEF NoRow, NoKey
      <4>3. QED BY <2>2, <4>1, <4>2, RowShapes
    <3>7. CASE ObtainKey(a)
      <4>1. b = a /\ row'[b] = [held[b] EXCEPT !.key = ExchangedKey(work)] /\ row[b] = held[b]
            /\ gateway[b] # "none"
        BY <2>2, <2>4, <3>7 DEF ObtainKey, CurrentRow, Store, rowVars
      <4>2. held[b] # NoRow /\ ExchangedKey(work) \in Nat
        BY <2>2, <4>1 DEF Grant, Holding, Issued, ExchangedKey, TypeOK
      <4>3. QED BY <2>2, <4>1, <4>2, RowShapes
    <3>8. CASE StoreGrant(a)
      <4>1. b = a /\ row'[b] = answer[b] /\ row[b] = held[b] /\ gateway[b] = "persist"
        BY <2>2, <2>4, <3>8 DEF StoreGrant, CurrentRow, Store, rowVars
      <4>2. Answers(b, held[b], answer[b]) /\ held[b] # NoRow
        BY <2>2, <4>1 DEF Grant, Holding, Issued
      <4>3. QED BY <4>1, <4>2 DEF Answers
    <3>9. QED BY <3>1, <3>2, <3>3, <3>4, <3>5, <3>6, <3>7, <3>8
  <2>5. QED BY <2>3, <2>4
<1>2. QED BY <1>1, InvAlways, PTL DEF Spec, NewerCredentialsStay
=============================================================================
