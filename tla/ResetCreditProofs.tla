------------------------- MODULE ResetCreditProofs -------------------------
(***************************************************************************)
(* The safety properties of ResetCredit for any number of operations,      *)
(* calls, processes, credits and operations older than the guard table.    *)
(***************************************************************************)
EXTENDS ResetCredit, TLAPS

(* A call has claimed its operation and not yet settled it.                *)
Working == {"check", "snapshot", "send", "waiting", "unauthorized", "rejected",
            "ambiguous", "accepted", "failing"}

WorksOn(c, o) == pc[c] \in Working /\ op[c] = o

OpsKnown == \A c \in Calls : pc[c] # "idle" => op[c] \in Ops

PostedWaits == \A c \in posted : pc[c] = "waiting"

(* What a call knows is recorded, and what is recorded happened.           *)
Recorded ==
    /\ \A c \in Calls : pc[c] = "accepted" => op[c] \in redeemed
    /\ \A c \in Calls : pc[c] \in {"refreshing", "consumed"} => status[op[c]] = "completed"
    /\ \A c \in Calls : pc[c] = "failed" => status[op[c]] = "failed"
    /\ \A o \in Ops : status[o] = "completed" => o \in redeemed

FirstTry == Ops \ (Legacy \cup resumed)

(* At its first attempt an operation has one call; it has reached the      *)
(* provider only if that call was accepted or is left without an answer.   *)
OneCall ==
    \A o \in FirstTry : \A c, d \in Calls : WorksOn(c, o) /\ WorksOn(d, o) => c = d

CallIsPending ==
    \A o \in FirstTry : \A c \in Calls : WorksOn(c, o) => status[o] = "pending"

Untouched(o) == o \notin redeemed /\ o \notin late

CallUntouched ==
    \A o \in FirstTry : \A c \in Calls :
        WorksOn(c, o) /\ pc[c] \notin {"ambiguous", "accepted"} => Untouched(o)

RowUntouched == \A o \in FirstTry : status[o] \in {"absent", "failed"} => Untouched(o)

Inv ==
    /\ TypeOK /\ OpsKnown /\ PostedWaits
    /\ GuardMatchesPending /\ Recorded
    /\ OneCall /\ CallIsPending /\ CallUntouched /\ RowUntouched

-----------------------------------------------------------------------------
(* Every step keeps the types.                                             *)
LEMMA TypeStep == Inv /\ [Next]_vars => TypeOK'
<1> SUFFICES ASSUME Inv, [Next]_vars PROVE TypeOK'
  OBVIOUS
<1> USE DEF Inv, TypeOK, OpsKnown, PostedWaits, Returned, Holding
<1>1. CASE UNCHANGED vars
  BY <1>1 DEF vars, dbVars, processVars, callVars, networkVars, providerVars
<1>2. ASSUME NEW c \in Calls, NEW o \in Ops, NEW p \in Processes, Start(c, o, p) PROVE TypeOK'
  BY <1>2 DEF Start, Goto, Returned, dbVars, processVars, networkVars, providerVars
<1>3. ASSUME NEW c \in Calls, Enter(c) PROVE TypeOK'
  BY <1>3 DEF Enter, Goto, dbVars, callVars, networkVars, providerVars
<1>4. ASSUME NEW c \in Calls, Claim(c) PROVE TypeOK'
  BY <1>4 DEF Claim, Goto, MayClaim, Guarded, processVars, networkVars, providerVars
<1>5. ASSUME NEW c \in Calls, ClaimRefused(c) PROVE TypeOK'
  BY <1>5 DEF ClaimRefused, Goto, MayClaim, Guarded, Return, Stored, callVars,
       networkVars, providerVars
<1>6. ASSUME NEW c \in Calls, ClaimError(c) PROVE TypeOK'
  BY <1>6 DEF ClaimError, Goto, Return, dbVars, callVars, networkVars, providerVars
<1>7. ASSUME NEW c \in Calls, Check(c) PROVE TypeOK'
  BY <1>7 DEF Check, Goto, dbVars, processVars, callVars, networkVars, providerVars
<1>8. ASSUME NEW c \in Calls, Snapshot(c) PROVE TypeOK'
  BY <1>8 DEF Snapshot, Goto, dbVars, processVars, callVars, networkVars, providerVars
<1>9. ASSUME NEW c \in Calls, Send(c) PROVE TypeOK'
  BY <1>9 DEF Send, Goto, SetInterrupted, dbVars, callVars, providerVars
<1>10. ASSUME NEW c \in Calls, Accept(c) PROVE TypeOK'
  BY <1>10, CreditAssumption
     DEF Accept, Goto, Charge, Answer, dbVars, processVars, callVars
<1>11. ASSUME NEW c \in Calls, Refuse(c) PROVE TypeOK'
  BY <1>11 DEF Refuse, Goto, Answer, dbVars, processVars, callVars, providerVars
<1>12. ASSUME NEW c \in Calls, Timeout(c) PROVE TypeOK'
  BY <1>12 DEF Timeout, Goto, Abandon, dbVars, processVars, callVars, providerVars
<1>13. ASSUME NEW c \in Calls, Cancel(c) PROVE TypeOK'
  BY <1>13 DEF Cancel, Goto, Awaiting, Abandon, dbVars, callVars, providerVars
<1>14. ASSUME NEW c \in Calls, RefreshToken(c) PROVE TypeOK'
  BY <1>14 DEF RefreshToken, Goto, dbVars, processVars, providerVars
<1>15. ASSUME NEW c \in Calls, Unauthorized(c) PROVE TypeOK'
  BY <1>15 DEF Unauthorized, Goto, dbVars, processVars, callVars, networkVars,
       providerVars
<1>16. ASSUME NEW c \in Calls, ReturnUnknown(c) PROVE TypeOK'
  BY <1>16 DEF ReturnUnknown, Goto, SetInterrupted, Return, dbVars, callVars,
       networkVars, providerVars
<1>17. ASSUME NEW c \in Calls, FailOperation(c) PROVE TypeOK'
  BY <1>17 DEF FailOperation, Goto, Definitive, FinishOperation, Final, WithoutGuard,
       Stored, SetInterrupted, Return, dbVars, callVars, networkVars, providerVars
<1>18. ASSUME NEW c \in Calls, CompleteOperation(c) PROVE TypeOK'
  BY <1>18 DEF CompleteOperation, Goto, FinishOperation, Final, WithoutGuard,
       SetInterrupted, Return, callVars, networkVars, providerVars
<1>19. ASSUME NEW c \in Calls, CompleteError(c) PROVE TypeOK'
  BY <1>19 DEF CompleteError, Goto, SetInterrupted, Return, dbVars, callVars,
       networkVars, providerVars
<1>20. ASSUME NEW c \in Calls, UpdateResult(c) PROVE TypeOK'
  BY <1>20 DEF UpdateResult, Goto, WithoutGuard, Return, callVars, networkVars,
       providerVars
<1>21. ASSUME NEW o \in Ops, ServeLate(o) PROVE TypeOK'
  BY <1>21, CreditAssumption
     DEF ServeLate, Charge, dbVars, processVars, callVars, providerVars
<1>22. ASSUME NEW p \in Processes, Restart(p) PROVE TypeOK'
  BY <1>22 DEF Restart, Goto, Returned, Abandon, dbVars, callVars, providerVars
<1>23. QED BY <1>1, <1>2, <1>3, <1>4, <1>5, <1>6, <1>7, <1>8, <1>9, <1>10, <1>11, <1>12,
       <1>13, <1>14, <1>15, <1>16, <1>17, <1>18, <1>19, <1>20, <1>21, <1>22 DEF Next,
       Step

(* A call that runs names an operation.                                    *)
LEMMA OpsKnownStep == Inv /\ [Next]_vars => OpsKnown'
<1> SUFFICES ASSUME Inv, [Next]_vars PROVE OpsKnown'
  OBVIOUS
<1> USE DEF Inv, OpsKnown, PostedWaits, TypeOK
<1>1. CASE UNCHANGED vars
  BY <1>1 DEF vars, dbVars, processVars, callVars, networkVars, providerVars
<1>2. ASSUME NEW c \in Calls, NEW o \in Ops, NEW p \in Processes, Start(c, o, p) PROVE OpsKnown'
  BY <1>2 DEF Start, Goto, Returned, dbVars, processVars, networkVars, providerVars
<1>3. ASSUME NEW c \in Calls, Enter(c) PROVE OpsKnown'
  BY <1>3 DEF Enter, Goto, dbVars, callVars, networkVars, providerVars
<1>4. ASSUME NEW c \in Calls, Claim(c) PROVE OpsKnown'
  BY <1>4 DEF Claim, Goto, MayClaim, Guarded, processVars, networkVars, providerVars
<1>5. ASSUME NEW c \in Calls, ClaimRefused(c) PROVE OpsKnown'
  BY <1>5 DEF ClaimRefused, Goto, MayClaim, Guarded, Return, Stored, callVars,
       networkVars, providerVars
<1>6. ASSUME NEW c \in Calls, ClaimError(c) PROVE OpsKnown'
  BY <1>6 DEF ClaimError, Goto, Return, dbVars, callVars, networkVars, providerVars
<1>7. ASSUME NEW c \in Calls, Check(c) PROVE OpsKnown'
  BY <1>7 DEF Check, Goto, dbVars, processVars, callVars, networkVars, providerVars
<1>8. ASSUME NEW c \in Calls, Snapshot(c) PROVE OpsKnown'
  BY <1>8 DEF Snapshot, Goto, dbVars, processVars, callVars, networkVars, providerVars
<1>9. ASSUME NEW c \in Calls, Send(c) PROVE OpsKnown'
  BY <1>9 DEF Send, Goto, SetInterrupted, dbVars, callVars, providerVars
<1>10. ASSUME NEW c \in Calls, Accept(c) PROVE OpsKnown'
  BY <1>10 DEF Accept, Goto, Charge, Answer, dbVars, processVars, callVars
<1>11. ASSUME NEW c \in Calls, Refuse(c) PROVE OpsKnown'
  BY <1>11 DEF Refuse, Goto, Answer, dbVars, processVars, callVars, providerVars
<1>12. ASSUME NEW c \in Calls, Timeout(c) PROVE OpsKnown'
  BY <1>12 DEF Timeout, Goto, Abandon, dbVars, processVars, callVars, providerVars
<1>13. ASSUME NEW c \in Calls, Cancel(c) PROVE OpsKnown'
  BY <1>13 DEF Cancel, Goto, Awaiting, Abandon, dbVars, callVars, providerVars
<1>14. ASSUME NEW c \in Calls, RefreshToken(c) PROVE OpsKnown'
  BY <1>14 DEF RefreshToken, Goto, dbVars, processVars, providerVars
<1>15. ASSUME NEW c \in Calls, Unauthorized(c) PROVE OpsKnown'
  BY <1>15 DEF Unauthorized, Goto, dbVars, processVars, callVars, networkVars,
       providerVars
<1>16. ASSUME NEW c \in Calls, ReturnUnknown(c) PROVE OpsKnown'
  BY <1>16 DEF ReturnUnknown, Goto, SetInterrupted, Return, dbVars, callVars,
       networkVars, providerVars
<1>17. ASSUME NEW c \in Calls, FailOperation(c) PROVE OpsKnown'
  BY <1>17 DEF FailOperation, Goto, Definitive, FinishOperation, Final, WithoutGuard,
       Stored, SetInterrupted, Return, dbVars, callVars, networkVars, providerVars
<1>18. ASSUME NEW c \in Calls, CompleteOperation(c) PROVE OpsKnown'
  BY <1>18 DEF CompleteOperation, Goto, FinishOperation, Final, WithoutGuard,
       SetInterrupted, Return, callVars, networkVars, providerVars
<1>19. ASSUME NEW c \in Calls, CompleteError(c) PROVE OpsKnown'
  BY <1>19 DEF CompleteError, Goto, SetInterrupted, Return, dbVars, callVars,
       networkVars, providerVars
<1>20. ASSUME NEW c \in Calls, UpdateResult(c) PROVE OpsKnown'
  BY <1>20 DEF UpdateResult, Goto, WithoutGuard, Return, callVars, networkVars,
       providerVars
<1>21. ASSUME NEW o \in Ops, ServeLate(o) PROVE OpsKnown'
  BY <1>21 DEF ServeLate, Goto, Charge, dbVars, processVars, callVars, providerVars
<1>22. ASSUME NEW p \in Processes, Restart(p) PROVE OpsKnown'
  BY <1>22 DEF Restart, Goto, Returned, Abandon, dbVars, callVars, providerVars
<1>23. QED BY <1>1, <1>2, <1>3, <1>4, <1>5, <1>6, <1>7, <1>8, <1>9, <1>10, <1>11, <1>12,
       <1>13, <1>14, <1>15, <1>16, <1>17, <1>18, <1>19, <1>20, <1>21, <1>22 DEF Next,
       Step

(* Only a call that waits has a request before the provider.              *)
LEMMA PostedStep == Inv /\ [Next]_vars => PostedWaits'
<1> SUFFICES ASSUME Inv, [Next]_vars PROVE PostedWaits'
  OBVIOUS
<1> USE DEF Inv, PostedWaits, TypeOK
<1>1. CASE UNCHANGED vars
  BY <1>1 DEF vars, dbVars, processVars, callVars, networkVars, providerVars
<1>2. ASSUME NEW c \in Calls, NEW o \in Ops, NEW p \in Processes, Start(c, o, p) PROVE PostedWaits'
  BY <1>2 DEF Start, Goto, Returned, dbVars, processVars, networkVars, providerVars
<1>3. ASSUME NEW c \in Calls, Enter(c) PROVE PostedWaits'
  BY <1>3 DEF Enter, Goto, dbVars, callVars, networkVars, providerVars
<1>4. ASSUME NEW c \in Calls, Claim(c) PROVE PostedWaits'
  BY <1>4 DEF Claim, Goto, MayClaim, Guarded, processVars, networkVars, providerVars
<1>5. ASSUME NEW c \in Calls, ClaimRefused(c) PROVE PostedWaits'
  BY <1>5 DEF ClaimRefused, Goto, MayClaim, Guarded, Return, Stored, callVars,
       networkVars, providerVars
<1>6. ASSUME NEW c \in Calls, ClaimError(c) PROVE PostedWaits'
  BY <1>6 DEF ClaimError, Goto, Return, dbVars, callVars, networkVars, providerVars
<1>7. ASSUME NEW c \in Calls, Check(c) PROVE PostedWaits'
  BY <1>7 DEF Check, Goto, dbVars, processVars, callVars, networkVars, providerVars
<1>8. ASSUME NEW c \in Calls, Snapshot(c) PROVE PostedWaits'
  BY <1>8 DEF Snapshot, Goto, dbVars, processVars, callVars, networkVars, providerVars
<1>9. ASSUME NEW c \in Calls, Send(c) PROVE PostedWaits'
  BY <1>9 DEF Send, Goto, SetInterrupted, dbVars, callVars, providerVars
<1>10. ASSUME NEW c \in Calls, Accept(c) PROVE PostedWaits'
  BY <1>10 DEF Accept, Goto, Charge, Answer, dbVars, processVars, callVars
<1>11. ASSUME NEW c \in Calls, Refuse(c) PROVE PostedWaits'
  BY <1>11 DEF Refuse, Goto, Answer, dbVars, processVars, callVars, providerVars
<1>12. ASSUME NEW c \in Calls, Timeout(c) PROVE PostedWaits'
  BY <1>12 DEF Timeout, Goto, Abandon, dbVars, processVars, callVars, providerVars
<1>13. ASSUME NEW c \in Calls, Cancel(c) PROVE PostedWaits'
  BY <1>13 DEF Cancel, Goto, Awaiting, Abandon, dbVars, callVars, providerVars
<1>14. ASSUME NEW c \in Calls, RefreshToken(c) PROVE PostedWaits'
  BY <1>14 DEF RefreshToken, Goto, dbVars, processVars, providerVars
<1>15. ASSUME NEW c \in Calls, Unauthorized(c) PROVE PostedWaits'
  BY <1>15 DEF Unauthorized, Goto, dbVars, processVars, callVars, networkVars,
       providerVars
<1>16. ASSUME NEW c \in Calls, ReturnUnknown(c) PROVE PostedWaits'
  BY <1>16 DEF ReturnUnknown, Goto, SetInterrupted, Return, dbVars, callVars,
       networkVars, providerVars
<1>17. ASSUME NEW c \in Calls, FailOperation(c) PROVE PostedWaits'
  BY <1>17 DEF FailOperation, Goto, Definitive, FinishOperation, Final, WithoutGuard,
       Stored, SetInterrupted, Return, dbVars, callVars, networkVars, providerVars
<1>18. ASSUME NEW c \in Calls, CompleteOperation(c) PROVE PostedWaits'
  BY <1>18 DEF CompleteOperation, Goto, FinishOperation, Final, WithoutGuard,
       SetInterrupted, Return, callVars, networkVars, providerVars
<1>19. ASSUME NEW c \in Calls, CompleteError(c) PROVE PostedWaits'
  BY <1>19 DEF CompleteError, Goto, SetInterrupted, Return, dbVars, callVars,
       networkVars, providerVars
<1>20. ASSUME NEW c \in Calls, UpdateResult(c) PROVE PostedWaits'
  BY <1>20 DEF UpdateResult, Goto, WithoutGuard, Return, callVars, networkVars,
       providerVars
<1>21. ASSUME NEW o \in Ops, ServeLate(o) PROVE PostedWaits'
  BY <1>21 DEF ServeLate, Goto, Charge, dbVars, processVars, callVars, providerVars
<1>22. ASSUME NEW p \in Processes, Restart(p) PROVE PostedWaits'
  BY <1>22 DEF Restart, Goto, Returned, Abandon, dbVars, callVars, providerVars
<1>23. QED BY <1>1, <1>2, <1>3, <1>4, <1>5, <1>6, <1>7, <1>8, <1>9, <1>10, <1>11, <1>12,
       <1>13, <1>14, <1>15, <1>16, <1>17, <1>18, <1>19, <1>20, <1>21, <1>22 DEF Next,
       Step

(* Guard and operations change together.                                   *)
LEMMA GuardStep == Inv /\ [Next]_vars => GuardMatchesPending'
<1> SUFFICES ASSUME Inv, [Next]_vars PROVE GuardMatchesPending'
  OBVIOUS
<1> USE DEF Inv, GuardMatchesPending, Recorded, TypeOK, OpsKnown
<1>1. CASE UNCHANGED vars
  BY <1>1 DEF vars, dbVars, processVars, callVars, networkVars, providerVars
<1>2. ASSUME NEW c \in Calls, NEW o \in Ops, NEW p \in Processes, Start(c, o, p) PROVE GuardMatchesPending'
  BY <1>2 DEF Start, Goto, Returned, dbVars, processVars, networkVars, providerVars
<1>3. ASSUME NEW c \in Calls, Enter(c) PROVE GuardMatchesPending'
  BY <1>3 DEF Enter, Goto, dbVars, callVars, networkVars, providerVars
<1>4. ASSUME NEW c \in Calls, Claim(c) PROVE GuardMatchesPending'
  BY <1>4, CreditAssumption DEF Claim, Goto, MayClaim, Guarded
<1>5. ASSUME NEW c \in Calls, ClaimRefused(c) PROVE GuardMatchesPending'
  BY <1>5 DEF ClaimRefused, Goto, MayClaim, Guarded, Return, Stored, callVars,
       networkVars, providerVars
<1>6. ASSUME NEW c \in Calls, ClaimError(c) PROVE GuardMatchesPending'
  BY <1>6 DEF ClaimError, Goto, Return, dbVars, callVars, networkVars, providerVars
<1>7. ASSUME NEW c \in Calls, Check(c) PROVE GuardMatchesPending'
  BY <1>7 DEF Check, Goto, dbVars, processVars, callVars, networkVars, providerVars
<1>8. ASSUME NEW c \in Calls, Snapshot(c) PROVE GuardMatchesPending'
  BY <1>8 DEF Snapshot, Goto, dbVars, processVars, callVars, networkVars, providerVars
<1>9. ASSUME NEW c \in Calls, Send(c) PROVE GuardMatchesPending'
  BY <1>9 DEF Send, Goto, SetInterrupted, dbVars, callVars, providerVars
<1>10. ASSUME NEW c \in Calls, Accept(c) PROVE GuardMatchesPending'
  BY <1>10 DEF Accept, Goto, Charge, Answer, dbVars, processVars, callVars
<1>11. ASSUME NEW c \in Calls, Refuse(c) PROVE GuardMatchesPending'
  BY <1>11 DEF Refuse, Goto, Answer, dbVars, processVars, callVars, providerVars
<1>12. ASSUME NEW c \in Calls, Timeout(c) PROVE GuardMatchesPending'
  BY <1>12 DEF Timeout, Goto, Abandon, dbVars, processVars, callVars, providerVars
<1>13. ASSUME NEW c \in Calls, Cancel(c) PROVE GuardMatchesPending'
  BY <1>13 DEF Cancel, Goto, Awaiting, Abandon, dbVars, callVars, providerVars
<1>14. ASSUME NEW c \in Calls, RefreshToken(c) PROVE GuardMatchesPending'
  BY <1>14 DEF RefreshToken, Goto, dbVars, processVars, providerVars
<1>15. ASSUME NEW c \in Calls, Unauthorized(c) PROVE GuardMatchesPending'
  BY <1>15 DEF Unauthorized, Goto, dbVars, processVars, callVars, networkVars,
       providerVars
<1>16. ASSUME NEW c \in Calls, ReturnUnknown(c) PROVE GuardMatchesPending'
  BY <1>16 DEF ReturnUnknown, Goto, SetInterrupted, Return, dbVars, callVars,
       networkVars, providerVars
<1>17. ASSUME NEW c \in Calls, FailOperation(c) PROVE GuardMatchesPending'
  BY <1>17 DEF FailOperation, Goto, Definitive, FinishOperation, Final, WithoutGuard,
       Stored, SetInterrupted, Return, dbVars, callVars, networkVars, providerVars
<1>18. ASSUME NEW c \in Calls, CompleteOperation(c) PROVE GuardMatchesPending'
  BY <1>18 DEF CompleteOperation, Goto, FinishOperation, Final, WithoutGuard,
       SetInterrupted, Return, callVars, networkVars, providerVars
<1>19. ASSUME NEW c \in Calls, CompleteError(c) PROVE GuardMatchesPending'
  BY <1>19 DEF CompleteError, Goto, SetInterrupted, Return, dbVars, callVars,
       networkVars, providerVars
<1>20. ASSUME NEW c \in Calls, UpdateResult(c) PROVE GuardMatchesPending'
  BY <1>20 DEF UpdateResult, Goto, WithoutGuard, Return, callVars, networkVars,
       providerVars
<1>21. ASSUME NEW o \in Ops, ServeLate(o) PROVE GuardMatchesPending'
  BY <1>21 DEF ServeLate, Goto, Charge, dbVars, processVars, callVars, providerVars
<1>22. ASSUME NEW p \in Processes, Restart(p) PROVE GuardMatchesPending'
  BY <1>22 DEF Restart, Goto, Returned, Abandon, dbVars, callVars, providerVars
<1>23. QED BY <1>1, <1>2, <1>3, <1>4, <1>5, <1>6, <1>7, <1>8, <1>9, <1>10, <1>11, <1>12,
       <1>13, <1>14, <1>15, <1>16, <1>17, <1>18, <1>19, <1>20, <1>21, <1>22 DEF Next,
       Step

(* Answers stay true: a recorded outcome never changes.                    *)
LEMMA RecordedStep == Inv /\ [Next]_vars => Recorded'
<1> SUFFICES ASSUME Inv, [Next]_vars PROVE Recorded'
  OBVIOUS
<1> USE DEF Inv, Recorded, TypeOK, OpsKnown, PostedWaits
<1>1. CASE UNCHANGED vars
  BY <1>1 DEF vars, dbVars, processVars, callVars, networkVars, providerVars
<1>2. ASSUME NEW c \in Calls, NEW o \in Ops, NEW p \in Processes, Start(c, o, p) PROVE Recorded'
  BY <1>2 DEF Start, Goto, Returned, dbVars, processVars, networkVars, providerVars
<1>3. ASSUME NEW c \in Calls, Enter(c) PROVE Recorded'
  BY <1>3 DEF Enter, Goto, dbVars, callVars, networkVars, providerVars
<1>4. ASSUME NEW c \in Calls, Claim(c) PROVE Recorded'
  BY <1>4 DEF Claim, Goto, MayClaim, Guarded, processVars, networkVars, providerVars
<1>5. ASSUME NEW c \in Calls, ClaimRefused(c) PROVE Recorded'
  BY <1>5 DEF ClaimRefused, Goto, MayClaim, Guarded, Return, Stored, callVars,
       networkVars, providerVars
<1>6. ASSUME NEW c \in Calls, ClaimError(c) PROVE Recorded'
  BY <1>6 DEF ClaimError, Goto, Return, dbVars, callVars, networkVars, providerVars
<1>7. ASSUME NEW c \in Calls, Check(c) PROVE Recorded'
  BY <1>7 DEF Check, Goto, dbVars, processVars, callVars, networkVars, providerVars
<1>8. ASSUME NEW c \in Calls, Snapshot(c) PROVE Recorded'
  BY <1>8 DEF Snapshot, Goto, dbVars, processVars, callVars, networkVars, providerVars
<1>9. ASSUME NEW c \in Calls, Send(c) PROVE Recorded'
  BY <1>9 DEF Send, Goto, SetInterrupted, dbVars, callVars, providerVars
<1>10. ASSUME NEW c \in Calls, Accept(c) PROVE Recorded'
  BY <1>10 DEF Accept, Goto, Charge, Answer, dbVars, processVars, callVars
<1>11. ASSUME NEW c \in Calls, Refuse(c) PROVE Recorded'
  BY <1>11 DEF Refuse, Goto, Answer, dbVars, processVars, callVars, providerVars
<1>12. ASSUME NEW c \in Calls, Timeout(c) PROVE Recorded'
  BY <1>12 DEF Timeout, Goto, Abandon, dbVars, processVars, callVars, providerVars
<1>13. ASSUME NEW c \in Calls, Cancel(c) PROVE Recorded'
  BY <1>13 DEF Cancel, Goto, Awaiting, Abandon, dbVars, callVars, providerVars
<1>14. ASSUME NEW c \in Calls, RefreshToken(c) PROVE Recorded'
  BY <1>14 DEF RefreshToken, Goto, dbVars, processVars, providerVars
<1>15. ASSUME NEW c \in Calls, Unauthorized(c) PROVE Recorded'
  BY <1>15 DEF Unauthorized, Goto, dbVars, processVars, callVars, networkVars,
       providerVars
<1>16. ASSUME NEW c \in Calls, ReturnUnknown(c) PROVE Recorded'
  BY <1>16 DEF ReturnUnknown, Goto, SetInterrupted, Return, dbVars, callVars,
       networkVars, providerVars
<1>17. ASSUME NEW c \in Calls, FailOperation(c) PROVE Recorded'
  BY <1>17 DEF FailOperation, Goto, Definitive, FinishOperation, Final, WithoutGuard,
       Stored, SetInterrupted, Return, dbVars, callVars, networkVars, providerVars
<1>18. ASSUME NEW c \in Calls, CompleteOperation(c) PROVE Recorded'
  BY <1>18 DEF CompleteOperation, Goto, FinishOperation, Final, WithoutGuard,
       SetInterrupted, Return, callVars, networkVars, providerVars
<1>19. ASSUME NEW c \in Calls, CompleteError(c) PROVE Recorded'
  BY <1>19 DEF CompleteError, Goto, SetInterrupted, Return, dbVars, callVars,
       networkVars, providerVars
<1>20. ASSUME NEW c \in Calls, UpdateResult(c) PROVE Recorded'
  BY <1>20 DEF UpdateResult, Goto, WithoutGuard, Return, callVars, networkVars,
       providerVars
<1>21. ASSUME NEW o \in Ops, ServeLate(o) PROVE Recorded'
  BY <1>21 DEF ServeLate, Goto, Charge, dbVars, processVars, callVars, providerVars
<1>22. ASSUME NEW p \in Processes, Restart(p) PROVE Recorded'
  BY <1>22 DEF Restart, Goto, Returned, Abandon, dbVars, callVars, providerVars
<1>23. QED BY <1>1, <1>2, <1>3, <1>4, <1>5, <1>6, <1>7, <1>8, <1>9, <1>10, <1>11, <1>12,
       <1>13, <1>14, <1>15, <1>16, <1>17, <1>18, <1>19, <1>20, <1>21, <1>22 DEF Next,
       Step

(* A second call can only resume the operation.                            *)
LEMMA OneCallStep == Inv /\ [Next]_vars => OneCall'
<1> SUFFICES ASSUME Inv, [Next]_vars PROVE OneCall'
  OBVIOUS
<1> USE DEF Inv, OneCall, CallIsPending, PostedWaits, FirstTry, WorksOn, Working, TypeOK, OpsKnown
<1>1. CASE UNCHANGED vars
  BY <1>1 DEF vars, dbVars, processVars, callVars, networkVars, providerVars
<1>2. ASSUME NEW c \in Calls, NEW o \in Ops, NEW p \in Processes, Start(c, o, p) PROVE OneCall'
  BY <1>2 DEF Start, Goto, Returned, dbVars, processVars, networkVars, providerVars
<1>3. ASSUME NEW c \in Calls, Enter(c) PROVE OneCall'
  BY <1>3 DEF Enter, Goto, dbVars, callVars, networkVars, providerVars
<1>4. ASSUME NEW c \in Calls, Claim(c) PROVE OneCall'
  BY <1>4 DEF Claim, Goto, MayClaim, Guarded, processVars, networkVars, providerVars
<1>5. ASSUME NEW c \in Calls, ClaimRefused(c) PROVE OneCall'
  BY <1>5 DEF ClaimRefused, Goto, MayClaim, Guarded, Return, Stored, callVars,
       networkVars, providerVars
<1>6. ASSUME NEW c \in Calls, ClaimError(c) PROVE OneCall'
  BY <1>6 DEF ClaimError, Goto, Return, dbVars, callVars, networkVars, providerVars
<1>7. ASSUME NEW c \in Calls, Check(c) PROVE OneCall'
  BY <1>7 DEF Check, Goto, dbVars, processVars, callVars, networkVars, providerVars
<1>8. ASSUME NEW c \in Calls, Snapshot(c) PROVE OneCall'
  BY <1>8 DEF Snapshot, Goto, dbVars, processVars, callVars, networkVars, providerVars
<1>9. ASSUME NEW c \in Calls, Send(c) PROVE OneCall'
  BY <1>9 DEF Send, Goto, SetInterrupted, dbVars, callVars, providerVars
<1>10. ASSUME NEW c \in Calls, Accept(c) PROVE OneCall'
  BY <1>10 DEF Accept, Goto, Charge, Answer, dbVars, processVars, callVars
<1>11. ASSUME NEW c \in Calls, Refuse(c) PROVE OneCall'
  BY <1>11 DEF Refuse, Goto, Answer, dbVars, processVars, callVars, providerVars
<1>12. ASSUME NEW c \in Calls, Timeout(c) PROVE OneCall'
  BY <1>12 DEF Timeout, Goto, Abandon, dbVars, processVars, callVars, providerVars
<1>13. ASSUME NEW c \in Calls, Cancel(c) PROVE OneCall'
  BY <1>13 DEF Cancel, Goto, Awaiting, Abandon, dbVars, callVars, providerVars
<1>14. ASSUME NEW c \in Calls, RefreshToken(c) PROVE OneCall'
  BY <1>14 DEF RefreshToken, Goto, dbVars, processVars, providerVars
<1>15. ASSUME NEW c \in Calls, Unauthorized(c) PROVE OneCall'
  BY <1>15 DEF Unauthorized, Goto, dbVars, processVars, callVars, networkVars,
       providerVars
<1>16. ASSUME NEW c \in Calls, ReturnUnknown(c) PROVE OneCall'
  BY <1>16 DEF ReturnUnknown, Goto, SetInterrupted, Return, dbVars, callVars,
       networkVars, providerVars
<1>17. ASSUME NEW c \in Calls, FailOperation(c) PROVE OneCall'
  BY <1>17 DEF FailOperation, Goto, Definitive, FinishOperation, Final, WithoutGuard,
       Stored, SetInterrupted, Return, dbVars, callVars, networkVars, providerVars
<1>18. ASSUME NEW c \in Calls, CompleteOperation(c) PROVE OneCall'
  BY <1>18 DEF CompleteOperation, Goto, FinishOperation, Final, WithoutGuard,
       SetInterrupted, Return, callVars, networkVars, providerVars
<1>19. ASSUME NEW c \in Calls, CompleteError(c) PROVE OneCall'
  BY <1>19 DEF CompleteError, Goto, SetInterrupted, Return, dbVars, callVars,
       networkVars, providerVars
<1>20. ASSUME NEW c \in Calls, UpdateResult(c) PROVE OneCall'
  BY <1>20 DEF UpdateResult, Goto, WithoutGuard, Return, callVars, networkVars,
       providerVars
<1>21. ASSUME NEW o \in Ops, ServeLate(o) PROVE OneCall'
  BY <1>21 DEF ServeLate, Goto, Charge, dbVars, processVars, callVars, providerVars
<1>22. ASSUME NEW p \in Processes, Restart(p) PROVE OneCall'
  BY <1>22 DEF Restart, Goto, Returned, Abandon, dbVars, callVars, providerVars
<1>23. QED BY <1>1, <1>2, <1>3, <1>4, <1>5, <1>6, <1>7, <1>8, <1>9, <1>10, <1>11, <1>12,
       <1>13, <1>14, <1>15, <1>16, <1>17, <1>18, <1>19, <1>20, <1>21, <1>22 DEF Next,
       Step

(* The only call of a first attempt settles it.                            *)
LEMMA CallIsPendingStep == Inv /\ [Next]_vars => CallIsPending'
<1> SUFFICES ASSUME Inv, [Next]_vars PROVE CallIsPending'
  OBVIOUS
<1> USE DEF Inv, CallIsPending, OneCall, PostedWaits, FirstTry, WorksOn, Working, TypeOK, OpsKnown
<1>1. CASE UNCHANGED vars
  BY <1>1 DEF vars, dbVars, processVars, callVars, networkVars, providerVars
<1>2. ASSUME NEW c \in Calls, NEW o \in Ops, NEW p \in Processes, Start(c, o, p) PROVE CallIsPending'
  BY <1>2 DEF Start, Goto, Returned, dbVars, processVars, networkVars, providerVars
<1>3. ASSUME NEW c \in Calls, Enter(c) PROVE CallIsPending'
  BY <1>3 DEF Enter, Goto, dbVars, callVars, networkVars, providerVars
<1>4. ASSUME NEW c \in Calls, Claim(c) PROVE CallIsPending'
  BY <1>4 DEF Claim, Goto, MayClaim, Guarded, processVars, networkVars, providerVars
<1>5. ASSUME NEW c \in Calls, ClaimRefused(c) PROVE CallIsPending'
  BY <1>5 DEF ClaimRefused, Goto, MayClaim, Guarded, Return, Stored, callVars,
       networkVars, providerVars
<1>6. ASSUME NEW c \in Calls, ClaimError(c) PROVE CallIsPending'
  BY <1>6 DEF ClaimError, Goto, Return, dbVars, callVars, networkVars, providerVars
<1>7. ASSUME NEW c \in Calls, Check(c) PROVE CallIsPending'
  BY <1>7 DEF Check, Goto, dbVars, processVars, callVars, networkVars, providerVars
<1>8. ASSUME NEW c \in Calls, Snapshot(c) PROVE CallIsPending'
  BY <1>8 DEF Snapshot, Goto, dbVars, processVars, callVars, networkVars, providerVars
<1>9. ASSUME NEW c \in Calls, Send(c) PROVE CallIsPending'
  BY <1>9 DEF Send, Goto, SetInterrupted, dbVars, callVars, providerVars
<1>10. ASSUME NEW c \in Calls, Accept(c) PROVE CallIsPending'
  BY <1>10 DEF Accept, Goto, Charge, Answer, dbVars, processVars, callVars
<1>11. ASSUME NEW c \in Calls, Refuse(c) PROVE CallIsPending'
  BY <1>11 DEF Refuse, Goto, Answer, dbVars, processVars, callVars, providerVars
<1>12. ASSUME NEW c \in Calls, Timeout(c) PROVE CallIsPending'
  BY <1>12 DEF Timeout, Goto, Abandon, dbVars, processVars, callVars, providerVars
<1>13. ASSUME NEW c \in Calls, Cancel(c) PROVE CallIsPending'
  BY <1>13 DEF Cancel, Goto, Awaiting, Abandon, dbVars, callVars, providerVars
<1>14. ASSUME NEW c \in Calls, RefreshToken(c) PROVE CallIsPending'
  BY <1>14 DEF RefreshToken, Goto, dbVars, processVars, providerVars
<1>15. ASSUME NEW c \in Calls, Unauthorized(c) PROVE CallIsPending'
  BY <1>15 DEF Unauthorized, Goto, dbVars, processVars, callVars, networkVars,
       providerVars
<1>16. ASSUME NEW c \in Calls, ReturnUnknown(c) PROVE CallIsPending'
  BY <1>16 DEF ReturnUnknown, Goto, SetInterrupted, Return, dbVars, callVars,
       networkVars, providerVars
<1>17. ASSUME NEW c \in Calls, FailOperation(c) PROVE CallIsPending'
  BY <1>17 DEF FailOperation, Goto, Definitive, FinishOperation, Final, WithoutGuard,
       Stored, SetInterrupted, Return, dbVars, callVars, networkVars, providerVars
<1>18. ASSUME NEW c \in Calls, CompleteOperation(c) PROVE CallIsPending'
  BY <1>18 DEF CompleteOperation, Goto, FinishOperation, Final, WithoutGuard,
       SetInterrupted, Return, callVars, networkVars, providerVars
<1>19. ASSUME NEW c \in Calls, CompleteError(c) PROVE CallIsPending'
  BY <1>19 DEF CompleteError, Goto, SetInterrupted, Return, dbVars, callVars,
       networkVars, providerVars
<1>20. ASSUME NEW c \in Calls, UpdateResult(c) PROVE CallIsPending'
  BY <1>20 DEF UpdateResult, Goto, WithoutGuard, Return, callVars, networkVars,
       providerVars
<1>21. ASSUME NEW o \in Ops, ServeLate(o) PROVE CallIsPending'
  BY <1>21 DEF ServeLate, Goto, Charge, dbVars, processVars, callVars, providerVars
<1>22. ASSUME NEW p \in Processes, Restart(p) PROVE CallIsPending'
  BY <1>22 DEF Restart, Goto, Returned, Abandon, dbVars, callVars, providerVars
<1>23. QED BY <1>1, <1>2, <1>3, <1>4, <1>5, <1>6, <1>7, <1>8, <1>9, <1>10, <1>11, <1>12,
       <1>13, <1>14, <1>15, <1>16, <1>17, <1>18, <1>19, <1>20, <1>21, <1>22 DEF Next,
       Step

(* Until its only request is accepted or left unanswered, nothing happened.*)
LEMMA CallUntouchedStep == Inv /\ [Next]_vars => CallUntouched'
<1> SUFFICES ASSUME Inv, [Next]_vars PROVE CallUntouched'
  OBVIOUS
<1> USE DEF Inv, CallUntouched, OneCall, CallIsPending, RowUntouched, Untouched, PostedWaits, FirstTry, WorksOn, Working, TypeOK, OpsKnown
<1>1. CASE UNCHANGED vars
  BY <1>1 DEF vars, dbVars, processVars, callVars, networkVars, providerVars
<1>2. ASSUME NEW c \in Calls, NEW o \in Ops, NEW p \in Processes, Start(c, o, p) PROVE CallUntouched'
  BY <1>2 DEF Start, Goto, Returned, dbVars, processVars, networkVars, providerVars
<1>3. ASSUME NEW c \in Calls, Enter(c) PROVE CallUntouched'
  BY <1>3 DEF Enter, Goto, dbVars, callVars, networkVars, providerVars
<1>4. ASSUME NEW c \in Calls, Claim(c) PROVE CallUntouched'
  BY <1>4 DEF Claim, Goto, MayClaim, Guarded, processVars, networkVars, providerVars
<1>5. ASSUME NEW c \in Calls, ClaimRefused(c) PROVE CallUntouched'
  BY <1>5 DEF ClaimRefused, Goto, MayClaim, Guarded, Return, Stored, callVars,
       networkVars, providerVars
<1>6. ASSUME NEW c \in Calls, ClaimError(c) PROVE CallUntouched'
  BY <1>6 DEF ClaimError, Goto, Return, dbVars, callVars, networkVars, providerVars
<1>7. ASSUME NEW c \in Calls, Check(c) PROVE CallUntouched'
  BY <1>7 DEF Check, Goto, dbVars, processVars, callVars, networkVars, providerVars
<1>8. ASSUME NEW c \in Calls, Snapshot(c) PROVE CallUntouched'
  BY <1>8 DEF Snapshot, Goto, dbVars, processVars, callVars, networkVars, providerVars
<1>9. ASSUME NEW c \in Calls, Send(c) PROVE CallUntouched'
  BY <1>9 DEF Send, Goto, SetInterrupted, dbVars, callVars, providerVars
<1>10. ASSUME NEW c \in Calls, Accept(c) PROVE CallUntouched'
  BY <1>10 DEF Accept, Goto, Charge, Answer, dbVars, processVars, callVars
<1>11. ASSUME NEW c \in Calls, Refuse(c) PROVE CallUntouched'
  BY <1>11 DEF Refuse, Goto, Answer, dbVars, processVars, callVars, providerVars
<1>12. ASSUME NEW c \in Calls, Timeout(c) PROVE CallUntouched'
  BY <1>12 DEF Timeout, Goto, Abandon, dbVars, processVars, callVars, providerVars
<1>13. ASSUME NEW c \in Calls, Cancel(c) PROVE CallUntouched'
  BY <1>13 DEF Cancel, Goto, Awaiting, Abandon, dbVars, callVars, providerVars
<1>14. ASSUME NEW c \in Calls, RefreshToken(c) PROVE CallUntouched'
  BY <1>14 DEF RefreshToken, Goto, dbVars, processVars, providerVars
<1>15. ASSUME NEW c \in Calls, Unauthorized(c) PROVE CallUntouched'
  BY <1>15 DEF Unauthorized, Goto, dbVars, processVars, callVars, networkVars,
       providerVars
<1>16. ASSUME NEW c \in Calls, ReturnUnknown(c) PROVE CallUntouched'
  BY <1>16 DEF ReturnUnknown, Goto, SetInterrupted, Return, dbVars, callVars,
       networkVars, providerVars
<1>17. ASSUME NEW c \in Calls, FailOperation(c) PROVE CallUntouched'
  BY <1>17 DEF FailOperation, Goto, Definitive, FinishOperation, Final, WithoutGuard,
       Stored, SetInterrupted, Return, dbVars, callVars, networkVars, providerVars
<1>18. ASSUME NEW c \in Calls, CompleteOperation(c) PROVE CallUntouched'
  BY <1>18 DEF CompleteOperation, Goto, FinishOperation, Final, WithoutGuard,
       SetInterrupted, Return, callVars, networkVars, providerVars
<1>19. ASSUME NEW c \in Calls, CompleteError(c) PROVE CallUntouched'
  BY <1>19 DEF CompleteError, Goto, SetInterrupted, Return, dbVars, callVars,
       networkVars, providerVars
<1>20. ASSUME NEW c \in Calls, UpdateResult(c) PROVE CallUntouched'
  BY <1>20 DEF UpdateResult, Goto, WithoutGuard, Return, callVars, networkVars,
       providerVars
<1>21. ASSUME NEW o \in Ops, ServeLate(o) PROVE CallUntouched'
  BY <1>21 DEF ServeLate, Goto, Charge, dbVars, processVars, callVars, providerVars
<1>22. ASSUME NEW p \in Processes, Restart(p) PROVE CallUntouched'
  BY <1>22 DEF Restart, Goto, Returned, Abandon, dbVars, callVars, providerVars
<1>23. QED BY <1>1, <1>2, <1>3, <1>4, <1>5, <1>6, <1>7, <1>8, <1>9, <1>10, <1>11, <1>12,
       <1>13, <1>14, <1>15, <1>16, <1>17, <1>18, <1>19, <1>20, <1>21, <1>22 DEF Next,
       Step

(* A first attempt fails only before that.                                 *)
LEMMA RowUntouchedStep == Inv /\ [Next]_vars => RowUntouched'
<1> SUFFICES ASSUME Inv, [Next]_vars PROVE RowUntouched'
  OBVIOUS
<1> USE DEF Inv, RowUntouched, OneCall, CallIsPending, CallUntouched, Untouched, PostedWaits, FirstTry, WorksOn, Working, TypeOK, OpsKnown
<1>1. CASE UNCHANGED vars
  BY <1>1 DEF vars, dbVars, processVars, callVars, networkVars, providerVars
<1>2. ASSUME NEW c \in Calls, NEW o \in Ops, NEW p \in Processes, Start(c, o, p) PROVE RowUntouched'
  BY <1>2 DEF Start, Goto, Returned, dbVars, processVars, networkVars, providerVars
<1>3. ASSUME NEW c \in Calls, Enter(c) PROVE RowUntouched'
  BY <1>3 DEF Enter, Goto, dbVars, callVars, networkVars, providerVars
<1>4. ASSUME NEW c \in Calls, Claim(c) PROVE RowUntouched'
  BY <1>4 DEF Claim, Goto, MayClaim, Guarded, processVars, networkVars, providerVars
<1>5. ASSUME NEW c \in Calls, ClaimRefused(c) PROVE RowUntouched'
  BY <1>5 DEF ClaimRefused, Goto, MayClaim, Guarded, Return, Stored, callVars,
       networkVars, providerVars
<1>6. ASSUME NEW c \in Calls, ClaimError(c) PROVE RowUntouched'
  BY <1>6 DEF ClaimError, Goto, Return, dbVars, callVars, networkVars, providerVars
<1>7. ASSUME NEW c \in Calls, Check(c) PROVE RowUntouched'
  BY <1>7 DEF Check, Goto, dbVars, processVars, callVars, networkVars, providerVars
<1>8. ASSUME NEW c \in Calls, Snapshot(c) PROVE RowUntouched'
  BY <1>8 DEF Snapshot, Goto, dbVars, processVars, callVars, networkVars, providerVars
<1>9. ASSUME NEW c \in Calls, Send(c) PROVE RowUntouched'
  BY <1>9 DEF Send, Goto, SetInterrupted, dbVars, callVars, providerVars
<1>10. ASSUME NEW c \in Calls, Accept(c) PROVE RowUntouched'
  BY <1>10 DEF Accept, Goto, Charge, Answer, dbVars, processVars, callVars
<1>11. ASSUME NEW c \in Calls, Refuse(c) PROVE RowUntouched'
  BY <1>11 DEF Refuse, Goto, Answer, dbVars, processVars, callVars, providerVars
<1>12. ASSUME NEW c \in Calls, Timeout(c) PROVE RowUntouched'
  BY <1>12 DEF Timeout, Goto, Abandon, dbVars, processVars, callVars, providerVars
<1>13. ASSUME NEW c \in Calls, Cancel(c) PROVE RowUntouched'
  BY <1>13 DEF Cancel, Goto, Awaiting, Abandon, dbVars, callVars, providerVars
<1>14. ASSUME NEW c \in Calls, RefreshToken(c) PROVE RowUntouched'
  BY <1>14 DEF RefreshToken, Goto, dbVars, processVars, providerVars
<1>15. ASSUME NEW c \in Calls, Unauthorized(c) PROVE RowUntouched'
  BY <1>15 DEF Unauthorized, Goto, dbVars, processVars, callVars, networkVars,
       providerVars
<1>16. ASSUME NEW c \in Calls, ReturnUnknown(c) PROVE RowUntouched'
  BY <1>16 DEF ReturnUnknown, Goto, SetInterrupted, Return, dbVars, callVars,
       networkVars, providerVars
<1>17. ASSUME NEW c \in Calls, FailOperation(c) PROVE RowUntouched'
  BY <1>17 DEF FailOperation, Goto, Definitive, FinishOperation, Final, WithoutGuard,
       Stored, SetInterrupted, Return, dbVars, callVars, networkVars, providerVars
<1>18. ASSUME NEW c \in Calls, CompleteOperation(c) PROVE RowUntouched'
  BY <1>18 DEF CompleteOperation, Goto, FinishOperation, Final, WithoutGuard,
       SetInterrupted, Return, callVars, networkVars, providerVars
<1>19. ASSUME NEW c \in Calls, CompleteError(c) PROVE RowUntouched'
  BY <1>19 DEF CompleteError, Goto, SetInterrupted, Return, dbVars, callVars,
       networkVars, providerVars
<1>20. ASSUME NEW c \in Calls, UpdateResult(c) PROVE RowUntouched'
  BY <1>20 DEF UpdateResult, Goto, WithoutGuard, Return, callVars, networkVars,
       providerVars
<1>21. ASSUME NEW o \in Ops, ServeLate(o) PROVE RowUntouched'
  BY <1>21 DEF ServeLate, Goto, Charge, dbVars, processVars, callVars, providerVars
<1>22. ASSUME NEW p \in Processes, Restart(p) PROVE RowUntouched'
  BY <1>22 DEF Restart, Goto, Returned, Abandon, dbVars, callVars, providerVars
<1>23. QED BY <1>1, <1>2, <1>3, <1>4, <1>5, <1>6, <1>7, <1>8, <1>9, <1>10, <1>11, <1>12,
       <1>13, <1>14, <1>15, <1>16, <1>17, <1>18, <1>19, <1>20, <1>21, <1>22 DEF Next,
       Step

-----------------------------------------------------------------------------
(* The invariant holds at the start: the guard belongs to an operation     *)
(* older than the table, or to nobody.                                     *)
LEMMA InitInv == Init => Inv
  BY CreditAssumption
     DEF Init, Inv, TypeOK, OpsKnown, PostedWaits, GuardMatchesPending, Recorded,
         OneCall, CallIsPending, CallUntouched, RowUntouched, FirstTry, WorksOn,
         Working, Untouched, Returned, Holding

(* Every step keeps the invariant.                                         *)
LEMMA StepInv == Inv /\ [Next]_vars => Inv'
  BY TypeStep, OpsKnownStep, PostedStep, GuardStep, RecordedStep, OneCallStep,
     CallIsPendingStep, CallUntouchedStep, RowUntouchedStep DEF Inv

(* The invariant holds in every reachable state.                           *)
LEMMA InvAlways == Spec => []Inv
  BY InitInv, StepInv, PTL DEF Spec

(* For any number of processes, calls and operations the state of a        *)
(* redemption is well typed; credits are never charged below zero.         *)
THEOREM CreditTypeCorrect == Spec => []TypeOK
<1>1. Inv => TypeOK
  BY DEF Inv
<1> QED
  BY <1>1, InvAlways, PTL

(* The account guard is exactly that of its pending operation, whichever   *)
(* process claims, settles or dies (claim and finish transactions).        *)
THEOREM GuardIsExact == Spec => []GuardMatchesPending
<1>1. Inv => GuardMatchesPending
  BY DEF Inv
<1> QED
  BY <1>1, InvAlways, PTL

(* No answer given by consume_reset_credit_async is ever contradicted by   *)
(* the record, also when another process settles the same operation.       *)
THEOREM AnswersStayTrue == Spec => []AnswerMatchesRecord
<1>1. Inv => AnswerMatchesRecord
  <2> SUFFICES ASSUME Inv, NEW c \in Calls
               PROVE  /\ pc[c] = "consumed" => status[op[c]] = "completed" /\ op[c] \in redeemed
                      /\ pc[c] = "failed" => status[op[c]] = "failed"
    BY DEF AnswerMatchesRecord
  <2>1. ASSUME pc[c] = "consumed" PROVE status[op[c]] = "completed" /\ op[c] \in redeemed
    <3>1. op[c] \in Ops
      BY <2>1 DEF Inv, OpsKnown
    <3> QED
      BY <2>1, <3>1 DEF Inv, Recorded
  <2>2. pc[c] = "failed" => status[op[c]] = "failed"
    BY DEF Inv, Recorded
  <2> QED
    BY <2>1, <2>2
<1> QED
  BY <1>1, InvAlways, PTL

(* An operation given up at its first attempt has redeemed no credit and   *)
(* never will: fail_operation is reached only after a definitive answer.   *)
THEOREM FirstFailureRedeemsNothing == Spec => []FirstFailureIsFinal
<1>1. Inv => FirstFailureIsFinal
  <2> SUFFICES ASSUME Inv, NEW o \in FirstTry, status[o] = "failed"
               PROVE  ~MayBeRedeemed(o)
    BY DEF FirstFailureIsFinal, FirstTry
  <2>1. Untouched(o)
    BY DEF Inv, RowUntouched
  <2>2. ASSUME NEW c \in posted PROVE op[c] # o
    <3>1. c \in Calls /\ pc[c] = "waiting"
      BY DEF Inv, TypeOK, PostedWaits
    <3>2. op[c] = o => status[o] = "pending"
      BY <3>1 DEF Inv, CallIsPending, WorksOn, Working
    <3> QED
      BY <3>2
  <2> QED
    BY <2>1, <2>2 DEF MayBeRedeemed, Untouched
<1> QED
  BY <1>1, InvAlways, PTL
=============================================================================
