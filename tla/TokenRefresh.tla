---- MODULE TokenRefresh ----
(***************************************************************************)
(* Refreshing the OAuth credentials of accounts: usage_token_refresh.rs    *)
(* with compare_and_swap_token of tokens.rs. A refresh grant is spent by   *)
(* its first use and replaced by the answer, so the answer belongs to a    *)
(* task (a "completion") that the shutdown waits for and that nobody       *)
(* cancels. There is one completion per account (its lock) and at most     *)
(* Slots of them.                                                          *)
(*                                                                         *)
(* The gateway redeems the same grants (token_exchange.rs) when it cannot  *)
(* exchange an id_token for an API key: under a lock of its own, without   *)
(* slot or registration, and in the future of a request that is dropped    *)
(* with its client.                                                        *)
(*                                                                         *)
(* Credentials are numbered in the order they are issued to an account;    *)
(* `access` stands for access_token, id_token and last_refresh together.   *)
(***************************************************************************)
EXTENDS Integers, FiniteSets

CONSTANTS Accounts,     \* account ids
          Callers,      \* calls of refresh_and_persist_access_token_async
          Slots,        \* REFRESH_COMPLETION_SLOTS
          MaxWork,      \* bound: calls, imports, deletions, key drops and exchanges
          AnswersLost,  \* may an answer be lost after the grant was redeemed?
          MaxIssued     \* bound on the credentials issued to each account

ASSUME SlotsAssumption == Slots \in Nat \ {0}
ASSUME CallersAssumption == IsFiniteSet(Callers)
ASSUME AccountsAssumption == IsFiniteSet(Accounts)
ASSUME BoundsAssumption ==
  /\ MaxIssued \in [Accounts -> Nat]
  /\ MaxWork \in Nat
  /\ AnswersLost \in BOOLEAN

NoRow == [access |-> 0, grant |-> 0, key |-> 0]
Credentials(r) == [access |-> r.access, grant |-> r.grant]
NoToken == Credentials(NoRow)
NoCaller == "nobody"
ASSUME NoCallerAssumption == NoCaller \notin Callers
Rows == [access : Nat, grant : Nat, key : Nat]
Tokens == [access : Nat, grant : Nat]

(* API keys are told apart too: none, the one a completion or a login got  *)
(* with the credentials, and those of the gateway's exchanges.             *)
NoKey == 0
OwnKey == 1
ExchangedKey(n) == n + 1

Causes == {"answer", "key", "gateway"}
Losses == [grant : Nat, by : Causes]

VARIABLES
  row,        \* the tokens row of each account, NoRow when there is none
  locked,     \* TOKEN_REFRESH_LOCKS
  permits,    \* free REFRESH_COMPLETION_SLOTS
  active,     \* ACTIVE_REFRESH_COMPLETIONS
  registry,   \* who holds REFRESH_COMPLETION_REGISTRATION
  stopping,   \* SHUTDOWN_REQUESTED
  drain,      \* drain_token_refresh_tasks: "off", "armed", "waiting", "done"
  changed,    \* what its Notified future has received
  pc,         \* where each call stands
  acct,       \* the account of each call
  token,      \* the token each call was made with, until its completion has it
  at,         \* where the completion of each account stands, "none" without one
  input,      \* the token the completion was given, until it has read the row
  base,       \* the row it has read, `expected`, until it has stored the answer
  next,       \* the token it is about to store, or `granted` in the exchange
  resent,     \* the request has been sent a second time
  seen,       \* the rows there have been: gateway requests may still have them
  gateway,    \* where the one with the exchange lock stands, "none" without one
  held,       \* its token
  answer,     \* the token it is about to store
  work,       \* how many of what MaxWork bounds have begun
  live,       \* provider: grants it would still redeem
  spent,      \* provider: grants it has redeemed and rotated
  issued,     \* provider: number of the last credentials issued
  lost        \* history: the grants whose successor may have been lost, and why

callVars == <<pc, acct, token>>
taskLocals == <<input, base, next, resent>>
taskVars == <<at, taskLocals>>
countVars == <<locked, permits, active>>
stopVars == <<registry, stopping, drain, changed>>
rowVars == <<row, seen>>
gatewayVars == <<gateway, held, answer>>
providerVars == <<live, spent, issued>>
vars == <<rowVars, countVars, stopVars, callVars, taskVars, gatewayVars, providerVars, work, lost>>

----------------------------------------------------------------------------
Init ==
  /\ row = [a \in Accounts |-> [access |-> 1, grant |-> 1, key |-> NoKey]]
  /\ seen = [a \in Accounts |-> {row[a]}]
  /\ locked = [a \in Accounts |-> FALSE]
  /\ permits = Slots
  /\ active = 0
  /\ registry = NoCaller
  /\ stopping = FALSE
  /\ drain = "off"
  /\ changed = FALSE
  /\ pc = [c \in Callers |-> "idle"]
  /\ acct \in [Callers -> Accounts]
  /\ token = [c \in Callers |-> NoToken]
  /\ at = [a \in Accounts |-> "none"]
  /\ input = [a \in Accounts |-> NoToken]
  /\ base = [a \in Accounts |-> NoRow]
  /\ next = [a \in Accounts |-> NoRow]
  /\ resent = [a \in Accounts |-> FALSE]
  /\ gateway = [a \in Accounts |-> "none"]
  /\ held = [a \in Accounts |-> NoRow]
  /\ answer = [a \in Accounts |-> NoRow]
  /\ live = [a \in Accounts |-> {1}]
  /\ spent = [a \in Accounts |-> {}]
  /\ issued = [a \in Accounts |-> 1]
  /\ work = 0
  /\ lost = [a \in Accounts |-> {}]

----------------------------------------------------------------------------
Begins == work < MaxWork /\ work' = work + 1

(* A row is written.                                                       *)
Store(a, r) ==
  /\ row' = [row EXCEPT ![a] = r]
  /\ seen' = [seen EXCEPT ![a] = @ \union {r}]

(* The call. Waiting for the lock, for a slot and for the completion can   *)
(* be cancelled; what is between has no await.                             *)

Call(c) ==
  /\ Begins /\ pc[c] = "idle" /\ ~stopping
  /\ row[acct[c]] # NoRow
  /\ pc' = [pc EXCEPT ![c] = "lock"]
  /\ token' = [token EXCEPT ![c] = Credentials(row[acct[c]])]
  /\ UNCHANGED <<rowVars, countVars, stopVars, acct, taskVars, gatewayVars, providerVars, lost>>

AcquireLock(c) ==
  /\ pc[c] = "lock" /\ ~locked[acct[c]]
  /\ locked' = [locked EXCEPT ![acct[c]] = TRUE]
  /\ pc' = [pc EXCEPT ![c] = "slot"]
  /\ UNCHANGED <<rowVars, permits, active, stopVars, acct, token, taskVars, gatewayVars,
                 providerVars, work, lost>>

AcquireSlot(c) ==
  /\ pc[c] = "slot" /\ permits > 0
  /\ permits' = permits - 1
  /\ pc' = [pc EXCEPT ![c] = "register"]
  /\ UNCHANGED <<rowVars, locked, active, stopVars, acct, token, taskVars, gatewayVars,
                 providerVars, work, lost>>

(* The registration mutex is taken, then the flag is read under it.        *)
EnterRegistry(c) ==
  /\ pc[c] = "register" /\ registry = NoCaller /\ ~stopping
  /\ registry' = c
  /\ pc' = [pc EXCEPT ![c] = "count"]
  /\ UNCHANGED <<rowVars, countVars, stopping, drain, changed, acct, token, taskVars,
                 gatewayVars, providerVars, work, lost>>

(* Seeded fault: a refused call keeps its permit.                          *)
RefuseKeepsPermit(c) ==
  /\ pc[c] = "register" /\ stopping
  /\ pc' = [pc EXCEPT ![c] = "idle"]
  /\ token' = [token EXCEPT ![c] = NoToken]
  /\ locked' = [locked EXCEPT ![acct[c]] = FALSE]
  /\ UNCHANGED <<rowVars, permits, active, stopVars, acct, taskVars, gatewayVars, providerVars, work, lost>>

RefuseAtShutdown(c) ==
  /\ pc[c] = "register" /\ stopping
  /\ pc' = [pc EXCEPT ![c] = "idle"]
  /\ token' = [token EXCEPT ![c] = NoToken]
  /\ locked' = [locked EXCEPT ![acct[c]] = FALSE]
  /\ permits' = permits + 1
  /\ UNCHANGED <<rowVars, active, stopVars, acct, taskVars, gatewayVars, providerVars, work, lost>>

Spawn(c) ==
  LET a == acct[c] IN
  /\ pc[c] = "count"
  /\ active' = active + 1
  /\ registry' = NoCaller
  /\ pc' = [pc EXCEPT ![c] = "wait"]
  /\ at' = [at EXCEPT ![a] = "read"]
  /\ input' = [input EXCEPT ![a] = token[c]]
  /\ token' = [token EXCEPT ![c] = NoToken]
  /\ UNCHANGED <<rowVars, locked, permits, stopping, drain, changed, acct, base, next,
                  resent, gatewayVars, providerVars, work, lost>>

(* Seeded fault: a call cancelled while it waits for a slot returns one.   *)
CancelReturnsPermit(c) ==
  /\ pc[c] \in {"lock", "slot", "wait"}
  /\ pc' = [pc EXCEPT ![c] = "idle"]
  /\ token' = [token EXCEPT ![c] = NoToken]
  /\ locked' = IF pc[c] = "slot" THEN [locked EXCEPT ![acct[c]] = FALSE] ELSE locked
  /\ permits' = IF pc[c] = "slot" THEN permits + 1 ELSE permits
  /\ UNCHANGED <<rowVars, active, stopVars, acct, taskVars, gatewayVars, providerVars, work, lost>>

(* Seeded fault: the completion is part of the call and cancelled with it. *)
CancelAborts(c) ==
  LET a == acct[c] IN
  /\ pc[c] = "wait"
  /\ pc' = [pc EXCEPT ![c] = "idle"]
  /\ at' = [at EXCEPT ![a] = "none"]
  /\ base' = [base EXCEPT ![a] = NoRow]
  /\ next' = [next EXCEPT ![a] = NoRow]
  /\ locked' = [locked EXCEPT ![a] = FALSE]
  /\ permits' = permits + 1
  /\ active' = active - 1
  /\ UNCHANGED <<rowVars, stopVars, acct, token, input, resent, gatewayVars, providerVars, work, lost>>

(* Seeded fault: a call cancelled while it waits for a slot keeps the lock. *)
CancelKeepsLock(c) ==
  /\ pc[c] \in {"lock", "slot", "wait"}
  /\ pc' = [pc EXCEPT ![c] = "idle"]
  /\ token' = [token EXCEPT ![c] = NoToken]
  /\ UNCHANGED <<rowVars, countVars, stopVars, acct, taskVars, gatewayVars, providerVars, work, lost>>

Cancel(c) ==
  /\ pc[c] \in {"lock", "slot", "wait"}
  /\ pc' = [pc EXCEPT ![c] = "idle"]
  /\ token' = [token EXCEPT ![c] = NoToken]
  /\ locked' = IF pc[c] = "slot" THEN [locked EXCEPT ![acct[c]] = FALSE] ELSE locked
  /\ UNCHANGED <<rowVars, permits, active, stopVars, acct, taskVars, gatewayVars,
                 providerVars, work, lost>>

----------------------------------------------------------------------------
(* The completion of an account.                                           *)

Goto(a, where) == at' = [at EXCEPT ![a] = where]

(* Seeded fault: nobody tells the drain.                                   *)
FinishSilently(a) ==
  /\ Goto(a, "none")
  /\ input' = [input EXCEPT ![a] = NoToken]
  /\ base' = [base EXCEPT ![a] = NoRow]
  /\ next' = [next EXCEPT ![a] = NoRow]
  /\ resent' = [resent EXCEPT ![a] = FALSE]
  /\ locked' = [locked EXCEPT ![a] = FALSE]
  /\ permits' = permits + 1
  /\ active' = active - 1
  /\ pc' = [c \in Callers |-> IF pc[c] = "wait" /\ acct[c] = a THEN "idle" ELSE pc[c]]
  /\ UNCHANGED <<stopVars, acct, token>>

(* The completion ends: its three guards are dropped, the drain is told,   *)
(* and the call that still waits gets its answer. Its locals are gone.     *)
Finish(a) ==
  /\ Goto(a, "none")
  /\ input' = [input EXCEPT ![a] = NoToken]
  /\ base' = [base EXCEPT ![a] = NoRow]
  /\ next' = [next EXCEPT ![a] = NoRow]
  /\ resent' = [resent EXCEPT ![a] = FALSE]
  /\ locked' = [locked EXCEPT ![a] = FALSE]
  /\ permits' = permits + 1
  /\ active' = active - 1
  /\ changed' = (changed \/ drain \in {"armed", "waiting"})
  /\ pc' = [c \in Callers |-> IF pc[c] = "wait" /\ acct[c] = a THEN "idle" ELSE pc[c]]
  /\ UNCHANGED <<registry, stopping, drain, acct, token>>

(* Seeded fault: the completion goes on with the token it was given.       *)
ReadLatestTrusting(a) ==
  /\ at[a] = "read" /\ row[a] # NoRow
  /\ base' = [base EXCEPT ![a] = [access |-> input[a].access, grant |-> input[a].grant,
                                  key |-> row[a].key]]
  /\ input' = [input EXCEPT ![a] = NoToken]
  /\ Goto(a, "send")
  /\ UNCHANGED <<rowVars, countVars, stopVars, callVars, next, resent, gatewayVars,
                 providerVars, work, lost>>

(* A completion that waited while another one refreshed, or whose row is   *)
(* gone, ends without a request.                                           *)
ReadLatest(a) ==
  /\ at[a] = "read"
  /\ \/ /\ row[a] # NoRow /\ Credentials(row[a]) = input[a]
        /\ base' = [base EXCEPT ![a] = row[a]]
        /\ input' = [input EXCEPT ![a] = NoToken]
        /\ Goto(a, "send")
        /\ UNCHANGED <<countVars, stopVars, callVars, next, resent>>
     \/ /\ row[a] = NoRow \/ Credentials(row[a]) # input[a]
        /\ Finish(a)
  /\ UNCHANGED <<rowVars, gatewayVars, providerVars, work, lost>>

(* The provider redeems a grant. It may or may not rotate it.              *)
ProviderRedeems(a, g, rotate) ==
  LET n == issued[a] + 1 IN
  /\ g \in live[a] /\ n <= MaxIssued[a]
  /\ issued' = [issued EXCEPT ![a] = n]
  /\ live' = IF rotate THEN [live EXCEPT ![a] = (@ \ {g}) \union {n}] ELSE live
  /\ spent' = IF rotate THEN [spent EXCEPT ![a] = @ \union {g}] ELSE spent

(* What its answer makes of a token.                                       *)
Answered(a, t, rotate) ==
  [access |-> issued[a] + 1, grant |-> IF rotate THEN issued[a] + 1 ELSE t.grant, key |-> t.key]

Redeem(a) ==
  /\ at[a] = "send"
  /\ \E rotate \in BOOLEAN :
       /\ ProviderRedeems(a, base[a].grant, rotate)
       /\ next' = [next EXCEPT ![a] = Answered(a, base[a], rotate)]
  /\ Goto(a, "persist")
  /\ UNCHANGED <<rowVars, countVars, stopVars, callVars, input, base, resent, gatewayVars,
                 work, lost>>

(* The provider refuses the grant. recover_refresh_race_from_latest_token  *)
(* then looks for newer credentials in the row; with or without them the   *)
(* completion ends and the row stays.                                      *)
Reject(a) ==
  /\ at[a] = "send" /\ base[a].grant \notin live[a]
  /\ Finish(a)
  /\ UNCHANGED <<rowVars, gatewayVars, providerVars, work, lost>>

Losing(a, g, by) == [lost EXCEPT ![a] = @ \union {[grant |-> g, by |-> by]}]

(* The request or its answer is lost. A failed send is repeated once with  *)
(* a new client, although the provider may have redeemed the grant; a      *)
(* failed read of the answer is final, and so is a failing update of the   *)
(* row, which ends the completion with the answer in its hands.            *)
LoseAnswer(a) ==
  /\ at[a] = "send" \/ (at[a] = "persist" /\ AnswersLost)
  /\ lost' = IF at[a] = "persist" THEN Losing(a, base[a].grant, "answer") ELSE lost
  /\ \/ /\ ~resent[a]
        /\ resent' = [resent EXCEPT ![a] = TRUE]
        /\ next' = [next EXCEPT ![a] = NoRow]
        /\ Goto(a, "send")
        /\ UNCHANGED <<countVars, stopVars, callVars, input, base>>
     \/ Finish(a)
  /\ UNCHANGED <<rowVars, gatewayVars, providerVars, work>>

(* Seeded fault: the update only asks for a row.                           *)
AnyRow(a, expected) == row[a] # NoRow

(* compare_and_swap_token: every field of the row must be the expected     *)
(* one. When it is not, the caller gets the row as it is now.              *)
CurrentRow(a, expected) == row[a] = expected

Persist(a) ==
  /\ at[a] = "persist"
  /\ IF CurrentRow(a, base[a])
     THEN /\ Store(a, next[a])
          /\ \/ Goto(a, "exchange")   \* the answer brought an id_token
                /\ base' = [base EXCEPT ![a] = NoRow]
                /\ resent' = [resent EXCEPT ![a] = FALSE]
                /\ UNCHANGED <<countVars, stopVars, callVars, input, next>>
             \/ Finish(a)
     ELSE Finish(a) /\ UNCHANGED rowVars
  /\ UNCHANGED <<gatewayVars, providerVars, work, lost>>

(* The optional API key exchange, and its own compare-and-swap.            *)
Exchange(a) ==
  /\ at[a] = "exchange"
  /\ \/ Goto(a, "storeKey") /\ UNCHANGED <<countVars, stopVars, callVars, taskLocals>>
     \/ Finish(a)
  /\ UNCHANGED <<rowVars, gatewayVars, providerVars, work, lost>>

StoreKey(a) ==
  /\ at[a] = "storeKey"
  /\ IF CurrentRow(a, next[a])
     THEN Store(a, [next[a] EXCEPT !.key = OwnKey]) /\ Finish(a)
     ELSE Finish(a) /\ UNCHANGED rowVars
  /\ UNCHANGED <<gatewayVars, providerVars, work, lost>>

----------------------------------------------------------------------------
(* Others who write the row.                                               *)

(* An account is imported or logged in again: insert_token. The client it  *)
(* comes from may have spent the grant stored before; a login may bring an *)
(* API key.                                                                *)
Import(a) ==
  LET n == issued[a] + 1 IN
  /\ Begins /\ n <= MaxIssued[a]
  /\ issued' = [issued EXCEPT ![a] = n]
  /\ \E k \in {NoKey, OwnKey} :
       Store(a, [access |-> n, grant |-> n, key |-> k])
  /\ \/ live' = [live EXCEPT ![a] = @ \union {n}]
     \/ live' = [live EXCEPT ![a] = (@ \ {row[a].grant}) \union {n}]
  /\ UNCHANGED <<countVars, stopVars, callVars, taskVars, gatewayVars, spent, lost>>

Delete(a) ==
  /\ Begins /\ row[a] # NoRow
  /\ row' = [row EXCEPT ![a] = NoRow]
  /\ UNCHANGED <<seen, countVars, stopVars, callVars, taskVars, gatewayVars, providerVars, lost>>

(* A write of the row that a completion expects to find unchanged.         *)
Overtaking(a, by) ==
  IF at[a] \in {"send", "persist"} THEN Losing(a, base[a].grant, by) ELSE lost

(* The websocket drops the API key of the token it has just refreshed: a   *)
(* compare-and-swap, which only counts when it succeeds.                   *)
DropKey(a) ==
  /\ Begins /\ row[a].key # NoKey
  /\ Store(a, [row[a] EXCEPT !.key = NoKey])
  /\ lost' = Overtaking(a, "key")
  /\ UNCHANGED <<countVars, stopVars, callVars, taskVars, gatewayVars, providerVars>>

----------------------------------------------------------------------------
(* resolve_openai_bearer_token of the gateway. A request has read its      *)
(* token some time before it gets the exchange lock of the account.        *)

GatewayAt(a, where) == gateway' = [gateway EXCEPT ![a] = where]

LeaveExchange(a) ==
  /\ GatewayAt(a, "none")
  /\ held' = [held EXCEPT ![a] = NoRow]
  /\ answer' = [answer EXCEPT ![a] = NoRow]

(* The lock is free; neither the token nor the row has a key that is still *)
(* usable (one that is set may have expired). The token is not read again, *)
(* so that it may be that of any row there has been.                       *)
EnterExchange(a) ==
  /\ gateway[a] = "none" /\ Begins
  /\ \E t \in seen[a] : held' = [held EXCEPT ![a] = t]
  /\ GatewayAt(a, "key")
  /\ UNCHANGED <<rowVars, answer, countVars, stopVars, callVars, taskVars, providerVars, lost>>

(* exchange_and_persist_api_key_access_token got a key. When the row has   *)
(* changed, it is taken over, unless it is gone; with no usable key in it  *)
(* the first exchange of the two goes on to the refresh grant.             *)
ObtainKey(a) ==
  /\ gateway[a] \in {"key", "rekey"}
  /\ \/ /\ CurrentRow(a, held[a])
        /\ Store(a, [held[a] EXCEPT !.key = ExchangedKey(work)])
        /\ lost' = Overtaking(a, "key")
        /\ LeaveExchange(a)
     \/ /\ ~CurrentRow(a, held[a]) /\ gateway[a] = "key"
        /\ GatewayAt(a, "send")
        /\ held' = IF row[a] = NoRow THEN held ELSE [held EXCEPT ![a] = row[a]]
        /\ UNCHANGED <<rowVars, answer, lost>>
  /\ UNCHANGED <<work, countVars, stopVars, callVars, taskVars, providerVars>>

(* The first exchange failed: the refresh grant is sent.                   *)
FailKey(a) ==
  /\ gateway[a] = "key"
  /\ GatewayAt(a, "send")
  /\ UNCHANGED <<rowVars, held, answer, countVars, stopVars, callVars, taskVars,
                 providerVars, work, lost>>

(* The provider redeems it. The answer arrives, or is lost: then the       *)
(* request has been sent for the last time, or is sent once more.          *)
GatewayRedeem(a) ==
  /\ gateway[a] \in {"send", "resend"}
  /\ \E rotate \in BOOLEAN :
       /\ ProviderRedeems(a, held[a].grant, rotate)
       /\ \/ /\ answer' = [answer EXCEPT ![a] = Answered(a, held[a], rotate)]
             /\ GatewayAt(a, "persist")
             /\ UNCHANGED <<held, lost>>
          \/ /\ AnswersLost
             /\ lost' = IF rotate THEN Losing(a, held[a].grant, "gateway") ELSE lost
             /\ IF gateway[a] = "send"
                THEN GatewayAt(a, "resend") /\ UNCHANGED <<held, answer>>
                ELSE LeaveExchange(a)
  /\ UNCHANGED <<rowVars, work, countVars, stopVars, callVars, taskVars>>

(* The gateway has in its hands the successor of a grant.                  *)
GatewayCarries(a, g) ==
  gateway[a] = "persist" /\ held[a].grant = g /\ answer[a].grant # g

Dropping(a) ==
  IF GatewayCarries(a, held[a].grant) THEN Losing(a, held[a].grant, "gateway") ELSE lost

(* persist_token_if_current and, if there still is a row, the second       *)
(* exchange. When the row has changed, the answer is dropped for it.       *)
StoreGrant(a) ==
  /\ gateway[a] = "persist"
  /\ IF CurrentRow(a, held[a])
     THEN /\ Store(a, answer[a])
          /\ lost' = Overtaking(a, "gateway")
     ELSE lost' = Dropping(a) /\ UNCHANGED rowVars
  /\ IF row[a] = NoRow
     THEN LeaveExchange(a)
     ELSE /\ GatewayAt(a, "rekey")
          /\ held' = [held EXCEPT ![a] = row'[a]]
          /\ answer' = [answer EXCEPT ![a] = NoRow]
  /\ UNCHANGED <<work, countVars, stopVars, callVars, taskVars, providerVars>>

(* The request ends: it is dropped with its client at one of its awaits,   *)
(* or has no more to try, or an update of the row fails.                   *)
GatewayEnds(a) ==
  /\ gateway[a] # "none"
  /\ lost' = Dropping(a)
  /\ LeaveExchange(a)
  /\ UNCHANGED <<rowVars, work, countVars, stopVars, callVars, taskVars, providerVars>>

----------------------------------------------------------------------------
(* Shutdown.                                                               *)

RequestShutdown ==
  /\ ~stopping
  /\ stopping' = TRUE
  /\ UNCHANGED <<rowVars, countVars, registry, drain, changed, callVars, taskVars,
                 gatewayVars, providerVars, work, lost>>

DrainArm ==
  /\ stopping /\ drain = "off"
  /\ drain' = "armed"
  /\ UNCHANGED <<rowVars, countVars, registry, stopping, changed, callVars, taskVars, gatewayVars,
                 providerVars, work, lost>>

(* Seeded fault: the count is read without the registration mutex.         *)
DrainCheckUnlocked ==
  /\ drain = "armed"
  /\ drain' = IF active = 0 THEN "done" ELSE "waiting"
  /\ UNCHANGED <<rowVars, countVars, registry, stopping, changed, callVars, taskVars,
                 gatewayVars, providerVars, work, lost>>

(* The count is read under the registration mutex.                         *)
DrainCheck ==
  /\ drain = "armed" /\ registry = NoCaller
  /\ drain' = IF active = 0 THEN "done" ELSE "waiting"
  /\ UNCHANGED <<rowVars, countVars, registry, stopping, changed, callVars, taskVars,
                 gatewayVars, providerVars, work, lost>>

DrainWake ==
  /\ drain = "waiting" /\ changed
  /\ drain' = "off"
  /\ changed' = FALSE
  /\ UNCHANGED <<rowVars, countVars, registry, stopping, callVars, taskVars,
                 gatewayVars, providerVars, work, lost>>

----------------------------------------------------------------------------
CallStep(c) ==
  \/ AcquireLock(c) \/ AcquireSlot(c) \/ EnterRegistry(c) \/ RefuseAtShutdown(c)
  \/ Spawn(c)

TaskStep(a) ==
  \/ ReadLatest(a) \/ Redeem(a) \/ Reject(a) \/ LoseAnswer(a)
  \/ Persist(a) \/ Exchange(a) \/ StoreKey(a)

GatewayStep(a) ==
  \/ EnterExchange(a) \/ ObtainKey(a) \/ FailKey(a)
  \/ GatewayRedeem(a) \/ StoreGrant(a) \/ GatewayEnds(a)

DrainStep == DrainArm \/ DrainCheck \/ DrainWake

Next ==
  \/ \E c \in Callers : Call(c) \/ CallStep(c) \/ Cancel(c)
  \/ \E a \in Accounts : TaskStep(a) \/ Import(a) \/ Delete(a) \/ DropKey(a) \/ GatewayStep(a)
  \/ RequestShutdown \/ DrainStep

Spec == Init /\ [][Next]_vars

(* The lock and the semaphore queue their waiters in order of arrival, so  *)
(* a waiter that may enter again and again does; a completion has timeouts *)
(* on each request and ends.                                               *)
Fairness ==
  /\ \A c \in Callers : SF_vars(CallStep(c))
  /\ \A a \in Accounts : WF_vars(TaskStep(a))
  /\ WF_vars(DrainStep)

FairSpec == Spec /\ Fairness

----------------------------------------------------------------------------
(* The variables keep the types of the code.                               *)
TypeOK ==
  /\ row \in [Accounts -> Rows]
  /\ locked \in [Accounts -> BOOLEAN]
  /\ permits \in 0..Slots
  /\ active \in Nat
  /\ registry \in Callers \union {NoCaller}
  /\ stopping \in BOOLEAN
  /\ drain \in {"off", "armed", "waiting", "done"}
  /\ changed \in BOOLEAN
  /\ pc \in [Callers -> {"idle", "lock", "slot", "register", "count", "wait"}]
  /\ acct \in [Callers -> Accounts]
  /\ token \in [Callers -> Tokens]
  /\ at \in [Accounts -> {"none", "read", "send", "persist", "exchange", "storeKey"}]
  /\ input \in [Accounts -> Tokens]
  /\ base \in [Accounts -> Rows]
  /\ next \in [Accounts -> Rows]
  /\ resent \in [Accounts -> BOOLEAN]
  /\ seen \in [Accounts -> SUBSET Rows]
  /\ gateway \in [Accounts -> {"none", "key", "send", "resend", "persist", "rekey"}]
  /\ held \in [Accounts -> Rows]
  /\ answer \in [Accounts -> Rows]
  /\ live \in [Accounts -> SUBSET Nat]
  /\ spent \in [Accounts -> SUBSET Nat]
  /\ issued \in [Accounts -> Nat]
  /\ work \in Nat
  /\ lost \in [Accounts -> SUBSET Losses]

Admitted == {c \in Callers : pc[c] \in {"register", "count"}}
Completing == {a \in Accounts : at[a] # "none"}
Owner(c, a) == pc[c] \in {"slot", "register", "count"} /\ acct[c] = a

(* Slots and the count of completions are exact whatever is cancelled and  *)
(* whenever the shutdown comes: each slot is free, or a call about to      *)
(* start its completion has it, or a completion.                           *)
SlotsExact ==
  /\ permits + Cardinality(Admitted) + Cardinality(Completing) = Slots
  /\ active = Cardinality(Completing)

(* The lock of an account passes from the call that took it to the         *)
(* completion it starts: it is held exactly as long as there is one of     *)
(* them, and there is only one.                                            *)
LockHasOneOwner ==
  \A a \in Accounts :
    /\ locked[a] <=> at[a] # "none" \/ \E c \in Callers : Owner(c, a)
    /\ \A c, d \in Callers :
         Owner(c, a) /\ Owner(d, a) => c = d /\ at[a] = "none"

(* A grant the provider no longer takes is in the row only while somebody  *)
(* carries its successor: the rotation of an admitted refresh is stored,   *)
(* though its caller is cancelled and the service shuts down. Exempt are   *)
(* the grants whose answer was lost on the way or in a failing update,     *)
(* those under which the row was overtaken, by an API key or by the        *)
(* gateway, between the request of the completion and its answer, and      *)
(* those the gateway redeemed itself and dropped.                          *)
Dead(a) == row[a] # NoRow /\ row[a].grant \notin live[a]
Carried(a) == at[a] = "persist" /\ base[a] = row[a] /\ next[a].grant # row[a].grant
Lost(a, g) == \E x \in lost[a] : x.grant = g

RotationStored ==
  \A a \in Accounts :
    Dead(a) => Carried(a) \/ GatewayCarries(a, row[a].grant) \/ Lost(a, row[a].grant)

(* The same without the exemption of an API key, which the code does not   *)
(* announce: tokens.rs says that a swap fails only after another rotation  *)
(* of the credentials, background.rs that a received rotated credential    *)
(* must be persisted.                                                      *)
RotationAlwaysStored ==
  \A a \in Accounts :
    Dead(a) => \/ Carried(a) \/ GatewayCarries(a, row[a].grant)
               \/ \E x \in lost[a] : x.grant = row[a].grant /\ x.by # "key"

(* A completion sends a spent grant only when its successor is out of      *)
(* reach: its answer was lost, or the gateway has it or had it. Calls that *)
(* queued up behind a refresh share its result.                            *)
NoGrantSentTwice ==
  \A a \in Accounts :
    at[a] = "send" /\ base[a].grant \in spent[a]
      => GatewayCarries(a, base[a].grant) \/ Lost(a, base[a].grant)

(* Stored credentials are never replaced by older ones, and only an import *)
(* puts credentials back into an account that was deleted.                 *)
NewerCredentialsStay ==
  [][\A a \in Accounts :
       row'[a] # NoRow =>
         /\ row'[a].access >= row[a].access
         /\ row[a] = NoRow => issued'[a] # issued[a] /\ row'[a].access = issued'[a]]_vars

(* When the drain is over no completion runs or can still start, so the    *)
(* process may end.                                                        *)
DrainedIsQuiet ==
  drain = "done" => Completing = {} /\ \A c \in Callers : pc[c] # "count"

(* The drain ends.                                                         *)
DrainEnds == stopping ~> drain = "done"

(* Every call returns.                                                     *)
EveryCallReturns == \A c \in Callers : pc[c] # "idle" ~> pc[c] = "idle"
====
