-------------------------------- MODULE Carrier --------------------------------
(***************************************************************************)
(* The ShipStation client: what the back office asks of the carrier, the   *)
(* limiter every request waits at, and the retry after a 429.              *)
(*                                                                         *)
(* The limiter is a token bucket shared by all calls of the process, with  *)
(* a gate that a Retry-After closes.  A caller that finds no token sleeps  *)
(* and looks again, in no order among callers.  A tick is the time that    *)
(* one token takes, and times are ticks still to go.                       *)
(*                                                                         *)
(* The carrier answers, refuses, is busy (429), or is not heard of again,  *)
(* and then may have done what it was asked.                               *)
(*                                                                         *)
(* Bounds: each of Calls is one call, and the waits are Waits.             *)
(***************************************************************************)
EXTENDS Integers, FiniteSets

CONSTANTS
    Calls,
    Kinds,         \* what the calls may be, of those below
    Capacity,      \* tokens of the bucket, the requests of a minute
    MaxRetries,    \* further attempts after a 429
    Waits,         \* what a Retry-After may say
    MaxWait,       \* the longest it is followed
    CarriersTtl,   \* how long the list of carriers is kept
    EstimatesTtl   \* how long an estimate is kept

ASSUME CarrierAssumption ==
    /\ Capacity \in Nat \ {0} /\ MaxRetries \in Nat
    /\ CarriersTtl \in Nat /\ EstimatesTtl \in Nat
    /\ Waits \subseteq Nat /\ MaxWait \in Nat
    /\ Kinds \subseteq {"rates", "balance", "estimate", "label", "void", "reconcile", "pdf", "webhook"}

VARIABLES
    credit,      \* tokens in the bucket
    blocked,     \* until the bucket gives tokens again
    gate,        \* until the gate opens
    carriers,    \* the cached list: [list, left], list in {"none", "some", "empty"}
    estimates,   \* how long yet the estimate is kept that the calls ask for
    call,        \* each call: [kind, request, stage, wait, attempt, result]
    made,        \* labels the carrier has made for a call
    load         \* history: requests sent, less one for every tick since

limiterVars == <<credit, blocked, gate>>
cacheVars == <<carriers, estimates>>
carrierVars == <<credit, blocked, gate, carriers, estimates, call, made, load>>

(***************************************************************************)
(* Requests.                                                               *)
(***************************************************************************)
Least(a, b) == IF a <= b THEN a ELSE b

Sooner(n) == IF n = 0 THEN 0 ELSE n - 1

Retried == {"rates", "estimate", "label", "void"}

\* requestJson's callers; the others do not look for a 429.
ThroughRequestJson == Retried \cup {"carriers", "reconcile"}

RefusedByCarrier == {"rejected", "insufficient_funds"}

\* What a call gives its caller for a failure: a balance is left out, a
\* reconciliation finds nothing, and a void that is refused is an answer.
ResultOf(kind, reason) ==
    CASE kind \in {"balance", "reconcile"} -> "nothing"
      [] kind = "void" /\ reason \in RefusedByCarrier -> "refused"
      [] kind \in {"estimate", "pdf", "webhook"} /\ reason \in RefusedByCarrier -> "http_error"
      [] kind = "label" /\ reason = "timeout" -> "timeout_unconfirmed"
      [] OTHER -> reason

Ended(c, result) ==
    [call[c] EXCEPT !.stage = "done", !.wait = 0, !.attempt = 0, !.result = result]

Fails(c, reason) == Ended(c, ResultOf(call[c].kind, reason))

Asking(c, request) ==
    [call[c] EXCEPT !.request = request, !.stage = "acquires", !.wait = 0, !.attempt = 0]

\* What follows the list of carriers, read or fetched.
Listed(c, kind, list) ==
    CASE kind = "balance"                  -> [Ended(c, "ok") EXCEPT !.kind = kind]
      [] kind = "rates" /\ list = "empty"  -> [Ended(c, "misconfigured") EXCEPT !.kind = kind]
      [] OTHER                             -> [Asking(c, "rates") EXCEPT !.kind = kind]

EstimateAsked(c) == [Asking(c, "estimate") EXCEPT !.kind = "estimate"]

(***************************************************************************)
(* What is read from an answer: entries that are not whole are left out,   *)
(* until there may be none.                                                *)
(***************************************************************************)
extractCarriers == {"some", "empty"}

\* One rate of each of the carrier's own services.
normalizeUspsRates == {"ok", "empty"}

\* A label without its number or its tracking number is none.
extractLabel == {"ok", "http_error"}

ReadAs(request) ==
    CASE request = "label" -> extractLabel
      [] request = "void"  -> {"ok", "refused"}
      [] OTHER             -> {"ok"}

(***************************************************************************)
(* A call.  A request for rates may name its carriers.                     *)
(***************************************************************************)
Begun(c, kind, named) ==
    IF kind = "estimate" /\ estimates > 0 THEN [Ended(c, "ok") EXCEPT !.kind = kind]
    ELSE IF kind = "estimate" THEN EstimateAsked(c)
    ELSE IF kind \notin {"rates", "balance"} THEN [Asking(c, kind) EXCEPT !.kind = kind]
    ELSE IF named THEN [Asking(c, "rates") EXCEPT !.kind = kind]
    ELSE IF carriers.left > 0 THEN Listed(c, kind, carriers.list)
    ELSE [Asking(c, "carriers") EXCEPT !.kind = kind]

Start(c) ==
    /\ call[c].stage = "idle"
    /\ \E kind \in Kinds, named \in BOOLEAN :
        /\ named => kind = "rates"
        /\ call' = [call EXCEPT ![c] = Begun(c, kind, named)]
    /\ UNCHANGED <<limiterVars, cacheVars, made, load>>

\* acquire: one turn of its loop, past the gate.
Acquire(c) ==
    /\ call[c].stage = "acquires" /\ call[c].wait = 0 /\ gate = 0
    /\ IF blocked = 0 /\ credit > 0
       THEN /\ credit' = credit - 1 /\ load' = load + 1
            /\ call' = [call EXCEPT ![c].stage = "sent"]
       ELSE /\ call' = [call EXCEPT ![c].wait = IF blocked > 0 THEN blocked ELSE 1]
            /\ UNCHANGED <<credit, load>>
    /\ UNCHANGED <<blocked, gate, cacheVars, made>>

AtCarrier(c) == call[c].stage = "sent"

MadeBy(c) == [made EXCEPT ![c] = IF call[c].request = "label" THEN @ + 1 ELSE @]

Succeed(c) ==
    /\ AtCarrier(c)
    /\ call[c].request \notin {"carriers", "estimate"}
    /\ \E result \in ReadAs(call[c].request) : call' = [call EXCEPT ![c] = Ended(c, result)]
    /\ made' = MadeBy(c)
    /\ UNCHANGED <<limiterVars, cacheVars, load>>

ListCarriers(c) ==
    /\ AtCarrier(c) /\ call[c].request = "carriers"
    /\ \E list \in extractCarriers :
        /\ carriers' = [list |-> list, left |-> CarriersTtl]
        /\ call' = [call EXCEPT ![c] = Listed(c, call[c].kind, list)]
    /\ UNCHANGED <<limiterVars, estimates, made, load>>

\* An estimate without a rate is a failure, and is not kept.
Estimate(c) ==
    /\ AtCarrier(c) /\ call[c].request = "estimate"
    /\ \E result \in normalizeUspsRates :
        /\ call' = [call EXCEPT ![c] = Ended(c, result)]
        /\ estimates' = IF result = "ok" THEN EstimatesTtl ELSE estimates
    /\ UNCHANGED <<limiterVars, carriers, made, load>>

\* An answer without a Retry-After is as good as one of five seconds.
parseRetryAfter(header) == Least(header, MaxWait)

\* blockFor.
Block(ms) ==
    /\ credit' = 0
    /\ blocked' = ms
    /\ gate' = IF gate = 0 THEN ms ELSE gate

TriedAgainWhateverTheAttempt(c) ==
    IF call[c].request \in Retried THEN [call[c] EXCEPT !.stage = "acquires"]
    ELSE Fails(c, "rate_limit_exhausted")

TriedAgain(c) ==
    IF call[c].request \in Retried /\ call[c].attempt < MaxRetries
    THEN [call[c] EXCEPT !.stage = "acquires", !.attempt = @ + 1]
    ELSE Fails(c, "rate_limit_exhausted")

Busy(c) ==
    /\ AtCarrier(c)
    /\ IF call[c].request \in ThroughRequestJson
       THEN /\ \E header \in Waits : Block(parseRetryAfter(header))
            /\ call' = [call EXCEPT ![c] = TriedAgain(c)]
       ELSE /\ call' = [call EXCEPT ![c] = Fails(c, "http_error")]
            /\ UNCHANGED limiterVars
    /\ UNCHANGED <<cacheVars, made, load>>

\* A 4xx: the carrier has done nothing.
Reject(c) ==
    /\ AtCarrier(c)
    /\ \E reason \in RefusedByCarrier : call' = [call EXCEPT ![c] = Fails(c, reason)]
    /\ UNCHANGED <<limiterVars, cacheVars, made, load>>

LoseTriedAgain(c) ==
    /\ AtCarrier(c)
    /\ made' \in {made, MadeBy(c)}
    /\ call' = [call EXCEPT ![c] = TriedAgain(c)]
    /\ UNCHANGED <<limiterVars, cacheVars, load>>

\* A timeout, a broken connection, a 5xx, or an answer that is no JSON.
Lose(c) ==
    /\ AtCarrier(c)
    /\ made' \in {made, MadeBy(c)}
    /\ \E reason \in {"timeout", "http_error"} :
        call' = [call EXCEPT ![c] = Fails(c, reason)]
    /\ UNCHANGED <<limiterVars, cacheVars, load>>

(***************************************************************************)
(* Time.                                                                   *)
(***************************************************************************)
RefilledPastCapacity == credit + 1

Refilled == Least(Capacity, credit + 1)

CarrierTick ==
    /\ \E c \in Calls : call[c].stage # "done"
    /\ credit' = Refilled
    /\ blocked' = Sooner(blocked)
    /\ gate' = Sooner(gate)
    /\ carriers' = IF carriers.left <= 1 THEN [list |-> "none", left |-> 0]
                   ELSE [carriers EXCEPT !.left = @ - 1]
    /\ estimates' = Sooner(estimates)
    /\ call' = [c \in Calls |-> [call[c] EXCEPT !.wait = Sooner(@)]]
    /\ load' = Sooner(load)
    /\ UNCHANGED made

(***************************************************************************)
(* The specification.                                                      *)
(***************************************************************************)
NoCall == [kind |-> "none", request |-> "none", stage |-> "idle", wait |-> 0, attempt |-> 0,
           result |-> "none"]

Answered(c) ==
    \/ Succeed(c) \/ ListCarriers(c) \/ Estimate(c)
    \/ Busy(c) \/ Reject(c) \/ Lose(c)

CarrierInit ==
    /\ credit = Capacity /\ blocked = 0 /\ gate = 0
    /\ carriers = [list |-> "none", left |-> 0] /\ estimates = 0
    /\ call = [c \in Calls |-> NoCall]
    /\ made = [c \in Calls |-> 0]
    /\ load = 0

CarrierNext ==
    \/ \E c \in Calls :
        \/ Start(c) \/ Acquire(c)
        \/ Answered(c)
    \/ CarrierTick

CarrierSpec == CarrierInit /\ [][CarrierNext]_carrierVars

\* Timers fire, callers wake, and every request has a timeout.
CarrierFairness ==
    /\ WF_carrierVars(CarrierTick)
    /\ \A c \in Calls : WF_carrierVars(Acquire(c)) /\ WF_carrierVars(Answered(c))

CarrierFairSpec == CarrierSpec /\ CarrierFairness

(***************************************************************************)
(* Properties.                                                             *)
(***************************************************************************)
\* In any stretch of time the client sends at most the bucket's capacity and
\* one request a tick: load exceeds Capacity as soon as some stretch has more.
\* The waiters that wake together after a Retry-After, and the tokens that come
\* while the gate is closed, do not make a burst (limiter.ts, lib.ts takeToken).
SendsWithinRate == load <= Capacity

\* One call buys one label at most, and none when it says that the carrier
\* refused it or was too busy: a request is sent again after a 429 only, which
\* is refused before a label is made (service.test.ts, "never retries a
\* timeout, because a retry could buy a second label").
BuysOnce ==
    \A c \in Calls :
        /\ made[c] <= 1
        /\ call[c].result \in RefusedByCarrier \cup {"rate_limit_exhausted"} => made[c] = 0

\* A call that has begun ends, whatever the carrier answers and however often
\* it is busy: the attempts are bounded, and no caller waits at the gate or for
\* a token for ever while the others come and go.
CallsEnd == \A c \in Calls : call[c].stage # "idle" ~> call[c].stage = "done"

================================================================================
