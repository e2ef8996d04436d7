----------------------------- MODULE CarrierProofs -----------------------------
(***************************************************************************)
(* What holds of Carrier for any calls, any capacity, any waits and any    *)
(* lifetimes of its caches: the rate of its requests, and that a call buys *)
(* one label at most.                                                      *)
(***************************************************************************)
EXTENDS Carrier, TLAPS

Stages    == {"idle", "acquires", "sent", "done"}
CallKinds == {"none", "rates", "balance", "estimate", "label", "void", "reconcile", "pdf", "webhook"}
Reasons   == {"timeout", "http_error", "rate_limit_exhausted"} \cup RefusedByCarrier
Results   == {"none", "ok", "nothing", "refused", "empty", "misconfigured",
              "timeout_unconfirmed"} \cup Reasons

CallRecords ==
    [kind : CallKinds, request : CallKinds \cup {"carriers"}, stage : Stages,
     wait : Nat, attempt : Nat, result : Results]

CarrierTypeOK ==
    /\ credit \in 0..Capacity /\ load \in Nat /\ blocked \in Nat
    /\ call \in [Calls -> CallRecords]
    /\ made \in [Calls -> Nat]

(***************************************************************************)
(* A request that is sent takes a token: those sent so far, less those the *)
(* time since has paid for, and the tokens that are left never make more   *)
(* than the bucket holds.                                                  *)
(***************************************************************************)
BucketCovers == load + credit <= Capacity

\* The carrier has made no label for a call that has not ended.
NothingMadeYet == \A c \in Calls : call[c].stage # "done" => made[c] = 0

CarrierInv == CarrierTypeOK /\ BucketCovers /\ NothingMadeYet /\ BuysOnce

(***************************************************************************)
(* What the helpers return.                                                *)
(***************************************************************************)
Refusals == RefusedByCarrier \cup {"rate_limit_exhausted"}

LEMMA ResultIsText ==
    ASSUME NEW kind, NEW reason \in Reasons
    PROVE  /\ ResultOf(kind, reason) \in Results
           /\ reason \in {"timeout", "http_error"} => ResultOf(kind, reason) \notin Refusals
  BY DEF ResultOf, Refusals, RefusedByCarrier, Reasons, Results

LEMMA EndedIsDone ==
    ASSUME CarrierTypeOK, NEW c \in Calls, NEW result \in Results
    PROVE  /\ Ended(c, result) \in CallRecords
           /\ Ended(c, result).stage = "done"
           /\ Ended(c, result).result = result
  BY DEF CarrierTypeOK, CallRecords, Stages, Ended

LEMMA FailureIsDone ==
    ASSUME CarrierTypeOK, NEW c \in Calls, NEW reason \in Reasons
    PROVE  /\ Fails(c, reason) \in CallRecords
           /\ Fails(c, reason).stage = "done"
           /\ reason \in {"timeout", "http_error"} => Fails(c, reason).result \notin Refusals
  <1> DEFINE result == ResultOf(call[c].kind, reason)
  <1>1. /\ result \in Results
        /\ reason \in {"timeout", "http_error"} => result \notin Refusals
    BY ResultIsText
  <1>2. Fails(c, reason) = Ended(c, result)
    BY DEF Fails
  <1> HIDE DEF result
  <1> QED
    BY <1>1, <1>2, EndedIsDone

LEMMA AskingIsCall ==
    ASSUME CarrierTypeOK, NEW c \in Calls, NEW request \in CallKinds \cup {"carriers"}
    PROVE  Asking(c, request) \in CallRecords /\ Asking(c, request).stage = "acquires"
  BY DEF CarrierTypeOK, CallRecords, Stages, Asking

LEMMA OfAnotherKind ==
    ASSUME NEW e \in CallRecords, NEW kind \in CallKinds
    PROVE  [e EXCEPT !.kind = kind] \in CallRecords
  BY DEF CallRecords

LEMMA ListedIsCall ==
    ASSUME CarrierTypeOK, NEW c \in Calls, NEW kind \in CallKinds, NEW list
    PROVE  Listed(c, kind, list) \in CallRecords
  <1>1. Ended(c, "ok") \in CallRecords /\ Ended(c, "misconfigured") \in CallRecords
    BY EndedIsDone DEF Results
  <1>2. Asking(c, "rates") \in CallRecords
    BY AskingIsCall DEF CallKinds
  <1> QED
    BY <1>1, <1>2, OfAnotherKind DEF Listed

LEMMA BegunIsCall ==
    ASSUME CarrierTypeOK, NEW c \in Calls, NEW kind \in CallKinds, NEW named \in BOOLEAN
    PROVE  Begun(c, kind, named) \in CallRecords
  <1>1. Ended(c, "ok") \in CallRecords
    BY EndedIsDone DEF Results
  <1>2. /\ Asking(c, "rates") \in CallRecords /\ Asking(c, "carriers") \in CallRecords
        /\ Asking(c, kind) \in CallRecords
    BY AskingIsCall DEF CallKinds
  <1>3. Listed(c, kind, carriers.list) \in CallRecords
    BY ListedIsCall
  <1>4. Asking(c, "estimate") \in CallRecords
    BY AskingIsCall DEF CallKinds
  <1>5. EstimateAsked(c) \in CallRecords
    BY <1>4, OfAnotherKind DEF EstimateAsked, CallKinds
  <1> QED
    BY <1>1, <1>2, <1>3, <1>5, OfAnotherKind DEF Begun

LEMMA AttemptIsCall ==
    ASSUME NEW e \in CallRecords
    PROVE  [e EXCEPT !.stage = "acquires", !.attempt = @ + 1] \in CallRecords
  <1>1. \A n \in Nat : [e EXCEPT !.stage = "acquires", !.attempt = n] \in CallRecords
    BY DEF CallRecords, Stages
  <1>2. e.attempt + 1 \in Nat
    BY DEF CallRecords
  <1> QED
    BY <1>1, <1>2

LEMMA AgainIsCall ==
    ASSUME CarrierTypeOK, NEW c \in Calls
    PROVE  TriedAgain(c) \in CallRecords
  <1>1. Fails(c, "rate_limit_exhausted") \in CallRecords
    BY FailureIsDone DEF Reasons
  <1>2. [call[c] EXCEPT !.stage = "acquires", !.attempt = @ + 1] \in CallRecords
    <2>1. call[c] \in CallRecords
      BY DEF CarrierTypeOK
    <2> QED
      BY <2>1, AttemptIsCall
  <1> QED
    BY <1>1, <1>2 DEF TriedAgain

(***************************************************************************)
(* A call c that is answered by e: the others keep what they had.  An      *)
(* answer that makes a label ends the call and refuses nothing.            *)
(***************************************************************************)
LEMMA OneCallMoves ==
    ASSUME CarrierInv, NEW c \in Calls, NEW e \in CallRecords,
           call' = [call EXCEPT ![c] = e],
           call[c].stage # "done",
           \/ UNCHANGED made
           \/ /\ made' = MadeBy(c)
              /\ e.stage = "done" /\ e.result \notin Refusals
    PROVE  /\ call' \in [Calls -> CallRecords] /\ made' \in [Calls -> Nat]
           /\ NothingMadeYet' /\ BuysOnce'
  <1>1. call' \in [Calls -> CallRecords]
    BY DEF CarrierInv, CarrierTypeOK
  <1>2. made[c] = 0
    BY DEF CarrierInv, NothingMadeYet
  <1>3. call'[c] = e /\ \A d \in Calls \ {c} : call'[d] = call[d]
    BY DEF CarrierInv, CarrierTypeOK
  <1>4. CASE UNCHANGED made
    BY <1>1, <1>2, <1>3, <1>4 DEF CarrierInv, CarrierTypeOK, NothingMadeYet, BuysOnce
  <1>5. CASE made' = MadeBy(c) /\ e.stage = "done" /\ e.result \notin Refusals
    <2>1. made' \in [Calls -> Nat] /\ made'[c] \in {0, 1}
          /\ \A d \in Calls \ {c} : made'[d] = made[d]
      BY <1>2, <1>5 DEF CarrierInv, CarrierTypeOK, MadeBy
    <2> QED
      BY <1>1, <1>3, <1>5, <2>1 DEF CarrierInv, NothingMadeYet, BuysOnce, Refusals
  <1> QED
    BY <1>4, <1>5

(***************************************************************************)
(* The steps.                                                              *)
(***************************************************************************)
LEMMA InitEstablishes == CarrierInit => CarrierInv
  <1> SUFFICES ASSUME CarrierInit PROVE CarrierInv
    OBVIOUS
  <1>1. NoCall \in CallRecords /\ NoCall.result = "none"
    BY DEF NoCall, CallRecords, CallKinds, Stages, Results
  <1>2. CarrierTypeOK
    BY <1>1, CarrierAssumption DEF CarrierInit, CarrierTypeOK
  <1>3. BucketCovers
    BY CarrierAssumption DEF CarrierInit, BucketCovers
  <1>4. NothingMadeYet /\ BuysOnce
    BY <1>1 DEF CarrierInit, NothingMadeYet, BuysOnce, RefusedByCarrier
  <1> QED
    BY <1>2, <1>3, <1>4 DEF CarrierInv

LEMMA StartKeeps ==
    ASSUME CarrierInv, NEW c \in Calls, Start(c)
    PROVE  CarrierInv'
  <1>1. PICK kind \in Kinds, named \in BOOLEAN :
            call' = [call EXCEPT ![c] = Begun(c, kind, named)]
    BY DEF Start
  <1> DEFINE e == Begun(c, kind, named)
  <1>2. kind \in CallKinds
    BY CarrierAssumption DEF CallKinds
  <1>3. e \in CallRecords
    BY <1>2, BegunIsCall DEF CarrierInv
  <1>4. call[c].stage # "done" /\ UNCHANGED made
    BY DEF Start
  <1>5. call' = [call EXCEPT ![c] = e]
    BY <1>1
  <1> HIDE DEF e
  <1>6. /\ call' \in [Calls -> CallRecords] /\ made' \in [Calls -> Nat]
        /\ NothingMadeYet' /\ BuysOnce'
    BY <1>3, <1>4, <1>5, OneCallMoves
  <1> QED
    BY <1>6 DEF CarrierInv, CarrierTypeOK, BucketCovers, Start, limiterVars

LEMMA AcquireKeeps ==
    ASSUME CarrierInv, NEW c \in Calls, Acquire(c)
    PROVE  CarrierInv'
  <1>1. call[c] \in CallRecords /\ call[c].stage # "done" /\ UNCHANGED made
    BY DEF Acquire, CarrierInv, CarrierTypeOK
  <1>2. CASE blocked = 0 /\ credit > 0
    <2> DEFINE e == [call[c] EXCEPT !.stage = "sent"]
    <2>1. e \in CallRecords
      BY <1>1 DEF CallRecords, Stages
    <2>2. call' = [call EXCEPT ![c] = e]
      BY <1>2 DEF Acquire
    <2> HIDE DEF e
    <2>3. /\ call' \in [Calls -> CallRecords] /\ made' \in [Calls -> Nat]
          /\ NothingMadeYet' /\ BuysOnce'
      BY <1>1, <2>1, <2>2, OneCallMoves
    <2>4. credit' = credit - 1 /\ load' = load + 1
      BY <1>2 DEF Acquire
    <2> QED
      BY <1>2, <2>3, <2>4, CarrierAssumption
      DEF CarrierInv, CarrierTypeOK, BucketCovers, Acquire
  <1>3. CASE ~(blocked = 0 /\ credit > 0)
    <2>1. PICK n \in {1, blocked} : call' = [call EXCEPT ![c].wait = n]
      BY <1>3 DEF Acquire
    <2> DEFINE e == [call[c] EXCEPT !.wait = n]
    <2>2. e \in CallRecords
      BY <1>1 DEF CallRecords, CarrierInv, CarrierTypeOK
    <2>3. call' = [call EXCEPT ![c] = e]
      BY <2>1
    <2> HIDE DEF e
    <2>4. /\ call' \in [Calls -> CallRecords] /\ made' \in [Calls -> Nat]
          /\ NothingMadeYet' /\ BuysOnce'
      BY <1>1, <2>2, <2>3, OneCallMoves
    <2>5. UNCHANGED <<credit, load>>
      BY <1>3 DEF Acquire
    <2> QED
      BY <2>4, <2>5 DEF CarrierInv, CarrierTypeOK, BucketCovers, Acquire
  <1> QED
    BY <1>2, <1>3

(***************************************************************************)
(* The answers.  None sends a request or gives a token back.               *)
(***************************************************************************)
LEMMA AnswerKeeps ==
    ASSUME CarrierInv, NEW c \in Calls, Answered(c)
    PROVE  CarrierInv'
  <1> DEFINE Moved ==
        /\ call' \in [Calls -> CallRecords] /\ made' \in [Calls -> Nat]
        /\ NothingMadeYet' /\ BuysOnce'
  <1>a. CarrierTypeOK /\ load + credit <= Capacity
    BY DEF CarrierInv, BucketCovers
  <1>b. call[c].stage # "done" /\ call[c].kind \in CallKinds
    <2>1. call[c] \in CallRecords
      BY <1>a DEF CarrierTypeOK
    <2>2. call[c].stage = "sent"
      BY DEF Answered, Succeed, ListCarriers, Estimate, Busy, Reject, Lose, AtCarrier
    <2> QED
      BY <2>1, <2>2 DEF CallRecords
  <1>c. ASSUME Moved, UNCHANGED <<credit, blocked, load>>
        PROVE  CarrierInv'
    BY <1>a, <1>c DEF CarrierInv, CarrierTypeOK, BucketCovers
  <1>d. \A r \in {"ok", "refused", "empty", "http_error"} :
          /\ Ended(c, r) \in CallRecords
          /\ Ended(c, r).stage = "done" /\ Ended(c, r).result \notin Refusals
    <2> SUFFICES ASSUME NEW r \in {"ok", "refused", "empty", "http_error"}
                 PROVE  /\ Ended(c, r) \in CallRecords
                        /\ Ended(c, r).stage = "done" /\ Ended(c, r).result \notin Refusals
      OBVIOUS
    <2>1. r \in Results /\ r \notin Refusals
      BY DEF Results, Reasons, Refusals, RefusedByCarrier
    <2> QED
      BY <1>a, <2>1, EndedIsDone
  <1>1. CASE Succeed(c)
    <2>1. PICK r \in {"ok", "refused", "http_error"} : call' = [call EXCEPT ![c] = Ended(c, r)]
      BY <1>1 DEF Succeed, ReadAs, extractLabel
    <2>2. made' = MadeBy(c) /\ UNCHANGED <<credit, blocked, load>>
      BY <1>1 DEF Succeed, limiterVars
    <2>3. Moved
      BY <1>b, <1>d, <2>1, <2>2, OneCallMoves
    <2> QED
      BY <1>c, <2>2, <2>3
  <1>2. CASE ListCarriers(c)
    <2>1. PICK list \in {"some", "empty"} :
              call' = [call EXCEPT ![c] = Listed(c, call[c].kind, list)]
      BY <1>2 DEF ListCarriers, extractCarriers
    <2>2. UNCHANGED <<made, credit, blocked, load>>
      BY <1>2 DEF ListCarriers, limiterVars
    <2>3. Listed(c, call[c].kind, list) \in CallRecords
      BY <1>a, <1>b, ListedIsCall
    <2>4. Moved
      BY <1>b, <2>1, <2>2, <2>3, OneCallMoves
    <2> QED
      BY <1>c, <2>2, <2>4
  <1>3. CASE Estimate(c)
    <2>1. PICK r \in {"ok", "empty"} : call' = [call EXCEPT ![c] = Ended(c, r)]
      BY <1>3 DEF Estimate, normalizeUspsRates
    <2>2. UNCHANGED <<made, credit, blocked, load>>
      BY <1>3 DEF Estimate, limiterVars
    <2>3. Moved
      BY <1>b, <1>d, <2>1, <2>2, OneCallMoves
    <2> QED
      BY <1>c, <2>2, <2>3
  <1>4. CASE Busy(c)
    <2>1. UNCHANGED made /\ UNCHANGED load
      BY <1>4 DEF Busy
    <2>2. CASE call[c].request \in ThroughRequestJson
      <3>1. PICK header \in Waits : Block(parseRetryAfter(header))
        BY <1>4, <2>2 DEF Busy
      <3>2. call' = [call EXCEPT ![c] = TriedAgain(c)]
        BY <1>4, <2>2 DEF Busy
      <3>3. Moved
        BY <1>a, <1>b, <2>1, <3>2, AgainIsCall, OneCallMoves
      <3>4. credit' = 0 /\ blocked' \in Nat
        BY <3>1, CarrierAssumption DEF Block, parseRetryAfter, Least
      <3> QED
        BY <1>a, <2>1, <3>3, <3>4, CarrierAssumption DEF CarrierInv, CarrierTypeOK, BucketCovers
    <2>3. CASE call[c].request \notin ThroughRequestJson
      <3>1. call' = [call EXCEPT ![c] = Fails(c, "http_error")]
            /\ UNCHANGED <<credit, blocked>>
        BY <1>4, <2>3 DEF Busy, limiterVars
      <3>2. Fails(c, "http_error") \in CallRecords
        BY <1>a, FailureIsDone DEF Reasons
      <3>3. Moved
        BY <1>b, <2>1, <3>1, <3>2, OneCallMoves
      <3> QED
        BY <1>c, <2>1, <3>1, <3>3
    <2> QED
      BY <2>2, <2>3
  <1>5. CASE Reject(c)
    <2>1. PICK reason \in RefusedByCarrier : call' = [call EXCEPT ![c] = Fails(c, reason)]
      BY <1>5 DEF Reject
    <2>2. UNCHANGED <<made, credit, blocked, load>>
      BY <1>5 DEF Reject, limiterVars
    <2>3. Fails(c, reason) \in CallRecords
      BY <1>a, FailureIsDone DEF Reasons
    <2>4. Moved
      BY <1>b, <2>1, <2>2, <2>3, OneCallMoves
    <2> QED
      BY <1>c, <2>2, <2>4
  <1>6. CASE Lose(c)
    <2>1. PICK reason \in {"timeout", "http_error"} :
              call' = [call EXCEPT ![c] = Fails(c, reason)]
      BY <1>6 DEF Lose
    <2>2. made' \in {made, MadeBy(c)} /\ UNCHANGED <<credit, blocked, load>>
      BY <1>6 DEF Lose, limiterVars
    <2>3. /\ Fails(c, reason) \in CallRecords
          /\ Fails(c, reason).stage = "done" /\ Fails(c, reason).result \notin Refusals
      BY <1>a, FailureIsDone DEF Reasons
    <2>4. Moved
      BY <1>b, <2>1, <2>2, <2>3, OneCallMoves
    <2> QED
      BY <1>c, <2>2, <2>4
  <1> QED
    BY <1>1, <1>2, <1>3, <1>4, <1>5, <1>6 DEF Answered

LEMMA TickKeeps ==
    ASSUME CarrierInv, CarrierTick
    PROVE  CarrierInv'
  <1>1. CarrierTypeOK /\ load + credit <= Capacity
    BY DEF CarrierInv, BucketCovers
  <1>2. /\ credit' \in 0..Capacity /\ load' \in Nat /\ blocked' \in Nat
        /\ load' + credit' <= Capacity
    <2>1. Capacity \in Nat /\ credit \in 0..Capacity /\ load \in Nat /\ blocked \in Nat
      BY <1>1, CarrierAssumption DEF CarrierTypeOK
    <2>2. credit' = IF Capacity <= credit + 1 THEN Capacity ELSE credit + 1
      BY DEF CarrierTick, Refilled, Least
    <2>3. load' = IF load = 0 THEN 0 ELSE load - 1
      BY DEF CarrierTick, Sooner
    <2>4. blocked' = IF blocked = 0 THEN 0 ELSE blocked - 1
      BY DEF CarrierTick, Sooner
    <2> QED
      BY <1>1, <2>1, <2>2, <2>3, <2>4
  <1>3. \A c \in Calls : call[c] \in CallRecords
    BY <1>1 DEF CarrierTypeOK
  <1>4. \A c \in Calls :
          /\ call'[c] \in CallRecords
          /\ call'[c].stage = call[c].stage /\ call'[c].result = call[c].result
    <2> SUFFICES ASSUME NEW c \in Calls
                 PROVE  /\ call'[c] \in CallRecords
                        /\ call'[c].stage = call[c].stage /\ call'[c].result = call[c].result
      OBVIOUS
    <2>1. call'[c] = [call[c] EXCEPT !.wait = Sooner(@)]
      BY DEF CarrierTick
    <2>2. Sooner(call[c].wait) \in Nat
      BY <1>3 DEF CallRecords, Sooner
    <2> QED
      BY <1>3, <2>1, <2>2 DEF CallRecords
  <1>5. call' \in [Calls -> CallRecords] /\ UNCHANGED made
    BY <1>4 DEF CarrierTick
  <1>6. NothingMadeYet'
    BY <1>4, <1>5 DEF CarrierInv, NothingMadeYet
  <1>7. BuysOnce'
    BY <1>4, <1>5 DEF CarrierInv, BuysOnce
  <1> QED
    BY <1>1, <1>2, <1>5, <1>6, <1>7 DEF CarrierInv, CarrierTypeOK, BucketCovers

(***************************************************************************)
(* The theorems.                                                           *)
(***************************************************************************)
LEMMA InvariantHolds == CarrierSpec => []CarrierInv
  <1>1. CarrierInit => CarrierInv
    BY InitEstablishes
  <1>2. CarrierInv /\ [CarrierNext]_carrierVars => CarrierInv'
    <2> SUFFICES ASSUME CarrierInv, [CarrierNext]_carrierVars PROVE CarrierInv'
      OBVIOUS
    <2>1. ASSUME NEW c \in Calls, Start(c) PROVE CarrierInv'
      BY <2>1, StartKeeps
    <2>2. ASSUME NEW c \in Calls, Acquire(c) PROVE CarrierInv'
      BY <2>2, AcquireKeeps
    <2>3. ASSUME NEW c \in Calls, Answered(c) PROVE CarrierInv'
      BY <2>3, AnswerKeeps
    <2>4. CASE CarrierTick
      BY <2>4, TickKeeps
    <2>5. CASE UNCHANGED carrierVars
      BY <2>5 DEF carrierVars, CarrierInv, CarrierTypeOK, BucketCovers, NothingMadeYet, BuysOnce
    <2> QED
      BY <2>1, <2>2, <2>3, <2>4, <2>5 DEF CarrierNext
  <1> QED
    BY <1>1, <1>2, PTL DEF CarrierSpec

\* However many calls share the limiter, whatever the carrier asks them to wait
\* and however they wake, no stretch of time sees more requests than the bucket
\* holds and one a tick (limiter.ts).
THEOREM RateHolds == CarrierSpec => []SendsWithinRate
  <1>1. CarrierInv => SendsWithinRate
    BY CarrierAssumption DEF CarrierInv, CarrierTypeOK, BucketCovers, SendsWithinRate
  <1> QED
    BY <1>1, InvariantHolds, PTL

\* Whatever is retried, however often and whatever answers are lost, no call
\* has two labels made for it, and one that reports a refusal has none
\* (service.ts, purchaseLabel and requestJson).
THEOREM LabelBoughtOnce == CarrierSpec => []BuysOnce
  <1>1. CarrierInv => BuysOnce
    BY DEF CarrierInv
  <1> QED
    BY <1>1, InvariantHolds, PTL

================================================================================
