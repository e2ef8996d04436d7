--------------------------- MODULE SequentialProofs ---------------------------
(***************************************************************************)
(* What holds of Fulfilment for any orders and calls when the calls are    *)
(* those of the admin page, one runs after another and no fault meets      *)
(* them: they are as good as atomic.  Status, shipment, stock and history  *)
(* of an order agree between them, and OrderLifecycle is implemented.      *)
(*                                                                         *)
(* The argument follows the one request that runs.  Every order but its    *)
(* own is settled, and Phase says, step by step, how its own differs from  *)
(* a settled one.                                                          *)
(***************************************************************************)
EXTENDS FulfilmentProofs, FiniteSetTheorems

USE DEF At, orderVars, labelVars, stockVars, storeVars, requestVars, faultVars

\* The statements these properties are about: FulfilmentSequential.cfg.
Undisturbed == MaxInFlight <= 1 /\ MaxFaults = 0 /\ Console = "widget"

One(S) == \E x \in S : S = {x}

(***************************************************************************)
(* An order between requests: a row and no stock when it is sent, stock    *)
(* and no row when it is not, and a history that leads to its status.      *)
(***************************************************************************)
RowsAgree(o, active) == IF status[o] \in Sent THEN One(active) ELSE active = {}

StockAgrees(o, stock) == IF status[o] \in Sent THEN stock = {} ELSE One(stock)

\* Where the first i entries of o lead.
Reached(o, i) == IF i = 0 THEN FirstStatus[o] ELSE history[o][i].to

Walked(o, s) ==
    /\ Reached(o, Len(history[o])) = s
    /\ \A i \in 1..Len(history[o]) :
         IF history[o][i].from = None THEN history[o][i].to = Reached(o, i - 1)
         ELSE /\ history[o][i].from = Reached(o, i - 1)
              /\ CanTransition(history[o][i].from, history[o][i].to)

Settled(o) ==
    RowsAgree(o, Active(o)) /\ StockAgrees(o, reserved[o]) /\ Walked(o, status[o])

(***************************************************************************)
(* Where request r is at step p.                                           *)
(***************************************************************************)
Ships(r) == Job[r].kind \in {"buy", "record"}

\* The stock is taken; with the row put; the row is voided; with the stock
\* put back.
Taken(p) == p \in {"ship", "insert", "undoFulfilment"}

Inserted(r, p) == Ships(r) /\ p \in {"read", "write", "undoRow"}

Voided(p) == p \in {"restore", "reserve", "unvoid"}

Restocked(r, p) == p = "unreserve" \/ (Job[r].kind = "void" /\ p \in {"read", "write"})

Calm(r, p) ==
    p # "log" /\ ~Taken(p) /\ ~Inserted(r, p) /\ ~Voided(p) /\ ~Restocked(r, p)

(***************************************************************************)
(* The order of request r, which is at step p with locals m.               *)
(***************************************************************************)
PhaseOfStock(r, p, m) ==
    LET o == m.order IN
    /\ Taken(p) \/ Inserted(r, p) =>
         reserved[o] = {} /\ StockAgrees(o, m.stock) /\ Walked(o, status[o])
    /\ Taken(p) => RowsAgree(o, Active(o))
    /\ Inserted(r, p) => m.held \in Active(o) /\ RowsAgree(o, Active(o) \ {m.held})
    /\ Ships(r) /\ (Taken(p) \/ Inserted(r, p) \/ p = "log") => r \in fulfilled[o]

PhaseOfVoid(r, p, m) ==
    LET o == m.order IN
    /\ p = "find" => m.answer = None
    /\ p \in {"carrier", "voidRow"} => m.held \in Active(o)
    /\ p = "carrier" => rows[m.held].labelled
    /\ Voided(p) \/ Restocked(r, p) =>
         /\ status[o] \in Sent /\ Active(o) = {} /\ Walked(o, status[o])
         /\ m.held \in Recorded /\ rows[m.held].order = o
    /\ Voided(p) => reserved[o] = {}
    /\ Restocked(r, p) => reserved[o] = m.stock
    /\ p = "reserve" \/ Restocked(r, p) => One(m.stock)

PhaseOfStatus(r, p, m) ==
    LET o == m.order IN
    /\ Job[r].kind = "move" /\ p \in {"read", "write"} =>
         Target(r) # "shipped" /\ (Target(r) = "packing" => Active(o) = {})
    /\ p = "write" => m.seen = status[o] /\ CanTransition(m.seen, Target(r))
    /\ p = "log" =>
         /\ RowsAgree(o, Active(o)) /\ StockAgrees(o, reserved[o]) /\ Walked(o, m.seen)
         /\ status[o] = Target(r) /\ CanTransition(m.seen, Target(r)) /\ m.seen # None

Phase(r, p, m) ==
    /\ Calm(r, p) /\ m.order \in Orders => Settled(m.order)
    /\ PhaseOfStock(r, p, m) /\ PhaseOfVoid(r, p, m) /\ PhaseOfStatus(r, p, m)

\* r is the one request that runs.
Runs(r) ==
    /\ InFlight = {r} /\ Phase(r, pc[r], mem[r])
    /\ \A o \in Orders \ {mem[r].order} : Settled(o)

\* An order that is sent was sent by a request that is over, or as good as.
SentBySome ==
    \A o \in Orders : status[o] \in Sent =>
        \E s \in fulfilled[o] : pc[s] = "done" \/ (pc[s] = "log" /\ Ships(s))

OneByOne ==
    /\ crashed = {} /\ SentBySome
    /\ \/ Quiet /\ \A o \in Orders : Settled(o)
       \/ \E r \in Requests : Runs(r)

(***************************************************************************)
(* The parcels of o with the carrier, as one sees them from the request.   *)
(***************************************************************************)
ParcelsOf(r, p, m, o) ==
    IF o # m.order THEN Active(o)
    ELSE IF Inserted(r, p) THEN Active(o) \ {m.held}
    ELSE IF Voided(p) \/ Restocked(r, p) THEN {m.held}
    ELSE Active(o)

-----------------------------------------------------------------------------
\* What is read of the stores stays when they do.
LEMMA PhaseStays ==
    ASSUME UNCHANGED <<status, history, rows, reserved, fulfilled>>, NEW r, NEW p, NEW m
    PROVE  /\ \A o : Active(o)' = Active(o) /\ (Settled(o)' <=> Settled(o))
           /\ Phase(r, p, m)' <=> Phase(r, p, m)
           /\ \A o : ParcelsOf(r, p, m, o)' = ParcelsOf(r, p, m, o)
<1>1. \A o : Active(o)' = Active(o)
  BY DEF Active, Recorded
<1>2. \A o, s : Walked(o, s)' <=> Walked(o, s)
  BY DEF Walked, Reached
<1>3. \A o : Settled(o)' <=> Settled(o)
  BY <1>1, <1>2 DEF Settled, RowsAgree, StockAgrees
<1>4. PhaseOfStock(r, p, m)' <=> PhaseOfStock(r, p, m)
  BY <1>1, <1>2 DEF PhaseOfStock, RowsAgree, StockAgrees
<1>5. PhaseOfVoid(r, p, m)' <=> PhaseOfVoid(r, p, m)
  BY <1>1, <1>2 DEF PhaseOfVoid, Recorded
<1>6. PhaseOfStatus(r, p, m)' <=> PhaseOfStatus(r, p, m)
  BY <1>1, <1>2 DEF PhaseOfStatus, RowsAgree, StockAgrees
<1>7. \A o : ParcelsOf(r, p, m, o)' = ParcelsOf(r, p, m, o)
  BY <1>1 DEF ParcelsOf
<1> QED
  BY <1>1, <1>3, <1>4, <1>5, <1>6, <1>7 DEF Phase

\* An order of which nothing changes stays settled.
LEMMA SettledStays ==
    ASSUME NEW o, Settled(o), Active(o)' = Active(o), status'[o] = status[o],
           reserved'[o] = reserved[o], history'[o] = history[o]
    PROVE  Settled(o)'
BY DEF Settled, RowsAgree, StockAgrees, Walked, Reached

\* A request at work is in flight.
LEMMA WorkRuns ==
    ASSUME TypeInv, NEW r \in Requests, Work(r)
    PROVE  r \in InFlight
BY DEF InFlight, Work, Ended, ReadStatus, WriteStatus, LogTransition, CheckStatus, CheckFree,
   PurchaseAnswered, PurchaseRefused, PurchaseUnanswered, ReconcileFound, ReconcileNothing,
   StoreLabelPdf, CreateFulfilment, CreateShipment, InsertRow, UndoRow, UndoFulfilment, UndoFile,
   UndoLabelApproved, UndoLabelRefused, NoteOrphan, FindActive, VoidApproved, VoidRefused,
   VoidUnanswered, VoidRow, RestoreReservations, CreateReservations, UndoReservations, UndoVoidRow,
   ClaimEvent, LookupShipment, ReadContext, SnapshotTracking, ApplyTrackingStatus, MarkDelivered,
   UndoApply, ReleaseEvent


\* Request r, the only one at work, goes on to step p with locals m.
LEMMA StepKeeps ==
    ASSUME TypeInv, crashed = {}, NEW r \in Requests, InFlight \subseteq {r},
           NEW p \in Steps \ {"waiting"}, NEW m, Goto(r, p, m), UNCHANGED faultVars,
           Phase(r, p, m)', \A o \in Orders \ {m.order} : Settled(o)', SentBySome'
    PROVE  OneByOne'
<1>1. \A s \in Requests : pc'[s] = (IF s = r THEN p ELSE pc[s])
  BY DEF Goto, TypeInv, TypeOK
<1>2. crashed' = {}
  OBVIOUS
<1>3. \A s \in Requests \ {r} : pc[s] \in Ended \cup {"waiting"}
  BY DEF InFlight
<1>4. CASE p \in Ended
  <2>1. InFlight' = {}
    BY <1>1, <1>2, <1>3, <1>4 DEF InFlight
  <2>2. Calm(r, p)
    BY <1>4 DEF Calm, Taken, Inserted, Voided, Restocked, Ended
  <2>3. \A o \in Orders : Settled(o)'
    BY <2>2 DEF Phase
  <2> QED BY <1>2, <2>1, <2>3 DEF OneByOne, Quiet
<1>5. CASE p \notin Ended
  <2>1. InFlight' = {r}
    BY <1>1, <1>2, <1>3, <1>5 DEF InFlight
  <2>2. pc'[r] = p /\ mem'[r] = m
    BY <1>1, <1>5 DEF Goto, TypeInv, TypeOK
  <2>3. Phase(r, pc[r], mem[r])'
    <3>1. (PhaseOfStock(r, pc[r], mem[r]))'
      BY <2>2 DEF Phase, PhaseOfStock
    <3>2. (PhaseOfVoid(r, pc[r], mem[r]))'
      BY <2>2 DEF Phase, PhaseOfVoid
    <3>3. (PhaseOfStatus(r, pc[r], mem[r]))'
      BY <2>2 DEF Phase, PhaseOfStatus
    <3>4. (Calm(r, pc[r]) /\ mem[r].order \in Orders => Settled(mem[r].order))'
      BY <2>2 DEF Phase, Calm, Taken, Inserted, Voided, Restocked
    <3> QED BY <3>1, <3>2, <3>3, <3>4 DEF Phase
  <2>4. (\A o \in Orders \ {mem[r].order} : Settled(o))'
    BY <2>2
  <2> QED BY <1>2, <2>1, <2>3, <2>4 DEF OneByOne, Runs
<1> QED BY <1>4, <1>5

\* Who sent an order stays, unless it is the request that goes on.
LEMMA SentStays ==
    ASSUME TypeInv, SentBySome, NEW r \in Requests, pc[r] \notin {"done", "log"},
           NEW p, NEW m, Goto(r, p, m),
           \A o \in Orders : status'[o] \in Sent => status[o] \in Sent,
           \A o \in Orders : fulfilled[o] \ {r} \subseteq fulfilled'[o]
    PROVE  SentBySome'
<1>1. \A s \in Requests \ {r} : pc'[s] = pc[s]
  BY DEF Goto, TypeInv, TypeOK
<1>2. ASSUME NEW o \in Orders, status'[o] \in Sent
      PROVE  \E s \in fulfilled'[o] : pc'[s] = "done" \/ (pc'[s] = "log" /\ Ships(s))
  <2>1. PICK s \in fulfilled[o] : pc[s] = "done" \/ (pc[s] = "log" /\ Ships(s))
    BY <1>2 DEF SentBySome
  <2>2. s \in Requests \ {r} /\ s \in fulfilled'[o]
    BY <2>1 DEF TypeInv, TypeOK
  <2> QED BY <1>1, <2>1, <2>2
<1> QED BY <1>2 DEF SentBySome, Ships

\* The one request goes on and changes no order.
LEMMA IdleKeeps ==
    ASSUME TypeInv, crashed = {}, SentBySome, NEW r \in Requests, InFlight \subseteq {r},
           pc[r] \notin {"done", "log"},
           NEW p \in Steps \ {"waiting"}, NEW m, Goto(r, p, m), UNCHANGED faultVars,
           UNCHANGED <<status, history, rows, reserved, fulfilled>>,
           Phase(r, p, m), \A o \in Orders \ {m.order} : Settled(o)
    PROVE  OneByOne'
<1>1. SentBySome'
  BY SentStays
<1>2. Phase(r, p, m)' /\ \A o \in Orders \ {m.order} : Settled(o)'
  BY PhaseStays
<1> QED BY <1>1, <1>2, StepKeeps

\* Where a request goes on when its step fails, its order is as it should be.
LEMMA FailKeeps ==
    ASSUME TypeInv, crashed = {}, SentBySome, NEW r \in Requests, Runs(r), Fail(r),
           pc[r] \notin {"write", "log", "undoRow", "undoFulfilment", "unreserve", "unvoid"},
           UNCHANGED faultVars, UNCHANGED <<status, history, rows, reserved, fulfilled>>
    PROVE  OneByOne'
<1>1. InFlight = {r} /\ Phase(r, pc[r], mem[r])
  BY DEF Runs
<1>2. pc[r] \notin Ended \cup {"waiting"} /\ pc[r] \in Steps /\ Fits(r, pc[r], mem[r])
  BY <1>1 DEF InFlight, TypeInv, TypeOK, LocalsOK
<1>3. PICK m : m = mem[r]
  OBVIOUS
<1>4. PICK p : p = Rollback(r)
  OBVIOUS
<1>5. p \in Steps \ {"waiting"}
  BY <1>4, RollbackTyped DEF Rollback
<1>6. Calm(r, p) => Calm(r, pc[r])
  BY <1>2, <1>4 DEF Calm, Taken, Inserted, Voided, Restocked, Ships, Rollback,
     Transitioning, Steps, Fits, BuySteps, ShipSteps, Shipping, Voiding, Tracking, Unwinding
<1>7. /\ Taken(p) => Taken(pc[r])
      /\ Inserted(r, p) => Inserted(r, pc[r])
      /\ Voided(p) => Voided(pc[r])
      /\ Restocked(r, p) => Restocked(r, pc[r])
      /\ p \notin {"find", "carrier", "voidRow", "reserve", "read", "write", "log"}
  BY <1>2, <1>4 DEF Taken, Inserted, Voided, Restocked, Ships, Rollback,
     Transitioning, Steps, Fits, BuySteps, ShipSteps, Shipping, Voiding, Tracking, Unwinding
<1>8. PhaseOfStock(r, p, m)
  BY <1>1, <1>3, <1>7 DEF Phase, PhaseOfStock
<1>9. PhaseOfVoid(r, p, m)
  BY <1>1, <1>3, <1>7 DEF Phase, PhaseOfVoid
<1>10. PhaseOfStatus(r, p, m)
  BY <1>7 DEF PhaseOfStatus
<1>11. Phase(r, p, m)
  BY <1>1, <1>3, <1>6, <1>8, <1>9, <1>10 DEF Phase
<1> QED BY <1>1, <1>2, <1>3, <1>4, <1>5, <1>11, IdleKeeps DEF Runs, Fail, Ended

\* The request at work, and what Phase says of it.
LEMMA AtWork ==
    ASSUME TypeInv, OneByOne, NEW r \in Requests, r \in InFlight
    PROVE  /\ crashed = {} /\ SentBySome /\ Runs(r) /\ InFlight = {r}
           /\ Phase(r, pc[r], mem[r])
           /\ \A o \in Orders \ {mem[r].order} : Settled(o)
           /\ Fits(r, pc[r], mem[r]) /\ mem[r] \in Locals
<1>1. crashed = {} /\ SentBySome /\ Runs(r)
  BY DEF OneByOne, Runs, Quiet
<1>2. Fits(r, pc[r], mem[r]) /\ mem[r] \in Locals
  BY DEF TypeInv, TypeOK, LocalsOK
<1> QED BY <1>1, <1>2 DEF Runs

\* To a step at which every order is settled.
LEMMA CalmStep ==
    ASSUME TypeInv, OneByOne, NEW r \in Requests, r \in InFlight,
           NEW p \in Steps \ {"waiting", "find", "carrier", "voidRow", "write"},
           p = "read" => Job[r].kind = "track",
           NEW m, Calm(r, p), Goto(r, p, m), UNCHANGED faultVars,
           SentBySome', \A o \in Orders : Settled(o)'
    PROVE  OneByOne'
<1>1. crashed = {} /\ InFlight = {r}
  BY AtWork
<1>2. Phase(r, p, m)'
  BY DEF Phase, PhaseOfStock, PhaseOfVoid, PhaseOfStatus, Calm, Voided
<1> QED BY <1>1, <1>2, StepKeeps

\* From a step at which every order is settled to another.
LEMMA CalmKeeps ==
    ASSUME TypeInv, OneByOne, NEW r \in Requests, r \in InFlight, Calm(r, pc[r]),
           NEW p \in Steps \ {"waiting", "find", "carrier", "voidRow", "write"},
           p = "read" => Job[r].kind = "track",
           NEW m, Calm(r, p), Goto(r, p, m), UNCHANGED faultVars,
           UNCHANGED <<status, history, rows, reserved, fulfilled>>
    PROVE  OneByOne'
<1>1. /\ crashed = {} /\ SentBySome /\ InFlight = {r} /\ Phase(r, pc[r], mem[r])
      /\ \A o \in Orders \ {mem[r].order} : Settled(o)
  BY AtWork
<1>2. \A o \in Orders : Settled(o)'
  BY <1>1, PhaseStays DEF Phase
<1>3. pc[r] \notin {"done", "log"}
  BY <1>1 DEF InFlight, Ended, Calm
<1>4. SentBySome'
  BY <1>1, <1>3, SentStays
<1> QED BY <1>2, <1>4, CalmStep

\* The checks of a purchase, its calls to the carrier and their compensations.
LEMMA PurchaseSteps ==
    ASSUME TypeInv, OneByOne, NEW r \in Requests, r \in InFlight,
           \/ CheckStatus(r) \/ CheckFree(r)
           \/ PurchaseAnswered(r) \/ PurchaseRefused(r) \/ PurchaseUnanswered(r)
           \/ ReconcileFound(r) \/ ReconcileNothing(r) \/ StoreLabelPdf(r)
           \/ UndoFile(r) \/ UndoLabelApproved(r) \/ UndoLabelRefused(r)
    PROVE  OneByOne'
<1> DEFINE Here == {"status", "free", "purchase", "reconcile", "store", "undoFile", "undoLabel"}
           Then == {"free", "purchase", "reconcile", "store", "fulfil", "undoLabel",
                     "note", "failed"}
<1>1. /\ pc[r] \in Here
      /\ UNCHANGED faultVars /\ UNCHANGED <<status, history, rows, reserved, fulfilled>>
      /\ Fail(r) \/ \E p \in Then : \E m : Goto(r, p, m)
  <2>1. CASE CheckStatus(r)
    BY <2>1 DEF CheckStatus
  <2>2. CASE CheckFree(r)
    BY <2>2 DEF CheckFree
  <2>3. CASE PurchaseAnswered(r)
    BY <2>3 DEF PurchaseAnswered
  <2>4. CASE PurchaseRefused(r) \/ ReconcileNothing(r)
    BY <2>4 DEF PurchaseRefused, ReconcileNothing
  <2>5. CASE PurchaseUnanswered(r)
    BY <2>5 DEF PurchaseUnanswered
  <2>6. CASE ReconcileFound(r)
    BY <2>6 DEF ReconcileFound
  <2>7. CASE StoreLabelPdf(r)
    BY <2>7 DEF StoreLabelPdf
  <2>8. CASE UndoFile(r)
    BY <2>8 DEF UndoFile
  <2>9. CASE UndoLabelApproved(r)
    BY <2>9 DEF UndoLabelApproved
  <2>10. CASE UndoLabelRefused(r)
    BY <2>10 DEF UndoLabelRefused
  <2> QED BY <2>1, <2>2, <2>3, <2>4, <2>5, <2>6, <2>7, <2>8, <2>9, <2>10
<1>2. CASE Fail(r)
  BY <1>1, <1>2, AtWork, FailKeeps
<1>3. CASE \E p \in Then : \E m : Goto(r, p, m)
  <2>1. PICK p \in Then : \E m : Goto(r, p, m)
    BY <1>3
  <2>2. Calm(r, pc[r]) /\ Calm(r, p)
    BY <1>1 DEF Calm, Taken, Inserted, Voided, Restocked
  <2>3. p \in Steps \ {"waiting", "find", "carrier", "voidRow", "read", "write"}
    BY DEF Steps, Shipping, Unwinding, Ended
  <2> QED BY <1>1, <2>1, <2>2, <2>3, CalmKeeps
<1> QED BY <1>1, <1>2, <1>3

\* The webhook up to the transition it asks for, and its compensations.
LEMMA TrackingSteps ==
    ASSUME TypeInv, OneByOne, NEW r \in Requests, r \in InFlight,
           \/ ClaimEvent(r) \/ LookupShipment(r) \/ ReadContext(r) \/ SnapshotTracking(r)
           \/ ReleaseEvent(r)
    PROVE  OneByOne'
<1> DEFINE Here == {"claim", "lookup", "context", "snapshot", "release"}
           Then == {"lookup", "context", "snapshot", "apply", "duplicate", "dropped", "failed"}
<1>1. /\ pc[r] \in Here
      /\ UNCHANGED faultVars /\ UNCHANGED <<status, history, rows, reserved, fulfilled>>
      /\ \E p \in Then : \E m : Goto(r, p, m)
  <2>1. CASE ClaimEvent(r)
    BY <2>1 DEF ClaimEvent
  <2>2. CASE LookupShipment(r)
    BY <2>2 DEF LookupShipment
  <2>3. CASE ReadContext(r)
    BY <2>3 DEF ReadContext
  <2>4. CASE SnapshotTracking(r)
    BY <2>4 DEF SnapshotTracking
  <2>5. CASE ReleaseEvent(r)
    BY <2>5 DEF ReleaseEvent
  <2> QED BY <2>1, <2>2, <2>3, <2>4, <2>5
<1>2. PICK p \in Then : \E m : Goto(r, p, m)
  BY <1>1
<1>3. Calm(r, pc[r]) /\ Calm(r, p)
  BY <1>1 DEF Calm, Taken, Inserted, Voided, Restocked
<1>4. p \in Steps \ {"waiting", "find", "carrier", "voidRow", "read", "write"}
  BY DEF Steps, Tracking, Ended
<1> QED BY <1>1, <1>2, <1>3, <1>4, CalmKeeps

\* The steps of a transition and of a shipment that only read.
LEMMA ReadingSteps ==
    ASSUME TypeInv, OneByOne, NEW r \in Requests, r \in InFlight,
           ReadStatus(r) \/ CreateShipment(r) \/ MarkDelivered(r)
    PROVE  OneByOne'
<1>1. /\ crashed = {} /\ SentBySome /\ Runs(r) /\ InFlight = {r} /\ Phase(r, pc[r], mem[r])
      /\ \A o \in Orders \ {mem[r].order} : Settled(o)
      /\ Fits(r, pc[r], mem[r]) /\ mem[r] \in Locals
  BY AtWork
<1>2. /\ pc[r] \in {"read", "ship", "deliver"}
      /\ UNCHANGED faultVars /\ UNCHANGED <<status, history, rows, reserved, fulfilled>>
  BY DEF ReadStatus, CreateShipment, MarkDelivered
<1>3. CASE Fail(r)
  BY <1>1, <1>2, <1>3, FailKeeps
<1>4. CASE MarkDelivered(r) /\ Goto(r, "read", mem[r])
  <2>1. pc[r] = "deliver" /\ Job[r].kind = "track"
    BY <1>1, <1>4 DEF MarkDelivered, Fits, Tracking
  <2>2. Calm(r, pc[r]) /\ Calm(r, "read")
    BY <2>1 DEF Calm, Taken, Inserted, Voided, Restocked, Ships
  <2>3. "read" \in Steps
    BY DEF Steps, Shipping, Transitioning
  <2> QED BY <1>2, <1>4, <2>1, <2>2, <2>3, CalmKeeps
<1>5. CASE CreateShipment(r) /\ Goto(r, "insert", mem[r])
  <2>1. PICK m : m = mem[r]
    OBVIOUS
  <2>2. pc[r] = "ship" /\ "insert" \in Steps
    BY <1>5 DEF CreateShipment, Steps, Shipping
  <2>3. Phase(r, "insert", m)
    BY <1>1, <2>1, <2>2 DEF Phase, PhaseOfStock, PhaseOfVoid, PhaseOfStatus, Calm, Taken,
       Inserted, Voided, Restocked
  <2> QED BY <1>1, <1>2, <1>5, <2>1, <2>2, <2>3, IdleKeeps
<1>6. CASE /\ ReadStatus(r) /\ CanTransition(status[mem[r].order], Target(r))
           /\ Goto(r, "write", [mem[r] EXCEPT !.seen = status[mem[r].order]])
  <2>1. PICK m : m = [mem[r] EXCEPT !.seen = status[mem[r].order]]
    OBVIOUS
  <2>2. pc[r] = "read" /\ "write" \in Steps
    BY <1>6 DEF ReadStatus, Steps, Shipping, Transitioning
  <2>3. /\ m.order = mem[r].order /\ m.held = mem[r].held /\ m.stock = mem[r].stock
        /\ m.answer = mem[r].answer /\ m.seen = status[m.order]
    BY <1>1, <2>1 DEF Locals
  <2>4. PhaseOfStock(r, "write", m)
    BY <1>1, <2>2, <2>3 DEF Phase, PhaseOfStock, Taken, Inserted
  <2>5. PhaseOfVoid(r, "write", m)
    BY <1>1, <2>2, <2>3 DEF Phase, PhaseOfVoid, Voided, Restocked
  <2>6. PhaseOfStatus(r, "write", m)
    BY <1>1, <1>6, <2>2, <2>3 DEF Phase, PhaseOfStatus
  <2>7. Phase(r, "write", m)
    BY <1>1, <2>2, <2>3, <2>4, <2>5, <2>6
       DEF Phase, Calm, Taken, Inserted, Voided, Restocked
  <2> QED BY <1>1, <1>2, <1>6, <2>1, <2>2, <2>3, <2>7, IdleKeeps
<1> QED BY <1>3, <1>4, <1>5, <1>6 DEF ReadStatus, CreateShipment, MarkDelivered

\* The steps of a void that only read.
LEMMA VoidReadingSteps ==
    ASSUME TypeInv, OneByOne, NEW r \in Requests, r \in InFlight,
           \/ FindActive(r) \/ VoidApproved(r) \/ VoidRefused(r) \/ VoidUnanswered(r)
           \/ RestoreReservations(r)
    PROVE  OneByOne'
<1>1. /\ crashed = {} /\ SentBySome /\ Runs(r) /\ InFlight = {r} /\ Phase(r, pc[r], mem[r])
      /\ \A o \in Orders \ {mem[r].order} : Settled(o)
      /\ Fits(r, pc[r], mem[r]) /\ mem[r] \in Locals
  BY AtWork
<1>2. /\ pc[r] \in {"find", "carrier", "restore"}
      /\ UNCHANGED faultVars /\ UNCHANGED <<status, history, rows, reserved, fulfilled>>
  BY DEF FindActive, VoidApproved, VoidRefused, VoidUnanswered, RestoreReservations
<1>3. Job[r].kind = "void" /\ mem[r].order \in Orders
  BY <1>1, <1>2 DEF Fits, Voiding, Ended
<1>4. CASE VoidUnanswered(r)
  <2>1. PICK m : Goto(r, "failed", m)
    BY <1>4 DEF VoidUnanswered
  <2>2. Calm(r, pc[r]) /\ Calm(r, "failed") /\ "failed" \in Steps
    BY <1>4 DEF VoidUnanswered, Calm, Taken, Inserted, Voided, Restocked, Steps, Ended
  <2> QED BY <1>2, <2>1, <2>2, CalmKeeps
<1>5. CASE FindActive(r)
  <2>1. CASE Fail(r)
    BY <1>1, <1>2, <2>1, FailKeeps
  <2>2. CASE \E t \in Active(mem[r].order) :
               Goto(r, IF rows[t].labelled THEN "carrier" ELSE "voidRow",
                    [mem[r] EXCEPT !.held = t])
    <3>1. PICK t \in Active(mem[r].order) :
               Goto(r, IF rows[t].labelled THEN "carrier" ELSE "voidRow",
                    [mem[r] EXCEPT !.held = t])
      BY <2>2
    <3>2. PICK m : m = [mem[r] EXCEPT !.held = t]
      OBVIOUS
    <3>3. PICK p : p = IF rows[t].labelled THEN "carrier" ELSE "voidRow"
      OBVIOUS
    <3>4. m.order = mem[r].order /\ m.held = t
      BY <1>1, <3>2 DEF Locals
    <3>5. pc[r] = "find" /\ p \in Steps \ {"waiting"} /\ p \in {"carrier", "voidRow"}
      BY <1>5, <3>3 DEF FindActive, Steps, Voiding
    <3>6. Phase(r, p, m)
      BY <1>1, <1>3, <3>1, <3>3, <3>4, <3>5
         DEF Phase, PhaseOfStock, PhaseOfVoid, PhaseOfStatus, Calm, Taken, Inserted, Voided,
             Restocked
    <3> QED BY <1>1, <1>2, <3>1, <3>2, <3>3, <3>4, <3>5, <3>6, IdleKeeps
  <2> QED BY <1>5, <2>1, <2>2 DEF FindActive
<1>6. CASE VoidApproved(r) \/ VoidRefused(r)
  <2>1. PICK a \in BOOLEAN : Goto(r, "voidRow", [mem[r] EXCEPT !.answer = a])
    BY <1>6 DEF VoidApproved, VoidRefused
  <2>2. PICK m : m = [mem[r] EXCEPT !.answer = a]
    OBVIOUS
  <2>3. m.order = mem[r].order /\ m.held = mem[r].held
    BY <1>1, <2>2 DEF Locals
  <2>4. pc[r] = "carrier" /\ "voidRow" \in Steps
    BY <1>6 DEF VoidApproved, VoidRefused, Steps, Voiding
  <2>5. Phase(r, "voidRow", m)
    BY <1>1, <1>3, <2>3, <2>4
       DEF Phase, PhaseOfStock, PhaseOfVoid, PhaseOfStatus, Calm, Taken, Inserted, Voided,
           Restocked
  <2> QED BY <1>1, <1>2, <2>1, <2>2, <2>3, <2>4, <2>5, IdleKeeps
<1>7. CASE RestoreReservations(r)
  <2>1. PICK m : m = [mem[r] EXCEPT !.stock =
                        IF fulfilled[mem[r].order] # {} /\ reserved[mem[r].order] = {}
                        THEN {r} ELSE {}]
    OBVIOUS
  <2>2. pc[r] = "restore" /\ "reserve" \in Steps /\ Goto(r, "reserve", m)
    BY <1>7, <2>1 DEF RestoreReservations, Steps, Voiding
  <2>3. status[mem[r].order] \in Sent /\ reserved[mem[r].order] = {}
    BY <1>1, <2>2 DEF Phase, PhaseOfVoid, Voided
  <2>4. fulfilled[mem[r].order] # {}
    BY <1>1, <1>3, <2>3 DEF SentBySome
  <2>5. m.order = mem[r].order /\ m.held = mem[r].held /\ m.stock = {r}
    BY <1>1, <2>1, <2>3, <2>4 DEF Locals
  <2>6. Phase(r, "reserve", m)
    BY <1>1, <1>3, <2>2, <2>5
       DEF Phase, PhaseOfStock, PhaseOfVoid, PhaseOfStatus, Calm, Taken, Inserted, Voided,
           Restocked, One
  <2> QED BY <1>1, <1>2, <2>2, <2>5, <2>6, IdleKeeps
<1> QED BY <1>4, <1>5, <1>6, <1>7

\* An entry that starts where the walk of o has got to makes it longer.
LEMMA WalkGrows ==
    ASSUME TypeInv, NEW o \in Orders, NEW from, NEW to, NEW s, Walked(o, s),
           history' = [history EXCEPT ![o] = Append(@, [from |-> from, to |-> to])],
           IF from = None THEN to = s ELSE from = s /\ CanTransition(from, to)
    PROVE  Walked(o, to)'
<1>1. PICK h : h = history[o]
  OBVIOUS
<1>2. h \in Seq([from : Statuses \cup {None}, to : Statuses])
  BY <1>1 DEF TypeInv, TypeOK
<1>3. history'[o] = Append(h, [from |-> from, to |-> to])
  BY <1>1 DEF TypeInv, TypeOK
<1>4. PICK n : n = Len(h)
  OBVIOUS
<1>5. n \in Nat
  BY <1>2, <1>4
<1> DEFINE g == Append(h, [from |-> from, to |-> to])
<1>6. /\ Len(g) = n + 1
      /\ \A i \in 1..n : g[i] = h[i]
      /\ g[n + 1] = [from |-> from, to |-> to]
  BY <1>2, <1>4
<1> HIDE DEF g
<1>7. /\ \A i \in 0..n : Reached(o, i)' = Reached(o, i)
      /\ Reached(o, n + 1)' = to
  BY <1>1, <1>3, <1>5, <1>6 DEF Reached, g
<1>8. Reached(o, n) = s
  BY <1>1, <1>4 DEF Walked
<1>9. ASSUME NEW i \in 1..(n + 1)
      PROVE  IF g[i].from = None THEN g[i].to = Reached(o, i - 1)'
             ELSE g[i].from = Reached(o, i - 1)' /\ CanTransition(g[i].from, g[i].to)
  <2>1. CASE i \in 1..n
    <3>1. IF h[i].from = None THEN h[i].to = Reached(o, i - 1)
          ELSE h[i].from = Reached(o, i - 1) /\ CanTransition(h[i].from, h[i].to)
      BY <1>1, <1>4, <2>1 DEF Walked
    <3>2. Reached(o, i - 1)' = Reached(o, i - 1) /\ g[i] = h[i]
      BY <1>5, <1>6, <1>7, <2>1
    <3> QED BY <3>1, <3>2
  <2>2. CASE i = n + 1
    BY <1>5, <1>6, <1>7, <1>8, <2>2
  <2> QED BY <1>5, <2>1, <2>2
<1>10. history'[o] = g
  BY <1>3 DEF g
<1> QED BY <1>5, <1>6, <1>7, <1>9, <1>10 DEF Walked

\* The status is written.
LEMMA WriteStep ==
    ASSUME TypeInv, OneByOne, NEW r \in Requests, r \in InFlight, WriteStatus(r)
    PROVE  OneByOne'
<1>1. /\ crashed = {} /\ SentBySome /\ Runs(r) /\ InFlight = {r} /\ Phase(r, pc[r], mem[r])
      /\ \A o \in Orders \ {mem[r].order} : Settled(o)
      /\ Fits(r, pc[r], mem[r]) /\ mem[r] \in Locals
  BY AtWork
<1>2. PICK m : m = mem[r]
  OBVIOUS
<1>3. PICK o : o = mem[r].order
  OBVIOUS
<1>4. /\ pc[r] = "write" /\ status' = [status EXCEPT ![o] = Target(r)]
      /\ Goto(r, "log", m) /\ UNCHANGED <<history, rows, reserved, fulfilled, crashed, faults>>
      /\ "log" \in Steps
  BY <1>2, <1>3 DEF WriteStatus, Steps, Shipping, Transitioning
<1>5. o \in Orders /\ m.order = o /\ status[o] \in Statuses
  BY <1>1, <1>2, <1>3, <1>4 DEF Fits, Ended, TypeInv, TypeOK
<1>6. status'[o] = Target(r) /\ \A x \in Orders \ {o} : status'[x] = status[x]
  BY <1>4, <1>5 DEF TypeInv, TypeOK
<1>7. m.seen = status[o] /\ CanTransition(m.seen, Target(r)) /\ m.seen # None
  BY <1>1, <1>2, <1>4, <1>5, OrdersAssumption DEF Phase, PhaseOfStatus
<1>8. \A x : Active(x)' = Active(x)
  BY <1>4 DEF Active, Recorded
<1>9. Job[r].kind \in {"move", "record", "buy", "void", "track"}
  BY JobAssumption
<1>10. /\ Walked(o, m.seen)'
       /\ RowsAgree(o, Active(o))' /\ StockAgrees(o, reserved[o])'
       /\ Ships(r) => r \in fulfilled'[o]
       /\ status'[o] \in Sent => status[o] \in Sent \/ Ships(r)
  <2>1. CASE Ships(r)
    <3>1. Inserted(r, "write") /\ Target(r) = "shipped"
      BY <2>1 DEF Inserted, Ships, Target
    <3>2. status[o] \notin Sent
      BY <1>5, <1>7, <3>1 DEF CanTransition, Transitions, Sent, Statuses
    <3>3. /\ reserved[o] = {} /\ Walked(o, status[o])
          /\ m.held \in Active(o) /\ RowsAgree(o, Active(o) \ {m.held}) /\ r \in fulfilled[o]
      BY <1>1, <1>2, <1>4, <1>5, <2>1, <3>1 DEF Phase, PhaseOfStock
    <3>4. Active(o) = {m.held}
      BY <3>2, <3>3 DEF RowsAgree
    <3> QED BY <1>4, <1>6, <1>7, <1>8, <2>1, <3>1, <3>3, <3>4
            DEF RowsAgree, StockAgrees, One, Sent, Walked, Reached
  <2>2. CASE Job[r].kind = "void"
    <3>1. Restocked(r, "write") /\ Target(r) = "packing"
      BY <2>2 DEF Restocked, Target
    <3>2. /\ status[o] \in Sent /\ Active(o) = {} /\ Walked(o, status[o])
          /\ One(reserved[o])
      BY <1>1, <1>2, <1>4, <1>5, <3>1 DEF Phase, PhaseOfVoid
    <3> QED BY <1>4, <1>6, <1>7, <1>8, <2>2, <3>1, <3>2
            DEF RowsAgree, StockAgrees, One, Sent, Walked, Reached, Ships
  <2>3. CASE Job[r].kind \in {"move", "track"}
    <3>1. Calm(r, "write") /\ ~Ships(r)
      BY <2>3 DEF Calm, Taken, Inserted, Voided, Restocked, Ships
    <3>2. Settled(o)
      BY <1>1, <1>2, <1>4, <1>5, <3>1 DEF Phase
    <3>3. Target(r) # "shipped" /\ (Target(r) = "packing" => Active(o) = {})
      BY <1>1, <1>2, <1>4, <1>5, <2>3 DEF Phase, PhaseOfStatus, Target
    <3>4. status'[o] \in Sent <=> status[o] \in Sent
      <4>1. CASE status[o] = "shipped"
        BY <1>5, <1>6, <1>7, <3>2, <3>3, <4>1
           DEF CanTransition, Transitions, Sent, Settled, RowsAgree, One
      <4>2. CASE status[o] # "shipped"
        BY <1>5, <1>6, <1>7, <3>3, <4>2 DEF CanTransition, Transitions, Sent, Statuses
      <4> QED BY <4>1, <4>2
    <3> QED BY <1>4, <1>6, <1>7, <1>8, <3>1, <3>2, <3>4
            DEF Settled, RowsAgree, StockAgrees, Walked, Reached
  <2> QED BY <1>9, <2>1, <2>2, <2>3 DEF Ships
<1>11. Phase(r, "log", m)'
  BY <1>5, <1>6, <1>7, <1>10
     DEF Phase, PhaseOfStock, PhaseOfVoid, PhaseOfStatus, Calm, Taken, Inserted, Voided,
         Restocked, Target
<1>12. \A x \in Orders \ {o} : Settled(x)'
  BY <1>1, <1>3, <1>4, <1>6, <1>8, SettledStays
<1>13. \A s \in Requests \ {r} : pc'[s] = pc[s]
  BY <1>4 DEF Goto, TypeInv, TypeOK
<1>14. pc'[r] = "log"
  BY <1>4 DEF Goto, TypeInv, TypeOK
<1>15. SentBySome'
  <2>1. ASSUME NEW x \in Orders, status'[x] \in Sent
        PROVE  \E s \in fulfilled'[x] : pc'[s] = "done" \/ (pc'[s] = "log" /\ Ships(s))
    <3>1. CASE status[x] \in Sent
      <4>1. PICK s \in fulfilled[x] : pc[s] = "done" \/ (pc[s] = "log" /\ Ships(s))
        BY <1>1, <3>1 DEF SentBySome
      <4>2. s \in Requests \ {r}
        BY <1>4, <4>1 DEF TypeInv, TypeOK
      <4> QED BY <1>4, <1>13, <4>1, <4>2
    <3>2. CASE status[x] \notin Sent
      BY <1>6, <1>10, <1>14, <2>1, <3>2
    <3> QED BY <3>1, <3>2
  <2> QED BY <2>1 DEF SentBySome, Ships
<1> QED BY <1>1, <1>4, <1>5, <1>11, <1>12, <1>15, StepKeeps

\* The entry is written.
LEMMA LogStep ==
    ASSUME TypeInv, OneByOne, NEW r \in Requests, r \in InFlight, LogTransition(r)
    PROVE  OneByOne'
<1>1. /\ crashed = {} /\ SentBySome /\ Runs(r) /\ InFlight = {r} /\ Phase(r, pc[r], mem[r])
      /\ \A o \in Orders \ {mem[r].order} : Settled(o)
      /\ Fits(r, pc[r], mem[r]) /\ mem[r] \in Locals
  BY AtWork
<1>2. PICK m : m = mem[r]
  OBVIOUS
<1>3. PICK o : o = m.order
  OBVIOUS
<1>4. PICK to : to = Target(r)
  OBVIOUS
<1>5. /\ pc[r] = "log"
      /\ history' = [history EXCEPT ![o] = Append(@, [from |-> m.seen, to |-> to])]
      /\ Goto(r, "done", m) /\ UNCHANGED <<status, rows, reserved, fulfilled, crashed, faults>>
      /\ "done" \in Steps
  BY <1>2, <1>3, <1>4 DEF LogTransition, Steps, Ended
<1>6. o \in Orders
  BY <1>1, <1>2, <1>3, <1>5 DEF Fits, Ended
<1>7. /\ RowsAgree(o, Active(o)) /\ StockAgrees(o, reserved[o]) /\ Walked(o, m.seen)
      /\ status[o] = to /\ CanTransition(m.seen, to) /\ m.seen # None
  BY <1>1, <1>2, <1>3, <1>4, <1>5 DEF Phase, PhaseOfStatus
<1>8. \A x : Active(x)' = Active(x)
  BY <1>5 DEF Active, Recorded
<1>9. Walked(o, status[o])'
  <2>1. Walked(o, to)'
    BY <1>5, <1>6, <1>7, WalkGrows
  <2> QED BY <1>5, <1>7, <2>1 DEF Walked, Reached
<1>10. Settled(o)'
  BY <1>5, <1>7, <1>8, <1>9 DEF Settled, RowsAgree, StockAgrees
<1>11. ASSUME NEW x \in Orders \ {o} PROVE Settled(x)'
  <2>1. history'[x] = history[x]
    BY <1>5 DEF TypeInv, TypeOK
  <2> QED BY <1>1, <1>2, <1>3, <1>5, <1>8, <2>1, SettledStays
<1>12. \A s \in Requests : pc'[s] = IF s = r THEN "done" ELSE pc[s]
  BY <1>5 DEF Goto, TypeInv, TypeOK
<1>13. fulfilled \in [Orders -> SUBSET Requests]
  BY DEF TypeInv, TypeOK
<1>14. SentBySome'
  BY <1>1, <1>5, <1>12, <1>13 DEF SentBySome, Ships
<1>15. Calm(r, "done")
  BY DEF Calm, Taken, Inserted, Voided, Restocked
<1> QED BY <1>5, <1>10, <1>11, <1>14, <1>15, CalmStep

\* Medusa's fulfilment takes the stock of the order.
LEMMA FulfilStep ==
    ASSUME TypeInv, OneByOne, NEW r \in Requests, r \in InFlight, CreateFulfilment(r)
    PROVE  OneByOne'
<1>1. /\ crashed = {} /\ SentBySome /\ Runs(r) /\ InFlight = {r} /\ Phase(r, pc[r], mem[r])
      /\ \A o \in Orders \ {mem[r].order} : Settled(o)
      /\ Fits(r, pc[r], mem[r]) /\ mem[r] \in Locals
  BY AtWork
<1>2. pc[r] = "fulfil" /\ UNCHANGED <<status, history, rows, crashed, faults>>
  BY DEF CreateFulfilment
<1>3. CASE Fail(r) /\ UNCHANGED <<reserved, fulfilled>>
  BY <1>1, <1>2, <1>3, FailKeeps
<1>4. CASE /\ Goto(r, "ship", [mem[r] EXCEPT !.stock = reserved[mem[r].order]])
           /\ reserved' = [reserved EXCEPT ![mem[r].order] = {}]
           /\ fulfilled' = [fulfilled EXCEPT ![mem[r].order] = @ \cup {r}]
  <2>1. PICK m : m = [mem[r] EXCEPT !.stock = reserved[mem[r].order]]
    OBVIOUS
  <2>2. PICK o : o = mem[r].order
    OBVIOUS
  <2>3. m.order = o /\ m.stock = reserved[o] /\ o \in Orders /\ "ship" \in Steps
    BY <1>1, <1>2, <2>1, <2>2 DEF Locals, Fits, Ended, Steps, Shipping
  <2>4. /\ reserved'[o] = {} /\ r \in fulfilled'[o]
        /\ \A x \in Orders \ {o} : reserved'[x] = reserved[x]
        /\ \A x \in Orders : fulfilled[x] \subseteq fulfilled'[x]
    BY <1>4, <2>2, <2>3 DEF TypeInv, TypeOK
  <2>5. \A x : Active(x)' = Active(x)
    BY <1>2 DEF Active, Recorded
  <2>6. Settled(o)
    BY <1>1, <1>2, <2>2, <2>3 DEF Phase, Calm, Taken, Inserted, Voided, Restocked
  <2>7. StockAgrees(o, m.stock)' /\ RowsAgree(o, Active(o))' /\ Walked(o, status[o])'
    BY <1>2, <2>3, <2>5, <2>6 DEF Settled, StockAgrees, RowsAgree, Walked, Reached
  <2>8. Phase(r, "ship", m)'
    BY <2>3, <2>4, <2>7
       DEF Phase, PhaseOfStock, PhaseOfVoid, PhaseOfStatus, Calm, Taken, Inserted, Voided,
           Restocked
  <2>9. \A x \in Orders \ {o} : Settled(x)'
    BY <1>1, <1>2, <2>2, <2>4, <2>5, SettledStays
  <2>10. SentBySome'
    BY <1>1, <1>2, <1>4, <2>1, <2>4, SentStays
  <2> QED BY <1>1, <1>2, <1>4, <2>1, <2>3, <2>8, <2>9, <2>10, StepKeeps
<1> QED BY <1>2, <1>3, <1>4 DEF CreateFulfilment

\* And the compensation gives it back.
LEMMA UndoFulfilmentStep ==
    ASSUME TypeInv, OneByOne, NEW r \in Requests, r \in InFlight, UndoFulfilment(r)
    PROVE  OneByOne'
<1>1. /\ crashed = {} /\ SentBySome /\ Runs(r) /\ InFlight = {r} /\ Phase(r, pc[r], mem[r])
      /\ \A o \in Orders \ {mem[r].order} : Settled(o)
      /\ Fits(r, pc[r], mem[r]) /\ mem[r] \in Locals
  BY AtWork
<1>2. PICK p : p = IF Job[r].kind = "buy" THEN "undoFile" ELSE "failed"
  OBVIOUS
<1>3. PICK o : o = mem[r].order
  OBVIOUS
<1>4. /\ pc[r] = "undoFulfilment" /\ Goto(r, p, mem[r])
      /\ fulfilled' = [fulfilled EXCEPT ![o] = @ \ {r}]
      /\ reserved' = [reserved EXCEPT ![o] = @ \cup mem[r].stock]
      /\ UNCHANGED <<status, history, rows, crashed, faults>>
  BY <1>2, <1>3 DEF UndoFulfilment
<1>5. o \in Orders /\ p \in Steps \ {"waiting", "find", "carrier", "voidRow", "read", "write"}
  BY <1>1, <1>2, <1>3, <1>4 DEF Fits, Ended, Steps, Unwinding
<1>6. /\ reserved'[o] = reserved[o] \cup mem[r].stock
      /\ \A x \in Orders \ {o} : reserved'[x] = reserved[x]
      /\ \A x \in Orders : fulfilled[x] \ {r} \subseteq fulfilled'[x]
  BY <1>4, <1>5 DEF TypeInv, TypeOK
<1>7. \A x : Active(x)' = Active(x)
  BY <1>4 DEF Active, Recorded
<1>8. /\ reserved[o] = {} /\ StockAgrees(o, mem[r].stock) /\ Walked(o, status[o])
      /\ RowsAgree(o, Active(o))
  BY <1>1, <1>3, <1>4 DEF Phase, PhaseOfStock, Taken
<1>9. Settled(o)'
  <2>1. reserved'[o] = mem[r].stock
    BY <1>6, <1>8
  <2> QED BY <1>4, <1>7, <1>8, <2>1 DEF Settled, StockAgrees, RowsAgree, Walked, Reached
<1>10. \A x \in Orders : Settled(x)'
  BY <1>1, <1>3, <1>4, <1>6, <1>7, <1>9, SettledStays
<1>11. SentBySome'
  BY <1>1, <1>4, <1>6, SentStays
<1>12. Calm(r, p)
  BY <1>2 DEF Calm, Taken, Inserted, Voided, Restocked
<1> QED BY <1>4, <1>5, <1>10, <1>11, <1>12, CalmStep

\* The row is put.
LEMMA InsertStep ==
    ASSUME TypeInv, OneByOne, NEW r \in Requests, r \in InFlight, InsertRow(r)
    PROVE  OneByOne'
<1>1. /\ crashed = {} /\ SentBySome /\ Runs(r) /\ InFlight = {r} /\ Phase(r, pc[r], mem[r])
      /\ \A o \in Orders \ {mem[r].order} : Settled(o)
      /\ Fits(r, pc[r], mem[r]) /\ mem[r] \in Locals
  BY AtWork
<1>2. /\ pc[r] = "insert" /\ UNCHANGED <<status, history, reserved, fulfilled, crashed, faults>>
  BY DEF InsertRow
<1>3. CASE Fail(r) /\ UNCHANGED rows
  BY <1>1, <1>2, <1>3, FailKeeps
<1>4. CASE rows[mem[r].held] = NoRow /\ Goto(r, "read", mem[r])
  <2>1. PICK m : m = mem[r]
    OBVIOUS
  <2>2. PICK o : o = m.order
    OBVIOUS
  <2>3. PICK t : t = m.held
    OBVIOUS
  <2>4. o \in Orders /\ Ships(r) /\ t \in Trackings /\ "read" \in Steps
    BY <1>1, <1>2, <2>1, <2>2, <2>3, JobAssumption
       DEF Fits, Ended, Ships, ShipSteps, Steps, Shipping, Transitioning, Trackings
  <2>5. PICK row : /\ rows' = [rows EXCEPT ![t] = row]
                   /\ row.order = o /\ ~row.voided /\ row # NoRow
    <3> DEFINE new == [order |-> o, labelled |-> Job[r].kind = "buy",
                       file |-> IF mem[r].filed THEN r ELSE None,
                       voided |-> FALSE, void_approved |-> None,
                       tracking_status |-> "accepted", delivered |-> FALSE]
    <3>1. rows' = [rows EXCEPT ![t] = new]
      BY <1>4, <2>1, <2>2, <2>3 DEF InsertRow
    <3>2. new.order = o /\ ~new.voided
      OBVIOUS
    <3>3. new # NoRow
      BY <2>4, <3>2, OrdersAssumption DEF NoRow
    <3> QED BY <3>1, <3>2, <3>3
  <2>6. /\ rows'[t] = row /\ rows[t] = NoRow
        /\ \A x \in Trackings \ {t} : rows'[x] = rows[x]
    BY <1>4, <2>1, <2>3, <2>4, <2>5 DEF TypeInv, TypeOK
  <2>7. t \in Active(o)' /\ Active(o)' \ {t} = Active(o)
    BY <2>4, <2>5, <2>6 DEF Active, Recorded
  <2>8. \A x \in Orders \ {o} : Active(x)' = Active(x)
    BY <2>4, <2>5, <2>6 DEF Active, Recorded
  <2>9. /\ reserved[o] = {} /\ StockAgrees(o, m.stock) /\ Walked(o, status[o])
        /\ RowsAgree(o, Active(o)) /\ r \in fulfilled[o]
    BY <1>1, <1>2, <2>1, <2>2, <2>4 DEF Phase, PhaseOfStock, Taken
  <2>10. /\ StockAgrees(o, m.stock)' /\ Walked(o, status[o])' /\ RowsAgree(o, Active(o) \ {t})'
    BY <1>2, <2>7, <2>9 DEF StockAgrees, Walked, Reached, RowsAgree
  <2>11. Phase(r, "read", m)'
    BY <1>2, <2>2, <2>3, <2>4, <2>7, <2>9, <2>10
       DEF Phase, PhaseOfStock, PhaseOfVoid, PhaseOfStatus, Calm, Taken, Inserted, Voided,
           Restocked, Ships
  <2>12. \A x \in Orders \ {o} : Settled(x)'
    BY <1>1, <1>2, <2>1, <2>2, <2>8, SettledStays
  <2>13. SentBySome'
    BY <1>1, <1>2, <1>4, SentStays
  <2> QED BY <1>1, <1>2, <1>4, <2>1, <2>2, <2>4, <2>11, <2>12, <2>13, StepKeeps
<1> QED BY <1>3, <1>4 DEF InsertRow

\* And taken back.
LEMMA UndoRowStep ==
    ASSUME TypeInv, OneByOne, NEW r \in Requests, r \in InFlight, UndoRow(r)
    PROVE  OneByOne'
<1>1. /\ crashed = {} /\ SentBySome /\ Runs(r) /\ InFlight = {r} /\ Phase(r, pc[r], mem[r])
      /\ \A o \in Orders \ {mem[r].order} : Settled(o)
      /\ Fits(r, pc[r], mem[r]) /\ mem[r] \in Locals
  BY AtWork
<1>2. PICK m : m = mem[r]
  OBVIOUS
<1>3. PICK o : o = m.order
  OBVIOUS
<1>4. PICK t : t = m.held
  OBVIOUS
<1>5. /\ pc[r] = "undoRow" /\ rows' = [rows EXCEPT ![t] = NoRow]
      /\ Goto(r, "undoFulfilment", m) /\ "undoFulfilment" \in Steps
      /\ UNCHANGED <<status, history, reserved, fulfilled, crashed, faults>>
  BY <1>2, <1>4 DEF UndoRow, Steps, Unwinding
<1>6. o \in Orders /\ Ships(r)
  BY <1>1, <1>2, <1>3, <1>5 DEF Fits, Ended, Ships, ShipSteps
<1>7. /\ reserved[o] = {} /\ StockAgrees(o, m.stock) /\ Walked(o, status[o])
      /\ t \in Active(o) /\ RowsAgree(o, Active(o) \ {t}) /\ r \in fulfilled[o]
  BY <1>1, <1>2, <1>3, <1>4, <1>5, <1>6 DEF Phase, PhaseOfStock, Inserted
<1>8. rows'[t] = NoRow /\ rows[t].order = o /\ \A x \in Trackings \ {t} : rows'[x] = rows[x]
  BY <1>5, <1>7 DEF Active, Recorded, TypeInv, TypeOK
<1>9. Active(o)' = Active(o) \ {t}
  BY <1>8 DEF Active, Recorded
<1>10. \A x \in Orders \ {o} : Active(x)' = Active(x)
  BY <1>8 DEF Active, Recorded
<1>11. /\ StockAgrees(o, m.stock)' /\ Walked(o, status[o])' /\ RowsAgree(o, Active(o))'
  BY <1>5, <1>7, <1>9 DEF StockAgrees, Walked, Reached, RowsAgree
<1>12. Phase(r, "undoFulfilment", m)'
  BY <1>3, <1>5, <1>7, <1>11
     DEF Phase, PhaseOfStock, PhaseOfVoid, PhaseOfStatus, Calm, Taken, Inserted, Voided,
         Restocked
<1>13. \A x \in Orders \ {o} : Settled(x)'
  BY <1>1, <1>2, <1>3, <1>5, <1>10, SettledStays
<1>14. SentBySome'
  BY <1>1, <1>5, SentStays
<1> QED BY <1>1, <1>3, <1>5, <1>12, <1>13, <1>14, StepKeeps

\* The order is warned of a label left behind.
LEMMA NoteStep ==
    ASSUME TypeInv, OneByOne, NEW r \in Requests, r \in InFlight, NoteOrphan(r)
    PROVE  OneByOne'
<1>1. /\ crashed = {} /\ SentBySome /\ Runs(r) /\ InFlight = {r} /\ Phase(r, pc[r], mem[r])
      /\ \A o \in Orders \ {mem[r].order} : Settled(o)
      /\ Fits(r, pc[r], mem[r]) /\ mem[r] \in Locals
  BY AtWork
<1>2. PICK o : o = mem[r].order
  OBVIOUS
<1>3. PICK s : s = status[o]
  OBVIOUS
<1>4. /\ pc[r] = "note" /\ Goto(r, "failed", mem[r]) /\ "failed" \in Steps
      /\ history' = [history EXCEPT ![o] = Append(@, [from |-> None, to |-> s])]
      /\ UNCHANGED <<status, rows, reserved, fulfilled, crashed, faults>>
  BY <1>2, <1>3 DEF NoteOrphan, Steps, Ended
<1>5. o \in Orders
  BY <1>1, <1>2, <1>4 DEF Fits, Ended
<1>6. Settled(o)
  BY <1>1, <1>2, <1>4, <1>5 DEF Phase, Calm, Taken, Inserted, Voided, Restocked
<1>7. \A x : Active(x)' = Active(x)
  BY <1>4 DEF Active, Recorded
<1>8. Settled(o)'
  <2>1. Walked(o, s)'
    BY <1>3, <1>4, <1>5, <1>6, WalkGrows DEF Settled
  <2> QED BY <1>3, <1>4, <1>6, <1>7, <2>1
          DEF Settled, RowsAgree, StockAgrees, Walked, Reached
<1>9. ASSUME NEW x \in Orders \ {o} PROVE Settled(x)'
  <2>1. history'[x] = history[x]
    BY <1>4 DEF TypeInv, TypeOK
  <2> QED BY <1>1, <1>2, <1>4, <1>7, <2>1, SettledStays
<1>10. SentBySome'
  BY <1>1, <1>4, SentStays
<1>11. Calm(r, "failed")
  BY DEF Calm, Taken, Inserted, Voided, Restocked
<1> QED BY <1>4, <1>8, <1>9, <1>10, <1>11, CalmStep

\* The active row is marked as voided.
LEMMA VoidRowStep ==
    ASSUME TypeInv, OneByOne, NEW r \in Requests, r \in InFlight, VoidRow(r)
    PROVE  OneByOne'
<1>1. /\ crashed = {} /\ SentBySome /\ Runs(r) /\ InFlight = {r} /\ Phase(r, pc[r], mem[r])
      /\ \A o \in Orders \ {mem[r].order} : Settled(o)
      /\ Fits(r, pc[r], mem[r]) /\ mem[r] \in Locals
  BY AtWork
<1>2. /\ pc[r] = "voidRow" /\ UNCHANGED <<status, history, reserved, fulfilled, crashed, faults>>
  BY DEF VoidRow
<1>3. CASE Fail(r) /\ UNCHANGED rows
  BY <1>1, <1>2, <1>3, FailKeeps
<1>4. ASSUME NEW t \in Active(mem[r].order),
             rows' = [rows EXCEPT ![t].voided = TRUE, ![t].void_approved = mem[r].answer],
             Goto(r, "restore", [mem[r] EXCEPT !.held = t])
      PROVE  OneByOne'
  <2>1. PICK m : m = [mem[r] EXCEPT !.held = t]
    OBVIOUS
  <2>2. PICK o : o = mem[r].order
    OBVIOUS
  <2>3. PICK u : u = t
    OBVIOUS
  <2>4. m.order = o /\ m.held = u /\ o \in Orders /\ "restore" \in Steps
    BY <1>1, <1>2, <2>1, <2>2, <2>3 DEF Locals, Fits, Ended, Steps, Voiding
  <2>5. u \in Active(o) /\ u \in Trackings /\ rows[u] \in Rows
    BY <1>4, <2>2, <2>3 DEF Active, Recorded, TypeInv, TypeOK
  <2>6. Settled(o)
    BY <1>1, <1>2, <2>2, <2>4 DEF Phase, Calm, Taken, Inserted, Voided, Restocked
  <2>7. status[o] \in Sent /\ Active(o) = {u} /\ reserved[o] = {} /\ Walked(o, status[o])
    BY <2>5, <2>6 DEF Settled, RowsAgree, StockAgrees, One
  <2>8. /\ rows'[u] = [[rows[u] EXCEPT !.voided = TRUE] EXCEPT !.void_approved = mem[r].answer]
        /\ \A x \in Trackings \ {u} : rows'[x] = rows[x]
    BY <1>4, <2>3, <2>5 DEF TypeInv, TypeOK
  <2>9. rows'[u].order = o /\ rows'[u].voided /\ rows'[u] # NoRow
    BY <2>4, <2>5, <2>8, OrdersAssumption DEF Rows, Active, NoRow
  <2>10. /\ Active(o)' = {} /\ u \in Recorded'
         /\ \A x \in Orders \ {o} : Active(x)' = Active(x)
    <3>1. \A x \in Orders : \A y : y \in Active(x)' <=> y \in Active(x) /\ y # u
      <4>1. ASSUME NEW x \in Orders, NEW y \in Trackings, y # u
            PROVE  y \in Active(x)' <=> y \in Active(x)
        BY <2>8, <4>1 DEF Active, Recorded
      <4>2. ASSUME NEW x \in Orders
            PROVE  u \notin Active(x)'
        BY <2>9 DEF Active
      <4> QED BY <4>1, <4>2 DEF Active, Recorded
    <3>2. \A x \in Orders \ {o} : u \notin Active(x)
      BY <2>5 DEF Active
    <3>3. Active(o)' = {}
      BY <2>4, <2>7, <3>1
    <3>4. \A x \in Orders \ {o} : Active(x)' = Active(x)
      BY <3>1, <3>2
    <3>5. u \in Recorded'
      BY <2>5, <2>9 DEF Recorded
    <3> QED BY <3>3, <3>4, <3>5
  <2>11. Walked(o, status[o])'
    BY <1>2, <2>7 DEF Walked, Reached
  <2>12. Phase(r, "restore", m)'
    BY <1>2, <2>4, <2>7, <2>9, <2>10, <2>11
       DEF Phase, PhaseOfStock, PhaseOfVoid, PhaseOfStatus, Calm, Taken, Inserted, Voided,
           Restocked
  <2>13. \A x \in Orders \ {o} : Settled(x)'
    BY <1>1, <1>2, <2>2, <2>10, SettledStays
  <2>14. SentBySome'
    BY <1>1, <1>2, <1>4, <2>1, SentStays
  <2> QED BY <1>1, <1>2, <1>4, <2>1, <2>4, <2>12, <2>13, <2>14, StepKeeps
<1> QED BY <1>2, <1>3, <1>4 DEF VoidRow

\* The stock is put back.
LEMMA ReserveStep ==
    ASSUME TypeInv, OneByOne, NEW r \in Requests, r \in InFlight, CreateReservations(r)
    PROVE  OneByOne'
<1>1. /\ crashed = {} /\ SentBySome /\ Runs(r) /\ InFlight = {r} /\ Phase(r, pc[r], mem[r])
      /\ \A o \in Orders \ {mem[r].order} : Settled(o)
      /\ Fits(r, pc[r], mem[r]) /\ mem[r] \in Locals
  BY AtWork
<1>2. /\ pc[r] = "reserve" /\ UNCHANGED <<status, history, rows, fulfilled, crashed, faults>>
  BY DEF CreateReservations
<1>3. CASE Fail(r) /\ UNCHANGED reserved
  BY <1>1, <1>2, <1>3, FailKeeps
<1>4. CASE /\ reserved' = [reserved EXCEPT ![mem[r].order] = @ \cup mem[r].stock]
           /\ Goto(r, "read", mem[r])
  <2>1. PICK m : m = mem[r]
    OBVIOUS
  <2>2. PICK o : o = m.order
    OBVIOUS
  <2>3. o \in Orders /\ Job[r].kind = "void" /\ "read" \in Steps
    BY <1>1, <1>2, <2>1, <2>2 DEF Fits, Ended, Voiding, Steps, Shipping, Transitioning
  <2>4. /\ status[o] \in Sent /\ Active(o) = {} /\ Walked(o, status[o])
        /\ m.held \in Recorded /\ rows[m.held].order = o /\ reserved[o] = {} /\ One(m.stock)
    BY <1>1, <1>2, <2>1, <2>2 DEF Phase, PhaseOfVoid, Voided
  <2>5. reserved'[o] = m.stock /\ \A x \in Orders \ {o} : reserved'[x] = reserved[x]
    BY <1>4, <2>1, <2>2, <2>3, <2>4 DEF TypeInv, TypeOK
  <2>6. Recorded' = Recorded /\ \A x : Active(x)' = Active(x)
    BY <1>2 DEF Active, Recorded
  <2>7. Walked(o, status[o])'
    BY <1>2, <2>4 DEF Walked, Reached
  <2>8. Phase(r, "read", m)'
    BY <1>2, <2>2, <2>3, <2>4, <2>5, <2>6, <2>7
       DEF Phase, PhaseOfStock, PhaseOfVoid, PhaseOfStatus, Calm, Taken, Inserted, Voided,
           Restocked, Ships
  <2>9. \A x \in Orders \ {o} : Settled(x)'
    BY <1>1, <1>2, <2>1, <2>2, <2>5, <2>6, SettledStays
  <2>10. SentBySome'
    BY <1>1, <1>2, <1>4, SentStays
  <2> QED BY <1>1, <1>2, <1>4, <2>1, <2>2, <2>3, <2>8, <2>9, <2>10, StepKeeps
<1> QED BY <1>2, <1>3, <1>4 DEF CreateReservations

\* The compensations of a void.
LEMMA UnreserveStep ==
    ASSUME TypeInv, OneByOne, NEW r \in Requests, r \in InFlight, UndoReservations(r)
    PROVE  OneByOne'
<1>1. /\ crashed = {} /\ SentBySome /\ Runs(r) /\ InFlight = {r} /\ Phase(r, pc[r], mem[r])
      /\ \A o \in Orders \ {mem[r].order} : Settled(o)
      /\ Fits(r, pc[r], mem[r]) /\ mem[r] \in Locals
  BY AtWork
<1>2. PICK m : m = mem[r]
  OBVIOUS
<1>3. PICK o : o = m.order
  OBVIOUS
<1>4. /\ pc[r] = "unreserve" /\ Goto(r, "unvoid", m) /\ "unvoid" \in Steps
      /\ reserved' = [reserved EXCEPT ![o] = @ \ m.stock]
      /\ UNCHANGED <<status, history, rows, fulfilled, crashed, faults>>
  BY <1>2, <1>3 DEF UndoReservations, Steps, Voiding
<1>5. o \in Orders
  BY <1>1, <1>2, <1>3, <1>4 DEF Fits, Ended
<1>6. /\ status[o] \in Sent /\ Active(o) = {} /\ Walked(o, status[o])
      /\ m.held \in Recorded /\ rows[m.held].order = o /\ reserved[o] = m.stock
  BY <1>1, <1>2, <1>3, <1>4 DEF Phase, PhaseOfVoid, Restocked
<1>7. reserved'[o] = {} /\ \A x \in Orders \ {o} : reserved'[x] = reserved[x]
  BY <1>4, <1>5, <1>6 DEF TypeInv, TypeOK
<1>8. Recorded' = Recorded /\ \A x : Active(x)' = Active(x)
  BY <1>4 DEF Active, Recorded
<1>9. Walked(o, status[o])'
  BY <1>4, <1>6 DEF Walked, Reached
<1>10. Phase(r, "unvoid", m)'
  BY <1>3, <1>4, <1>6, <1>7, <1>8, <1>9
     DEF Phase, PhaseOfStock, PhaseOfVoid, PhaseOfStatus, Calm, Taken, Inserted, Voided,
         Restocked
<1>11. \A x \in Orders \ {o} : Settled(x)'
  BY <1>1, <1>2, <1>3, <1>4, <1>7, <1>8, SettledStays
<1>12. SentBySome'
  BY <1>1, <1>4, SentStays
<1> QED BY <1>1, <1>3, <1>4, <1>10, <1>11, <1>12, StepKeeps

\* One row changes: the active ones of an order are the same but for it.
LEMMA OneRowChanges ==
    ASSUME TypeInv, NEW t \in Trackings, \A u \in Trackings \ {t} : rows'[u] = rows[u]
    PROVE  /\ \A o : (t \in Active(o)') <=>
                        (rows'[t] # NoRow /\ rows'[t].order = o /\ ~rows'[t].voided)
           /\ \A o : (t \in Active(o)) <=>
                        (rows[t] # NoRow /\ rows[t].order = o /\ ~rows[t].voided)
           /\ \A o : Active(o)' \ {t} = Active(o) \ {t}
           /\ \A o : (t \in Active(o)' <=> t \in Active(o)) => Active(o)' = Active(o)
           /\ \A o : t \in Active(o)' /\ Active(o) = {} => Active(o)' = {t}
           /\ \A o : t \notin Active(o)' => Active(o)' = Active(o) \ {t}
           /\ \A o : t \notin Active(o) => Active(o)' \ {t} = Active(o)
<1>1. \A o : (t \in Active(o)') <=>
                (rows'[t] # NoRow /\ rows'[t].order = o /\ ~rows'[t].voided)
  BY DEF Active, Recorded
<1>2. \A o : (t \in Active(o)) <=>
                (rows[t] # NoRow /\ rows[t].order = o /\ ~rows[t].voided)
  BY DEF Active, Recorded
<1>3. \A o : Active(o)' \ {t} = Active(o) \ {t}
  BY DEF Active, Recorded
<1>4. ASSUME NEW o
      PROVE  /\ (t \in Active(o)' <=> t \in Active(o)) => Active(o)' = Active(o)
             /\ t \in Active(o)' /\ Active(o) = {} => Active(o)' = {t}
             /\ t \notin Active(o)' => Active(o)' = Active(o) \ {t}
             /\ t \notin Active(o) => Active(o)' \ {t} = Active(o)
  <2>1. PICK A : A = Active(o)
    OBVIOUS
  <2>2. PICK B : B = Active(o)'
    OBVIOUS
  <2>3. B \ {t} = A \ {t}
    BY <1>3, <2>1, <2>2
  <2>4. \A u : u # t => (u \in B <=> u \in A)
    BY <2>3
  <2>5. (t \in B <=> t \in A) => B = A
    <3>1. (t \in B <=> t \in A) => A \subseteq B /\ B \subseteq A
      BY <2>4
    <3> QED BY <3>1
  <2>6. t \in B /\ A = {} => B = {t}
    BY <2>4
  <2>7. t \notin B => B = A \ {t}
    BY <2>4
  <2>8. t \notin A => B \ {t} = A
    BY <2>4
  <2> QED BY <2>1, <2>2, <2>5, <2>6, <2>7, <2>8
<1> QED BY <1>1, <1>2, <1>3, <1>4

LEMMA UnvoidStep ==
    ASSUME TypeInv, OneByOne, NEW r \in Requests, r \in InFlight, UndoVoidRow(r)
    PROVE  OneByOne'
<1>1. /\ crashed = {} /\ SentBySome /\ Runs(r) /\ InFlight = {r} /\ Phase(r, pc[r], mem[r])
      /\ \A o \in Orders \ {mem[r].order} : Settled(o)
      /\ Fits(r, pc[r], mem[r]) /\ mem[r] \in Locals
  BY AtWork
<1>2. PICK o : o = mem[r].order
  OBVIOUS
<1>3. PICK t : t = mem[r].held
  OBVIOUS
<1>4. /\ pc[r] = "unvoid" /\ Goto(r, "failed", mem[r]) /\ "failed" \in Steps
      /\ UNCHANGED <<status, history, reserved, fulfilled, crashed, faults>>
  BY DEF UndoVoidRow, Steps, Ended
<1>5. o \in Orders
  BY <1>1, <1>2, <1>4 DEF Fits, Ended
<1>6. /\ status[o] \in Sent /\ Active(o) = {} /\ Walked(o, status[o])
      /\ t \in Recorded /\ rows[t].order = o /\ reserved[o] = {}
  BY <1>1, <1>2, <1>3, <1>4 DEF Phase, PhaseOfVoid, Voided
<1>7. t \in Trackings /\ rows[t] # NoRow /\ rows[t] \in Rows
  BY <1>6 DEF Recorded, TypeInv, TypeOK
<1>8. /\ rows'[t] = [[rows[t] EXCEPT !.voided = FALSE] EXCEPT !.void_approved = None]
      /\ \A x \in Trackings \ {t} : rows'[x] = rows[x]
  BY <1>3, <1>7 DEF UndoVoidRow, TypeInv, TypeOK
<1>9. rows'[t].order = o /\ ~rows'[t].voided /\ rows'[t] # NoRow
  <2>1. rows'[t].order = rows[t].order /\ rows'[t].voided = FALSE
    BY <1>7, <1>8 DEF Rows
  <2>2. rows'[t].order = o
    BY <1>6, <2>1
  <2>3. rows'[t] # NoRow
    BY <1>5, <2>2, OrdersAssumption DEF NoRow
  <2> QED BY <2>1, <2>2, <2>3
<1>10. Active(o)' = {t} /\ \A x \in Orders \ {o} : Active(x)' = Active(x)
  <2>1. t \in Active(o)'
    BY <1>7, <1>8, <1>9, OneRowChanges
  <2>2. Active(o)' = {t}
    BY <1>6, <1>7, <1>8, <2>1, OneRowChanges
  <2>3. \A x \in Orders \ {o} : t \notin Active(x) /\ t \notin Active(x)'
    BY <1>6, <1>7, <1>8, <1>9, OneRowChanges
  <2>4. \A x \in Orders \ {o} : Active(x)' = Active(x)
    BY <1>7, <1>8, <2>3, OneRowChanges
  <2> QED BY <2>2, <2>4
<1>11. Settled(o)'
  BY <1>4, <1>6, <1>10 DEF Settled, RowsAgree, StockAgrees, One, Walked, Reached
<1>12. \A x \in Orders : Settled(x)'
  BY <1>1, <1>2, <1>4, <1>10, <1>11, SettledStays
<1>13. SentBySome'
  BY <1>1, <1>4, SentStays
<1>14. Calm(r, "failed")
  BY DEF Calm, Taken, Inserted, Voided, Restocked
<1> QED BY <1>4, <1>12, <1>13, <1>14, CalmStep

\* Tracking moves, forth or back, and the order does not.
LEMMA ApplySteps ==
    ASSUME TypeInv, OneByOne, NEW r \in Requests, r \in InFlight,
           ApplyTrackingStatus(r) \/ UndoApply(r)
    PROVE  OneByOne'
<1>1. /\ crashed = {} /\ SentBySome /\ Runs(r) /\ InFlight = {r} /\ Phase(r, pc[r], mem[r])
      /\ \A o \in Orders \ {mem[r].order} : Settled(o)
      /\ Fits(r, pc[r], mem[r]) /\ mem[r] \in Locals
  BY AtWork
<1>2. /\ pc[r] \in {"apply", "undoApply"}
      /\ UNCHANGED <<status, history, reserved, fulfilled, crashed, faults>>
  BY DEF ApplyTrackingStatus, UndoApply
<1>3. CASE Fail(r) /\ UNCHANGED rows
  BY <1>1, <1>2, <1>3, FailKeeps
<1>4. ASSUME NEW p \in {"deliver", "done", "release"}, Goto(r, p, mem[r]),
             \/ rows' = rows
             \/ \E s, d : /\ rows[mem[r].held] # NoRow
                          /\ rows' = [rows EXCEPT ![mem[r].held].tracking_status = s,
                                                  ![mem[r].held].delivered = d]
      PROVE  OneByOne'
  <2>1. \A x : Active(x)' = Active(x)
    <3>1. CASE rows' = rows
      BY <3>1 DEF Active, Recorded
    <3>2. CASE rows' # rows
      <4>1. PICK t : t = mem[r].held
        OBVIOUS
      <4>2. PICK s, d : /\ rows[t] # NoRow
                        /\ rows' = [rows EXCEPT ![t].tracking_status = s, ![t].delivered = d]
        BY <1>4, <3>2, <4>1
      <4>3. t \in Trackings
        BY <1>1, <1>2, <4>1, JobAssumption, EventsAssumption DEF Fits, Ended, Tracking
      <4>4. rows[t] \in Rows
        BY <4>2, <4>3 DEF TypeInv, TypeOK
      <4>5. /\ rows'[t] = [[rows[t] EXCEPT !.tracking_status = s] EXCEPT !.delivered = d]
            /\ \A x \in Trackings \ {t} : rows'[x] = rows[x]
        BY <4>2, <4>3 DEF TypeInv, TypeOK
      <4>6. rows'[t].order = rows[t].order /\ rows'[t].voided = rows[t].voided /\ rows'[t] # NoRow
        BY <4>4, <4>5, OrdersAssumption DEF Rows, NoRow
      <4>7. ASSUME NEW x, NEW y \in Trackings
            PROVE  y \in Active(x)' <=> y \in Active(x)
        <5>1. CASE y = t
          BY <4>2, <4>6, <5>1 DEF Active, Recorded
        <5>2. CASE y # t
          BY <4>5, <5>2 DEF Active, Recorded
        <5> QED BY <5>1, <5>2
      <4> QED BY <4>7 DEF Active, Recorded
    <3> QED BY <3>1, <3>2
  <2>2. \A o \in Orders : Settled(o)
    BY <1>1, <1>2 DEF Phase, Calm, Taken, Inserted, Voided, Restocked
  <2>3. \A o \in Orders : Settled(o)'
    BY <1>2, <2>1, <2>2, SettledStays
  <2>4. SentBySome'
    BY <1>1, <1>2, <1>4, SentStays
  <2>5. Calm(r, p) /\ p \in Steps \ {"waiting", "find", "carrier", "voidRow", "read", "write"}
    BY DEF Calm, Taken, Inserted, Voided, Restocked, Steps, Tracking, Ended
  <2> QED BY <1>2, <1>4, <2>3, <2>4, <2>5, CalmStep
<1>5. CASE ApplyTrackingStatus(r)
  <2> DEFINE new == TrackingStatusFromShipStation(Job[r].arg.code)
             d == rows[mem[r].held].delivered \/ new = "delivered"
  <2>1. CASE rows[mem[r].held] = NoRow
    BY <1>3, <1>5, <2>1 DEF ApplyTrackingStatus
  <2>2. CASE rows[mem[r].held] # NoRow
    <3>1. /\ rows' = [rows EXCEPT ![mem[r].held].tracking_status = new,
                                  ![mem[r].held].delivered = d]
          /\ Goto(r, IF new = "delivered" /\ mem[r].seen = "shipped" THEN "deliver" ELSE "done",
                  mem[r])
      BY <1>5, <2>2 DEF ApplyTrackingStatus
    <3> HIDE DEF new, d
    <3> QED BY <1>4, <2>2, <3>1
  <2> QED BY <2>1, <2>2
<1>6. CASE UndoApply(r)
  BY <1>4, <1>6 DEF UndoApply
<1> QED BY <1>5, <1>6

\* A call begins when none runs, and does what the page offers.
LEMMA StartStep ==
    ASSUME Undisturbed, TypeInv, OneByOne, NEW r \in Requests, Start(r)
    PROVE  /\ OneByOne'
           /\ Quiet /\ \A o \in Orders : Settled(o)
<1> DEFINE first == FirstStep(Job[r].kind)
           locals == [Blank EXCEPT
                        !.order = IF Job[r].kind = "track" THEN None ELSE Job[r].order,
                        !.held = CASE Job[r].kind = "track" -> Job[r].arg.tracking
                                   [] Job[r].kind = "record" -> Job[r].arg
                                   [] OTHER -> None]
<1>1. /\ pc[r] = "waiting" /\ Cardinality(InFlight) < MaxInFlight
      /\ Goto(r, first, locals)
      /\ Job[r].kind # "track" => Offered(r)
      /\ UNCHANGED <<status, history, rows, reserved, fulfilled, crashed, faults>>
  BY DEF Start, Undisturbed
<1>2. Quiet /\ \A o \in Orders : Settled(o)
  <2>1. ASSUME NEW s \in Requests, InFlight = {s} PROVE FALSE
    <3>1. Cardinality(InFlight) = 1
      BY <2>1, FS_Singleton
    <3> QED BY <1>1, <3>1, BoundsAssumption DEF Undisturbed
  <2> QED BY <2>1 DEF OneByOne, Runs
<1>3. PICK m : m = locals
  OBVIOUS
<1>4. PICK p : p = first
  OBVIOUS
<1>5. m.answer = None /\ (Job[r].kind # "track" => m.order = Job[r].order)
  BY <1>3 DEF Blank
<1>6. p = CASE Job[r].kind = "move" -> "read" [] Job[r].kind = "record" -> "fulfil"
            [] Job[r].kind = "buy" -> "status" [] Job[r].kind = "void" -> "find"
            [] OTHER -> "claim"
  BY <1>4, JobAssumption DEF FirstStep
<1>7. p \in Steps \ {"waiting"}
  BY <1>6, JobAssumption DEF Steps, Shipping, Voiding, Tracking, Transitioning
<1>8. Job[r].kind = "move" =>
        Target(r) # "shipped" /\ (Target(r) = "packing" => Active(m.order) = {})
  BY <1>1, <1>5 DEF Offered, Target
<1>9. Phase(r, p, m)
  <2>1. p = "read" => Job[r].kind = "move"
    BY <1>6, JobAssumption
  <2>2. Calm(r, p) /\ p \in {"read", "fulfil", "status", "find", "claim"}
    BY <1>6, <2>1, JobAssumption DEF Calm, Taken, Inserted, Voided, Restocked, Ships
  <2> QED BY <1>2, <1>5, <1>8, <2>2
          DEF Phase, PhaseOfStock, PhaseOfVoid, PhaseOfStatus, Calm
<1>10. crashed = {} /\ SentBySome /\ InFlight \subseteq {r}
  BY <1>2 DEF OneByOne, Quiet, Runs
<1>11. OneByOne'
  BY <1>1, <1>2, <1>3, <1>4, <1>7, <1>9, <1>10, IdleKeeps
<1> QED BY <1>2, <1>11

\* One request at a time: the invariant is inductive.
LEMMA NextOneByOne ==
    ASSUME Undisturbed, TypeInv, OneByOne, [Next]_vars
    PROVE  OneByOne'
<1>1. ASSUME NEW r \in Requests, Work(r) PROVE OneByOne'
  <2>1. r \in InFlight
    BY <1>1, WorkRuns
  <2> QED BY <1>1, <2>1, PurchaseSteps, TrackingSteps, ReadingSteps, VoidReadingSteps,
             WriteStep, LogStep, FulfilStep, UndoFulfilmentStep, InsertStep, UndoRowStep,
             NoteStep, VoidRowStep, ReserveStep, UnreserveStep, UnvoidStep, ApplySteps
          DEF Work
<1>2. ASSUME NEW r \in Requests, StatementFails(r) PROVE FALSE
  BY <1>2 DEF StatementFails, Undisturbed, TypeInv, TypeOK
<1>3. ~Crash
  BY DEF Crash, Undisturbed, TypeInv, TypeOK
<1>4. CASE UNCHANGED vars
  <2>1. /\ UNCHANGED <<status, history, rows, reserved, fulfilled>>
        /\ pc' = pc /\ mem' = mem /\ crashed' = crashed
    BY <1>4 DEF vars
  <2>2. SentBySome' /\ InFlight' = InFlight
    BY <2>1 DEF OneByOne, SentBySome, InFlight, Ships
  <2>3. CASE Quiet /\ \A o \in Orders : Settled(o)
    <3>1. \A o \in Orders : Settled(o)'
      BY <2>1, <2>3, PhaseStays
    <3> QED BY <2>1, <2>2, <2>3, <3>1 DEF OneByOne, Quiet
  <2>4. CASE \E r \in Requests : Runs(r)
    <3>1. PICK r \in Requests : Runs(r)
      BY <2>4
    <3>2. PICK p : p = pc[r]
      OBVIOUS
    <3>3. PICK m : m = mem[r]
      OBVIOUS
    <3>4. Phase(r, p, m)' /\ \A o \in Orders \ {m.order} : Settled(o)'
      BY <2>1, <3>1, <3>2, <3>3, PhaseStays DEF Runs
    <3>5. Phase(r, pc[r], mem[r])'
      BY <2>1, <3>2, <3>3, <3>4
         DEF Phase, PhaseOfStock, PhaseOfVoid, PhaseOfStatus
    <3> QED BY <2>1, <2>2, <3>1, <3>3, <3>4, <3>5 DEF OneByOne, Runs
  <2> QED BY <2>3, <2>4 DEF OneByOne
<1> QED BY <1>1, <1>2, <1>3, <1>4, StartStep DEF Next

LEMMA InitOneByOne == Init => OneByOne
<1> SUFFICES ASSUME Init PROVE OneByOne
  OBVIOUS
<1>1. Quiet /\ crashed = {}
  BY DEF Init, Quiet, InFlight
<1>2. ASSUME NEW o \in Orders PROVE Settled(o) /\ status[o] \notin Sent
  <2>1. status[o] \notin Sent
    BY OrdersAssumption DEF Init
  <2>2. Active(o) = {} /\ One(reserved[o])
    BY DEF Init, Active, Recorded, One
  <2>3. Len(history[o]) = 0
    BY DEF Init
  <2>4. Walked(o, status[o])
    BY <2>3 DEF Init, Walked, Reached
  <2> QED BY <2>1, <2>2, <2>4 DEF Settled, RowsAgree, StockAgrees
<1> QED BY <1>1, <1>2 DEF OneByOne, SentBySome

LEMMA AlwaysOneByOne ==
    ASSUME Undisturbed
    PROVE  Spec => [](TypeInv /\ OneByOne)
<1>1. Init => TypeInv /\ OneByOne
  BY InitTyped, InitOneByOne
<1>2. TypeInv /\ OneByOne /\ [Next]_vars => (TypeInv /\ OneByOne)'
  BY NextTyped, NextOneByOne
<1> QED BY <1>1, <1>2, PTL DEF Spec

\* Between requests every order is settled.
LEMMA QuietSettles == OneByOne /\ Quiet => \A o \in Orders : Settled(o)
BY DEF OneByOne, Quiet, Runs

(***************************************************************************)
(* However many purchases, voids, moves and deliveries there were, failed  *)
(* half-way or not: between them an order that is not sent has one         *)
(* reservation of its stock and an order that is sent has none.            *)
(***************************************************************************)
THEOREM StockIsPutBack ==
    ASSUME Undisturbed
    PROVE  Spec => []StockFollowsStatus
<1>1. OneByOne => StockFollowsStatus
  <2> SUFFICES ASSUME OneByOne, Quiet, NEW o \in Orders
               PROVE  Cardinality(reserved[o]) = IF status[o] \in Sent THEN 0 ELSE 1
    BY DEF StockFollowsStatus
  <2>1. StockAgrees(o, reserved[o])
    BY QuietSettles DEF Settled
  <2> QED BY <2>1, FS_Singleton, FS_EmptySet DEF StockAgrees, One
<1> QED BY <1>1, AlwaysOneByOne, PTL

(***************************************************************************)
(* Between requests the history of an order leads, without a gap and along *)
(* the graph, from where the order was first seen to where it stands.      *)
(***************************************************************************)
THEOREM HistoryIsAWalk ==
    ASSUME Undisturbed
    PROVE  Spec => []HistoryTellsStatus
<1>1. TypeInv /\ OneByOne => HistoryTellsStatus
  <2> SUFFICES ASSUME TypeInv, OneByOne, Quiet, NEW o \in Orders
               PROVE  LET walk == <<[from |-> None, to |-> FirstStatus[o]]>> \o history[o]
                      IN /\ walk[Len(walk)].to = status[o]
                         /\ \A i \in 2..Len(walk) :
                               IF walk[i].from = None THEN walk[i].to = walk[i - 1].to
                               ELSE /\ walk[i].from = walk[i - 1].to
                                    /\ CanTransition(walk[i].from, walk[i].to)
    BY DEF HistoryTellsStatus
  <2>1. PICK h : h = history[o]
    OBVIOUS
  <2>2. h \in Seq([from : Statuses \cup {None}, to : Statuses])
    BY <2>1 DEF TypeInv, TypeOK
  <2>3. PICK n : n = Len(h)
    OBVIOUS
  <2>4. n \in Nat
    BY <2>2, <2>3
  <2> DEFINE first == [from |-> None, to |-> FirstStatus[o]]
             walk == <<first>> \o history[o]
  <2>5. /\ Len(walk) = n + 1 /\ walk[1] = first
        /\ \A i \in 1..n : walk[i + 1] = h[i]
    BY <2>1, <2>2, <2>3, <2>4
  <2>6. first.to = FirstStatus[o]
    OBVIOUS
  <2> HIDE DEF first, walk
  <2>7. \A i \in 0..n : walk[i + 1].to = Reached(o, i)
    BY <2>1, <2>4, <2>5, <2>6 DEF Reached
  <2>8. Walked(o, status[o])
    BY QuietSettles DEF Settled
  <2>9. walk[Len(walk)].to = status[o]
    BY <2>1, <2>3, <2>4, <2>5, <2>7, <2>8 DEF Walked
  <2>10. ASSUME NEW i \in 2..Len(walk)
         PROVE  IF walk[i].from = None THEN walk[i].to = walk[i - 1].to
                ELSE /\ walk[i].from = walk[i - 1].to
                     /\ CanTransition(walk[i].from, walk[i].to)
    <3>1. PICK j : j = i - 1
      OBVIOUS
    <3>2. j \in 1..n /\ i = j + 1 /\ j - 1 \in 0..n /\ (j - 1) + 1 = j
      BY <2>4, <2>5, <3>1
    <3>3. walk[i] = h[j] /\ walk[j].to = Reached(o, j - 1)
      BY <2>5, <2>7, <3>2
    <3>4. IF h[j].from = None THEN h[j].to = Reached(o, j - 1)
          ELSE h[j].from = Reached(o, j - 1) /\ CanTransition(h[j].from, h[j].to)
      BY <2>1, <2>3, <2>8, <3>2 DEF Walked
    <3> QED BY <3>1, <3>3, <3>4
  <2>11. \A i \in 2..Len(walk) :
           IF walk[i].from = None THEN walk[i].to = walk[i - 1].to
           ELSE /\ walk[i].from = walk[i - 1].to
                /\ CanTransition(walk[i].from, walk[i].to)
    BY <2>10
  <2> QED BY <2>9, <2>11, Zenon DEF walk, first
<1> QED BY <1>1, AlwaysOneByOne, PTL

-----------------------------------------------------------------------------
(***************************************************************************)
(* A void the carrier approved is of the label that was voided: the active *)
(* row is read twice, and one request after another it is the same row.    *)
(***************************************************************************)
BeforePurchase == {"waiting", "status", "free", "purchase"}

RowApproved(t) ==
    rows[t] # NoRow =>
        /\ rows[t].labelled => t \in Buys /\ label[t] # "unbought"
        /\ rows[t].void_approved = TRUE => t \in Buys /\ label[t] = "voided"

ApprovalInv ==
    /\ \A r \in Buys : /\ pc[r] \in BeforePurchase => label[r] = "unbought"
                       /\ mem[r].held # None =>
                            mem[r].held \in Buys /\ label[mem[r].held] # "unbought"
    /\ \A r \in Requests :
          pc[r] = "voidRow" /\ mem[r].answer = TRUE =>
              mem[r].held \in Buys /\ label[mem[r].held] = "voided"
    /\ \A t \in Trackings : RowApproved(t)

\* A label is bought once and voided for good; none but r buys its own.
LabelsGrow(r) ==
    \A l \in Buys : /\ label[l] # "unbought" => label'[l] # "unbought"
                    /\ label[l] = "voided" => label'[l] = "voided"
                    /\ l # r /\ label[l] = "unbought" => label'[l] = "unbought"

\* Request r goes on to step p with locals m.
LEMMA ApprovalGoto ==
    ASSUME TypeInv, ApprovalInv, NEW r \in Requests, NEW p \in Steps, NEW m, Goto(r, p, m),
           LabelsGrow(r), r \in Buys /\ p \in BeforePurchase => label'[r] = "unbought",
           r \in Buys /\ m.held # None => m.held \in Buys /\ label'[m.held] # "unbought",
           p = "voidRow" /\ m.answer = TRUE => m.held \in Buys /\ label'[m.held] = "voided",
           \A t \in Trackings : RowApproved(t)'
    PROVE  ApprovalInv'
<1> DEFINE n == IF p \in Ended THEN [Blank EXCEPT !.failure = m.failure] ELSE m
<1>1. n.held = None \/ n.held = m.held
  BY DEF Blank
<1>2. p = "voidRow" => n = m
  BY DEF Ended
<1>3. mem' = [mem EXCEPT ![r] = n] /\ pc' = [pc EXCEPT ![r] = p]
  BY DEF Goto
<1> HIDE DEF n
<1>4. mem'[r] = n /\ pc'[r] = p /\ \A s \in Requests \ {r} : mem'[s] = mem[s] /\ pc'[s] = pc[s]
  BY <1>3 DEF TypeInv, TypeOK
<1>5. ASSUME NEW s \in Buys
      PROVE  /\ pc'[s] \in BeforePurchase => label'[s] = "unbought"
             /\ mem'[s].held # None =>
                  mem'[s].held \in Buys /\ label'[mem'[s].held] # "unbought"
  <2>1. CASE s = r
    BY <1>1, <1>4, <2>1
  <2>2. CASE s # r
    <3>1. pc'[s] = pc[s] /\ mem'[s] = mem[s] /\ s \in Requests
      BY <1>4, <2>2 DEF Buys
    <3> QED BY <2>2, <3>1 DEF ApprovalInv, LabelsGrow
  <2> QED BY <2>1, <2>2
<1>6. ASSUME NEW s \in Requests, pc'[s] = "voidRow", mem'[s].answer = TRUE
      PROVE  mem'[s].held \in Buys /\ label'[mem'[s].held] = "voided"
  <2>1. CASE s = r
    BY <1>2, <1>4, <1>6, <2>1
  <2>2. CASE s # r
    BY <1>4, <1>6, <2>2 DEF ApprovalInv, LabelsGrow
  <2> QED BY <2>1, <2>2
<1> QED BY <1>5, <1>6 DEF ApprovalInv

\* It leaves the labels and the shipments alone and works on what it worked on.
LEMMA ApprovalIdle ==
    ASSUME TypeInv, ApprovalInv, NEW r \in Requests,
           NEW p \in Steps \ {"voidRow"}, NEW m, Goto(r, p, m), m.held = mem[r].held,
           p \in BeforePurchase => pc[r] \in BeforePurchase, UNCHANGED <<rows, label>>
    PROVE  ApprovalInv'
<1>1. LabelsGrow(r)
  BY DEF LabelsGrow
<1>2. \A t \in Trackings : RowApproved(t)'
  BY DEF ApprovalInv, RowApproved
<1>3. r \in Buys /\ m.held # None => m.held \in Buys /\ label'[m.held] # "unbought"
  BY DEF ApprovalInv
<1>4. r \in Buys /\ p \in BeforePurchase => label'[r] = "unbought"
  BY DEF ApprovalInv
<1> QED BY <1>1, <1>2, <1>3, <1>4, ApprovalGoto

\* Nor does a request whose step fails.
LEMMA ApprovalFail ==
    ASSUME TypeInv, ApprovalInv, NEW r \in Requests, Fail(r), UNCHANGED <<rows, label>>
    PROVE  ApprovalInv'
<1>1. Rollback(r) \in Steps /\ Rollback(r) \notin BeforePurchase \cup {"voidRow"}
  BY RollbackTyped DEF Rollback, BeforePurchase
<1> QED BY <1>1, ApprovalIdle DEF Fail

\* The steps that touch neither.
LEMMA ApprovalReads ==
    ASSUME TypeInv, ApprovalInv, NEW r \in Requests,
           \/ ReadStatus(r) \/ WriteStatus(r) \/ LogTransition(r)
           \/ CheckStatus(r) \/ CheckFree(r) \/ PurchaseRefused(r) \/ ReconcileNothing(r)
           \/ StoreLabelPdf(r) \/ CreateFulfilment(r) \/ CreateShipment(r)
           \/ UndoFulfilment(r) \/ UndoFile(r) \/ NoteOrphan(r)
           \/ RestoreReservations(r) \/ CreateReservations(r) \/ UndoReservations(r)
           \/ ClaimEvent(r) \/ LookupShipment(r) \/ ReadContext(r) \/ SnapshotTracking(r)
           \/ MarkDelivered(r) \/ ReleaseEvent(r)
    PROVE  ApprovalInv'
<1> DEFINE After == {"write", "log", "done", "fulfil", "ship", "insert", "read",
                     "undoFile", "undoLabel", "failed", "reserve", "unvoid", "duplicate",
                     "lookup", "dropped", "context", "snapshot", "apply"}
<1>1. mem[r] \in Locals
  BY DEF TypeInv, TypeOK
<1>2. UNCHANGED <<rows, label>>
  BY DEF ReadStatus, WriteStatus, LogTransition, CheckStatus, CheckFree, PurchaseRefused,
     ReconcileNothing, StoreLabelPdf, CreateFulfilment, CreateShipment, UndoFulfilment,
     UndoFile, NoteOrphan, RestoreReservations, CreateReservations, UndoReservations,
     ClaimEvent, LookupShipment, ReadContext, SnapshotTracking, MarkDelivered, ReleaseEvent
<1>3. ASSUME NEW p \in After, NEW m, Goto(r, p, m), m.held = mem[r].held PROVE ApprovalInv'
  <2>1. p \in Steps \ ({"voidRow"} \cup BeforePurchase)
    BY DEF Steps, Shipping, Transitioning, Unwinding, Voiding, Tracking, Ended, BeforePurchase
  <2> QED BY <1>2, <1>3, <2>1, ApprovalIdle
<1>4. CASE Fail(r)
  BY <1>2, <1>4, ApprovalFail
<1>5. CASE \E p \in After : Goto(r, p, mem[r])
  BY <1>3, <1>5
<1>6. CASE ReadStatus(r)
  <2>1. PICK m : m = [mem[r] EXCEPT !.seen = status[mem[r].order]]
    OBVIOUS
  <2>2. m.held = mem[r].held
    BY <1>1, <2>1 DEF Locals
  <2> QED BY <1>3, <1>4, <1>6, <2>1, <2>2 DEF ReadStatus
<1>7. CASE CheckStatus(r) \/ CheckFree(r)
  <2>1. CASE Fail(r)
    BY <1>4, <2>1
  <2>2. CASE \E p \in {"free", "purchase"} : Goto(r, p, mem[r])
    <3>1. pc[r] \in BeforePurchase /\ {"free", "purchase"} \subseteq Steps \ {"voidRow"}
      BY <1>7 DEF CheckStatus, CheckFree, BeforePurchase, Steps
    <3> QED BY <1>2, <2>2, <3>1, ApprovalIdle
  <2> QED BY <1>7, <2>1, <2>2 DEF CheckStatus, CheckFree
<1>8. CASE StoreLabelPdf(r)
  <2>1. PICK m : m = [mem[r] EXCEPT !.filed = TRUE]
    OBVIOUS
  <2>2. m.held = mem[r].held
    BY <1>1, <2>1 DEF Locals
  <2> QED BY <1>3, <1>8, <2>1, <2>2 DEF StoreLabelPdf
<1>9. CASE CreateFulfilment(r)
  <2>1. PICK m : m = [mem[r] EXCEPT !.stock = reserved[mem[r].order]]
    OBVIOUS
  <2>2. m.held = mem[r].held
    BY <1>1, <2>1 DEF Locals
  <2> QED BY <1>3, <1>4, <1>9, <2>1, <2>2 DEF CreateFulfilment
<1>10. CASE RestoreReservations(r)
  <2>1. PICK m : m = [mem[r] EXCEPT !.stock =
                        IF fulfilled[mem[r].order] # {} /\ reserved[mem[r].order] = {}
                        THEN {r} ELSE {}]
    OBVIOUS
  <2>2. m.held = mem[r].held
    BY <1>1, <2>1 DEF Locals
  <2> QED BY <1>3, <1>10, <2>1, <2>2 DEF RestoreReservations
<1>11. CASE LookupShipment(r)
  <2>1. PICK m : m = [mem[r] EXCEPT !.order = rows[mem[r].held].order]
    OBVIOUS
  <2>2. m.held = mem[r].held
    BY <1>1, <2>1 DEF Locals
  <2> QED BY <1>3, <1>11, <2>1, <2>2 DEF LookupShipment
<1>12. CASE ReadContext(r)
  <2>1. PICK m : m = [mem[r] EXCEPT !.seen = status[mem[r].order]]
    OBVIOUS
  <2>2. m.held = mem[r].held
    BY <1>1, <2>1 DEF Locals
  <2> QED BY <1>3, <1>12, <2>1, <2>2 DEF ReadContext
<1>13. CASE SnapshotTracking(r)
  <2>1. PICK s : Goto(r, "apply", [mem[r] EXCEPT !.snapshot = s])
    BY <1>13 DEF SnapshotTracking
  <2>2. PICK m : m = [mem[r] EXCEPT !.snapshot = s]
    OBVIOUS
  <2>3. m.held = mem[r].held
    BY <1>1, <2>2 DEF Locals
  <2> QED BY <1>3, <2>1, <2>2, <2>3
<1> QED BY <1>4, <1>5, <1>6, <1>7, <1>8, <1>9, <1>10, <1>11, <1>12, <1>13
        DEF WriteStatus, LogTransition, PurchaseRefused, ReconcileNothing, CreateShipment,
            UndoFulfilment, UndoFile, NoteOrphan, CreateReservations, UndoReservations,
            ClaimEvent, MarkDelivered, ReleaseEvent

\* Rows keep what is claimed of them while the labels grow.
LEMMA ApprovedStays ==
    ASSUME ApprovalInv, NEW r \in Requests, LabelsGrow(r), NEW t \in Trackings,
           \/ rows'[t] = rows[t]
           \/ /\ rows[t] # NoRow /\ rows'[t].labelled = rows[t].labelled
              /\ rows'[t].void_approved \in {rows[t].void_approved, None}
           \/ rows'[t] = NoRow
    PROVE  RowApproved(t)'
BY OrdersAssumption DEF ApprovalInv, RowApproved, LabelsGrow

\* A label that is bought may be voided.
LEMMA VoidingGrows ==
    ASSUME TypeInv, NEW r \in Requests, NEW l \in Buys, label[l] # "unbought",
           label' \in {label, [label EXCEPT ![l] = "voided"]}
    PROVE  LabelsGrow(r)
BY DEF LabelsGrow, TypeInv, TypeOK

\* The purchase: its own label is bought, or one that is live is picked.
LEMMA ApprovalBuys ==
    ASSUME TypeInv, ApprovalInv, NEW r \in Requests,
           PurchaseAnswered(r) \/ PurchaseUnanswered(r) \/ ReconcileFound(r)
    PROVE  ApprovalInv'
<1>1. mem[r] \in Locals /\ Fits(r, pc[r], mem[r]) /\ UNCHANGED rows
  BY DEF TypeInv, TypeOK, LocalsOK, PurchaseAnswered, PurchaseUnanswered, ReconcileFound
<1>2. r \in Buys /\ mem[r].held = None
  BY <1>1 DEF PurchaseAnswered, PurchaseUnanswered, ReconcileFound, Fits, BuySteps, Ended, Buys
<1>3. label' \in {label, [label EXCEPT ![r] = "live"]} /\ (label' # label => label[r] = "unbought")
  BY <1>2 DEF PurchaseAnswered, PurchaseUnanswered, ReconcileFound, ApprovalInv, BeforePurchase
<1>4. LabelsGrow(r)
  BY <1>2, <1>3 DEF LabelsGrow, TypeInv, TypeOK
<1>5. \A t \in Trackings : RowApproved(t)'
  BY <1>1, <1>4, ApprovedStays
<1>6. ASSUME NEW p \in {"store", "reconcile", "failed"}, NEW m, Goto(r, p, m),
             m.held # None => m.held \in Buys /\ label'[m.held] # "unbought"
      PROVE  ApprovalInv'
  <2>1. p \in Steps /\ p \notin BeforePurchase \cup {"voidRow"}
    BY DEF Steps, Ended, BeforePurchase
  <2> QED BY <1>4, <1>5, <1>6, <2>1, ApprovalGoto
<1>7. CASE PurchaseAnswered(r)
  <2>1. PICK m : m = [mem[r] EXCEPT !.held = r]
    OBVIOUS
  <2>2. m.held = r
    BY <1>1, <2>1 DEF Locals
  <2>3. label'[r] = "live"
    BY <1>2, <1>7 DEF PurchaseAnswered, TypeInv, TypeOK
  <2> QED BY <1>2, <1>6, <1>7, <2>1, <2>2, <2>3 DEF PurchaseAnswered
<1>8. CASE PurchaseUnanswered(r)
  <2>1. PICK f \in {"timeout_unconfirmed", "http_error"}, p \in {"reconcile", "failed"} :
             Goto(r, p, [mem[r] EXCEPT !.failure = f])
    BY <1>8 DEF PurchaseUnanswered
  <2>2. PICK m : m = [mem[r] EXCEPT !.failure = f]
    OBVIOUS
  <2>3. m.held = None
    BY <1>1, <1>2, <2>2 DEF Locals
  <2> QED BY <1>6, <2>1, <2>2, <2>3
<1>9. CASE ReconcileFound(r)
  <2>1. PICK l \in Matches(mem[r].order) :
             Goto(r, "store", [mem[r] EXCEPT !.held = l, !.failure = None])
    BY <1>9 DEF ReconcileFound
  <2>2. PICK m : m = [mem[r] EXCEPT !.held = l, !.failure = None]
    OBVIOUS
  <2>3. m.held = l
    BY <1>1, <2>2 DEF Locals
  <2>4. l \in Buys /\ label[l] = "live" /\ label' = label
    BY <1>9, <2>1 DEF Matches, ReconcileFound
  <2> QED BY <1>6, <2>1, <2>2, <2>3, <2>4
<1> QED BY <1>7, <1>8, <1>9

\* The row: put, taken back, tracked.
LEMMA ApprovalRows ==
    ASSUME TypeInv, ApprovalInv, NEW r \in Requests,
           \/ InsertRow(r) \/ UndoRow(r) \/ UndoVoidRow(r)
           \/ ApplyTrackingStatus(r) \/ UndoApply(r)
    PROVE  ApprovalInv'
<1>1. mem[r] \in Locals /\ Fits(r, pc[r], mem[r]) /\ UNCHANGED label
  BY DEF TypeInv, TypeOK, LocalsOK, InsertRow, UndoRow, UndoVoidRow, ApplyTrackingStatus,
     UndoApply
<1>2. PICK t : t = mem[r].held
  OBVIOUS
<1>3. LabelsGrow(r)
  BY <1>1 DEF LabelsGrow
<1>4. CASE UNCHANGED rows /\ Fail(r)
  BY <1>1, <1>4, ApprovalFail
<1>5. ASSUME NEW p \in {"read", "undoFulfilment", "failed", "deliver", "done", "release"},
             Goto(r, p, mem[r]), \A u \in Trackings : RowApproved(u)'
      PROVE  ApprovalInv'
  <2>1. p \in Steps /\ p \notin BeforePurchase \cup {"voidRow"}
    BY DEF Steps, Shipping, Transitioning, Unwinding, Tracking, Ended, BeforePurchase
  <2>2. PICK m : m = mem[r]
    OBVIOUS
  <2>3. r \in Buys /\ m.held # None => m.held \in Buys /\ label'[m.held] # "unbought"
    BY <1>1, <2>2 DEF ApprovalInv
  <2> QED BY <1>3, <1>5, <2>1, <2>2, <2>3, ApprovalGoto
<1>6. \A u \in Trackings \ {t} : rows'[u] = rows[u]
  BY <1>2 DEF InsertRow, UndoRow, UndoVoidRow, ApplyTrackingStatus, UndoApply, TypeInv, TypeOK
<1>7. \A u \in Trackings \ {t} : RowApproved(u)'
  BY <1>3, <1>6, ApprovedStays
<1>8. CASE InsertRow(r) /\ rows[t] = NoRow
  <2>1. t \in Trackings /\ (Job[r].kind = "buy" => t \in Buys)
    BY <1>1, <1>2, <1>8, JobAssumption DEF InsertRow, Fits, Ended, ShipSteps, Trackings
  <2> DEFINE bought == Job[r].kind = "buy"
             new == [order |-> mem[r].order, labelled |-> bought,
                     file |-> IF mem[r].filed THEN r ELSE None,
                     voided |-> FALSE, void_approved |-> None,
                     tracking_status |-> "accepted", delivered |-> FALSE]
  <2> HIDE DEF bought
  <2>2. new.labelled = bought /\ new.void_approved = None
    OBVIOUS
  <2>3. rows' = [rows EXCEPT ![t] = new]
    BY <1>2, <1>8 DEF InsertRow, bought
  <2> HIDE DEF new
  <2>4. rows'[t] = new
    BY <2>1, <2>3 DEF TypeInv, TypeOK
  <2>5. bought => t \in Buys /\ label'[t] # "unbought"
    BY <1>1, <1>2, <2>1, OrdersAssumption DEF bought, ApprovalInv, Buys
  <2>6. RowApproved(t)'
    BY <2>2, <2>4, <2>5, OrdersAssumption DEF RowApproved
  <2> QED BY <1>2, <1>5, <1>7, <1>8, <2>6 DEF InsertRow
<1>9. CASE UndoRow(r)
  <2>1. t \in Trackings => RowApproved(t)'
    BY <1>2, <1>9 DEF UndoRow, RowApproved, TypeInv, TypeOK
  <2> QED BY <1>5, <1>7, <1>9, <2>1 DEF UndoRow
<1>10. CASE rows' = rows \/ t \notin Trackings
  BY <1>3, <1>4, <1>5, <1>7, <1>10, ApprovedStays
     DEF InsertRow, UndoRow, UndoVoidRow, ApplyTrackingStatus, UndoApply
<1>11. ASSUME t \in Trackings, rows[t] # NoRow,
              \/ \E s, d : rows' = [rows EXCEPT ![t].tracking_status = s, ![t].delivered = d]
              \/ rows' = [rows EXCEPT ![t].voided = FALSE, ![t].void_approved = None]
       PROVE  RowApproved(t)'
  <2>1. rows[t] \in Rows
    BY <1>11 DEF TypeInv, TypeOK
  <2>2. CASE rows' = [rows EXCEPT ![t].voided = FALSE, ![t].void_approved = None]
    <3>1. rows'[t] = [[rows[t] EXCEPT !.voided = FALSE] EXCEPT !.void_approved = None]
      BY <1>11, <2>2 DEF TypeInv, TypeOK
    <3>2. rows'[t].labelled = rows[t].labelled /\ rows'[t].void_approved = None
      BY <2>1, <3>1 DEF Rows
    <3> QED BY <1>3, <1>11, <3>2, ApprovedStays
  <2>3. ASSUME NEW s, NEW d,
               rows' = [rows EXCEPT ![t].tracking_status = s, ![t].delivered = d]
        PROVE  RowApproved(t)'
    <3>1. rows'[t] = [[rows[t] EXCEPT !.tracking_status = s] EXCEPT !.delivered = d]
      BY <1>11, <2>3 DEF TypeInv, TypeOK
    <3>2. rows'[t].labelled = rows[t].labelled /\ rows'[t].void_approved = rows[t].void_approved
      BY <2>1, <3>1 DEF Rows
    <3> QED BY <1>3, <1>11, <3>2, ApprovedStays
  <2> QED BY <1>11, <2>2, <2>3
<1>12. CASE t \in Trackings /\ rows[t] # NoRow /\ UndoVoidRow(r)
  BY <1>2, <1>5, <1>7, <1>11, <1>12 DEF UndoVoidRow
<1>13. CASE t \in Trackings /\ rows[t] # NoRow /\ (ApplyTrackingStatus(r) \/ UndoApply(r))
  <2>1. \E s, d : rows' = [rows EXCEPT ![t].tracking_status = s, ![t].delivered = d]
    BY <1>2, <1>13 DEF ApplyTrackingStatus, UndoApply
  <2>2. RowApproved(t)'
    BY <1>11, <1>13, <2>1
  <2>3. \E p \in {"deliver", "done", "release"} : Goto(r, p, mem[r])
    BY <1>2, <1>13 DEF ApplyTrackingStatus, UndoApply
  <2> QED BY <1>5, <1>7, <2>2, <2>3
<1>14. rows[t] = NoRow =>
          InsertRow(r) \/ UndoRow(r) \/ rows' = rows
  BY <1>2 DEF UndoVoidRow, ApplyTrackingStatus, UndoApply
<1>15. rows[t] # NoRow /\ InsertRow(r) => rows' = rows
  BY <1>2 DEF InsertRow
<1> QED BY <1>8, <1>9, <1>10, <1>12, <1>13, <1>14, <1>15

\* The label is voided at the carrier: as a compensation, or by a void.
LEMMA ApprovalVoids ==
    ASSUME TypeInv, OneByOne, ApprovalInv, NEW r \in Requests, r \in InFlight,
           \/ UndoLabelApproved(r) \/ UndoLabelRefused(r) \/ FindActive(r)
           \/ VoidApproved(r) \/ VoidRefused(r) \/ VoidUnanswered(r)
    PROVE  ApprovalInv'
<1>1. /\ mem[r] \in Locals /\ Fits(r, pc[r], mem[r]) /\ Phase(r, pc[r], mem[r])
      /\ UNCHANGED rows
  BY AtWork DEF UndoLabelApproved, UndoLabelRefused, FindActive, VoidApproved, VoidRefused,
     VoidUnanswered
<1>2. PICK l : l = mem[r].held
  OBVIOUS
<1>3. CASE FindActive(r)
  <2>1. CASE Fail(r)
    BY <1>1, <1>3, <2>1, ApprovalFail DEF FindActive
  <2>2. CASE \E t \in Active(mem[r].order) :
               Goto(r, IF rows[t].labelled THEN "carrier" ELSE "voidRow",
                    [mem[r] EXCEPT !.held = t])
    <3>1. PICK t, p : /\ p \in {"carrier", "voidRow"}
                      /\ Goto(r, p, [mem[r] EXCEPT !.held = t])
      BY <2>2
    <3>2. PICK m : m = [mem[r] EXCEPT !.held = t]
      OBVIOUS
    <3>3. m.answer # TRUE
      BY <1>1, <1>3, <3>2, OrdersAssumption DEF FindActive, Phase, PhaseOfVoid, Locals
    <3>4. r \notin Buys
      BY <1>1, <1>3 DEF FindActive, Fits, Voiding, Buys
    <3>5. p \in Steps
      BY <3>1 DEF Steps, Voiding
    <3>6. LabelsGrow(r)
      BY <1>3 DEF FindActive, LabelsGrow
    <3>7. \A t_1 \in Trackings : RowApproved(t_1)'
      BY <1>1, <3>6, ApprovedStays
    <3> QED BY <3>1, <3>2, <3>3, <3>4, <3>5, <3>6, <3>7, ApprovalGoto
  <2> QED BY <1>3, <2>1, <2>2 DEF FindActive
<1>4. CASE ~FindActive(r)
  <2>1. l \in Buys /\ label[l] # "unbought"
    <3>1. CASE pc[r] = "undoLabel"
      BY <1>1, <1>2, <3>1, OrdersAssumption DEF Fits, BuySteps, Ended, ApprovalInv, Buys
    <3>2. CASE pc[r] = "carrier"
      <4>1. l \in Active(mem[r].order) /\ rows[l].labelled
        BY <1>1, <1>2, <3>2 DEF Phase, PhaseOfVoid
      <4> QED BY <4>1 DEF Active, Recorded, ApprovalInv, RowApproved
    <3> QED BY <1>4, <3>1, <3>2
            DEF UndoLabelApproved, UndoLabelRefused, VoidApproved, VoidRefused, VoidUnanswered
  <2>2. label' \in {label, [label EXCEPT ![l] = "voided"]}
    BY <1>2, <1>4
       DEF UndoLabelApproved, UndoLabelRefused, VoidApproved, VoidRefused, VoidUnanswered
  <2>3. LabelsGrow(r)
    BY <2>1, <2>2, VoidingGrows
  <2>4. \A t \in Trackings : RowApproved(t)'
    BY <1>1, <2>3, ApprovedStays
  <2>5. ASSUME NEW p \in {"failed", "note", "voidRow"}, NEW m, Goto(r, p, m), m.held = l,
               p = "voidRow" /\ m.answer = TRUE => label'[l] = "voided"
        PROVE  ApprovalInv'
    <3>1. p \in Steps /\ p \notin BeforePurchase
      BY DEF Steps, Unwinding, Voiding, Ended, BeforePurchase
    <3>2. label'[l] # "unbought"
      BY <2>1, <2>3 DEF LabelsGrow
    <3> QED BY <2>1, <2>3, <2>4, <2>5, <3>1, <3>2, ApprovalGoto
  <2>6. CASE UndoLabelApproved(r) \/ UndoLabelRefused(r)
    BY <1>2, <2>5, <2>6 DEF UndoLabelApproved, UndoLabelRefused
  <2>7. CASE VoidUnanswered(r)
    <3>1. PICK m : m = [mem[r] EXCEPT !.failure = "unreachable"]
      OBVIOUS
    <3>2. m.held = l
      BY <1>1, <1>2, <3>1 DEF Locals
    <3> QED BY <2>5, <2>7, <3>1, <3>2 DEF VoidUnanswered
  <2>8. CASE VoidRefused(r)
    <3>1. PICK m : m = [mem[r] EXCEPT !.answer = FALSE]
      OBVIOUS
    <3>2. m.held = l /\ m.answer = FALSE
      BY <1>1, <1>2, <3>1 DEF Locals
    <3> QED BY <2>5, <2>8, <3>1, <3>2 DEF VoidRefused
  <2>9. CASE VoidApproved(r)
    <3>1. PICK m : m = [mem[r] EXCEPT !.answer = TRUE]
      OBVIOUS
    <3>2. m.held = l
      BY <1>1, <1>2, <3>1 DEF Locals
    <3>3. label'[l] = "voided"
      BY <1>2, <2>1, <2>9 DEF VoidApproved, TypeInv, TypeOK
    <3> QED BY <2>5, <2>9, <3>1, <3>2, <3>3 DEF VoidApproved
  <2> QED BY <1>4, <2>6, <2>7, <2>8, <2>9
<1> QED BY <1>3, <1>4

\* The row marked is the row whose label was voided: it is the only active one.
LEMMA ApprovalMarks ==
    ASSUME TypeInv, OneByOne, ApprovalInv, NEW r \in Requests, r \in InFlight, VoidRow(r)
    PROVE  ApprovalInv'
<1>1. /\ mem[r] \in Locals /\ Fits(r, pc[r], mem[r]) /\ Phase(r, pc[r], mem[r])
      /\ UNCHANGED label /\ pc[r] = "voidRow"
  BY AtWork DEF VoidRow
<1>2. CASE Fail(r) /\ UNCHANGED rows
  BY <1>1, <1>2, ApprovalFail
<1>3. ASSUME NEW x \in Active(mem[r].order),
             rows' = [rows EXCEPT ![x].voided = TRUE, ![x].void_approved = mem[r].answer],
             Goto(r, "restore", [mem[r] EXCEPT !.held = x])
      PROVE  ApprovalInv'
  <2>1. PICK o : o = mem[r].order
    OBVIOUS
  <2>2. PICK t : t = x
    OBVIOUS
  <2>3. o \in Orders /\ r \notin Buys
    BY <1>1, <2>1 DEF Fits, Ended, Voiding, Buys
  <2>4. Settled(o) /\ mem[r].held \in Active(o)
    BY <1>1, <2>1, <2>3
       DEF Phase, PhaseOfVoid, Calm, Taken, Inserted, Voided, Restocked
  <2>5. t = mem[r].held
    BY <1>3, <2>1, <2>2, <2>4 DEF Settled, RowsAgree, One
  <2>6. t \in Trackings /\ rows[t] # NoRow /\ rows[t] \in Rows
    BY <1>3, <2>2 DEF Active, Recorded, TypeInv, TypeOK
  <2>7. PICK a : a = mem[r].answer
    OBVIOUS
  <2>8. /\ rows'[t] = [[rows[t] EXCEPT !.voided = TRUE] EXCEPT !.void_approved = a]
        /\ \A u \in Trackings \ {t} : rows'[u] = rows[u]
    BY <1>3, <2>2, <2>6, <2>7 DEF TypeInv, TypeOK
  <2>9. rows'[t].labelled = rows[t].labelled /\ rows'[t].void_approved = a
    BY <2>6, <2>8 DEF Rows
  <2>10. a = TRUE => t \in Buys /\ label[t] = "voided"
    BY <1>1, <2>5, <2>7 DEF ApprovalInv
  <2>11. LabelsGrow(r)
    BY <1>1 DEF LabelsGrow
  <2>12. RowApproved(t)'
    BY <1>1, <2>6, <2>9, <2>10 DEF ApprovalInv, RowApproved
  <2>13. \A u \in Trackings : RowApproved(u)'
    BY <2>8, <2>11, <2>12, ApprovedStays
  <2>14. PICK m : m = [mem[r] EXCEPT !.held = x]
    OBVIOUS
  <2>15. "restore" \in Steps
    BY DEF Steps, Voiding
  <2> QED BY <1>3, <2>3, <2>11, <2>13, <2>14, <2>15, ApprovalGoto
<1> QED BY <1>2, <1>3 DEF VoidRow

LEMMA NextApproval ==
    ASSUME Undisturbed, TypeInv, OneByOne, ApprovalInv, [Next]_vars
    PROVE  ApprovalInv'
<1>1. ASSUME NEW r \in Requests, Work(r) PROVE ApprovalInv'
  <2>1. r \in InFlight
    BY <1>1, WorkRuns
  <2> QED BY <1>1, <2>1, ApprovalReads, ApprovalBuys, ApprovalRows, ApprovalVoids,
             ApprovalMarks DEF Work
<1>2. ASSUME NEW r \in Requests, Start(r) PROVE ApprovalInv'
  <2>1. PICK p, m : p = FirstStep(Job[r].kind) /\ Goto(r, p, m) /\ (r \in Buys => m.held = None)
    <3> DEFINE m == [Blank EXCEPT
                       !.order = IF Job[r].kind = "track" THEN None ELSE Job[r].order,
                       !.held = CASE Job[r].kind = "track" -> Job[r].arg.tracking
                                  [] Job[r].kind = "record" -> Job[r].arg
                                  [] OTHER -> None]
    <3>1. r \in Buys => m.held = None
      BY DEF Blank, Buys
    <3>2. Goto(r, FirstStep(Job[r].kind), m)
      BY <1>2 DEF Start
    <3> QED BY <3>1, <3>2
  <2>2. p \in Steps /\ p # "voidRow"
    BY <2>1, JobAssumption DEF FirstStep, Steps, Shipping, Voiding, Tracking, Transitioning
  <2>3. pc[r] = "waiting" /\ UNCHANGED <<rows, label>>
    BY <1>2 DEF Start
  <2>4. LabelsGrow(r)
    BY <2>3 DEF LabelsGrow
  <2>5. \A t \in Trackings : RowApproved(t)'
    BY <2>3, <2>4, ApprovedStays
  <2>6. r \in Buys => label'[r] = "unbought"
    BY <2>3 DEF ApprovalInv, BeforePurchase
  <2> QED BY <2>1, <2>2, <2>4, <2>5, <2>6, ApprovalGoto
<1>3. ASSUME NEW r \in Requests, StatementFails(r) PROVE FALSE
  BY <1>3 DEF StatementFails, Undisturbed, TypeInv, TypeOK
<1>4. ~Crash
  BY DEF Crash, Undisturbed, TypeInv, TypeOK
<1>5. CASE UNCHANGED vars
  BY <1>5 DEF vars, ApprovalInv, RowApproved
<1> QED BY <1>1, <1>2, <1>3, <1>4, <1>5 DEF Next

(***************************************************************************)
(* A shipment that says the carrier approved its void is one whose label   *)
(* the carrier voided.                                                     *)
(***************************************************************************)
THEOREM ApprovalsAreTrue ==
    ASSUME Undisturbed
    PROVE  Spec => []VoidApprovalIsTrue
<1>1. Init => ApprovalInv
  BY DEF Init, Blank, ApprovalInv, RowApproved, Buys
<1>2. TypeInv /\ OneByOne /\ ApprovalInv /\ [Next]_vars => ApprovalInv'
  BY NextApproval
<1>3. ApprovalInv => VoidApprovalIsTrue
  BY DEF ApprovalInv, RowApproved, VoidApprovalIsTrue, Recorded
<1> QED BY <1>1, <1>2, <1>3, AlwaysOneByOne, PTL DEF Spec

-----------------------------------------------------------------------------
(***************************************************************************)
(* The refinement.  Of the steps of a request only the write of the status *)
(* is seen in OrderLifecycle: the row is put before it and a void's row is *)
(* marked before it, and in both the parcel is where it was until then.    *)
(***************************************************************************)
\* The parcels of o while r is at work.
Parcels(r, o) == ParcelsOf(r, pc[r], mem[r], o)

\* What WithCarrier says, from the one request that runs.
Shown ==
    \A o \in Orders :
        /\ WithCarrier(o) \subseteq Trackings /\ RowsAgree(o, WithCarrier(o))
        /\ Quiet => WithCarrier(o) = Active(o)
        /\ \A r \in Requests : InFlight = {r} => WithCarrier(o) = Parcels(r, o)

LEMMA CarrierShown ==
    ASSUME TypeInv, OneByOne
    PROVE  Shown
<1> SUFFICES ASSUME NEW o \in Orders
             PROVE  /\ WithCarrier(o) \subseteq Trackings /\ RowsAgree(o, WithCarrier(o))
                    /\ Quiet => WithCarrier(o) = Active(o)
                    /\ \A r \in Requests : InFlight = {r} => WithCarrier(o) = Parcels(r, o)
  BY DEF Shown
<1>1. Active(o) \subseteq Trackings
  BY DEF Active, Recorded
<1>2. CASE Quiet
  <2>1. WithCarrier(o) = Active(o)
    BY <1>2 DEF WithCarrier, Quiet
  <2>2. Settled(o)
    BY <1>2, QuietSettles
  <2> QED BY <1>1, <1>2, <2>1, <2>2 DEF Settled, Quiet
<1>3. ASSUME NEW r \in Requests, Runs(r)
      PROVE  /\ WithCarrier(o) \subseteq Trackings /\ RowsAgree(o, WithCarrier(o))
             /\ WithCarrier(o) = Parcels(r, o)
  <2>1. /\ InFlight = {r} /\ Phase(r, pc[r], mem[r])
        /\ \A x \in Orders \ {mem[r].order} : Settled(x)
        /\ Fits(r, pc[r], mem[r])
    BY <1>3 DEF Runs, TypeInv, LocalsOK
  <2>2. Inserted(r, pc[r]) <=> Ships(r) /\ pc[r] \in {"read", "write", "undoRow"}
    BY DEF Inserted
  <2>3. (Voided(pc[r]) \/ Restocked(r, pc[r])) <=>
           /\ Job[r].kind = "void"
           /\ pc[r] \in {"restore", "reserve", "read", "write", "unreserve", "unvoid"}
    BY <2>1 DEF Voided, Restocked, Fits, Voiding
  <2>4. ~(Inserted(r, pc[r]) /\ Job[r].kind = "void")
    BY DEF Inserted, Ships
  <2>5. Inserted(r, pc[r]) \/ Voided(pc[r]) \/ Restocked(r, pc[r]) => mem[r].order \in Orders
    BY <2>1, <2>2, <2>3 DEF Fits, Ended
  <2>6. WithCarrier(o) = {t \in Active(o) : ~(Inserted(r, pc[r]) /\ mem[r].held = t)}
                            \cup {l \in {mem[r].held} : /\ mem[r].order = o
                                                        /\ Voided(pc[r]) \/ Restocked(r, pc[r])}
    BY <2>1, <2>2, <2>3 DEF WithCarrier, Ships
  <2>7. CASE o # mem[r].order
    <3>1. Inserted(r, pc[r]) => mem[r].held \notin Active(o)
      BY <2>1, <2>5, <2>7 DEF Phase, PhaseOfStock, Active
    <3>2. WithCarrier(o) = Active(o)
      BY <2>6, <2>7, <3>1
    <3> QED BY <1>1, <2>1, <2>7, <3>2 DEF Parcels, ParcelsOf, Settled
  <2>8. CASE o = mem[r].order /\ Inserted(r, pc[r])
    <3>1. WithCarrier(o) = Active(o) \ {mem[r].held}
      BY <2>3, <2>4, <2>6, <2>8
    <3> QED BY <1>1, <2>1, <2>8, <3>1 DEF Parcels, ParcelsOf, Phase, PhaseOfStock
  <2>9. CASE o = mem[r].order /\ (Voided(pc[r]) \/ Restocked(r, pc[r]))
    <3>1. Active(o) = {} /\ status[o] \in Sent /\ mem[r].held \in Trackings
      BY <2>1, <2>9 DEF Phase, PhaseOfVoid, Recorded
    <3>2. WithCarrier(o) = {mem[r].held}
      BY <2>6, <2>9, <3>1
    <3> QED BY <2>3, <2>4, <2>9, <3>1, <3>2 DEF Parcels, ParcelsOf, RowsAgree, One
  <2>10. CASE /\ o = mem[r].order /\ ~Inserted(r, pc[r])
              /\ ~Voided(pc[r]) /\ ~Restocked(r, pc[r])
    <3>1. WithCarrier(o) = Active(o)
      BY <2>6, <2>10
    <3>2. RowsAgree(o, Active(o))
      BY <2>1, <2>10 DEF Phase, PhaseOfStock, PhaseOfStatus, Calm, Settled
    <3> QED BY <1>1, <2>10, <3>1, <3>2 DEF Parcels, ParcelsOf
  <2> QED BY <2>7, <2>8, <2>9, <2>10
<1> QED BY <1>2, <1>3 DEF OneByOne, Quiet, Runs

\* From one step to the next of the same kind nothing is seen.
LEMMA ParcelsIdle ==
    ASSUME TypeInv, NEW r \in Requests, NEW p \in Steps, NEW m, Goto(r, p, m), UNCHANGED rows,
           Inserted(r, p) <=> Inserted(r, pc[r]),
           Voided(p) \/ Restocked(r, p) <=> Voided(pc[r]) \/ Restocked(r, pc[r]),
           Inserted(r, p) \/ Voided(p) \/ Restocked(r, p) =>
               m.held = mem[r].held /\ m.order = mem[r].order
    PROVE  \A o : Parcels(r, o)' = Parcels(r, o)
<1>1. pc'[r] = p /\ (p \notin Ended => mem'[r] = m)
  BY DEF Goto, TypeInv, TypeOK
<1>2. p \in Ended => ~Inserted(r, p) /\ ~Voided(p) /\ ~Restocked(r, p)
  BY DEF Ended, Inserted, Voided, Restocked
<1>3. \A o : Active(o)' = Active(o)
  BY DEF Active, Recorded
<1>4. CASE Inserted(r, p) \/ Voided(p) \/ Restocked(r, p)
  <2>1. mem'[r].held = mem[r].held /\ mem'[r].order = mem[r].order
    BY <1>1, <1>2, <1>4
  <2>2. /\ Inserted(r, pc'[r]) <=> Inserted(r, pc[r])
        /\ Voided(pc'[r]) \/ Restocked(r, pc'[r]) <=> Voided(pc[r]) \/ Restocked(r, pc[r])
    BY <1>1
  <2> QED BY <1>3, <2>1, <2>2 DEF Parcels, ParcelsOf, Inserted, Voided, Restocked
<1>5. CASE ~Inserted(r, p) /\ ~Voided(p) /\ ~Restocked(r, p)
  <2>1. \A o : Parcels(r, o) = Active(o)
    BY <1>5 DEF Parcels, ParcelsOf
  <2>2. \A o : Parcels(r, o)' = Active(o)'
    BY <1>1, <1>5 DEF Parcels, ParcelsOf, Inserted, Voided, Restocked
  <2> QED BY <1>3, <2>1, <2>2
<1> QED BY <1>4, <1>5

\* Nor when a step fails: what undoes it begins where it was.
LEMMA ParcelsFail ==
    ASSUME TypeInv, NEW r \in Requests, Fail(r), UNCHANGED rows,
           pc[r] \in {"read", "status", "free", "purchase", "reconcile", "fulfil", "ship", "insert",
                      "find", "voidRow", "reserve", "apply", "deliver"}
    PROVE  \A o : Parcels(r, o)' = Parcels(r, o)
<1>1. Fits(r, pc[r], mem[r])
  BY DEF TypeInv, LocalsOK
<1>2. PICK p : p = Rollback(r)
  OBVIOUS
<1>3. /\ Inserted(r, p) <=> Inserted(r, pc[r])
      /\ Voided(p) \/ Restocked(r, p) <=> Voided(pc[r]) \/ Restocked(r, pc[r])
  BY <1>1, <1>2, JobAssumption
     DEF Rollback, Inserted, Voided, Restocked, Ships, Transitioning, Fits, Voiding, ShipSteps
<1> QED BY <1>2, <1>3, RollbackTyped, ParcelsIdle DEF Fail

\* The steps that leave the rows alone, but for the write of the status.
LEMMA ParcelsRead ==
    ASSUME TypeInv, NEW r \in Requests,
           \/ ReadStatus(r) \/ LogTransition(r) \/ CheckStatus(r) \/ CheckFree(r)
           \/ PurchaseAnswered(r) \/ PurchaseRefused(r) \/ PurchaseUnanswered(r)
           \/ ReconcileFound(r) \/ ReconcileNothing(r) \/ StoreLabelPdf(r)
           \/ CreateFulfilment(r) \/ CreateShipment(r) \/ UndoFulfilment(r) \/ UndoFile(r)
           \/ UndoLabelApproved(r) \/ UndoLabelRefused(r) \/ NoteOrphan(r)
           \/ FindActive(r) \/ VoidApproved(r) \/ VoidRefused(r) \/ VoidUnanswered(r)
           \/ RestoreReservations(r) \/ CreateReservations(r) \/ UndoReservations(r)
           \/ ClaimEvent(r) \/ LookupShipment(r) \/ ReadContext(r) \/ SnapshotTracking(r)
           \/ MarkDelivered(r) \/ ReleaseEvent(r)
    PROVE  \A o : Parcels(r, o)' = Parcels(r, o)
<1> DEFINE Unseen == {"log", "status", "free", "purchase", "reconcile", "store", "fulfil", "ship",
                      "undoFulfilment", "undoFile", "undoLabel", "note", "find", "carrier",
                      "claim", "lookup", "context", "snapshot", "deliver", "release"}
           After == {"done", "free", "purchase", "store", "reconcile", "failed", "fulfil", "ship",
                     "insert", "undoFile", "undoLabel", "note", "carrier", "voidRow",
                     "lookup", "duplicate", "dropped", "context", "snapshot", "apply"}
<1>1. mem[r] \in Locals /\ Fits(r, pc[r], mem[r]) /\ UNCHANGED rows
  BY DEF TypeInv, TypeOK, LocalsOK, ReadStatus, LogTransition, CheckStatus, CheckFree,
     PurchaseAnswered, PurchaseRefused, PurchaseUnanswered, ReconcileFound, ReconcileNothing,
     StoreLabelPdf, CreateFulfilment, CreateShipment, UndoFulfilment, UndoFile,
     UndoLabelApproved, UndoLabelRefused, NoteOrphan, FindActive, VoidApproved, VoidRefused,
     VoidUnanswered, RestoreReservations, CreateReservations, UndoReservations, ClaimEvent,
     LookupShipment, ReadContext, SnapshotTracking, MarkDelivered, ReleaseEvent
<1>2. ASSUME NEW p \in After, pc[r] \in Unseen, NEW m, Goto(r, p, m)
      PROVE  \A o : Parcels(r, o)' = Parcels(r, o)
  <2>1. p \in Steps
    BY DEF Steps, Shipping, Unwinding, Voiding, Tracking, Ended
  <2>2. ~Inserted(r, p) /\ ~Voided(p) /\ ~Restocked(r, p)
    BY DEF Inserted, Voided, Restocked
  <2>3. ~Inserted(r, pc[r]) /\ ~Voided(pc[r]) /\ ~Restocked(r, pc[r])
    BY <1>2 DEF Inserted, Voided, Restocked
  <2> QED BY <1>1, <1>2, <2>1, <2>2, <2>3, ParcelsIdle
<1>3. CASE ReadStatus(r)
  <2>1. CASE Fail(r)
    BY <1>1, <1>3, <2>1, ParcelsFail DEF ReadStatus
  <2>2. CASE Goto(r, "write", [mem[r] EXCEPT !.seen = status[mem[r].order]])
    <3>1. PICK m : m = [mem[r] EXCEPT !.seen = status[mem[r].order]]
      OBVIOUS
    <3>2. m.held = mem[r].held /\ m.order = mem[r].order
      BY <1>1, <3>1 DEF Locals
    <3>3. pc[r] = "read" /\ "write" \in Steps
      BY <1>3 DEF ReadStatus, Steps, Shipping, Transitioning
    <3>4. /\ Inserted(r, "write") <=> Inserted(r, pc[r])
          /\ Voided("write") \/ Restocked(r, "write") <=> Voided(pc[r]) \/ Restocked(r, pc[r])
      BY <3>3 DEF Inserted, Voided, Restocked
    <3> QED BY <1>1, <2>2, <3>1, <3>2, <3>3, <3>4, ParcelsIdle
  <2> QED BY <1>3, <2>1, <2>2 DEF ReadStatus
<1>4. CASE MarkDelivered(r) \/ CreateShipment(r) \/ CreateFulfilment(r) \/ FindActive(r)
           \/ CheckStatus(r) \/ CheckFree(r) \/ PurchaseRefused(r) \/ ReconcileNothing(r)
  <2>1. CASE Fail(r)
    BY <1>1, <1>4, <2>1, ParcelsFail
       DEF MarkDelivered, CreateShipment, CreateFulfilment, FindActive, CheckStatus, CheckFree,
           PurchaseRefused, ReconcileNothing
  <2>2. CASE MarkDelivered(r) /\ Goto(r, "read", mem[r])
    <3>1. pc[r] = "deliver" /\ Job[r].kind = "track" /\ "read" \in Steps
      BY <1>1, <2>2 DEF MarkDelivered, Fits, Tracking, Steps, Shipping, Transitioning
    <3>2. /\ ~Inserted(r, "read") /\ ~Voided("read") /\ ~Restocked(r, "read")
          /\ ~Inserted(r, pc[r]) /\ ~Voided(pc[r]) /\ ~Restocked(r, pc[r])
      BY <3>1 DEF Inserted, Voided, Restocked, Ships
    <3> QED BY <1>1, <2>2, <3>1, <3>2, ParcelsIdle
  <2>3. CASE \E p \in After : \E m : Goto(r, p, m)
    BY <1>2, <1>4, <2>3
       DEF MarkDelivered, CreateShipment, CreateFulfilment, FindActive, CheckStatus, CheckFree,
           PurchaseRefused, ReconcileNothing
  <2>4. CASE FindActive(r)
    <3>1. Fail(r) \/ \E p \in {"carrier", "voidRow"} : \E m : Goto(r, p, m)
      BY <2>4 DEF FindActive
    <3> QED BY <2>1, <2>3, <3>1
  <2> QED BY <1>4, <2>1, <2>2, <2>3, <2>4
          DEF MarkDelivered, CreateShipment, CreateFulfilment, CheckStatus, CheckFree,
              PurchaseRefused, ReconcileNothing
<1>5. CASE RestoreReservations(r) \/ CreateReservations(r) \/ UndoReservations(r)
  <2>1. Job[r].kind = "void" /\ pc[r] \in {"restore", "reserve", "unreserve"}
    BY <1>1, <1>5 DEF RestoreReservations, CreateReservations, UndoReservations, Fits, Voiding
  <2>2. CASE CreateReservations(r) /\ Fail(r)
    BY <1>1, <2>2, ParcelsFail DEF CreateReservations
  <2>3. ASSUME NEW p \in {"reserve", "read", "unvoid"}, NEW m, Goto(r, p, m),
               m.held = mem[r].held, m.order = mem[r].order
        PROVE  \A o : Parcels(r, o)' = Parcels(r, o)
    <3>1. p \in Steps
      BY DEF Steps, Shipping, Transitioning, Voiding
    <3>2. /\ ~Inserted(r, p) /\ ~Inserted(r, pc[r])
          /\ Voided(p) \/ Restocked(r, p)
          /\ Voided(pc[r]) \/ Restocked(r, pc[r])
      BY <2>1 DEF Inserted, Voided, Restocked, Ships
    <3> QED BY <1>1, <2>3, <3>1, <3>2, ParcelsIdle
  <2>4. CASE RestoreReservations(r)
    <3>1. PICK m : m = [mem[r] EXCEPT !.stock =
                          IF fulfilled[mem[r].order] # {} /\ reserved[mem[r].order] = {}
                          THEN {r} ELSE {}]
      OBVIOUS
    <3>2. m.held = mem[r].held /\ m.order = mem[r].order
      BY <1>1, <3>1 DEF Locals
    <3> QED BY <2>3, <2>4, <3>1, <3>2 DEF RestoreReservations
  <2>5. CASE Goto(r, "read", mem[r]) \/ Goto(r, "unvoid", mem[r])
    BY <2>3, <2>5
  <2> QED BY <1>5, <2>2, <2>4, <2>5 DEF CreateReservations, UndoReservations
<1>6. CASE \/ LogTransition(r) \/ PurchaseAnswered(r) \/ PurchaseUnanswered(r)
           \/ ReconcileFound(r) \/ StoreLabelPdf(r) \/ UndoFulfilment(r) \/ UndoFile(r)
           \/ UndoLabelApproved(r) \/ UndoLabelRefused(r) \/ NoteOrphan(r)
           \/ VoidApproved(r) \/ VoidRefused(r) \/ VoidUnanswered(r)
           \/ ClaimEvent(r) \/ LookupShipment(r) \/ ReadContext(r) \/ SnapshotTracking(r)
           \/ ReleaseEvent(r)
  <2>1. pc[r] \in Unseen
    BY <1>6 DEF LogTransition, PurchaseAnswered, PurchaseUnanswered, ReconcileFound,
       StoreLabelPdf, UndoFulfilment, UndoFile, UndoLabelApproved, UndoLabelRefused, NoteOrphan,
       VoidApproved, VoidRefused, VoidUnanswered, ClaimEvent, LookupShipment, ReadContext,
       SnapshotTracking, ReleaseEvent
  <2>2. \E p \in After : \E m : Goto(r, p, m)
    <3>1. CASE \/ LogTransition(r) \/ PurchaseAnswered(r) \/ PurchaseUnanswered(r)
               \/ ReconcileFound(r) \/ StoreLabelPdf(r) \/ UndoFulfilment(r) \/ UndoFile(r)
      BY <3>1 DEF LogTransition, PurchaseAnswered, PurchaseUnanswered, ReconcileFound,
         StoreLabelPdf, UndoFulfilment, UndoFile
    <3>2. CASE \/ UndoLabelApproved(r) \/ UndoLabelRefused(r) \/ NoteOrphan(r)
               \/ VoidApproved(r) \/ VoidRefused(r) \/ VoidUnanswered(r)
      BY <3>2 DEF UndoLabelApproved, UndoLabelRefused, NoteOrphan, VoidApproved, VoidRefused,
         VoidUnanswered
    <3>3. CASE \/ ClaimEvent(r) \/ LookupShipment(r) \/ ReadContext(r) \/ SnapshotTracking(r)
               \/ ReleaseEvent(r)
      BY <3>3 DEF ClaimEvent, LookupShipment, ReadContext, SnapshotTracking, ReleaseEvent
    <3> QED BY <1>6, <3>1, <3>2, <3>3
  <2> QED BY <1>2, <2>1, <2>2
<1> QED BY <1>3, <1>4, <1>5, <1>6

\* The row of a shipment is put and taken back unseen.
LEMMA ParcelsInsert ==
    ASSUME TypeInv, OneByOne, NEW r \in Requests, r \in InFlight, InsertRow(r) \/ UndoRow(r)
    PROVE  \A o \in Orders : Parcels(r, o)' = Parcels(r, o)
<1>1. mem[r] \in Locals /\ Fits(r, pc[r], mem[r]) /\ Phase(r, pc[r], mem[r])
  BY AtWork
<1>2. PICK t : t = mem[r].held
  OBVIOUS
<1>3. PICK o1 : o1 = mem[r].order
  OBVIOUS
<1>4. Ships(r) /\ o1 \in Orders /\ t \in Trackings
  BY <1>1, <1>2, <1>3, JobAssumption
     DEF InsertRow, UndoRow, Fits, ShipSteps, Ended, Ships, Trackings
<1>5. \A u \in Trackings \ {t} : rows'[u] = rows[u]
  BY <1>2 DEF InsertRow, UndoRow, TypeInv, TypeOK
<1>6. CASE InsertRow(r) /\ Fail(r) /\ UNCHANGED rows
  BY <1>6, ParcelsFail DEF InsertRow
<1>7. CASE InsertRow(r) /\ rows[t] = NoRow
  <2>1. pc[r] = "insert" /\ Goto(r, "read", mem[r])
    BY <1>2, <1>7 DEF InsertRow
  <2>2. rows'[t].order = o1
    <3> DEFINE new == [order |-> mem[r].order, labelled |-> Job[r].kind = "buy",
                       file |-> IF mem[r].filed THEN r ELSE None,
                       voided |-> FALSE, void_approved |-> None,
                       tracking_status |-> "accepted", delivered |-> FALSE]
    <3>1. new.order = o1
      BY <1>3
    <3>2. rows' = [rows EXCEPT ![t] = new]
      BY <1>2, <1>7 DEF InsertRow
    <3> HIDE DEF new
    <3> QED BY <1>4, <3>1, <3>2 DEF TypeInv, TypeOK
  <2>3. pc'[r] = "read" /\ mem'[r] = mem[r]
    BY <2>1 DEF Goto, Ended, TypeInv, TypeOK
  <2>4. /\ \A o : t \notin Active(o)
        /\ \A o \in Orders \ {o1} : Active(o)' = Active(o)
        /\ Active(o1)' \ {t} = Active(o1)
    BY <1>4, <1>5, <1>7, <2>2, OneRowChanges
  <2>5. \A o \in Orders : Parcels(r, o) = Active(o)
    BY <2>1 DEF Parcels, ParcelsOf, Inserted, Voided, Restocked
  <2>6. \A o \in Orders : Parcels(r, o)' = IF o = o1 THEN Active(o)' \ {t} ELSE Active(o)'
    BY <1>2, <1>3, <1>4, <2>3 DEF Parcels, ParcelsOf, Inserted
  <2> QED BY <2>4, <2>5, <2>6
<1>8. CASE UndoRow(r)
  <2>1. pc[r] = "undoRow" /\ Goto(r, "undoFulfilment", mem[r]) /\ rows'[t] = NoRow
    BY <1>2, <1>4, <1>8 DEF UndoRow, TypeInv, TypeOK
  <2>2. pc'[r] = "undoFulfilment"
    BY <2>1 DEF Goto, TypeInv, TypeOK
  <2>3. Inserted(r, pc[r]) /\ t \in Active(o1)
    BY <1>1, <1>2, <1>3, <1>4, <2>1 DEF Inserted, Phase, PhaseOfStock
  <2>4. \A o \in Orders : Active(o)' = IF o = o1 THEN Active(o) \ {t} ELSE Active(o)
    BY <1>4, <1>5, <2>1, <2>3, OneRowChanges
  <2>5. \A o \in Orders : Parcels(r, o)' = Active(o)'
    BY <2>2 DEF Parcels, ParcelsOf, Inserted, Voided, Restocked
  <2>6. \A o \in Orders : Parcels(r, o) = IF o = o1 THEN Active(o) \ {t} ELSE Active(o)
    BY <1>2, <1>3, <2>3 DEF Parcels, ParcelsOf
  <2> QED BY <2>4, <2>5, <2>6
<1> QED BY <1>2, <1>6, <1>7, <1>8 DEF InsertRow

\* So is the row of a void marked and unmarked.
LEMMA ParcelsVoid ==
    ASSUME TypeInv, OneByOne, NEW r \in Requests, r \in InFlight, VoidRow(r) \/ UndoVoidRow(r)
    PROVE  \A o \in Orders : Parcels(r, o)' = Parcels(r, o)
<1>1. /\ mem[r] \in Locals /\ Fits(r, pc[r], mem[r]) /\ Phase(r, pc[r], mem[r])
      /\ pc[r] \in {"voidRow", "unvoid"}
  BY AtWork DEF VoidRow, UndoVoidRow
<1>2. PICK o1 : o1 = mem[r].order
  OBVIOUS
<1>3. Job[r].kind = "void" /\ o1 \in Orders
  BY <1>1, <1>2 DEF Fits, Voiding, Ended
<1>4. CASE VoidRow(r) /\ Fail(r) /\ UNCHANGED rows
  BY <1>4, ParcelsFail DEF VoidRow
<1>5. ASSUME VoidRow(r), NEW x \in Active(mem[r].order),
             rows' = [rows EXCEPT ![x].voided = TRUE, ![x].void_approved = mem[r].answer],
             Goto(r, "restore", [mem[r] EXCEPT !.held = x])
      PROVE  \A o \in Orders : Parcels(r, o)' = Parcels(r, o)
  <2>1. PICK t : t = x
    OBVIOUS
  <2>2. PICK m : m = [mem[r] EXCEPT !.held = x]
    OBVIOUS
  <2>3. pc[r] = "voidRow" /\ m.held = t /\ m.order = o1 /\ t \in Active(o1)
    BY <1>1, <1>2, <1>5, <2>1, <2>2 DEF VoidRow, Locals
  <2>4. t \in Trackings /\ rows[t] \in Rows
    BY <2>3 DEF Active, Recorded, TypeInv, TypeOK
  <2>5. /\ rows'[t] = [[rows[t] EXCEPT !.voided = TRUE] EXCEPT !.void_approved = mem[r].answer]
        /\ \A u \in Trackings \ {t} : rows'[u] = rows[u]
    BY <1>5, <2>1, <2>4 DEF TypeInv, TypeOK
  <2>6. rows'[t].voided
    BY <2>4, <2>5 DEF Rows
  <2>7. Settled(o1)
    BY <1>1, <1>2, <1>3, <2>3 DEF Phase, Calm, Taken, Inserted, Voided, Restocked
  <2>8. Active(o1) = {t}
    BY <2>3, <2>7 DEF Settled, RowsAgree, One
  <2>9. \A o \in Orders \ {o1} : Active(o)' = Active(o)
    <3>1. \A o \in Orders \ {o1} : t \notin Active(o)' /\ t \notin Active(o)
      BY <2>3, <2>6 DEF Active
    <3>2. \A o : (t \in Active(o)' <=> t \in Active(o)) => Active(o)' = Active(o)
      BY <2>4, <2>5, OneRowChanges
    <3> QED BY <3>1, <3>2
  <2>10. \A o \in Orders : Parcels(r, o) = Active(o)
    BY <2>3 DEF Parcels, ParcelsOf, Inserted, Voided, Restocked
  <2>11. pc'[r] = "restore" /\ mem'[r] = m
    BY <1>5, <2>2 DEF Goto, Ended, TypeInv, TypeOK
  <2>12. \A o \in Orders : Parcels(r, o)' = IF o = o1 THEN {t} ELSE Active(o)'
    BY <2>3, <2>11 DEF Parcels, ParcelsOf, Inserted, Voided
  <2> QED BY <2>8, <2>9, <2>10, <2>12
<1>6. CASE UndoVoidRow(r)
  <2>1. PICK t : t = mem[r].held
    OBVIOUS
  <2>2. pc[r] = "unvoid" /\ Goto(r, "failed", mem[r])
    BY <1>6 DEF UndoVoidRow
  <2>3. Active(o1) = {} /\ t \in Recorded /\ rows[t].order = o1
    BY <1>1, <1>2, <2>1, <2>2 DEF Phase, PhaseOfVoid, Voided
  <2>4. t \in Trackings /\ rows[t] # NoRow /\ rows[t] \in Rows
    BY <2>3 DEF Recorded, TypeInv, TypeOK
  <2>5. /\ rows'[t] = [[rows[t] EXCEPT !.voided = FALSE] EXCEPT !.void_approved = None]
        /\ \A u \in Trackings \ {t} : rows'[u] = rows[u]
    BY <1>6, <2>1, <2>4 DEF UndoVoidRow, TypeInv, TypeOK
  <2>6. rows'[t].order = o1 /\ ~rows'[t].voided /\ rows'[t] # NoRow
    BY <1>3, <2>3, <2>4, <2>5, OrdersAssumption DEF Rows, NoRow
  <2>7. \A o \in Orders : Active(o)' = IF o = o1 THEN {t} ELSE Active(o)
    <3>1. t \in Active(o1)'
      BY <2>4, <2>5, <2>6, OneRowChanges
    <3>2. Active(o1)' = {t}
      BY <2>3, <2>4, <2>5, <3>1, OneRowChanges
    <3>3. \A o \in Orders \ {o1} : t \notin Active(o) /\ t \notin Active(o)'
      BY <2>3, <2>4, <2>5, <2>6, OneRowChanges
    <3>4. \A o \in Orders \ {o1} : Active(o)' = Active(o)
      BY <2>4, <2>5, <3>3, OneRowChanges
    <3> QED BY <3>2, <3>4
  <2>8. pc'[r] = "failed"
    BY <2>2 DEF Goto, TypeInv, TypeOK
  <2>9. \A o \in Orders : Parcels(r, o)' = Active(o)'
    BY <2>8 DEF Parcels, ParcelsOf, Inserted, Voided, Restocked
  <2>10. \A o \in Orders : Parcels(r, o) = IF o = o1 THEN {t} ELSE Active(o)
    BY <1>2, <1>3, <2>1, <2>2 DEF Parcels, ParcelsOf, Inserted, Voided, Ships
  <2> QED BY <2>7, <2>9, <2>10
<1> QED BY <1>4, <1>5, <1>6 DEF VoidRow

\* Tracking moves no parcel.
LEMMA ParcelsTrack ==
    ASSUME TypeInv, NEW r \in Requests, ApplyTrackingStatus(r) \/ UndoApply(r)
    PROVE  \A o \in Orders : Parcels(r, o)' = Parcels(r, o)
<1>1. Fits(r, pc[r], mem[r]) /\ pc[r] \in {"apply", "undoApply"}
  BY DEF TypeInv, LocalsOK, ApplyTrackingStatus, UndoApply
<1>2. PICK t : t = mem[r].held
  OBVIOUS
<1>3. Job[r].kind = "track" /\ t \in Trackings
  BY <1>1, <1>2, JobAssumption, EventsAssumption DEF Fits, Tracking, Ended
<1>4. rows' = rows \/ \E s, d : /\ rows[t] # NoRow
                                /\ rows' = [rows EXCEPT ![t].tracking_status = s,
                                                        ![t].delivered = d]
  BY <1>2 DEF ApplyTrackingStatus, UndoApply
<1>5. \A o : Active(o)' = Active(o)
  <2>1. CASE rows' = rows
    BY <2>1 DEF Active, Recorded
  <2>2. CASE rows' # rows
    <3>1. PICK s, d : /\ rows[t] # NoRow
                      /\ rows' = [rows EXCEPT ![t].tracking_status = s, ![t].delivered = d]
      BY <1>4, <2>2
    <3>2. rows[t] \in Rows
      BY <1>3, <3>1 DEF TypeInv, TypeOK
    <3>3. /\ rows'[t] = [[rows[t] EXCEPT !.tracking_status = s] EXCEPT !.delivered = d]
          /\ \A u \in Trackings \ {t} : rows'[u] = rows[u]
      BY <1>3, <3>1 DEF TypeInv, TypeOK
    <3>4. rows'[t].order = rows[t].order /\ rows'[t].voided = rows[t].voided /\ rows'[t] # NoRow
      BY <3>2, <3>3, OrdersAssumption DEF Rows, NoRow
    <3>5. \A o : t \in Active(o)' <=> t \in Active(o)
      BY <1>3, <3>1, <3>4 DEF Active, Recorded
    <3>6. \A o : (t \in Active(o)' <=> t \in Active(o)) => Active(o)' = Active(o)
      BY <1>3, <3>3, OneRowChanges
    <3> QED BY <3>5, <3>6
  <2> QED BY <2>1, <2>2
<1>6. pc'[r] \in {"deliver", "done", "release"}
  BY <1>1, <1>3 DEF ApplyTrackingStatus, UndoApply, Fail, Rollback, Transitioning, Goto, TypeInv, TypeOK
<1>7. \A o \in Orders : Parcels(r, o) = Active(o)
  BY <1>1 DEF Parcels, ParcelsOf, Inserted, Voided, Restocked
<1>8. \A o \in Orders : Parcels(r, o)' = Active(o)'
  BY <1>6 DEF Parcels, ParcelsOf, Inserted, Voided, Restocked
<1> QED BY <1>5, <1>7, <1>8

\* A request at work moves nobody else.
LEMMA WorkMovesOne ==
    ASSUME TypeInv, NEW r \in Requests, Work(r)
    PROVE  crashed' = crashed /\ \A s \in Requests \ {r} : pc'[s] = pc[s]
<1>1. ASSUME NEW p, NEW m, Goto(r, p, m) PROVE \A s \in Requests \ {r} : pc'[s] = pc[s]
  BY <1>1 DEF Goto, TypeInv, TypeOK
<1>2. CASE \/ ReadStatus(r) \/ WriteStatus(r) \/ LogTransition(r)
           \/ CheckStatus(r) \/ CheckFree(r)
           \/ PurchaseAnswered(r) \/ PurchaseRefused(r) \/ PurchaseUnanswered(r)
           \/ ReconcileFound(r) \/ ReconcileNothing(r) \/ StoreLabelPdf(r)
  <2>1. crashed' = crashed /\ \E p, m : Goto(r, p, m)
    BY <1>2 DEF ReadStatus, WriteStatus, LogTransition, CheckStatus, CheckFree,
       PurchaseAnswered, PurchaseRefused, PurchaseUnanswered, ReconcileFound,
       ReconcileNothing, StoreLabelPdf, Fail
  <2> QED BY <1>1, <2>1
<1>3. CASE \/ CreateFulfilment(r) \/ CreateShipment(r) \/ InsertRow(r)
           \/ UndoRow(r) \/ UndoFulfilment(r) \/ UndoFile(r)
           \/ UndoLabelApproved(r) \/ UndoLabelRefused(r) \/ NoteOrphan(r)
           \/ FindActive(r) \/ VoidApproved(r) \/ VoidRefused(r) \/ VoidUnanswered(r)
  <2>1. crashed' = crashed /\ \E p, m : Goto(r, p, m)
    BY <1>3 DEF CreateFulfilment, CreateShipment, InsertRow, UndoRow, UndoFulfilment, UndoFile,
       UndoLabelApproved, UndoLabelRefused, NoteOrphan, FindActive, VoidApproved, VoidRefused,
       VoidUnanswered, Fail
  <2> QED BY <1>1, <2>1
<1>4. CASE \/ VoidRow(r) \/ RestoreReservations(r) \/ CreateReservations(r)
           \/ UndoReservations(r) \/ UndoVoidRow(r)
           \/ ClaimEvent(r) \/ LookupShipment(r) \/ ReadContext(r) \/ SnapshotTracking(r)
           \/ ApplyTrackingStatus(r) \/ MarkDelivered(r) \/ UndoApply(r) \/ ReleaseEvent(r)
  <2>1. crashed' = crashed /\ \E p, m : Goto(r, p, m)
    BY <1>4 DEF VoidRow, RestoreReservations, CreateReservations, UndoReservations, UndoVoidRow,
       ClaimEvent, LookupShipment, ReadContext, SnapshotTracking, ApplyTrackingStatus,
       MarkDelivered, UndoApply, ReleaseEvent, Fail
  <2> QED BY <1>1, <2>1
<1> QED BY <1>2, <1>3, <1>4 DEF Work

\* What the request shows of its order is what is seen, before a step and after.
LEMMA WorkSeen ==
    ASSUME TypeInv, OneByOne, Shown, OneByOne', Shown', NEW r \in Requests, Work(r)
    PROVE  \A o \in Orders : /\ WithCarrier(o) = Parcels(r, o)
                             /\ WithCarrier(o)' = Parcels(r, o)'
<1>1. r \in InFlight /\ InFlight = {r} /\ crashed = {}
  BY WorkRuns, AtWork
<1>2. crashed' = {} /\ \A s \in Requests \ {r} : pc'[s] \in Ended \cup {"waiting"}
  BY <1>1, WorkMovesOne DEF InFlight
<1>3. CASE r \in InFlight'
  <2>1. InFlight' = {r}
    BY <1>2, <1>3 DEF InFlight
  <2> QED BY <1>1, <2>1 DEF Shown
<1>4. CASE r \notin InFlight'
  <2>1. Quiet'
    BY <1>2, <1>4 DEF InFlight, Quiet
  <2>2. pc'[r] \in Ended \cup {"waiting"}
    BY <1>2, <1>4 DEF InFlight
  <2>3. \A o : Parcels(r, o)' = Active(o)'
    BY <2>2 DEF Parcels, ParcelsOf, Inserted, Voided, Restocked, Ended
  <2> QED BY <1>1, <2>1, <2>3 DEF Shown
<1> QED BY <1>3, <1>4

\* The write of the status is a step of OrderLifecycle.
LEMMA WriteSeen ==
    ASSUME TypeInv, OneByOne, Shown, OneByOne', Shown', NEW r \in Requests, WriteStatus(r)
    PROVE  Lifecycle!Next
<1>1. Work(r) /\ r \in InFlight
  BY WorkRuns DEF Work
<1>2. /\ Phase(r, pc[r], mem[r]) /\ Fits(r, pc[r], mem[r]) /\ pc[r] = "write"
      /\ UNCHANGED rows /\ Goto(r, "log", mem[r])
  BY <1>1, AtWork DEF WriteStatus
<1>3. PICK o : o = mem[r].order
  OBVIOUS
<1>4. PICK to : to = Target(r)
  OBVIOUS
<1>5. PICK s : s = status[o]
  OBVIOUS
<1>6. /\ o \in Orders /\ s \in Statuses /\ status' = [status EXCEPT ![o] = to]
      /\ status'[o] = to /\ CanTransition(s, to)
  BY <1>2, <1>3, <1>4, <1>5
     DEF Fits, Ended, TypeInv, TypeOK, WriteStatus, Phase, PhaseOfStatus
<1>7. pc'[r] = "log"
  BY <1>2 DEF Goto, TypeInv, TypeOK
<1>8. \A x : Active(x)' = Active(x)
  BY <1>2 DEF Active, Recorded
<1>9. \A x \in Orders : WithCarrier(x)' = Active(x)
  <2>1. \A x : Parcels(r, x)' = Active(x)'
    BY <1>7 DEF Parcels, ParcelsOf, Inserted, Voided, Restocked
  <2> QED BY <1>1, <1>8, <2>1, WorkSeen
<1>10. \A x \in Orders \ {o} : WithCarrier(x)' = WithCarrier(x)
  <2>1. \A x \in Orders \ {o} : WithCarrier(x) = Active(x)
    BY <1>1, <1>3, WorkSeen DEF Parcels, ParcelsOf
  <2> QED BY <1>9, <2>1
<1>11. PICK before : before = [x \in Orders |-> WithCarrier(x)]
  OBVIOUS
<1>12. PICK after : after = [x \in Orders |-> WithCarrier(x)]'
  OBVIOUS
<1>13. /\ after = [before EXCEPT ![o] = after[o]]
       /\ RowsAgree(o, before[o]) /\ RowsAgree(o, after[o])'
       /\ after[o] \subseteq Trackings
       /\ before[o] = WithCarrier(o) /\ after[o] = Active(o)
  <2>1. /\ before[o] = WithCarrier(o) /\ after[o] = WithCarrier(o)'
        /\ \A x \in Orders \ {o} : after[x] = before[x]
    BY <1>6, <1>10, <1>11, <1>12
  <2>2. after = [before EXCEPT ![o] = after[o]]
    BY <1>6, <1>11, <1>12, <2>1
  <2>3. RowsAgree(o, before[o])
    BY <1>6, <2>1 DEF Shown
  <2>4. RowsAgree(o, after[o])' /\ after[o] \subseteq Trackings
    BY <1>6, <2>1 DEF Shown, RowsAgree
  <2> QED BY <1>6, <1>9, <2>1, <2>2, <2>3, <2>4
<1>14. Job[r].kind \in {"move", "record", "buy", "void", "track"}
  BY JobAssumption
<1>15. \/ /\ s # "shipped" /\ to \in Transitions[s] \ Sent /\ after = before
       \/ /\ CanTransition(s, "shipped") /\ to = "shipped"
          /\ \E t \in Trackings : after = [before EXCEPT ![o] = {t}]
       \/ CanTransition(s, "delivered") /\ to = "delivered" /\ after = before
       \/ s = "shipped" /\ to = "packing" /\ after = [before EXCEPT ![o] = {}]
  <2>1. CASE Ships(r)
    <3>1. to = "shipped"
      BY <1>4, <2>1 DEF Ships, Target
    <3>2. PICK t : after[o] = {t}
      BY <1>6, <1>13, <3>1 DEF RowsAgree, Sent, One
    <3> QED BY <1>6, <1>13, <3>1, <3>2
  <2>2. CASE Job[r].kind = "void"
    <3>1. to = "packing" /\ s \in Sent
      BY <1>2, <1>3, <1>4, <1>5, <2>2 DEF Target, Phase, PhaseOfVoid, Restocked
    <3>2. s = "shipped"
      BY <1>6, <3>1 DEF Sent, CanTransition, Transitions
    <3>3. after[o] = {}
      BY <1>6, <1>13, <3>1 DEF RowsAgree, Sent
    <3> QED BY <1>13, <3>1, <3>2, <3>3
  <2>3. CASE Job[r].kind \in {"move", "track"}
    <3>1. to # "shipped" /\ (to = "packing" => Active(o) = {})
      BY <1>2, <1>3, <1>4, <2>3 DEF Target, Phase, PhaseOfStatus
    <3>2. WithCarrier(o) = Active(o)
      BY <1>1, <1>2, <1>3, <1>6, <2>3, WorkSeen
         DEF Parcels, ParcelsOf, Inserted, Voided, Restocked, Ships
    <3>3. after = before
      BY <1>13, <3>2, <1>6, <1>11
    <3>4. CASE s = "shipped"
      <4>1. Active(o) # {}
        BY <1>5, <1>13, <3>2, <3>4 DEF RowsAgree, Sent, One
      <4> QED BY <1>6, <3>1, <3>3, <3>4, <4>1 DEF CanTransition, Transitions
    <3>5. CASE s # "shipped"
      BY <1>6, <3>1, <3>3, <3>5 DEF CanTransition, Transitions, Sent, Statuses
    <3> QED BY <3>4, <3>5
  <2> QED BY <1>14, <2>1, <2>2, <2>3 DEF Ships
<1>16. Lifecycle!Advance(o) \/ Lifecycle!Ship(o) \/ Lifecycle!Deliver(o) \/ Lifecycle!Recall(o)
  BY <1>5, <1>6, <1>11, <1>12, <1>15
     DEF Lifecycle!Advance, Lifecycle!Ship, Lifecycle!Deliver, Lifecycle!Recall,
         Lifecycle!CanTransition, CanTransition, Lifecycle!Transitions, Transitions,
         Lifecycle!Sent, Sent
<1> QED BY <1>6, <1>16 DEF Lifecycle!Next

LEMMA NextSeen ==
    ASSUME Undisturbed, TypeInv, OneByOne, Shown, OneByOne', Shown', [Next]_vars
    PROVE  [Lifecycle!Next]_(Lifecycle!lifecycle)
<1>1. ASSUME status' = status, \A o \in Orders : WithCarrier(o)' = WithCarrier(o)
      PROVE  [Lifecycle!Next]_(Lifecycle!lifecycle)
  <2>1. PICK before : before = [o \in Orders |-> WithCarrier(o)]
    OBVIOUS
  <2>2. PICK after : after = [o \in Orders |-> WithCarrier(o)]'
    OBVIOUS
  <2>3. after = before
    BY <1>1, <2>1, <2>2
  <2> QED BY <1>1, <2>1, <2>2, <2>3 DEF Lifecycle!lifecycle
<1>2. ASSUME NEW r \in Requests, Work(r), ~WriteStatus(r)
      PROVE  [Lifecycle!Next]_(Lifecycle!lifecycle)
  <2>1. r \in InFlight
    BY <1>2, WorkRuns
  <2>2. \A o \in Orders : Parcels(r, o)' = Parcels(r, o)
    BY <1>2, <2>1, ParcelsRead, ParcelsInsert, ParcelsVoid, ParcelsTrack DEF Work
  <2>3. status' = status
    BY <1>2 DEF Work, ReadStatus, LogTransition, CheckStatus, CheckFree,
       PurchaseAnswered, PurchaseRefused, PurchaseUnanswered, ReconcileFound, ReconcileNothing,
       StoreLabelPdf, CreateFulfilment, CreateShipment, InsertRow, UndoRow, UndoFulfilment,
       UndoFile, UndoLabelApproved, UndoLabelRefused, NoteOrphan, FindActive, VoidApproved,
       VoidRefused, VoidUnanswered, VoidRow, RestoreReservations, CreateReservations,
       UndoReservations, UndoVoidRow, ClaimEvent, LookupShipment, ReadContext,
       SnapshotTracking, ApplyTrackingStatus, MarkDelivered, UndoApply, ReleaseEvent
  <2> QED BY <1>1, <1>2, <2>2, <2>3, WorkSeen
<1>3. ASSUME NEW r \in Requests, Start(r) PROVE [Lifecycle!Next]_(Lifecycle!lifecycle)
  <2>1. Quiet /\ crashed = {} /\ UNCHANGED <<status, rows, crashed>>
    BY <1>3, StartStep DEF Start, OneByOne
  <2>2. \A o : Active(o)' = Active(o)
    BY <2>1 DEF Active, Recorded
  <2>3. PICK p : p = FirstStep(Job[r].kind)
    OBVIOUS
  <2>4. /\ pc'[r] = p /\ \A s \in Requests \ {r} : pc'[s] = pc[s]
        /\ p \in {"read", "fulfil", "status", "find", "claim"}
        /\ p = "read" => Job[r].kind = "move"
    BY <1>3, <2>3, JobAssumption DEF Start, Goto, FirstStep, TypeInv, TypeOK
  <2>5. InFlight' = {r}
    BY <2>1, <2>4 DEF Quiet, InFlight, Ended
  <2>6. \A o : Parcels(r, o)' = Active(o)'
    BY <2>4 DEF Parcels, ParcelsOf, Inserted, Voided, Restocked, Ships
  <2>7. \A o \in Orders : WithCarrier(o)' = WithCarrier(o)
    BY <2>1, <2>2, <2>5, <2>6 DEF Shown
  <2> QED BY <1>1, <2>1, <2>7
<1>4. ASSUME NEW r \in Requests, StatementFails(r) PROVE FALSE
  BY <1>4 DEF StatementFails, Undisturbed, TypeInv, TypeOK
<1>5. ~Crash
  BY DEF Crash, Undisturbed, TypeInv, TypeOK
<1>6. CASE UNCHANGED vars
  <2>1. /\ UNCHANGED <<status, rows, pc, mem, crashed>>
    BY <1>6 DEF vars
  <2>2. \A o : WithCarrier(o)' = WithCarrier(o)
    BY <2>1 DEF WithCarrier, Active, Recorded, InFlight
  <2> QED BY <1>1, <2>1, <2>2
<1>7. ASSUME NEW r \in Requests, WriteStatus(r) PROVE [Lifecycle!Next]_(Lifecycle!lifecycle)
  BY <1>7, WriteSeen
<1> QED BY <1>2, <1>3, <1>4, <1>5, <1>6, <1>7 DEF Next

LEMMA InitSeen == Init => Lifecycle!Init
<1> SUFFICES ASSUME Init PROVE Lifecycle!Init
  OBVIOUS
<1>1. \A o \in Orders : WithCarrier(o) = {}
  BY DEF Init, WithCarrier, Active, Recorded, InFlight
<1>2. status \in [Orders -> Statuses \ Sent]
  BY OrdersAssumption DEF Init
<1> QED BY <1>1, <1>2
        DEF Lifecycle!Init, Lifecycle!Statuses, Statuses, Lifecycle!Sent, Sent

(***************************************************************************)
(* One request after another, whatever the carrier, Medusa and the stock   *)
(* answer, the workflows are as good as the atomic steps of OrderLifecycle:*)
(* status and parcel change together, along the graph, or not at all.      *)
(***************************************************************************)
THEOREM WorkflowsAreAtomic ==
    ASSUME Undisturbed
    PROVE  Spec => ImplementsLifecycle
<1>1. Init => Lifecycle!Init
  BY InitSeen
<1>2. /\ TypeInv /\ OneByOne /\ Shown /\ OneByOne' /\ Shown' /\ [Next]_vars
      => [Lifecycle!Next]_(Lifecycle!lifecycle)
  BY NextSeen
<1>3. TypeInv /\ OneByOne => Shown
  BY CarrierShown
<1> QED BY <1>1, <1>2, <1>3, AlwaysOneByOne, PTL DEF Spec, ImplementsLifecycle, Lifecycle!Spec
================================================================================
