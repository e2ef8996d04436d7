------------------------------ MODULE Fulfilment ------------------------------
(***************************************************************************)
(* Shipping an order: the order-status module, the ShipStation label calls *)
(* and the five workflows over them (move an order, record a shipment, buy *)
(* a label, void it, apply a tracking webhook), at the grain of one        *)
(* statement or call per step, with every compensation.                    *)
(*                                                                         *)
(* A request is one HTTP call.  It runs in the server process beside every *)
(* other one, keeps its locals in mem and writes only through the database,*)
(* the label store, Medusa's own fulfilment workflows and the carrier.     *)
(*                                                                         *)
(* Bounds: each element of Requests runs at most once, at most MaxInFlight *)
(* of them together, and at most MaxFaults statements fail or processes    *)
(* die.  Compensating writes are not failed one by one; a crash stops them.*)
(***************************************************************************)
EXTENDS Naturals, Sequences, FiniteSets, OrderStatuses

CONSTANTS
    Orders,       \* the orders
    Requests,     \* the calls that may be made, each at most once
    Job,          \* Job[r]: [kind, order, arg] of call r
    Manual,       \* tracking numbers typed by hand, of no label we bought
    Events,       \* tracking webhooks: [tracking, code, at]
    Recipient,    \* Recipient[o]: the name and postal code of order o
    FirstStatus,  \* FirstStatus[o]: where o stood when it is first seen
    Console,      \* "widget": calls the admin page offers; "api": any call
    MaxInFlight,  \* how many calls run together
    MaxFaults,    \* how many statements fail or processes die
    None          \* no value

\* A purchase buys one label at most, so a label is named after its purchase,
\* and its tracking number too.
Buys      == {r \in Requests : Job[r].kind = "buy"}
Trackings == Buys \cup Manual

ASSUME OrdersAssumption ==
    /\ None \notin Orders /\ None \notin Requests
    /\ None \notin Manual /\ None \notin Statuses /\ None \notin BOOLEAN
    /\ Requests \cap Manual = {}
    /\ FirstStatus \in [Orders -> Statuses \ Sent]

ASSUME JobAssumption ==
    \A r \in Requests :
        LET job == Job[r] IN
        /\ job.kind \in {"move", "record", "buy", "void", "track"}
        /\ job.kind = "track" => job.arg \in Events
        /\ job.kind # "track" => job.order \in Orders
        /\ job.kind = "move" => job.arg \in Statuses
        /\ job.kind = "record" => job.arg \in Trackings

ASSUME EventsAssumption ==
    Events \subseteq [tracking : Trackings, code : TrackingCodes, at : Nat]

ASSUME BoundsAssumption ==
    MaxInFlight \in Nat /\ MaxFaults \in Nat /\ Console \in {"widget", "api"}

VARIABLES
    status, history,               \* order-status: the records, the entries
    rows, claimed,                 \* order-status: shipments, webhook events
    files,                         \* label storage: whose PDF is kept
    label, unanswered,             \* carrier: labels; those nobody was told of
    orphaned,                      \* labels an error line names as left behind
    reserved, fulfilled,           \* Medusa: who made an order's reservations
                                   \* (the checkout: the order), fulfilments
    pc, mem,                       \* the requests: next step, locals
    crashed, faults                \* requests a crash cut off; faults so far

orderVars   == <<status, history>>
labelVars   == <<label, unanswered, orphaned>>
stockVars   == <<reserved, fulfilled>>
storeVars   == <<rows, files>>
requestVars == <<pc, mem>>
faultVars   == <<crashed, faults>>
vars == <<orderVars, rows, claimed, files, labelVars, stockVars,
          requestVars, faultVars>>

(***************************************************************************)
(* State.                                                                  *)
(***************************************************************************)
NoRow == [order |-> None]

Rows == [order : Orders, labelled : BOOLEAN, file : Requests \cup {None},
         voided : BOOLEAN, void_approved : BOOLEAN \cup {None},
         tracking_status : TrackingStatuses, delivered : BOOLEAN]

\* What a webhook that moves a row's tracking keeps to put it back.
Snapshots == [tracking_status : TrackingStatuses, delivered : BOOLEAN]

NoSnapshot == [tracking_status |-> "unknown", delivered |-> FALSE]

\* A request's locals: the order, the shipment it works on, the status it last
\* read, whether it stored a PDF, the reservations it took or has to make, the
\* snapshot, what the carrier answered a void and how the call failed.
Locals == [order : Orders \cup {None}, held : Trackings \cup {None},
           seen : Statuses \cup {None}, filed : BOOLEAN,
           stock : SUBSET (Orders \cup Requests), snapshot : Snapshots,
           answer : BOOLEAN \cup {None},
           failure : {None, "http_error", "timeout_unconfirmed", "unreachable"}]

Blank == [order |-> None, held |-> None, seen |-> None, filed |-> FALSE,
          stock |-> {}, snapshot |-> NoSnapshot, answer |-> None,
          failure |-> None]

Transitioning == {"read", "write", "log"}
Shipping  == {"fulfil", "ship", "insert"} \cup Transitioning
Unwinding == {"undoRow", "undoFulfilment", "undoFile", "undoLabel", "note"}
Voiding   == {"find", "carrier", "voidRow", "restore", "reserve",
              "unreserve", "unvoid"}
Tracking  == {"claim", "lookup", "context", "snapshot", "apply", "deliver",
              "undoApply", "release"}
Ended     == {"done", "failed", "duplicate", "dropped", "unreleased"}
Steps     == {"waiting", "status", "free", "purchase", "reconcile", "store"}
             \cup Shipping \cup Unwinding \cup Voiding \cup Tracking \cup Ended

TypeOK ==
    /\ status \in [Orders -> Statuses]
    /\ history \in [Orders -> Seq([from : Statuses \cup {None}, to : Statuses])]
    /\ rows \in [Trackings -> Rows \cup {NoRow}]
    /\ claimed \subseteq Events
    /\ files \subseteq Requests
    /\ label \in [Buys -> {"unbought", "live", "voided"}]
    /\ unanswered \subseteq Buys /\ orphaned \subseteq Buys
    /\ reserved \in [Orders -> SUBSET (Orders \cup Requests)]
    /\ fulfilled \in [Orders -> SUBSET Requests]
    /\ pc \in [Requests -> Steps]
    /\ mem \in [Requests -> Locals]
    /\ crashed \subseteq Requests /\ faults \in Nat

Init ==
    /\ status = FirstStatus
    /\ history = [o \in Orders |-> << >>]
    /\ rows = [t \in Trackings |-> NoRow]
    /\ claimed = {} /\ files = {}
    /\ label = [l \in Buys |-> "unbought"]
    /\ unanswered = {} /\ orphaned = {}
    /\ reserved = [o \in Orders |-> {o}] /\ fulfilled = [o \in Orders |-> {}]
    /\ pc = [r \in Requests |-> "waiting"]
    /\ mem = [r \in Requests |-> Blank]
    /\ crashed = {} /\ faults = 0

(***************************************************************************)
(* Reading the state.                                                      *)
(***************************************************************************)
At(r, step) == pc[r] = step /\ r \notin crashed
InFlight == {r \in Requests : pc[r] \notin Ended \cup {"waiting"} /\ r \notin crashed}

Recorded == {t \in Trackings : rows[t] # NoRow}

\* activeShipment(o) returns one of these rows, whichever the query lists first.
Active(o) == {t \in Recorded : rows[t].order = o /\ ~rows[t].voided}

\* The status request r asks transition for.
Target(r) ==
    CASE Job[r].kind = "move" -> Job[r].arg
      [] Job[r].kind = "void" -> "packing"
      [] Job[r].kind = "track" -> "delivered"
      [] OTHER -> "shipped"

\* Labels reconcileLabel may pick: completed ones that carry this order's
\* number or, failing that, go to the same name and postal code.
Matches(o) == {l \in Buys : label[l] = "live" /\ Recipient[Job[l].order] = Recipient[o]}

\* Where request r resumes when the step it is at fails: the compensation of
\* the last completed step that has one.
Rollback(r) ==
    LET kind == Job[r].kind
        failing == pc[r]
    IN CASE failing \in Transitioning ->
              (CASE kind = "move" -> "failed"
                 [] kind = "void" -> "unreserve"
                 [] kind = "track" -> "undoApply"
                 [] OTHER -> "undoRow")
         [] failing \in {"ship", "insert"} -> "undoFulfilment"
         [] failing = "fulfil" /\ kind = "buy" -> "undoFile"
         [] failing \in {"restore", "reserve"} -> "unvoid"
         [] failing = "deliver" -> "undoApply"
         [] failing \in {"lookup", "context", "snapshot", "apply"} -> "release"
         [] failing = "release" -> "unreleased"
         [] OTHER -> "failed"

\* Request r goes on to step with locals m; it forgets them when it ends.
Goto(r, step, m) ==
    /\ pc' = [pc EXCEPT ![r] = step]
    /\ mem' = [mem EXCEPT ![r] =
                  IF step \in Ended THEN [Blank EXCEPT !.failure = m.failure] ELSE m]

Fail(r) == Goto(r, Rollback(r), mem[r])

(***************************************************************************)
(* Wrong versions of some of the steps below, each a mistake one could make*)
(* in that code.  Next does not use them; each must break a property.      *)
(***************************************************************************)
\* The entry reads the status it came from after the update.
LogTransitionAfterUpdate(r) ==
    /\ At(r, "log")
    /\ history' = [history EXCEPT ![mem[r].order] =
                      Append(@, [from |-> status[mem[r].order], to |-> Target(r)])]
    /\ Goto(r, "done", mem[r])
    /\ UNCHANGED <<status, storeVars, claimed, labelVars, stockVars, faultVars>>

\* record-shipment-tracking without its compensation.
UndoRowMissing(r) ==
    /\ At(r, "undoRow")
    /\ Goto(r, "undoFulfilment", mem[r])
    /\ UNCHANGED <<orderVars, storeVars, claimed, labelVars, stockVars, faultVars>>

\* store-label-pdf without its compensation.
UndoFileMissing(r) ==
    /\ At(r, "undoFile")
    /\ Goto(r, "undoLabel", mem[r])
    /\ UNCHANGED <<orderVars, storeVars, claimed, labelVars, stockVars, faultVars>>

\* The compensating void ignores what the carrier answers.
UndoLabelUnreported(r) ==
    /\ At(r, "undoLabel")
    /\ label' \in {label, [label EXCEPT ![mem[r].held] = "voided"]}
    /\ Goto(r, "failed", mem[r])
    /\ UNCHANGED <<orderVars, storeVars, claimed, unanswered, orphaned, stockVars, faultVars>>

\* Any answer of the carrier counts as an approval.
VoidRefusedAsApproved(r) ==
    /\ At(r, "carrier")
    /\ Goto(r, "voidRow", [mem[r] EXCEPT !.answer = TRUE])
    /\ UNCHANGED <<orderVars, storeVars, claimed, labelVars, stockVars, faultVars>>

\* createReservationsWorkflow is not compensated.
UndoReservationsMissing(r) ==
    /\ At(r, "unreserve")
    /\ Goto(r, "unvoid", mem[r])
    /\ UNCHANGED <<orderVars, storeVars, claimed, labelVars, stockVars, faultVars>>

\* void-shipment-tracking without its compensation.
UndoVoidRowMissing(r) ==
    /\ At(r, "unvoid")
    /\ Goto(r, "failed", mem[r])
    /\ UNCHANGED <<orderVars, storeVars, claimed, labelVars, stockVars, faultVars>>

\* event_key is not unique.
ClaimEventAgain(r) ==
    /\ At(r, "claim")
    /\ Goto(r, "lookup", mem[r])
    /\ claimed' = claimed \cup {Job[r].arg}
    /\ UNCHANGED <<orderVars, storeVars, labelVars, stockVars, faultVars>>

\* The route answers 500 and keeps the claim.
ReleaseEventMissing(r) ==
    /\ At(r, "release")
    /\ Goto(r, "failed", mem[r])
    /\ UNCHANGED <<orderVars, storeVars, claimed, labelVars, stockVars, faultVars>>

(***************************************************************************)
(* A call arrives.  The admin page offers a button only in some states of  *)
(* the order it last loaded; the API takes any call.  The carrier reports  *)
(* on a label only once there is one.                                      *)
(***************************************************************************)
Offered(r) ==
    LET o == Job[r].order IN
    CASE Job[r].kind = "move" -> /\ CanTransition(status[o], Job[r].arg)
                                 /\ Job[r].arg # "shipped"
                                 /\ Job[r].arg = "packing" => Active(o) = {}
      [] Job[r].kind = "buy"  -> status[o] = "packing" /\ Active(o) = {}
      [] Job[r].kind = "void" -> Active(o) # {}
      [] OTHER -> TRUE

FirstStep(kind) ==
    [move |-> "read", record |-> "fulfil", buy |-> "status",
     void |-> "find", track |-> "claim"][kind]

Start(r) ==
    /\ At(r, "waiting")
    /\ Cardinality(InFlight) < MaxInFlight
    /\ IF Job[r].kind = "track"
       THEN Job[r].arg.tracking \in Buys => label[Job[r].arg.tracking] # "unbought"
       ELSE Console = "widget" => Offered(r)
    /\ Goto(r, FirstStep(Job[r].kind),
            [Blank EXCEPT !.order = IF Job[r].kind = "track" THEN None ELSE Job[r].order,
                          !.held = CASE Job[r].kind = "track" -> Job[r].arg.tracking
                                     [] Job[r].kind = "record" -> Job[r].arg
                                     [] OTHER -> None])
    /\ UNCHANGED <<orderVars, storeVars, claimed, labelVars, stockVars, faultVars>>

(***************************************************************************)
(* transition: read and check, write the status, write the entry.          *)
(***************************************************************************)
ReadStatus(r) ==
    /\ At(r, "read")
    /\ LET from == status[mem[r].order] IN
       IF CanTransition(from, Target(r))
       THEN Goto(r, "write", [mem[r] EXCEPT !.seen = from])
       ELSE Fail(r)
    /\ UNCHANGED <<orderVars, storeVars, claimed, labelVars, stockVars, faultVars>>

WriteStatus(r) ==
    /\ At(r, "write")
    /\ status' = [status EXCEPT ![mem[r].order] = Target(r)]
    /\ Goto(r, "log", mem[r])
    /\ UNCHANGED <<history, storeVars, claimed, labelVars, stockVars, faultVars>>

LogTransition(r) ==
    /\ At(r, "log")
    /\ history' = [history EXCEPT ![mem[r].order] =
                      Append(@, [from |-> mem[r].seen, to |-> Target(r)])]
    /\ Goto(r, "done", mem[r])
    /\ UNCHANGED <<status, storeVars, claimed, labelVars, stockVars, faultVars>>

(***************************************************************************)
(* buy-shipping-label: check the order, buy, keep the PDF; then            *)
(* record-shipment, which the hand-recorded shipment runs alone.           *)
(***************************************************************************)
CheckStatus(r) ==
    /\ At(r, "status")
    /\ IF status[mem[r].order] = "packing" THEN Goto(r, "free", mem[r]) ELSE Fail(r)
    /\ UNCHANGED <<orderVars, storeVars, claimed, labelVars, stockVars, faultVars>>

CheckFree(r) ==
    /\ At(r, "free")
    /\ IF Active(mem[r].order) = {} THEN Goto(r, "purchase", mem[r]) ELSE Fail(r)
    /\ UNCHANGED <<orderVars, storeVars, claimed, labelVars, stockVars, faultVars>>

PurchaseAnswered(r) ==
    /\ At(r, "purchase")
    /\ label' = [label EXCEPT ![r] = "live"]
    /\ Goto(r, "store", [mem[r] EXCEPT !.held = r])
    /\ UNCHANGED <<orderVars, storeVars, claimed, unanswered, orphaned, stockVars, faultVars>>

\* The carrier refuses: rejected, out of funds or out of calls.
PurchaseRefused(r) ==
    /\ At(r, "purchase")
    /\ Fail(r)
    /\ UNCHANGED <<orderVars, storeVars, claimed, labelVars, stockVars, faultVars>>

\* No answer we can read, so the label may or may not have been bought: after
\* a timeout the code looks for it, after any other failure it does not.
PurchaseUnanswered(r) ==
    /\ At(r, "purchase")
    /\ \/ UNCHANGED <<label, unanswered>>
       \/ /\ label' = [label EXCEPT ![r] = "live"]
          /\ unanswered' = unanswered \cup {r}
    /\ \/ Goto(r, "reconcile", [mem[r] EXCEPT !.failure = "timeout_unconfirmed"])
       \/ Goto(r, "failed", [mem[r] EXCEPT !.failure = "http_error"])
    /\ UNCHANGED <<orderVars, storeVars, claimed, orphaned, stockVars, faultVars>>

ReconcileFound(r) ==
    /\ At(r, "reconcile")
    /\ \E l \in Matches(mem[r].order) :
          /\ Goto(r, "store", [mem[r] EXCEPT !.held = l, !.failure = None])
          /\ unanswered' = unanswered \ {l}
    /\ UNCHANGED <<orderVars, storeVars, claimed, label, orphaned, stockVars, faultVars>>

\* Nothing matched within the minute and the service, or the call failed.
ReconcileNothing(r) ==
    /\ At(r, "reconcile")
    /\ Fail(r)
    /\ UNCHANGED <<orderVars, storeVars, claimed, labelVars, stockVars, faultVars>>

\* A PDF that cannot be fetched or kept does not fail the purchase.
StoreLabelPdf(r) ==
    /\ At(r, "store")
    /\ \/ /\ files' = files \cup {r}
          /\ Goto(r, "fulfil", [mem[r] EXCEPT !.filed = TRUE])
       \/ /\ UNCHANGED files
          /\ Goto(r, "fulfil", mem[r])
    /\ UNCHANGED <<orderVars, rows, claimed, labelVars, stockVars, faultVars>>

\* createOrderFulfillmentWorkflow takes the reservations of the order.
CreateFulfilment(r) ==
    /\ At(r, "fulfil")
    /\ \/ /\ Goto(r, "ship", [mem[r] EXCEPT !.stock = reserved[mem[r].order]])
          /\ reserved' = [reserved EXCEPT ![mem[r].order] = {}]
          /\ fulfilled' = [fulfilled EXCEPT ![mem[r].order] = @ \cup {r}]
       \/ Fail(r) /\ UNCHANGED stockVars
    /\ UNCHANGED <<orderVars, storeVars, claimed, labelVars, faultVars>>

\* createOrderShipmentWorkflow.
CreateShipment(r) ==
    /\ At(r, "ship")
    /\ Goto(r, "insert", mem[r]) \/ Fail(r)
    /\ UNCHANGED <<orderVars, storeVars, claimed, labelVars, stockVars, faultVars>>

\* recordShipment; tracking_number is unique.
InsertRow(r) ==
    /\ At(r, "insert")
    /\ IF rows[mem[r].held] = NoRow
       THEN /\ rows' = [rows EXCEPT ![mem[r].held] =
                          [order |-> mem[r].order,
                           labelled |-> Job[r].kind = "buy",
                           file |-> IF mem[r].filed THEN r ELSE None,
                           voided |-> FALSE, void_approved |-> None,
                           tracking_status |-> "accepted", delivered |-> FALSE]]
            /\ Goto(r, "read", mem[r])
       ELSE Fail(r) /\ UNCHANGED rows
    /\ UNCHANGED <<orderVars, files, claimed, labelVars, stockVars, faultVars>>

(***************************************************************************)
(* Compensations of the two, last step first.                              *)
(***************************************************************************)
UndoRow(r) ==
    /\ At(r, "undoRow")
    /\ rows' = [rows EXCEPT ![mem[r].held] = NoRow]
    /\ Goto(r, "undoFulfilment", mem[r])
    /\ UNCHANGED <<orderVars, files, claimed, labelVars, stockVars, faultVars>>

UndoFulfilment(r) ==
    /\ At(r, "undoFulfilment")
    /\ fulfilled' = [fulfilled EXCEPT ![mem[r].order] = @ \ {r}]
    /\ reserved' = [reserved EXCEPT ![mem[r].order] = @ \cup mem[r].stock]
    /\ Goto(r, IF Job[r].kind = "buy" THEN "undoFile" ELSE "failed", mem[r])
    /\ UNCHANGED <<orderVars, storeVars, claimed, labelVars, faultVars>>

UndoFile(r) ==
    /\ At(r, "undoFile")
    /\ files' = files \ {r}
    /\ Goto(r, "undoLabel", mem[r])
    /\ UNCHANGED <<orderVars, rows, claimed, labelVars, stockVars, faultVars>>

UndoLabelApproved(r) ==
    /\ At(r, "undoLabel")
    /\ label' = [label EXCEPT ![mem[r].held] = "voided"]
    /\ Goto(r, "failed", mem[r])
    /\ UNCHANGED <<orderVars, storeVars, claimed, unanswered, orphaned, stockVars, faultVars>>

\* The carrier refuses, or gives no answer we can read and may have voided it.
UndoLabelRefused(r) ==
    /\ At(r, "undoLabel")
    /\ label' \in {label, [label EXCEPT ![mem[r].held] = "voided"]}
    /\ orphaned' = orphaned \cup {mem[r].held}
    /\ Goto(r, "note", mem[r])
    /\ UNCHANGED <<orderVars, storeVars, claimed, unanswered, stockVars, faultVars>>

\* An entry from nothing to the present status warns of the orphaned label.
NoteOrphan(r) ==
    /\ At(r, "note")
    /\ history' = [history EXCEPT ![mem[r].order] =
                      Append(@, [from |-> None, to |-> status[mem[r].order]])]
    /\ Goto(r, "failed", mem[r])
    /\ UNCHANGED <<status, storeVars, claimed, labelVars, stockVars, faultVars>>

(***************************************************************************)
(* void-shipment.  The label is voided on one reading of the active row and*)
(* the row marked on a second.                                             *)
(***************************************************************************)
FindActive(r) ==
    /\ At(r, "find")
    /\ \/ \E t \in Active(mem[r].order) :
             Goto(r, IF rows[t].labelled THEN "carrier" ELSE "voidRow",
                  [mem[r] EXCEPT !.held = t])
       \/ Active(mem[r].order) = {} /\ Fail(r)
    /\ UNCHANGED <<orderVars, storeVars, claimed, labelVars, stockVars, faultVars>>

VoidApproved(r) ==
    /\ At(r, "carrier")
    /\ label' = [label EXCEPT ![mem[r].held] = "voided"]
    /\ Goto(r, "voidRow", [mem[r] EXCEPT !.answer = TRUE])
    /\ UNCHANGED <<orderVars, storeVars, claimed, unanswered, orphaned, stockVars, faultVars>>

\* Refused, or answered without the approval the code looks for.
VoidRefused(r) ==
    /\ At(r, "carrier")
    /\ label' \in {label, [label EXCEPT ![mem[r].held] = "voided"]}
    /\ Goto(r, "voidRow", [mem[r] EXCEPT !.answer = FALSE])
    /\ UNCHANGED <<orderVars, storeVars, claimed, unanswered, orphaned, stockVars, faultVars>>

\* A timeout or a lost answer: the label may be voided all the same.
VoidUnanswered(r) ==
    /\ At(r, "carrier")
    /\ label' \in {label, [label EXCEPT ![mem[r].held] = "voided"]}
    /\ Goto(r, "failed", [mem[r] EXCEPT !.failure = "unreachable"])
    /\ UNCHANGED <<orderVars, storeVars, claimed, unanswered, orphaned, stockVars, faultVars>>

VoidRow(r) ==
    /\ At(r, "voidRow")
    /\ \/ \E t \in Active(mem[r].order) :
             /\ rows' = [rows EXCEPT ![t].voided = TRUE,
                                     ![t].void_approved = mem[r].answer]
             /\ Goto(r, "restore", [mem[r] EXCEPT !.held = t])
       \/ Active(mem[r].order) = {} /\ Fail(r) /\ UNCHANGED rows
    /\ UNCHANGED <<orderVars, files, claimed, labelVars, stockVars, faultVars>>

\* buildReservationsToCreate: what a fulfilled order no longer has reserved.
RestoreReservations(r) ==
    /\ At(r, "restore")
    /\ Goto(r, "reserve",
            [mem[r] EXCEPT !.stock =
                IF fulfilled[mem[r].order] # {} /\ reserved[mem[r].order] = {}
                THEN {r} ELSE {}])
    /\ UNCHANGED <<orderVars, storeVars, claimed, labelVars, stockVars, faultVars>>

\* createReservationsWorkflow, which fails when the stock has gone elsewhere.
CreateReservations(r) ==
    /\ At(r, "reserve")
    /\ \/ /\ reserved' = [reserved EXCEPT ![mem[r].order] = @ \cup mem[r].stock]
          /\ Goto(r, "read", mem[r])
       \/ Fail(r) /\ UNCHANGED reserved
    /\ UNCHANGED <<orderVars, storeVars, claimed, labelVars, fulfilled, faultVars>>

UndoReservations(r) ==
    /\ At(r, "unreserve")
    /\ reserved' = [reserved EXCEPT ![mem[r].order] = @ \ mem[r].stock]
    /\ Goto(r, "unvoid", mem[r])
    /\ UNCHANGED <<orderVars, storeVars, claimed, labelVars, fulfilled, faultVars>>

UndoVoidRow(r) ==
    /\ At(r, "unvoid")
    /\ rows' = IF rows[mem[r].held] = NoRow THEN rows
               ELSE [rows EXCEPT ![mem[r].held].voided = FALSE,
                                 ![mem[r].held].void_approved = None]
    /\ Goto(r, "failed", mem[r])
    /\ UNCHANGED <<orderVars, files, claimed, labelVars, stockVars, faultVars>>

(***************************************************************************)
(* The tracking webhook and apply-tracking-event.                          *)
(***************************************************************************)
ClaimEvent(r) ==
    /\ At(r, "claim")
    /\ IF Job[r].arg \in claimed
       THEN Goto(r, "duplicate", mem[r]) /\ UNCHANGED claimed
       ELSE Goto(r, "lookup", mem[r]) /\ claimed' = claimed \cup {Job[r].arg}
    /\ UNCHANGED <<orderVars, storeVars, labelVars, stockVars, faultVars>>

\* shipmentContext, first query: an unknown or voided shipment is dropped.
LookupShipment(r) ==
    /\ At(r, "lookup")
    /\ LET row == rows[mem[r].held] IN
       IF row = NoRow \/ row.voided
       THEN Goto(r, "dropped", mem[r])
       ELSE Goto(r, "context", [mem[r] EXCEPT !.order = row.order])
    /\ UNCHANGED <<orderVars, storeVars, claimed, labelVars, stockVars, faultVars>>

\* shipmentContext, second query: a cancelled order drops the event.
ReadContext(r) ==
    /\ At(r, "context")
    /\ LET seen == status[mem[r].order] IN
       IF seen = "cancelled" THEN Goto(r, "dropped", mem[r])
                             ELSE Goto(r, "snapshot", [mem[r] EXCEPT !.seen = seen])
    /\ UNCHANGED <<orderVars, storeVars, claimed, labelVars, stockVars, faultVars>>

SnapshotTracking(r) ==
    /\ At(r, "snapshot")
    /\ LET row == rows[mem[r].held] IN
       Goto(r, "apply",
            [mem[r] EXCEPT !.snapshot =
                IF row = NoRow THEN NoSnapshot
                ELSE [tracking_status |-> row.tracking_status, delivered |-> row.delivered]])
    /\ UNCHANGED <<orderVars, storeVars, claimed, labelVars, stockVars, faultVars>>

\* An update of a row deleted in the meantime fails.
ApplyTrackingStatus(r) ==
    LET t == mem[r].held
        new == TrackingStatusFromShipStation(Job[r].arg.code)
    IN /\ At(r, "apply")
       /\ IF rows[t] = NoRow
          THEN Fail(r) /\ UNCHANGED rows
          ELSE /\ rows' = [rows EXCEPT ![t].tracking_status = new,
                                       ![t].delivered = @ \/ new = "delivered"]
               /\ Goto(r, IF new = "delivered" /\ mem[r].seen = "shipped"
                          THEN "deliver" ELSE "done", mem[r])
       /\ UNCHANGED <<orderVars, files, claimed, labelVars, stockVars, faultVars>>

\* markOrderFulfillmentAsDeliveredWorkflow.
MarkDelivered(r) ==
    /\ At(r, "deliver")
    /\ Goto(r, "read", mem[r]) \/ Fail(r)
    /\ UNCHANGED <<orderVars, storeVars, claimed, labelVars, stockVars, faultVars>>

UndoApply(r) ==
    LET t == mem[r].held IN
    /\ At(r, "undoApply")
    /\ rows' = IF rows[t] = NoRow THEN rows
               ELSE [rows EXCEPT ![t].tracking_status = mem[r].snapshot.tracking_status,
                                 ![t].delivered = mem[r].snapshot.delivered]
    /\ Goto(r, "release", mem[r])
    /\ UNCHANGED <<orderVars, files, claimed, labelVars, stockVars, faultVars>>

ReleaseEvent(r) ==
    /\ At(r, "release")
    /\ claimed' = claimed \ {Job[r].arg}
    /\ Goto(r, "failed", mem[r])
    /\ UNCHANGED <<orderVars, storeVars, labelVars, stockVars, faultVars>>

(***************************************************************************)
(* Faults.  A statement fails and the request unwinds; or the process dies *)
(* and no code takes its requests up again.                                *)
(***************************************************************************)
StatementFails(r) ==
    /\ r \in InFlight
    /\ pc[r] \in Transitioning \cup {"status", "free", "insert", "find", "voidRow",
                                     "restore", "claim", "lookup", "context",
                                     "snapshot", "apply", "release", "note"}
    /\ faults < MaxFaults /\ faults' = faults + 1
    /\ Fail(r)
    /\ UNCHANGED <<orderVars, storeVars, claimed, labelVars, stockVars, crashed>>

Crash ==
    /\ InFlight # {}
    /\ faults < MaxFaults /\ faults' = faults + 1
    /\ crashed' = crashed \cup InFlight
    /\ UNCHANGED <<orderVars, storeVars, claimed, labelVars, stockVars, requestVars>>

Work(r) ==
    \/ ReadStatus(r) \/ WriteStatus(r) \/ LogTransition(r)
    \/ CheckStatus(r) \/ CheckFree(r)
    \/ PurchaseAnswered(r) \/ PurchaseRefused(r) \/ PurchaseUnanswered(r)
    \/ ReconcileFound(r) \/ ReconcileNothing(r) \/ StoreLabelPdf(r)
    \/ CreateFulfilment(r) \/ CreateShipment(r) \/ InsertRow(r)
    \/ UndoRow(r) \/ UndoFulfilment(r) \/ UndoFile(r)
    \/ UndoLabelApproved(r) \/ UndoLabelRefused(r) \/ NoteOrphan(r)
    \/ FindActive(r) \/ VoidApproved(r) \/ VoidRefused(r) \/ VoidUnanswered(r)
    \/ VoidRow(r) \/ RestoreReservations(r) \/ CreateReservations(r)
    \/ UndoReservations(r) \/ UndoVoidRow(r)
    \/ ClaimEvent(r) \/ LookupShipment(r) \/ ReadContext(r) \/ SnapshotTracking(r)
    \/ ApplyTrackingStatus(r) \/ MarkDelivered(r) \/ UndoApply(r) \/ ReleaseEvent(r)

Next == (\E r \in Requests : Start(r) \/ Work(r) \/ StatementFails(r)) \/ Crash

Spec == Init /\ [][Next]_vars

\* A request that has begun is run to its end: each of its awaits settles.
\* Nothing obliges anyone to make a call.
FairSpec == Spec /\ \A r \in Requests : WF_vars(Work(r))

(***************************************************************************)
(* Properties of every interleaving, with crashes and failed statements.   *)
(***************************************************************************)
(***************************************************************************)
(* A label that can be charged for is never lost sight of: it is on a      *)
(* shipment, or the purchase that holds it is still running (or died with  *)
(* the process), or an error names it as orphaned, or the carrier's answer *)
(* never arrived.  Buying, reconciling and compensating move it from one   *)
(* to the next and drop it nowhere.                                        *)
(***************************************************************************)
LabelAccounted ==
    \A l \in Buys : label[l] = "live" =>
        \/ l \in orphaned \cup unanswered
        \/ l \in Recorded /\ rows[l].labelled
        \/ \E r \in Buys : mem[r].held = l

(***************************************************************************)
(* The PDF a shipment points to is in storage, whoever is undoing what:    *)
(* the row goes before the file does.  And no PDF is kept for nothing: its *)
(* purchase is still running (or died), or a shipment points to it.        *)
(***************************************************************************)
FilesAccounted ==
    /\ \A t \in Recorded : rows[t].file # None => rows[t].file \in files
    /\ \A f \in files : \/ mem[f].filed
                        \/ \E t \in Recorded : rows[t].file = f

\* The steps at which a webhook has claimed its event and not given it back.
HandlingSteps == (Tracking \ {"claim"}) \cup Transitioning
                    \cup {"done", "dropped", "unreleased"}
Handling(r) == pc[r] \in HandlingSteps

(***************************************************************************)
(* Of the deliveries of one webhook at most one is acted on: two requests  *)
(* never both hold the claim, however they interleave, and once one has    *)
(* applied the event no later one does.                                    *)
(***************************************************************************)
EventHandledOnce ==
    \A r, s \in Requests :
        /\ Job[r].kind = "track" /\ Job[s].kind = "track"
        /\ Job[r].arg = Job[s].arg
        /\ Handling(r) /\ Handling(s)
        => r = s

(***************************************************************************)
(* A claim always has a request behind it that is applying the event, has  *)
(* settled it, or was stopped by a fault: an event whose handling failed   *)
(* can be claimed again when it is redelivered.                            *)
(***************************************************************************)
ClaimAccounted ==
    \A e \in claimed : \E r \in Requests :
        Job[r].kind = "track" /\ Job[r].arg = e /\ Handling(r)

(***************************************************************************)
(* Properties of requests that do not overlap and meet no fault.           *)
(***************************************************************************)
Quiet == InFlight = {}

\* The parcels of o with the carrier: the active rows, less one its shipment
\* is still recording, plus one its void has not finished taking back.
WithCarrier(o) ==
    {t \in Active(o) : ~ \E r \in InFlight :
        /\ Job[r].kind \in {"buy", "record"} /\ mem[r].held = t
        /\ pc[r] \in {"read", "write", "undoRow"}}
    \cup {mem[r].held : r \in {s \in InFlight :
        /\ Job[s].kind = "void" /\ mem[s].order = o
        /\ pc[s] \in {"restore", "reserve", "read", "write", "unreserve", "unvoid"}}}

Lifecycle == INSTANCE OrderLifecycle WITH
    parcels <- [o \in Orders |-> WithCarrier(o)]

(***************************************************************************)
(* One request after another, the workflows are as good as atomic: status  *)
(* and shipment change together, along the graph, and a request that fails *)
(* half-way leaves neither changed.                                        *)
(***************************************************************************)
ImplementsLifecycle == Lifecycle!Spec

(***************************************************************************)
(* Between requests an order that is not sent has its stock reserved, once,*)
(* and an order that is sent has none: buying takes it, voiding puts it    *)
(* back, and their compensations undo both.                                *)
(***************************************************************************)
StockFollowsStatus ==
    Quiet => \A o \in Orders :
        Cardinality(reserved[o]) = IF status[o] \in Sent THEN 0 ELSE 1

(***************************************************************************)
(* Between requests the history of an order is one unbroken walk from the  *)
(* status it was first seen in to the one it has; the warnings about       *)
(* orphaned labels stand still on it.                                      *)
(***************************************************************************)
HistoryTellsStatus ==
    Quiet => \A o \in Orders :
        LET walk == <<[from |-> None, to |-> FirstStatus[o]]>> \o history[o]
        IN /\ walk[Len(walk)].to = status[o]
           /\ \A i \in 2..Len(walk) :
                 IF walk[i].from = None THEN walk[i].to = walk[i - 1].to
                 ELSE /\ walk[i].from = walk[i - 1].to
                      /\ CanTransition(walk[i].from, walk[i].to)

(***************************************************************************)
(* A shipment marked as voided with the carrier's approval has a label the *)
(* carrier did void.                                                       *)
(***************************************************************************)
VoidApprovalIsTrue ==
    \A t \in Recorded : rows[t].void_approved = TRUE => label[t] = "voided"

(***************************************************************************)
(* An order whose status and shipment disagree, as in the middle of every  *)
(* workflow, comes to agree again: no failure of the carrier, of Medusa or *)
(* of the stock leaves the two apart for good.                             *)
(***************************************************************************)
Torn(o) == (Active(o) # {}) # (status[o] \in Sent)

TornOrdersSettle == \A o \in Orders : Torn(o) ~> ~Torn(o)

(***************************************************************************)
(* What the documents say and the code does not do.                        *)
(***************************************************************************)

(***************************************************************************)
(* docs/store-owner-guide.md: Delivered and Cancelled are final, nothing   *)
(* moves out of them.                                                      *)
(***************************************************************************)
TerminalIsFinal ==
    [][\A o \in Orders : status[o] \in Terminal => status'[o] = status[o]]_vars

(***************************************************************************)
(* assert-order-shippable: an order has one label; it must be voided before*)
(* another is bought.                                                      *)
(***************************************************************************)
OneShipmentPerOrder == \A o \in Orders : Cardinality(Active(o)) <= 1
=============================================================================
