--------------------------- MODULE FulfilmentProofs ---------------------------
(***************************************************************************)
(* What holds of Fulfilment for every set of orders, calls, events and     *)
(* every bound: its types, that no live label and no stored PDF is lost    *)
(* sight of, and that an event is handled once.                            *)
(***************************************************************************)
EXTENDS Fulfilment, TLAPS

\* The steps only a purchase takes, those a recorded shipment shares with it,
\* and those at which the request has a row of its own.
BuySteps    == {"status", "free", "purchase", "reconcile", "store",
                "undoFile", "undoLabel", "note"}
ShipSteps   == {"fulfil", "ship", "insert", "undoRow", "undoFulfilment"}
OwningSteps == Transitioning \cup {"undoRow"}

(***************************************************************************)
(* Step p with locals m fits request r: the step is one of its kind, and r *)
(* knows its order and, once it has one, its shipment.                     *)
(***************************************************************************)
Fits(r, p, m) ==
    /\ p = "waiting" => m.held = None
    /\ p \in BuySteps => Job[r].kind = "buy"
    /\ p \in ShipSteps => Job[r].kind \in {"buy", "record"}
    /\ p \in Voiding => Job[r].kind = "void"
    /\ p \in Tracking => Job[r].kind = "track"
    /\ p \notin Ended \cup {"waiting", "claim", "lookup", "release"} => m.order \in Orders
    /\ p \notin Ended \cup {"waiting"} =>
          /\ Job[r].kind = "track" => m.held = Job[r].arg.tracking
          /\ Job[r].kind = "record" => m.held = Job[r].arg
          /\ Job[r].kind = "buy" =>
                IF p \in {"status", "free", "purchase", "reconcile"}
                THEN m.held = None ELSE m.held \in Buys

LocalsOK == \A r \in Requests : Fits(r, pc[r], mem[r])

TypeInv == TypeOK /\ LocalsOK

\* Request r put the row of the shipment it works on, and may delete it.
Owns(r) == Job[r].kind \in {"buy", "record"} /\ pc[r] \in OwningSteps

(***************************************************************************)
(* A row that a request may still delete is there, was put by that request *)
(* and by no other, and is labelled when that request is a purchase.       *)
(***************************************************************************)
RowsOwned ==
    /\ \A r \in Requests : Owns(r) =>
          /\ rows[mem[r].held] # NoRow
          /\ rows[mem[r].held].labelled = (Job[r].kind = "buy")
    /\ \A r, s \in Requests :
          Owns(r) /\ Owns(s) /\ mem[r].held = mem[s].held => r = s

\* A label is reported as orphaned before its purchase lets go of it.
OrphansReported == \A r \in Requests : pc[r] = "note" => mem[r].held \in orphaned

LabelInv == RowsOwned /\ OrphansReported /\ LabelAccounted

\* A request that has an event has claimed it.
ClaimsHeld ==
    \A r \in Requests :
        Job[r].kind = "track" /\ Handling(r) => Job[r].arg \in claimed

EventInv == ClaimsHeld /\ EventHandledOnce /\ ClaimAccounted

-----------------------------------------------------------------------------
(***************************************************************************)
(* Lemmas on the parts a step is made of.                                  *)
(***************************************************************************)
USE DEF At, orderVars, labelVars, stockVars, storeVars, requestVars, faultVars

\* The locals of a request that has not begun, or has ended, are locals.
LEMMA BlankTyped == Blank \in Locals
BY DEF Blank, Locals, NoSnapshot, Snapshots, TrackingStatuses

\* What a request asks transition for is a status.
LEMMA TargetTyped == \A r \in Requests : Target(r) \in Statuses
BY JobAssumption DEF Target, Statuses

\* A failing step goes on to a step.
LEMMA RollbackTyped == \A r \in Requests : Rollback(r) \in Steps
BY JobAssumption DEF Rollback, Steps, Shipping, Unwinding, Voiding, Tracking, Ended,
      Transitioning

\* Statements about requests when one of them goes on to step p.
LEMMA GotoTyped ==
    ASSUME TypeInv, NEW r \in Requests, NEW p \in Steps, NEW m \in Locals,
           Goto(r, p, m), Fits(r, p, m)
    PROVE  /\ pc' \in [Requests -> Steps]
           /\ mem' \in [Requests -> Locals]
           /\ LocalsOK'
<1> DEFINE n == IF p \in Ended THEN [Blank EXCEPT !.failure = m.failure] ELSE m
<1>1. n \in Locals
  BY BlankTyped DEF Locals
<1>2. Fits(r, p, n)
  BY DEF Fits, Ended, BuySteps, ShipSteps, Voiding, Tracking
<1>3. pc' = [pc EXCEPT ![r] = p] /\ mem' = [mem EXCEPT ![r] = n]
  BY DEF Goto
<1> HIDE DEF n
<1>4. ASSUME NEW s \in Requests PROVE Fits(s, pc'[s], mem'[s])
  <2>1. CASE s = r
    BY <1>2, <1>3, <2>1 DEF TypeInv, TypeOK
  <2>2. CASE s # r
    <3>1. pc'[s] = pc[s] /\ mem'[s] = mem[s]
      BY <1>3, <2>2 DEF TypeInv, TypeOK
    <3> QED BY <3>1 DEF TypeInv, LocalsOK
  <2> QED BY <2>1, <2>2
<1>5. LocalsOK'
  BY <1>4 DEF LocalsOK, Fits
<1> QED BY <1>1, <1>3, <1>5 DEF TypeInv, TypeOK

\* The compensation a failing step goes on to is one its request can run.
LEMMA RollbackFits ==
    ASSUME TypeInv, NEW r \in Requests, pc[r] \notin Ended \cup {"waiting"}
    PROVE  Rollback(r) \in Steps /\ Fits(r, Rollback(r), mem[r])
<1>1. Fits(r, pc[r], mem[r]) /\ pc[r] \in Steps
  BY DEF TypeInv, TypeOK, LocalsOK
<1> QED BY <1>1, JobAssumption, RollbackTyped
        DEF Fits, Rollback, Steps, BuySteps, ShipSteps, Shipping, Unwinding, Voiding,
            Tracking, Transitioning, Ended

\* Statements about requests when one of them fails at a step.
LEMMA FailTyped ==
    ASSUME TypeInv, NEW r \in Requests, pc[r] \notin Ended \cup {"waiting"}, Fail(r)
    PROVE  /\ pc' \in [Requests -> Steps]
           /\ mem' \in [Requests -> Locals]
           /\ LocalsOK'
<1>1. mem[r] \in Locals
  BY DEF TypeInv, TypeOK
<1> QED BY <1>1, RollbackFits, GotoTyped DEF Fail

\* A shipment is a row, and voiding it or tracking it leaves it one.
LEMMA RowTyped ==
    ASSUME TypeInv, NEW t \in Trackings, rows[t] # NoRow
    PROVE  /\ rows[t] \in Rows
           /\ \A v \in BOOLEAN, a \in BOOLEAN \cup {None} :
                 [rows EXCEPT ![t].voided = v, ![t].void_approved = a]
                    \in [Trackings -> Rows \cup {NoRow}]
           /\ \A s \in TrackingStatuses, d \in BOOLEAN :
                 [rows EXCEPT ![t].tracking_status = s, ![t].delivered = d]
                    \in [Trackings -> Rows \cup {NoRow}]
<1>1. rows[t] \in Rows
  BY DEF TypeInv, TypeOK
<1>2. ASSUME NEW v \in BOOLEAN, NEW a \in BOOLEAN \cup {None}
      PROVE  [rows EXCEPT ![t].voided = v, ![t].void_approved = a]
                \in [Trackings -> Rows \cup {NoRow}]
  BY <1>1 DEF TypeInv, TypeOK, Rows
<1>3. ASSUME NEW s \in TrackingStatuses, NEW d \in BOOLEAN
      PROVE  [rows EXCEPT ![t].tracking_status = s, ![t].delivered = d]
                \in [Trackings -> Rows \cup {NoRow}]
  BY <1>1 DEF TypeInv, TypeOK, Rows
<1> QED BY <1>1, <1>2, <1>3

\* The part of the type invariant that is about requests, and the rest.
RequestsTyped == pc \in [Requests -> Steps] /\ mem \in [Requests -> Locals] /\ LocalsOK

\* Every step of a request keeps the requests' part of the types.
LEMMA WorkRequestsTyped ==
    ASSUME TypeInv, NEW r \in Requests, Work(r)
    PROVE  RequestsTyped'
<1> USE DEF RequestsTyped, Steps, BuySteps, ShipSteps, Shipping, Unwinding, Voiding,
            Tracking, Transitioning, Ended
<1>0. Fits(r, pc[r], mem[r]) /\ mem[r] \in Locals
  BY DEF TypeInv, TypeOK, LocalsOK
<1>a. \A p \in Steps, m \in Locals : Fits(r, p, m) /\ Goto(r, p, m) => RequestsTyped'
  BY GotoTyped
<1>b. pc[r] \notin Ended \cup {"waiting"} /\ Fail(r) => RequestsTyped'
  BY FailTyped
<1>c. \A p \in Steps : Fits(r, p, mem[r]) /\ Goto(r, p, mem[r]) => RequestsTyped'
  BY <1>0, <1>a
<1>1. CASE ReadStatus(r)
  <2> DEFINE m == [mem[r] EXCEPT !.seen = status[mem[r].order]]
  <2>1. m \in Locals /\ Fits(r, "write", m)
    BY <1>0, <1>1 DEF ReadStatus, Fits, Locals, TypeInv, TypeOK, Trackings, Buys
  <2>2. Goto(r, "write", m) \/ Fail(r)
    BY <1>1 DEF ReadStatus
  <2>3. pc[r] \notin Ended \cup {"waiting"} /\ Fits(r, "dropped", mem[r])
    BY <1>1 DEF ReadStatus, Fits
  <2> HIDE DEF m
  <2> QED BY <1>a, <1>b, <1>c, <2>1, <2>2, <2>3
<1>2. CASE WriteStatus(r)
  BY <1>0, <1>b, <1>c, <1>2 DEF WriteStatus, Fits
<1>3. CASE LogTransition(r)
  BY <1>0, <1>b, <1>c, <1>3 DEF LogTransition, Fits
<1>4. CASE CheckStatus(r)
  BY <1>0, <1>b, <1>c, <1>4 DEF CheckStatus, Fits
<1>5. CASE CheckFree(r)
  BY <1>0, <1>b, <1>c, <1>5 DEF CheckFree, Fits
<1>6. CASE PurchaseAnswered(r)
  <2> DEFINE m == [mem[r] EXCEPT !.held = r]
  <2>1. m \in Locals /\ Fits(r, "store", m)
    BY <1>0, <1>6 DEF PurchaseAnswered, Fits, Locals, TypeInv, TypeOK, Trackings, Buys
  <2>2. Goto(r, "store", m)
    BY <1>6 DEF PurchaseAnswered
  <2>3. pc[r] \notin Ended \cup {"waiting"} /\ Fits(r, "dropped", mem[r])
    BY <1>6 DEF PurchaseAnswered, Fits
  <2> HIDE DEF m
  <2> QED BY <1>a, <1>b, <1>c, <2>1, <2>2, <2>3
<1>7. CASE PurchaseRefused(r)
  BY <1>0, <1>b, <1>c, <1>7 DEF PurchaseRefused, Fits
<1>8. CASE PurchaseUnanswered(r)
  <2> DEFINE late == [mem[r] EXCEPT !.failure = "timeout_unconfirmed"]
             lost == [mem[r] EXCEPT !.failure = "http_error"]
  <2>1. late \in Locals /\ lost \in Locals
    BY <1>0 DEF Locals
  <2>2. Fits(r, "reconcile", late) /\ Fits(r, "failed", lost)
    BY <1>0, <1>8 DEF PurchaseUnanswered, Fits, Locals
  <2>3. Goto(r, "reconcile", late) \/ Goto(r, "failed", lost)
    BY <1>8 DEF PurchaseUnanswered
  <2> HIDE DEF late, lost
  <2> QED BY <1>a, <2>1, <2>2, <2>3
<1>9. CASE ReconcileFound(r)
  <2> DEFINE m(l) == [mem[r] EXCEPT !.held = l, !.failure = None]
  <2>1. PICK l \in Buys : Goto(r, "store", m(l))
    BY <1>9 DEF ReconcileFound, Matches
  <2>2. m(l) \in Locals /\ Fits(r, "store", m(l))
    BY <1>0, <1>9 DEF ReconcileFound, Fits, Locals, Trackings
  <2> HIDE DEF m
  <2> QED BY <1>a, <2>1, <2>2
<1>10. CASE ReconcileNothing(r)
  BY <1>0, <1>b, <1>c, <1>10 DEF ReconcileNothing, Fits
<1>11. CASE StoreLabelPdf(r)
  <2> DEFINE m == [mem[r] EXCEPT !.filed = TRUE]
  <2>1. m \in Locals /\ Fits(r, "fulfil", m) /\ Fits(r, "fulfil", mem[r])
    BY <1>0, <1>11 DEF StoreLabelPdf, Fits, Locals
  <2>2. Goto(r, "fulfil", m) \/ Goto(r, "fulfil", mem[r])
    BY <1>11 DEF StoreLabelPdf
  <2> HIDE DEF m
  <2> QED BY <1>a, <1>c, <2>1, <2>2
<1>12. CASE CreateFulfilment(r)
  <2> DEFINE m == [mem[r] EXCEPT !.stock = reserved[mem[r].order]]
  <2>1. m \in Locals /\ Fits(r, "ship", m)
    BY <1>0, <1>12 DEF CreateFulfilment, Fits, Locals, TypeInv, TypeOK, Trackings, Buys
  <2>2. Goto(r, "ship", m) \/ Fail(r)
    BY <1>12 DEF CreateFulfilment
  <2>3. pc[r] \notin Ended \cup {"waiting"} /\ Fits(r, "dropped", mem[r])
    BY <1>12 DEF CreateFulfilment, Fits
  <2> HIDE DEF m
  <2> QED BY <1>a, <1>b, <1>c, <2>1, <2>2, <2>3
<1>13. CASE CreateShipment(r)
  BY <1>0, <1>b, <1>c, <1>13 DEF CreateShipment, Fits
<1>14. CASE InsertRow(r)
  BY <1>0, <1>b, <1>c, <1>14 DEF InsertRow, Fits
<1>15. CASE UndoRow(r)
  BY <1>0, <1>b, <1>c, <1>15 DEF UndoRow, Fits
<1>16. CASE UndoFulfilment(r)
  BY <1>0, <1>b, <1>c, <1>16 DEF UndoFulfilment, Fits
<1>17. CASE UndoFile(r)
  BY <1>0, <1>b, <1>c, <1>17 DEF UndoFile, Fits
<1>18. CASE UndoLabelApproved(r)
  BY <1>0, <1>b, <1>c, <1>18 DEF UndoLabelApproved, Fits
<1>19. CASE UndoLabelRefused(r)
  BY <1>0, <1>b, <1>c, <1>19 DEF UndoLabelRefused, Fits
<1>20. CASE NoteOrphan(r)
  BY <1>0, <1>b, <1>c, <1>20 DEF NoteOrphan, Fits
<1>21. CASE FindActive(r)
  <2> DEFINE m(t) == [mem[r] EXCEPT !.held = t]
  <2>1. pc[r] = "find"
    BY <1>21 DEF FindActive
  <2>2. CASE Fail(r)
    BY <1>b, <2>1, <2>2
  <2>3. CASE \E t \in Trackings, p \in {"carrier", "voidRow"} : Goto(r, p, m(t))
    <3>1. PICK t \in Trackings, p \in {"carrier", "voidRow"} : Goto(r, p, m(t))
      BY <2>3
    <3>2. m(t) \in Locals /\ Fits(r, p, m(t))
      BY <1>0, <2>1 DEF Fits, Locals
    <3> HIDE DEF m
    <3> QED BY <1>a, <3>1, <3>2
  <2> QED BY <1>21, <2>2, <2>3 DEF FindActive, Active, Recorded
<1>22. CASE VoidApproved(r)
  <2> DEFINE m == [mem[r] EXCEPT !.answer = TRUE]
  <2>1. m \in Locals /\ Fits(r, "voidRow", m)
    BY <1>0, <1>22 DEF VoidApproved, Fits, Locals, TypeInv, TypeOK, Trackings, Buys
  <2>2. Goto(r, "voidRow", m)
    BY <1>22 DEF VoidApproved
  <2>3. pc[r] \notin Ended \cup {"waiting"} /\ Fits(r, "dropped", mem[r])
    BY <1>22 DEF VoidApproved, Fits
  <2> HIDE DEF m
  <2> QED BY <1>a, <1>b, <1>c, <2>1, <2>2, <2>3
<1>23. CASE VoidRefused(r)
  <2> DEFINE m == [mem[r] EXCEPT !.answer = FALSE]
  <2>1. m \in Locals /\ Fits(r, "voidRow", m)
    BY <1>0, <1>23 DEF VoidRefused, Fits, Locals, TypeInv, TypeOK, Trackings, Buys
  <2>2. Goto(r, "voidRow", m)
    BY <1>23 DEF VoidRefused
  <2>3. pc[r] \notin Ended \cup {"waiting"} /\ Fits(r, "dropped", mem[r])
    BY <1>23 DEF VoidRefused, Fits
  <2> HIDE DEF m
  <2> QED BY <1>a, <1>b, <1>c, <2>1, <2>2, <2>3
<1>24. CASE VoidUnanswered(r)
  <2> DEFINE m == [mem[r] EXCEPT !.failure = "unreachable"]
  <2>1. m \in Locals /\ Fits(r, "failed", m)
    BY <1>0, <1>24 DEF VoidUnanswered, Fits, Locals, TypeInv, TypeOK, Trackings, Buys
  <2>2. Goto(r, "failed", m)
    BY <1>24 DEF VoidUnanswered
  <2>3. pc[r] \notin Ended \cup {"waiting"} /\ Fits(r, "dropped", mem[r])
    BY <1>24 DEF VoidUnanswered, Fits
  <2> HIDE DEF m
  <2> QED BY <1>a, <1>b, <1>c, <2>1, <2>2, <2>3
<1>25. CASE VoidRow(r)
  <2> DEFINE m(t) == [mem[r] EXCEPT !.held = t]
  <2>1. pc[r] = "voidRow"
    BY <1>25 DEF VoidRow
  <2>2. CASE Fail(r)
    BY <1>b, <2>1, <2>2
  <2>3. CASE \E t \in Trackings : Goto(r, "restore", m(t))
    <3>1. PICK t \in Trackings : Goto(r, "restore", m(t))
      BY <2>3
    <3>2. m(t) \in Locals /\ Fits(r, "restore", m(t))
      BY <1>0, <2>1 DEF Fits, Locals
    <3> HIDE DEF m
    <3> QED BY <1>a, <3>1, <3>2
  <2> QED BY <1>25, <2>2, <2>3 DEF VoidRow, Active, Recorded
<1>26. CASE RestoreReservations(r)
  <2> DEFINE m == [mem[r] EXCEPT !.stock =
                    IF fulfilled[mem[r].order] # {} /\ reserved[mem[r].order] = {}
                    THEN {r} ELSE {}]
  <2>1. m \in Locals /\ Fits(r, "reserve", m)
    BY <1>0, <1>26 DEF RestoreReservations, Fits, Locals, TypeInv, TypeOK, Trackings, Buys
  <2>2. Goto(r, "reserve", m)
    BY <1>26 DEF RestoreReservations
  <2>3. pc[r] \notin Ended \cup {"waiting"} /\ Fits(r, "dropped", mem[r])
    BY <1>26 DEF RestoreReservations, Fits
  <2> HIDE DEF m
  <2> QED BY <1>a, <1>b, <1>c, <2>1, <2>2, <2>3
<1>27. CASE CreateReservations(r)
  BY <1>0, <1>b, <1>c, <1>27 DEF CreateReservations, Fits
<1>28. CASE UndoReservations(r)
  BY <1>0, <1>b, <1>c, <1>28 DEF UndoReservations, Fits
<1>29. CASE UndoVoidRow(r)
  BY <1>0, <1>b, <1>c, <1>29 DEF UndoVoidRow, Fits
<1>30. CASE ClaimEvent(r)
  BY <1>0, <1>b, <1>c, <1>30 DEF ClaimEvent, Fits
<1>31. CASE LookupShipment(r)
  <2> DEFINE t == mem[r].held
             m == [mem[r] EXCEPT !.order = rows[t].order]
  <2>1. pc[r] = "lookup" /\ t \in Trackings
    BY <1>0, <1>31, JobAssumption, EventsAssumption DEF LookupShipment, Fits
  <2>2. CASE Goto(r, "dropped", mem[r])
    BY <1>c, <2>2 DEF Fits
  <2>3. CASE rows[t] # NoRow /\ Goto(r, "context", m)
    <3>1. rows[t].order \in Orders
      BY <2>1, <2>3, RowTyped DEF Rows
    <3>2. m \in Locals /\ Fits(r, "context", m)
      BY <1>0, <2>1, <3>1 DEF Fits, Locals
    <3> HIDE DEF m
    <3> QED BY <1>a, <2>3, <3>2
  <2> QED BY <1>31, <2>2, <2>3 DEF LookupShipment
<1>32. CASE ReadContext(r)
  <2> DEFINE m == [mem[r] EXCEPT !.seen = status[mem[r].order]]
  <2>1. m \in Locals /\ Fits(r, "snapshot", m)
    BY <1>0, <1>32 DEF ReadContext, Fits, Locals, TypeInv, TypeOK, Trackings, Buys
  <2>2. Goto(r, "snapshot", m) \/ Goto(r, "dropped", mem[r])
    BY <1>32 DEF ReadContext
  <2>3. pc[r] \notin Ended \cup {"waiting"} /\ Fits(r, "dropped", mem[r])
    BY <1>32 DEF ReadContext, Fits
  <2> HIDE DEF m
  <2> QED BY <1>a, <1>b, <1>c, <2>1, <2>2, <2>3
<1>33. CASE SnapshotTracking(r)
  <2> DEFINE t == mem[r].held
             n == IF rows[t] = NoRow THEN NoSnapshot
                  ELSE [tracking_status |-> rows[t].tracking_status,
                        delivered |-> rows[t].delivered]
             m == [mem[r] EXCEPT !.snapshot = n]
  <2>1. pc[r] = "snapshot" /\ t \in Trackings /\ Goto(r, "apply", m)
    BY <1>0, <1>33, JobAssumption, EventsAssumption DEF SnapshotTracking, Fits
  <2>2. n \in Snapshots
    <3>1. CASE rows[t] = NoRow
      BY <3>1 DEF NoSnapshot, Snapshots, TrackingStatuses
    <3>2. CASE rows[t] # NoRow
      BY <2>1, <3>2, RowTyped DEF Rows, Snapshots
    <3> QED BY <3>1, <3>2
  <2> HIDE DEF n
  <2>3. m \in Locals /\ Fits(r, "apply", m)
    BY <1>0, <2>1, <2>2 DEF Fits, Locals
  <2> HIDE DEF m
  <2> QED BY <1>a, <2>1, <2>3
<1>34. CASE ApplyTrackingStatus(r)
  BY <1>0, <1>b, <1>c, <1>34 DEF ApplyTrackingStatus, Fits
<1>35. CASE MarkDelivered(r)
  BY <1>0, <1>b, <1>c, <1>35 DEF MarkDelivered, Fits
<1>36. CASE UndoApply(r)
  BY <1>0, <1>b, <1>c, <1>36 DEF UndoApply, Fits
<1>37. CASE ReleaseEvent(r)
  BY <1>0, <1>b, <1>c, <1>37 DEF ReleaseEvent, Fits
<1> QED BY <1>1, <1>2, <1>3, <1>4, <1>5, <1>6, <1>7, <1>8, <1>9, <1>10,
           <1>11, <1>12, <1>13, <1>14, <1>15, <1>16, <1>17, <1>18, <1>19, <1>20,
           <1>21, <1>22, <1>23, <1>24, <1>25, <1>26, <1>27, <1>28, <1>29, <1>30,
           <1>31, <1>32, <1>33, <1>34, <1>35, <1>36, <1>37 DEF Work

StoresTyped ==
    /\ status \in [Orders -> Statuses]
    /\ history \in [Orders -> Seq([from : Statuses \cup {None}, to : Statuses])]
    /\ rows \in [Trackings -> Rows \cup {NoRow}]
    /\ claimed \subseteq Events
    /\ files \subseteq Requests
    /\ label \in [Buys -> {"unbought", "live", "voided"}]
    /\ unanswered \subseteq Buys /\ orphaned \subseteq Buys
    /\ reserved \in [Orders -> SUBSET (Orders \cup Requests)]
    /\ fulfilled \in [Orders -> SUBSET Requests]
    /\ crashed \subseteq Requests /\ faults \in Nat

\* Every step of a request keeps what is stored, the database's part of the types.
LEMMA WorkStoresTyped ==
    ASSUME TypeInv, NEW r \in Requests, Work(r)
    PROVE  StoresTyped'
<1> USE DEF Steps, BuySteps, ShipSteps, Shipping, Unwinding, Voiding,
            Tracking, Transitioning, Ended
<1>0. Fits(r, pc[r], mem[r]) /\ mem[r] \in Locals
  BY DEF TypeInv, TypeOK, LocalsOK
<1>u. UNCHANGED <<orderVars, storeVars, claimed, labelVars, stockVars, faultVars>>
        => StoresTyped'
  BY DEF StoresTyped, TypeInv, TypeOK
<1>v. ASSUME \/ label' = [label EXCEPT ![mem[r].held] = "voided"]
             \/ label' \in {label, [label EXCEPT ![mem[r].held] = "voided"]},
             UNCHANGED <<orderVars, storeVars, claimed, unanswered, orphaned,
                         stockVars, faultVars>>
      PROVE  StoresTyped'
  BY <1>v DEF StoresTyped, TypeInv, TypeOK
<1>1. CASE ReadStatus(r)
  BY <1>u, <1>1 DEF ReadStatus
<1>2. CASE WriteStatus(r)
  BY <1>2, TargetTyped DEF WriteStatus, StoresTyped, TypeInv, TypeOK
<1>3. CASE LogTransition(r)
  <2>1. mem[r].order \in Orders /\ mem[r].seen \in Statuses \cup {None}
    BY <1>0, <1>3 DEF LogTransition, Fits, Locals
  <2> DEFINE entry == [from |-> mem[r].seen, to |-> Target(r)]
  <2>2. entry \in [from : Statuses \cup {None}, to : Statuses]
    BY <2>1, TargetTyped
  <2>3. history' = [history EXCEPT ![mem[r].order] = Append(@, entry)]
    BY <1>3 DEF LogTransition
  <2> DEFINE Entries == [from : Statuses \cup {None}, to : Statuses]
             longer == Append(history[mem[r].order], entry)
  <2> HIDE DEF entry, Entries
  <2>4. history \in [Orders -> Seq(Entries)]
    BY DEF TypeInv, TypeOK, Entries
  <2>5. entry \in Entries
    BY <2>2 DEF Entries
  <2>6. longer \in Seq(Entries)
    BY <2>1, <2>4, <2>5
  <2>7. history' = [history EXCEPT ![mem[r].order] = longer]
    BY <2>3
  <2> HIDE DEF longer
  <2>8. history' \in [Orders -> Seq(Entries)]
    BY <2>4, <2>6, <2>7
  <2> QED BY <1>3, <2>8 DEF LogTransition, Entries, StoresTyped, TypeInv, TypeOK
<1>4. CASE CheckStatus(r)
  BY <1>u, <1>4 DEF CheckStatus
<1>5. CASE CheckFree(r)
  BY <1>u, <1>5 DEF CheckFree
<1>6. CASE PurchaseAnswered(r)
  BY <1>6 DEF PurchaseAnswered, StoresTyped, TypeInv, TypeOK
<1>7. CASE PurchaseRefused(r)
  BY <1>u, <1>7 DEF PurchaseRefused
<1>8. CASE PurchaseUnanswered(r)
  <2>1. r \in Buys
    BY <1>0, <1>8 DEF PurchaseUnanswered, Fits, Buys
  <2>2. label' \in [Buys -> {"unbought", "live", "voided"}] /\ unanswered' \subseteq Buys
    BY <1>8, <2>1 DEF PurchaseUnanswered, TypeInv, TypeOK
  <2> QED BY <1>8, <2>2 DEF PurchaseUnanswered, StoresTyped, TypeInv, TypeOK
<1>9. CASE ReconcileFound(r)
  BY <1>9 DEF ReconcileFound, StoresTyped, TypeInv, TypeOK
<1>10. CASE ReconcileNothing(r)
  BY <1>u, <1>10 DEF ReconcileNothing
<1>11. CASE StoreLabelPdf(r)
  BY <1>11 DEF StoreLabelPdf, StoresTyped, TypeInv, TypeOK
<1>12. CASE CreateFulfilment(r)
  <2> DEFINE more == fulfilled[mem[r].order] \cup {r}
  <2>1. mem[r].order \in Orders
    BY <1>0, <1>12 DEF CreateFulfilment, Fits
  <2>2. more \subseteq Requests
    BY <2>1 DEF TypeInv, TypeOK
  <2>3. \/ UNCHANGED stockVars
        \/ /\ reserved' = [reserved EXCEPT ![mem[r].order] = {}]
           /\ fulfilled' = [fulfilled EXCEPT ![mem[r].order] = more]
    BY <1>12, <2>1 DEF CreateFulfilment, TypeInv, TypeOK
  <2> HIDE DEF more
  <2>4. /\ reserved' \in [Orders -> SUBSET (Orders \cup Requests)]
        /\ fulfilled' \in [Orders -> SUBSET Requests]
    BY <2>2, <2>3 DEF TypeInv, TypeOK
  <2> QED BY <1>12, <2>4 DEF CreateFulfilment, StoresTyped, TypeInv, TypeOK
<1>13. CASE CreateShipment(r)
  BY <1>u, <1>13 DEF CreateShipment
<1>14. CASE InsertRow(r)
  <2> DEFINE row == [order |-> mem[r].order,
                     labelled |-> Job[r].kind = "buy",
                     file |-> IF mem[r].filed THEN r ELSE None,
                     voided |-> FALSE, void_approved |-> None,
                     tracking_status |-> "accepted", delivered |-> FALSE]
  <2>1. mem[r].order \in Orders /\ (Job[r].kind = "buy") \in BOOLEAN
    BY <1>0, <1>14 DEF InsertRow, Fits
  <2>2. row \in Rows
    BY <2>1 DEF Rows, TrackingStatuses
  <2>3. rows' = rows \/ rows' = [rows EXCEPT ![mem[r].held] = row]
    BY <1>14 DEF InsertRow
  <2> HIDE DEF row
  <2>4. rows' \in [Trackings -> Rows \cup {NoRow}]
    BY <2>2, <2>3 DEF TypeInv, TypeOK
  <2> QED BY <1>14, <2>4 DEF InsertRow, StoresTyped, TypeInv, TypeOK
<1>15. CASE UndoRow(r)
  BY <1>15 DEF UndoRow, StoresTyped, TypeInv, TypeOK
<1>16. CASE UndoFulfilment(r)
  BY <1>0, <1>16 DEF UndoFulfilment, StoresTyped, TypeInv, TypeOK, Locals
<1>17. CASE UndoFile(r)
  BY <1>17 DEF UndoFile, StoresTyped, TypeInv, TypeOK
<1>18. CASE UndoLabelApproved(r)
  BY <1>v, <1>18 DEF UndoLabelApproved
<1>19. CASE UndoLabelRefused(r)
  <2>1. mem[r].held \in Buys
    BY <1>0, <1>19 DEF UndoLabelRefused, Fits
  <2>2. label' \in [Buys -> {"unbought", "live", "voided"}]
    BY <1>19, <2>1 DEF UndoLabelRefused, TypeInv, TypeOK
  <2> QED BY <1>19, <2>1, <2>2 DEF UndoLabelRefused, StoresTyped, TypeInv, TypeOK
<1>20. CASE NoteOrphan(r)
  <2>1. mem[r].order \in Orders
    BY <1>0, <1>20 DEF NoteOrphan, Fits
  <2> DEFINE entry == [from |-> None, to |-> status[mem[r].order]]
  <2>2. entry \in [from : Statuses \cup {None}, to : Statuses]
    BY <2>1 DEF TypeInv, TypeOK
  <2>3. history' = [history EXCEPT ![mem[r].order] = Append(@, entry)]
    BY <1>20 DEF NoteOrphan
  <2> DEFINE Entries == [from : Statuses \cup {None}, to : Statuses]
             longer == Append(history[mem[r].order], entry)
  <2> HIDE DEF entry, Entries
  <2>4. history \in [Orders -> Seq(Entries)]
    BY DEF TypeInv, TypeOK, Entries
  <2>5. entry \in Entries
    BY <2>2 DEF Entries
  <2>6. longer \in Seq(Entries)
    BY <2>1, <2>4, <2>5
  <2>7. history' = [history EXCEPT ![mem[r].order] = longer]
    BY <2>3
  <2> HIDE DEF longer
  <2>8. history' \in [Orders -> Seq(Entries)]
    BY <2>4, <2>6, <2>7
  <2> QED BY <1>20, <2>8 DEF NoteOrphan, Entries, StoresTyped, TypeInv, TypeOK
<1>21. CASE FindActive(r)
  BY <1>u, <1>21 DEF FindActive
<1>22. CASE VoidApproved(r)
  BY <1>v, <1>22 DEF VoidApproved
<1>23. CASE VoidRefused(r)
  BY <1>v, <1>23 DEF VoidRefused
<1>24. CASE VoidUnanswered(r)
  BY <1>v, <1>24 DEF VoidUnanswered
<1>25. CASE VoidRow(r)
  <2>1. mem[r].answer \in BOOLEAN \cup {None}
    BY <1>0 DEF Locals
  <2>2. rows' = rows \/ \E t \in Trackings :
             /\ rows[t] # NoRow
             /\ rows' = [rows EXCEPT ![t].voided = TRUE, ![t].void_approved = mem[r].answer]
    BY <1>25 DEF VoidRow, Active, Recorded
  <2>3. rows' \in [Trackings -> Rows \cup {NoRow}]
    <3>1. CASE rows' = rows
      BY <3>1 DEF TypeInv, TypeOK
    <3>2. ASSUME NEW t \in Trackings, rows[t] # NoRow,
                 rows' = [rows EXCEPT ![t].voided = TRUE, ![t].void_approved = mem[r].answer]
          PROVE  rows' \in [Trackings -> Rows \cup {NoRow}]
      BY <2>1, <3>2, RowTyped
    <3> QED BY <2>2, <3>1, <3>2
  <2> QED BY <1>25, <2>3 DEF VoidRow, StoresTyped, TypeInv, TypeOK
<1>26. CASE RestoreReservations(r)
  BY <1>u, <1>26 DEF RestoreReservations
<1>27. CASE CreateReservations(r)
  <2> DEFINE more == reserved[mem[r].order] \cup mem[r].stock
  <2>1. mem[r].order \in Orders
    BY <1>0, <1>27 DEF CreateReservations, Fits
  <2>2. more \subseteq Orders \cup Requests
    BY <1>0, <2>1 DEF Locals, TypeInv, TypeOK
  <2>3. reserved' = reserved \/ reserved' = [reserved EXCEPT ![mem[r].order] = more]
    BY <1>27, <2>1 DEF CreateReservations, TypeInv, TypeOK
  <2> HIDE DEF more
  <2>4. reserved' \in [Orders -> SUBSET (Orders \cup Requests)]
    <3>1. reserved \in [Orders -> SUBSET (Orders \cup Requests)]
      BY DEF TypeInv, TypeOK
    <3>2. more \in SUBSET (Orders \cup Requests)
      BY <2>2
    <3> QED BY <2>1, <2>3, <3>1, <3>2
  <2> QED BY <1>27, <2>4 DEF CreateReservations, StoresTyped, TypeInv, TypeOK
<1>28. CASE UndoReservations(r)
  BY <1>28 DEF UndoReservations, StoresTyped, TypeInv, TypeOK
<1>29. CASE UndoVoidRow(r)
  <2>1. mem[r].held \in Trackings \cup {None} /\ rows \in [Trackings -> Rows \cup {NoRow}]
    BY <1>0 DEF Locals, TypeInv, TypeOK
  <2>2. rows' \in [Trackings -> Rows \cup {NoRow}]
    <3>1. CASE mem[r].held \in Trackings
      BY <1>29, <2>1, <3>1, RowTyped DEF UndoVoidRow
    <3>2. CASE mem[r].held \notin Trackings
      BY <1>29, <2>1, <3>2 DEF UndoVoidRow
    <3> QED BY <3>1, <3>2
  <2> QED BY <1>29, <2>2 DEF UndoVoidRow, StoresTyped, TypeInv, TypeOK
<1>30. CASE ClaimEvent(r)
  <2>1. Job[r].arg \in Events
    BY <1>0, <1>30, JobAssumption DEF ClaimEvent, Fits
  <2> QED BY <1>30, <2>1 DEF ClaimEvent, StoresTyped, TypeInv, TypeOK
<1>31. CASE LookupShipment(r)
  BY <1>u, <1>31 DEF LookupShipment
<1>32. CASE ReadContext(r)
  BY <1>u, <1>32 DEF ReadContext
<1>33. CASE SnapshotTracking(r)
  BY <1>u, <1>33 DEF SnapshotTracking
<1>34. CASE ApplyTrackingStatus(r)
  <2> DEFINE t == mem[r].held
             new == TrackingStatusFromShipStation(Job[r].arg.code)
             d == rows[t].delivered \/ new = "delivered"
  <2>1. t \in Trackings
    BY <1>0, <1>34, JobAssumption, EventsAssumption DEF ApplyTrackingStatus, Fits
  <2>2. new \in TrackingStatuses /\ d \in BOOLEAN
    BY DEF TrackingStatusFromShipStation, TrackingStatuses
  <2>3. rows' = rows \/ (rows[t] # NoRow /\
                         rows' = [rows EXCEPT ![t].tracking_status = new, ![t].delivered = d])
    BY <1>34 DEF ApplyTrackingStatus
  <2> HIDE DEF t, new, d
  <2>4. rows' \in [Trackings -> Rows \cup {NoRow}]
    <3>1. CASE rows' = rows
      BY <3>1 DEF TypeInv, TypeOK
    <3>2. CASE rows[t] # NoRow /\
               rows' = [rows EXCEPT ![t].tracking_status = new, ![t].delivered = d]
      BY <2>1, <2>2, <3>2, RowTyped
    <3> QED BY <2>3, <3>1, <3>2
  <2> QED BY <1>34, <2>4 DEF ApplyTrackingStatus, StoresTyped, TypeInv, TypeOK
<1>35. CASE MarkDelivered(r)
  BY <1>u, <1>35 DEF MarkDelivered
<1>36. CASE UndoApply(r)
  <2>1. mem[r].held \in Trackings \cup {None} /\ rows \in [Trackings -> Rows \cup {NoRow}]
    BY <1>0 DEF Locals, TypeInv, TypeOK
  <2>2. mem[r].snapshot \in Snapshots
    BY <1>0 DEF Locals
  <2>3. rows' \in [Trackings -> Rows \cup {NoRow}]
    <3>1. CASE mem[r].held \in Trackings
      BY <1>36, <2>1, <2>2, <3>1, RowTyped DEF UndoApply, Snapshots
    <3>2. CASE mem[r].held \notin Trackings
      BY <1>36, <2>1, <3>2 DEF UndoApply
    <3> QED BY <3>1, <3>2
  <2> QED BY <1>36, <2>3 DEF UndoApply, StoresTyped, TypeInv, TypeOK
<1>37. CASE ReleaseEvent(r)
  BY <1>37 DEF ReleaseEvent, StoresTyped, TypeInv, TypeOK
<1> QED BY <1>1, <1>2, <1>3, <1>4, <1>5, <1>6, <1>7, <1>8, <1>9, <1>10,
           <1>11, <1>12, <1>13, <1>14, <1>15, <1>16, <1>17, <1>18, <1>19, <1>20,
           <1>21, <1>22, <1>23, <1>24, <1>25, <1>26, <1>27, <1>28, <1>29, <1>30,
           <1>31, <1>32, <1>33, <1>34, <1>35, <1>36, <1>37 DEF Work

\* A request begins at the first step of its kind, with locals that fit it.
LEMMA StartGoto ==
    ASSUME TypeInv, NEW r \in Requests, Start(r)
    PROVE  /\ FirstStep(Job[r].kind) \in Steps
           /\ \E m \in Locals : /\ Goto(r, FirstStep(Job[r].kind), m)
                               /\ Fits(r, FirstStep(Job[r].kind), m)
<1> DEFINE m == [Blank EXCEPT
                    !.order = IF Job[r].kind = "track" THEN None ELSE Job[r].order,
                    !.held = CASE Job[r].kind = "track" -> Job[r].arg.tracking
                               [] Job[r].kind = "record" -> Job[r].arg
                               [] OTHER -> None]
           p == FirstStep(Job[r].kind)
           o == IF Job[r].kind = "track" THEN None ELSE Job[r].order
           h == CASE Job[r].kind = "track" -> Job[r].arg.tracking
                  [] Job[r].kind = "record" -> Job[r].arg
                  [] OTHER -> None
<1>1. /\ o \in Orders \cup {None} /\ h \in Trackings \cup {None}
      /\ Job[r].kind # "track" => o \in Orders
  BY JobAssumption, EventsAssumption
<1>2. m \in Locals /\ m.order = o /\ m.held = h
  BY <1>1, BlankTyped DEF Locals, Blank
<1>3. /\ p \in Steps
      /\ p = CASE Job[r].kind = "move" -> "read" [] Job[r].kind = "record" -> "fulfil"
               [] Job[r].kind = "buy" -> "status" [] Job[r].kind = "void" -> "find"
               [] OTHER -> "claim"
  BY JobAssumption DEF FirstStep, Steps, Shipping, Voiding, Tracking, Transitioning
<1>4. Fits(r, p, m)
  BY <1>1, <1>2, <1>3, JobAssumption
     DEF Fits, BuySteps, ShipSteps, Voiding, Tracking, Ended
<1>5. Goto(r, p, m)
  BY DEF Start
<1> QED BY <1>2, <1>3, <1>4, <1>5

\* Beginning a request keeps the types.
LEMMA StartTyped ==
    ASSUME TypeInv, NEW r \in Requests, Start(r)
    PROVE  TypeInv'
<1>1. /\ pc' \in [Requests -> Steps] /\ mem' \in [Requests -> Locals] /\ LocalsOK'
  BY StartGoto, GotoTyped
<1> QED BY <1>1 DEF Start, TypeInv, TypeOK

\* A failing statement keeps the types.
LEMMA StatementFailsTyped ==
    ASSUME TypeInv, NEW r \in Requests, StatementFails(r)
    PROVE  TypeInv'
<1>1. pc[r] \notin Ended \cup {"waiting"} /\ Fail(r)
  BY DEF StatementFails, InFlight
<1>2. /\ pc' \in [Requests -> Steps] /\ mem' \in [Requests -> Locals] /\ LocalsOK'
  BY <1>1, FailTyped
<1>3. crashed' = crashed /\ faults' \in Nat
  BY DEF StatementFails, TypeInv, TypeOK
<1>4. TypeOK'
  BY <1>2, <1>3 DEF StatementFails, TypeInv, TypeOK
<1> QED BY <1>2, <1>4 DEF TypeInv

\* A crash keeps the types.
LEMMA CrashTyped == TypeInv /\ Crash => TypeInv'
<1> SUFFICES ASSUME TypeInv, Crash PROVE TypeInv'
  OBVIOUS
<1>1. crashed' \subseteq Requests /\ faults' \in Nat
  BY DEF Crash, InFlight, TypeInv, TypeOK
<1>2. LocalsOK'
  BY DEF Crash, TypeInv, LocalsOK, Fits
<1>3. TypeOK'
  BY <1>1 DEF Crash, TypeInv, TypeOK
<1> QED BY <1>2, <1>3 DEF TypeInv

\* The types hold at first.
LEMMA InitTyped == Init => TypeInv
<1> SUFFICES ASSUME Init PROVE TypeInv
  OBVIOUS
<1>1. TypeOK
  <2>1. \A o \in Orders : << >> \in Seq([from : Statuses \cup {None}, to : Statuses])
    OBVIOUS
  <2> QED BY <2>1, OrdersAssumption, BlankTyped DEF Init, TypeOK, Steps
<1>2. LocalsOK
  BY DEF Init, Blank, LocalsOK, Fits, BuySteps, ShipSteps, Voiding, Tracking, Ended
<1> QED BY <1>1, <1>2 DEF TypeInv

\* Every step keeps the types.
LEMMA NextTyped == TypeInv /\ [Next]_vars => TypeInv'
<1> SUFFICES ASSUME TypeInv, [Next]_vars PROVE TypeInv'
  OBVIOUS
<1>1. ASSUME NEW r \in Requests, Work(r) PROVE TypeInv'
  BY <1>1, WorkRequestsTyped, WorkStoresTyped
     DEF RequestsTyped, StoresTyped, TypeInv, TypeOK
<1>2. CASE UNCHANGED vars
  BY <1>2 DEF vars, TypeInv, TypeOK, LocalsOK, Fits
<1> QED BY <1>1, <1>2, StartTyped, StatementFailsTyped, CrashTyped DEF Next

(***************************************************************************)
(* Types: whatever the calls, their interleaving and the faults, every     *)
(* variable keeps its type; in particular a statement is never run for an  *)
(* order or a shipment the request does not know.                          *)
(***************************************************************************)
THEOREM TypeCorrect == Spec => [](TypeOK /\ LocalsOK)
<1>1. Init => TypeInv
  BY InitTyped
<1>2. TypeInv /\ [Next]_vars => TypeInv'
  BY NextTyped
<1>3. TypeInv => TypeOK /\ LocalsOK
  BY DEF TypeInv
<1> QED BY <1>1, <1>2, <1>3, PTL DEF Spec

-----------------------------------------------------------------------------
(***************************************************************************)
(* Events.  Only the request that handles an event gives its claim back.   *)
(***************************************************************************)
LEMMA EventGoto ==
    ASSUME TypeInv, EventInv, NEW r \in Requests, NEW p \in Steps, NEW m, Goto(r, p, m),
           claimed' = claimed,
           Job[r].kind = "track" =>
              (pc[r] \in HandlingSteps <=> p \in HandlingSteps)
    PROVE  EventInv'
<1>1. \A s \in Requests : Job[s].kind = "track" => (Handling(s)' <=> Handling(s))
  BY DEF Goto, Handling, TypeInv, TypeOK
<1> QED BY <1>1 DEF EventInv, ClaimsHeld, EventHandledOnce, ClaimAccounted

\* A failing step keeps the event's claim, or the release that was to drop it failed.
LEMMA EventFail ==
    ASSUME TypeInv, EventInv, NEW r \in Requests, Fail(r), claimed' = claimed,
           pc[r] \notin Ended \cup {"waiting", "undoApply"}
    PROVE  EventInv'
<1>1. Fits(r, pc[r], mem[r])
  BY DEF TypeInv, LocalsOK
<1>2. Job[r].kind = "track" =>
         (pc[r] \in HandlingSteps <=> Rollback(r) \in HandlingSteps)
  BY <1>1 DEF Fits, Rollback, HandlingSteps, Tracking, Transitioning, Voiding, BuySteps,
      ShipSteps, Ended, TypeInv, TypeOK, Steps, Shipping, Unwinding
<1> QED BY <1>2, EventGoto, RollbackTyped DEF Fail

\* Every step of a request keeps the events' invariant.
LEMMA WorkEvents ==
    ASSUME TypeInv, EventInv, NEW r \in Requests, Work(r)
    PROVE  EventInv'
<1> USE DEF Steps, BuySteps, ShipSteps, Shipping, Unwinding, Voiding,
            Tracking, Transitioning, Ended, HandlingSteps
<1>0. Fits(r, pc[r], mem[r])
  BY DEF TypeInv, LocalsOK
<1>1. CASE ReadStatus(r)
  BY <1>0, <1>1, EventGoto, EventFail DEF ReadStatus, Fits
<1>2. CASE WriteStatus(r)
  BY <1>0, <1>2, EventGoto, EventFail DEF WriteStatus, Fits
<1>3. CASE LogTransition(r)
  BY <1>0, <1>3, EventGoto, EventFail DEF LogTransition, Fits
<1>4. CASE CheckStatus(r)
  BY <1>0, <1>4, EventGoto, EventFail DEF CheckStatus, Fits
<1>5. CASE CheckFree(r)
  BY <1>0, <1>5, EventGoto, EventFail DEF CheckFree, Fits
<1>6. CASE PurchaseAnswered(r)
  BY <1>0, <1>6, EventGoto, EventFail DEF PurchaseAnswered, Fits
<1>7. CASE PurchaseRefused(r)
  BY <1>0, <1>7, EventGoto, EventFail DEF PurchaseRefused, Fits
<1>8. CASE PurchaseUnanswered(r)
  BY <1>0, <1>8, EventGoto, EventFail DEF PurchaseUnanswered, Fits
<1>9. CASE ReconcileFound(r)
  BY <1>0, <1>9, EventGoto, EventFail DEF ReconcileFound, Fits
<1>10. CASE ReconcileNothing(r)
  BY <1>0, <1>10, EventGoto, EventFail DEF ReconcileNothing, Fits
<1>11. CASE StoreLabelPdf(r)
  BY <1>0, <1>11, EventGoto, EventFail DEF StoreLabelPdf, Fits
<1>12. CASE CreateFulfilment(r)
  BY <1>0, <1>12, EventGoto, EventFail DEF CreateFulfilment, Fits
<1>13. CASE CreateShipment(r)
  BY <1>0, <1>13, EventGoto, EventFail DEF CreateShipment, Fits
<1>14. CASE InsertRow(r)
  BY <1>0, <1>14, EventGoto, EventFail DEF InsertRow, Fits
<1>15. CASE UndoRow(r)
  BY <1>0, <1>15, EventGoto, EventFail DEF UndoRow, Fits
<1>16. CASE UndoFulfilment(r)
  BY <1>0, <1>16, EventGoto, EventFail DEF UndoFulfilment, Fits
<1>17. CASE UndoFile(r)
  BY <1>0, <1>17, EventGoto, EventFail DEF UndoFile, Fits
<1>18. CASE UndoLabelApproved(r)
  BY <1>0, <1>18, EventGoto, EventFail DEF UndoLabelApproved, Fits
<1>19. CASE UndoLabelRefused(r)
  BY <1>0, <1>19, EventGoto, EventFail DEF UndoLabelRefused, Fits
<1>20. CASE NoteOrphan(r)
  BY <1>0, <1>20, EventGoto, EventFail DEF NoteOrphan, Fits
<1>21. CASE FindActive(r)
  BY <1>0, <1>21, EventGoto, EventFail DEF FindActive, Fits
<1>22. CASE VoidApproved(r)
  BY <1>0, <1>22, EventGoto, EventFail DEF VoidApproved, Fits
<1>23. CASE VoidRefused(r)
  BY <1>0, <1>23, EventGoto, EventFail DEF VoidRefused, Fits
<1>24. CASE VoidUnanswered(r)
  BY <1>0, <1>24, EventGoto, EventFail DEF VoidUnanswered, Fits
<1>25. CASE VoidRow(r)
  BY <1>0, <1>25, EventGoto, EventFail DEF VoidRow, Fits
<1>26. CASE RestoreReservations(r)
  BY <1>0, <1>26, EventGoto, EventFail DEF RestoreReservations, Fits
<1>27. CASE CreateReservations(r)
  BY <1>0, <1>27, EventGoto, EventFail DEF CreateReservations, Fits
<1>28. CASE UndoReservations(r)
  BY <1>0, <1>28, EventGoto, EventFail DEF UndoReservations, Fits
<1>29. CASE UndoVoidRow(r)
  BY <1>0, <1>29, EventGoto, EventFail DEF UndoVoidRow, Fits
<1>30. CASE ClaimEvent(r)
  <2> DEFINE e == Job[r].arg
  <2>1. CASE e \in claimed
    BY <1>0, <1>30, <2>1, EventGoto DEF ClaimEvent
  <2>2. CASE e \notin claimed
    <3>1. Job[r].kind = "track" /\ ~Handling(r)
      BY <1>0, <1>30 DEF ClaimEvent, Fits, Handling
    <3>2. claimed' = claimed \cup {e} /\ pc' = [pc EXCEPT ![r] = "lookup"]
      BY <1>30, <2>2 DEF ClaimEvent, Goto
    <3>3. Handling(r)' /\ \A s \in Requests \ {r} : Handling(s)' <=> Handling(s)
      BY <3>2 DEF Handling, TypeInv, TypeOK
    <3> QED BY <2>2, <3>1, <3>2, <3>3
            DEF EventInv, ClaimsHeld, EventHandledOnce, ClaimAccounted
  <2> QED BY <2>1, <2>2
<1>31. CASE LookupShipment(r)
  BY <1>0, <1>31, EventGoto, EventFail DEF LookupShipment, Fits
<1>32. CASE ReadContext(r)
  BY <1>0, <1>32, EventGoto, EventFail DEF ReadContext, Fits
<1>33. CASE SnapshotTracking(r)
  BY <1>0, <1>33, EventGoto, EventFail DEF SnapshotTracking, Fits
<1>34. CASE ApplyTrackingStatus(r)
  BY <1>0, <1>34, EventGoto, EventFail DEF ApplyTrackingStatus, Fits
<1>35. CASE MarkDelivered(r)
  BY <1>0, <1>35, EventGoto, EventFail DEF MarkDelivered, Fits
<1>36. CASE UndoApply(r)
  BY <1>0, <1>36, EventGoto, EventFail DEF UndoApply, Fits
<1>37. CASE ReleaseEvent(r)
  <2> DEFINE e == Job[r].arg
  <2>1. Job[r].kind = "track" /\ Handling(r)
    BY <1>0, <1>37 DEF ReleaseEvent, Fits, Handling
  <2>2. claimed' = claimed \ {e} /\ pc' = [pc EXCEPT ![r] = "failed"]
    BY <1>37 DEF ReleaseEvent, Goto
  <2>3. ~Handling(r)' /\ \A s \in Requests \ {r} : Handling(s)' <=> Handling(s)
    BY <2>2 DEF Handling, TypeInv, TypeOK
  <2> QED BY <2>1, <2>2, <2>3 DEF EventInv, ClaimsHeld, EventHandledOnce, ClaimAccounted
<1> QED BY <1>1, <1>2, <1>3, <1>4, <1>5, <1>6, <1>7, <1>8, <1>9, <1>10,
           <1>11, <1>12, <1>13, <1>14, <1>15, <1>16, <1>17, <1>18, <1>19, <1>20,
           <1>21, <1>22, <1>23, <1>24, <1>25, <1>26, <1>27, <1>28, <1>29, <1>30,
           <1>31, <1>32, <1>33, <1>34, <1>35, <1>36, <1>37 DEF Work

\* Every step keeps the events' invariant.
LEMMA NextEvents ==
    ASSUME TypeInv, EventInv, [Next]_vars
    PROVE  EventInv'
<1>1. ASSUME NEW r \in Requests, Start(r) PROVE EventInv'
  <2> DEFINE p == FirstStep(Job[r].kind)
  <2>1. p \in Steps /\ (Job[r].kind = "track" => p \notin HandlingSteps)
    BY JobAssumption
       DEF FirstStep, Steps, Shipping, Voiding, HandlingSteps, Tracking, Transitioning
  <2>2. claimed' = claimed /\ pc[r] \notin HandlingSteps /\ \E m : Goto(r, p, m)
    BY <1>1 DEF Start, HandlingSteps, Tracking, Transitioning
  <2> HIDE DEF p
  <2> QED BY <2>1, <2>2, EventGoto
<1>2. ASSUME NEW r \in Requests, StatementFails(r) PROVE EventInv'
  BY <1>2, EventFail
     DEF StatementFails, InFlight, Ended, Transitioning
<1>3. CASE Crash
  BY <1>3 DEF Crash, EventInv, ClaimsHeld, EventHandledOnce, ClaimAccounted, Handling
<1>4. CASE UNCHANGED vars
  BY <1>4 DEF vars, EventInv, ClaimsHeld, EventHandledOnce, ClaimAccounted, Handling
<1> QED BY <1>1, <1>2, <1>3, <1>4, WorkEvents DEF Next

\* The claims stay held, and the types with them.
LEMMA AlwaysHeld == Spec => []EventInv
<1>1. Init => TypeInv /\ EventInv
  BY InitTyped DEF Init, EventInv, ClaimsHeld, EventHandledOnce, ClaimAccounted,
     Handling, HandlingSteps, Tracking, Transitioning
<1>2. TypeInv /\ EventInv /\ [Next]_vars => (TypeInv /\ EventInv)'
  BY NextTyped, NextEvents
<1>3. TypeInv /\ EventInv => EventInv
  OBVIOUS
<1> QED BY <1>1, <1>2, <1>3, PTL DEF Spec

(***************************************************************************)
(* However often a webhook is delivered and whatever overlaps it, at most  *)
(* one of its deliveries is acted on.                                      *)
(***************************************************************************)
THEOREM EventsHandledOnce == Spec => []EventHandledOnce
<1>1. EventInv => EventHandledOnce
  BY DEF EventInv
<1> QED BY <1>1, AlwaysHeld, PTL

(***************************************************************************)
(* A claim on an event has a delivery behind it, at work on the event, done*)
(* with it or stranded by a crash: releasing a claim never gives away that *)
(* of another.                                                             *)
(***************************************************************************)
THEOREM ClaimsAccounted == Spec => []ClaimAccounted
<1>1. EventInv => ClaimAccounted
  BY DEF EventInv
<1> QED BY <1>1, AlwaysHeld, PTL

-----------------------------------------------------------------------------
(***************************************************************************)
(* Labels.  No step but undoRow deletes a row, and none changes whether a  *)
(* row is a label's.                                                       *)
(***************************************************************************)
RowsKept ==
    \A t \in Trackings :
        rows[t] # NoRow => rows'[t] # NoRow /\ rows'[t].labelled = rows[t].labelled

\* Voiding a row, tracking it and undoing either keeps it.
LEMMA RowKept ==
    ASSUME TypeInv, NEW t \in Trackings, rows[t] # NoRow,
           \/ \E v \in BOOLEAN, a \in BOOLEAN \cup {None} :
                 rows' = [rows EXCEPT ![t].voided = v, ![t].void_approved = a]
           \/ \E s \in TrackingStatuses, d \in BOOLEAN :
                 rows' = [rows EXCEPT ![t].tracking_status = s, ![t].delivered = d]
    PROVE  RowsKept
<1>1. rows \in [Trackings -> Rows \cup {NoRow}] /\ rows[t] \in Rows
  BY RowTyped DEF TypeInv, TypeOK
<1>2. rows'[t].order = rows[t].order /\ rows'[t].labelled = rows[t].labelled
  <2>1. ASSUME NEW v, NEW a,
               rows' = [rows EXCEPT ![t].voided = v, ![t].void_approved = a]
        PROVE  rows'[t].order = rows[t].order /\ rows'[t].labelled = rows[t].labelled
    BY <1>1, <2>1 DEF Rows
  <2>2. ASSUME NEW s, NEW d,
               rows' = [rows EXCEPT ![t].tracking_status = s, ![t].delivered = d]
        PROVE  rows'[t].order = rows[t].order /\ rows'[t].labelled = rows[t].labelled
    BY <1>1, <2>2 DEF Rows
  <2> QED BY <2>1, <2>2
<1>3. rows'[t] # NoRow
  <2>1. rows[t].order \in Orders /\ NoRow.order = None
    BY <1>1 DEF Rows, NoRow
  <2> QED BY <1>2, <2>1, OrdersAssumption
<1>4. \A s \in Trackings \ {t} : rows'[s] = rows[s]
  BY <1>1
<1> QED BY <1>2, <1>3, <1>4 DEF RowsKept

(***************************************************************************)
(* What the labels need of a step on which request r goes on to step p with*)
(* locals m: rows and reports are kept, a label goes live or is no longer  *)
(* unanswered only into the hands of r, r comes to own no row, and what it *)
(* lets go of is voided, reported or on a shipment.                        *)
(***************************************************************************)
Passes(r, p, m) ==
    LET takes(l) == r \in Buys /\ l = m.held /\ p \notin Ended IN
    /\ RowsKept /\ orphaned \subseteq orphaned'
    /\ \A l \in Buys :
          label'[l] = "live" => label[l] = "live" \/ l \in unanswered' \/ takes(l)
    /\ \A l \in unanswered : l \in unanswered' \/ takes(l)
    /\ Job[r].kind \in {"buy", "record"} /\ p \in OwningSteps =>
          Owns(r) /\ m.held = mem[r].held
    /\ p = "note" => m.held \in orphaned'
    /\ r \in Buys /\ mem[r].held \in Buys =>
          \/ p \notin Ended /\ m.held = mem[r].held
          \/ label'[mem[r].held] # "live"
          \/ mem[r].held \in orphaned' \cup unanswered'
          \/ rows[mem[r].held] # NoRow /\ rows[mem[r].held].labelled

\* A step of that kind keeps the labels' invariant.
LEMMA LabelGoto ==
    ASSUME TypeInv, LabelInv, NEW r \in Requests, NEW p \in Steps, NEW m \in Locals,
           Goto(r, p, m), Passes(r, p, m)
    PROVE  LabelInv'
<1> DEFINE n == IF p \in Ended THEN [Blank EXCEPT !.failure = m.failure] ELSE m
<1>1. /\ pc' = [pc EXCEPT ![r] = p] /\ mem' = [mem EXCEPT ![r] = n]
      /\ pc'[r] = p /\ mem'[r] = n
      /\ \A s \in Requests \ {r} : pc'[s] = pc[s] /\ mem'[s] = mem[s]
  BY DEF Goto, TypeInv, TypeOK
<1>2. p \notin Ended => n = m
  OBVIOUS
<1>3. \A s \in Requests : Fits(s, pc[s], mem[s])
  BY DEF TypeInv, LocalsOK
<1> HIDE DEF n
<1> USE DEF Passes
<1>4. \A s \in Requests : Owns(s)' => Owns(s) /\ mem'[s].held = mem[s].held
  <2>1. Owns(r)' => Owns(r) /\ mem'[r].held = mem[r].held
    BY <1>1, <1>2 DEF Owns, OwningSteps, Transitioning, Ended
  <2>2. \A s \in Requests \ {r} : Owns(s)' => Owns(s) /\ mem'[s].held = mem[s].held
    BY <1>1 DEF Owns
  <2> QED BY <2>1, <2>2
<1>5. \A s \in Requests : Owns(s) => mem[s].held \in Trackings
  BY <1>3, JobAssumption DEF Fits, Owns, OwningSteps, Transitioning, Trackings, Ended
<1>6. RowsOwned'
  BY <1>4, <1>5 DEF LabelInv, RowsOwned, RowsKept
<1>7. OrphansReported'
  BY <1>1, <1>2 DEF LabelInv, OrphansReported, Ended
<1>8. ASSUME NEW l \in Buys, label'[l] = "live"
      PROVE  \/ l \in (orphaned \cup unanswered)'
             \/ rows'[l] # NoRow /\ rows'[l].labelled
             \/ \E s \in Buys : mem'[s].held = l
  <2>0. l \in Trackings
    BY DEF Trackings
  <2>1. CASE r \in Buys /\ l = m.held /\ p \notin Ended
    BY <1>1, <1>2, <2>1
  <2>2. CASE label[l] = "live"
    <3>1. CASE l \in orphaned \cup unanswered
      BY <2>1, <3>1
    <3>2. CASE l \in Recorded /\ rows[l].labelled
      BY <2>0, <3>2 DEF Recorded, RowsKept
    <3>3. CASE \E s \in Buys : mem[s].held = l
      <4>1. PICK s \in Buys : mem[s].held = l
        BY <3>3
      <4>2. CASE s # r
        BY <1>1, <4>1, <4>2 DEF Buys
      <4>3. CASE s = r
        BY <1>1, <1>2, <1>8, <2>0, <4>1, <4>3 DEF RowsKept
      <4> QED BY <4>2, <4>3
    <3> QED BY <2>2, <3>1, <3>2, <3>3 DEF LabelInv, LabelAccounted
  <2>3. CASE l \in unanswered'
    BY <2>3
  <2> QED BY <1>8, <2>1, <2>2, <2>3
<1>9. LabelAccounted'
  BY <1>8 DEF LabelAccounted, Recorded, Trackings, Buys
<1> QED BY <1>6, <1>7, <1>9 DEF LabelInv

\* A step that changes neither rows nor labels and drops no label.
LEMMA LabelStep ==
    ASSUME TypeInv, LabelInv, NEW r \in Requests, NEW p \in Steps, NEW m \in Locals,
           Goto(r, p, m), UNCHANGED <<rows, labelVars>>,
           Job[r].kind \in {"buy", "record"} /\ p \in OwningSteps =>
              Owns(r) /\ m.held = mem[r].held,
           p # "note",
           r \in Buys /\ mem[r].held \in Buys =>
              \/ p \notin Ended /\ m.held = mem[r].held
              \/ mem[r].held \in orphaned
              \/ rows[mem[r].held] # NoRow /\ rows[mem[r].held].labelled
    PROVE  LabelInv'
<1>1. RowsKept
  BY DEF RowsKept
<1>2. Passes(r, p, m)
  BY <1>1 DEF Passes
<1> QED BY <1>2, LabelGoto

\* A failing statement passes the label on, or has reported it.
LEMMA LabelFail ==
    ASSUME TypeInv, LabelInv, NEW r \in Requests, Fail(r),
           UNCHANGED <<rows, labelVars>>,
           pc[r] \notin Ended \cup {"waiting", "store"} \cup (Unwinding \ {"note"})
    PROVE  LabelInv'
<1>1. /\ Fits(r, pc[r], mem[r]) /\ pc[r] \in Steps /\ mem[r] \in Locals
      /\ None \notin Buys
  BY OrdersAssumption DEF TypeInv, LocalsOK, TypeOK, Buys
<1>2. Rollback(r) \in OwningSteps /\ Job[r].kind \in {"buy", "record"} => Owns(r)
  BY <1>1 DEF Fits, Rollback, Owns, OwningSteps, Transitioning, Voiding, Ended
<1>3. Rollback(r) # "note"
  BY DEF Rollback
<1>4. r \in Buys /\ mem[r].held \in Buys =>
         Rollback(r) \notin Ended \/ mem[r].held \in orphaned
  <2>1. r \in Buys /\ mem[r].held \in Buys /\ pc[r] # "note" => Rollback(r) \notin Ended
    BY <1>1 DEF Buys, Fits, Rollback, Steps, BuySteps, ShipSteps, Shipping, Unwinding,
       Voiding, Tracking, Transitioning, Ended
  <2>2. pc[r] = "note" => mem[r].held \in orphaned
    BY DEF LabelInv, OrphansReported
  <2> QED BY <2>1, <2>2
<1>5. Goto(r, Rollback(r), mem[r]) /\ Rollback(r) \in Steps
  BY RollbackTyped DEF Fail
<1> QED BY <1>1, <1>2, <1>3, <1>4, <1>5, LabelStep

\* Every step of a request keeps the labels' invariant.
LEMMA WorkLabels ==
    ASSUME TypeInv, LabelInv, NEW r \in Requests, Work(r)
    PROVE  LabelInv'
<1> USE DEF Steps, BuySteps, ShipSteps, Shipping, Unwinding, Voiding,
            Tracking, Transitioning, Ended, OwningSteps
<1>0. /\ Fits(r, pc[r], mem[r]) /\ mem[r] \in Locals
      /\ r \in Buys <=> Job[r].kind = "buy"
      /\ None \notin Buys
  BY OrdersAssumption DEF TypeInv, TypeOK, LocalsOK, Buys
<1>k. ASSUME NEW p \in Steps, Goto(r, p, mem[r]), UNCHANGED <<rows, labelVars>>,
             p \notin Ended \cup {"note"},
             Job[r].kind \in {"buy", "record"} /\ p \in OwningSteps => Owns(r)
      PROVE  LabelInv'
  BY <1>0, <1>k, LabelStep
<1>f. Fail(r) /\ pc[r] \notin Ended \cup {"waiting", "store"} \cup (Unwinding \ {"note"})
        /\ UNCHANGED <<rows, labelVars>> => LabelInv'
  BY LabelFail
<1>m. ASSUME NEW p \in Steps, NEW m \in Locals, Goto(r, p, m),
             UNCHANGED <<rows, labelVars>>, p # "note",
             Job[r].kind \in {"buy", "record"} => p \notin OwningSteps \cup Ended,
             m.held = mem[r].held \/ Job[r].kind \notin {"buy", "record"}
      PROVE  LabelInv'
  BY <1>0, <1>m, LabelStep
<1>1. CASE ReadStatus(r)
  <2> DEFINE m == [mem[r] EXCEPT !.seen = status[mem[r].order]]
  <2>1. m \in Locals /\ m.held = mem[r].held
    BY <1>0, <1>1 DEF ReadStatus, Locals, TypeInv, TypeOK, Fits
  <2>2. /\ Goto(r, "write", m) \/ Fail(r)
        /\ pc[r] = "read" /\ UNCHANGED <<rows, labelVars>>
    BY <1>1 DEF ReadStatus
  <2> HIDE DEF m
  <2>3. CASE Goto(r, "write", m)
    BY <1>0, <2>1, <2>2, <2>3, LabelStep DEF Owns
  <2>4. CASE Fail(r)
    BY <1>f, <2>2, <2>4
  <2> QED BY <2>2, <2>3, <2>4
<1>2. CASE WriteStatus(r)
  BY <1>0, <1>k, <1>2, LabelStep, LabelFail DEF WriteStatus, Fits, Owns
<1>3. CASE LogTransition(r)
  <2>1. Goto(r, "done", mem[r]) /\ pc[r] = "log" /\ UNCHANGED <<rows, labelVars>>
    BY <1>3 DEF LogTransition
  <2>2. r \in Buys => rows[mem[r].held] # NoRow /\ rows[mem[r].held].labelled
    BY <1>0, <2>1 DEF LabelInv, RowsOwned, Owns
  <2> QED BY <1>0, <2>1, <2>2, LabelStep
<1>4. CASE CheckStatus(r)
  BY <1>0, <1>k, <1>4, LabelStep, LabelFail DEF CheckStatus, Fits, Owns
<1>5. CASE CheckFree(r)
  BY <1>0, <1>k, <1>5, LabelStep, LabelFail DEF CheckFree, Fits, Owns
<1>6. CASE PurchaseAnswered(r)
  <2> DEFINE m == [mem[r] EXCEPT !.held = r]
  <2>1. Goto(r, "store", m) /\ r \in Buys /\ mem[r].held = None
    BY <1>0, <1>6 DEF PurchaseAnswered, Fits
  <2>2. m \in Locals /\ m.held = r
    BY <1>0, <2>1 DEF Locals, Trackings
  <2>3. /\ label' = [label EXCEPT ![r] = "live"] /\ RowsKept
        /\ orphaned' = orphaned /\ unanswered' = unanswered
    BY <1>6 DEF PurchaseAnswered, RowsKept
  <2>4. \A l \in Buys \ {r} : label'[l] = label[l]
    BY <2>3 DEF TypeInv, TypeOK
  <2> HIDE DEF m
  <2>5. Passes(r, "store", m)
    BY <1>0, <2>1, <2>2, <2>3, <2>4 DEF Passes
  <2> QED BY <2>1, <2>2, <2>5, LabelGoto
<1>7. CASE PurchaseRefused(r)
  BY <1>0, <1>k, <1>7, LabelStep, LabelFail DEF PurchaseRefused, Fits, Owns
<1>8. CASE PurchaseUnanswered(r)
  <2> DEFINE late == [mem[r] EXCEPT !.failure = "timeout_unconfirmed"]
             lost == [mem[r] EXCEPT !.failure = "http_error"]
  <2>1. late \in Locals /\ lost \in Locals
    BY <1>0 DEF Locals
  <2>2. r \in Buys /\ mem[r].held = None
    BY <1>0, <1>8 DEF PurchaseUnanswered, Fits
  <2>3. Goto(r, "reconcile", late) \/ Goto(r, "failed", lost)
    BY <1>8 DEF PurchaseUnanswered
  <2>4. /\ \A l \in Buys : label'[l] = "live" => label[l] = "live" \/ l \in unanswered'
        /\ unanswered \subseteq unanswered'
        /\ RowsKept /\ orphaned' = orphaned
    BY <2>2, <1>8 DEF PurchaseUnanswered, RowsKept, TypeInv, TypeOK
  <2> HIDE DEF late, lost
  <2>5. Passes(r, "reconcile", late) /\ Passes(r, "failed", lost)
    BY <1>0, <2>2, <2>4 DEF Passes
  <2> QED BY <2>1, <2>3, <2>5, LabelGoto
<1>9. CASE ReconcileFound(r)
  <2> DEFINE m(l) == [mem[r] EXCEPT !.held = l, !.failure = None]
  <2>1. PICK l \in Buys : Goto(r, "store", m(l)) /\ unanswered' = unanswered \ {l}
    BY <1>9 DEF ReconcileFound, Matches
  <2>2. m(l) \in Locals /\ m(l).held = l
    BY <1>0 DEF Locals, Trackings
  <2>3. r \in Buys /\ mem[r].held = None
    BY <1>0, <1>9 DEF ReconcileFound, Fits
  <2>4. RowsKept /\ orphaned' = orphaned /\ label' = label
    BY <1>9 DEF ReconcileFound, RowsKept
  <2>5. Passes(r, "store", m(l))
    BY <1>0, <2>1, <2>2, <2>3, <2>4 DEF Passes
  <2> HIDE DEF m
  <2> QED BY <2>1, <2>2, <2>5, LabelGoto
<1>10. CASE ReconcileNothing(r)
  BY <1>0, <1>k, <1>10, LabelStep, LabelFail DEF ReconcileNothing, Fits, Owns
<1>11. CASE StoreLabelPdf(r)
  <2> DEFINE m == [mem[r] EXCEPT !.filed = TRUE]
  <2>1. m \in Locals /\ m.held = mem[r].held
    BY <1>0 DEF Locals
  <2>2. Goto(r, "fulfil", m) \/ Goto(r, "fulfil", mem[r])
    BY <1>11 DEF StoreLabelPdf
  <2>3. UNCHANGED <<rows, labelVars>>
    BY <1>11 DEF StoreLabelPdf
  <2> HIDE DEF m
  <2> QED BY <1>0, <1>k, <1>m, <2>1, <2>2, <2>3
<1>12. CASE CreateFulfilment(r)
  <2> DEFINE m == [mem[r] EXCEPT !.stock = reserved[mem[r].order]]
  <2>1. m \in Locals /\ m.held = mem[r].held
    BY <1>0, <1>12 DEF CreateFulfilment, Locals, TypeInv, TypeOK, Fits
  <2>2. Goto(r, "ship", m) \/ Fail(r)
    BY <1>12 DEF CreateFulfilment
  <2>3. /\ pc[r] \notin Ended \cup {"waiting", "store"} \cup (Unwinding \ {"note"})
        /\ Job[r].kind \in {"buy", "record"} => "ship" \notin OwningSteps \cup Ended
        /\ UNCHANGED <<rows, labelVars>>
    BY <1>0, <1>12 DEF CreateFulfilment, Fits
  <2> HIDE DEF m
  <2> QED BY <1>m, <1>f, <2>1, <2>2, <2>3
<1>13. CASE CreateShipment(r)
  BY <1>0, <1>k, <1>13, LabelStep, LabelFail DEF CreateShipment, Fits, Owns
<1>14. CASE InsertRow(r)
  <2> DEFINE t == mem[r].held
             row == [order |-> mem[r].order, labelled |-> Job[r].kind = "buy",
                     file |-> IF mem[r].filed THEN r ELSE None,
                     voided |-> FALSE, void_approved |-> None,
                     tracking_status |-> "accepted", delivered |-> FALSE]
  <2>1. /\ pc[r] = "insert" /\ Job[r].kind \in {"buy", "record"} /\ mem[r].order \in Orders
        /\ t \in Trackings
    BY <1>0, <1>14, JobAssumption DEF InsertRow, Fits, Trackings
  <2>2. CASE Fail(r) /\ UNCHANGED <<rows, labelVars>>
    BY <1>f, <2>1, <2>2
  <2>3. CASE rows[t] = NoRow /\ rows' = [rows EXCEPT ![t] = row] /\ Goto(r, "read", mem[r])
             /\ UNCHANGED labelVars
    <3>1. row # NoRow /\ row.labelled = (Job[r].kind = "buy")
      <4>1. row.order = mem[r].order /\ NoRow.order = None
        BY DEF NoRow
      <4> QED BY <2>1, <4>1, OrdersAssumption
    <3> HIDE DEF row, t
    <3>2. /\ rows'[t] = row /\ \A s \in Trackings \ {t} : rows'[s] = rows[s]
          /\ pc' = [pc EXCEPT ![r] = "read"] /\ mem' = mem
      BY <2>1, <2>3 DEF Goto, TypeInv, TypeOK
    <3>3. \A s \in Requests \ {r} : Owns(s)' <=> Owns(s)
      BY <3>2 DEF Owns, TypeInv, TypeOK
    <3>4. \A s \in Requests : Owns(s) => mem[s].held \in Trackings /\ mem[s].held # t
      <4>1. \A s \in Requests : Owns(s) => rows[mem[s].held] # NoRow
        BY DEF LabelInv, RowsOwned
      <4>2. \A s \in Requests : Owns(s) => mem[s].held \in Trackings
        BY JobAssumption DEF TypeInv, LocalsOK, Fits, Owns, Trackings
      <4> QED BY <2>3, <4>1, <4>2
    <3>5. RowsOwned'
      BY <2>1, <3>1, <3>2, <3>3, <3>4 DEF LabelInv, RowsOwned, t
    <3>6. OrphansReported'
      BY <2>3, <3>2 DEF LabelInv, OrphansReported, TypeInv, TypeOK
    <3>7. LabelAccounted'
      BY <2>3, <3>2 DEF LabelInv, LabelAccounted, Recorded, Trackings
    <3> QED BY <3>5, <3>6, <3>7 DEF LabelInv
  <2> QED BY <1>14, <2>2, <2>3 DEF InsertRow
<1>15. CASE UndoRow(r)
  <2> DEFINE t == mem[r].held
  <2>1. /\ pc[r] = "undoRow" /\ Job[r].kind \in {"buy", "record"} /\ t \in Trackings
        /\ Owns(r)
    BY <1>0, <1>15, JobAssumption DEF UndoRow, Fits, Trackings, Owns
  <2> HIDE DEF t
  <2>2. /\ rows'[t] = NoRow /\ \A s \in Trackings \ {t} : rows'[s] = rows[s]
        /\ pc' = [pc EXCEPT ![r] = "undoFulfilment"] /\ mem' = mem
        /\ UNCHANGED labelVars
    BY <2>1, <1>15 DEF UndoRow, Goto, TypeInv, TypeOK, t
  <2>3. \A s \in Requests : Owns(s)' <=> Owns(s) /\ s # r
    BY <2>2 DEF Owns, TypeInv, TypeOK
  <2>4. \A s \in Requests : Owns(s) => mem[s].held \in Trackings
    BY JobAssumption DEF TypeInv, LocalsOK, Fits, Owns, Trackings
  <2>5. RowsOwned'
    BY <2>1, <2>2, <2>3, <2>4 DEF LabelInv, RowsOwned, t
  <2>6. OrphansReported'
    BY <2>2 DEF LabelInv, OrphansReported, TypeInv, TypeOK
  <2>7. \A l \in Buys : l = t => \/ \E s \in Buys : mem[s].held = l
                                 \/ ~rows[l].labelled
    BY <1>0, <2>1 DEF LabelInv, RowsOwned, t
  <2>8. LabelAccounted'
    BY <2>2, <2>7 DEF LabelInv, LabelAccounted, Recorded, Trackings
  <2> QED BY <2>5, <2>6, <2>8 DEF LabelInv
<1>16. CASE UndoFulfilment(r)
  BY <1>0, <1>k, <1>16, LabelStep, LabelFail DEF UndoFulfilment, Fits, Owns
<1>17. CASE UndoFile(r)
  BY <1>0, <1>k, <1>17, LabelStep, LabelFail DEF UndoFile, Fits, Owns
<1>18. CASE UndoLabelApproved(r)
  <2>1. Goto(r, "failed", mem[r]) /\ mem[r].held \in Buys
    BY <1>0, <1>18 DEF UndoLabelApproved, Fits
  <2>2. /\ \A l \in Buys : label'[l] = "live" => label[l] = "live" /\ l # mem[r].held
        /\ RowsKept /\ orphaned' = orphaned /\ unanswered' = unanswered
    BY <2>1, <1>18 DEF UndoLabelApproved, RowsKept, TypeInv, TypeOK
  <2>3. Passes(r, "failed", mem[r])
    BY <1>0, <2>1, <2>2 DEF Passes
  <2> QED BY <1>0, <2>1, <2>3, LabelGoto
<1>19. CASE UndoLabelRefused(r)
  <2>1. Goto(r, "note", mem[r]) /\ mem[r].held \in Buys
    BY <1>0, <1>19 DEF UndoLabelRefused, Fits
  <2>2. /\ \A l \in Buys : label'[l] = "live" => label[l] = "live"
        /\ RowsKept /\ orphaned' = orphaned \cup {mem[r].held} /\ unanswered' = unanswered
    BY <2>1, <1>19 DEF UndoLabelRefused, RowsKept, TypeInv, TypeOK
  <2>3. Passes(r, "note", mem[r])
    BY <1>0, <2>1, <2>2 DEF Passes
  <2> QED BY <1>0, <2>1, <2>3, LabelGoto
<1>20. CASE NoteOrphan(r)
  <2>1. Goto(r, "failed", mem[r]) /\ pc[r] = "note" /\ UNCHANGED <<rows, labelVars>>
    BY <1>20 DEF NoteOrphan
  <2>2. mem[r].held \in orphaned
    BY <2>1 DEF LabelInv, OrphansReported
  <2> QED BY <1>0, <2>1, <2>2, LabelStep
<1>21. CASE FindActive(r)
  <2> DEFINE m(t) == [mem[r] EXCEPT !.held = t]
  <2>1. pc[r] = "find" /\ Job[r].kind = "void" /\ UNCHANGED <<rows, labelVars>>
    BY <1>0, <1>21 DEF FindActive, Fits
  <2>2. CASE Fail(r)
    BY <1>f, <2>1, <2>2
  <2>3. CASE \E t \in Trackings, p \in {"carrier", "voidRow"} : Goto(r, p, m(t))
    <3>1. PICK t \in Trackings, p \in {"carrier", "voidRow"} : Goto(r, p, m(t))
      BY <2>3
    <3>2. m(t) \in Locals
      BY <1>0 DEF Locals
    <3> HIDE DEF m
    <3> QED BY <1>m, <2>1, <3>1, <3>2
  <2> QED BY <1>21, <2>2, <2>3 DEF FindActive, Active, Recorded
<1>22. CASE VoidApproved(r)
  <2> DEFINE m == [mem[r] EXCEPT !.answer = TRUE]
  <2>1. m \in Locals
    BY <1>0 DEF Locals
  <2>2. Goto(r, "voidRow", m) /\ pc[r] = "carrier" /\ Job[r].kind = "void"
    BY <1>0, <1>22 DEF VoidApproved, Fits
  <2>3. /\ \A l \in Buys : label'[l] = "live" => label[l] = "live"
        /\ RowsKept /\ orphaned' = orphaned /\ unanswered' = unanswered
    BY <1>22 DEF VoidApproved, RowsKept, TypeInv, TypeOK
  <2> HIDE DEF m
  <2>4. Passes(r, "voidRow", m)
    BY <1>0, <2>2, <2>3 DEF Passes
  <2> QED BY <2>1, <2>2, <2>4, LabelGoto
<1>23. CASE VoidRefused(r)
  <2> DEFINE m == [mem[r] EXCEPT !.answer = FALSE]
  <2>1. m \in Locals
    BY <1>0 DEF Locals
  <2>2. Goto(r, "voidRow", m) /\ pc[r] = "carrier" /\ Job[r].kind = "void"
    BY <1>0, <1>23 DEF VoidRefused, Fits
  <2>3. /\ \A l \in Buys : label'[l] = "live" => label[l] = "live"
        /\ RowsKept /\ orphaned' = orphaned /\ unanswered' = unanswered
    BY <1>23 DEF VoidRefused, RowsKept, TypeInv, TypeOK
  <2> HIDE DEF m
  <2>4. Passes(r, "voidRow", m)
    BY <1>0, <2>2, <2>3 DEF Passes
  <2> QED BY <2>1, <2>2, <2>4, LabelGoto
<1>24. CASE VoidUnanswered(r)
  <2> DEFINE m == [mem[r] EXCEPT !.failure = "unreachable"]
  <2>1. m \in Locals
    BY <1>0 DEF Locals
  <2>2. Goto(r, "failed", m) /\ pc[r] = "carrier" /\ Job[r].kind = "void"
    BY <1>0, <1>24 DEF VoidUnanswered, Fits
  <2>3. /\ \A l \in Buys : label'[l] = "live" => label[l] = "live"
        /\ RowsKept /\ orphaned' = orphaned /\ unanswered' = unanswered
    BY <1>24 DEF VoidUnanswered, RowsKept, TypeInv, TypeOK
  <2> HIDE DEF m
  <2>4. Passes(r, "failed", m)
    BY <1>0, <2>2, <2>3 DEF Passes
  <2> QED BY <2>1, <2>2, <2>4, LabelGoto
<1>25. CASE VoidRow(r)
  <2> DEFINE m(t) == [mem[r] EXCEPT !.held = t]
  <2>1. pc[r] = "voidRow" /\ Job[r].kind = "void" /\ UNCHANGED labelVars
    BY <1>0, <1>25 DEF VoidRow, Fits
  <2>2. CASE Fail(r) /\ UNCHANGED rows
    BY <1>f, <2>1, <2>2
  <2>3. CASE \E t \in Active(mem[r].order) :
                /\ rows' = [rows EXCEPT ![t].voided = TRUE, ![t].void_approved = mem[r].answer]
                /\ Goto(r, "restore", m(t))
    <3>1. PICK t \in Trackings :
             /\ rows[t] # NoRow
             /\ rows' = [rows EXCEPT ![t].voided = TRUE, ![t].void_approved = mem[r].answer]
             /\ Goto(r, "restore", m(t))
      BY <2>3 DEF Active, Recorded
    <3>2. m(t) \in Locals /\ mem[r].answer \in BOOLEAN \cup {None}
      BY <1>0 DEF Locals
    <3>3. RowsKept
      BY <3>1, <3>2, RowKept
    <3>4. /\ orphaned' = orphaned /\ unanswered' = unanswered /\ label' = label
          /\ r \notin Buys
      BY <1>0, <2>1
    <3>5. Passes(r, "restore", m(t))
      BY <2>1, <3>3, <3>4 DEF Passes
    <3> HIDE DEF m
    <3> QED BY <3>1, <3>2, <3>5, LabelGoto
  <2> QED BY <1>25, <2>2, <2>3 DEF VoidRow
<1>26. CASE RestoreReservations(r)
  <2> DEFINE m == [mem[r] EXCEPT !.stock =
                    IF fulfilled[mem[r].order] # {} /\ reserved[mem[r].order] = {}
                    THEN {r} ELSE {}]
  <2>1. m \in Locals /\ m.held = mem[r].held
    BY <1>0, <1>26 DEF RestoreReservations, Locals, TypeInv, TypeOK, Fits
  <2>2. Goto(r, "reserve", m)
    BY <1>26 DEF RestoreReservations
  <2>3. /\ pc[r] \notin Ended \cup {"waiting", "store"} \cup (Unwinding \ {"note"})
        /\ Job[r].kind \in {"buy", "record"} => "reserve" \notin OwningSteps \cup Ended
        /\ UNCHANGED <<rows, labelVars>>
    BY <1>0, <1>26 DEF RestoreReservations, Fits
  <2> HIDE DEF m
  <2> QED BY <1>m, <1>f, <2>1, <2>2, <2>3
<1>27. CASE CreateReservations(r)
  BY <1>0, <1>k, <1>27, LabelStep, LabelFail DEF CreateReservations, Fits, Owns
<1>28. CASE UndoReservations(r)
  BY <1>0, <1>k, <1>28, LabelStep, LabelFail DEF UndoReservations, Fits, Owns
<1>29. CASE UndoVoidRow(r)
  <2>1. /\ Goto(r, "failed", mem[r]) /\ Job[r].kind = "void" /\ r \notin Buys
        /\ orphaned' = orphaned /\ unanswered' = unanswered /\ label' = label
        /\ mem[r].held \in Trackings \cup {None}
    BY <1>0, <1>29 DEF UndoVoidRow, Fits, Locals
  <2>2. RowsKept
    <3>1. CASE rows' = rows
      BY <3>1 DEF RowsKept
    <3>2. CASE mem[r].held \in Trackings /\ rows' # rows
      BY <1>29, <3>2, RowKept DEF UndoVoidRow
    <3>3. CASE mem[r].held \notin Trackings
      BY <1>29, <3>3 DEF UndoVoidRow, RowsKept, TypeInv, TypeOK
    <3> QED BY <2>1, <3>1, <3>2, <3>3
  <2>3. Passes(r, "failed", mem[r])
    BY <1>0, <2>1, <2>2 DEF Passes
  <2> QED BY <1>0, <2>1, <2>3, LabelGoto
<1>30. CASE ClaimEvent(r)
  BY <1>0, <1>k, <1>30, LabelStep, LabelFail DEF ClaimEvent, Fits, Owns
<1>31. CASE LookupShipment(r)
  <2> DEFINE t == mem[r].held
             m == [mem[r] EXCEPT !.order = rows[t].order]
  <2>1. /\ pc[r] = "lookup" /\ Job[r].kind = "track" /\ UNCHANGED <<rows, labelVars>>
        /\ t \in Trackings /\ r \notin Buys
    BY <1>0, <1>31, JobAssumption, EventsAssumption DEF LookupShipment, Fits
  <2>2. CASE Goto(r, "dropped", mem[r])
    BY <1>0, <2>1, <2>2, LabelStep
  <2>3. CASE rows[t] # NoRow /\ Goto(r, "context", m)
    <3>1. rows[t].order \in Orders
      BY <2>1, <2>3, RowTyped DEF Rows
    <3>2. m \in Locals
      BY <1>0, <3>1 DEF Locals
    <3> HIDE DEF m
    <3> QED BY <1>m, <2>1, <2>3, <3>2
  <2> QED BY <1>31, <2>2, <2>3 DEF LookupShipment
<1>32. CASE ReadContext(r)
  <2> DEFINE m == [mem[r] EXCEPT !.seen = status[mem[r].order]]
  <2>1. /\ pc[r] = "context" /\ Job[r].kind = "track" /\ UNCHANGED <<rows, labelVars>>
        /\ mem[r].order \in Orders /\ r \notin Buys
    BY <1>0, <1>32 DEF ReadContext, Fits
  <2>2. m \in Locals
    BY <1>0, <2>1 DEF Locals, TypeInv, TypeOK
  <2>3. Goto(r, "dropped", mem[r]) \/ Goto(r, "snapshot", m)
    BY <1>32 DEF ReadContext
  <2> HIDE DEF m
  <2> QED BY <1>0, <1>m, <2>1, <2>2, <2>3, LabelStep
<1>33. CASE SnapshotTracking(r)
  <2> DEFINE t == mem[r].held
             k == IF rows[t] = NoRow THEN NoSnapshot
                  ELSE [tracking_status |-> rows[t].tracking_status,
                        delivered |-> rows[t].delivered]
             m == [mem[r] EXCEPT !.snapshot = k]
  <2>1. /\ pc[r] = "snapshot" /\ Job[r].kind = "track" /\ UNCHANGED <<rows, labelVars>>
        /\ t \in Trackings
    BY <1>0, <1>33, JobAssumption, EventsAssumption DEF SnapshotTracking, Fits
  <2>2. k \in Snapshots
    BY <2>1, RowTyped DEF Snapshots, NoSnapshot, Rows, TrackingStatuses
  <2>3. Goto(r, "apply", m)
    BY <1>33 DEF SnapshotTracking
  <2> HIDE DEF k
  <2>4. m \in Locals
    BY <1>0, <2>2 DEF Locals
  <2> HIDE DEF m
  <2> QED BY <1>m, <2>1, <2>3, <2>4
<1>34. CASE ApplyTrackingStatus(r)
  <2> DEFINE t == mem[r].held
             new == TrackingStatusFromShipStation(Job[r].arg.code)
             d == rows[t].delivered \/ new = "delivered"
  <2>1. /\ pc[r] = "apply" /\ Job[r].kind = "track" /\ r \notin Buys /\ t \in Trackings
        /\ orphaned' = orphaned /\ unanswered' = unanswered /\ label' = label
    BY <1>0, <1>34, JobAssumption, EventsAssumption DEF ApplyTrackingStatus, Fits
  <2>2. new \in TrackingStatuses /\ d \in BOOLEAN
    BY DEF TrackingStatusFromShipStation, TrackingStatuses
  <2>3. \/ Fail(r) /\ rows' = rows
        \/ /\ rows[t] # NoRow
           /\ rows' = [rows EXCEPT ![t].tracking_status = new, ![t].delivered = d]
           /\ Goto(r, "deliver", mem[r]) \/ Goto(r, "done", mem[r])
    BY <1>34 DEF ApplyTrackingStatus
  <2> HIDE DEF t, new, d
  <2>4. CASE Fail(r) /\ rows' = rows
    BY <1>f, <2>1, <2>4
  <2>5. CASE /\ rows[t] # NoRow
             /\ rows' = [rows EXCEPT ![t].tracking_status = new, ![t].delivered = d]
             /\ Goto(r, "deliver", mem[r]) \/ Goto(r, "done", mem[r])
    <3>1. RowsKept
      BY <2>1, <2>2, <2>5, RowKept
    <3>2. Passes(r, "deliver", mem[r]) /\ Passes(r, "done", mem[r])
      BY <2>1, <3>1 DEF Passes
    <3> QED BY <1>0, <2>5, <3>2, LabelGoto
  <2> QED BY <2>3, <2>4, <2>5
<1>35. CASE MarkDelivered(r)
  BY <1>0, <1>k, <1>35, LabelStep, LabelFail DEF MarkDelivered, Fits, Owns
<1>36. CASE UndoApply(r)
  <2>1. /\ pc[r] = "undoApply" /\ Job[r].kind = "track" /\ r \notin Buys
        /\ mem[r].held \in Trackings /\ mem[r].snapshot \in Snapshots
        /\ Goto(r, "release", mem[r])
        /\ orphaned' = orphaned /\ unanswered' = unanswered /\ label' = label
    BY <1>0, <1>36, JobAssumption, EventsAssumption DEF UndoApply, Fits, Locals
  <2>2. RowsKept
    <3>1. CASE rows' = rows
      BY <3>1 DEF RowsKept
    <3>2. CASE rows' # rows
      BY <1>36, <2>1, <3>2, RowKept DEF UndoApply, Snapshots
    <3> QED BY <3>1, <3>2
  <2>3. Passes(r, "release", mem[r])
    BY <1>0, <2>1, <2>2 DEF Passes
  <2> QED BY <1>0, <2>1, <2>3, LabelGoto
<1>37. CASE ReleaseEvent(r)
  BY <1>0, <1>k, <1>37, LabelStep, LabelFail DEF ReleaseEvent, Fits, Owns
<1> QED BY <1>1, <1>2, <1>3, <1>4, <1>5, <1>6, <1>7, <1>8, <1>9, <1>10,
           <1>11, <1>12, <1>13, <1>14, <1>15, <1>16, <1>17, <1>18, <1>19, <1>20,
           <1>21, <1>22, <1>23, <1>24, <1>25, <1>26, <1>27, <1>28, <1>29, <1>30,
           <1>31, <1>32, <1>33, <1>34, <1>35, <1>36, <1>37 DEF Work

\* Every step keeps the labels' invariant.
LEMMA NextLabels ==
    ASSUME TypeInv, LabelInv, [Next]_vars
    PROVE  LabelInv'
<1>1. ASSUME NEW r \in Requests, Start(r) PROVE LabelInv'
  <2> DEFINE p == FirstStep(Job[r].kind)
  <2>1. PICK m \in Locals : Goto(r, p, m)
    BY <1>1, StartGoto
  <2>2. p \in Steps \ {"note"} /\ (Job[r].kind \in {"buy", "record"} => p \notin OwningSteps)
    BY JobAssumption
       DEF FirstStep, Steps, Shipping, Voiding, Tracking, OwningSteps, Transitioning
  <2>3. mem[r].held \notin Buys /\ UNCHANGED <<rows, labelVars>>
    BY <1>1, OrdersAssumption DEF Start, TypeInv, LocalsOK, Fits, Buys
  <2> HIDE DEF p
  <2> QED BY <2>1, <2>2, <2>3, LabelStep
<1>2. ASSUME NEW r \in Requests, StatementFails(r) PROVE LabelInv'
  BY <1>2, LabelFail DEF StatementFails, InFlight, Ended, Transitioning, Unwinding
<1>3. CASE Crash
  BY <1>3 DEF Crash, LabelInv, RowsOwned, OrphansReported, LabelAccounted, Owns, Recorded
<1>4. CASE UNCHANGED vars
  BY <1>4 DEF vars, LabelInv, RowsOwned, OrphansReported, LabelAccounted, Owns, Recorded
<1> QED BY <1>1, <1>2, <1>3, <1>4, WorkLabels DEF Next

(***************************************************************************)
(* Whatever is bought, reconciled, undone or voided, in whatever order and *)
(* wherever a statement fails or the process dies, no label that can be    *)
(* charged for is lost sight of.                                           *)
(***************************************************************************)
THEOREM LabelsAccounted == Spec => []LabelAccounted
<1>1. Init => TypeInv /\ LabelInv
  BY InitTyped DEF Init, LabelInv, RowsOwned, OrphansReported, LabelAccounted, Owns,
     OwningSteps, Transitioning
<1>2. TypeInv /\ LabelInv /\ [Next]_vars => (TypeInv /\ LabelInv)'
  BY NextTyped, NextLabels
<1>3. LabelInv => LabelAccounted
  BY DEF LabelInv
<1> QED BY <1>1, <1>2, <1>3, PTL DEF Spec

-----------------------------------------------------------------------------
(***************************************************************************)
(* PDFs.  A purchase that kept one says so until it is taken back; the row *)
(* it put points to it, and no row does once the purchase unwound it.      *)
(***************************************************************************)
KeepingSteps == Shipping \cup {"undoRow", "undoFulfilment", "undoFile"}

FileOf(r) == IF mem[r].filed THEN r ELSE None

\* The row of shipment t points to the PDF of a purchase that is over, or is
\* the row that purchase may still delete.
PointsTo(t, f) == f \in files /\ (pc[f] = "done" \/ (Owns(f) /\ mem[f].held = t))

FilesOwned ==
    /\ files \subseteq Buys
    /\ \A r \in Requests : mem[r].filed /\ pc[r] \notin {"undoLabel", "note"} => r \in files
    /\ \A r \in Requests : Owns(r) => rows[mem[r].held].file = FileOf(r)
    /\ \A t \in Trackings : rows[t] # NoRow /\ rows[t].file # None => PointsTo(t, rows[t].file)
    /\ \A f \in files : \/ mem[f].filed /\ pc[f] \in KeepingSteps
                        \/ \E t \in Trackings : rows[t] # NoRow /\ rows[t].file = f

FileInv == RowsOwned /\ FilesOwned

\* No row comes or goes, and each points to what it did.
RowsPoint ==
    \A t \in Trackings :
        /\ rows'[t] # NoRow <=> rows[t] # NoRow
        /\ rows[t] # NoRow => rows'[t].file = rows[t].file

\* Voiding a row, tracking it and undoing either leaves it its PDF.
LEMMA RowPoints ==
    ASSUME TypeInv, NEW t \in Trackings, rows[t] # NoRow,
           \/ \E v \in BOOLEAN, a \in BOOLEAN \cup {None} :
                 rows' = [rows EXCEPT ![t].voided = v, ![t].void_approved = a]
           \/ \E s \in TrackingStatuses, d \in BOOLEAN :
                 rows' = [rows EXCEPT ![t].tracking_status = s, ![t].delivered = d]
    PROVE  RowsPoint
<1>1. rows \in [Trackings -> Rows \cup {NoRow}] /\ rows[t] \in Rows
  BY RowTyped DEF TypeInv, TypeOK
<1>2. rows'[t].file = rows[t].file
  <2>1. ASSUME NEW v, NEW a,
               rows' = [rows EXCEPT ![t].voided = v, ![t].void_approved = a]
        PROVE  rows'[t].file = rows[t].file
    BY <1>1, <2>1 DEF Rows
  <2>2. ASSUME NEW s, NEW d,
               rows' = [rows EXCEPT ![t].tracking_status = s, ![t].delivered = d]
        PROVE  rows'[t].file = rows[t].file
    BY <1>1, <2>2 DEF Rows
  <2> QED BY <2>1, <2>2
<1>3. rows'[t] # NoRow
  BY RowKept DEF RowsKept
<1>4. \A s \in Trackings \ {t} : rows'[s] = rows[s]
  BY <1>1
<1> QED BY <1>2, <1>3, <1>4 DEF RowsPoint

\* What the PDFs need of a step on which request r goes on to step p with
\* locals m, and neither rows nor files come or go.
KeepsFile(r, p, m) ==
    /\ m.filed = mem[r].filed /\ pc[r] \notin Ended
    /\ Job[r].kind \in {"buy", "record"} =>
          /\ p \in OwningSteps => Owns(r) /\ m.held = mem[r].held
          /\ Owns(r) => p \in OwningSteps \cup {"done"}
    /\ Job[r].kind = "buy" =>
          /\ pc[r] \in KeepingSteps => p \in KeepingSteps \/ (p = "done" /\ Owns(r))
          /\ pc[r] \in {"undoLabel", "note"} => p \in Ended \cup {"note"}

LEMMA FileGoto ==
    ASSUME TypeInv, FileInv, NEW r \in Requests, NEW p \in Steps, NEW m, Goto(r, p, m),
           files' = files, RowsPoint, KeepsFile(r, p, m)
    PROVE  FilesOwned'
<1> DEFINE n == IF p \in Ended THEN [Blank EXCEPT !.failure = m.failure] ELSE m
<1>1. /\ pc'[r] = p /\ mem'[r] = n
      /\ \A s \in Requests \ {r} : pc'[s] = pc[s] /\ mem'[s] = mem[s]
  BY DEF Goto, TypeInv, TypeOK
<1>2. /\ p \notin Ended => n = m
      /\ p \in Ended => ~n.filed
  BY DEF Blank
<1> HIDE DEF n
<1> USE DEF KeepsFile
<1>3. \A s \in Requests : Fits(s, pc[s], mem[s])
  BY DEF TypeInv, LocalsOK
<1>4. \A s \in Requests : Owns(s)' => /\ Owns(s) /\ mem'[s].held = mem[s].held
                                      /\ mem'[s].filed = mem[s].filed
  <2>1. Owns(r)' => Owns(r) /\ mem'[r].held = mem[r].held /\ mem'[r].filed = mem[r].filed
    BY <1>1, <1>2 DEF Owns, OwningSteps, Transitioning, Ended
  <2>2. \A s \in Requests \ {r} : Owns(s)' => /\ Owns(s) /\ mem'[s].held = mem[s].held
                                              /\ mem'[s].filed = mem[s].filed
    BY <1>1 DEF Owns
  <2> QED BY <2>1, <2>2
<1>5. \A s \in Requests : Owns(s) => mem[s].held \in Trackings /\ rows[mem[s].held] # NoRow
  BY <1>3, JobAssumption DEF Fits, Owns, OwningSteps, Transitioning, Trackings, Ended, FileInv, RowsOwned
<1>6. \A s \in Requests : Owns(s)' => rows'[mem'[s].held].file = FileOf(s)'
  BY <1>4, <1>5 DEF FileInv, FilesOwned, FileOf, RowsPoint
<1>7. ASSUME NEW s \in Requests, mem'[s].filed, pc'[s] \notin {"undoLabel", "note"}
      PROVE  s \in files
  <2>1. CASE s # r
    BY <1>1, <1>7, <2>1 DEF FileInv, FilesOwned
  <2>2. CASE s = r
    <3>1. p \notin Ended /\ mem[r].filed
      BY <1>1, <1>2, <1>7, <2>2
    <3>2. pc[r] \in {"undoLabel", "note"} => Job[r].kind = "buy"
      BY <1>3 DEF Fits, BuySteps
    <3> QED BY <1>1, <1>7, <2>2, <3>1, <3>2 DEF FileInv, FilesOwned
  <2> QED BY <2>1, <2>2
<1>8. ASSUME NEW t \in Trackings, rows'[t] # NoRow, rows'[t].file # None
      PROVE  PointsTo(t, rows[t].file)' /\ rows'[t].file = rows[t].file
  <2>0. PICK f : f = rows[t].file
    OBVIOUS
  <2>1. rows[t] # NoRow /\ rows'[t].file = f /\ PointsTo(t, f)
    BY <1>8, <2>0 DEF RowsPoint, FileInv, FilesOwned
  <2>2. f \in files /\ f \in Requests
    BY <2>1 DEF PointsTo, FileInv, FilesOwned, Buys
  <2>3. CASE pc[f] = "done"
    BY <1>1, <2>0, <2>1, <2>2, <2>3 DEF PointsTo, Ended
  <2>4. CASE Owns(f) /\ mem[f].held = t
    <3>1. CASE f # r
      BY <1>1, <2>0, <2>1, <2>2, <2>4, <3>1 DEF PointsTo, Owns
    <3>2. CASE f = r
      <4>1. Job[r].kind \in {"buy", "record"} /\ p \in OwningSteps \cup {"done"}
        BY <2>4, <3>2 DEF Owns
      <4>2. p \in OwningSteps => mem'[r].held = mem[r].held
        BY <1>1, <1>2, <4>1 DEF OwningSteps, Transitioning, Ended
      <4> QED BY <1>1, <2>0, <2>1, <2>2, <2>4, <3>2, <4>1, <4>2 DEF PointsTo, Owns
    <3> QED BY <3>1, <3>2
  <2>5. PointsTo(t, f)'
    BY <2>1, <2>3, <2>4 DEF PointsTo
  <2> QED BY <2>0, <2>1, <2>5
<1>9. ASSUME NEW f \in files
      PROVE  \/ mem'[f].filed /\ pc'[f] \in KeepingSteps
             \/ \E t \in Trackings : rows'[t] # NoRow /\ rows'[t].file = f
  <2>1. f \in Requests /\ Job[f].kind = "buy"
    BY DEF FileInv, FilesOwned, Buys
  <2>2. CASE \E t \in Trackings : rows[t] # NoRow /\ rows[t].file = f
    BY <2>2 DEF RowsPoint
  <2>3. CASE mem[f].filed /\ pc[f] \in KeepingSteps
    <3>1. CASE f # r
      BY <1>1, <2>1, <2>3, <3>1
    <3>2. CASE f = r /\ p \in KeepingSteps
      BY <1>1, <1>2, <2>1, <2>3, <3>2 DEF KeepingSteps, Shipping, Transitioning, Ended
    <3>3. CASE f = r /\ Owns(r)
      <4>1. rows[mem[r].held].file = f /\ mem[r].held \in Trackings /\ rows[mem[r].held] # NoRow
        BY <1>5, <2>3, <3>3 DEF FileInv, FilesOwned, FileOf
      <4> QED BY <4>1 DEF RowsPoint
    <3> QED BY <2>1, <2>3, <3>1, <3>2, <3>3
  <2> QED BY <2>2, <2>3 DEF FileInv, FilesOwned
<1> QED BY <1>6, <1>7, <1>8, <1>9 DEF FileInv, FilesOwned, PointsTo

\* A failing statement keeps the PDFs.
LEMMA FileFail ==
    ASSUME TypeInv, FileInv, NEW r \in Requests, Fail(r), UNCHANGED <<rows, files>>,
           pc[r] \notin Ended \cup {"waiting", "store"} \cup (Unwinding \ {"note"})
    PROVE  FilesOwned'
<1>1. Fits(r, pc[r], mem[r]) /\ pc[r] \in Steps
  BY DEF TypeInv, LocalsOK, TypeOK
<1>2. KeepsFile(r, Rollback(r), mem[r])
  BY <1>1 DEF KeepsFile, Rollback, Fits, Owns, OwningSteps, KeepingSteps, Steps, BuySteps, ShipSteps,
     Shipping, Unwinding, Voiding, Tracking, Transitioning, Ended
<1>3. RowsPoint
  BY DEF RowsPoint
<1>4. Goto(r, Rollback(r), mem[r]) /\ Rollback(r) \in Steps
  BY RollbackTyped DEF Fail
<1> QED BY <1>2, <1>3, <1>4, FileGoto

\* Every step of a request keeps the PDFs.
LEMMA WorkFiles ==
    ASSUME TypeInv, FileInv, NEW r \in Requests, Work(r)
    PROVE  FilesOwned'
<1> USE DEF Steps, BuySteps, ShipSteps, Shipping, Unwinding, Voiding, KeepingSteps,
            Tracking, Transitioning, Ended, OwningSteps
<1>0. /\ Fits(r, pc[r], mem[r]) /\ mem[r] \in Locals
      /\ r \in Buys <=> Job[r].kind = "buy"
      /\ None \notin Requests
  BY OrdersAssumption DEF TypeInv, TypeOK, LocalsOK, Buys
<1>k. ASSUME NEW p \in Steps, NEW m, Goto(r, p, m), m.filed = mem[r].filed, m.held = mem[r].held,
             UNCHANGED <<rows, files>>, KeepsFile(r, p, mem[r])
      PROVE  FilesOwned'
  <2>1. RowsPoint /\ KeepsFile(r, p, m)
    BY <1>k DEF RowsPoint, KeepsFile
  <2> QED BY <1>k, <2>1, FileGoto
<1>f. Fail(r) /\ UNCHANGED <<rows, files>>
        /\ pc[r] \notin Ended \cup {"waiting", "store"} \cup (Unwinding \ {"note"}) => FilesOwned'
  BY FileFail
<1>m. ASSUME NEW p \in Steps, NEW m, Goto(r, p, m), m.filed = mem[r].filed, pc[r] \notin Ended,
             files' = files, RowsPoint,
             Job[r].kind \in {"buy", "record"} =>
                p \notin OwningSteps /\ ~Owns(r) /\ pc[r] \notin KeepingSteps \cup {"undoLabel", "note"}
      PROVE  FilesOwned'
  BY <1>0, <1>m, FileGoto DEF KeepsFile, Fits
<1>1. CASE ReadStatus(r)
  <2> DEFINE m == [mem[r] EXCEPT !.seen = status[mem[r].order]]
  <2>1. m.held = mem[r].held /\ m.filed = mem[r].filed
    BY <1>0 DEF Locals
  <2>2. /\ Goto(r, "write", m) \/ Fail(r)
        /\ pc[r] = "read" /\ UNCHANGED <<rows, files>>
    BY <1>1 DEF ReadStatus
  <2> HIDE DEF m
  <2>3. KeepsFile(r, "write", mem[r])
    BY <2>2 DEF KeepsFile, Owns
  <2> QED BY <1>k, <1>f, <2>1, <2>2, <2>3
<1>2. CASE WriteStatus(r) \/ LogTransition(r)
  <2>1. /\ \/ Goto(r, "log", mem[r]) /\ pc[r] = "write"
           \/ Goto(r, "done", mem[r]) /\ pc[r] = "log"
        /\ UNCHANGED <<rows, files>>
    BY <1>2 DEF WriteStatus, LogTransition
  <2>2. /\ pc[r] = "write" => KeepsFile(r, "log", mem[r])
        /\ pc[r] = "log" => KeepsFile(r, "done", mem[r])
    BY DEF KeepsFile, Owns
  <2> QED BY <1>k, <2>1, <2>2
<1>3. CASE CheckStatus(r) \/ CheckFree(r) \/ PurchaseRefused(r) \/ ReconcileNothing(r)
  <2>1. /\ \/ Goto(r, "free", mem[r]) \/ Goto(r, "purchase", mem[r]) \/ Fail(r)
        /\ pc[r] \in {"status", "free", "purchase", "reconcile"} /\ UNCHANGED <<rows, files>>
    BY <1>3 DEF CheckStatus, CheckFree, PurchaseRefused, ReconcileNothing
  <2>2. KeepsFile(r, "free", mem[r]) /\ KeepsFile(r, "purchase", mem[r])
    BY <2>1 DEF KeepsFile, Owns
  <2> QED BY <1>k, <1>f, <2>1, <2>2
<1>4. CASE PurchaseAnswered(r) \/ PurchaseUnanswered(r) \/ ReconcileFound(r)
  <2>1. ASSUME NEW x, NEW y
        PROVE  /\ [mem[r] EXCEPT !.held = x].filed = mem[r].filed
               /\ [mem[r] EXCEPT !.held = x, !.failure = y].filed = mem[r].filed
               /\ [mem[r] EXCEPT !.failure = y].filed = mem[r].filed
    BY <1>0 DEF Locals
  <2>2. PICK m, p : /\ p \in {"store", "reconcile", "failed"}
                     /\ Goto(r, p, m) /\ m.filed = mem[r].filed
    <3>1. CASE PurchaseAnswered(r)
      BY <2>1, <3>1 DEF PurchaseAnswered
    <3>2. CASE PurchaseUnanswered(r)
      BY <2>1, <3>2 DEF PurchaseUnanswered
    <3>3. CASE ReconcileFound(r)
      <4>1. PICK l : Goto(r, "store", [mem[r] EXCEPT !.held = l, !.failure = None])
        BY <3>3 DEF ReconcileFound
      <4>2. [mem[r] EXCEPT !.held = l, !.failure = None].filed = mem[r].filed
        BY <1>0 DEF Locals
      <4> QED BY <4>1, <4>2, Zenon
    <3> QED BY <1>4, <3>1, <3>2, <3>3
  <2>3. pc[r] \in {"purchase", "reconcile"} /\ UNCHANGED <<rows, files>>
    BY <1>4 DEF PurchaseAnswered, PurchaseUnanswered, ReconcileFound
  <2>4. RowsPoint /\ ~Owns(r)
    BY <2>3 DEF RowsPoint, Owns
  <2> QED BY <1>m, <2>2, <2>3, <2>4
<1>5. CASE StoreLabelPdf(r)
  <2> DEFINE m == [mem[r] EXCEPT !.filed = TRUE]
  <2>1. pc[r] = "store" /\ rows' = rows /\ r \in Buys
    BY <1>0, <1>5 DEF StoreLabelPdf, Fits
  <2>2. CASE files' = files /\ Goto(r, "fulfil", mem[r])
    <3>1. KeepsFile(r, "fulfil", mem[r])
      BY <2>1 DEF KeepsFile, Owns
    <3> QED BY <1>k, <2>1, <2>2, <3>1
  <2>3. CASE files' = files \cup {r} /\ Goto(r, "fulfil", m)
    <3>1. m.held = mem[r].held /\ m.filed
      BY <1>0 DEF Locals
    <3>2. /\ pc' = [pc EXCEPT ![r] = "fulfil"] /\ mem' = [mem EXCEPT ![r] = m]
      BY <2>3 DEF Goto
    <3> HIDE DEF m
    <3>3. /\ pc'[r] = "fulfil" /\ mem'[r] = m
          /\ \A s \in Requests \ {r} : pc'[s] = pc[s] /\ mem'[s] = mem[s]
      BY <3>2 DEF TypeInv, TypeOK
    <3>4. ~Owns(r) /\ \A s \in Requests : Owns(s)' <=> Owns(s)
      BY <2>1, <3>3 DEF Owns
    <3>5. \A s \in Requests : Owns(s) => s # r
      BY <3>4
    <3>6. \A s \in Requests : Owns(s)' => rows'[mem'[s].held].file = FileOf(s)'
      BY <2>1, <3>3, <3>4, <3>5 DEF FileInv, FilesOwned, FileOf
    <3>7. \A t \in Trackings : rows'[t] # NoRow /\ rows'[t].file # None => PointsTo(t, rows[t].file)'
      <4>1. ASSUME NEW t \in Trackings, NEW f, PointsTo(t, f)
            PROVE  PointsTo(t, f)'
        <5>1. f \in Requests /\ f # r
          BY <2>1, <3>4, <4>1 DEF PointsTo, FileInv, FilesOwned, Buys
        <5> QED BY <2>3, <3>3, <3>4, <4>1, <5>1 DEF PointsTo
      <4>2. ASSUME NEW t \in Trackings, rows'[t] # NoRow, rows'[t].file # None
            PROVE  PointsTo(t, rows[t].file)'
        <5>1. PICK f : f = rows[t].file
          OBVIOUS
        <5>2. PointsTo(t, f) /\ f = rows'[t].file
          BY <2>1, <4>2, <5>1 DEF FileInv, FilesOwned
        <5> QED BY <4>1, <5>2
      <4> QED BY <4>2
    <3>8. \A f \in files' : \/ mem'[f].filed /\ pc'[f] \in KeepingSteps
                            \/ \E t \in Trackings : rows'[t] # NoRow /\ rows'[t].file = f
      BY <2>1, <2>3, <3>1, <3>3 DEF FileInv, FilesOwned, Buys
    <3>9. /\ files' \subseteq Buys
          /\ \A s \in Requests : mem'[s].filed /\ pc'[s] \notin {"undoLabel", "note"} => s \in files'
      BY <2>1, <2>3, <3>3 DEF FileInv, FilesOwned
    <3> QED BY <3>6, <3>7, <3>8, <3>9 DEF FilesOwned
  <2> QED BY <1>5, <2>2, <2>3 DEF StoreLabelPdf
<1>6. CASE CreateFulfilment(r)
  <2> DEFINE m == [mem[r] EXCEPT !.stock = reserved[mem[r].order]]
  <2>1. m.held = mem[r].held /\ m.filed = mem[r].filed
    BY <1>0 DEF Locals
  <2>2. (Goto(r, "ship", m) \/ Fail(r)) /\ pc[r] = "fulfil" /\ UNCHANGED <<rows, files>>
    BY <1>6 DEF CreateFulfilment
  <2> HIDE DEF m
  <2>3. KeepsFile(r, "ship", mem[r])
    BY <2>2 DEF KeepsFile, Owns
  <2> QED BY <1>k, <1>f, <2>1, <2>2, <2>3
<1>7. CASE CreateShipment(r)
  <2>1. (Goto(r, "insert", mem[r]) \/ Fail(r)) /\ pc[r] = "ship" /\ UNCHANGED <<rows, files>>
    BY <1>7 DEF CreateShipment
  <2>2. KeepsFile(r, "insert", mem[r])
    BY <2>1 DEF KeepsFile, Owns
  <2> QED BY <1>k, <1>f, <2>1, <2>2
<1>8. CASE InsertRow(r)
  <2>1. /\ pc[r] = "insert" /\ Job[r].kind \in {"buy", "record"} /\ mem[r].order \in Orders
        /\ mem[r].held \in Trackings /\ files' = files
    BY <1>0, <1>8, JobAssumption DEF InsertRow, Fits, Trackings
  <2>2. PICK t : t = mem[r].held
    OBVIOUS
  <2>3. PICK row : row = [order |-> mem[r].order, labelled |-> Job[r].kind = "buy",
                          file |-> IF mem[r].filed THEN r ELSE None,
                          voided |-> FALSE, void_approved |-> None,
                          tracking_status |-> "accepted", delivered |-> FALSE]
    OBVIOUS
  <2>4. CASE Fail(r) /\ UNCHANGED rows
    BY <1>f, <2>1, <2>4
  <2>5. CASE rows[t] = NoRow /\ rows' = [rows EXCEPT ![t] = row] /\ Goto(r, "read", mem[r])
    <3>1. row.order \in Orders /\ row.file = FileOf(r)
      BY <2>1, <2>3 DEF FileOf
    <3>2. row # NoRow
      BY <3>1, OrdersAssumption DEF NoRow
    <3>3. /\ rows'[t] = row /\ \A s \in Trackings \ {t} : rows'[s] = rows[s]
          /\ pc'[r] = "read" /\ mem' = mem
          /\ \A s \in Requests \ {r} : pc'[s] = pc[s]
      BY <2>1, <2>2, <2>5 DEF Goto, TypeInv, TypeOK
    <3>4. Owns(r)' /\ ~Owns(r) /\ \A s \in Requests \ {r} : Owns(s)' <=> Owns(s)
      BY <2>1, <3>3 DEF Owns
    <3>5. ASSUME NEW s \in Requests, Owns(s)'
          PROVE  rows'[mem'[s].held].file = FileOf(s)'
      <4>1. CASE s = r
        BY <2>2, <3>1, <3>3, <4>1 DEF FileOf
      <4>2. CASE s # r
        <5>1. Owns(s) /\ rows[mem[s].held] # NoRow /\ rows[mem[s].held].file = FileOf(s)
          BY <3>4, <3>5, <4>2 DEF FileInv, FilesOwned, RowsOwned
        <5>2. mem[s].held \in Trackings
          BY <5>1, JobAssumption DEF TypeInv, LocalsOK, Fits, Owns, Trackings
        <5> QED BY <2>5, <3>3, <5>1, <5>2 DEF FileOf
      <4> QED BY <4>1, <4>2
    <3>6. ASSUME NEW s \in Trackings, rows'[s] # NoRow, rows'[s].file # None
          PROVE  PointsTo(s, rows[s].file)'
      <4>1. CASE s = t
        <5>1. rows'[s].file = r /\ mem[r].filed
          BY <3>1, <3>3, <3>6, <4>1 DEF FileOf
        <5>2. r \in files'
          BY <2>1, <5>1 DEF FileInv, FilesOwned
        <5> QED BY <2>2, <3>3, <3>4, <4>1, <5>1, <5>2 DEF PointsTo
      <4>2. CASE s # t
        <5>1. PICK f : f = rows[s].file
          OBVIOUS
        <5>2. rows'[s].file = f /\ PointsTo(s, f)
          BY <3>3, <3>6, <4>2, <5>1 DEF FileInv, FilesOwned
        <5>3. f \in Requests /\ f # r
          BY <2>1, <3>4, <5>2 DEF PointsTo, FileInv, FilesOwned, Buys
        <5> QED BY <2>1, <3>3, <3>4, <5>2, <5>3 DEF PointsTo
      <4> QED BY <4>1, <4>2
    <3>7. ASSUME NEW f \in files
          PROVE  \/ mem'[f].filed /\ pc'[f] \in KeepingSteps
                 \/ \E s \in Trackings : rows'[s] # NoRow /\ rows'[s].file = f
      <4>1. CASE mem[f].filed /\ pc[f] \in KeepingSteps
        BY <3>3, <4>1 DEF FileInv, FilesOwned, Buys
      <4>2. CASE \E s \in Trackings : rows[s] # NoRow /\ rows[s].file = f
        BY <2>5, <3>3, <4>2
      <4> QED BY <4>1, <4>2 DEF FileInv, FilesOwned
    <3>8. \A s \in Requests : mem'[s].filed /\ pc'[s] \notin {"undoLabel", "note"} => s \in files'
      BY <2>1, <3>3 DEF FileInv, FilesOwned
    <3> QED BY <2>1, <3>5, <3>6, <3>7, <3>8 DEF FileInv, FilesOwned
  <2> QED BY <1>8, <2>2, <2>3, <2>4, <2>5 DEF InsertRow
<1>9. CASE UndoRow(r)
  <2>1. /\ pc[r] = "undoRow" /\ Job[r].kind \in {"buy", "record"} /\ Owns(r)
        /\ mem[r].held \in Trackings /\ files' = files
    BY <1>0, <1>9, JobAssumption DEF UndoRow, Fits, Trackings, Owns
  <2>2. PICK t : t = mem[r].held
    OBVIOUS
  <2>3. /\ rows'[t] = NoRow /\ \A s \in Trackings \ {t} : rows'[s] = rows[s]
        /\ pc'[r] = "undoFulfilment" /\ mem' = mem
        /\ \A s \in Requests \ {r} : pc'[s] = pc[s]
    BY <1>9, <2>1, <2>2 DEF UndoRow, Goto, TypeInv, TypeOK
  <2>4. ~Owns(r)' /\ \A s \in Requests \ {r} : Owns(s)' <=> Owns(s)
    BY <2>3 DEF Owns
  <2>5. ASSUME NEW s \in Requests, Owns(s)'
        PROVE  rows'[mem'[s].held].file = FileOf(s)'
    <3>1. s # r /\ Owns(s)
      BY <2>4, <2>5
    <3>2. mem[s].held # t /\ rows[mem[s].held].file = FileOf(s)
      BY <2>1, <2>2, <3>1 DEF FileInv, FilesOwned, RowsOwned
    <3>3. mem[s].held \in Trackings
      BY <3>1, JobAssumption DEF TypeInv, LocalsOK, Fits, Owns, Trackings
    <3> QED BY <2>3, <3>2, <3>3 DEF FileOf
  <2>6. ASSUME NEW s \in Trackings, rows'[s] # NoRow, rows'[s].file # None
        PROVE  PointsTo(s, rows[s].file)'
    <3>1. s # t
      BY <2>3, <2>6
    <3>2. PICK f : f = rows[s].file
      OBVIOUS
    <3>3. rows'[s].file = f /\ PointsTo(s, f)
      BY <2>3, <2>6, <3>1, <3>2 DEF FileInv, FilesOwned
    <3>4. f \in Requests /\ f # r
      BY <2>1, <2>2, <3>1, <3>3 DEF PointsTo, FileInv, FilesOwned, Buys
    <3> QED BY <2>1, <2>3, <2>4, <3>3, <3>4 DEF PointsTo
  <2>7. ASSUME NEW f \in files
        PROVE  \/ mem'[f].filed /\ pc'[f] \in KeepingSteps
               \/ \E s \in Trackings : rows'[s] # NoRow /\ rows'[s].file = f
    <3>0. f \in Requests
      BY DEF FileInv, FilesOwned, Buys
    <3>1. CASE mem[f].filed /\ pc[f] \in KeepingSteps
      BY <2>3, <3>0, <3>1
    <3>2. CASE \E s \in Trackings \ {t} : rows[s] # NoRow /\ rows[s].file = f
      BY <2>3, <3>2
    <3>3. CASE rows[t].file = f
      <4>1. f = r /\ mem[r].filed
        BY <1>0, <2>1, <2>2, <3>0, <3>3 DEF FileInv, FilesOwned, FileOf
      <4> QED BY <2>3, <4>1
    <3> QED BY <3>1, <3>2, <3>3 DEF FileInv, FilesOwned
  <2>8. \A s \in Requests : mem'[s].filed /\ pc'[s] \notin {"undoLabel", "note"} => s \in files'
    BY <2>1, <2>3 DEF FileInv, FilesOwned
  <2> QED BY <2>1, <2>5, <2>6, <2>7, <2>8 DEF FileInv, FilesOwned
<1>10. CASE UndoFulfilment(r)
  <2>1. /\ pc[r] = "undoFulfilment" /\ UNCHANGED <<rows, files>>
        /\ Goto(r, IF Job[r].kind = "buy" THEN "undoFile" ELSE "failed", mem[r])
    BY <1>10 DEF UndoFulfilment
  <2>2. KeepsFile(r, IF Job[r].kind = "buy" THEN "undoFile" ELSE "failed", mem[r])
    BY <2>1 DEF KeepsFile, Owns
  <2> QED BY <1>k, <2>1, <2>2
<1>11. CASE UndoFile(r)
  <2>1. /\ pc[r] = "undoFile" /\ files' = files \ {r} /\ rows' = rows
        /\ pc'[r] = "undoLabel" /\ mem' = mem
        /\ \A s \in Requests \ {r} : pc'[s] = pc[s]
    BY <1>11 DEF UndoFile, Goto, TypeInv, TypeOK
  <2>2. ~Owns(r) /\ \A s \in Requests : Owns(s)' <=> Owns(s)
    BY <2>1 DEF Owns
  <2>3. ASSUME NEW t \in Trackings, rows'[t] # NoRow, rows'[t].file # None
        PROVE  PointsTo(t, rows[t].file)'
    <3>1. PICK f : f = rows[t].file
      OBVIOUS
    <3>2. rows'[t].file = f /\ PointsTo(t, f)
      BY <2>1, <2>3, <3>1 DEF FileInv, FilesOwned
    <3>3. f \in Requests /\ f # r
      BY <2>1, <2>2, <3>2 DEF PointsTo, FileInv, FilesOwned, Buys
    <3> QED BY <2>1, <2>2, <3>2, <3>3 DEF PointsTo
  <2>4. \A s \in Requests : mem'[s].filed /\ pc'[s] \notin {"undoLabel", "note"} => s \in files'
    BY <2>1 DEF FileInv, FilesOwned
  <2>5. \A s \in Requests : Owns(s)' => rows'[mem'[s].held].file = FileOf(s)'
    BY <2>1, <2>2 DEF FileInv, FilesOwned, FileOf
  <2>6. \A f \in files' : \/ mem'[f].filed /\ pc'[f] \in KeepingSteps
                          \/ \E t \in Trackings : rows'[t] # NoRow /\ rows'[t].file = f
    BY <2>1 DEF FileInv, FilesOwned, Buys
  <2> QED BY <2>1, <2>3, <2>4, <2>5, <2>6 DEF FileInv, FilesOwned
<1>12. CASE UndoLabelApproved(r) \/ UndoLabelRefused(r) \/ NoteOrphan(r)
  <2>1. /\ Goto(r, "failed", mem[r]) \/ Goto(r, "note", mem[r])
        /\ pc[r] \in {"undoLabel", "note"} /\ UNCHANGED <<rows, files>>
    BY <1>12 DEF UndoLabelApproved, UndoLabelRefused, NoteOrphan
  <2>2. KeepsFile(r, "failed", mem[r]) /\ KeepsFile(r, "note", mem[r])
    BY <2>1 DEF KeepsFile, Owns
  <2> QED BY <1>k, <2>1, <2>2
<1>v. Job[r].kind \in {"void", "track"} => ~Owns(r)
  BY DEF Owns
<1>e. ASSUME NEW x, NEW y
      PROVE  /\ [mem[r] EXCEPT !.order = x].filed = mem[r].filed
             /\ [mem[r] EXCEPT !.held = x].filed = mem[r].filed
             /\ [mem[r] EXCEPT !.seen = x].filed = mem[r].filed
             /\ [mem[r] EXCEPT !.stock = x].filed = mem[r].filed
             /\ [mem[r] EXCEPT !.snapshot = x].filed = mem[r].filed
             /\ [mem[r] EXCEPT !.answer = x].filed = mem[r].filed
             /\ [mem[r] EXCEPT !.failure = x].filed = mem[r].filed
  BY <1>0 DEF Locals
<1>13. CASE \/ FindActive(r) \/ VoidApproved(r) \/ VoidRefused(r) \/ VoidUnanswered(r)
            \/ RestoreReservations(r) \/ CreateReservations(r) \/ UndoReservations(r)
  <2>1. /\ pc[r] \in {"find", "carrier", "restore", "reserve", "unreserve"}
        /\ UNCHANGED <<rows, files>>
    BY <1>13 DEF FindActive, VoidApproved, VoidRefused, VoidUnanswered, RestoreReservations,
       CreateReservations, UndoReservations
  <2>2. \/ Fail(r)
        \/ \E p \in {"carrier", "voidRow", "failed", "reserve", "read", "unvoid"} : \E m :
              Goto(r, p, m) /\ m.filed = mem[r].filed
    <3>1. CASE FindActive(r)
      BY <1>e, <3>1 DEF FindActive
    <3>2. CASE VoidApproved(r) \/ VoidRefused(r) \/ VoidUnanswered(r)
      BY <1>e, <3>2 DEF VoidApproved, VoidRefused, VoidUnanswered
    <3>3. CASE RestoreReservations(r)
      BY <1>e, <3>3 DEF RestoreReservations
    <3>4. CASE CreateReservations(r)
      BY <1>e, <3>4 DEF CreateReservations
    <3>5. CASE UndoReservations(r)
      BY <3>5 DEF UndoReservations
    <3> QED BY <1>13, <3>1, <3>2, <3>3, <3>4, <3>5
  <2>3. RowsPoint /\ Job[r].kind = "void"
    BY <1>0, <2>1 DEF RowsPoint, Fits
  <2> QED BY <1>f, <1>m, <1>v, <2>1, <2>2, <2>3
<1>14. CASE VoidRow(r)
  <2>1. pc[r] = "voidRow" /\ Job[r].kind = "void" /\ files' = files
    BY <1>0, <1>14 DEF VoidRow, Fits
  <2>2. CASE Fail(r) /\ UNCHANGED rows
    BY <1>f, <2>1, <2>2
  <2>3. CASE \E t \in Active(mem[r].order) :
                /\ rows' = [rows EXCEPT ![t].voided = TRUE, ![t].void_approved = mem[r].answer]
                /\ Goto(r, "restore", [mem[r] EXCEPT !.held = t])
    <3>1. PICK t \in Trackings :
             /\ rows[t] # NoRow
             /\ rows' = [rows EXCEPT ![t].voided = TRUE, ![t].void_approved = mem[r].answer]
             /\ Goto(r, "restore", [mem[r] EXCEPT !.held = t])
      BY <2>3 DEF Active, Recorded
    <3>2. mem[r].answer \in BOOLEAN \cup {None}
      BY <1>0 DEF Locals
    <3>3. RowsPoint
      BY <3>1, <3>2, RowPoints
    <3> QED BY <1>e, <1>m, <1>v, <2>1, <3>1, <3>3
  <2> QED BY <1>14, <2>2, <2>3 DEF VoidRow
<1>15. CASE UndoVoidRow(r)
  <2>1. /\ Goto(r, "failed", mem[r]) /\ Job[r].kind = "void" /\ files' = files /\ pc[r] = "unvoid"
        /\ mem[r].held \in Trackings \cup {None}
    BY <1>0, <1>15 DEF UndoVoidRow, Fits, Locals
  <2>2. RowsPoint
    <3>1. CASE rows' = rows
      BY <3>1 DEF RowsPoint
    <3>2. CASE mem[r].held \in Trackings /\ rows' # rows
      BY <1>15, <3>2, RowPoints DEF UndoVoidRow
    <3>3. CASE mem[r].held \notin Trackings
      BY <1>15, <3>3 DEF UndoVoidRow, RowsPoint, TypeInv, TypeOK
    <3> QED BY <2>1, <3>1, <3>2, <3>3
  <2> QED BY <1>m, <1>v, <2>1, <2>2
<1>16. CASE \/ ClaimEvent(r) \/ LookupShipment(r) \/ ReadContext(r) \/ SnapshotTracking(r)
            \/ MarkDelivered(r) \/ ReleaseEvent(r)
  <2>1. /\ pc[r] \in {"claim", "lookup", "context", "snapshot", "deliver", "release"}
        /\ UNCHANGED <<rows, files>>
    BY <1>16 DEF ClaimEvent, LookupShipment, ReadContext, SnapshotTracking, MarkDelivered, ReleaseEvent
  <2>2. \/ Fail(r)
        \/ \E p \in {"duplicate", "lookup", "dropped", "context", "snapshot", "apply", "read", "failed"} : \E m :
              Goto(r, p, m) /\ m.filed = mem[r].filed
    <3>1. CASE ClaimEvent(r) \/ MarkDelivered(r) \/ ReleaseEvent(r)
      <4>1. CASE ClaimEvent(r)
        BY <4>1 DEF ClaimEvent
      <4>2. CASE MarkDelivered(r)
        BY <4>2 DEF MarkDelivered
      <4>3. CASE ReleaseEvent(r)
        BY <4>3 DEF ReleaseEvent
      <4> QED BY <3>1, <4>1, <4>2, <4>3
    <3>2. CASE LookupShipment(r)
      <4>1. PICK x : x = rows[mem[r].held].order
        OBVIOUS
      <4>2. \/ Goto(r, "dropped", mem[r])
            \/ Goto(r, "context", [mem[r] EXCEPT !.order = x])
        BY <3>2, <4>1 DEF LookupShipment
      <4> QED BY <1>e, <4>2
    <3>3. CASE ReadContext(r)
      BY <1>e, <3>3 DEF ReadContext
    <3>4. CASE SnapshotTracking(r)
      <4>1. PICK x : Goto(r, "apply", [mem[r] EXCEPT !.snapshot = x])
        BY <3>4 DEF SnapshotTracking
      <4> QED BY <1>e, <4>1
    <3> QED BY <1>16, <3>1, <3>2, <3>3, <3>4
  <2>3. RowsPoint /\ Job[r].kind = "track"
    BY <1>0, <2>1 DEF RowsPoint, Fits
  <2> QED BY <1>f, <1>m, <1>v, <2>1, <2>2, <2>3
<1>17. CASE ApplyTrackingStatus(r)
  <2> DEFINE t == mem[r].held
             new == TrackingStatusFromShipStation(Job[r].arg.code)
             d == rows[t].delivered \/ new = "delivered"
  <2>1. pc[r] = "apply" /\ Job[r].kind = "track" /\ t \in Trackings /\ files' = files
    BY <1>0, <1>17, JobAssumption, EventsAssumption DEF ApplyTrackingStatus, Fits
  <2>2. new \in TrackingStatuses /\ d \in BOOLEAN
    BY DEF TrackingStatusFromShipStation, TrackingStatuses
  <2>3. \/ Fail(r) /\ rows' = rows
        \/ /\ rows[t] # NoRow
           /\ rows' = [rows EXCEPT ![t].tracking_status = new, ![t].delivered = d]
           /\ Goto(r, "deliver", mem[r]) \/ Goto(r, "done", mem[r])
    BY <1>17 DEF ApplyTrackingStatus
  <2> HIDE DEF t, new, d
  <2>4. CASE Fail(r) /\ rows' = rows
    BY <1>f, <2>1, <2>4
  <2>5. CASE /\ rows[t] # NoRow
             /\ rows' = [rows EXCEPT ![t].tracking_status = new, ![t].delivered = d]
             /\ Goto(r, "deliver", mem[r]) \/ Goto(r, "done", mem[r])
    <3>1. RowsPoint
      BY <2>1, <2>2, <2>5, RowPoints
    <3> QED BY <1>m, <1>v, <2>1, <2>5, <3>1
  <2> QED BY <2>3, <2>4, <2>5
<1>18. CASE UndoApply(r)
  <2>1. /\ pc[r] = "undoApply" /\ Job[r].kind = "track" /\ files' = files
        /\ mem[r].held \in Trackings /\ mem[r].snapshot \in Snapshots
        /\ Goto(r, "release", mem[r])
    BY <1>0, <1>18, JobAssumption, EventsAssumption DEF UndoApply, Fits, Locals
  <2>2. RowsPoint
    <3>1. CASE rows' = rows
      BY <3>1 DEF RowsPoint
    <3>2. CASE rows' # rows
      BY <1>18, <2>1, <3>2, RowPoints DEF UndoApply, Snapshots
    <3> QED BY <3>1, <3>2
  <2> QED BY <1>m, <1>v, <2>1, <2>2
<1> QED BY <1>1, <1>2, <1>3, <1>4, <1>5, <1>6, <1>7, <1>8, <1>9, <1>10, <1>11, <1>12,
           <1>13, <1>14, <1>15, <1>16, <1>17, <1>18 DEF Work

\* Every step keeps the PDFs.
LEMMA NextFiles ==
    ASSUME TypeInv, FileInv, [Next]_vars
    PROVE  FilesOwned'
<1>1. ASSUME NEW r \in Requests, Start(r) PROVE FilesOwned'
  <2> DEFINE p == FirstStep(Job[r].kind)
             m == [Blank EXCEPT
                     !.order = IF Job[r].kind = "track" THEN None ELSE Job[r].order,
                     !.held = CASE Job[r].kind = "track" -> Job[r].arg.tracking
                                [] Job[r].kind = "record" -> Job[r].arg
                                [] OTHER -> None]
  <2>1. Goto(r, p, m) /\ pc[r] = "waiting" /\ UNCHANGED <<rows, files>>
    BY <1>1 DEF Start
  <2>2. p \in Steps /\ (Job[r].kind \in {"buy", "record"} => p \notin OwningSteps)
    BY JobAssumption
       DEF FirstStep, Steps, Shipping, Voiding, Tracking, OwningSteps, Transitioning
  <2>3. ~m.filed
    BY DEF Blank
  <2> HIDE DEF p, m
  <2>4. /\ pc'[r] = p /\ (p \notin Ended => mem'[r] = m) /\ (p \in Ended => ~mem'[r].filed)
        /\ \A s \in Requests \ {r} : pc'[s] = pc[s] /\ mem'[s] = mem[s]
    BY <2>1 DEF Goto, TypeInv, TypeOK, Blank
  <2>5. ~mem'[r].filed
    BY <2>3, <2>4
  <2>6. \A s \in Requests : Owns(s)' <=> Owns(s)
    BY <2>1, <2>2, <2>4 DEF Owns, OwningSteps, Transitioning
  <2>7. ~Owns(r)
    BY <2>1 DEF Owns, OwningSteps, Transitioning
  <2>8. ASSUME NEW t \in Trackings, NEW f, PointsTo(t, f)
        PROVE  PointsTo(t, f)'
    <3>1. f \in Requests /\ f # r
      BY <2>1, <2>7, <2>8 DEF PointsTo, FileInv, FilesOwned, Buys
    <3> QED BY <2>1, <2>4, <2>6, <2>8, <3>1 DEF PointsTo
  <2>9. ASSUME NEW t \in Trackings, rows'[t] # NoRow, rows'[t].file # None
        PROVE  PointsTo(t, rows[t].file)'
    <3>1. PICK f : f = rows[t].file
      OBVIOUS
    <3>2. rows'[t].file = f /\ PointsTo(t, f)
      BY <2>1, <2>9, <3>1 DEF FileInv, FilesOwned
    <3> QED BY <2>8, <3>2
  <2>10. \A f \in files : f \in Requests /\ (pc[f] \in KeepingSteps => f # r)
    BY <2>1 DEF FileInv, FilesOwned, Buys, KeepingSteps, Shipping, Transitioning
  <2>11. \A f \in files' : \/ mem'[f].filed /\ pc'[f] \in KeepingSteps
                           \/ \E t \in Trackings : rows'[t] # NoRow /\ rows'[t].file = f
    BY <2>1, <2>4, <2>10 DEF FileInv, FilesOwned
  <2>12. \A s \in Requests : mem'[s].filed /\ pc'[s] \notin {"undoLabel", "note"} => s \in files'
    BY <2>1, <2>4, <2>5 DEF FileInv, FilesOwned
  <2>13. \A s \in Requests : Owns(s)' => rows'[mem'[s].held].file = FileOf(s)'
    BY <2>1, <2>4, <2>6, <2>7 DEF FileInv, FilesOwned, FileOf
  <2> QED BY <2>1, <2>9, <2>11, <2>12, <2>13 DEF FileInv, FilesOwned
<1>2. ASSUME NEW r \in Requests, StatementFails(r) PROVE FilesOwned'
  BY <1>2, FileFail DEF StatementFails, InFlight, Ended, Transitioning, Unwinding
<1>3. CASE Crash
  BY <1>3 DEF Crash, FileInv, FilesOwned, FileOf, PointsTo, Owns
<1>4. CASE UNCHANGED vars
  BY <1>4 DEF vars, FileInv, FilesOwned, FileOf, PointsTo, Owns
<1> QED BY <1>1, <1>2, <1>3, <1>4, WorkFiles DEF Next

(***************************************************************************)
(* Wherever a purchase stops or unwinds, the PDF its shipment points to is *)
(* in storage, and none is kept that no shipment and no purchase knows of. *)
(***************************************************************************)
THEOREM PdfsAccounted == Spec => []FilesAccounted
<1>1. Init => TypeInv /\ LabelInv /\ FilesOwned
  <2>1. Init => FilesOwned
    BY DEF Init, Blank, FilesOwned, Owns, OwningSteps, Transitioning
  <2>2. Init => LabelInv
    BY DEF Init, LabelInv, RowsOwned, OrphansReported, LabelAccounted, Owns,
       OwningSteps, Transitioning
  <2> QED BY <2>1, <2>2, InitTyped
<1>2. TypeInv /\ LabelInv /\ FilesOwned /\ [Next]_vars => (TypeInv /\ LabelInv /\ FilesOwned)'
  BY NextTyped, NextLabels, NextFiles DEF LabelInv, FileInv
<1>3. FilesOwned => FilesAccounted
  BY DEF FilesOwned, FilesAccounted, PointsTo, Recorded
<1> QED BY <1>1, <1>2, <1>3, PTL DEF Spec
================================================================================
