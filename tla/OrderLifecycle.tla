---------------------------- MODULE OrderLifecycle ----------------------------
(***************************************************************************)
(* What the fulfilment code promises of an order: a status that walks the  *)
(* graph, and a parcel that is with the carrier exactly while the status   *)
(* says so.  Every step is atomic here; Fulfilment, in which a step is     *)
(* many statements and calls, implements this specification as long as    *)
(* the requests on an order do not overlap and no statement fails.         *)
(***************************************************************************)
EXTENDS OrderStatuses

CONSTANTS Orders,       \* the orders
          Trackings     \* the tracking numbers a parcel can have

VARIABLES status,       \* status[o]: where order o stands
          parcels       \* parcels[o]: the parcels of o with the carrier

lifecycle == <<status, parcels>>

LifecycleTypeOK ==
    /\ status \in [Orders -> Statuses]
    /\ parcels \in [Orders -> SUBSET Trackings]

Init ==
    /\ status \in [Orders -> Statuses \ Sent]
    /\ parcels = [o \in Orders |-> {}]

\* A step along the graph that sends nothing and takes nothing back.
Advance(o) ==
    /\ status[o] # "shipped"
    /\ \E to \in Transitions[status[o]] \ Sent :
          status' = [status EXCEPT ![o] = to]
    /\ UNCHANGED parcels

\* A parcel is handed to the carrier.
Ship(o) ==
    /\ CanTransition(status[o], "shipped")
    /\ status' = [status EXCEPT ![o] = "shipped"]
    /\ \E t \in Trackings : parcels' = [parcels EXCEPT ![o] = {t}]

Deliver(o) ==
    /\ CanTransition(status[o], "delivered")
    /\ status' = [status EXCEPT ![o] = "delivered"]
    /\ UNCHANGED parcels

\* The shipment is voided: the order is being packed again.
Recall(o) ==
    /\ status[o] = "shipped"
    /\ status' = [status EXCEPT ![o] = "packing"]
    /\ parcels' = [parcels EXCEPT ![o] = {}]

Next == \E o \in Orders : Advance(o) \/ Ship(o) \/ Deliver(o) \/ Recall(o)

Spec == Init /\ [][Next]_lifecycle

(***************************************************************************)
(* An order has a parcel with the carrier exactly when its status says it  *)
(* was sent: buying a label and voiding it move both together.             *)
(***************************************************************************)
ParcelIffSent == \A o \in Orders : parcels[o] # {} <=> status[o] \in Sent

(***************************************************************************)
(* Nothing moves out of delivered and cancelled.                           *)
(***************************************************************************)
TerminalIsFinal ==
    [][\A o \in Orders : status[o] \in Terminal => status'[o] = status[o]]_lifecycle
=============================================================================
