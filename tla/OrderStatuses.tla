---------------------------- MODULE OrderStatuses ----------------------------
(***************************************************************************)
(* The order status graph and the carrier's tracking codes, as they stand  *)
(* in packages/types/src/order-status.ts.  Pure definitions: the modules   *)
(* with state EXTEND this one.                                             *)
(***************************************************************************)

Statuses == {"received", "packing", "in_production",
             "shipped", "delivered", "cancelled"}

Transitions ==
    [received      |-> {"packing", "cancelled"},
     packing       |-> {"in_production", "shipped", "cancelled"},
     in_production |-> {"packing", "shipped", "cancelled"},
     shipped       |-> {"delivered", "packing"},
     delivered     |-> {},
     cancelled     |-> {}]

CanTransition(from, to) == to \in Transitions[from]

\* Statuses nothing leaves, and those in which a parcel is with the carrier.
Terminal == {s \in Statuses : Transitions[s] = {}}
Sent     == {"shipped", "delivered"}

TrackingStatuses == {"accepted", "in_transit", "out_for_delivery",
                     "delivered", "exception", "unknown"}

\* The codes ShipStation sends; any other code reads "unknown".  "IT-out" is
\* IT with a description that says the parcel is out for delivery.
TrackingCodes == {"AC", "NY", "IT", "IT-out", "AT", "EX", "DE", "SP", "UN"}

RawTrackingCode(code) == code       \* the mistake of storing the code itself

TrackingStatusFromShipStation(code) ==
    CASE code = "AC"           -> "accepted"
      [] code \in {"NY", "IT"} -> "in_transit"
      [] code = "IT-out"       -> "out_for_delivery"
      [] code \in {"AT", "EX"} -> "exception"
      [] code \in {"DE", "SP"} -> "delivered"
      [] OTHER                 -> "unknown"
=============================================================================
