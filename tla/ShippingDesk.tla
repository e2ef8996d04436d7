------------------------------ MODULE ShippingDesk ------------------------------
(***************************************************************************)
(* The pages from which an order is shipped: the queue page, the order     *)
(* page, and on both the panel that quotes a parcel and buys its label.    *)
(*                                                                         *)
(* A page shows what its query last read; the panel is there while the     *)
(* page shows an order in packing, and keeps its draft and its rates only  *)
(* so long.  A refetch reads and arrives in two steps, and what it read    *)
(* may be overtaken by the answer of a request.  What the requests do to   *)
(* an order is Fulfilment's subject: here a purchase ships it and a void   *)
(* takes it back to packing, or they fail.  A tab has one request out at a *)
(* time.                                                                   *)
(*                                                                         *)
(* A parcel is one of Parcels, or TooBig for the carriers.                 *)
(* Bounds: MaxDeskSteps requests and edits.                                *)
(***************************************************************************)
EXTENDS Integers, FiniteSets

CONSTANTS
    Desks,          \* browser tabs
    PageOf,         \* which page each shows: "queue" or "order"
    Parcels, TooBig,
    NoParcel,
    MaxDeskSteps

ASSUME DeskAssumption ==
    /\ PageOf \in [Desks -> {"queue", "order"}]
    /\ TooBig \notin Parcels /\ NoParcel \notin Parcels \cup {TooBig}
    /\ MaxDeskSteps \in Nat

VARIABLES
    order,      \* its status
    weighed,    \* the parcel worked out from the products' sizes
    desk,       \* each tab: [view, read, chosen, panel, ask]
    bought,     \* history: the purchases asked for, [parcel, quoted]
    steps

deskVars == <<order, weighed, desk, bought, steps>>

Counted == steps < MaxDeskSteps /\ steps' = steps + 1

(***************************************************************************)
(* The parcel.                                                             *)
(***************************************************************************)
\* One box around the items, however big.
packItemsIntoOneBox == Parcels \cup {TooBig}

\* None at all unless every item has its weight and its sizes.
deriveParcel == packItemsIntoOneBox \cup {NoParcel}

\* What may be typed and sent: all four filled in, and within bounds.
parcelOverride(draft) == draft \in Parcels

ParseDraft(draft) == IF parcelOverride(draft) THEN draft ELSE NoParcel

NewPanel(derived) ==
    [draft |-> derived, derived |-> derived, rates |-> NoParcel, picked |-> FALSE, stale |-> FALSE,
     asked |-> FALSE]

NoPanel == [draft |-> NoParcel]

NoRequest == [kind |-> "none"]

(***************************************************************************)
(* The pages.                                                              *)
(***************************************************************************)
\* What the queries of the two pages read of the order.
QueueEntry == [status |-> order, derived |-> weighed]

Detail == [status |-> order, derived |-> NoParcel]

Reading(d) == IF PageOf[d] = "queue" THEN QueueEntry ELSE Detail

\* The panel of a page: it comes with the packing, on the queue page with the
\* order's being chosen too, and goes with them.
Following(d, page) ==
    IF page.view.status # "packing" \/ (PageOf[d] = "queue" /\ ~page.chosen) THEN NoPanel
    ELSE IF page.panel # NoPanel THEN page.panel
    ELSE NewPanel(page.view.derived)

Rendered(d, page) == [page EXCEPT !.panel = Following(d, page)]

Showing(d, detail) == Rendered(d, [desk[d] EXCEPT !.view = detail])

StartRead(d) ==
    /\ Counted
    /\ desk[d].read = NoRequest
    /\ desk' = [desk EXCEPT ![d].read = Reading(d)]
    /\ UNCHANGED <<order, weighed, bought>>

EndRead(d) ==
    /\ desk[d].read # NoRequest
    /\ desk' = [desk EXCEPT ![d] = [Showing(d, desk[d].read) EXCEPT !.read = NoRequest]]
    /\ UNCHANGED <<order, weighed, bought, steps>>

\* An order chosen in the queue.
Select(d) ==
    /\ Counted
    /\ PageOf[d] = "queue" /\ desk[d].view.status = "packing" /\ ~desk[d].chosen
    /\ desk' = [desk EXCEPT ![d] = Rendered(d, [@ EXCEPT !.chosen = TRUE])]
    /\ UNCHANGED <<order, weighed, bought>>

(***************************************************************************)
(* The panel.                                                              *)
(***************************************************************************)
Asks(d) == desk[d].ask.kind

\* Busy while its own request is out; a panel that has come since is not.
Busied(d) == desk[d].panel # NoPanel /\ desk[d].panel.asked

HasPanel(d) == desk[d].panel # NoPanel /\ ~Busied(d) /\ Asks(d) = "none"

DraftKeepingRates(p, draft) == [p EXCEPT !.draft = draft]

DraftChanged(p, draft) == [p EXCEPT !.draft = draft, !.rates = NoParcel, !.picked = FALSE, !.stale = FALSE]

EditDraft(d) ==
    /\ Counted /\ HasPanel(d)
    /\ \E draft \in Parcels \cup {NoParcel, desk[d].panel.derived} :
        desk' = [desk EXCEPT ![d].panel = DraftChanged(@, draft)]
    /\ UNCHANGED <<order, weighed, bought>>

\* POST rates: an override, or else what the products come to.
AskRates(d) ==
    /\ Counted /\ HasPanel(d)
    /\ LET override == ParseDraft(desk[d].panel.draft)
           parcel   == IF override # NoParcel THEN override ELSE weighed
       IN  desk' = [desk EXCEPT ![d].ask = [kind |-> "rates", parcel |-> parcel, derived |-> weighed],
                                ![d].panel.asked = TRUE]
    /\ UNCHANGED <<order, weighed, bought>>

Rated(p, r, offered) ==
    [p EXCEPT !.rates = IF offered THEN r.parcel ELSE NoParcel, !.derived = r.derived,
              !.draft = r.parcel, !.picked = offered, !.stale = FALSE]

\* The answer is for the panel that asked.
AnswerRates(d, panel) ==
    /\ Asks(d) = "rates"
    /\ desk' = [desk EXCEPT ![d].ask = NoRequest,
                            ![d].panel = IF Busied(d) THEN [panel EXCEPT !.asked = FALSE] ELSE @]
    /\ UNCHANGED <<order, weighed, bought, steps>>

\* Whether any of the carriers' rates is one that can be offered.
normalizeLiveRates == BOOLEAN

RatesArrive(d) ==
    /\ Asks(d) = "rates" /\ desk[d].ask.parcel # NoParcel
    /\ \E offered \in normalizeLiveRates :
         AnswerRates(d, Rated(desk[d].panel, desk[d].ask, offered))

\* No parcel to quote, no carrier, or the carrier's failure.
RatesFail(d) == AnswerRates(d, [desk[d].panel EXCEPT !.rates = NoParcel])

\* A render a quarter of an hour after the quote.
RatesAge(d) ==
    /\ desk[d].panel # NoPanel /\ desk[d].panel.rates # NoParcel /\ ~desk[d].panel.stale
    /\ desk' = [desk EXCEPT ![d].panel.stale = TRUE]
    /\ UNCHANGED <<order, weighed, bought, steps>>

CanBuy(d) ==
    LET p == desk[d].panel
    IN  HasPanel(d) /\ p.rates # NoParcel /\ p.picked /\ ~p.stale /\ ParseDraft(p.draft) # NoParcel

AskPurchase(d) ==
    /\ Counted /\ CanBuy(d)
    /\ bought' = bought \cup {[parcel |-> ParseDraft(desk[d].panel.draft), quoted |-> desk[d].panel.rates]}
    /\ desk' = [desk EXCEPT ![d].ask = [kind |-> "purchase"], ![d].panel.asked = TRUE]
    /\ UNCHANGED <<order, weighed>>

AskVoid(d) ==
    /\ Counted
    /\ PageOf[d] = "order" /\ desk[d].view.status = "shipped" /\ Asks(d) = "none"
    /\ desk' = [desk EXCEPT ![d].ask = [kind |-> "void"]]
    /\ UNCHANGED <<order, weighed, bought>>

(***************************************************************************)
(* The server, and its answers.  The order page is given the new detail;   *)
(* the queue is read again, and after a purchase nothing is chosen.        *)
(***************************************************************************)
ServePurchase(d) ==
    /\ Asks(d) = "purchase"
    /\ order = "packing" /\ order' = "shipped"
    /\ UNCHANGED <<weighed, bought, steps>>
    /\ desk' = [desk EXCEPT ![d].ask = [kind |-> "done", detail |-> Detail']]

ServeVoid(d) ==
    /\ Asks(d) = "void"
    /\ order = "shipped" /\ order' = "packing"
    /\ UNCHANGED <<weighed, bought, steps>>
    /\ desk' = [desk EXCEPT ![d].ask = [kind |-> "done", detail |-> Detail']]

\* Refused, failed, or the order is not in that status any more.
ServeRefusal(d) ==
    /\ Asks(d) \in {"purchase", "void"}
    /\ desk' = [desk EXCEPT ![d].ask = NoRequest,
                            ![d].panel = IF Busied(d) THEN [@ EXCEPT !.asked = FALSE] ELSE @]
    /\ UNCHANGED <<order, weighed, bought, steps>>

AnswerArrives(d) ==
    /\ Asks(d) = "done"
    /\ desk' = [desk EXCEPT ![d] =
         IF PageOf[d] = "queue"
         THEN [@ EXCEPT !.ask = NoRequest, !.chosen = FALSE, !.panel = NoPanel, !.read = Reading(d)]
         ELSE [Showing(d, @.ask.detail) EXCEPT !.ask = NoRequest]]
    /\ UNCHANGED <<order, weighed, bought, steps>>

\* The owner saves other weights and sizes on the products.
ChangeSizes ==
    /\ Counted
    /\ \E parcel \in deriveParcel \ {weighed} : weighed' = parcel
    /\ UNCHANGED <<order, desk, bought>>

(***************************************************************************)
(* The specification.                                                      *)
(***************************************************************************)
DeskInit ==
    /\ order = "packing"
    /\ weighed \in deriveParcel
    /\ desk = [d \in Desks |-> [view |-> Reading(d), read |-> NoRequest, ask |-> NoRequest, chosen |-> FALSE,
                 panel |-> IF PageOf[d] = "order" THEN NewPanel(NoParcel) ELSE NoPanel]]
    /\ bought = {} /\ steps = 0

DeskNext ==
    \/ \E d \in Desks :
        \/ StartRead(d) \/ EndRead(d) \/ Select(d)
        \/ EditDraft(d) \/ AskRates(d) \/ RatesArrive(d) \/ RatesFail(d) \/ RatesAge(d)
        \/ AskPurchase(d) \/ AskVoid(d)
        \/ ServePurchase(d) \/ ServeVoid(d) \/ ServeRefusal(d) \/ AnswerArrives(d)
    \/ ChangeSizes

DeskSpec == DeskInit /\ [][DeskNext]_deskVars

(***************************************************************************)
(* Properties.                                                             *)
(***************************************************************************)
\* A label is asked for the very parcel whose price the page shows: whatever
\* is typed while a quote is out, answered late, or quoted for the products'
\* sizes when the typed parcel is out of bounds (rate-and-buy-panel.tsx).
BuysWhatWasQuoted == \A b \in bought : b.parcel = b.quoted

================================================================================
