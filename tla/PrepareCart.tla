------------------------------ MODULE PrepareCart ------------------------------
(***************************************************************************)
(* The server's half of checkout: the signed quotes, the prepare-cart      *)
(* route with the Medusa cart, payment collection and payment session it   *)
(* works on, and the route that completes a cart.  Requests run beside     *)
(* each other; one step is what a request does between two awaits.         *)
(*                                                                         *)
(* An amount is the tuple of what it is computed from, so two amounts are  *)
(* equal exactly when everything that went into them is.  Medusa's         *)
(* workflows are external and modelled from what the route relies on: a    *)
(* refresh of a cart prices its ordinary lines anew, and when the total    *)
(* moved it updates the collection and drops its payment session.          *)
(*                                                                         *)
(* An address is as it was typed, up to the letter case that every key and *)
(* signature ignores: its country and postal code (a zip), its state and   *)
(* city (a town), and the rest (a street).  Signatures hold what was       *)
(* typed.  Trim takes the spaces off; a place is a zip and a town without  *)
(* them, and what Stripe taxes (external).                                 *)
(*                                                                         *)
(* Bounds: MaxRev changes of the catalogue, and MaxUpsets of those, calls  *)
(* that fail, edits and ticks of the clock together.                       *)
(***************************************************************************)
EXTENDS Naturals, Sequences

CONSTANTS
    Addresses,
    ZipOf, TownOf, StreetOf, Trim,  \* the parts of an address; a part trimmed
    Quantities, Sizes, Arts,        \* what a line may be; a size or None
    Unusable,                       \* the artwork the ledger does not vouch for
    Prepares, Completions,          \* requests the server runs at a time
    QuoteTtl,                       \* how long a signed quote is good
    RateChangeTolerated,            \* is the owner's new flat rate near the old
    MaxRev, MaxUpsets,
    None

(***************************************************************************)
(* What the values are: goods, prices, signed quotes, totals and orders.   *)
(***************************************************************************)
Goods == [qty : Quantities, size : Sizes \cup {None}, art : Arts]

Typed(a)       == <<ZipOf[a], TownOf[a]>>
Trimmed(typed) == <<Trim[typed[1]], Trim[typed[2]]>>
PlaceOf(a)     == Trimmed(Typed(a))

Zips        == {ZipOf[a] : a \in Addresses}
TypedPlaces == {Typed(a) : a \in Addresses}
Places      == {PlaceOf(a) : a \in Addresses}

Prices == Nat \X Quantities \X (Sizes \cup {None})

ShippingQuotes == [sig : Zips \X Quantities, amt : Nat, exp : Nat]

TaxQuotes == [sig : TypedPlaces \X Quantities \X Nat,
              amt : Prices \X Quantities \X Nat \X Places, exp : Nat]

Totals == Prices \X Quantities \X (Nat \cup {None}) \X Places

Orders == [addr : Addresses, goods : Goods, amount : Totals]

ASSUME CheckoutAssumption ==
    /\ QuoteTtl \in Nat /\ MaxRev \in Nat /\ MaxUpsets \in Nat
    /\ RateChangeTolerated \in BOOLEAN
    /\ Unusable \subseteq Arts
    /\ None \notin Addresses \cup Sizes \cup Prepares
    /\ None \notin ShippingQuotes /\ None \notin TaxQuotes
    /\ None \notin Totals /\ None \notin Orders

VARIABLES
    clock, rev,      \* the time; the revision of prices and flat rate
    carts,           \* Medusa's carts with their collection and order
    intents,         \* Stripe's payment intents; a client secret names one
    preps, comps,    \* requests in flight: next step and locals
    upsets           \* changes, failures, edits and ticks so far

serverVars == <<carts, intents, preps, comps>>

Upset == upsets < MaxUpsets /\ upsets' = upsets + 1

(***************************************************************************)
(* Prices and quotes.                                                      *)
(***************************************************************************)
\* resolveLinePrice: the variant's price in its tier, by area for a size.
UnitPrice(r, g) == <<r, g.qty, g.size>>

FlatRate(r) == r
WithinTolerance(a, b) == a = b \/ RateChangeTolerated

ShipSignature(addr, g)     == <<ZipOf[addr], g.qty>>
TaxSignature(addr, g, amt) == <<Typed(addr), g.qty, amt>>
PriceSignature(g)          == <<g.qty, g.size>>

ShippingQuote(addr, g) ==
    [sig |-> ShipSignature(addr, g), amt |-> FlatRate(rev), exp |-> clock + QuoteTtl]

TaxQuote(addr, g, ship) ==
    [sig |-> TaxSignature(addr, g, ship.amt),
     amt |-> <<UnitPrice(rev, g), g.qty, ship.amt, PlaceOf(addr)>>,
     exp |-> clock + QuoteTtl]

PriceQuote(g) ==
    [sig |-> PriceSignature(g), amt |-> UnitPrice(rev, g), exp |-> clock + QuoteTtl]

\* verifyShippingQuote, verifyTaxQuote, verifyPriceQuote: in time first.
Verify(quote, sig) ==
    CASE clock > quote.exp -> "expired"
      [] quote.sig # sig   -> "mismatch"
      [] OTHER             -> "valid"

(***************************************************************************)
(* Medusa.                                                                 *)
(***************************************************************************)
Total(c) == <<c.unit, c.goods.qty, c.ship, PlaceOf(c.addr)>>

\* A custom size keeps the price it was created with.
Repriced(c) ==
    IF c.goods.size = None THEN [c EXCEPT !.unit = UnitPrice(rev, c.goods)] ELSE c

TotalMoved(c) == c.coll # None /\ c.coll # Total(Repriced(c))

\* Stripe does not cancel a payment that has been made.
RefreshThrows(c) == TotalMoved(c) /\ c.secret # 0 /\ intents[c.secret].status = "captured"

Refreshed(c) ==
    LET p == Repriced(c)
    IN  IF TotalMoved(c) THEN [p EXCEPT !.coll = Total(p), !.secret = 0] ELSE p

Canceled(s) == [intents EXCEPT ![s].status = "canceled"]

IntentsAfterRefresh(c) ==
    IF TotalMoved(c) /\ c.secret # 0 THEN Canceled(c.secret) ELSE intents

NewCart(req, unit) ==
    [goods |-> req.goods, unit |-> unit, addr |-> req.addr, ship |-> None,
     coll |-> None, secret |-> 0, order |-> None, raced |-> FALSE]

(***************************************************************************)
(* Requests.                                                               *)
(***************************************************************************)
IdlePrepare == [stage |-> "idle"]
IdleComplete == [stage |-> "idle"]

\* old is a history mark: the page has sent another request since.
PostPrepare(r, req) ==
    /\ preps[r].stage = "idle"
    /\ preps' = [q \in Prepares |->
                    CASE q = r -> [stage |-> "lines", req |-> req, unit |-> None, cart |-> 0,
                                   seen |-> None, old |-> FALSE]
                      [] q # r /\ preps[q].stage = "idle" -> preps[q]
                      [] OTHER -> [preps[q] EXCEPT !.old = TRUE]]

PostComplete(k, c) ==
    /\ comps[k].stage = "idle"
    /\ comps' = [comps EXCEPT ![k] = [stage |-> "find", cart |-> c, out |-> None]]

To(r, stage) == [preps EXCEPT ![r].stage = stage]

Reply(r, out, secret) ==
    preps' = [preps EXCEPT ![r] = [stage |-> "done", out |-> out, cart |-> @.cart,
                                   secret |-> secret, old |-> @.old]]

Answer(r, out) == Reply(r, out, 0)

\* Both quotes are verified before anything is awaited.  Then the line's artwork
\* is asked of the ledger and a custom size is priced here: its token only
\* proves which line the shopper was quoted for.
QuotesHold(req) ==
    /\ Verify(req.ship, ShipSignature(req.addr, req.goods)) = "valid"
    /\ Verify(req.tax, TaxSignature(req.addr, req.goods, req.ship.amt)) = "valid"

PriceToken(req) ==
    CASE req.goods.size = None -> "valid"
      [] req.goods.size # None /\ req.token = None -> "missing"
      [] OTHER -> Verify(req.token, PriceSignature(req.goods))

PrepareLines(r) ==
    LET req == preps[r].req
    IN  /\ preps[r].stage = "lines"
        /\ CASE ~QuotesHold(req) -> Answer(r, "bad_quote")
             [] QuotesHold(req) /\ (req.goods.art \in Unusable \/ PriceToken(req) = "missing") ->
                    Answer(r, "refused")
             [] /\ QuotesHold(req)
                /\ req.goods.art \notin Unusable
                /\ PriceToken(req) \in {"expired", "mismatch"} ->
                    Answer(r, "requote")
             [] OTHER ->
                    preps' = [preps EXCEPT ![r].stage = "reuse",
                                           ![r].unit = UnitPrice(rev, req.goods)]
        /\ UNCHANGED <<clock, rev, carts, intents, comps, upsets>>

ReusableAtAnyQuantity(c, req, unit) ==
    /\ c.order = None
    /\ c.goods.art = req.goods.art /\ c.goods.size = req.goods.size
    /\ c.goods.size # None => c.unit = unit

\* Only an address may have changed since the cart was made.
Reusable(c, req, unit) ==
    /\ c.order = None
    /\ c.goods = req.goods
    /\ c.goods.size # None => c.unit = unit

PrepareReuse(r) ==
    LET req == preps[r].req
    IN  /\ preps[r].stage = "reuse"
        /\ preps' = [preps EXCEPT ![r].stage = "write",
                        ![r].cart = IF /\ req.cart # 0
                                       /\ Reusable(carts[req.cart], req, preps[r].unit)
                                    THEN req.cart ELSE 0]
        /\ UNCHANGED <<clock, rev, carts, intents, comps, upsets>>

\* raced is a history mark: a request the page had given up wrote to the cart,
\* or was still at work on it.
WorkingOn(r, c) == preps[r].stage \notin {"idle", "done"} /\ preps[r].cart = c

UpdateCart(r, c) ==
    LET raced == carts[c].raced \/ preps[r].old \/ \E q \in Prepares \ {r} : WorkingOn(q, c)
        moved == [carts[c] EXCEPT !.addr = preps[r].req.addr, !.raced = raced]
    IN  IF RefreshThrows(moved)
        THEN /\ Answer(r, "failed")
             /\ UNCHANGED <<carts, intents>>
        ELSE /\ carts' = [carts EXCEPT ![c] = Refreshed(moved)]
             /\ intents' = IntentsAfterRefresh(moved)
             /\ preps' = To(r, "method")

CreateCart(r) ==
    /\ carts' = Append(carts,
                    NewCart(preps[r].req,
                            IF preps[r].req.goods.size = None
                            THEN UnitPrice(rev, preps[r].req.goods)
                            ELSE preps[r].unit))
    /\ preps' = [preps EXCEPT ![r].stage = "method", ![r].cart = Len(carts) + 1]
    /\ UNCHANGED intents

PrepareWrite(r) ==
    /\ preps[r].stage = "write"
    /\ IF preps[r].cart # 0 THEN UpdateCart(r, preps[r].cart) ELSE CreateCart(r)
    /\ UNCHANGED <<clock, rev, comps, upsets>>

\* calculatePrice: the quote again, against the cart's own address; a flat
\* rate whose quote no longer fits is priced anew, near enough or not at all.
MethodAmount(c, quote) ==
    CASE Verify(quote, ShipSignature(c.addr, c.goods)) = "valid" -> quote.amt
      [] WithinTolerance(quote.amt, FlatRate(rev)) -> FlatRate(rev)
      [] OTHER -> None

PrepareMethod(r) ==
    LET c   == preps[r].cart
        amt == MethodAmount(carts[c], preps[r].req.ship)
        set == [carts[c] EXCEPT !.ship = amt]
    IN  /\ preps[r].stage = "method"
        /\ IF amt = None \/ RefreshThrows(set)
           THEN /\ Answer(r, "failed")
                /\ UNCHANGED <<carts, intents>>
           ELSE /\ carts' = [carts EXCEPT ![c] = Refreshed(set)]
                /\ intents' = IntentsAfterRefresh(set)
                /\ preps' = To(r, "read")
        /\ UNCHANGED <<clock, rev, comps, upsets>>

PrepareRead(r) ==
    LET c == carts[preps[r].cart]
    IN  /\ preps[r].stage = "read"
        /\ preps' = [preps EXCEPT ![r].stage = IF c.coll = None THEN "collect" ELSE "session",
                        ![r].seen = IF c.coll = Total(c) THEN c.secret ELSE 0]
        /\ UNCHANGED <<clock, rev, carts, intents, comps, upsets>>

\* A cart has one collection: a second is refused.
PrepareCollect(r) ==
    LET c == preps[r].cart
    IN  /\ preps[r].stage = "collect"
        /\ IF carts[c].coll # None
           THEN /\ Answer(r, "failed")
                /\ UNCHANGED carts
           ELSE /\ carts' = [carts EXCEPT ![c].coll = Total(carts[c])]
                /\ preps' = To(r, "session")
        /\ UNCHANGED <<clock, rev, intents, comps, upsets>>

CreateSession(r, c) ==
    LET old == carts[c].secret
        new == Len(intents) + 1
    IN  IF old # 0 /\ intents[old].status = "captured"
        THEN /\ Answer(r, "failed")
             /\ UNCHANGED <<carts, intents>>
        ELSE /\ intents' = Append(IF old # 0 THEN Canceled(old) ELSE intents,
                                  [cart |-> c, amount |-> carts[c].coll, status |-> "open"])
             /\ carts' = [carts EXCEPT ![c].secret = new]
             /\ Reply(r, "ready", new)

PrepareSession(r) ==
    /\ preps[r].stage = "session"
    /\ IF preps[r].seen # 0
       THEN /\ Reply(r, "ready", preps[r].seen)
            /\ UNCHANGED <<carts, intents>>
       ELSE CreateSession(r, preps[r].cart)
    /\ UNCHANGED <<clock, rev, comps, upsets>>

\* A query or a workflow throws; what the workflow had done it undoes.  To throw
\* at a step that would change nothing more is to throw at the one before.
PrepareFails(r) ==
    /\ preps[r].stage \in {"lines", "method", "collect", "session"}
    /\ Upset
    /\ Answer(r, "failed")
    /\ UNCHANGED <<clock, rev, carts, intents, comps>>

PrepareStep(r) ==
    \/ PrepareLines(r) \/ PrepareReuse(r) \/ PrepareWrite(r)
    \/ PrepareMethod(r) \/ PrepareRead(r) \/ PrepareCollect(r) \/ PrepareSession(r)

(***************************************************************************)
(* POST /store/checkout/complete.                                          *)
(***************************************************************************)
Ordered(c) == carts[c].order # None

Goto(k, stage) == [comps EXCEPT ![k].stage = stage]

Respond(k, out) == comps' = [comps EXCEPT ![k].stage = "done", ![k].out = out]

CompleteFind(k) ==
    /\ comps[k].stage = "find"
    /\ IF Ordered(comps[k].cart) THEN Respond(k, "order") ELSE comps' = Goto(k, "run")
    /\ UNCHANGED <<clock, rev, carts, intents, preps, upsets>>

\* completeCartWorkflow (external): an order from a cart whose session is paid.
Paid(c) == carts[c].secret # 0 /\ intents[carts[c].secret].status = "captured"

PlaceOrder(c) ==
    carts' = [carts EXCEPT ![c].order =
                [addr |-> carts[c].addr, goods |-> carts[c].goods, amount |-> Total(carts[c])]]

\* Of two that race, Medusa may answer the later with the order or throw.
CompleteRun(k) ==
    LET c == comps[k].cart
    IN  /\ comps[k].stage = "run"
        /\ \/ /\ ~Ordered(c) /\ Paid(c)
              /\ PlaceOrder(c)
              /\ comps' = Goto(k, "lookup")
           \/ /\ Ordered(c)
              /\ comps' = Goto(k, "lookup")
              /\ UNCHANGED carts
           \/ /\ Ordered(c) \/ ~Paid(c)
              /\ comps' = Goto(k, "again")
              /\ UNCHANGED carts
        /\ UNCHANGED <<clock, rev, intents, preps, upsets>>

\* The workflow fails, or the order is placed and reading it fails.
CompleteThrows(k) ==
    /\ comps[k].stage \in {"run", "lookup"}
    /\ Upset
    /\ comps' = Goto(k, "again")
    /\ UNCHANGED <<clock, rev, carts, intents, preps>>

CompleteLookup(k) ==
    /\ comps[k].stage = "lookup"
    /\ Respond(k, "order")
    /\ UNCHANGED <<clock, rev, carts, intents, preps, upsets>>

CompleteAgainUnasked(k) ==
    /\ comps[k].stage = "again"
    /\ Respond(k, "failed")
    /\ UNCHANGED <<clock, rev, carts, intents, preps, upsets>>

\* After a failure the order is looked for once more.
CompleteAgain(k) ==
    /\ comps[k].stage = "again"
    /\ Respond(k, IF Ordered(comps[k].cart) THEN "order" ELSE "failed")
    /\ UNCHANGED <<clock, rev, carts, intents, preps, upsets>>

CompleteStep(k) ==
    CompleteFind(k) \/ CompleteRun(k) \/ CompleteLookup(k) \/ CompleteAgain(k)

\* Medusa's Stripe webhook (external) completes a cart whose payment was made.
PaymentWebhook(c) ==
    /\ c \in DOMAIN carts /\ ~Ordered(c) /\ Paid(c)
    /\ PlaceOrder(c)
    /\ UNCHANGED <<clock, rev, intents, preps, comps, upsets>>

\* The owner changes prices and the flat rate.
Reprice ==
    /\ rev < MaxRev /\ Upset
    /\ rev' = rev + 1
    /\ UNCHANGED <<clock, carts, intents, preps, comps>>

ServerInit ==
    /\ clock = 0 /\ rev = 0 /\ upsets = 0
    /\ carts = <<>> /\ intents = <<>>
    /\ preps = [r \in Prepares |-> IdlePrepare]
    /\ comps = [k \in Completions |-> IdleComplete]

================================================================================
