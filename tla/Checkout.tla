------------------------------- MODULE Checkout -------------------------------
(***************************************************************************)
(* The shopper's half of checkout, one browser tab, composed with the      *)
(* server of PrepareCart.  The page keeps a draft and a line in local      *)
(* storage and quotes in session storage; three hooks ask for a shipping   *)
(* rate, then for tax, then for a payment session, each after a debounce,  *)
(* each dropping what it had asked when its key changes.  Dropping a       *)
(* request closes the browser's ear, not the server's run.                 *)
(*                                                                         *)
(* A step ends with React rendering and running the effects of the render  *)
(* (Render), which happens before the browser looks at the next event.     *)
(*                                                                         *)
(* Assumed of time: a tick is a good part of a quote's lifetime, so none   *)
(* passes while a debounce runs or a request travels (Tick), and timers    *)
(* that one render sets fire in the order of the hooks.  Bounds: edits,    *)
(* retries and reloads are among the MaxUpsets; MaxClock ticks, MaxEntries *)
(* cached quotes.                                                          *)
(***************************************************************************)
EXTENDS PrepareCart

CONSTANTS
    FirstGoods,           \* what may be in the cart when the page opens
    FirstAddress,         \* the address of the stored draft
    CacheTtl,             \* how long a cached rate or tax is used
    RefreshMargin,        \* how early a line's price quote is renewed
    BrowserBehind,        \* how far the browser's clock is behind the server's
    MaxEntries, MaxClock

Streets == {StreetOf[a] : a \in Addresses}

\* The keys of the three hooks.
ShippingKeys == {Trim[z] : z \in Zips} \X Quantities
TaxKeys      == Places \X Quantities \X (Sizes \cup {None})
PaymentKeys  == TaxQuotes \X Streets \X Quantities \X (Sizes \cup {None})

\* A quote is cached for 15 minutes and good for 30.
ASSUME PageAssumption ==
    /\ CacheTtl \in Nat /\ RefreshMargin \in Nat /\ BrowserBehind \in Nat
    /\ MaxEntries \in Nat \ {0} /\ MaxClock \in Nat
    /\ CacheTtl <= QuoteTtl
    /\ FirstAddress \in Addresses /\ FirstGoods \subseteq Goods
    /\ None \notin ShippingKeys /\ None \notin TaxKeys /\ None \notin PaymentKeys

VARIABLES
    page,       \* storage, the hooks' refs and state, what was last rendered
    submit      \* the run of handleSubmit

browserVars == <<page, submit>>
vars == <<clock, rev, upsets, serverVars, browserVars>>

(***************************************************************************)
(* The cached quotes of this session.                                      *)
(***************************************************************************)
Entries(cache, key) == {i \in DOMAIN cache : cache[i].key = key}

CachedOfAnyAge(cache, key) ==
    IF Entries(cache, key) # {} THEN cache[CHOOSE i \in Entries(cache, key) : TRUE].quote ELSE None

Cached(cache, key) ==
    IF \E i \in Entries(cache, key) : clock - cache[i].at <= CacheTtl
    THEN cache[CHOOSE i \in Entries(cache, key) : TRUE].quote
    ELSE None

Without(cache, key) ==
    IF Entries(cache, key) = {} THEN cache
    ELSE LET i == CHOOSE i \in Entries(cache, key) : TRUE
         IN  SubSeq(cache, 1, i - 1) \o SubSeq(cache, i + 1, Len(cache))

WriteCached(cache, key, quote) ==
    LET rest == Without(cache, key)
        over == IF Len(rest) >= MaxEntries THEN Len(rest) - MaxEntries + 1 ELSE 0
    IN  Append(SubSeq(rest, over + 1, Len(rest)), [key |-> key, quote |-> quote, at |-> clock])

(***************************************************************************)
(* What a render computes.                                                 *)
(***************************************************************************)
Idle == [active |-> None, phase |-> "none", asked |-> None, got |-> None, seen |-> None]

IdlePayment == [active |-> None, phase |-> "none", asked |-> None, got |-> None,
                forced |-> FALSE, run |-> None]

\* The keys are of what was typed without its spaces.
RateKey(addr, g) == <<Trim[ZipOf[addr]], g.qty>>

ShippingKey(p) ==
    IF p.draft.addr = None THEN None ELSE RateKey(p.draft.addr, p.line.goods)

TaxKeyOfAnyRate(p, shippingStatus) ==
    IF p.draft.ship # None
    THEN <<PlaceOf(p.draft.addr), p.line.goods.qty, p.line.goods.size>>
    ELSE None

\* The size is part of the key: every custom size is one variant.
TaxKey(p, shippingStatus) ==
    IF shippingStatus = "ready" /\ p.draft.ship # None
    THEN <<PlaceOf(p.draft.addr), p.line.goods.qty, p.line.goods.size>>
    ELSE None

PaymentKey(p, taxStatus) ==
    IF taxStatus = "ready" /\ p.draft.tax # None
    THEN <<p.draft.tax, StreetOf[p.draft.addr], p.line.goods.qty, p.line.goods.size>>
    ELSE None

Status(hook, key, cached) ==
    CASE key = None    -> "idle"
      [] key # None /\ cached # None -> "ready"
      [] key # None /\ cached = None /\ (hook.got = None \/ hook.got.key # key) -> "loading"
      [] OTHER -> hook.got.status

Hook(hook, key, cached) ==
    [key |-> key, cached |-> cached, status |-> Status(hook, key, cached)]

\* The hooks of a render, in order; each is the one member of its set.
ShippingHook(p)      == {Hook(p.ship, key, Cached(p.rates, key)) : key \in {ShippingKey(p)}}
TaxHook(p, ship)     == {Hook(p.tax, key, Cached(p.taxes, key)) : key \in {TaxKey(p, ship.status)}}
PaymentHook(p, tax)  == {Hook(p.pay, key, None) : key \in {PaymentKey(p, tax.status)}}

(***************************************************************************)
(* Effects.  A changed key drops what was asked under the old one.         *)
(***************************************************************************)
Dropped(hook)    == [hook EXCEPT !.active = None, !.phase = "none", !.asked = None]
Started(hook, key) == [hook EXCEPT !.active = key, !.phase = "timer", !.asked = None]

Effect(hook, h) ==
    CASE h.key = None -> Dropped(hook)
      [] h.key # None /\ h.cached # None -> [Dropped(hook) EXCEPT !.seen = h.key]
      [] h.key # None /\ h.cached = None /\ hook.active = h.key -> hook
      [] OTHER -> Started(hook, h.key)

\* A cached quote is put in the draft when its key becomes the current one.
Committed(hook, h, current) ==
    IF h.key # None /\ h.cached # None /\ hook.seen # h.key THEN h.cached ELSE current

PaymentEffectNotAborting(hook, key) ==
    IF hook.active # None /\ key # None THEN [hook EXCEPT !.active = key]
    ELSE IF key = None THEN hook ELSE [Started(hook, key) EXCEPT !.run = None, !.forced = FALSE]

PaymentEffect(hook, key) ==
    CASE hook.active = key -> hook
      [] hook.active # key /\ key = None -> [Dropped(hook) EXCEPT !.run = None]
      [] OTHER -> [Started(hook, key) EXCEPT !.run = None, !.forced = FALSE]

Effects(p, ship, tax, pay) ==
    [p EXCEPT !.ship = Effect(p.ship, ship),
              !.tax  = Effect(p.tax, tax),
              !.pay  = PaymentEffect(p.pay, pay.key),
              !.draft.ship = Committed(p.ship, ship, @),
              !.draft.tax  = Committed(p.tax, tax, @),
              !.view = [ship |-> ship.status, tax |-> tax.status, pay |-> pay.status,
                        secret |-> IF pay.status = "ready" THEN p.pay.got.secret ELSE 0]]

AfterEffects(p) ==
    UNION {UNION {{Effects(p, ship, tax, pay) : pay \in PaymentHook(p, tax)} :
                      tax \in TaxHook(p, ship)} : ship \in ShippingHook(p)}

\* A commit renders again: a rate's changes the tax key, a tax's the payment's.
Render(p) ==
    \E start \in {p} : \E first \in AfterEffects(start) :
        \E second \in AfterEffects(first) : page' \in AfterEffects(second)

(***************************************************************************)
(* What the shopper does.                                                  *)
(***************************************************************************)
Open == submit.stage # "ordered"

Edit == Open /\ Upset

QuietServer == UNCHANGED <<clock, rev, serverVars>>

ChangeAddress(a) ==
    /\ Edit /\ a # page.draft.addr
    /\ Render([page EXCEPT !.draft.addr = a])
    /\ UNCHANGED submit /\ QuietServer

\* setCartLineQuantity keeps the unit price and drops the quote.
ChangeQuantity(n) ==
    /\ Edit /\ n # page.line.goods.qty
    /\ Render([page EXCEPT !.line.goods.qty = n, !.line.token = None])
    /\ UNCHANGED submit /\ QuietServer

\* The page is left and opened again: storage stays, the hooks start over.
Remounted(p) == [p EXCEPT !.ship = Idle, !.tax = Idle, !.pay = IdlePayment]

QuotedLine(g) ==
    [goods |-> g, unit |-> UnitPrice(rev, g),
     token |-> IF g.size = None THEN None ELSE PriceQuote(g)]

\* updateCartLine, from the product page, with the quote shown there.
ChangeProduct(size, art) ==
    LET g == [page.line.goods EXCEPT !.size = size, !.art = art]
    IN  /\ Edit /\ g # page.line.goods
        /\ Render(Remounted([page EXCEPT !.line = QuotedLine(g)]))
        /\ submit' = [submit EXCEPT !.stage = "idle"]
        /\ QuietServer

Reload ==
    /\ Edit
    /\ Render(Remounted(page))
    /\ submit' = [submit EXCEPT !.stage = "idle"]
    /\ QuietServer

Retry ==
    /\ Edit
    /\ \/ page.view.tax = "error" /\ Render([page EXCEPT !.tax = Dropped(@)])
       \/ page.view.ship = "error" /\ Render([page EXCEPT !.ship = Dropped(@)])
       \/ page.view.pay \in {"error", "bad_quote"} /\ Render([page EXCEPT !.pay = [Dropped(@) EXCEPT !.run = None]])
    /\ UNCHANGED submit /\ QuietServer

(***************************************************************************)
(* The shipping rate and the tax.                                          *)
(***************************************************************************)
Loading(hook, input) ==
    [hook EXCEPT !.phase = "asked", !.asked = input,
                 !.got = [key |-> hook.active, status |-> "loading", secret |-> 0]]

FailedUnreported(hook) == [hook EXCEPT !.phase = "none", !.asked = None]

Failed(hook) ==
    [hook EXCEPT !.phase = "none", !.asked = None,
                 !.got = [key |-> hook.active, status |-> "error", secret |-> 0]]

Loaded(hook) ==
    [hook EXCEPT !.phase = "none", !.asked = None, !.seen = hook.active,
                 !.got = [key |-> hook.active, status |-> "ready", secret |-> 0]]

QuietPage == UNCHANGED <<submit, upsets>> /\ QuietServer

AskRate ==
    /\ page.ship.phase = "timer"
    /\ Render([page EXCEPT !.ship = Loading(@, [addr |-> page.draft.addr, goods |-> page.line.goods])])
    /\ QuietPage

RateArrives ==
    LET in    == page.ship.asked
        quote == ShippingQuote(in.addr, in.goods)
    IN  /\ page.ship.phase = "asked"
        /\ Render([page EXCEPT !.rates = WriteCached(@, page.ship.active, quote),
                               !.ship = Loaded(@), !.draft.ship = quote])
        /\ QuietPage

AskTax ==
    /\ page.tax.phase = "timer" /\ page.ship.phase # "timer"
    /\ Render([page EXCEPT !.tax = Loading(@, [addr |-> page.draft.addr, goods |-> page.line.goods,
                                               ship |-> page.draft.ship])])
    /\ QuietPage

\* POST /store/tax-quote takes the amount from the rate's token or refuses it.
TaxArrives ==
    LET in    == page.tax.asked
        quote == TaxQuote(in.addr, in.goods, in.ship)
    IN  /\ page.tax.phase = "asked"
        /\ IF Verify(in.ship, ShipSignature(in.addr, in.goods)) = "valid"
           THEN Render([page EXCEPT !.taxes = WriteCached(@, page.tax.active, quote),
                                    !.tax = Loaded(@), !.draft.tax = quote])
           ELSE Render([page EXCEPT !.tax = Failed(@)])
        /\ QuietPage

QuoteFails ==
    /\ Upset
    /\ \/ page.ship.phase = "asked" /\ Render([page EXCEPT !.ship = Failed(@)])
       \/ page.tax.phase = "asked" /\ Render([page EXCEPT !.tax = Failed(@)])
    /\ UNCHANGED <<submit, clock, rev, serverVars>>

(***************************************************************************)
(* The payment session.                                                    *)
(***************************************************************************)
NeedsFreshQuote(line) ==
    /\ line.goods.size # None
    /\ line.token = None \/ line.token.exp + BrowserBehind <= clock + RefreshMargin

Request(draft, line) ==
    [addr |-> draft.addr, goods |-> line.goods, token |-> line.token,
     ship |-> draft.ship, tax |-> draft.tax, cart |-> draft.cart]

\* A run whose answer nobody waits for has its place taken when it is done.
Room == \E r \in Prepares : preps[r].stage = "idle"
Free == CHOOSE r \in Prepares : preps[r].stage = "idle"

Post(p, draft, line, forced) ==
    /\ Room
    /\ PostPrepare(Free, Request(draft, line))
    /\ Render([p EXCEPT !.pay.run = Free, !.pay.forced = forced, !.pay.phase = "asked",
                        !.pay.asked = [draft |-> draft, line |-> line]])

\* A rate or a tax is about to be asked for: what the draft has is of before.
QuoteDue == "timer" \in {page.ship.phase, page.tax.phase}

PreparePayment ==
    LET loading == [page EXCEPT !.pay = Loading(@, [draft |-> page.draft, line |-> page.line])]
    IN  /\ page.pay.phase = "timer" /\ ~QuoteDue
        /\ IF NeedsFreshQuote(page.line)
           THEN /\ Render([loading EXCEPT !.pay.phase = "requote", !.pay.forced = FALSE])
                /\ UNCHANGED preps
           ELSE Post(loading, page.draft, page.line, FALSE)
        /\ UNCHANGED <<submit, clock, rev, upsets, carts, intents, comps>>

\* setCartLineQuote: only onto the line that was quoted.
WithQuote(line, asked, quote) ==
    IF line.goods.qty = asked.goods.qty /\ line.goods.size = asked.goods.size
    THEN [line EXCEPT !.token = quote, !.unit = quote.amt]
    ELSE line

QuoteRenewed ==
    LET in    == page.pay.asked
        quote == PriceQuote(in.line.goods)
        fresh == [in.line EXCEPT !.token = quote, !.unit = quote.amt]
    IN  /\ page.pay.phase = "requote"
        /\ Post([page EXCEPT !.line = WithQuote(@, in.line, quote)],
                in.draft, fresh, page.pay.forced)
        /\ UNCHANGED <<submit, clock, rev, upsets, carts, intents, comps>>

\* The price cannot be had, or an answer is lost on its way: "Try again".
PaymentFails ==
    /\ Upset
    /\ page.pay.phase \in {"requote", "asked"}
    /\ Render([page EXCEPT !.pay = [Failed(@) EXCEPT !.run = None]])
    /\ UNCHANGED <<submit, clock, rev, serverVars>>

Ready(hook, secret) ==
    [hook EXCEPT !.phase = "none", !.asked = None, !.run = None,
                 !.got = [key |-> hook.active, status |-> "ready", secret |-> secret]]

\* Refused lines are listed with links to edit them, the rest can be retried.
PaymentError(out) ==
    CASE out \in {"refused", "requote"} -> "refused"
      [] out = "bad_quote"              -> "bad_quote"
      [] OTHER                          -> "error"

\* An expired or mismatched price is asked for again, once.
PaymentArrives ==
    LET r    == page.pay.run
        done == preps[r]
    IN  /\ page.pay.phase = "asked"
        /\ done.stage = "done"
        /\ preps' = [preps EXCEPT ![r] = IdlePrepare]
        /\ CASE done.out = "ready" ->
                    Render([page EXCEPT !.pay = Ready(@, done.secret),
                                        !.draft.cart = done.cart])
             [] done.out = "requote" /\ ~page.pay.forced ->
                    Render([page EXCEPT !.pay.phase = "requote", !.pay.forced = TRUE,
                                        !.pay.run = None])
             [] OTHER ->
                    Render([page EXCEPT !.pay = [Failed(@) EXCEPT !.run = None,
                                !.got.status = PaymentError(done.out)]])
        /\ UNCHANGED <<submit, clock, rev, upsets, carts, intents, comps>>

Unheard(r) == preps[r].stage # "idle" /\ page.pay.run # r

DropAnswer(r) ==
    /\ Unheard(r) /\ preps[r].stage = "done"
    /\ preps' = [preps EXCEPT ![r] = IdlePrepare]
    /\ UNCHANGED <<clock, rev, upsets, carts, intents, comps, browserVars>>

(***************************************************************************)
(* handleSubmit.                                                           *)
(***************************************************************************)
Shown == <<page.line.unit, page.line.goods.qty, page.draft.ship.amt, page.draft.tax.amt>>

NotSubmitted == [stage |-> "idle", cart |-> 0, secret |-> 0, run |-> None,
                 goods |-> None, shown |-> None]

\* The cart is the one of the render the button was pressed in.
Pay ==
    /\ submit.stage = "idle"
    /\ page.view.pay = "ready" /\ page.draft.cart # 0
    /\ submit' = [stage |-> "confirming", cart |-> page.draft.cart, secret |-> page.view.secret,
                  run |-> None, goods |-> page.line.goods, shown |-> Shown]
    /\ UNCHANGED <<page, upsets>> /\ QuietServer

\* Stripe takes the money of an open intent, and of no other.
Capture ==
    /\ submit.stage = "confirming" /\ intents[submit.secret].status = "open"
    /\ intents' = [intents EXCEPT ![submit.secret].status = "captured"]
    /\ submit' = [submit EXCEPT !.stage = "paid"]
    /\ UNCHANGED <<page, clock, rev, upsets, carts, preps, comps>>

Decline ==
    /\ submit.stage = "confirming"
    /\ \/ intents[submit.secret].status # "open" /\ UNCHANGED upsets
       \/ Upset
    /\ submit' = [submit EXCEPT !.stage = "idle"]
    /\ UNCHANGED <<page, clock, rev, serverVars>>

AskOrder ==
    /\ submit.stage = "paid"
    /\ \E k \in Completions :
          /\ PostComplete(k, submit.cart)
          /\ submit' = [submit EXCEPT !.stage = "completing", !.run = k]
    /\ UNCHANGED <<page, clock, rev, upsets, carts, intents, preps>>

\* Success clears cart and draft and leaves the page.
OrderArrives ==
    LET k == submit.run
    IN  /\ submit.stage = "completing" /\ comps[k].stage = "done"
        /\ comps' = [comps EXCEPT ![k] = IdleComplete]
        /\ IF comps[k].out = "order"
           THEN /\ page' = [page EXCEPT !.draft = [addr |-> None, ship |-> None, tax |-> None,
                                                   cart |-> 0],
                                        !.ship = Idle, !.tax = Idle, !.pay = IdlePayment,
                                        !.view = [ship |-> "idle", tax |-> "idle",
                                                  pay |-> "idle", secret |-> 0]]
                /\ submit' = [submit EXCEPT !.stage = "ordered", !.run = None]
           ELSE /\ submit' = [submit EXCEPT !.stage = "idle", !.run = None]
                /\ UNCHANGED page
        /\ UNCHANGED <<clock, rev, upsets, carts, intents, preps>>

OrderAnswerLost ==
    /\ Upset
    /\ submit.stage = "completing"
    /\ submit' = [submit EXCEPT !.stage = "idle", !.run = None]
    /\ UNCHANGED <<page, clock, rev, serverVars>>

DropOrder(k) ==
    /\ comps[k].stage = "done" /\ ~(submit.stage = "completing" /\ submit.run = k)
    /\ comps' = [comps EXCEPT ![k] = IdleComplete]
    /\ UNCHANGED <<clock, rev, upsets, carts, intents, preps, browserVars>>

(***************************************************************************)
(* The whole.                                                              *)
(***************************************************************************)
Tick ==
    /\ clock < MaxClock /\ Upset
    /\ page.ship.phase = "none" /\ page.tax.phase = "none" /\ page.pay.phase = "none"
    /\ \A r \in Prepares : preps[r].stage \in {"idle", "done"}
    /\ clock' = clock + 1
    /\ UNCHANGED <<rev, serverVars, browserVars>>

Init ==
    /\ ServerInit
    /\ \E g \in FirstGoods :
          page = [draft |-> [addr |-> FirstAddress, ship |-> None, tax |-> None, cart |-> 0],
                  line |-> QuotedLine(g), rates |-> <<>>, taxes |-> <<>>,
                  ship |-> Started(Idle, RateKey(FirstAddress, g)),
                  tax |-> Idle, pay |-> IdlePayment,
                  view |-> [ship |-> "loading", tax |-> "idle", pay |-> "idle", secret |-> 0]]
    /\ submit = NotSubmitted

Shopper ==
    \/ \E a \in Addresses : ChangeAddress(a)
    \/ \E n \in Quantities : ChangeQuantity(n)
    \/ \E size \in Sizes \cup {None}, art \in Arts : ChangeProduct(size, art)
    \/ Reload \/ Retry \/ Pay

Quotes == AskRate \/ RateArrives \/ AskTax \/ TaxArrives \/ QuoteFails

Payment ==
    \/ PreparePayment \/ QuoteRenewed \/ PaymentArrives \/ PaymentFails
    \/ Capture \/ Decline \/ AskOrder \/ OrderArrives \/ OrderAnswerLost

Server ==
    \/ \E r \in Prepares : PrepareStep(r) \/ PrepareFails(r)
    \/ \E k \in Completions : CompleteStep(k) \/ CompleteThrows(k)
    \/ \E c \in DOMAIN carts : PaymentWebhook(c)
    \/ Reprice

Next ==
    \/ Shopper \/ Quotes \/ Payment \/ Tick
    \/ Server /\ UNCHANGED browserVars
    \/ \E r \in Prepares : DropAnswer(r)
    \/ \E k \in Completions : DropOrder(k)

Spec == Init /\ [][Next]_vars

\* Timers fire, requests are answered and the server finishes what it began.
Progress ==
    \/ AskRate \/ RateArrives \/ AskTax \/ TaxArrives
    \/ PreparePayment \/ QuoteRenewed \/ PaymentArrives
    \/ \E r \in Prepares : DropAnswer(r) \/ (PrepareStep(r) /\ UNCHANGED browserVars)

Fairness == WF_vars(Progress)

FairSpec == Spec /\ Fairness

(***************************************************************************)
(* Properties.                                                             *)
(***************************************************************************)

Overtaken(c) == carts[c].raced \/ \E r \in Prepares : Unheard(r) /\ WorkingOn(r, c)

SameButForSpaces(a, b) == PlaceOf(a) = PlaceOf(b) /\ StreetOf[a] = StreetOf[b]

\* While the page shows the payment form, the Medusa cart it will complete
\* holds the very line the page shows, artwork included.  Unless an older
\* request of the page is or was at work on the same cart, it has a live session
\* of the cart's whole total and, but for the debounce of a new quote, the
\* address the page shows, up to spaces typed since.
ReadyIsPrepared ==
    page.view.pay = "ready" =>
        /\ page.draft.cart # 0
        /\ LET c == carts[page.draft.cart]
           IN  /\ c.goods = page.line.goods
               /\ ~Overtaken(page.draft.cart) =>
                     /\ ~QuoteDue => SameButForSpaces(c.addr, page.draft.addr)
                     /\ c.secret = page.view.secret
                     /\ intents[c.secret].status # "canceled"
                     /\ intents[c.secret].amount = Total(c)

\* What a quote was asked for, as a key of the page has it.
RateFits(quote, addr, g) == <<Trim[quote.sig[1]], quote.sig[2]>> = RateKey(addr, g)
TaxFits(quote, addr, g)  == <<Trimmed(quote.sig[1]), quote.sig[2]>> = <<PlaceOf(addr), g.qty>>

\* The server turns the rate and the tax of a request down only when the owner
\* changed the flat rate between the two, or spaces were typed since they were
\* asked for, which the keys ignore and the signatures do not.  The keys of the
\* hooks, the caches' lifetime and the order of the hooks keep the page from
\* sending quotes that are late or of another quantity or place, also in a
\* request it has given up since.
QuotesRefusedForCause ==
    [][\A r \in Prepares :
        preps[r].stage = "lines" /\ preps'[r].stage = "done" /\ preps'[r].out = "bad_quote" =>
            LET req == preps[r].req
            IN  /\ clock <= req.ship.exp /\ clock <= req.tax.exp
                /\ RateFits(req.ship, req.addr, req.goods)
                /\ TaxFits(req.tax, req.addr, req.goods)
                /\ \/ req.tax.sig[3] # req.ship.amt
                   \/ req.ship.sig[1] # ZipOf[req.addr]
                   \/ req.tax.sig[1] # Typed(req.addr)]_vars

\* A tax is asked for only with a rate in time, of that quantity and, but for
\* spaces typed since, of that country and postal code.
TaxAskedWithItsRate ==
    page.tax.phase = "asked" =>
        LET in == page.tax.asked
        IN  clock <= in.ship.exp /\ RateFits(in.ship, in.addr, in.goods)

\* A completion is answered as failed only where no order was made of the
\* cart, whoever made it: a second request, the webhook, or the very workflow
\* whose answer could not be read.
FailedMeansNoOrder ==
    [][\A k \in Completions :
        comps[k].stage # "done" /\ comps'[k].stage = "done" /\ comps'[k].out = "failed"
            => ~Ordered(comps[k].cart)]_vars

\* The order made of a cart is what the shopper saw when pressing Pay, for the
\* amount Stripe took; the address may only be one the page sent later or late.
OrderIsAsSubmitted ==
    \A c \in DOMAIN carts :
        carts[c].order # None /\ submit.cart = c =>
            /\ carts[c].order.goods = submit.goods
            /\ carts[c].order.amount = intents[submit.secret].amount

\* The page never loads forever.
LoadingEnds ==
    []<>("loading" \notin {page.view.ship, page.view.tax, page.view.pay})

\* "so a shopper cannot be shown one number and charged another"
\* (apps/medusa/src/lib/resolve-line-price.ts): what Stripe took is what the
\* Pay button said.
ShownIsCharged ==
    submit.stage \in {"paid", "completing", "ordered"} =>
        <<submit.shown[1], submit.shown[2], submit.shown[3]>> =
        <<intents[submit.secret].amount[1], intents[submit.secret].amount[2],
          intents[submit.secret].amount[3]>>

================================================================================
