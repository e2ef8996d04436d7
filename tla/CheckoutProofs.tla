----------------------------- MODULE CheckoutProofs -----------------------------
(***************************************************************************)
(* What holds at checkout for any addresses, goods, numbers of requests    *)
(* and lifetimes: the page's hooks and caches by themselves, the carts and *)
(* payment intents of the server by themselves, and what the page knows of *)
(* the request it listens to and of the session it shows; and, beside it,  *)
(* what every request carries until its quotes are verified.               *)
(***************************************************************************)
EXTENDS Checkout, TLAPS

(***************************************************************************)
(* The page.  p is a page that is rendered, or about to be; t is the time. *)
(***************************************************************************)
DraftShaped(d) ==
    /\ DOMAIN d = {"addr", "ship", "tax", "cart"}
    /\ d.addr \in Addresses \cup {None} /\ d.ship \in ShippingQuotes \cup {None}
    /\ d.tax \in TaxQuotes \cup {None} /\ d.cart \in Nat

LineShaped(l) ==
    /\ DOMAIN l = {"goods", "unit", "token"}
    /\ l.goods \in Goods

HookShaped(h) ==
    /\ DOMAIN h = {"active", "phase", "asked", "got", "seen"}
    /\ h.phase \in {"none", "timer", "asked"}
    /\ h.phase # "none" => h.active # None
    /\ h.phase = "asked" => h.got.key = h.active /\ h.got.status = "loading"

PayShaped(h) ==
    /\ DOMAIN h = {"active", "phase", "asked", "got", "forced", "run"}
    /\ h.phase \in {"none", "timer", "requote", "asked"}
    /\ h.active \in PaymentKeys \cup {None}
    /\ h.phase # "none" => h.active # None
    /\ h.phase \in {"requote", "asked"} => h.got.key = h.active /\ h.got.status = "loading"
    /\ h.run \in Prepares \cup {None}
    /\ h.run # None <=> h.phase = "asked"

PageShaped(p) ==
    /\ DOMAIN p = {"draft", "line", "rates", "taxes", "ship", "tax", "pay", "view"}
    /\ DraftShaped(p.draft) /\ LineShaped(p.line)
    /\ HookShaped(p.ship) /\ HookShaped(p.tax) /\ PayShaped(p.pay)
    /\ p.ship.active \in ShippingKeys \cup {None} /\ p.ship.seen \in ShippingKeys \cup {None}
    /\ p.tax.active \in TaxKeys \cup {None} /\ p.tax.seen \in TaxKeys \cup {None}

\* What a signature is of, as the page's keys have it: without its spaces, and
\* of a tax without the amount.
OfRate(s) == <<Trim[s[1]], s[2]>>
OfTax(s)  == <<Trimmed(s[1]), s[2]>>

\* The place and the quantity that a key of a tax is of.
Of(key) == <<key[1], key[2]>>

\* What is cached is a quote for its key, good for its time from when it was
\* cached; a key is cached once.
CacheOf(K, Q) == Seq([key : K, quote : Q, at : Nat])

OneEach(cache) == \A i, j \in DOMAIN cache : cache[i].key = cache[j].key => i = j

RatesSound(cache) ==
    /\ cache \in CacheOf(ShippingKeys, ShippingQuotes) /\ OneEach(cache)
    /\ \A i \in DOMAIN cache :
          /\ OfRate(cache[i].quote.sig) = cache[i].key
          /\ cache[i].quote.exp = cache[i].at + QuoteTtl

TaxesSound(cache) ==
    /\ cache \in CacheOf(TaxKeys, TaxQuotes) /\ OneEach(cache)
    /\ \A i \in DOMAIN cache :
          /\ OfTax(cache[i].quote.sig) = Of(cache[i].key)
          /\ cache[i].quote.exp = cache[i].at + QuoteTtl

\* The draft has the quote of the key seen last, the cached one if it is cached.
SeenRate(p) ==
    p.ship.seen # None =>
        /\ p.draft.ship # None /\ OfRate(p.draft.ship.sig) = p.ship.seen
        /\ \A i \in Entries(p.rates, p.ship.seen) : p.rates[i].quote = p.draft.ship

SeenTax(p) ==
    p.tax.seen # None =>
        /\ p.draft.tax # None /\ OfTax(p.draft.tax.sig) = Of(p.tax.seen)
        /\ \A i \in Entries(p.taxes, p.tax.seen) : p.taxes[i].quote = p.draft.tax

\* What the hooks have asked for is of their keys.
AskedRate(h) ==
    h.phase = "asked" =>
        /\ h.asked.addr \in Addresses /\ h.asked.goods \in Goods
        /\ RateKey(h.asked.addr, h.asked.goods) = h.active

AskedTax(h) ==
    h.phase = "asked" =>
        /\ h.asked.addr \in Addresses /\ h.asked.goods \in Goods
        /\ h.asked.ship \in ShippingQuotes
        /\ RateFits(h.asked.ship, h.asked.addr, h.asked.goods)
        /\ h.active = <<PlaceOf(h.asked.addr), h.asked.goods.qty, h.asked.goods.size>>

\* What a payment was asked for: the page's own line but for its quote, and
\* quotes that fit it.
Asked(p) == p.pay.phase \in {"requote", "asked"}

AskedPayment(p) ==
    Asked(p) =>
        LET d == p.pay.asked.draft
            l == p.pay.asked.line
        IN  /\ DraftShaped(d) /\ d.addr # None /\ d.ship # None /\ d.tax # None
            /\ LineShaped(l)
            /\ p.pay.active = <<d.tax, StreetOf[d.addr], l.goods.qty, l.goods.size>>
            /\ l.goods.art = p.line.goods.art /\ d.cart = p.draft.cart
            /\ RateFits(d.ship, d.addr, l.goods) /\ TaxFits(d.tax, d.addr, l.goods)

Sound(p) ==
    /\ PageShaped(p) /\ RatesSound(p.rates) /\ TaxesSound(p.taxes)
    /\ SeenRate(p) /\ SeenTax(p)
    /\ AskedRate(p.ship) /\ AskedTax(p.tax) /\ AskedPayment(p)

Got(p, status) == p.pay.got # None /\ p.pay.got.status = status

\* What was asked with, a tax or a payment, was in time.
RateInTime(p, t) == p.tax.phase = "asked" => t <= p.tax.asked.ship.exp

AskedInTime(p, t) ==
    Asked(p) => t <= p.pay.asked.draft.ship.exp /\ t <= p.pay.asked.draft.tax.exp

(***************************************************************************)
(* A rendered page shows what its hooks come to: but for a debounce, its   *)
(* rate and its tax are those of its keys, and in time while a tax or a    *)
(* payment is asked for with them.                                         *)
(***************************************************************************)
KeyOfTax(p) == <<PlaceOf(p.draft.addr), p.line.goods.qty, p.line.goods.size>>

KeyOfPayment(p) == <<p.draft.tax, StreetOf[p.draft.addr], p.line.goods.qty, p.line.goods.size>>

\* A hook that waits for nothing has failed.
Failing(h) == h.phase = "none" /\ h.active # None => h.got.key = h.active /\ h.got.status = "error"

ShipShown(p) ==
    /\ Failing(p.ship)
    /\ p.ship.active # None => p.ship.active = ShippingKey(p)
    /\ p.view.ship = "ready" => p.draft.addr # None
    /\ p.view.ship = "ready" /\ p.ship.phase # "timer" => p.ship.seen = ShippingKey(p)

TaxShown(p) ==
    /\ Failing(p.tax)
    /\ p.tax.active # None => p.view.ship = "ready" /\ p.tax.active = KeyOfTax(p)
    /\ p.view.tax = "ready" => p.view.ship = "ready"
    /\ p.view.tax = "ready" /\ p.tax.phase # "timer" => p.tax.seen = KeyOfTax(p)

PayShown(p) ==
    /\ p.pay.active # None => /\ p.view.tax = "ready" /\ p.draft.tax # None
                              /\ p.pay.active = KeyOfPayment(p)
    /\ p.view.pay # "idle" => p.pay.active # None
    /\ p.view.pay \notin {"idle", "loading"} =>
          /\ p.pay.got.key = p.pay.active /\ Got(p, p.view.pay)
          /\ p.view.pay = "ready" => p.view.secret = p.pay.got.secret

Due(p) == "timer" \in {p.ship.phase, p.tax.phase}

InTime(p, t) ==
    /\ p.tax.phase # "none" /\ p.ship.phase # "timer" => t <= p.draft.ship.exp
    /\ p.pay.phase # "none" /\ ~Due(p) => t <= p.draft.ship.exp /\ t <= p.draft.tax.exp

PageInv(p, t) ==
    /\ Sound(p) /\ RateInTime(p, t) /\ AskedInTime(p, t)
    /\ ShipShown(p) /\ TaxShown(p) /\ PayShown(p) /\ InTime(p, t)

(***************************************************************************)
(* The server: carts cs, intents is, runs ps of prepare-cart, ks of        *)
(* complete.                                                               *)
(***************************************************************************)
Carts == [goods : Goods, unit : Prices, addr : Addresses, ship : Nat \cup {None},
          coll : Totals \cup {None}, secret : Nat, order : Orders \cup {None}, raced : BOOLEAN]

Intents == [cart : Nat, amount : Totals, status : {"open", "captured", "canceled"}]

\* A collection is of the cart's total; the cart's session is the one intent of
\* it that is not canceled, for that total; an order was made of what was paid.
CartSound(c, cs, is) ==
    /\ cs[c].coll # None => cs[c].coll = Total(cs[c])
    /\ cs[c].secret # 0 =>
          /\ cs[c].secret \in DOMAIN is /\ is[cs[c].secret].cart = c
          /\ cs[c].coll # None /\ is[cs[c].secret].amount = cs[c].coll
          /\ is[cs[c].secret].status # "canceled"
    /\ cs[c].order # None =>
          /\ cs[c].secret # 0 /\ is[cs[c].secret].status = "captured"
          /\ cs[c].order.goods = cs[c].goods /\ cs[c].order.amount = cs[c].coll

IntentSound(s, cs, is) ==
    /\ is[s].cart \in DOMAIN cs
    /\ is[s].status # "canceled" => cs[is[s].cart].secret = s

ServerSound(cs, is) ==
    /\ cs \in Seq(Carts) /\ is \in Seq(Intents)
    /\ \A c \in DOMAIN cs : CartSound(c, cs, is)
    /\ \A s \in DOMAIN is : IntentSound(s, cs, is)

\* A request at work on a cart works on one of its own goods.
AtCart == {"method", "read", "collect", "session"}

Asking(x, cs, is) ==
    /\ x.stage \in {"lines", "reuse", "write"} \cup AtCart
    /\ DOMAIN x = {"stage", "req", "unit", "cart", "seen", "old"}
    /\ x.req.addr \in Addresses /\ x.req.goods \in Goods
    /\ x.req.ship \in ShippingQuotes /\ x.req.tax \in TaxQuotes
    /\ x.req.cart \in 0..Len(cs)
    /\ x.stage # "lines" => x.unit \in Prices
    /\ x.cart \in 0..Len(cs)
    /\ x.stage \in {"lines", "reuse"} => x.cart = 0
    /\ x.stage \in AtCart => x.cart # 0
    /\ x.cart # 0 => cs[x.cart].goods = x.req.goods
    /\ x.stage = "collect" => x.seen = 0
    /\ x.stage = "session" =>
          /\ cs[x.cart].coll # None
          /\ x.seen # 0 => x.seen \in DOMAIN is /\ is[x.seen].cart = x.cart
    /\ x.old \in BOOLEAN

Succeeded(x) == x.stage = "done" /\ x.out = "ready"

Answered(x, cs, is) ==
    /\ x.stage = "done" /\ DOMAIN x = {"stage", "out", "cart", "secret", "old"}
    /\ x.out = "ready" => /\ x.cart \in DOMAIN cs /\ x.secret \in DOMAIN is
                          /\ is[x.secret].cart = x.cart
    /\ x.old \in BOOLEAN

RunShaped(x, cs, is) == x = IdlePrepare \/ Asking(x, cs, is) \/ Answered(x, cs, is)

RunsShaped(ps, cs, is) ==
    /\ DOMAIN ps = Prepares
    /\ \A r \in Prepares : RunShaped(ps[r], cs, is)

CompsShaped(ks, cs) ==
    /\ DOMAIN ks = Completions
    /\ \A k \in Completions :
          \/ ks[k] = IdleComplete
          \/ /\ DOMAIN ks[k] = {"stage", "cart", "out"}
             /\ ks[k].stage # "idle" /\ ks[k].cart \in DOMAIN cs

(***************************************************************************)
(* What the page knows of the server.                                      *)
(***************************************************************************)
\* At most about to write to the cart, and then it marks it.
Aside(x, c) == x.stage \in {"idle", "done", "write"} \/ x.cart # c

\* The request the page listens to is of what was asked, and unless another one
\* interfered the cart is as it left it.
HeardCart(x, d, cs) ==
    (x.stage \in AtCart \/ Succeeded(x)) /\ ~cs[x.cart].raced =>
        /\ cs[x.cart].addr = d.addr
        /\ x.stage = "session" /\ x.seen # 0 => cs[x.cart].secret = x.seen
        /\ Succeeded(x) => cs[x.cart].secret = x.secret

HeardRun(x, d, l, cs) ==
    /\ x.stage # "idle"
    /\ x.stage # "done" => /\ x.req.addr = d.addr /\ x.req.goods = l.goods
                           /\ x.req.ship = d.ship /\ x.req.tax = d.tax
    /\ Succeeded(x) => cs[x.cart].goods = l.goods
    /\ HeardCart(x, d, cs)

\* While the request is at its cart, and after, no other is.
OthersAside(r, x, ps, cs) ==
    (x.stage \in AtCart \/ Succeeded(x)) /\ ~cs[x.cart].raced =>
        \A q \in Prepares \ {r} : Aside(ps[q], x.cart)

Heard(p, ps, cs) ==
    p.pay.run # None =>
        /\ HeardRun(ps[p.pay.run], p.pay.asked.draft, p.pay.asked.line, cs)
        /\ OthersAside(p.pay.run, ps[p.pay.run], ps, cs)

\* The session the page has got is of its line, and unless another request
\* interfered it is the cart's.
GotHolds(p, ps, cs, is) ==
    Got(p, "ready") =>
        LET c   == p.draft.cart
            key == p.pay.got.key
            s   == p.pay.got.secret
        IN  /\ key \in PaymentKeys
            /\ c \in DOMAIN cs
            /\ s \in DOMAIN is /\ is[s].cart = c
            /\ cs[c].goods = [qty |-> key[3], size |-> key[4], art |-> p.line.goods.art]
            /\ ~cs[c].raced =>
                  /\ PlaceOf(cs[c].addr) = Trimmed(key[1].sig[1]) /\ StreetOf[cs[c].addr] = key[2]
                  /\ cs[c].secret = s
                  /\ \A q \in Prepares : Aside(ps[q], c)

\* All but the last request the page sent are marked as old.
OthersOld(p, ps) ==
    p.pay.run # None \/ Got(p, "ready") =>
        \A q \in Prepares \ {p.pay.run} : ps[q].stage # "idle" => ps[q].old

\* What was, or may yet be, paid for a cart is the session the page has of it.
Held(s, is, secret) ==
    /\ s \in DOMAIN is /\ is[s].status # "canceled"
    /\ is[s].status = "captured" \/ s = secret

HeldIsHeard(s, x, is) ==
    x.stage \notin {"idle", "lines", "reuse"} /\ x.cart = is[s].cart =>
        /\ x.stage = "session" /\ x.seen # 0 => x.seen = s
        /\ Succeeded(x) => x.secret = s

HeldIsGot(p, ps, is, secret) ==
    \A s \in DOMAIN is : Held(s, is, secret) =>
        /\ Got(p, "ready") /\ p.draft.cart = is[s].cart => p.pay.got.secret = s
        /\ p.pay.run # None => HeldIsHeard(s, ps[p.pay.run], is)

Links(p, ps, cs, is, secret) ==
    /\ p.draft.cart \in 0..Len(cs)
    /\ Heard(p, ps, cs) /\ GotHolds(p, ps, cs, is) /\ OthersOld(p, ps)
    /\ HeldIsGot(p, ps, is, secret)

SubmitHolds(sub, cs, is) ==
    /\ DOMAIN sub = {"stage", "cart", "secret", "run", "goods", "shown"}
    /\ sub.cart = 0 => sub.stage \in {"idle", "ordered"} /\ sub.secret = 0
    /\ sub.cart # 0 =>
          /\ sub.cart \in DOMAIN cs /\ cs[sub.cart].goods = sub.goods
          /\ sub.secret \in DOMAIN is /\ is[sub.secret].cart = sub.cart
    /\ \A s \in DOMAIN is :
          is[s].status = "captured" /\ is[s].cart = sub.cart => s = sub.secret

CheckoutInv ==
    /\ clock \in Nat /\ rev \in Nat
    /\ PageInv(page, clock)
    /\ ServerSound(carts, intents)
    /\ RunsShaped(preps, carts, intents) /\ CompsShaped(comps, carts)
    /\ Links(page, preps, carts, intents, submit.secret)
    /\ SubmitHolds(submit, carts, intents)

(***************************************************************************)
(* The cached quotes.                                                      *)
(***************************************************************************)
\* Taking a key's entry out leaves the others in their order.
LEMMA WithoutIs ==
  ASSUME NEW S, NEW cache \in Seq(S), OneEach(cache), NEW key
  PROVE  LET rest == Without(cache, key)
         IN  /\ rest \in Seq(S) /\ OneEach(rest)
             /\ \A i \in DOMAIN rest :
                   rest[i].key # key /\ \E j \in DOMAIN cache : rest[i] = cache[j]
<1> DEFINE rest == Without(cache, key)
<1>1. CASE Entries(cache, key) = {}
  BY <1>1 DEF Without, Entries
<1>2. CASE Entries(cache, key) # {}
  <2> DEFINE k == CHOOSE i \in Entries(cache, key) : TRUE
  <2>1. k \in DOMAIN cache /\ cache[k].key = key
    BY <1>2 DEF Entries
  <2>2. rest = SubSeq(cache, 1, k - 1) \o SubSeq(cache, k + 1, Len(cache))
    BY <1>2 DEF Without
  <2>3. /\ SubSeq(cache, 1, k - 1) \in Seq(S) /\ SubSeq(cache, k + 1, Len(cache)) \in Seq(S)
        /\ Len(SubSeq(cache, 1, k - 1)) = k - 1
        /\ Len(SubSeq(cache, k + 1, Len(cache))) = Len(cache) - k
        /\ \A i \in 1..(k - 1) : SubSeq(cache, 1, k - 1)[i] = cache[i]
        /\ \A i \in 1..(Len(cache) - k) : SubSeq(cache, k + 1, Len(cache))[i] = cache[k + i]
    <3> HIDE DEF k
    <3> QED  BY <2>1
  <2> DEFINE Old(i) == IF i < k THEN i ELSE i + 1
  <2>4. /\ rest \in Seq(S) /\ Len(rest) = Len(cache) - 1
        /\ \A i \in DOMAIN rest : rest[i] = cache[Old(i)] /\ Old(i) \in DOMAIN cache /\ Old(i) # k
    <3> DEFINE a == SubSeq(cache, 1, k - 1)
               b == SubSeq(cache, k + 1, Len(cache))
    <3> HIDE DEF k, rest, a, b
    <3>1. /\ a \in Seq(S) /\ b \in Seq(S) /\ Len(a) = k - 1 /\ Len(b) = Len(cache) - k
          /\ \A i \in 1..(k - 1) : a[i] = cache[i]
          /\ \A i \in 1..(Len(cache) - k) : b[i] = cache[k + i]
      BY <2>3 DEF a, b
    <3>2. rest = a \o b
      BY <2>2 DEF a, b
    <3>3. rest \in Seq(S) /\ Len(rest) = Len(cache) - 1 /\ DOMAIN rest = 1..(Len(cache) - 1)
      BY <2>1, <3>1, <3>2
    <3>4. ASSUME NEW i \in 1..(Len(cache) - 1)
          PROVE  rest[i] = cache[Old(i)] /\ Old(i) \in DOMAIN cache /\ Old(i) # k
      <4>1. CASE i < k
        BY <2>1, <3>1, <3>2, <4>1
      <4>2. CASE ~(i < k)
        <5>1. i - Len(a) \in 1..(Len(cache) - k) /\ k + (i - Len(a)) = i + 1
          BY <2>1, <3>1, <4>2
        <5>2. i \in 1..(Len(a) + Len(b)) /\ i > Len(a)
          BY <2>1, <3>1, <4>2
        <5>3. rest[i] = b[i - Len(a)]
          BY ONLY <3>1, <3>2, <5>2, a \in Seq(S), b \in Seq(S)
        <5> QED  BY <2>1, <3>1, <4>2, <5>1, <5>3
      <4> QED  BY <4>1, <4>2
    <3> QED  BY <3>3, <3>4
  <2>5. \A i \in DOMAIN rest : rest[i].key # key
    <3> HIDE DEF k, rest
    <3> QED  BY <2>1, <2>4 DEF OneEach
  <2>6. OneEach(rest)
    <3> SUFFICES ASSUME NEW i \in DOMAIN rest, NEW j \in DOMAIN rest, rest[i].key = rest[j].key
                 PROVE  i = j
      BY DEF OneEach
    <3> HIDE DEF k, rest
    <3>1. Old(i) = Old(j)
      BY <2>4 DEF OneEach
    <3> QED  BY <2>1, <2>4, <3>1
  <2> QED  BY <2>4, <2>5, <2>6
<1> QED  BY <1>1, <1>2

\* What is written is in the cache, once, and last; the rest was there before.
LEMMA WriteIs ==
  ASSUME NEW S, NEW cache \in Seq(S), OneEach(cache), NEW key, NEW quote,
         [key |-> key, quote |-> quote, at |-> clock] \in S,
         MaxEntries \in Nat \ {0}
  PROVE  LET w == WriteCached(cache, key, quote)
         IN  /\ w \in Seq(S) /\ OneEach(w)
             /\ Len(w) \in DOMAIN w /\ w[Len(w)] = [key |-> key, quote |-> quote, at |-> clock]
             /\ \A i \in DOMAIN w : \/ i = Len(w)
                                    \/ w[i].key # key /\ \E j \in DOMAIN cache : w[i] = cache[j]
<1> DEFINE rest == Without(cache, key)
           over == IF Len(rest) >= MaxEntries THEN Len(rest) - MaxEntries + 1 ELSE 0
           kept == SubSeq(rest, over + 1, Len(rest))
           e    == [key |-> key, quote |-> quote, at |-> clock]
           w    == Append(kept, e)
<1>1. WriteCached(cache, key, quote) = w
  BY DEF WriteCached
<1>2. /\ rest \in Seq(S) /\ OneEach(rest)
      /\ \A i \in DOMAIN rest :
            rest[i].key # key /\ \E j \in DOMAIN cache : rest[i] = cache[j]
  BY WithoutIs
<1> HIDE DEF rest
<1>3. over \in 0..Len(rest)
  BY <1>2
<1> HIDE DEF over
<1>4. /\ kept \in Seq(S) /\ Len(kept) = Len(rest) - over
      /\ \A i \in DOMAIN kept : kept[i] = rest[over + i] /\ over + i \in DOMAIN rest
  BY <1>2, <1>3
<1> HIDE DEF kept
<1>5. e.key = key /\ e \in S
  OBVIOUS
<1>6. /\ w \in Seq(S) /\ Len(w) = Len(kept) + 1 /\ w[Len(w)] = e
      /\ \A i \in DOMAIN w : i # Len(w) => i \in DOMAIN kept /\ w[i] = kept[i]
  <2> HIDE DEF e
  <2> QED  BY <1>4, <1>5
<1>7. Len(w) \in DOMAIN w
  BY <1>4, <1>6
<1>8. \A i \in DOMAIN w : \/ i = Len(w)
                          \/ w[i].key # key /\ \E j \in DOMAIN cache : w[i] = cache[j]
  BY <1>2, <1>4, <1>6
<1>9. OneEach(w)
  <2> SUFFICES ASSUME NEW i \in DOMAIN w, NEW j \in DOMAIN w, w[i].key = w[j].key
               PROVE  i = j
    BY DEF OneEach
  <2>1. CASE i = Len(w) \/ j = Len(w)
    BY <1>5, <1>6, <1>8, <2>1
  <2>2. CASE i # Len(w) /\ j # Len(w)
    <3>1. i \in DOMAIN kept /\ j \in DOMAIN kept /\ kept[i].key = kept[j].key
      BY <1>6, <2>2
    <3>2. over + i = over + j
      BY <1>2, <1>4, <3>1 DEF OneEach
    <3> QED  BY <1>3, <1>4, <3>1, <3>2
  <2> QED  BY <2>1, <2>2
<1> QED  BY <1>1, <1>6, <1>7, <1>8, <1>9

LEMMA EntryIs ==
  ASSUME NEW K, NEW Q, NEW cache \in CacheOf(K, Q), NEW i \in DOMAIN cache
  PROVE  cache[i].key \in K /\ cache[i].quote \in Q /\ cache[i].at \in Nat
<1> DEFINE E == [key : K, quote : Q, at : Nat]
<1>1. cache \in Seq(E)
  BY DEF CacheOf
<1>2. cache[i] \in E
  <2> HIDE DEF E
  <2> QED  BY <1>1
<1> QED  BY <1>2

\* What is found is the quote of the key's entry, and not too old.
LEMMA CachedIs ==
  ASSUME NEW cache, NEW key, OneEach(cache), Cached(cache, key) # None
  PROVE  \E i \in Entries(cache, key) :
            Cached(cache, key) = cache[i].quote /\ clock - cache[i].at <= CacheTtl
<1>1. PICK i \in Entries(cache, key) : clock - cache[i].at <= CacheTtl
  BY DEF Cached
<1>2. \A j \in Entries(cache, key) : j = i
  BY <1>1 DEF Entries, OneEach
<1>3. Cached(cache, key) = cache[CHOOSE j \in Entries(cache, key) : TRUE].quote
  BY <1>1 DEF Cached
<1>4. (CHOOSE j \in Entries(cache, key) : TRUE) = i
  BY <1>1, <1>2
<1> QED  BY <1>1, <1>3, <1>4

\* What was cached just now is found.
LEMMA CachedNow ==
  ASSUME NEW cache, NEW i \in DOMAIN cache, OneEach(cache),
         cache[i].at = clock, clock \in Nat, CacheTtl \in Nat
  PROVE  Cached(cache, cache[i].key) = cache[i].quote
<1> DEFINE key == cache[i].key
<1>1. i \in Entries(cache, key) /\ \A j \in Entries(cache, key) : j = i
  BY DEF Entries, OneEach
<1>2. (CHOOSE j \in Entries(cache, key) : TRUE) = i
  BY <1>1
<1>3. clock - cache[i].at <= CacheTtl
  OBVIOUS
<1> QED  BY <1>1, <1>2, <1>3 DEF Cached

(***************************************************************************)
(* A render: the page after it, and what each hook comes to.               *)
(***************************************************************************)
ShipIs(p) == Hook(p.ship, ShippingKey(p), Cached(p.rates, ShippingKey(p)))

TaxKeyIs(p) == TaxKey(p, ShipIs(p).status)

TaxIs(p) == Hook(p.tax, TaxKeyIs(p), Cached(p.taxes, TaxKeyIs(p)))

PayKeyIs(p) == PaymentKey(p, TaxIs(p).status)

PayIs(p) == Hook(p.pay, PayKeyIs(p), None)

After(p) == Effects(p, ShipIs(p), TaxIs(p), PayIs(p))

\* A render and its effects leave one page.
LEMMA AfterIs == ASSUME NEW p PROVE AfterEffects(p) = {After(p)}
<1>1. ShippingHook(p) = {ShipIs(p)} /\ TaxHook(p, ShipIs(p)) = {TaxIs(p)}
      /\ PaymentHook(p, TaxIs(p)) = {PayIs(p)}
  BY DEF ShippingHook, TaxHook, PaymentHook, ShipIs, TaxIs, PayIs, TaxKeyIs, PayKeyIs
<1> QED  BY <1>1 DEF AfterEffects, After

LEMMA RenderIs == ASSUME NEW p PROVE Render(p) <=> page' = After(After(After(p)))
BY AfterIs DEF Render

\* What a render leaves alone, and what it changes.
LEMMA AfterFields ==
  ASSUME NEW p, PageShaped(p)
  PROVE  LET q == After(p)
         IN  /\ DOMAIN q = DOMAIN p /\ q.line = p.line
             /\ q.rates = p.rates /\ q.taxes = p.taxes
             /\ DOMAIN q.draft = DOMAIN p.draft
             /\ q.draft.addr = p.draft.addr /\ q.draft.cart = p.draft.cart
             /\ q.draft.ship = Committed(p.ship, ShipIs(p), p.draft.ship)
             /\ q.draft.tax = Committed(p.tax, TaxIs(p), p.draft.tax)
             /\ q.ship = Effect(p.ship, ShipIs(p)) /\ q.tax = Effect(p.tax, TaxIs(p))
             /\ q.pay = PaymentEffect(p.pay, PayKeyIs(p))
             /\ q.view.ship = ShipIs(p).status /\ q.view.tax = TaxIs(p).status
             /\ q.view.pay = PayIs(p).status
             /\ q.view.pay = "ready" => q.view.secret = p.pay.got.secret
<1>1. PayIs(p).key = PayKeyIs(p)
  BY DEF PayIs, Hook
<1>2. /\ DOMAIN p.draft = {"addr", "ship", "tax", "cart"}
      /\ DOMAIN p = {"draft", "line", "rates", "taxes", "ship", "tax", "pay", "view"}
  BY DEF PageShaped, DraftShaped
<1> QED  BY <1>1, <1>2 DEF After, Effects

\* A hook after a render.  A key whose quote is cached waits for nothing; an
\* answer that is still "ready" but cached no more has a timer.
LEMMA HookPass ==
  ASSUME NEW h, NEW k, NEW c, HookShaped(h),
         h.active = k /\ c = None => Failing(h)
  PROVE  LET g == Effect(h, Hook(h, k, c))
         IN  /\ HookShaped(g) /\ Failing(g) /\ g.got = h.got
             /\ g.active \in {k, None} /\ (g.active # None => c = None)
             /\ g.seen = IF k # None /\ c # None THEN k ELSE h.seen
             /\ g.phase = "asked" => g = h
             /\ Hook(h, k, c).status = "ready" => k # None /\ (g.phase = "timer" \/ c # None)
<1> DEFINE g == Effect(h, Hook(h, k, c))
<1>1. /\ Hook(h, k, c).key = k /\ Hook(h, k, c).cached = c
      /\ Hook(h, k, c).status = Status(h, k, c)
  BY DEF Hook
<1>2. CASE k = None
  BY <1>1, <1>2 DEF Effect, Dropped, HookShaped, Failing, Status
<1>3. CASE k # None /\ c # None
  BY <1>1, <1>3 DEF Effect, Dropped, HookShaped, Failing, Status
<1>4. CASE k # None /\ c = None /\ h.active = k
  <2>1. g = h
    BY <1>1, <1>4 DEF Effect
  <2>2. Failing(h)
    BY <1>4
  <2>3. Status(h, k, c) = "ready" => h.got.key = k /\ h.got.status = "ready"
    BY <1>4 DEF Status
  <2>4. h.phase # "timer" => h.got.status \in {"loading", "error"}
    BY <1>4, <2>2 DEF HookShaped, Failing
  <2> QED  BY <1>1, <1>4, <2>1, <2>2, <2>3, <2>4
<1>5. CASE k # None /\ c = None /\ h.active # k
  <2>1. g = Started(h, k)
    BY <1>1, <1>5 DEF Effect
  <2> QED  BY <1>1, <1>5, <2>1 DEF HookShaped, Started, Failing
<1> QED  BY <1>2, <1>3, <1>4, <1>5

\* The payment's hook after a render.
LEMMA PayPass ==
  ASSUME NEW h, NEW k \in PaymentKeys \cup {None}, PayShaped(h)
  PROVE  LET g == PaymentEffect(h, k)
             s == Hook(h, k, None).status
         IN  /\ PayShaped(g) /\ g.active = k /\ g.got = h.got
             /\ g.phase \in {"requote", "asked"} => g = h
             /\ g.run # None => g = h
             /\ s # "idle" => k # None
             /\ s \notin {"idle", "loading"} => h.got # None /\ h.got.key = k /\ h.got.status = s
<1> DEFINE g == PaymentEffect(h, k)
           s == Hook(h, k, None).status
<1>1. s = Status(h, k, None)
  BY DEF Hook
<1>2. CASE h.active = k
  <2>1. g = h
    BY <1>2 DEF PaymentEffect
  <2> QED  BY <1>1, <1>2, <2>1 DEF Status
<1>3. CASE h.active # k /\ k = None
  <2>1. g = [Dropped(h) EXCEPT !.run = None]
    BY <1>3 DEF PaymentEffect
  <2>2. PayShaped(g) /\ g.active = k /\ g.got = h.got /\ g.phase = "none" /\ g.run = None
    BY <1>3, <2>1 DEF PayShaped, Dropped
  <2> QED  BY <1>1, <1>3, <2>2 DEF Status
<1>4. CASE h.active # k /\ k # None
  <2>1. g = [Started(h, k) EXCEPT !.run = None, !.forced = FALSE]
    BY <1>4 DEF PaymentEffect
  <2>2. PayShaped(g) /\ g.active = k /\ g.got = h.got /\ g.phase = "timer" /\ g.run = None
    BY <1>4, <2>1 DEF PayShaped, Started
  <2> QED  BY <1>1, <1>4, <2>2 DEF Status
<1> QED  BY <1>2, <1>3, <1>4

LEMMA Ttls == QuoteTtl \in Nat /\ CacheTtl \in Nat /\ CacheTtl <= QuoteTtl
BY PageAssumption, CheckoutAssumption

\* What a hook has come to: it waits, its quote is cached, or it failed.
Settled(h, cache) == Cached(cache, h.active) = None => Failing(h)

LEMMA KeyTypes ==
  ASSUME NEW p, PageShaped(p)
  PROVE  /\ ShippingKey(p) \in ShippingKeys \cup {None}
         /\ ShippingKey(p) # None <=> p.draft.addr # None
         /\ p.draft.addr # None =>
               /\ p.draft.addr \in Addresses /\ p.line.goods \in Goods
               /\ ShippingKey(p) = RateKey(p.draft.addr, p.line.goods)
               /\ KeyOfTax(p) \in TaxKeys
               /\ Of(KeyOfTax(p)) = <<PlaceOf(p.draft.addr), p.line.goods.qty>>
               /\ StreetOf[p.draft.addr] \in Streets
<1>1. p.draft.addr \in Addresses \cup {None} /\ p.line.goods \in Goods
  BY DEF PageShaped, DraftShaped, LineShaped
<1>2. p.line.goods.qty \in Quantities /\ p.line.goods.size \in Sizes \cup {None}
  BY <1>1 DEF Goods
<1> QED  BY <1>1, <1>2, PageAssumption
         DEF ShippingKey, ShippingKeys, RateKey, Zips, KeyOfTax, TaxKeys, Of, Places, Streets

\* The shipping rate after a render: the cached one, in time, or what was there.
LEMMA ShipPass ==
  ASSUME NEW p, Sound(p), Settled(p.ship, p.rates), clock \in Nat
  PROVE  LET q == After(p)
         IN  /\ HookShaped(q.ship) /\ q.ship.active \in ShippingKeys \cup {None}
             /\ q.ship.seen \in ShippingKeys \cup {None}
             /\ q.draft.ship \in ShippingQuotes \cup {None}
             /\ \/ q.draft.ship = p.draft.ship
                \/ \E i \in DOMAIN p.rates : q.draft.ship = p.rates[i].quote
             /\ SeenRate(q) /\ AskedRate(q.ship) /\ ShipShown(q)
             /\ q.view.ship = "ready" /\ q.ship.phase # "timer" => clock <= q.draft.ship.exp
<1> DEFINE q == After(p)
           k == ShippingKey(p)
           c == Cached(p.rates, k)
<1>1. PageShaped(p) /\ RatesSound(p.rates) /\ SeenRate(p) /\ AskedRate(p.ship)
  BY DEF Sound
<1>2. /\ q.draft.addr = p.draft.addr /\ q.line = p.line /\ q.rates = p.rates
      /\ q.draft.ship = Committed(p.ship, ShipIs(p), p.draft.ship)
      /\ q.ship = Effect(p.ship, ShipIs(p)) /\ q.view.ship = ShipIs(p).status
  BY <1>1, AfterFields
<1>3. ShipIs(p) = Hook(p.ship, k, c) /\ ShippingKey(q) = k
  BY <1>2 DEF ShipIs, ShippingKey
<1>4. /\ HookShaped(p.ship) /\ p.ship.seen \in ShippingKeys \cup {None}
      /\ p.draft.ship \in ShippingQuotes \cup {None} /\ k \in ShippingKeys \cup {None}
      /\ k # None => p.draft.addr # None
  BY <1>1, KeyTypes DEF PageShaped, DraftShaped
<1>5. p.ship.active = k /\ c = None => Failing(p.ship)
  BY DEF Settled
<1> HIDE DEF q, k, c
<1>6. /\ HookShaped(q.ship) /\ Failing(q.ship)
      /\ q.ship.active \in {k, None} /\ (q.ship.active # None => c = None)
      /\ q.ship.seen = IF k # None /\ c # None THEN k ELSE p.ship.seen
      /\ q.ship.phase = "asked" => q.ship = p.ship
      /\ q.view.ship = "ready" => k # None /\ (q.ship.phase = "timer" \/ c # None)
  BY <1>2, <1>3, <1>4, <1>5, HookPass
<1>7. q.draft.ship = IF k # None /\ c # None /\ p.ship.seen # k THEN c ELSE p.draft.ship
  BY <1>2, <1>3 DEF Committed, Hook
<1>8. OneEach(p.rates) /\ p.rates \in CacheOf(ShippingKeys, ShippingQuotes)
  BY <1>1 DEF RatesSound
<1>9. ASSUME c # None
      PROVE  \E i \in DOMAIN p.rates :
                /\ p.rates[i].key = k /\ p.rates[i].quote = c /\ clock <= c.exp
                /\ c \in ShippingQuotes /\ OfRate(c.sig) = k /\ k \in ShippingKeys
  <2>1. PICK i \in Entries(p.rates, k) : c = p.rates[i].quote /\ clock - p.rates[i].at <= CacheTtl
    BY <1>8, <1>9, CachedIs DEF c
  <2>2. i \in DOMAIN p.rates /\ p.rates[i].key = k
    BY <2>1 DEF Entries
  <2>3. /\ p.rates[i].key \in ShippingKeys /\ p.rates[i].quote \in ShippingQuotes
        /\ p.rates[i].at \in Nat
    BY <1>8, <2>2, EntryIs
  <2>4. OfRate(p.rates[i].quote.sig) = k /\ p.rates[i].quote.exp = p.rates[i].at + QuoteTtl
    BY <1>1, <2>2 DEF RatesSound
  <2>5. p.rates[i].at \in Nat /\ c \in ShippingQuotes
    BY <2>1, <2>3
  <2>6. clock <= c.exp
    BY <2>1, <2>4, <2>5, Ttls
  <2>7. k \in ShippingKeys
    BY <2>2, <2>3
  <2> QED  BY <2>1, <2>2, <2>4, <2>5, <2>6, <2>7
<1>10. c # None => k # None
  BY <1>9, PageAssumption
<1>11. c # None => q.draft.ship = c /\ q.ship.seen = k
  <2> SUFFICES ASSUME c # None PROVE q.draft.ship = c /\ q.ship.seen = k
    OBVIOUS
  <2>1. PICK i \in DOMAIN p.rates : p.rates[i].key = k /\ p.rates[i].quote = c
    BY <1>9
  <2>2. p.ship.seen = k => p.draft.ship = c
    BY <1>1, <1>10, <2>1 DEF SeenRate, Entries
  <2> QED  BY <1>6, <1>7, <1>10, <2>2
<1>12. q.draft.ship \in ShippingQuotes \cup {None}
       /\ \/ q.draft.ship = p.draft.ship
          \/ \E i \in DOMAIN p.rates : q.draft.ship = p.rates[i].quote
  BY <1>4, <1>7, <1>9
<1>13. SeenRate(q)
  <2>1. CASE c # None
    <3>1. PICK i \in DOMAIN p.rates : p.rates[i].key = k /\ p.rates[i].quote = c
             /\ c \in ShippingQuotes /\ OfRate(c.sig) = k
      BY <1>9, <2>1
    <3>2. \A j \in Entries(p.rates, k) : j = i
      BY <1>8, <3>1 DEF Entries, OneEach
    <3> QED  BY <1>2, <1>11, <2>1, <3>1, <3>2, CheckoutAssumption DEF SeenRate
  <2>2. CASE c = None
    <3>1. q.draft.ship = p.draft.ship /\ q.ship.seen = p.ship.seen
      BY <1>6, <1>7, <2>2
    <3> QED  BY <1>1, <1>2, <3>1 DEF SeenRate
  <2> QED  BY <2>1, <2>2
<1>14. AskedRate(q.ship)
  BY <1>1, <1>6 DEF AskedRate
<1>15. ShipShown(q)
  BY <1>3, <1>2, <1>4, <1>6, <1>11 DEF ShipShown
<1>16. q.view.ship = "ready" /\ q.ship.phase # "timer" => clock <= q.draft.ship.exp
  BY <1>6, <1>9, <1>11
<1> QED  BY <1>4, <1>6, <1>12, <1>13, <1>14, <1>15, <1>16 DEF q

\* The tax after a render, likewise.
LEMMA TaxPass ==
  ASSUME NEW p, Sound(p), Settled(p.ship, p.rates), Settled(p.tax, p.taxes), clock \in Nat
  PROVE  LET q == After(p)
         IN  /\ HookShaped(q.tax) /\ q.tax.active \in TaxKeys \cup {None}
             /\ q.tax.seen \in TaxKeys \cup {None}
             /\ q.draft.tax \in TaxQuotes \cup {None}
             /\ \/ q.draft.tax = p.draft.tax
                \/ \E i \in DOMAIN p.taxes : q.draft.tax = p.taxes[i].quote
             /\ SeenTax(q) /\ AskedTax(q.tax) /\ TaxShown(q)
             /\ q.tax.phase = "asked" => q.tax = p.tax
             /\ q.view.tax = "ready" /\ q.tax.phase # "timer" => clock <= q.draft.tax.exp
<1> DEFINE q == After(p)
           k == TaxKeyIs(p)
           c == Cached(p.taxes, k)
<1>1. PageShaped(p) /\ TaxesSound(p.taxes) /\ SeenTax(p) /\ AskedTax(p.tax)
  BY DEF Sound
<1>2. /\ q.draft.addr = p.draft.addr /\ q.line = p.line /\ q.taxes = p.taxes
      /\ q.draft.tax = Committed(p.tax, TaxIs(p), p.draft.tax)
      /\ q.tax = Effect(p.tax, TaxIs(p)) /\ q.view.tax = TaxIs(p).status
      /\ q.view.ship = ShipIs(p).status
  BY <1>1, AfterFields
<1>3. TaxIs(p) = Hook(p.tax, k, c) /\ KeyOfTax(q) = KeyOfTax(p)
  BY <1>2 DEF TaxIs, KeyOfTax
<1>4. k # None => k = KeyOfTax(p) /\ q.view.ship = "ready" /\ k \in TaxKeys
  <2>1. k # None => k = KeyOfTax(p) /\ q.view.ship = "ready"
    BY <1>2 DEF TaxKeyIs, TaxKey, KeyOfTax
  <2>2. q.view.ship = "ready" => q.draft.addr # None
    BY ShipPass DEF ShipShown
  <2> QED  BY <1>1, <1>2, <2>1, <2>2, KeyTypes
<1>5. /\ HookShaped(p.tax) /\ p.tax.seen \in TaxKeys \cup {None}
      /\ p.draft.tax \in TaxQuotes \cup {None}
  BY <1>1 DEF PageShaped, DraftShaped
<1>6. p.tax.active = k /\ c = None => Failing(p.tax)
  BY DEF Settled
<1> HIDE DEF q, k, c
<1>7. /\ HookShaped(q.tax) /\ Failing(q.tax)
      /\ q.tax.active \in {k, None} /\ (q.tax.active # None => c = None)
      /\ q.tax.seen = IF k # None /\ c # None THEN k ELSE p.tax.seen
      /\ q.tax.phase = "asked" => q.tax = p.tax
      /\ q.view.tax = "ready" => k # None /\ (q.tax.phase = "timer" \/ c # None)
  BY <1>2, <1>3, <1>5, <1>6, HookPass
<1>8. q.draft.tax = IF k # None /\ c # None /\ p.tax.seen # k THEN c ELSE p.draft.tax
  BY <1>2, <1>3 DEF Committed, Hook
<1>9. OneEach(p.taxes) /\ p.taxes \in CacheOf(TaxKeys, TaxQuotes)
  BY <1>1 DEF TaxesSound
<1>10. ASSUME c # None
       PROVE  \E i \in DOMAIN p.taxes :
                 /\ p.taxes[i].key = k /\ p.taxes[i].quote = c /\ clock <= c.exp
                 /\ c \in TaxQuotes /\ OfTax(c.sig) = Of(k) /\ k \in TaxKeys
  <2>1. PICK i \in Entries(p.taxes, k) : c = p.taxes[i].quote /\ clock - p.taxes[i].at <= CacheTtl
    BY <1>9, <1>10, CachedIs DEF c
  <2>2. i \in DOMAIN p.taxes /\ p.taxes[i].key = k
    BY <2>1 DEF Entries
  <2>3. /\ p.taxes[i].key \in TaxKeys /\ p.taxes[i].quote \in TaxQuotes
        /\ p.taxes[i].at \in Nat
    BY <1>9, <2>2, EntryIs
  <2>4. OfTax(p.taxes[i].quote.sig) = Of(k) /\ p.taxes[i].quote.exp = p.taxes[i].at + QuoteTtl
    BY <1>1, <2>2 DEF TaxesSound
  <2>5. clock <= c.exp
    BY <2>1, <2>3, <2>4, Ttls
  <2> QED  BY <2>1, <2>2, <2>3, <2>4, <2>5
<1>11. c # None => k # None
  BY <1>10, PageAssumption
<1>12. c # None => q.draft.tax = c /\ q.tax.seen = k
  <2> SUFFICES ASSUME c # None PROVE q.draft.tax = c /\ q.tax.seen = k
    OBVIOUS
  <2>1. PICK i \in DOMAIN p.taxes : p.taxes[i].key = k /\ p.taxes[i].quote = c
    BY <1>10
  <2>2. p.tax.seen = k => p.draft.tax = c
    BY <1>1, <1>11, <2>1 DEF SeenTax, Entries
  <2> QED  BY <1>7, <1>8, <1>11, <2>2
<1>13. q.draft.tax \in TaxQuotes \cup {None}
       /\ \/ q.draft.tax = p.draft.tax
          \/ \E i \in DOMAIN p.taxes : q.draft.tax = p.taxes[i].quote
  BY <1>5, <1>8, <1>10
<1>14. SeenTax(q)
  <2>1. CASE c # None
    <3>1. PICK i \in DOMAIN p.taxes : p.taxes[i].key = k /\ p.taxes[i].quote = c
             /\ c \in TaxQuotes /\ OfTax(c.sig) = Of(k)
      BY <1>10, <2>1
    <3>2. \A j \in Entries(p.taxes, k) : j = i
      BY <1>9, <3>1 DEF Entries, OneEach
    <3> QED  BY <1>2, <1>12, <2>1, <3>1, <3>2, CheckoutAssumption DEF SeenTax
  <2>2. CASE c = None
    <3>1. q.draft.tax = p.draft.tax /\ q.tax.seen = p.tax.seen
      BY <1>7, <1>8, <2>2
    <3> QED  BY <1>1, <1>2, <3>1 DEF SeenTax
  <2> QED  BY <2>1, <2>2
<1>15. AskedTax(q.tax)
  BY <1>1, <1>7 DEF AskedTax
<1>16. TaxShown(q)
  BY <1>3, <1>2, <1>4, <1>7, <1>12 DEF TaxShown
<1>17. q.view.tax = "ready" /\ q.tax.phase # "timer" => clock <= q.draft.tax.exp
  BY <1>7, <1>10, <1>12
<1> QED  BY <1>4, <1>5, <1>7, <1>13, <1>14, <1>15, <1>16, <1>17 DEF q

\* The payment after a render, and the keys it is of.
LEMMA PaymentPass ==
  ASSUME NEW p, Sound(p), Settled(p.ship, p.rates), Settled(p.tax, p.taxes), clock \in Nat
  PROVE  LET q == After(p)
         IN  /\ PayShaped(q.pay) /\ q.pay.got = p.pay.got
             /\ Asked(q) => q.pay = p.pay
             /\ q.pay.run # None => q.pay = p.pay
             /\ AskedPayment(q)
             /\ q.pay.active # None => q.view.tax = "ready"
             /\ q.draft.tax = p.draft.tax => PayShown(q)
<1> DEFINE q == After(p)
           k == PayKeyIs(p)
<1>1. PageShaped(p) /\ PayShaped(p.pay) /\ AskedPayment(p)
  BY DEF Sound, PageShaped
<1>2. /\ q.draft.addr = p.draft.addr /\ q.line = p.line /\ q.draft.cart = p.draft.cart
      /\ q.pay = PaymentEffect(p.pay, k)
      /\ q.view.pay = PayIs(p).status /\ q.view.tax = TaxIs(p).status
      /\ q.view.pay = "ready" => q.view.secret = p.pay.got.secret
  BY <1>1, AfterFields
<1>3. PayIs(p) = Hook(p.pay, k, None)
  BY DEF PayIs
<1>4. k # None => /\ q.view.tax = "ready" /\ p.draft.tax # None /\ k = KeyOfPayment(p)
                  /\ k \in PaymentKeys
  <2>1. k # None => q.view.tax = "ready" /\ p.draft.tax # None /\ k = KeyOfPayment(p)
    BY <1>2 DEF PayKeyIs, PaymentKey, KeyOfPayment
  <2>2. q.view.tax = "ready" => p.draft.addr # None
    BY <1>2, ShipPass, TaxPass DEF ShipShown, TaxShown
  <2>3. /\ p.draft.tax \in TaxQuotes \cup {None}
        /\ p.line.goods.qty \in Quantities /\ p.line.goods.size \in Sizes \cup {None}
    BY <1>1 DEF PageShaped, DraftShaped, LineShaped, Goods
  <2>4. p.draft.addr # None => StreetOf[p.draft.addr] \in Streets
    BY <1>1, KeyTypes
  <2> QED  BY <2>1, <2>2, <2>3, <2>4 DEF KeyOfPayment, PaymentKeys
<1> HIDE DEF q, k
<1>5. /\ PayShaped(q.pay) /\ q.pay.active = k /\ q.pay.got = p.pay.got
      /\ q.pay.phase \in {"requote", "asked"} => q.pay = p.pay
      /\ q.pay.run # None => q.pay = p.pay
      /\ q.view.pay # "idle" => k # None
      /\ q.view.pay \notin {"idle", "loading"} =>
            p.pay.got # None /\ p.pay.got.key = k /\ p.pay.got.status = q.view.pay
  BY <1>1, <1>2, <1>3, <1>4, PayPass
<1>6. AskedPayment(q)
  BY <1>1, <1>2, <1>5 DEF AskedPayment, Asked
<1>7. q.draft.tax = p.draft.tax => PayShown(q)
  BY <1>2, <1>4, <1>5 DEF PayShown, KeyOfPayment, Got
<1> QED  BY <1>4, <1>5, <1>6, <1>7 DEF q, Asked

\* A page about to be rendered.
Raw(p) ==
    /\ Sound(p) /\ RateInTime(p, clock) /\ AskedInTime(p, clock)
    /\ Settled(p.ship, p.rates) /\ Settled(p.tax, p.taxes)

LEMMA PagePass ==
  ASSUME NEW p, Raw(p), clock \in Nat
  PROVE  LET q == After(p)
         IN  /\ Raw(q) /\ ShipShown(q) /\ TaxShown(q) /\ InTime(q, clock)
             /\ q.draft.tax = p.draft.tax => PayShown(q)
<1> DEFINE q == After(p)
<1>1. /\ Sound(p) /\ RateInTime(p, clock) /\ AskedInTime(p, clock) /\ PageShaped(p)
      /\ Settled(p.ship, p.rates) /\ Settled(p.tax, p.taxes) /\ RatesSound(p.rates)
      /\ TaxesSound(p.taxes)
  BY DEF Raw, Sound
<1>2. /\ DOMAIN q = DOMAIN p /\ q.line = p.line /\ q.rates = p.rates /\ q.taxes = p.taxes
      /\ DOMAIN q.draft = DOMAIN p.draft
      /\ q.draft.addr = p.draft.addr /\ q.draft.cart = p.draft.cart
  BY <1>1, AfterFields
<1>3. /\ HookShaped(q.ship) /\ q.ship.active \in ShippingKeys \cup {None}
      /\ q.ship.seen \in ShippingKeys \cup {None}
      /\ q.draft.ship \in ShippingQuotes \cup {None}
      /\ \/ q.draft.ship = p.draft.ship
         \/ \E i \in DOMAIN p.rates : q.draft.ship = p.rates[i].quote
      /\ SeenRate(q) /\ AskedRate(q.ship) /\ ShipShown(q)
      /\ q.view.ship = "ready" /\ q.ship.phase # "timer" => clock <= q.draft.ship.exp
  BY <1>1, ShipPass
<1>4. /\ HookShaped(q.tax) /\ q.tax.active \in TaxKeys \cup {None}
      /\ q.tax.seen \in TaxKeys \cup {None}
      /\ q.draft.tax \in TaxQuotes \cup {None}
      /\ \/ q.draft.tax = p.draft.tax
         \/ \E i \in DOMAIN p.taxes : q.draft.tax = p.taxes[i].quote
      /\ SeenTax(q) /\ AskedTax(q.tax) /\ TaxShown(q)
      /\ q.tax.phase = "asked" => q.tax = p.tax
      /\ q.view.tax = "ready" /\ q.tax.phase # "timer" => clock <= q.draft.tax.exp
  BY <1>1, TaxPass
<1>5. /\ PayShaped(q.pay) /\ q.pay.got = p.pay.got
      /\ Asked(q) => q.pay = p.pay
      /\ AskedPayment(q)
      /\ q.pay.active # None => q.view.tax = "ready"
      /\ q.draft.tax = p.draft.tax => PayShown(q)
  BY <1>1, PaymentPass
<1> HIDE DEF q
<1>6. DraftShaped(q.draft)
  BY <1>1, <1>2, <1>3, <1>4 DEF PageShaped, DraftShaped
<1>7. PageShaped(q)
  BY <1>1, <1>2, <1>3, <1>4, <1>5, <1>6 DEF PageShaped
<1>8. Sound(q)
  BY <1>1, <1>2, <1>3, <1>4, <1>5, <1>7 DEF Sound
<1>9. RateInTime(q, clock)
  BY <1>1, <1>4 DEF RateInTime
<1>10. AskedInTime(q, clock)
  BY <1>1, <1>5 DEF AskedInTime, Asked
<1>11. Settled(q.ship, q.rates) /\ Settled(q.tax, q.taxes)
  BY <1>3, <1>4 DEF Settled, ShipShown, TaxShown
<1>12. InTime(q, clock)
  BY <1>3, <1>4, <1>5 DEF InTime, Due, TaxShown, PayShaped, HookShaped
<1> QED  BY <1>3, <1>4, <1>5, <1>8, <1>9, <1>10, <1>11, <1>12 DEF q, Raw

\* A render alone does not change a hook's status, and commits a quote once.
LEMMA HookAgain ==
  ASSUME NEW h, NEW g, NEW k, NEW c, NEW current, HookShaped(h), g = Effect(h, Hook(h, k, c))
  PROVE  /\ Hook(g, k, c) = Hook(h, k, c)
         /\ Committed(g, Hook(g, k, c), current) = current
<1>1. /\ Hook(h, k, c).key = k /\ Hook(h, k, c).cached = c
      /\ Hook(g, k, c).key = k /\ Hook(g, k, c).cached = c
  BY DEF Hook
<1>2. g.got = h.got /\ (k # None /\ c # None => g.seen = k)
  BY <1>1 DEF Effect, Dropped, Started, HookShaped
<1>3. Status(g, k, c) = Status(h, k, c)
  BY <1>2 DEF Status
<1> QED  BY <1>1, <1>2, <1>3 DEF Hook, Committed

LEMMA ShipAgain ==
  ASSUME NEW p, Sound(p), Sound(After(p))
  PROVE  /\ ShipIs(After(p)).status = ShipIs(p).status
         /\ After(After(p)).draft.ship = After(p).draft.ship
<1> DEFINE q == After(p)
<1>1. PageShaped(p) /\ PageShaped(q) /\ HookShaped(p.ship)
  BY DEF Sound, PageShaped
<1>2. /\ q.draft.addr = p.draft.addr /\ q.line = p.line /\ q.rates = p.rates
      /\ q.ship = Effect(p.ship, ShipIs(p))
      /\ After(q).draft.ship = Committed(q.ship, ShipIs(q), q.draft.ship)
  BY <1>1, AfterFields
<1>3. ShipIs(q) = Hook(q.ship, ShippingKey(p), Cached(p.rates, ShippingKey(p)))
  BY <1>2 DEF ShipIs, ShippingKey
<1>4. q.ship = Effect(p.ship, Hook(p.ship, ShippingKey(p), Cached(p.rates, ShippingKey(p))))
  BY <1>2 DEF ShipIs
<1> HIDE DEF q
<1>5. ShipIs(q) = ShipIs(p) /\ Committed(q.ship, ShipIs(q), q.draft.ship) = q.draft.ship
  BY <1>1, <1>3, <1>4, HookAgain DEF ShipIs
<1> QED  BY <1>2, <1>5 DEF q

LEMMA TaxAgain ==
  ASSUME NEW p, Sound(p), Sound(After(p)), TaxKeyIs(After(p)) = TaxKeyIs(p)
  PROVE  After(After(p)).draft.tax = After(p).draft.tax
<1> DEFINE q == After(p)
<1>1. PageShaped(p) /\ PageShaped(q) /\ HookShaped(p.tax)
  BY DEF Sound, PageShaped
<1>2. /\ q.taxes = p.taxes /\ q.tax = Effect(p.tax, TaxIs(p))
      /\ After(q).draft.tax = Committed(q.tax, TaxIs(q), q.draft.tax)
  BY <1>1, AfterFields
<1>3. TaxIs(q) = Hook(q.tax, TaxKeyIs(p), Cached(p.taxes, TaxKeyIs(p)))
  BY <1>2 DEF TaxIs
<1>4. q.tax = Effect(p.tax, Hook(p.tax, TaxKeyIs(p), Cached(p.taxes, TaxKeyIs(p))))
  BY <1>2 DEF TaxIs
<1> HIDE DEF q
<1>5. Committed(q.tax, TaxIs(q), q.draft.tax) = q.draft.tax
  BY <1>1, <1>3, <1>4, HookAgain
<1> QED  BY <1>2, <1>5 DEF q

\* The third pass commits nothing: the first had the rate, the second the tax.
LEMMA Steady ==
  ASSUME NEW p, Raw(p), clock \in Nat
  PROVE  After(After(After(p))).draft.tax = After(After(p)).draft.tax
<1> DEFINE a == After(p)
           b == After(a)
<1>1. Raw(a) /\ Raw(b)
  BY PagePass
<1>2. Sound(p) /\ Sound(a) /\ Sound(b) /\ PageShaped(a)
  BY <1>1 DEF Raw, Sound
<1>3. ShipIs(b).status = ShipIs(a).status /\ b.draft.ship = a.draft.ship
  BY <1>2, ShipAgain
<1>4. b.draft.addr = a.draft.addr /\ b.line = a.line
  BY <1>2, AfterFields
<1>5. TaxKeyIs(b) = TaxKeyIs(a)
  BY <1>3, <1>4 DEF TaxKeyIs, TaxKey
<1> QED  BY <1>2, <1>5, TaxAgain

\* What a render makes of a page.
LEMMA RenderPage ==
  ASSUME NEW p, Raw(p), Render(p), clock \in Nat
  PROVE  PageInv(page', clock)
<1>1. page' = After(After(After(p)))
  BY RenderIs
<1>2. Raw(After(After(p)))
  BY PagePass
<1>3. PayShown(page') /\ Raw(page') /\ ShipShown(page') /\ TaxShown(page') /\ InTime(page', clock)
  BY <1>1, <1>2, Steady, PagePass
<1>4. Sound(page') /\ RateInTime(page', clock) /\ AskedInTime(page', clock)
  BY <1>1, <1>2, PagePass DEF Raw
<1> QED  BY <1>3, <1>4 DEF PageInv

\* A render drops what the page listened to or leaves it.
LEMMA LinksPass ==
  ASSUME NEW p, Raw(p), clock \in Nat, NEW ps, NEW cs, NEW is, NEW s, Links(p, ps, cs, is, s)
  PROVE  Links(After(p), ps, cs, is, s)
<1> DEFINE q == After(p)
<1>1. Sound(p) /\ PageShaped(p) /\ PayShaped(p.pay)
      /\ Settled(p.ship, p.rates) /\ Settled(p.tax, p.taxes)
  BY DEF Raw, Sound, PageShaped
<1>2. q.draft.cart = p.draft.cart /\ q.line = p.line
  BY <1>1, AfterFields
<1>3. q.pay.got = p.pay.got /\ (q.pay.run # None => q.pay = p.pay)
  BY <1>1, PaymentPass
<1> HIDE DEF q
<1>4. Got(p, "ready") => p.pay.run = None
  BY <1>1 DEF Got, PayShaped
<1>5. \A status : Got(q, status) <=> Got(p, status)
  BY <1>3 DEF Got
<1>6. Heard(q, ps, cs)
  BY <1>3 DEF Links, Heard, HeardRun, OthersAside
<1>7. GotHolds(q, ps, cs, is)
  BY <1>2, <1>3, <1>5 DEF Links, GotHolds
<1>8. OthersOld(q, ps)
  BY <1>3, <1>4, <1>5 DEF Links, OthersOld
<1>9. HeldIsGot(q, ps, is, s)
  BY <1>2, <1>3, <1>5 DEF Links, HeldIsGot
<1> QED  BY <1>2, <1>6, <1>7, <1>8, <1>9 DEF q, Links

LEMMA RenderLinks ==
  ASSUME NEW p, Raw(p), Render(p), clock \in Nat,
         NEW ps, NEW cs, NEW is, NEW s, Links(p, ps, cs, is, s)
  PROVE  Links(page', ps, cs, is, s)
<1>1. page' = After(After(After(p)))
  BY RenderIs
<1>2. Raw(After(p)) /\ Raw(After(After(p)))
  BY PagePass
<1>3. Links(After(p), ps, cs, is, s)
  BY LinksPass
<1>4. Links(After(After(p)), ps, cs, is, s)
  BY <1>2, <1>3, LinksPass
<1> QED  BY <1>1, <1>2, <1>4, LinksPass

(***************************************************************************)
(* What the page does by itself.                                           *)
(***************************************************************************)
\* Between renders every hook is settled.
LEMMA PageIsRaw ==
  ASSUME PageInv(page, clock)
  PROVE  Raw(page) /\ PageShaped(page)
BY DEF PageInv, Raw, Sound, Settled, ShipShown, TaxShown

LEMMA HookDropped ==
  ASSUME NEW h, HookShaped(h), NEW g \in {h, Idle, Dropped(h)}
  PROVE  /\ HookShaped(g) /\ (g.phase # "none" => g = h) /\ g.seen \in {h.seen, None}
         /\ g = h \/ g.active = None
<1>1. CASE g = h
  BY <1>1
<1>2. CASE g = Idle
  BY <1>2 DEF Idle, HookShaped
<1>3. CASE g = Dropped(h)
  BY <1>3 DEF Dropped, HookShaped
<1> QED  BY <1>1, <1>2, <1>3

LEMMA PayDropped ==
  ASSUME NEW h, PayShaped(h), NEW g \in {h, IdlePayment, [Dropped(h) EXCEPT !.run = None]}
  PROVE  /\ PayShaped(g) /\ (g.phase # "none" => g = h) /\ (g.run # None => g = h)
         /\ g.got \in {h.got, None}
<1>1. CASE g = h
  BY <1>1
<1>2. CASE g = IdlePayment
  BY <1>2 DEF IdlePayment, PayShaped
<1>3. CASE g = [Dropped(h) EXCEPT !.run = None]
  BY <1>3 DEF Dropped, PayShaped
<1> QED  BY <1>1, <1>2, <1>3

\* A page that differs from another only in what no hook has asked for.
LEMMA EditIsRaw ==
  ASSUME NEW p, Raw(page),
         DOMAIN p = DOMAIN page, DraftShaped(p.draft), LineShaped(p.line),
         p.rates = page.rates, p.taxes = page.taxes,
         p.draft.ship = page.draft.ship, p.draft.tax = page.draft.tax,
         p.draft.cart = page.draft.cart,
         p.ship \in {page.ship, Idle, Dropped(page.ship)},
         p.tax \in {page.tax, Idle, Dropped(page.tax)},
         p.pay \in {page.pay, IdlePayment, [Dropped(page.pay) EXCEPT !.run = None]},
         p.pay = IdlePayment \/ p.line.goods.art = page.line.goods.art
  PROVE  Raw(p)
<1>1. /\ PageShaped(page) /\ RatesSound(page.rates) /\ TaxesSound(page.taxes)
      /\ SeenRate(page) /\ SeenTax(page)
      /\ AskedRate(page.ship) /\ AskedTax(page.tax) /\ AskedPayment(page)
      /\ HookShaped(page.ship) /\ HookShaped(page.tax) /\ PayShaped(page.pay)
  BY DEF Raw, Sound, PageShaped
<1>0. /\ p.ship.phase # "none" => p.ship = page.ship
      /\ p.ship.seen \in {page.ship.seen, None} /\ HookShaped(p.ship)
      /\ p.ship = page.ship \/ p.ship.active = None
  BY <1>1, HookDropped
<1>2. /\ p.tax.phase # "none" => p.tax = page.tax
      /\ p.tax.seen \in {page.tax.seen, None} /\ HookShaped(p.tax)
      /\ p.tax = page.tax \/ p.tax.active = None
  BY <1>1, HookDropped
<1>3. /\ Asked(p) => p.pay = page.pay /\ p.line.goods.art = page.line.goods.art
      /\ p.pay.got \in {page.pay.got, None} /\ PayShaped(p.pay)
  <2>1. /\ p.pay.phase # "none" => p.pay = page.pay
        /\ p.pay.got \in {page.pay.got, None} /\ PayShaped(p.pay)
    <3> DEFINE g == p.pay
               h == page.pay
    <3>1. PayShaped(h) /\ g \in {h, IdlePayment, [Dropped(h) EXCEPT !.run = None]}
      BY <1>1
    <3> HIDE DEF g, h
    <3>2. PayShaped(g) /\ (g.phase # "none" => g = h) /\ g.got \in {h.got, None}
      BY ONLY <3>1, PayDropped
    <3> QED  BY <3>2 DEF g, h
  <2>2. Asked(p) => p.pay.phase # "none" /\ p.pay # IdlePayment
    BY DEF Asked, IdlePayment
  <2> QED  BY <2>1, <2>2
<1>4. SeenRate(p) /\ SeenTax(p)
  BY <1>1, <1>0, <1>2 DEF SeenRate, SeenTax
<1>5. AskedRate(p.ship) /\ AskedTax(p.tax)
  BY <1>1, <1>0, <1>2 DEF AskedRate, AskedTax
<1>6. AskedPayment(p)
  BY <1>1, <1>3 DEF AskedPayment, Asked
<1>7. RateInTime(p, clock)
  BY <1>2 DEF Raw, RateInTime
<1>8. AskedInTime(p, clock)
  BY <1>3 DEF Raw, AskedInTime, Asked
<1>9. Settled(p.ship, p.rates) /\ Settled(p.tax, p.taxes)
  BY <1>0, <1>2 DEF Raw, Settled, Failing
<1>10. p.ship.active \in {page.ship.active, None} /\ p.tax.active \in {page.tax.active, None}
  BY <1>0, <1>2
<1>11. PageShaped(p)
  BY <1>1, <1>0, <1>2, <1>3, <1>10 DEF PageShaped
<1> QED  BY <1>1, <1>4, <1>5, <1>6, <1>7, <1>8, <1>9, <1>11 DEF Raw, Sound

LEMMA EditLinks ==
  ASSUME NEW p, Raw(page), p.draft.cart = page.draft.cart,
         p.pay \in {page.pay, IdlePayment, [Dropped(page.pay) EXCEPT !.run = None]},
         p.pay = IdlePayment \/ p.line.goods.art = page.line.goods.art,
         NEW ps, NEW cs, NEW is, NEW s, Links(page, ps, cs, is, s)
  PROVE  Links(p, ps, cs, is, s)
<1>1. PayShaped(page.pay)
  BY DEF Raw, Sound, PageShaped
<1>2. (p.pay.run # None => p.pay = page.pay) /\ p.pay.got \in {page.pay.got, None}
  BY <1>1, PayDropped
<1>3. /\ p.pay.got # None => p.line.goods.art = page.line.goods.art
      /\ \A status : Got(p, status) => Got(page, status) /\ p.pay.got = page.pay.got
      /\ Got(page, "ready") => page.pay.run = None
  BY <1>1, <1>2 DEF IdlePayment, Got, PayShaped
<1>4. Heard(p, ps, cs)
  BY <1>2 DEF Links, Heard, HeardRun, OthersAside
<1>5. GotHolds(p, ps, cs, is)
  BY <1>3 DEF Links, GotHolds, Got
<1>6. OthersOld(p, ps)
  BY <1>2, <1>3 DEF Links, OthersOld
<1>7. HeldIsGot(p, ps, is, s)
  BY <1>2, <1>3 DEF Links, HeldIsGot
<1> QED  BY <1>4, <1>5, <1>6, <1>7 DEF Links

\* The parts of the invariant that a step of the page, or of the server, is
\* about.
PageSide ==
    /\ PageInv(page, clock)
    /\ Links(page, preps, carts, intents, submit.secret)

ServerSide == ServerSound(carts, intents) /\ RunsShaped(preps, carts, intents)

LEMMA EditKeeps ==
  ASSUME PageSide, clock \in Nat, NEW p, Render(p), QuietServer, submit'.secret = submit.secret,
         DOMAIN p = DOMAIN page, DraftShaped(p.draft), LineShaped(p.line),
         p.rates = page.rates, p.taxes = page.taxes,
         p.draft.ship = page.draft.ship, p.draft.tax = page.draft.tax,
         p.draft.cart = page.draft.cart,
         p.ship \in {page.ship, Idle, Dropped(page.ship)},
         p.tax \in {page.tax, Idle, Dropped(page.tax)},
         p.pay \in {page.pay, IdlePayment, [Dropped(page.pay) EXCEPT !.run = None]},
         p.pay = IdlePayment \/ p.line.goods.art = page.line.goods.art
  PROVE  PageSide'
<1>1. Raw(page)
  BY PageIsRaw DEF PageSide
<1>2. Raw(p)
  BY <1>1, EditIsRaw
<1>3. Links(p, preps, carts, intents, submit.secret)
  BY <1>1, EditLinks DEF PageSide
<1>4. PageInv(page', clock) /\ Links(page', preps, carts, intents, submit.secret)
  BY <1>2, <1>3, RenderPage, RenderLinks
<1> QED  BY <1>4 DEF PageSide, QuietServer, serverVars

LEMMA ChangeAddressKeeps ==
  ASSUME PageSide, clock \in Nat, NEW a \in Addresses, ChangeAddress(a)
  PROVE  PageSide'
<1> DEFINE p == [page EXCEPT !.draft.addr = a]
<1>1. PageShaped(page)
  BY PageIsRaw DEF PageSide
<1>2. /\ DOMAIN p = DOMAIN page /\ p.line = page.line /\ p.rates = page.rates
      /\ p.taxes = page.taxes /\ p.ship = page.ship /\ p.tax = page.tax /\ p.pay = page.pay
      /\ p.draft.ship = page.draft.ship /\ p.draft.tax = page.draft.tax
      /\ p.draft.cart = page.draft.cart
      /\ DraftShaped(p.draft)
  BY <1>1 DEF PageShaped, DraftShaped
<1>3. LineShaped(p.line)
  BY <1>1, <1>2 DEF PageShaped
<1>4. Render(p) /\ QuietServer /\ submit' = submit
  BY DEF ChangeAddress
<1> HIDE DEF p
<1> QED  BY <1>2, <1>3, <1>4, EditKeeps

LEMMA ChangeQuantityKeeps ==
  ASSUME PageSide, clock \in Nat, NEW n \in Quantities, ChangeQuantity(n)
  PROVE  PageSide'
<1> DEFINE p == [page EXCEPT !.line.goods.qty = n, !.line.token = None]
<1>1. PageShaped(page)
  BY PageIsRaw DEF PageSide
<1>2. DOMAIN page.line.goods = {"qty", "size", "art"} /\ DOMAIN page.line = {"goods", "unit", "token"}
      /\ page.line.goods \in Goods
  BY <1>1 DEF PageShaped, LineShaped, Goods
<1>3. /\ DOMAIN p = DOMAIN page /\ p.draft = page.draft /\ p.rates = page.rates
      /\ p.taxes = page.taxes /\ p.ship = page.ship /\ p.tax = page.tax /\ p.pay = page.pay
      /\ DOMAIN p.line = DOMAIN page.line
      /\ p.line.goods = [page.line.goods EXCEPT !.qty = n]
  BY <1>1, <1>2 DEF PageShaped
<1>4. [page.line.goods EXCEPT !.qty = n] \in Goods
      /\ [page.line.goods EXCEPT !.qty = n].art = page.line.goods.art
  BY <1>2 DEF Goods
<1>5. Render(p) /\ QuietServer /\ submit' = submit
  BY DEF ChangeQuantity
<1> HIDE DEF p
<1>6. LineShaped(p.line) /\ p.line.goods.art = page.line.goods.art /\ DraftShaped(p.draft)
  BY <1>1, <1>2, <1>3, <1>4 DEF PageShaped, LineShaped
<1> QED  BY <1>3, <1>5, <1>6, EditKeeps

LEMMA ReopenKeeps ==
  ASSUME PageSide, clock \in Nat, NEW l, LineShaped(l), NEW q,
         q = [page EXCEPT !.line = l] \/ (q = page /\ l = page.line),
         Render(Remounted(q)), QuietServer,
         submit' = [submit EXCEPT !.stage = "idle"]
  PROVE  PageSide'
<1> DEFINE p == Remounted(q)
<1>1. PageShaped(page)
  BY PageIsRaw DEF PageSide
<1>2. /\ DOMAIN p = DOMAIN page /\ p.draft = page.draft /\ p.rates = page.rates
      /\ p.taxes = page.taxes /\ p.ship = Idle /\ p.tax = Idle /\ p.pay = IdlePayment
      /\ p.line = l
  BY <1>1 DEF PageShaped, Remounted
<1>3. submit'.secret = submit.secret
  OBVIOUS
<1> HIDE DEF p
<1>4. DraftShaped(p.draft)
  BY <1>1, <1>2 DEF PageShaped
<1> QED  BY <1>2, <1>3, <1>4, EditKeeps DEF p

LEMMA ChangeProductKeeps ==
  ASSUME PageSide, clock \in Nat, NEW size \in Sizes \cup {None}, NEW art \in Arts,
         ChangeProduct(size, art)
  PROVE  PageSide'
<1> DEFINE g == [page.line.goods EXCEPT !.size = size, !.art = art]
<1>1. page.line.goods \in Goods
  BY PageIsRaw DEF PageSide, PageShaped, LineShaped
<1>2. g \in Goods
  BY <1>1 DEF Goods
<1>3. LineShaped(QuotedLine(g))
  BY <1>2 DEF LineShaped, QuotedLine
<1>4. /\ Render(Remounted([page EXCEPT !.line = QuotedLine(g)])) /\ QuietServer
      /\ submit' = [submit EXCEPT !.stage = "idle"]
  BY DEF ChangeProduct
<1> QED  BY <1>3, <1>4, ReopenKeeps

LEMMA ReloadKeeps ==
  ASSUME PageSide, clock \in Nat, Reload
  PROVE  PageSide'
<1>1. LineShaped(page.line)
  BY PageIsRaw DEF PageSide, PageShaped
<1>2. /\ Render(Remounted(page)) /\ QuietServer
      /\ submit' = [submit EXCEPT !.stage = "idle"]
  BY DEF Reload
<1> QED  BY <1>1, <1>2, ReopenKeeps

LEMMA RetryKeeps ==
  ASSUME PageSide, clock \in Nat, Retry
  PROVE  PageSide'
<1>1. PageShaped(page) /\ DraftShaped(page.draft) /\ LineShaped(page.line)
  BY PageIsRaw DEF PageSide, PageShaped
<1>2. QuietServer /\ submit' = submit
  BY DEF Retry
<1>3. \E p : /\ Render(p)
             /\ DOMAIN p = DOMAIN page /\ p.draft = page.draft /\ p.line = page.line
             /\ p.rates = page.rates /\ p.taxes = page.taxes
             /\ p.ship \in {page.ship, Dropped(page.ship)}
             /\ p.tax \in {page.tax, Dropped(page.tax)}
             /\ p.pay \in {page.pay, [Dropped(page.pay) EXCEPT !.run = None]}
  <2>1. CASE Render([page EXCEPT !.tax = Dropped(@)])
    BY <1>1, <2>1 DEF PageShaped
  <2>2. CASE Render([page EXCEPT !.ship = Dropped(@)])
    BY <1>1, <2>2 DEF PageShaped
  <2>3. CASE Render([page EXCEPT !.pay = [Dropped(@) EXCEPT !.run = None]])
    BY <1>1, <2>3 DEF PageShaped
  <2> QED  BY <2>1, <2>2, <2>3 DEF Retry
<1>4. PICK p : /\ Render(p)
               /\ DOMAIN p = DOMAIN page /\ p.draft = page.draft /\ p.line = page.line
               /\ p.rates = page.rates /\ p.taxes = page.taxes
               /\ p.ship \in {page.ship, Dropped(page.ship)}
               /\ p.tax \in {page.tax, Dropped(page.tax)}
               /\ p.pay \in {page.pay, [Dropped(page.pay) EXCEPT !.run = None]}
  BY <1>3
<1> QED  BY <1>1, <1>2, <1>4, EditKeeps

(***************************************************************************)
(* The shipping rate and the tax.                                          *)
(***************************************************************************)
LEMMA LinksOf ==
  ASSUME NEW p, NEW q, q.pay = p.pay, q.line = p.line, q.draft.cart = p.draft.cart,
         NEW ps, NEW cs, NEW is, NEW s, Links(p, ps, cs, is, s)
  PROVE  Links(q, ps, cs, is, s)
<1>1. Heard(q, ps, cs)
  BY DEF Links, Heard
<1>2. GotHolds(q, ps, cs, is)
  BY DEF Links, GotHolds, Got
<1>3. OthersOld(q, ps)
  BY DEF Links, OthersOld, Got
<1>4. HeldIsGot(q, ps, is, s)
  BY DEF Links, HeldIsGot, Got
<1> QED  BY <1>1, <1>2, <1>3, <1>4 DEF Links

LEMMA QuoteKeeps ==
  ASSUME PageSide, clock \in Nat, NEW p, Raw(p), Render(p), QuietServer, submit' = submit,
         p.pay = page.pay, p.line = page.line, p.draft.cart = page.draft.cart
  PROVE  PageSide'
<1>1. Links(p, preps, carts, intents, submit.secret)
  BY LinksOf DEF PageSide
<1>2. PageInv(page', clock) /\ Links(page', preps, carts, intents, submit.secret)
  BY <1>1, RenderPage, RenderLinks
<1> QED  BY <1>2 DEF PageSide, QuietServer, serverVars

\* Only the rate's hook moves on, for the same key.
LEMMA ShipMoves ==
  ASSUME PageInv(page, clock), NEW h, NEW p, p = [page EXCEPT !.ship = h],
         HookShaped(h), h.active = page.ship.active, h.seen = page.ship.seen,
         AskedRate(h), Settled(h, page.rates)
  PROVE  /\ Raw(p) /\ p.pay = page.pay /\ p.line = page.line
         /\ p.draft.cart = page.draft.cart
<1>1. Raw(page) /\ PageShaped(page)
  BY PageIsRaw
<1>2. /\ DOMAIN p = DOMAIN page /\ p.draft = page.draft /\ p.line = page.line
      /\ p.rates = page.rates /\ p.taxes = page.taxes /\ p.tax = page.tax /\ p.pay = page.pay
      /\ p.ship = h /\ p.ship.active = page.ship.active /\ p.ship.seen = page.ship.seen
  BY <1>1 DEF PageShaped
<1>3. PageShaped(p)
  BY <1>1, <1>2 DEF PageShaped
<1>4. SeenRate(p) /\ SeenTax(p) /\ AskedPayment(p)
  <2>1. SeenRate(page) /\ SeenTax(page) /\ AskedPayment(page)
    BY <1>1 DEF Raw, Sound
  <2>2. SeenRate(p)
    BY ONLY <1>2, <2>1 DEF SeenRate
  <2>3. SeenTax(p)
    BY ONLY <1>2, <2>1 DEF SeenTax
  <2>4. AskedPayment(p)
    BY ONLY <1>2, <2>1 DEF AskedPayment, Asked
  <2> QED  BY <2>2, <2>3, <2>4
<1>5. Sound(p)
  BY <1>1, <1>2, <1>3, <1>4 DEF Raw, Sound
<1>6. RateInTime(p, clock) /\ AskedInTime(p, clock)
  <2>1. RateInTime(page, clock) /\ AskedInTime(page, clock)
    BY <1>1 DEF Raw
  <2>2. RateInTime(p, clock)
    BY ONLY <1>2, <2>1 DEF RateInTime
  <2>3. AskedInTime(p, clock)
    BY ONLY <1>2, <2>1 DEF AskedInTime, Asked
  <2> QED  BY <2>2, <2>3
<1> QED  BY <1>1, <1>2, <1>5, <1>6 DEF Raw

\* Only the tax's hook moves on, for the same key.
LEMMA TaxMoves ==
  ASSUME PageInv(page, clock), NEW h, NEW p, p = [page EXCEPT !.tax = h],
         HookShaped(h), h.active = page.tax.active, h.seen = page.tax.seen,
         AskedTax(h), Settled(h, page.taxes),
         h.phase = "asked" => clock <= h.asked.ship.exp
  PROVE  /\ Raw(p) /\ p.pay = page.pay /\ p.line = page.line
         /\ p.draft.cart = page.draft.cart
<1>1. Raw(page) /\ PageShaped(page)
  BY PageIsRaw
<1>2. /\ DOMAIN p = DOMAIN page /\ p.draft = page.draft /\ p.line = page.line
      /\ p.rates = page.rates /\ p.taxes = page.taxes /\ p.ship = page.ship /\ p.pay = page.pay
      /\ p.tax = h /\ p.tax.active = page.tax.active /\ p.tax.seen = page.tax.seen
  BY <1>1 DEF PageShaped
<1>3. PageShaped(p)
  BY <1>1, <1>2 DEF PageShaped
<1>4. SeenRate(p) /\ SeenTax(p) /\ AskedPayment(p)
  <2>1. SeenRate(page) /\ SeenTax(page) /\ AskedPayment(page)
    BY <1>1 DEF Raw, Sound
  <2>2. SeenRate(p)
    BY ONLY <1>2, <2>1 DEF SeenRate
  <2>3. SeenTax(p)
    BY ONLY <1>2, <2>1 DEF SeenTax
  <2>4. AskedPayment(p)
    BY ONLY <1>2, <2>1 DEF AskedPayment, Asked
  <2> QED  BY <2>2, <2>3, <2>4
<1>5. Sound(p)
  BY <1>1, <1>2, <1>3, <1>4 DEF Raw, Sound
<1>6. RateInTime(p, clock) /\ AskedInTime(p, clock)
  <2>1. AskedInTime(page, clock)
    BY <1>1 DEF Raw
  <2>2. RateInTime(p, clock)
    BY <1>2 DEF RateInTime
  <2>3. AskedInTime(p, clock)
    BY ONLY <1>2, <2>1 DEF AskedInTime, Asked
  <2> QED  BY <2>2, <2>3
<1> QED  BY <1>1, <1>2, <1>5, <1>6 DEF Raw

\* What the page shows as ready, and is not about to ask for again, is a rate of
\* its draft.
LEMMA ReadyRate ==
  ASSUME PageInv(page, clock), page.view.ship = "ready", page.ship.phase # "timer"
  PROVE  /\ page.draft.addr \in Addresses /\ page.line.goods \in Goods
         /\ page.draft.ship \in ShippingQuotes /\ page.draft.ship # None
         /\ RateFits(page.draft.ship, page.draft.addr, page.line.goods)
<1>1. PageShaped(page) /\ ShipShown(page) /\ SeenRate(page)
  BY DEF PageInv, Sound
<1>2. /\ page.draft.addr # None /\ page.ship.seen = ShippingKey(page)
  BY <1>1 DEF ShipShown
<1>3. /\ page.draft.addr \in Addresses /\ page.line.goods \in Goods /\ page.ship.seen # None
      /\ page.ship.seen = RateKey(page.draft.addr, page.line.goods)
  BY <1>1, <1>2, KeyTypes
<1>4. page.draft.ship # None /\ OfRate(page.draft.ship.sig) = page.ship.seen
  BY <1>1, <1>3 DEF SeenRate
<1>5. page.draft.ship \in ShippingQuotes
  BY <1>1, <1>4 DEF PageShaped, DraftShaped
<1> QED  BY <1>3, <1>4, <1>5 DEF RateFits, OfRate

LEMMA AskRateKeeps ==
  ASSUME PageSide, clock \in Nat, AskRate
  PROVE  PageSide'
<1> DEFINE h == Loading(page.ship, [addr |-> page.draft.addr, goods |-> page.line.goods])
           p == [page EXCEPT !.ship = h]
<1>1. /\ PageInv(page, clock) /\ PageShaped(page) /\ ShipShown(page)
      /\ HookShaped(page.ship)
  BY PageIsRaw DEF PageSide, PageInv, PageShaped
<1>2. page.ship.phase = "timer" /\ Render(p) /\ QuietServer /\ submit' = submit
  BY DEF AskRate, QuietPage
<1>3. page.ship.active # None /\ page.ship.active = ShippingKey(page)
  BY <1>1, <1>2 DEF HookShaped, ShipShown
<1>4. HookShaped(h) /\ h.active = page.ship.active /\ h.seen = page.ship.seen
      /\ h.phase = "asked" /\ h.asked = [addr |-> page.draft.addr, goods |-> page.line.goods]
  BY <1>1, <1>3 DEF Loading, HookShaped
<1> HIDE DEF h
<1>5. AskedRate(h) /\ Settled(h, page.rates)
  BY <1>1, <1>3, <1>4, KeyTypes DEF AskedRate, Settled, Failing
<1> QED  BY <1>1, <1>2, <1>4, <1>5, ShipMoves, QuoteKeeps

LEMMA AskTaxKeeps ==
  ASSUME PageSide, clock \in Nat, AskTax
  PROVE  PageSide'
<1> DEFINE in == [addr |-> page.draft.addr, goods |-> page.line.goods, ship |-> page.draft.ship]
           h == Loading(page.tax, in)
           p == [page EXCEPT !.tax = h]
<1>1. /\ PageInv(page, clock) /\ PageShaped(page) /\ TaxShown(page)
      /\ HookShaped(page.tax) /\ InTime(page, clock)
  BY PageIsRaw DEF PageSide, PageInv, PageShaped
<1>2. /\ page.tax.phase = "timer" /\ page.ship.phase # "timer"
      /\ Render(p) /\ QuietServer /\ submit' = submit
  BY DEF AskTax, QuietPage
<1>3. page.tax.active # None /\ page.tax.active = KeyOfTax(page) /\ page.view.ship = "ready"
  BY <1>1, <1>2 DEF HookShaped, TaxShown
<1>4. /\ HookShaped(h) /\ h.active = page.tax.active /\ h.seen = page.tax.seen
      /\ h.phase = "asked" /\ h.asked = in
  BY <1>1, <1>3 DEF Loading, HookShaped
<1> HIDE DEF h
<1>5. /\ in.addr \in Addresses /\ in.goods \in Goods /\ in.ship \in ShippingQuotes
      /\ RateFits(in.ship, in.addr, in.goods) /\ clock <= in.ship.exp
  BY <1>1, <1>2, <1>3, ReadyRate DEF InTime
<1>6. AskedTax(h) /\ Settled(h, page.taxes)
  BY <1>3, <1>4, <1>5 DEF AskedTax, Settled, Failing, KeyOfTax
<1> QED  BY <1>1, <1>2, <1>4, <1>5, <1>6, TaxMoves, QuoteKeeps

LEMMA FailedIs ==
  ASSUME NEW h, HookShaped(h), NEW cache
  PROVE  /\ HookShaped(Failed(h)) /\ Failed(h).active = h.active /\ Failed(h).seen = h.seen
         /\ Failed(h).phase = "none" /\ Settled(Failed(h), cache)
BY DEF HookShaped, Failed, Settled, Failing

LEMMA QuoteFailsKeeps ==
  ASSUME PageSide, clock \in Nat, QuoteFails
  PROVE  PageSide'
<1>1. PageInv(page, clock) /\ HookShaped(page.ship) /\ HookShaped(page.tax)
  BY PageIsRaw DEF PageSide, PageShaped
<1>2. QuietServer /\ submit' = submit
  BY DEF QuoteFails, QuietServer
<1>3. CASE Render([page EXCEPT !.ship = Failed(@)])
  <2> DEFINE h == Failed(page.ship)
  <2>1. /\ HookShaped(h) /\ h.active = page.ship.active /\ h.seen = page.ship.seen
        /\ h.phase = "none" /\ Settled(h, page.rates)
    BY <1>1, FailedIs
  <2> HIDE DEF h
  <2>2. AskedRate(h)
    BY <2>1 DEF AskedRate
  <2>3. Render([page EXCEPT !.ship = h])
    BY <1>3 DEF h
  <2> QED  BY <1>1, <1>2, <2>1, <2>2, <2>3, ShipMoves, QuoteKeeps
<1>4. CASE Render([page EXCEPT !.tax = Failed(@)])
  <2> DEFINE h == Failed(page.tax)
  <2>1. /\ HookShaped(h) /\ h.active = page.tax.active /\ h.seen = page.tax.seen
        /\ h.phase = "none" /\ Settled(h, page.taxes)
    BY <1>1, FailedIs
  <2> HIDE DEF h
  <2>2. AskedTax(h)
    BY <2>1 DEF AskedTax
  <2>3. Render([page EXCEPT !.tax = h])
    BY <1>4 DEF h
  <2> QED  BY <1>1, <1>2, <2>1, <2>2, <2>3, TaxMoves, QuoteKeeps
<1> QED  BY <1>3, <1>4 DEF QuoteFails

\* A cache with a quote of this moment.
LEMMA WriteFinds ==
  ASSUME NEW K, NEW Q, NEW cache \in CacheOf(K, Q), OneEach(cache),
         NEW key \in K, NEW quote \in Q, clock \in Nat, NEW w, w = WriteCached(cache, key, quote)
  PROVE  /\ w \in CacheOf(K, Q) /\ OneEach(w)
         /\ \A i \in DOMAIN w : \/ w[i] = [key |-> key, quote |-> quote, at |-> clock]
                                \/ w[i].key # key /\ \E j \in DOMAIN cache : w[i] = cache[j]
         /\ \A i \in Entries(w, key) : w[i].quote = quote
         /\ Cached(w, key) = quote
<1> DEFINE S == [key : K, quote : Q, at : Nat]
           e == [key |-> key, quote |-> quote, at |-> clock]
<1>1. cache \in Seq(S) /\ e \in S
  BY DEF CacheOf
<1>2. MaxEntries \in Nat \ {0}
  BY PageAssumption
<1> HIDE DEF S
<1>3. /\ w \in Seq(S) /\ OneEach(w) /\ Len(w) \in DOMAIN w /\ w[Len(w)] = e
      /\ \A i \in DOMAIN w : \/ i = Len(w)
                             \/ w[i].key # key /\ \E j \in DOMAIN cache : w[i] = cache[j]
  BY <1>1, <1>2, WriteIs
<1>4. w \in CacheOf(K, Q)
  BY <1>3 DEF S, CacheOf
<1>5. w[Len(w)].key = key /\ w[Len(w)].at = clock /\ w[Len(w)].quote = quote
  BY <1>3
<1>6. Cached(w, key) = quote
  <2> DEFINE n == Len(w)
  <2>1. n \in DOMAIN w /\ w[n].key = key /\ w[n].at = clock /\ w[n].quote = quote
    BY <1>3, <1>5
  <2> HIDE DEF n
  <2> QED  BY <1>3, <2>1, CachedNow, Ttls
<1>7. \A i \in Entries(w, key) : w[i].quote = quote
  BY <1>3, <1>5 DEF Entries
<1> QED  BY <1>3, <1>4, <1>6, <1>7

LEMMA RateArrivesKeeps ==
  ASSUME PageSide, clock \in Nat, rev \in Nat, RateArrives
  PROVE  PageSide'
<1> DEFINE in    == page.ship.asked
           quote == ShippingQuote(in.addr, in.goods)
           key   == page.ship.active
           w     == WriteCached(page.rates, key, quote)
           h     == Loaded(page.ship)
           p     == [page EXCEPT !.rates = w, !.ship = h, !.draft.ship = quote]
<1>1. /\ PageInv(page, clock) /\ PageShaped(page) /\ HookShaped(page.ship)
      /\ Raw(page) /\ Sound(page)
      /\ RatesSound(page.rates) /\ TaxesSound(page.taxes) /\ AskedRate(page.ship)
  BY PageIsRaw DEF PageSide, PageInv, PageShaped, Sound
<1>2. page.ship.phase = "asked" /\ Render(p) /\ QuietServer /\ submit' = submit
  BY DEF RateArrives, QuietPage
<1>3. in.addr \in Addresses /\ in.goods \in Goods /\ RateKey(in.addr, in.goods) = key
      /\ key \in ShippingKeys /\ key # None
  BY <1>1, <1>2 DEF AskedRate, HookShaped, PageShaped
<1>4. /\ quote \in ShippingQuotes /\ quote # None
      /\ OfRate(quote.sig) = key /\ quote.exp = clock + QuoteTtl
  <2>1. ShipSignature(in.addr, in.goods) \in Zips \X Quantities
    BY <1>3 DEF ShipSignature, Zips, Goods
  <2>2. quote = [sig |-> ShipSignature(in.addr, in.goods), amt |-> rev, exp |-> clock + QuoteTtl]
    BY DEF ShippingQuote, FlatRate
  <2>3. quote \in ShippingQuotes
    BY <2>1, <2>2, Ttls DEF ShippingQuotes
  <2>4. OfRate(quote.sig) = RateKey(in.addr, in.goods)
    BY <2>2 DEF OfRate, ShipSignature, RateKey
  <2> QED  BY <1>3, <2>2, <2>3, <2>4, CheckoutAssumption
<1>5. /\ HookShaped(h) /\ h.active = key /\ h.seen = key /\ h.phase = "none"
  BY <1>1 DEF HookShaped, Loaded
<1> HIDE DEF quote, h, w
<1>6. /\ w \in CacheOf(ShippingKeys, ShippingQuotes) /\ OneEach(w)
      /\ \A i \in DOMAIN w : \/ w[i] = [key |-> key, quote |-> quote, at |-> clock]
                             \/ w[i].key # key /\ \E j \in DOMAIN page.rates : w[i] = page.rates[j]
      /\ \A i \in Entries(w, key) : w[i].quote = quote
      /\ Cached(w, key) = quote
  BY <1>1, <1>3, <1>4, WriteFinds DEF w, RatesSound
<1>7. /\ DOMAIN p = DOMAIN page /\ p.line = page.line /\ p.rates = w
      /\ p.taxes = page.taxes /\ p.tax = page.tax /\ p.pay = page.pay /\ p.ship = h
      /\ DOMAIN p.draft = DOMAIN page.draft /\ p.draft.ship = quote
      /\ p.draft.tax = page.draft.tax /\ p.draft.addr = page.draft.addr
      /\ p.draft.cart = page.draft.cart
  BY <1>1 DEF PageShaped, DraftShaped
<1> HIDE DEF p
<1>8. RatesSound(p.rates)
  BY <1>1, <1>4, <1>6, <1>7 DEF RatesSound
<1>9. PageShaped(p)
  BY <1>1, <1>3, <1>4, <1>5, <1>7 DEF PageShaped, DraftShaped
<1>10. SeenRate(p) /\ SeenTax(p) /\ AskedRate(p.ship)
  BY <1>1, <1>4, <1>5, <1>6, <1>7 DEF Sound, SeenRate, SeenTax, AskedRate
<1>11. Sound(p)
  BY <1>1, <1>7, <1>8, <1>9, <1>10 DEF Sound, AskedPayment, Asked
<1>14. RateInTime(p, clock)
  BY <1>1, <1>7 DEF Raw, RateInTime
<1>15. AskedInTime(p, clock)
  BY <1>1, <1>7 DEF Raw, AskedInTime, Asked
<1>16. Settled(p.ship, p.rates) /\ Settled(p.tax, p.taxes)
  BY <1>1, <1>4, <1>5, <1>6, <1>7 DEF Raw, Settled
<1>17. Raw(p)
  BY <1>11, <1>14, <1>15, <1>16 DEF Raw
<1> QED  BY <1>2, <1>7, <1>17, QuoteKeeps

LEMMA TaxArrivesKeeps ==
  ASSUME PageSide, clock \in Nat, rev \in Nat, TaxArrives
  PROVE  PageSide'
<1> DEFINE in    == page.tax.asked
           quote == TaxQuote(in.addr, in.goods, in.ship)
           key   == page.tax.active
           w     == WriteCached(page.taxes, key, quote)
           h     == Loaded(page.tax)
           p     == [page EXCEPT !.taxes = w, !.tax = h, !.draft.tax = quote]
<1>1. /\ PageInv(page, clock) /\ PageShaped(page) /\ HookShaped(page.tax)
      /\ Raw(page) /\ Sound(page) /\ RateInTime(page, clock)
      /\ RatesSound(page.rates) /\ TaxesSound(page.taxes) /\ AskedTax(page.tax)
  BY PageIsRaw DEF PageSide, PageInv, PageShaped, Sound
<1>2. page.tax.phase = "asked" /\ QuietServer /\ submit' = submit
  BY DEF TaxArrives, QuietPage
<1>3. CASE Render([page EXCEPT !.tax = Failed(@)])
  <2> DEFINE g == Failed(page.tax)
  <2>1. /\ HookShaped(g) /\ g.active = page.tax.active /\ g.seen = page.tax.seen
        /\ g.phase = "none" /\ Settled(g, page.taxes)
    BY <1>1, FailedIs
  <2> HIDE DEF g
  <2>2. AskedTax(g)
    BY <2>1 DEF AskedTax
  <2>3. Render([page EXCEPT !.tax = g])
    BY <1>3 DEF g
  <2> QED  BY <1>1, <1>2, <2>1, <2>2, <2>3, TaxMoves, QuoteKeeps
<1>4. CASE Render(p)
  <2>1. /\ in.addr \in Addresses /\ in.goods \in Goods /\ in.ship \in ShippingQuotes
        /\ key = <<PlaceOf(in.addr), in.goods.qty, in.goods.size>>
        /\ key \in TaxKeys /\ key # None
    BY <1>1, <1>2 DEF AskedTax, HookShaped, PageShaped
  <2>2. /\ in.goods.qty \in Quantities /\ in.goods.size \in Sizes \cup {None}
        /\ Typed(in.addr) \in TypedPlaces /\ PlaceOf(in.addr) \in Places /\ in.ship.amt \in Nat
    BY <2>1 DEF Goods, TypedPlaces, Places, ShippingQuotes
  <2>3. quote = [sig |-> <<Typed(in.addr), in.goods.qty, in.ship.amt>>,
                 amt |-> <<UnitPrice(rev, in.goods), in.goods.qty, in.ship.amt, PlaceOf(in.addr)>>,
                 exp |-> clock + QuoteTtl]
    BY DEF TaxQuote, TaxSignature
  <2>4. UnitPrice(rev, in.goods) \in Prices
    BY <2>2 DEF UnitPrice, Prices
  <2>5. quote \in TaxQuotes /\ quote # None
    <3>1. /\ quote.sig \in TypedPlaces \X Quantities \X Nat
          /\ quote.amt \in Prices \X Quantities \X Nat \X Places
          /\ quote.exp \in Nat
      BY <2>2, <2>3, <2>4, Ttls
    <3>2. quote \in TaxQuotes
      BY <2>3, <3>1 DEF TaxQuotes
    <3> QED  BY <3>2, CheckoutAssumption
  <2>6. OfTax(quote.sig) = Of(key) /\ quote.exp = clock + QuoteTtl
    <3> DEFINE qs == quote.sig
               a  == Typed(in.addr)
               q  == in.goods.qty
               m  == in.ship.amt
    <3>1. qs = <<a, q, m>> /\ quote.exp = clock + QuoteTtl
      BY <2>3
    <3>2. key = <<Trimmed(a), q, in.goods.size>>
      BY <2>1 DEF PlaceOf
    <3> HIDE DEF qs, a, q, m, quote, key
    <3>3. qs[1] = a /\ qs[2] = q
      BY ONLY <3>1
    <3>4. key[1] = Trimmed(a) /\ key[2] = q
      BY ONLY <3>2
    <3>5. OfTax(qs) = <<Trimmed(a), q>> /\ Of(key) = <<Trimmed(a), q>>
      BY ONLY <3>3, <3>4 DEF OfTax, Of
    <3> QED  BY <3>1, <3>5 DEF qs
  <2>7. /\ HookShaped(h) /\ h.active = key /\ h.seen = key /\ h.phase = "none"
    BY <1>1 DEF HookShaped, Loaded
  <2> HIDE DEF quote, h, w
  <2>8. /\ w \in CacheOf(TaxKeys, TaxQuotes) /\ OneEach(w)
        /\ \A i \in DOMAIN w : \/ w[i] = [key |-> key, quote |-> quote, at |-> clock]
                               \/ w[i].key # key /\ \E j \in DOMAIN page.taxes : w[i] = page.taxes[j]
        /\ \A i \in Entries(w, key) : w[i].quote = quote
        /\ Cached(w, key) = quote
    <3>1. page.taxes \in CacheOf(TaxKeys, TaxQuotes) /\ OneEach(page.taxes)
      BY <1>1 DEF TaxesSound
    <3>2. key \in TaxKeys /\ quote \in TaxQuotes /\ w = WriteCached(page.taxes, key, quote)
      BY <2>1, <2>5 DEF w
    <3> HIDE DEF key
    <3> QED  BY <3>1, <3>2, WriteFinds
  <2>9. /\ DOMAIN p = DOMAIN page /\ p.line = page.line /\ p.rates = page.rates
        /\ p.taxes = w /\ p.ship = page.ship /\ p.pay = page.pay /\ p.tax = h
        /\ DOMAIN p.draft = DOMAIN page.draft /\ p.draft.tax = quote
        /\ p.draft.ship = page.draft.ship /\ p.draft.addr = page.draft.addr
        /\ p.draft.cart = page.draft.cart
    BY <1>1 DEF PageShaped, DraftShaped
  <2> HIDE DEF p
  <2>10. TaxesSound(p.taxes)
    BY <1>1, <2>6, <2>8, <2>9 DEF TaxesSound
  <2>11. PageShaped(p)
    BY <1>1, <2>1, <2>5, <2>7, <2>9 DEF PageShaped, DraftShaped
  <2>12. SeenRate(p) /\ SeenTax(p) /\ AskedTax(p.tax)
    BY <1>1, <2>5, <2>6, <2>7, <2>8, <2>9 DEF Sound, SeenRate, SeenTax, AskedTax
  <2>13. Sound(p)
    BY <1>1, <2>9, <2>10, <2>11, <2>12 DEF Sound, AskedPayment, Asked
  <2>16. RateInTime(p, clock)
    BY <2>7, <2>9 DEF RateInTime
  <2>17. AskedInTime(p, clock)
    BY <1>1, <2>9 DEF Raw, AskedInTime, Asked
  <2>18. Settled(p.ship, p.rates) /\ Settled(p.tax, p.taxes)
    BY <1>1, <2>5, <2>7, <2>8, <2>9 DEF Raw, Settled
  <2>19. Raw(p)
    BY <2>13, <2>16, <2>17, <2>18 DEF Raw
  <2>20. Render(p)
    BY <1>4
  <2> QED  BY <1>2, <2>9, <2>19, <2>20, QuoteKeeps
<1> QED  BY <1>3, <1>4 DEF TaxArrives

(***************************************************************************)
(* The payment session.                                                    *)
(***************************************************************************)
\* Only the payment's hook moves on, and what of the line or of the draft no
\* hook has asked for.
LEMMA PayMoves ==
  ASSUME PageInv(page, clock), NEW p, DOMAIN p = DOMAIN page,
         DraftShaped(p.draft), p.draft.ship = page.draft.ship, p.draft.tax = page.draft.tax,
         LineShaped(p.line), p.rates = page.rates, p.taxes = page.taxes,
         p.ship = page.ship, p.tax = page.tax,
         PayShaped(p.pay), AskedPayment(p), AskedInTime(p, clock)
  PROVE  Raw(p)
<1>1. Raw(page) /\ PageShaped(page)
  BY PageIsRaw
<1>2. PageShaped(p)
  BY <1>1 DEF PageShaped
<1>3. SeenRate(p) /\ SeenTax(p)
  BY <1>1 DEF Raw, Sound, SeenRate, SeenTax
<1>4. Sound(p)
  BY <1>1, <1>2, <1>3 DEF Raw, Sound
<1>5. RateInTime(p, clock)
  BY <1>1 DEF Raw, RateInTime
<1> QED  BY <1>1, <1>4, <1>5 DEF Raw

\* What a payment may be asked with: quotes in time that fit its line and address.
Payable(d, l) ==
    /\ DraftShaped(d) /\ d.addr # None /\ d.ship # None /\ d.tax # None
    /\ LineShaped(l)
    /\ page.pay.active = <<d.tax, StreetOf[d.addr], l.goods.qty, l.goods.size>>
    /\ RateFits(d.ship, d.addr, l.goods) /\ TaxFits(d.tax, d.addr, l.goods)
    /\ clock <= d.ship.exp /\ clock <= d.tax.exp

\* A tax that is shown, and is not about to be asked for again, is of the draft.
LEMMA TaxOfDraft ==
  ASSUME PageShaped(page), TaxShown(page), SeenTax(page), page.draft.addr # None,
         page.view.tax = "ready", page.tax.phase # "timer"
  PROVE  TaxFits(page.draft.tax, page.draft.addr, page.line.goods)
<1>1. /\ page.tax.seen = KeyOfTax(page) /\ KeyOfTax(page) \in TaxKeys
      /\ Of(KeyOfTax(page)) = <<PlaceOf(page.draft.addr), page.line.goods.qty>>
  BY KeyTypes DEF TaxShown
<1>2. OfTax(page.draft.tax.sig) = Of(page.tax.seen)
  BY <1>1, PageAssumption DEF SeenTax
<1> QED  BY <1>1, <1>2 DEF TaxFits, OfTax

\* A payment that is due has an address and quotes that fit and are in time.
LEMMA PaymentDue ==
  ASSUME PageInv(page, clock), page.pay.phase = "timer", ~QuoteDue
  PROVE  Payable(page.draft, page.line)
<1>1. /\ PageShaped(page) /\ PayShaped(page.pay) /\ ShipShown(page) /\ TaxShown(page)
      /\ PayShown(page) /\ SeenTax(page) /\ InTime(page, clock)
  BY DEF PageInv, Sound, PageShaped
<1>2. page.ship.phase # "timer" /\ page.tax.phase # "timer"
  BY DEF QuoteDue
<1>3. page.pay.active # None
  BY <1>1 DEF PayShaped
<1>4. /\ page.view.tax = "ready" /\ page.draft.tax # None /\ page.pay.active = KeyOfPayment(page)
      /\ page.view.ship = "ready"
  BY <1>1, <1>3 DEF PayShown, TaxShown
<1>5. /\ page.draft.addr \in Addresses /\ page.draft.ship # None
      /\ RateFits(page.draft.ship, page.draft.addr, page.line.goods)
  BY <1>2, <1>4, ReadyRate
<1>6. page.draft.addr # None
  BY <1>5, CheckoutAssumption
<1>7. TaxFits(page.draft.tax, page.draft.addr, page.line.goods)
  BY <1>1, <1>2, <1>4, <1>6, TaxOfDraft
<1>8. clock <= page.draft.ship.exp /\ clock <= page.draft.tax.exp
  BY <1>1, <1>2 DEF InTime, Due
<1>9. DraftShaped(page.draft) /\ LineShaped(page.line)
  BY <1>1 DEF PageShaped
<1> QED  BY <1>4, <1>5, <1>6, <1>7, <1>8, <1>9 DEF KeyOfPayment, Payable

\* What has been asked for is still so.
LEMMA PaymentAsked ==
  ASSUME PageInv(page, clock), Asked(page)
  PROVE  /\ Payable(page.pay.asked.draft, page.pay.asked.line)
         /\ page.pay.asked.line.goods.art = page.line.goods.art
         /\ page.pay.asked.draft.cart = page.draft.cart
BY DEF PageInv, Sound, AskedPayment, AskedInTime, Payable

\* A new request of the page is asking, and every other is of before.
LEMMA PostRuns ==
  ASSUME ServerSide, NEW r \in Prepares, NEW q, PostPrepare(r, q),
         q.addr \in Addresses, q.goods \in Goods,
         q.ship \in ShippingQuotes, q.tax \in TaxQuotes, q.cart \in 0..Len(carts)
  PROVE  /\ RunsShaped(preps', carts, intents)
         /\ preps'[r].stage = "lines" /\ preps'[r].req = q
         /\ \A o \in Prepares \ {r} : preps'[o].stage # "idle" => preps'[o].old
<1>1. DOMAIN preps' = Prepares /\ preps[r].stage = "idle"
  BY DEF PostPrepare
<1>2. preps'[r] = [stage |-> "lines", req |-> q, unit |-> None, cart |-> 0,
                   seen |-> None, old |-> FALSE]
  BY DEF PostPrepare
<1>3. Asking(preps'[r], carts, intents)
  BY <1>2 DEF Asking, AtCart
<1>4. ASSUME NEW o \in Prepares \ {r}
      PROVE  /\ RunShaped(preps'[o], carts, intents)
             /\ preps'[o].stage # "idle" => preps'[o].old
  <2>1. RunShaped(preps[o], carts, intents)
    BY DEF ServerSide, RunsShaped
  <2>2. CASE preps[o].stage = "idle"
    <3>1. preps'[o] = preps[o]
      BY <2>2 DEF PostPrepare
    <3> QED  BY <2>1, <2>2, <3>1
  <2>3. CASE preps[o].stage # "idle"
    <3>1. preps'[o] = [preps[o] EXCEPT !.old = TRUE]
      BY <2>3 DEF PostPrepare
    <3>2. Asking(preps[o], carts, intents) \/ Answered(preps[o], carts, intents)
      BY <2>1, <2>3 DEF RunShaped, IdlePrepare
    <3>3. CASE Asking(preps[o], carts, intents)
      BY <3>1, <3>3 DEF Asking, RunShaped
    <3>4. CASE Answered(preps[o], carts, intents)
      BY <3>1, <3>4 DEF Answered, RunShaped
    <3> QED  BY <3>2, <3>3, <3>4
  <2> QED  BY <2>2, <2>3
<1>5. RunShaped(preps'[r], carts, intents)
  BY <1>3 DEF RunShaped
<1>6. \A x \in Prepares : RunShaped(preps'[x], carts, intents)
  BY <1>4, <1>5
<1>7. RunsShaped(preps', carts, intents)
  BY <1>1, <1>6 DEF RunsShaped
<1>8. preps'[r].stage = "lines" /\ preps'[r].req = q
  BY <1>2
<1> QED  BY <1>4, <1>7, <1>8

\* A request leaves with what may be paid, and the page listens to it.
LEMMA PostKeeps ==
  ASSUME PageSide, ServerSide, clock \in Nat, NEW p, NEW d, NEW l, NEW forced,
         Post(p, d, l, forced), UNCHANGED <<submit, clock, rev, carts, intents>>,
         DOMAIN p = DOMAIN page, p.draft = page.draft, LineShaped(p.line),
         p.rates = page.rates, p.taxes = page.taxes, p.ship = page.ship, p.tax = page.tax,
         DOMAIN p.pay = DOMAIN page.pay, p.pay.active = page.pay.active, page.pay.active # None,
         p.pay.got.key = page.pay.active, p.pay.got.status = "loading",
         Payable(d, l), d.cart = page.draft.cart, l.goods.art = p.line.goods.art
  PROVE  PageSide' /\ ServerSide'
<1> DEFINE q == [p EXCEPT !.pay.run = Free, !.pay.forced = forced, !.pay.phase = "asked",
                          !.pay.asked = [draft |-> d, line |-> l]]
<1>1. PageShaped(page) /\ PayShaped(page.pay) /\ DraftShaped(page.draft)
  BY PageIsRaw DEF PageSide, PageShaped
<1>2. Free \in Prepares /\ PostPrepare(Free, Request(d, l)) /\ Render(q)
  BY DEF Post, Room, Free
<1>3. /\ DOMAIN q = DOMAIN page /\ q.draft = page.draft /\ q.line = p.line
      /\ q.rates = page.rates /\ q.taxes = page.taxes
      /\ q.ship = page.ship /\ q.tax = page.tax
      /\ DOMAIN q.pay = DOMAIN page.pay /\ q.pay.active = page.pay.active
      /\ q.pay.got = p.pay.got /\ q.pay.phase = "asked" /\ q.pay.run = Free
      /\ q.pay.asked = [draft |-> d, line |-> l]
  BY <1>1 DEF PageShaped, PayShaped
<1> HIDE DEF q
<1>4. Free # None
  BY <1>2, CheckoutAssumption
<1>5. PayShaped(q.pay)
  BY <1>1, <1>2, <1>3, <1>4 DEF PayShaped
<1>6. AskedPayment(q) /\ AskedInTime(q, clock)
  BY <1>3 DEF AskedPayment, AskedInTime, Payable
<1>8. ~Got(q, "ready")
  BY <1>3 DEF Got
<1>9. Raw(q)
  BY <1>1, <1>3, <1>5, <1>6, PayMoves DEF PageSide
<1>10. /\ Request(d, l).addr = d.addr /\ Request(d, l).goods = l.goods
       /\ Request(d, l).ship = d.ship /\ Request(d, l).tax = d.tax
       /\ Request(d, l).cart = d.cart
  BY DEF Request
<1>11. /\ RunsShaped(preps', carts, intents)
       /\ preps'[Free].stage = "lines" /\ preps'[Free].req = Request(d, l)
       /\ \A o \in Prepares \ {Free} : preps'[o].stage # "idle" => preps'[o].old
  <2>1. /\ d.addr \in Addresses /\ l.goods \in Goods
        /\ d.ship \in ShippingQuotes /\ d.tax \in TaxQuotes
    BY DEF Payable, DraftShaped, LineShaped
  <2>2. d.cart \in 0..Len(carts)
    BY DEF PageSide, Links
  <2> DEFINE m == Request(d, l)
  <2>3. m.addr \in Addresses /\ m.goods \in Goods /\ m.ship \in ShippingQuotes
        /\ m.tax \in TaxQuotes /\ m.cart \in 0..Len(carts)
    BY <1>10, <2>1, <2>2
  <2>4. PostPrepare(Free, m)
    BY <1>2
  <2> HIDE DEF m
  <2>5. /\ RunsShaped(preps', carts, intents)
        /\ preps'[Free].stage = "lines" /\ preps'[Free].req = m
        /\ \A o \in Prepares \ {Free} : preps'[o].stage # "idle" => preps'[o].old
    BY <1>2, <2>3, <2>4, PostRuns
  <2> QED  BY <2>5 DEF m
<1>12. Links(q, preps', carts, intents, submit.secret)
  <2>1. q.draft.cart \in 0..Len(carts)
    BY <1>3 DEF PageSide, Links
  <2>2. Heard(q, preps', carts)
    BY <1>3, <1>10, <1>11 DEF Heard, HeardRun, OthersAside, HeardCart, AtCart, Succeeded
  <2>3. OthersOld(q, preps') /\ GotHolds(q, preps', carts, intents)
    BY <1>3, <1>8, <1>11 DEF OthersOld, GotHolds
  <2>4. HeldIsGot(q, preps', intents, submit.secret)
    BY <1>3, <1>8, <1>11 DEF HeldIsGot, HeldIsHeard
  <2> QED  BY <2>1, <2>2, <2>3, <2>4 DEF Links
<1>13. PageInv(page', clock) /\ Links(page', preps', carts, intents, submit.secret)
  BY <1>2, <1>9, <1>12, RenderPage, RenderLinks
<1>14. PageSide'
  BY <1>13 DEF PageSide
<1>15. ServerSide'
  BY <1>11 DEF ServerSide
<1> QED  BY <1>14, <1>15

\* A page that listens to no request and has no session relies on no cart.
LEMMA NothingHeard ==
  ASSUME NEW p, NEW ps, NEW cs, NEW is, NEW s,
         p.draft.cart \in 0..Len(cs), p.pay.run = None, ~Got(p, "ready")
  PROVE  Links(p, ps, cs, is, s)
BY DEF Links, Heard, HeardRun, OthersAside, GotHolds, OthersOld, HeldIsGot

\* The page renders what was proved of the page before the render.
LEMMA RenderKeeps ==
  ASSUME clock \in Nat, NEW p, Raw(p), Render(p), UNCHANGED <<clock, rev, carts, intents>>,
         submit'.secret = submit.secret, Links(p, preps', carts, intents, submit.secret)
  PROVE  PageSide'
<1>1. PageInv(page', clock) /\ Links(page', preps', carts, intents, submit.secret)
  BY RenderPage, RenderLinks
<1> QED  BY <1>1 DEF PageSide

LEMMA PreparePaymentKeeps ==
  ASSUME PageSide, ServerSide, clock \in Nat, PreparePayment
  PROVE  PageSide' /\ ServerSide'
<1> DEFINE in == [draft |-> page.draft, line |-> page.line]
           h  == Loading(page.pay, in)
           p  == [page EXCEPT !.pay = h]
<1>1. PageInv(page, clock) /\ PageShaped(page) /\ PayShaped(page.pay) /\ Raw(page)
  BY PageIsRaw DEF PageSide, PageShaped
<1>2. /\ page.pay.phase = "timer" /\ ~QuoteDue
      /\ UNCHANGED <<submit, clock, rev, carts, intents>>
  BY DEF PreparePayment
<1>3. page.pay.active # None /\ page.pay.run = None
  BY <1>1, <1>2 DEF PayShaped
<1>4. Payable(page.draft, page.line)
  BY <1>1, <1>2, PaymentDue
<1>5. /\ DOMAIN h = DOMAIN page.pay /\ h.phase = "asked" /\ h.asked = in
      /\ h.active = page.pay.active /\ h.run = None
      /\ h.got = [key |-> page.pay.active, status |-> "loading", secret |-> 0]
  BY <1>1, <1>3 DEF PayShaped, Loading
<1> HIDE DEF h
<1>6. /\ DOMAIN p = DOMAIN page /\ p.draft = page.draft /\ p.line = page.line
      /\ p.rates = page.rates /\ p.taxes = page.taxes
      /\ p.ship = page.ship /\ p.tax = page.tax /\ p.pay = h
  BY <1>1 DEF PageShaped
<1>7. CASE /\ Render([p EXCEPT !.pay.phase = "requote", !.pay.forced = FALSE])
           /\ UNCHANGED preps
  <2> DEFINE q == [p EXCEPT !.pay.phase = "requote", !.pay.forced = FALSE]
  <2>1. /\ DOMAIN q = DOMAIN page /\ q.draft = page.draft /\ q.line = page.line
        /\ q.rates = page.rates /\ q.taxes = page.taxes
        /\ q.ship = page.ship /\ q.tax = page.tax
        /\ DOMAIN q.pay = DOMAIN page.pay /\ q.pay.active = page.pay.active
        /\ q.pay.got = h.got /\ q.pay.phase = "requote" /\ q.pay.run = None
        /\ q.pay.asked = in
    BY <1>1, <1>5, <1>6 DEF PageShaped, PayShaped
  <2> HIDE DEF q, p
  <2>2. PayShaped(q.pay)
    BY <1>1, <1>3, <1>5, <2>1 DEF PayShaped
  <2>3. AskedPayment(q) /\ AskedInTime(q, clock)
    BY <1>4, <2>1 DEF AskedPayment, AskedInTime, Payable
  <2>5. ~Got(q, "ready")
    BY <1>5, <2>1 DEF Got
  <2>6. DraftShaped(q.draft) /\ LineShaped(q.line)
    BY <1>1, <2>1 DEF PageShaped
  <2>7. Raw(q)
    BY <1>1, <2>1, <2>2, <2>3, <2>6, PayMoves
  <2>8. Links(q, preps', carts, intents, submit.secret)
    BY <2>1, <2>5, NothingHeard DEF PageSide, Links
  <2>9. PageSide'
    BY <1>2, <1>7, <2>7, <2>8, RenderKeeps DEF q
  <2>10. ServerSide'
    BY <1>2, <1>7 DEF ServerSide
  <2> QED  BY <2>9, <2>10
<1>8. CASE Post(p, page.draft, page.line, FALSE)
  <2>1. LineShaped(p.line)
    BY <1>1, <1>6 DEF PageShaped
  <2>2. /\ DOMAIN p.pay = DOMAIN page.pay /\ p.pay.active = page.pay.active
        /\ p.pay.got.key = page.pay.active /\ p.pay.got.status = "loading"
    BY <1>5, <1>6
  <2>3. p.line.goods.art = page.line.goods.art
    BY <1>6
  <2> HIDE DEF p
  <2> QED  BY <1>2, <1>3, <1>4, <1>6, <1>8, <2>1, <2>2, <2>3, PostKeeps
<1> QED  BY <1>7, <1>8 DEF PreparePayment, h

LEMMA QuoteRenewedKeeps ==
  ASSUME PageSide, ServerSide, clock \in Nat, QuoteRenewed
  PROVE  PageSide' /\ ServerSide'
<1> DEFINE in    == page.pay.asked
           quote == PriceQuote(in.line.goods)
           fresh == [in.line EXCEPT !.token = quote, !.unit = quote.amt]
           line  == WithQuote(page.line, in.line, quote)
           p     == [page EXCEPT !.line = line]
<1>1. PageInv(page, clock) /\ PageShaped(page) /\ PayShaped(page.pay)
      /\ LineShaped(page.line)
  BY PageIsRaw DEF PageSide, PageShaped
<1>2. /\ page.pay.phase = "requote" /\ Post(p, in.draft, fresh, page.pay.forced)
      /\ UNCHANGED <<submit, clock, rev, carts, intents>>
  BY DEF QuoteRenewed
<1>3. Asked(page)
  BY <1>2 DEF Asked
<1>4. /\ Payable(in.draft, in.line) /\ in.line.goods.art = page.line.goods.art
      /\ in.draft.cart = page.draft.cart
  BY <1>1, <1>3, PaymentAsked
<1>5. LineShaped(line) /\ line.goods = page.line.goods
  BY <1>1 DEF WithQuote, LineShaped
<1>6. LineShaped(fresh) /\ fresh.goods = in.line.goods
  BY <1>4 DEF Payable, LineShaped
<1> HIDE DEF quote, fresh, line
<1>7. Payable(in.draft, fresh)
  BY <1>4, <1>6 DEF Payable
<1>8. /\ DOMAIN p = DOMAIN page /\ p.draft = page.draft /\ p.line = line
      /\ p.rates = page.rates /\ p.taxes = page.taxes
      /\ p.ship = page.ship /\ p.tax = page.tax /\ p.pay = page.pay
  BY <1>1 DEF PageShaped
<1>9. /\ page.pay.active # None /\ page.pay.got.key = page.pay.active
      /\ page.pay.got.status = "loading"
  BY <1>1, <1>2 DEF PayShaped
<1> DEFINE d == in.draft
           m == page.pay.forced
<1>10. /\ Payable(d, fresh) /\ d.cart = page.draft.cart /\ fresh.goods.art = p.line.goods.art
       /\ Post(p, d, fresh, m) /\ LineShaped(p.line)
  BY <1>2, <1>4, <1>5, <1>6, <1>7, <1>8
<1>11. DOMAIN p.pay = DOMAIN page.pay /\ p.pay.active = page.pay.active
       /\ p.pay.got.key = page.pay.active /\ p.pay.got.status = "loading"
  BY <1>8, <1>9
<1> HIDE DEF d, m, p
<1> QED  BY <1>2, <1>8, <1>9, <1>10, <1>11, PostKeeps

\* A payment that failed waits for nothing.
LEMMA PayFailedIs ==
  ASSUME NEW h, PayShaped(h), NEW status
  PROVE  LET g == [Failed(h) EXCEPT !.run = None, !.got.status = status]
         IN  /\ PayShaped(g) /\ g.phase = "none" /\ g.run = None
             /\ g.got.key = h.active /\ g.got.status = status
BY DEF PayShaped, Failed

LEMMA PaymentFailsKeeps ==
  ASSUME PageSide, ServerSide, clock \in Nat, PaymentFails
  PROVE  PageSide' /\ ServerSide'
<1> DEFINE h == [Failed(page.pay) EXCEPT !.run = None]
           p == [page EXCEPT !.pay = h]
<1>1. PageInv(page, clock) /\ PageShaped(page) /\ PayShaped(page.pay)
  BY PageIsRaw DEF PageSide, PageShaped
<1>2. PayShaped(h) /\ h.phase = "none" /\ h.run = None /\ h.got.status = "error"
  BY <1>1 DEF PayShaped, Failed
<1>3. Render(p) /\ UNCHANGED <<submit, clock, rev, serverVars>>
  BY DEF PaymentFails
<1> HIDE DEF h
<1>4. /\ DOMAIN p = DOMAIN page /\ p.draft = page.draft /\ p.line = page.line
      /\ p.rates = page.rates /\ p.taxes = page.taxes
      /\ p.ship = page.ship /\ p.tax = page.tax /\ p.pay = h
  BY <1>1 DEF PageShaped
<1> HIDE DEF p
<1>5. ~Asked(p) /\ ~Got(p, "ready")
  BY <1>2, <1>4 DEF Asked, Got
<1>6. Raw(p)
  BY <1>1, <1>2, <1>4, <1>5, PayMoves DEF PageShaped, AskedPayment, AskedInTime
<1>7. Links(p, preps', carts, intents, submit.secret)
  BY <1>2, <1>4, <1>5, NothingHeard DEF PageSide, Links
<1>8. PageSide'
  BY <1>3, <1>6, <1>7, RenderKeeps DEF serverVars
<1>9. ServerSide'
  BY <1>3 DEF ServerSide, serverVars
<1> QED  BY <1>8, <1>9

\* A run that is done with leaves its place.
LEMMA RunLeft ==
  ASSUME ServerSide, NEW r \in Prepares, preps' = [preps EXCEPT ![r] = IdlePrepare],
         UNCHANGED <<carts, intents>>
  PROVE  /\ ServerSide' /\ preps'[r].stage = "idle"
         /\ \A q \in Prepares \ {r} : preps'[q] = preps[q]
<1>1. DOMAIN preps = Prepares /\ \A q \in Prepares : RunShaped(preps[q], carts, intents)
  BY DEF ServerSide, RunsShaped
<1>2. DOMAIN preps' = Prepares /\ preps'[r] = IdlePrepare
      /\ \A q \in Prepares \ {r} : preps'[q] = preps[q]
  BY <1>1
<1>3. ASSUME NEW q \in Prepares
      PROVE  RunShaped(preps'[q], carts, intents)
  <2>1. CASE q = r
    BY <1>2, <2>1 DEF RunShaped
  <2>2. CASE q # r
    <3>1. preps'[q] = preps[q]
      BY <1>2, <2>2
    <3> QED  BY <1>1, <3>1
  <2> QED  BY <2>1, <2>2
<1>4. RunsShaped(preps', carts, intents)
  BY <1>2, <1>3 DEF RunsShaped
<1> QED  BY <1>2, <1>4 DEF ServerSide, IdlePrepare

\* The session that arrived is of the line it was asked for.
LEMMA ReadyArrives ==
  ASSUME PageSide, ServerSide, clock \in Nat, page.pay.phase = "asked",
         NEW done, done = preps[page.pay.run], done.stage = "done", done.out = "ready",
         preps' = [preps EXCEPT ![page.pay.run] = IdlePrepare],
         NEW p, p = [page EXCEPT !.pay = Ready(@, done.secret), !.draft.cart = done.cart]
  PROVE  Raw(p) /\ Links(p, preps', carts, intents, submit.secret)
<1> DEFINE r == page.pay.run
           h == Ready(page.pay, done.secret)
           d == page.pay.asked.draft
           l == page.pay.asked.line
           c == done.cart
           s == done.secret
<1>1. PageInv(page, clock) /\ PageShaped(page) /\ PayShaped(page.pay)
      /\ DraftShaped(page.draft) /\ LineShaped(page.line)
  BY PageIsRaw DEF PageSide, PageShaped
<1>2. r \in Prepares /\ r # None /\ Asked(page) /\ page.pay.active # None
  BY <1>1 DEF PayShaped, Asked
<1>3. Payable(d, l) /\ l.goods.art = page.line.goods.art
  BY <1>1, <1>2, PaymentAsked
<1>4. /\ c \in DOMAIN carts /\ s \in DOMAIN intents /\ intents[s].cart = c
  <2>1. RunShaped(done, carts, intents)
    BY <1>2 DEF ServerSide, RunsShaped
  <2> QED  BY <2>1 DEF RunShaped, IdlePrepare, Asking, AtCart, Answered
<1>5. carts \in Seq(Carts) /\ c \in 1..Len(carts) /\ c \in Nat /\ c \in 0..Len(carts)
  BY <1>4 DEF ServerSide, ServerSound
<1>6. /\ PayShaped(h) /\ h.phase = "none" /\ h.run = None
      /\ h.got = [key |-> page.pay.active, status |-> "ready", secret |-> s]
  BY <1>1 DEF PayShaped, Ready
<1> HIDE DEF h, c, s
<1>7. /\ DOMAIN p = DOMAIN page /\ p.line = page.line
      /\ p.rates = page.rates /\ p.taxes = page.taxes
      /\ p.ship = page.ship /\ p.tax = page.tax /\ p.pay = h
      /\ DOMAIN p.draft = DOMAIN page.draft /\ p.draft.cart = c
      /\ p.draft.addr = page.draft.addr /\ p.draft.ship = page.draft.ship
      /\ p.draft.tax = page.draft.tax
  BY <1>1 DEF PageShaped, DraftShaped, h, c, s
<1>8. ~Asked(p)
  BY <1>6, <1>7 DEF Asked
<1>9. DraftShaped(p.draft) /\ LineShaped(p.line)
  BY <1>1, <1>5, <1>7 DEF DraftShaped
<1>10. Raw(p)
  BY <1>1, <1>6, <1>7, <1>8, <1>9, PayMoves DEF AskedPayment, AskedInTime
<1>11. preps'[r].stage = "idle" /\ \A q \in Prepares \ {r} : preps'[q] = preps[q]
  BY <1>2 DEF ServerSide, RunsShaped, IdlePrepare
<1>12. Succeeded(done) /\ Heard(page, preps, carts) /\ OthersOld(page, preps)
       /\ HeldIsGot(page, preps, intents, submit.secret)
  BY DEF Succeeded, PageSide, Links
<1>13. /\ carts[c].goods = l.goods
       /\ ~carts[c].raced => /\ carts[c].addr = d.addr /\ carts[c].secret = s
                             /\ \A q \in Prepares \ {r} : Aside(preps[q], c)
  BY <1>2, <1>12 DEF Heard, HeardRun, OthersAside, HeardCart, AtCart, c, s
<1>14. GotHolds(p, preps', carts, intents)
  <2> DEFINE key == page.pay.active
  <2>1. key \in PaymentKeys /\ key = <<d.tax, StreetOf[d.addr], l.goods.qty, l.goods.size>>
    BY <1>1, <1>2, <1>3 DEF PayShaped, Payable
  <2>2. l.goods \in Goods
    BY <1>3 DEF Payable, LineShaped
  <2>3. l.goods = [qty |-> key[3], size |-> key[4], art |-> page.line.goods.art]
    <3> DEFINE g == l.goods
    <3>1. key = <<d.tax, StreetOf[d.addr], g.qty, g.size>>
      BY <2>1
    <3>2. g.art = page.line.goods.art /\ g \in Goods
      BY <1>3, <2>2
    <3> HIDE DEF key, g
    <3>3. key[3] = g.qty /\ key[4] = g.size
      BY ONLY <3>1
    <3>4. g = [qty |-> g.qty, size |-> g.size, art |-> g.art]
      BY ONLY <3>2 DEF Goods
    <3> QED  BY <3>2, <3>3, <3>4 DEF g
  <2>4. PlaceOf(d.addr) = Trimmed(key[1].sig[1]) /\ StreetOf[d.addr] = key[2]
    <3>1. Trimmed(d.tax.sig[1]) = PlaceOf(d.addr)
      BY <1>3 DEF Payable, TaxFits
    <3>2. key[1] = d.tax /\ key[2] = StreetOf[d.addr]
      BY <2>1
    <3> HIDE DEF key
    <3> QED  BY <3>1, <3>2
  <2>5. ~carts[c].raced => \A q \in Prepares : Aside(preps'[q], c)
    BY <1>11, <1>13 DEF Aside
  <2> HIDE DEF key
  <2>6. p.pay.got.key = key /\ p.pay.got.secret = s /\ p.draft.cart = c
    BY <1>6, <1>7 DEF key
  <2>7. /\ done.cart \in DOMAIN carts /\ done.secret \in DOMAIN intents
        /\ intents[done.secret].cart = done.cart
    BY <1>4 DEF c, s
  <2>8. /\ carts[c].goods = [qty |-> key[3], size |-> key[4], art |-> p.line.goods.art]
        /\ ~carts[c].raced => /\ PlaceOf(carts[c].addr) = Trimmed(key[1].sig[1])
                              /\ StreetOf[carts[c].addr] = key[2]
                              /\ carts[c].secret = s
    BY <1>7, <1>13, <2>3, <2>4
  <2> QED  BY ONLY <1>4, <2>1, <2>5, <2>6, <2>8 DEF GotHolds
<1>15. OthersOld(p, preps')
  <2> SUFFICES ASSUME NEW q \in Prepares, preps'[q].stage # "idle"
               PROVE  preps'[q].old
    BY DEF OthersOld
  <2>1. q \in Prepares \ {r} /\ preps'[q] = preps[q]
    BY <1>11
  <2>2. preps[q].stage # "idle" => preps[q].old
    BY <1>2, <1>12, <2>1 DEF OthersOld
  <2> QED  BY <2>1, <2>2
<1>16. HeldIsGot(p, preps', intents, submit.secret)
  <2> SUFFICES ASSUME NEW x \in DOMAIN intents, Held(x, intents, submit.secret),
                      c = intents[x].cart
               PROVE  s = x
    <3>1. p.pay.run = None /\ p.pay.got.secret = s /\ p.draft.cart = c
      BY <1>6, <1>7
    <3> HIDE DEF s, c
    <3> QED  BY <3>1 DEF HeldIsGot
  <2>1. HeldIsHeard(x, done, intents)
    BY <1>2, <1>12 DEF HeldIsGot
  <2> QED  BY <1>12, <2>1 DEF HeldIsHeard, c, s
<1>17. Heard(p, preps', carts)
  BY <1>6, <1>7 DEF Heard, HeardRun, OthersAside
<1>18. p.draft.cart \in 0..Len(carts)
  BY <1>5, <1>7
<1> QED  BY <1>10, <1>14, <1>15, <1>16, <1>17, <1>18 DEF Links

LEMMA PaymentArrivesKeeps ==
  ASSUME PageSide, ServerSide, clock \in Nat, PaymentArrives
  PROVE  PageSide' /\ ServerSide'
<1> DEFINE r    == page.pay.run
           done == preps[r]
<1>1. PageInv(page, clock) /\ PageShaped(page) /\ PayShaped(page.pay)
      /\ DraftShaped(page.draft) /\ LineShaped(page.line) /\ Sound(page)
  BY PageIsRaw DEF PageSide, PageShaped, PageInv
<1>2. /\ page.pay.phase = "asked" /\ done.stage = "done"
      /\ preps' = [preps EXCEPT ![r] = IdlePrepare]
      /\ UNCHANGED <<submit, clock, rev, upsets, carts, intents, comps>>
  BY DEF PaymentArrives
<1>3. r \in Prepares /\ Asked(page) /\ page.pay.active # None /\ r # None
  BY <1>1, <1>2 DEF PayShaped, Asked
<1>4. ServerSide'
  BY <1>2, <1>3, RunLeft
<1>5. page.draft.cart \in 0..Len(carts)
  BY DEF PageSide, Links
<1>6. CASE /\ done.out = "ready"
           /\ Render([page EXCEPT !.pay = Ready(@, done.secret), !.draft.cart = done.cart])
  <2> DEFINE p == [page EXCEPT !.pay = Ready(@, done.secret), !.draft.cart = done.cart]
  <2>1. Raw(p) /\ Links(p, preps', carts, intents, submit.secret)
    BY <1>2, <1>6, ReadyArrives
  <2> HIDE DEF p
  <2> QED  BY <1>2, <1>4, <1>6, <2>1, RenderKeeps DEF p
<1>7. CASE Render([page EXCEPT !.pay.phase = "requote", !.pay.forced = TRUE, !.pay.run = None])
  <2> DEFINE p == [page EXCEPT !.pay.phase = "requote", !.pay.forced = TRUE, !.pay.run = None]
  <2>1. /\ DOMAIN p = DOMAIN page /\ p.draft = page.draft /\ p.line = page.line
        /\ p.rates = page.rates /\ p.taxes = page.taxes
        /\ p.ship = page.ship /\ p.tax = page.tax
        /\ DOMAIN p.pay = DOMAIN page.pay /\ p.pay.active = page.pay.active
        /\ p.pay.got = page.pay.got /\ p.pay.phase = "requote" /\ p.pay.run = None
        /\ p.pay.asked = page.pay.asked
    BY <1>1 DEF PageShaped, PayShaped
  <2> HIDE DEF p
  <2>2. Asked(p) /\ PayShaped(p.pay) /\ ~Got(p, "ready")
    BY <1>1, <1>2, <2>1 DEF PayShaped, Got, Asked
  <2>3. AskedPayment(p) /\ AskedInTime(p, clock)
    BY <1>1, <1>3, <2>1 DEF PageInv, Sound, AskedPayment, AskedInTime
  <2>5. Raw(p)
    BY <1>1, <2>1, <2>2, <2>3, PayMoves
  <2>6. Links(p, preps', carts, intents, submit.secret)
    BY <1>5, <2>1, <2>2, NothingHeard
  <2> QED  BY <1>2, <1>4, <1>7, <2>5, <2>6, RenderKeeps DEF p
<1>8. CASE Render([page EXCEPT !.pay = [Failed(@) EXCEPT !.run = None,
                                             !.got.status = PaymentError(done.out)]])
  <2> DEFINE e == PaymentError(done.out)
             h == [Failed(page.pay) EXCEPT !.run = None, !.got.status = e]
             p == [page EXCEPT !.pay = h]
  <2>1. e # "ready"
    BY DEF PaymentError
  <2>2. Render(p)
    BY <1>8
  <2> HIDE DEF e
  <2>3. /\ PayShaped(h) /\ h.phase = "none" /\ h.run = None
        /\ h.got.key = page.pay.active /\ h.got.status = e
    BY <1>1, PayFailedIs
  <2> HIDE DEF h
  <2>4. /\ DOMAIN p = DOMAIN page /\ p.draft = page.draft /\ p.line = page.line
        /\ p.rates = page.rates /\ p.taxes = page.taxes
        /\ p.ship = page.ship /\ p.tax = page.tax /\ p.pay = h
    BY <1>1 DEF PageShaped
  <2> HIDE DEF p
  <2>5. ~Asked(p) /\ ~Got(p, "ready")
    BY <2>1, <2>3, <2>4 DEF Asked, Got
  <2>7. Raw(p)
    BY <1>1, <2>3, <2>4, <2>5, PayMoves DEF AskedPayment, AskedInTime
  <2>8. Links(p, preps', carts, intents, submit.secret)
    BY <1>5, <2>3, <2>4, <2>5, NothingHeard
  <2> QED  BY <1>2, <1>4, <2>2, <2>7, <2>8, RenderKeeps
<1> QED  BY <1>6, <1>7, <1>8 DEF PaymentArrives

LEMMA DropAnswerKeeps ==
  ASSUME PageSide, ServerSide, NEW r \in Prepares, DropAnswer(r)
  PROVE  PageSide' /\ ServerSide'
<1>1. /\ page.pay.run # r /\ preps' = [preps EXCEPT ![r] = IdlePrepare]
      /\ UNCHANGED <<clock, rev, carts, intents, page, submit>>
  BY DEF DropAnswer, Unheard, browserVars
<1>2. /\ ServerSide' /\ preps'[r].stage = "idle"
      /\ \A q \in Prepares \ {r} : preps'[q] = preps[q]
  BY <1>1, RunLeft
<1>3. page.pay.run # None => page.pay.run \in Prepares \ {r}
  BY <1>1, PageIsRaw DEF PageSide, PageShaped, PayShaped
<1>4. /\ page.draft.cart \in 0..Len(carts)
      /\ Heard(page, preps, carts) /\ GotHolds(page, preps, carts, intents)
      /\ OthersOld(page, preps) /\ HeldIsGot(page, preps, intents, submit.secret)
  BY DEF PageSide, Links
<1>5. \A q \in Prepares : \A c : Aside(preps[q], c) => Aside(preps'[q], c)
  BY <1>2 DEF Aside
<1>6. Heard(page, preps', carts)
  BY <1>2, <1>3, <1>4, <1>5 DEF Heard, HeardRun, OthersAside
<1>7. GotHolds(page, preps', carts, intents)
  BY <1>4, <1>5 DEF GotHolds
<1>8. OthersOld(page, preps')
  BY <1>2, <1>4 DEF OthersOld
<1>9. HeldIsGot(page, preps', intents, submit.secret)
  BY <1>2, <1>3, <1>4 DEF HeldIsGot
<1>10. Links(page, preps', carts, intents, submit.secret)
  BY <1>4, <1>6, <1>7, <1>8, <1>9 DEF Links
<1>11. PageSide'
  BY <1>1, <1>10 DEF PageSide
<1> QED  BY <1>2, <1>11

LEMMA TickKeeps ==
  ASSUME CheckoutInv, Tick
  PROVE  CheckoutInv'
<1>1. /\ clock' = clock + 1
      /\ UNCHANGED <<rev, carts, intents, preps, comps, page, submit>>
      /\ page.pay.phase = "none" /\ page.tax.phase = "none"
  BY DEF Tick, serverVars, browserVars
<1>2. PageInv(page, clock + 1)
  BY <1>1 DEF CheckoutInv, PageInv, RateInTime, AskedInTime, InTime, Asked
<1>3. clock + 1 \in Nat
  BY DEF CheckoutInv
<1> QED  BY <1>1, <1>2, <1>3 DEF CheckoutInv

(***************************************************************************)
(* The first page, and the page that is left with an order.                *)
(***************************************************************************)
LEMMA IdleShaped ==
  /\ HookShaped(Idle) /\ PayShaped(IdlePayment) /\ Failing(Idle)
  /\ Idle.active = None /\ Idle.phase = "none" /\ Idle.seen = None
  /\ IdlePayment.active = None /\ IdlePayment.phase = "none" /\ IdlePayment.got = None
  /\ IdlePayment.run = None
BY DEF HookShaped, PayShaped, Idle, IdlePayment, Failing

LEMMA FirstPage ==
  ASSUME NEW g \in FirstGoods, Init,
         page = [draft |-> [addr |-> FirstAddress, ship |-> None, tax |-> None, cart |-> 0],
                 line |-> QuotedLine(g), rates |-> <<>>, taxes |-> <<>>,
                 ship |-> Started(Idle, RateKey(FirstAddress, g)),
                 tax |-> Idle, pay |-> IdlePayment,
                 view |-> [ship |-> "loading", tax |-> "idle", pay |-> "idle", secret |-> 0]]
  PROVE  PageInv(page, clock)
<1> DEFINE key == RateKey(FirstAddress, g)
<1>1. /\ DOMAIN page = {"draft", "line", "rates", "taxes", "ship", "tax", "pay", "view"}
      /\ page.draft = [addr |-> FirstAddress, ship |-> None, tax |-> None, cart |-> 0]
      /\ page.line = QuotedLine(g) /\ page.rates = <<>> /\ page.taxes = <<>>
      /\ page.ship = Started(Idle, key) /\ page.tax = Idle /\ page.pay = IdlePayment
      /\ page.view = [ship |-> "loading", tax |-> "idle", pay |-> "idle", secret |-> 0]
  OBVIOUS
<1>2. g \in Goods /\ FirstAddress \in Addresses /\ FirstAddress # None
  BY PageAssumption, CheckoutAssumption
<1>3. key \in ShippingKeys
  BY <1>2 DEF RateKey, ShippingKeys, Zips, Goods
<1>4. key # None
  BY <1>3, PageAssumption
<1>5. /\ HookShaped(page.ship) /\ page.ship.active = key /\ page.ship.phase = "timer"
      /\ page.ship.seen = None
  <2> HIDE DEF key
  <2> QED  BY <1>1, <1>4 DEF HookShaped, Started, Idle
<1>6. DraftShaped(page.draft) /\ LineShaped(page.line) /\ page.line.goods = g
  BY <1>1, <1>2 DEF DraftShaped, LineShaped, QuotedLine
<1>7. ShippingKey(page) = key
  BY <1>1, <1>2, <1>6 DEF ShippingKey
<1>8. clock = 0 /\ rev = 0
  BY DEF Init, ServerInit
<1> HIDE DEF key
<1>9. PageShaped(page)
  BY <1>1, <1>3, <1>5, <1>6, IdleShaped DEF PageShaped
<1>10. RatesSound(page.rates) /\ TaxesSound(page.taxes)
  BY <1>1 DEF RatesSound, TaxesSound, OneEach, CacheOf
<1>11. Sound(page)
  BY <1>1, <1>5, <1>9, <1>10, IdleShaped
     DEF Sound, SeenRate, SeenTax, AskedRate, AskedTax, AskedPayment, Asked
<1>12. RateInTime(page, clock) /\ AskedInTime(page, clock)
  BY <1>1, IdleShaped DEF RateInTime, AskedInTime, Asked
<1>13. ShipShown(page) /\ TaxShown(page) /\ PayShown(page) /\ InTime(page, clock)
  BY <1>1, <1>4, <1>5, <1>7, IdleShaped DEF ShipShown, TaxShown, PayShown, InTime, Failing
<1> QED  BY <1>11, <1>12, <1>13 DEF PageInv

LEMMA InitIsSound == Init => CheckoutInv
<1> SUFFICES ASSUME Init PROVE CheckoutInv
  OBVIOUS
<1>1. /\ clock = 0 /\ rev = 0 /\ carts = <<>> /\ intents = <<>>
      /\ preps = [r \in Prepares |-> IdlePrepare] /\ comps = [k \in Completions |-> IdleComplete]
      /\ submit = NotSubmitted
  BY DEF Init, ServerInit
<1>2. PageInv(page, clock)
  BY FirstPage DEF Init
<1>3. page.draft.cart = 0 /\ page.pay = IdlePayment
  BY DEF Init
<1>4. ServerSound(carts, intents)
  BY <1>1 DEF ServerSound
<1>5. RunsShaped(preps, carts, intents) /\ CompsShaped(comps, carts)
  BY <1>1 DEF RunsShaped, RunShaped, CompsShaped
<1>6. Links(page, preps, carts, intents, submit.secret)
  <2>1. page.draft.cart \in 0..Len(carts)
    BY <1>1, <1>3
  <2>2. page.pay.run = None /\ ~Got(page, "ready")
    BY <1>3, IdleShaped DEF Got
  <2> QED  BY <2>1, <2>2, NothingHeard
<1>7. SubmitHolds(submit, carts, intents)
  BY <1>1 DEF SubmitHolds, NotSubmitted
<1> QED  BY <1>1, <1>2, <1>4, <1>5, <1>6, <1>7 DEF CheckoutInv

LEMMA LeftPage ==
  ASSUME PageInv(page, clock), NEW p,
         p = [page EXCEPT !.draft = [addr |-> None, ship |-> None, tax |-> None, cart |-> 0],
                          !.ship = Idle, !.tax = Idle, !.pay = IdlePayment,
                          !.view = [ship |-> "idle", tax |-> "idle",
                                    pay |-> "idle", secret |-> 0]]
  PROVE  PageInv(p, clock)
<1>1. PageShaped(page) /\ Sound(page)
  BY PageIsRaw DEF PageInv
<1>2. /\ DOMAIN p = DOMAIN page
      /\ p.draft = [addr |-> None, ship |-> None, tax |-> None, cart |-> 0]
      /\ p.line = page.line /\ p.rates = page.rates /\ p.taxes = page.taxes
      /\ p.ship = Idle /\ p.tax = Idle /\ p.pay = IdlePayment
      /\ p.view = [ship |-> "idle", tax |-> "idle", pay |-> "idle", secret |-> 0]
  BY <1>1 DEF PageShaped
<1>3. DraftShaped(p.draft)
  BY <1>2 DEF DraftShaped
<1>4. PageShaped(p)
  BY <1>1, <1>2, <1>3, IdleShaped DEF PageShaped
<1>5. Sound(p)
  <2>1. SeenRate(p) /\ SeenTax(p)
    BY <1>1, <1>2, IdleShaped DEF SeenRate, SeenTax
  <2>2. AskedRate(p.ship) /\ AskedTax(p.tax)
    BY <1>2, IdleShaped DEF AskedRate, AskedTax
  <2>3. ~Asked(p)
    BY <1>2, IdleShaped DEF Asked
  <2>4. AskedPayment(p)
    BY <2>3 DEF AskedPayment
  <2> QED  BY <1>1, <1>2, <1>4, <2>1, <2>2, <2>4 DEF Sound
<1>6. RateInTime(p, clock) /\ AskedInTime(p, clock)
  BY <1>2, IdleShaped DEF RateInTime, AskedInTime, Asked
<1>7. ShipShown(p) /\ TaxShown(p) /\ PayShown(p) /\ InTime(p, clock)
  BY <1>2, IdleShaped DEF ShipShown, TaxShown, PayShown, InTime
<1> QED  BY <1>5, <1>6, <1>7 DEF PageInv

(***************************************************************************)
(* Paying and completing.                                                  *)
(***************************************************************************)
\* What may be paid is the session of the line shown.
LEMMA PayHolds ==
  ASSUME CheckoutInv, page.view.pay = "ready"
  PROVE  LET c == page.draft.cart
             s == page.view.secret
         IN  /\ page.pay.run = None /\ page.pay.active # None
             /\ page.pay.active = KeyOfPayment(page)
             /\ Got(page, "ready") /\ page.pay.got.secret = s
             /\ page.pay.got.key = page.pay.active
             /\ c \in DOMAIN carts /\ c # 0 /\ carts[c].goods = page.line.goods
             /\ s \in DOMAIN intents /\ intents[s].cart = c
<1>1. /\ PageShaped(page) /\ PayShaped(page.pay) /\ PayShown(page) /\ LineShaped(page.line)
      /\ GotHolds(page, preps, carts, intents)
  BY PageIsRaw DEF CheckoutInv, PageInv, PageShaped, Links
<1>2. /\ page.pay.active # None /\ page.pay.active = KeyOfPayment(page)
      /\ Got(page, "ready") /\ page.pay.got.secret = page.view.secret
      /\ page.pay.got.key = page.pay.active
  BY <1>1 DEF PayShown
<1>3. page.pay.run = None
  BY <1>1, <1>2 DEF PayShaped, Got
<1>4. /\ page.draft.cart \in DOMAIN carts /\ page.view.secret \in DOMAIN intents
      /\ intents[page.view.secret].cart = page.draft.cart
  BY <1>1, <1>2 DEF GotHolds
<1>5. carts[page.draft.cart].goods = page.line.goods
  <2> DEFINE key == page.pay.got.key
             g   == page.line.goods
  <2>1. carts[page.draft.cart].goods = [qty |-> key[3], size |-> key[4], art |-> g.art]
    BY <1>1, <1>2 DEF GotHolds
  <2>2. key = <<page.draft.tax, StreetOf[page.draft.addr], g.qty, g.size>>
    BY <1>2 DEF KeyOfPayment
  <2>3. key[3] = g.qty /\ key[4] = g.size
    <3> HIDE DEF key, g
    <3> QED  BY <2>2
  <2>4. g \in Goods
    BY <1>1 DEF LineShaped
  <2> HIDE DEF key, g
  <2>5. g = [qty |-> g.qty, size |-> g.size, art |-> g.art]
    BY <2>4 DEF Goods
  <2> QED  BY <2>1, <2>3, <2>5 DEF g
<1>6. page.draft.cart # 0
  BY <1>4 DEF CheckoutInv, ServerSound
<1> QED  BY <1>2, <1>3, <1>4, <1>5, <1>6

LEMMA PayKeeps ==
  ASSUME CheckoutInv, Pay
  PROVE  CheckoutInv'
<1> DEFINE c == page.draft.cart
           s == page.view.secret
<1>1. /\ page.view.pay = "ready"
      /\ submit' = [stage |-> "confirming", cart |-> c, secret |-> s,
                    run |-> None, goods |-> page.line.goods, shown |-> Shown]
      /\ UNCHANGED <<clock, rev, carts, intents, preps, comps, page>>
  BY DEF Pay, QuietServer, serverVars
<1>2. /\ page.pay.run = None /\ Got(page, "ready") /\ page.pay.got.secret = s
      /\ c \in DOMAIN carts /\ c # 0 /\ carts[c].goods = page.line.goods
      /\ s \in DOMAIN intents /\ intents[s].cart = c
  BY <1>1, PayHolds
<1> HIDE DEF c, s
<1>3. HeldIsGot(page, preps, intents, submit.secret)
  BY DEF CheckoutInv, Links
<1>4. ASSUME NEW x \in DOMAIN intents, intents[x].status = "captured", intents[x].cart = c
      PROVE  x = s
  <2>1. Held(x, intents, submit.secret)
    BY <1>4 DEF Held
  <2> QED  BY <1>2, <1>3, <1>4, <2>1 DEF HeldIsGot, c
<1>5. HeldIsGot(page, preps, intents, s)
  BY <1>2, <1>3 DEF HeldIsGot, Held
<1>6. Links(page, preps, carts, intents, s)
  BY <1>5 DEF CheckoutInv, Links
<1>7. SubmitHolds(submit', carts, intents)
  BY <1>1, <1>2, <1>4 DEF SubmitHolds
<1>8. submit'.secret = s
  BY <1>1
<1> QED  BY <1>1, <1>6, <1>7, <1>8 DEF CheckoutInv

LEMMA CaptureKeeps ==
  ASSUME CheckoutInv, Capture
  PROVE  CheckoutInv'
<1> DEFINE s == submit.secret
<1>1. /\ submit.stage = "confirming" /\ intents[s].status = "open"
      /\ intents' = [intents EXCEPT ![s].status = "captured"]
      /\ submit' = [submit EXCEPT !.stage = "paid"]
      /\ UNCHANGED <<page, clock, rev, carts, preps, comps>>
  BY DEF Capture
<1>2. /\ ServerSound(carts, intents) /\ RunsShaped(preps, carts, intents)
      /\ SubmitHolds(submit, carts, intents) /\ intents \in Seq(Intents)
      /\ Links(page, preps, carts, intents, s)
  BY DEF CheckoutInv, ServerSound
<1>3. submit.cart # 0 /\ s \in DOMAIN intents /\ intents[s].cart = submit.cart
  BY <1>1, <1>2 DEF SubmitHolds
<1> HIDE DEF s
<1>4. /\ intents' \in Seq(Intents) /\ DOMAIN intents' = DOMAIN intents
      /\ \A x \in DOMAIN intents :
            /\ intents'[x].cart = intents[x].cart /\ intents'[x].amount = intents[x].amount
            /\ x # s => intents'[x].status = intents[x].status
      /\ intents'[s].status = "captured"
  <2>1. intents[s] \in Intents
    BY <1>2, <1>3
  <2>2. [intents[s] EXCEPT !.status = "captured"] \in Intents
    BY <2>1 DEF Intents
  <2>3. DOMAIN intents[s] = {"cart", "amount", "status"}
    BY <2>1 DEF Intents
  <2> QED  BY <1>1, <1>2, <1>3, <2>1, <2>2, <2>3
<1>5. ServerSound(carts, intents')
  <2>1. ASSUME NEW c \in DOMAIN carts PROVE CartSound(c, carts, intents')
    <3>1. CartSound(c, carts, intents)
      BY <1>2 DEF ServerSound
    <3> QED  BY <1>1, <1>4, <3>1 DEF CartSound
  <2>2. ASSUME NEW x \in DOMAIN intents' PROVE IntentSound(x, carts, intents')
    <3>1. IntentSound(x, carts, intents)
      BY <1>2, <1>4 DEF ServerSound
    <3> QED  BY <1>1, <1>4, <3>1 DEF IntentSound
  <2> QED  BY <1>2, <1>4, <2>1, <2>2 DEF ServerSound
<1>6. RunsShaped(preps, carts, intents')
  BY <1>2, <1>4 DEF RunsShaped, RunShaped, Asking, Answered
<1>7. SubmitHolds(submit', carts, intents')
  <2>1. /\ DOMAIN submit' = DOMAIN submit /\ submit'.cart = submit.cart
        /\ submit'.secret = s /\ submit'.goods = submit.goods
    BY <1>1, <1>2 DEF SubmitHolds, s
  <2> QED  BY <1>2, <1>3, <1>4, <2>1 DEF SubmitHolds, s
<1>8. submit'.secret = s
  BY <1>1, <1>2 DEF SubmitHolds, s
<1>9. Links(page, preps, carts, intents', s)
  <2>1. GotHolds(page, preps, carts, intents')
    BY <1>2, <1>4 DEF Links, GotHolds
  <2>2. \A x \in DOMAIN intents : Held(x, intents', s) => Held(x, intents, s)
    BY <1>1, <1>4 DEF Held
  <2>3. HeldIsGot(page, preps, intents', s)
    BY <1>2, <1>4, <2>2 DEF Links, HeldIsGot, HeldIsHeard
  <2> QED  BY <1>2, <2>1, <2>3 DEF Links
<1>10. PageInv(page, clock) /\ CompsShaped(comps, carts) /\ clock \in Nat /\ rev \in Nat
  BY DEF CheckoutInv
<1> QED  BY <1>1, <1>5, <1>6, <1>7, <1>8, <1>9, <1>10 DEF CheckoutInv

\* handleSubmit moves on with the cart and the session it was started with.
LEMMA SubmitMoves ==
  ASSUME SubmitHolds(submit, carts, intents), NEW sub, DOMAIN sub = DOMAIN submit,
         sub.cart = submit.cart, sub.secret = submit.secret, sub.goods = submit.goods,
         sub.cart = 0 => sub.stage \in {"idle", "ordered"}
  PROVE  SubmitHolds(sub, carts, intents)
BY DEF SubmitHolds

LEMMA SubmitStage ==
  ASSUME SubmitHolds(submit, carts, intents), NEW sub, NEW stage, NEW run,
         \/ sub = [submit EXCEPT !.stage = stage]
         \/ sub = [submit EXCEPT !.stage = stage, !.run = run],
         stage \in {"idle", "ordered"} \/ submit.stage \notin {"idle", "ordered"}
  PROVE  SubmitHolds(sub, carts, intents) /\ sub.secret = submit.secret
<1>1. DOMAIN submit = {"stage", "cart", "secret", "run", "goods", "shown"}
  BY DEF SubmitHolds
<1>2. /\ DOMAIN sub = DOMAIN submit /\ sub.cart = submit.cart /\ sub.secret = submit.secret
      /\ sub.goods = submit.goods /\ sub.stage = stage
  BY <1>1
<1>3. sub.cart = 0 => sub.stage \in {"idle", "ordered"}
  BY <1>2 DEF SubmitHolds
<1> HIDE DEF SubmitHolds
<1>4. SubmitHolds(sub, carts, intents)
  BY <1>2, <1>3, SubmitMoves
<1> QED  BY <1>2, <1>4

LEMMA DeclineKeeps ==
  ASSUME CheckoutInv, Decline \/ OrderAnswerLost
  PROVE  CheckoutInv'
<1>1. /\ \/ submit' = [submit EXCEPT !.stage = "idle"]
         \/ submit' = [submit EXCEPT !.stage = "idle", !.run = None]
      /\ UNCHANGED <<page, clock, rev, carts, intents, preps, comps>>
  BY DEF Decline, OrderAnswerLost, serverVars
<1>2. SubmitHolds(submit', carts, intents) /\ submit'.secret = submit.secret
  BY <1>1, SubmitStage DEF CheckoutInv
<1> QED  BY <1>1, <1>2 DEF CheckoutInv

\* A completion moves on; its place is free when its answer is taken.
LEMMA CompMoves ==
  ASSUME NEW cs, NEW ks, CompsShaped(ks, cs), NEW k, NEW x, NEW ms,
         ms = [ks EXCEPT ![k] = x],
         \/ x = IdleComplete
         \/ /\ DOMAIN x = {"stage", "cart", "out"}
            /\ x.stage # "idle" /\ x.cart \in DOMAIN cs
  PROVE  CompsShaped(ms, cs)
<1>1. DOMAIN ms = Completions /\ \A o \in Completions : ms[o] = IF o = k THEN x ELSE ks[o]
  BY DEF CompsShaped
<1>2. ASSUME NEW o \in Completions
      PROVE  \/ ms[o] = IdleComplete
             \/ /\ DOMAIN ms[o] = {"stage", "cart", "out"}
                /\ ms[o].stage # "idle" /\ ms[o].cart \in DOMAIN cs
  <2>1. CASE o = k
    BY <1>1, <2>1
  <2>2. CASE o # k
    <3>1. ms[o] = ks[o]
      BY <1>1, <2>2
    <3> QED  BY <3>1 DEF CompsShaped
  <2> QED  BY <2>1, <2>2
<1> QED  BY <1>1, <1>2 DEF CompsShaped

LEMMA CompKeeps ==
  ASSUME CheckoutInv, CompsShaped(comps', carts),
         UNCHANGED <<page, submit, clock, rev, carts, intents, preps>>
  PROVE  CheckoutInv'
BY DEF CheckoutInv

LEMMA AskOrderKeeps ==
  ASSUME CheckoutInv, AskOrder
  PROVE  CheckoutInv'
<1>1. PICK k \in Completions : /\ PostComplete(k, submit.cart)
                               /\ submit' = [submit EXCEPT !.stage = "completing", !.run = k]
  BY DEF AskOrder
<1>2. submit.stage = "paid" /\ UNCHANGED <<page, clock, rev, carts, intents, preps>>
  BY DEF AskOrder
<1>3. SubmitHolds(submit', carts, intents) /\ submit'.secret = submit.secret
  BY <1>1, <1>2, SubmitStage DEF CheckoutInv
<1>4. submit.cart \in DOMAIN carts
  BY <1>2 DEF CheckoutInv, SubmitHolds
<1>5. CompsShaped(comps', carts)
  <2> DEFINE x == [stage |-> "find", cart |-> submit.cart, out |-> None]
  <2>1. DOMAIN x = {"stage", "cart", "out"} /\ x.stage # "idle" /\ x.cart \in DOMAIN carts
    BY <1>4
  <2>2. comps' = [comps EXCEPT ![k] = x]
    BY <1>1 DEF PostComplete
  <2> HIDE DEF x
  <2> QED  BY <2>1, <2>2, CompMoves DEF CheckoutInv
<1> QED  BY <1>2, <1>3, <1>5 DEF CheckoutInv

LEMMA OrderArrivesKeeps ==
  ASSUME CheckoutInv, OrderArrives
  PROVE  CheckoutInv'
<1> DEFINE k == submit.run
           p == [page EXCEPT !.draft = [addr |-> None, ship |-> None, tax |-> None, cart |-> 0],
                             !.ship = Idle, !.tax = Idle, !.pay = IdlePayment,
                             !.view = [ship |-> "idle", tax |-> "idle",
                                       pay |-> "idle", secret |-> 0]]
<1>1. /\ comps' = [comps EXCEPT ![k] = IdleComplete]
      /\ UNCHANGED <<clock, rev, upsets, carts, intents, preps>>
      /\ submit.stage = "completing"
  BY DEF OrderArrives
<1>2. CompsShaped(comps', carts)
  BY <1>1, CompMoves DEF CheckoutInv
<1>3. CASE page' = p /\ submit' = [submit EXCEPT !.stage = "ordered", !.run = None]
  <2>1. PageInv(p, clock)
    BY LeftPage DEF CheckoutInv
  <2>2. SubmitHolds(submit', carts, intents) /\ submit'.secret = submit.secret
    BY <1>3, SubmitStage DEF CheckoutInv
  <2>3. p.draft.cart = 0 /\ p.pay = IdlePayment
    BY PageIsRaw DEF CheckoutInv, PageShaped
  <2> HIDE DEF p
  <2>4. p.pay.run = None /\ ~Got(p, "ready") /\ p.draft.cart \in 0..Len(carts)
    BY <2>3, IdleShaped DEF Got, CheckoutInv, ServerSound
  <2>5. Links(p, preps, carts, intents, submit.secret)
    BY <2>4, NothingHeard
  <2> QED  BY <1>1, <1>2, <1>3, <2>1, <2>2, <2>5 DEF CheckoutInv
<1>4. CASE UNCHANGED page /\ submit' = [submit EXCEPT !.stage = "idle", !.run = None]
  <2>1. SubmitHolds(submit', carts, intents) /\ submit'.secret = submit.secret
    BY <1>4, SubmitStage DEF CheckoutInv
  <2> QED  BY <1>1, <1>2, <1>4, <2>1 DEF CheckoutInv
<1> QED  BY <1>3, <1>4 DEF OrderArrives

LEMMA DropOrderKeeps ==
  ASSUME CheckoutInv, NEW k \in Completions, DropOrder(k)
  PROVE  CheckoutInv'
<1>1. CompsShaped(comps', carts)
  BY CompMoves DEF DropOrder, CheckoutInv
<1> QED  BY <1>1, CompKeeps DEF DropOrder, browserVars

\* The steps of a completion that do not place the order.
LEMMA CompStep ==
  ASSUME CheckoutInv, NEW k \in Completions, comps[k].stage # "idle", NEW stage, stage # "idle",
         Goto(k, stage) = comps' \/ \E out : Respond(k, out)
  PROVE  CompsShaped(comps', carts)
<1>1. CompsShaped(comps, carts) /\ comps[k] # IdleComplete
  BY DEF CheckoutInv, IdleComplete
<1>2. DOMAIN comps[k] = {"stage", "cart", "out"} /\ comps[k].cart \in DOMAIN carts
  BY <1>1 DEF CompsShaped
<1>3. CASE comps' = Goto(k, stage)
  <2> DEFINE x == [comps[k] EXCEPT !.stage = stage]
  <2>1. DOMAIN x = {"stage", "cart", "out"} /\ x.stage # "idle" /\ x.cart \in DOMAIN carts
    BY <1>2
  <2>2. comps' = [comps EXCEPT ![k] = x]
    BY <1>3 DEF Goto
  <2> HIDE DEF x
  <2> QED  BY <1>1, <2>1, <2>2, CompMoves
<1>4. ASSUME NEW out, Respond(k, out)
      PROVE  CompsShaped(comps', carts)
  <2> DEFINE x == [[comps[k] EXCEPT !.stage = "done"] EXCEPT !.out = out]
  <2>1. DOMAIN x = {"stage", "cart", "out"} /\ x.stage # "idle" /\ x.cart \in DOMAIN carts
    BY <1>2
  <2>2. comps' = [comps EXCEPT ![k] = x]
    BY <1>1, <1>4 DEF Respond, CompsShaped
  <2> HIDE DEF x
  <2> QED  BY <1>1, <2>1, <2>2, CompMoves
<1> QED  BY <1>3, <1>4

LEMMA CompleteStepKeeps ==
  ASSUME CheckoutInv, NEW k \in Completions, UNCHANGED browserVars,
         \/ CompleteFind(k) \/ CompleteLookup(k) \/ CompleteAgain(k) \/ CompleteThrows(k)
         \/ CompleteRun(k) /\ UNCHANGED carts
  PROVE  CheckoutInv'
<1>1. UNCHANGED <<page, submit, clock, rev, carts, intents, preps>>
  BY DEF CompleteFind, CompleteLookup, CompleteAgain, CompleteThrows, CompleteRun, browserVars
<1>2. comps[k].stage # "idle"
  BY DEF CompleteFind, CompleteLookup, CompleteAgain, CompleteThrows, CompleteRun
<1>3. \/ comps' = Goto(k, "run") \/ comps' = Goto(k, "lookup") \/ comps' = Goto(k, "again")
      \/ \E out : Respond(k, out)
  BY DEF CompleteFind, CompleteLookup, CompleteAgain, CompleteThrows, CompleteRun
<1>4. CompsShaped(comps', carts)
  <2>1. "run" # "idle" /\ "lookup" # "idle" /\ "again" # "idle"
    OBVIOUS
  <2> QED  BY <1>2, <1>3, <2>1, CompStep
<1> QED  BY <1>1, <1>4, CompKeeps

(***************************************************************************)
(* The server's steps.                                                     *)
(***************************************************************************)
\* Carts and intents are added, keep their goods and their cart, and a
\* collection or a payment once made.
Grown(cs, ds, is, js) ==
    /\ Len(cs) <= Len(ds)
    /\ \A c \in DOMAIN cs :
          /\ ds[c].goods = cs[c].goods
          /\ cs[c].coll # None => ds[c].coll # None
    /\ DOMAIN is \subseteq DOMAIN js
    /\ \A s \in DOMAIN is : js[s].cart = is[s].cart
    /\ \A s \in DOMAIN js : js[s].status # "canceled" =>
          IF s \in DOMAIN is THEN js[s].status = is[s].status ELSE js[s].status = "open"

LEMMA GrownRun ==
  ASSUME NEW cs \in Seq(Carts), NEW ds \in Seq(Carts), NEW is, NEW js, Grown(cs, ds, is, js),
         NEW x, RunShaped(x, cs, is)
  PROVE  RunShaped(x, ds, js)
<1>1. /\ DOMAIN cs \subseteq DOMAIN ds /\ 0..Len(cs) \subseteq 0..Len(ds)
      /\ DOMAIN cs = 1..Len(cs) /\ Len(cs) \in Nat
  BY DEF Grown
<1>2. CASE x = IdlePrepare
  BY <1>2 DEF RunShaped
<1>3. CASE Asking(x, cs, is)
  <2>1. x.cart # 0 => x.cart \in DOMAIN cs
    BY <1>1, <1>3 DEF Asking
  <2>2. x.req.cart \in 0..Len(ds) /\ x.cart \in 0..Len(ds)
    BY <1>1, <1>3 DEF Asking
  <2>3. x.cart # 0 => ds[x.cart].goods = x.req.goods
    BY <1>3, <2>1 DEF Asking, Grown
  <2>4. x.stage = "session" =>
          /\ ds[x.cart].coll # None
          /\ x.seen # 0 => x.seen \in DOMAIN js /\ js[x.seen].cart = x.cart
    BY <1>3, <2>1 DEF Asking, Grown, AtCart
  <2>5. Asking(x, ds, js)
    BY <1>3, <2>2, <2>3, <2>4 DEF Asking
  <2> QED  BY <2>5 DEF RunShaped
<1>4. CASE Answered(x, cs, is)
  <2>1. Answered(x, ds, js)
    BY <1>1, <1>4 DEF Answered, Grown
  <2> QED  BY <2>1 DEF RunShaped
<1> QED  BY <1>2, <1>3, <1>4 DEF RunShaped

LEMMA GrownComps ==
  ASSUME NEW cs \in Seq(Carts), NEW ds \in Seq(Carts), NEW is, NEW js, Grown(cs, ds, is, js),
         NEW ks, CompsShaped(ks, cs)
  PROVE  CompsShaped(ks, ds)
<1>1. DOMAIN cs \subseteq DOMAIN ds
  BY DEF Grown
<1> QED  BY <1>1 DEF CompsShaped

LEMMA GrownSubmit ==
  ASSUME NEW cs \in Seq(Carts), NEW ds \in Seq(Carts), NEW is, NEW js, Grown(cs, ds, is, js),
         NEW sub, SubmitHolds(sub, cs, is)
  PROVE  SubmitHolds(sub, ds, js)
<1>1. DOMAIN cs \subseteq DOMAIN ds
  BY DEF Grown
<1>2. sub.cart # 0 =>
          /\ sub.cart \in DOMAIN ds /\ ds[sub.cart].goods = sub.goods
          /\ sub.secret \in DOMAIN js /\ js[sub.secret].cart = sub.cart
  BY <1>1 DEF SubmitHolds, Grown
<1>3. ASSUME NEW s \in DOMAIN js, js[s].status = "captured", js[s].cart = sub.cart
      PROVE  s = sub.secret
  <2>1. s \in DOMAIN is /\ is[s].status = "captured" /\ is[s].cart = sub.cart
    BY <1>3 DEF Grown
  <2> QED  BY <2>1 DEF SubmitHolds
<1> QED  BY <1>2, <1>3 DEF SubmitHolds

\* A new intent is not the one being paid.
LEMMA HeldBefore ==
  ASSUME NEW cs, NEW ds, NEW is \in Seq(Intents), NEW js \in Seq(Intents),
         Grown(cs, ds, is, js),
         NEW sub, SubmitHolds(sub, cs, is), NEW s \in DOMAIN js, Held(s, js, sub.secret)
  PROVE  s \in DOMAIN is /\ Held(s, is, sub.secret) /\ js[s].cart = is[s].cart
<1>1. sub.secret # 0 => sub.secret \in DOMAIN is
  BY DEF SubmitHolds
<1>2. s \in DOMAIN is
  <2>1. s # 0
    OBVIOUS
  <2> QED  BY <1>1, <2>1 DEF Held, Grown
<1> QED  BY <1>2 DEF Held, Grown

\* A step of run r, which becomes y.  Who writes to a cart was at it before, or
\* is about to write to it and marks it if the page has sent another request
\* since.
WritesFair(x, y) ==
    /\ x.stage # "idle" /\ y.stage # "idle" /\ y.old = x.old
    /\ \A c \in DOMAIN carts :
          /\ c # y.cart => carts'[c] = carts[c]
          /\ carts[c].raced => carts'[c].raced
    /\ y.cart \in DOMAIN carts =>
          \/ carts'[y.cart] = carts[y.cart] /\ (Aside(x, y.cart) => Aside(y, y.cart))
          \/ ~Aside(x, y.cart)
          \/ x.old => carts'[y.cart].raced

LEMMA RunsCart ==
  ASSUME NEW cs \in Seq(Carts), NEW is, NEW x, RunShaped(x, cs, is),
         x.stage \in AtCart \/ Succeeded(x)
  PROVE  x.cart \in DOMAIN cs
<1>1. x.stage \in AtCart => Asking(x, cs, is)
  BY DEF RunShaped, IdlePrepare, Answered, AtCart
<1>2. Succeeded(x) => Answered(x, cs, is)
  BY DEF RunShaped, IdlePrepare, Asking, AtCart, Succeeded
<1> QED  BY <1>1, <1>2 DEF Asking, Answered, Succeeded

LEMMA RunStepLinks ==
  ASSUME CheckoutInv, NEW r \in Prepares, NEW y, preps' = [preps EXCEPT ![r] = y],
         WritesFair(preps[r], y), carts' \in Seq(Carts), intents' \in Seq(Intents),
         Grown(carts, carts', intents, intents'),
         page.pay.run = r =>
            /\ HeardRun(y, page.pay.asked.draft, page.pay.asked.line, carts')
            /\ OthersAside(r, y, preps, carts')
            /\ \A s \in DOMAIN intents' :
                  Held(s, intents', submit.secret) => HeldIsHeard(s, y, intents')
  PROVE  Links(page, preps', carts', intents', submit.secret)
<1> DEFINE o == page.pay.run
           d == page.pay.asked.draft
           l == page.pay.asked.line
<1>1. /\ carts \in Seq(Carts) /\ intents \in Seq(Intents) /\ DOMAIN preps = Prepares
      /\ \A x \in Prepares : RunShaped(preps[x], carts, intents)
      /\ SubmitHolds(submit, carts, intents)
  BY DEF CheckoutInv, ServerSound, RunsShaped
<1>2. /\ page.draft.cart \in 0..Len(carts)
      /\ Heard(page, preps, carts) /\ GotHolds(page, preps, carts, intents)
      /\ OthersOld(page, preps) /\ HeldIsGot(page, preps, intents, submit.secret)
  BY DEF CheckoutInv, Links
<1>3. PayShaped(page.pay)
  BY PageIsRaw DEF CheckoutInv, PageShaped
<1>4. o # None => o \in Prepares
  BY <1>3 DEF PayShaped
<1>5. Got(page, "ready") => o = None
  BY <1>3 DEF PayShaped, Got
<1>6. preps'[r] = y /\ \A q \in Prepares \ {r} : preps'[q] = preps[q]
  BY <1>1
<1>7. preps[r].stage # "idle" /\ y.stage # "idle" /\ y.old = preps[r].old
  BY DEF WritesFair
<1>8. r # None
  BY CheckoutAssumption
<1>9. (o # None /\ o # r) \/ Got(page, "ready") => preps[r].old
  BY <1>2, <1>5, <1>7, <1>8 DEF OthersOld
<1>10. ASSUME NEW c \in DOMAIN carts, preps[r].old, ~carts'[c].raced, Aside(preps[r], c)
       PROVE  carts'[c] = carts[c] /\ Aside(y, c)
  <2>1. CASE c = y.cart
    BY <1>10, <2>1 DEF WritesFair
  <2>2. CASE c # y.cart
    BY <1>10, <2>2 DEF WritesFair, Aside
  <2> QED  BY <2>1, <2>2
<1>11. \A c \in DOMAIN carts : ~carts'[c].raced => ~carts[c].raced
  BY DEF WritesFair
<1>12. page.draft.cart \in 0..Len(carts')
  BY <1>1, <1>2 DEF Grown
<1>13. Heard(page, preps', carts')
  <2>1. CASE o = r
    <3>1. OthersAside(r, y, preps', carts')
      BY <1>6, <2>1 DEF OthersAside
    <3> QED  BY <1>6, <2>1, <3>1 DEF Heard
  <2>2. CASE o # None /\ o # r
    <3> DEFINE x == preps[o]
    <3>1. HeardRun(x, d, l, carts) /\ OthersAside(o, x, preps, carts) /\ preps'[o] = x
      BY <1>2, <1>4, <1>6, <2>2 DEF Heard
    <3>2. RunShaped(x, carts, intents)
      BY <1>1, <1>4, <2>2
    <3>3. x.stage \in AtCart \/ Succeeded(x) => x.cart \in DOMAIN carts
      BY <1>1, <3>2, RunsCart
    <3>4. preps[r].old
      BY <1>9, <2>2
    <3>5. ASSUME x.stage \in AtCart \/ Succeeded(x), ~carts'[x.cart].raced
          PROVE  carts'[x.cart] = carts[x.cart] /\ Aside(y, x.cart)
      <4>1. x.cart \in DOMAIN carts /\ ~carts[x.cart].raced
        BY <1>11, <3>3, <3>5
      <4>2. Aside(preps[r], x.cart)
        BY <2>2, <3>1, <3>5, <4>1 DEF OthersAside
      <4> HIDE DEF x
      <4> QED  BY <1>10, <3>4, <3>5, <4>1, <4>2
    <3>6. Succeeded(x) => carts'[x.cart].goods = l.goods
      BY <3>1, <3>3 DEF HeardRun, Grown
    <3>7. HeardCart(x, d, carts')
      <4>1. CASE (x.stage \in AtCart \/ Succeeded(x)) /\ ~carts'[x.cart].raced
        <5>1. carts'[x.cart] = carts[x.cart] /\ HeardCart(x, d, carts)
          BY <3>1, <3>5, <4>1 DEF HeardRun
        <5> HIDE DEF x, d
        <5> QED  BY <5>1 DEF HeardCart
      <4>2. CASE ~((x.stage \in AtCart \/ Succeeded(x)) /\ ~carts'[x.cart].raced)
        BY <4>2 DEF HeardCart
      <4> QED  BY <4>1, <4>2
    <3>8. HeardRun(x, d, l, carts')
      BY <3>1, <3>6, <3>7 DEF HeardRun
    <3>9. OthersAside(o, x, preps', carts')
      <4> SUFFICES ASSUME x.stage \in AtCart \/ Succeeded(x), ~carts'[x.cart].raced,
                          NEW q \in Prepares \ {o}
                   PROVE  Aside(preps'[q], x.cart)
        BY DEF OthersAside
      <4>1. carts'[x.cart] = carts[x.cart] /\ Aside(y, x.cart)
        BY <3>5
      <4>2. Aside(preps[q], x.cart)
        BY <3>1, <4>1 DEF OthersAside
      <4> QED  BY <1>6, <4>1, <4>2
    <3> QED  BY <3>1, <3>8, <3>9 DEF Heard
  <2>3. CASE o = None
    BY <2>3 DEF Heard
  <2> QED  BY <2>1, <2>2, <2>3
<1>14. GotHolds(page, preps', carts', intents')
  <2> SUFFICES ASSUME Got(page, "ready")
               PROVE  GotHolds(page, preps', carts', intents')
    BY DEF GotHolds
  <2> DEFINE c == page.draft.cart
  <2>1. preps[r].old /\ c \in DOMAIN carts
    BY <1>2, <1>9 DEF GotHolds
  <2>2. c \in DOMAIN carts' /\ carts'[c].goods = carts[c].goods
    BY <1>1, <2>1 DEF Grown
  <2>3. ASSUME ~carts'[c].raced
        PROVE  carts'[c] = carts[c] /\ \A q \in Prepares : Aside(preps[q], c) /\ Aside(preps'[q], c)
    <3>1. ~carts[c].raced /\ \A q \in Prepares : Aside(preps[q], c)
      BY <1>2, <1>11, <2>1, <2>3 DEF GotHolds
    <3>2. Aside(preps[r], c)
      BY <3>1
    <3> HIDE DEF c
    <3>3. carts'[c] = carts[c] /\ Aside(y, c)
      BY <1>10, <2>1, <2>3, <3>2
    <3> QED  BY <1>6, <3>1, <3>3
  <2>4. page.pay.got.secret \in DOMAIN intents' /\ intents'[page.pay.got.secret].cart = c
    BY <1>2 DEF GotHolds, Grown
  <2> QED  BY <1>2, <2>2, <2>3, <2>4 DEF GotHolds
<1>15. OthersOld(page, preps')
  BY <1>2, <1>6, <1>7 DEF OthersOld
<1>16. HeldIsGot(page, preps', intents', submit.secret)
  <2> SUFFICES ASSUME NEW s \in DOMAIN intents', Held(s, intents', submit.secret)
               PROVE  /\ Got(page, "ready") /\ page.draft.cart = intents'[s].cart =>
                             page.pay.got.secret = s
                      /\ o # None => HeldIsHeard(s, preps'[o], intents')
    BY DEF HeldIsGot
  <2>1. s \in DOMAIN intents /\ Held(s, intents, submit.secret) /\ intents'[s].cart = intents[s].cart
    BY <1>1, HeldBefore
  <2>2. /\ Got(page, "ready") /\ page.draft.cart = intents[s].cart => page.pay.got.secret = s
        /\ o # None => HeldIsHeard(s, preps[o], intents)
    BY <1>2, <2>1 DEF HeldIsGot
  <2>3. o # None => HeldIsHeard(s, preps'[o], intents')
    <3>1. CASE o = r
      BY <1>6, <3>1
    <3>2. CASE o # None /\ o # r
      <4>1. preps'[o] = preps[o] /\ HeldIsHeard(s, preps[o], intents)
        BY <1>4, <1>6, <2>2, <3>2
      <4> QED  BY <2>1, <4>1 DEF HeldIsHeard
    <3> QED  BY <3>1, <3>2
  <2> QED  BY <2>1, <2>2, <2>3
<1> QED  BY <1>12, <1>13, <1>14, <1>15, <1>16 DEF Links

\* What is left to show of a step of a run.
LEMMA RunStepKeeps ==
  ASSUME CheckoutInv, NEW r \in Prepares, NEW y, preps' = [preps EXCEPT ![r] = y],
         UNCHANGED <<page, submit, clock, rev, comps>>,
         WritesFair(preps[r], y), ServerSound(carts', intents'),
         Grown(carts, carts', intents, intents'), RunShaped(y, carts', intents'),
         page.pay.run = r =>
            /\ HeardRun(y, page.pay.asked.draft, page.pay.asked.line, carts')
            /\ OthersAside(r, y, preps, carts')
            /\ \A s \in DOMAIN intents' :
                  Held(s, intents', submit.secret) => HeldIsHeard(s, y, intents')
  PROVE  CheckoutInv'
<1>1. /\ carts' \in Seq(Carts) /\ intents' \in Seq(Intents)
      /\ carts \in Seq(Carts) /\ intents \in Seq(Intents)
  BY DEF CheckoutInv, ServerSound
<1>2. Links(page, preps', carts', intents', submit.secret)
  BY <1>1, RunStepLinks
<1>3. RunsShaped(preps', carts', intents')
  <2>1. /\ DOMAIN preps = Prepares
        /\ \A x \in Prepares : RunShaped(preps[x], carts, intents)
    BY DEF CheckoutInv, RunsShaped
  <2>2. ASSUME NEW x \in Prepares PROVE RunShaped(preps'[x], carts', intents')
    <3>1. CASE x = r
      BY <2>1, <3>1
    <3>2. CASE x # r
      <4>1. preps'[x] = preps[x] /\ RunShaped(preps[x], carts, intents)
        BY <2>1, <3>2
      <4> QED  BY <1>1, <4>1, GrownRun
    <3> QED  BY <3>1, <3>2
  <2> QED  BY <2>1, <2>2 DEF RunsShaped
<1>4. CompsShaped(comps, carts')
  BY <1>1, GrownComps DEF CheckoutInv
<1>5. SubmitHolds(submit, carts', intents')
  BY <1>1, GrownSubmit DEF CheckoutInv
<1>6. PageInv(page, clock) /\ clock \in Nat /\ rev \in Nat
  BY DEF CheckoutInv
<1> QED  BY <1>2, <1>3, <1>4, <1>5, <1>6 DEF CheckoutInv

\* A step that writes to no cart.
LEMMA QuietStepKeeps ==
  ASSUME CheckoutInv, NEW r \in Prepares, NEW y, preps' = [preps EXCEPT ![r] = y],
         UNCHANGED <<page, submit, clock, rev, comps, carts, intents>>,
         preps[r].stage # "idle", y.stage # "idle", y.old = preps[r].old,
         Aside(preps[r], y.cart) => Aside(y, y.cart), RunShaped(y, carts, intents),
         page.pay.run = r =>
            /\ HeardRun(y, page.pay.asked.draft, page.pay.asked.line, carts)
            /\ OthersAside(r, y, preps, carts)
            /\ \A s \in DOMAIN intents :
                  Held(s, intents, submit.secret) => HeldIsHeard(s, y, intents)
  PROVE  CheckoutInv'
<1>1. carts \in Seq(Carts) /\ intents \in Seq(Intents) /\ ServerSound(carts, intents)
  BY DEF CheckoutInv, ServerSound
<1>2. Grown(carts, carts', intents, intents')
  BY <1>1 DEF Grown
<1>3. WritesFair(preps[r], y)
  BY DEF WritesFair
<1> QED  BY <1>1, <1>2, <1>3, RunStepKeeps

\* What the server's run r is of, if the page listens to it.
LEMMA RunIs ==
  ASSUME CheckoutInv, NEW r \in Prepares, preps[r].stage \notin {"idle", "done"}
  PROVE  /\ Asking(preps[r], carts, intents)
         /\ page.pay.run = r =>
               LET d == page.pay.asked.draft
                   l == page.pay.asked.line
               IN  /\ HeardRun(preps[r], d, l, carts) /\ OthersAside(r, preps[r], preps, carts)
                   /\ preps[r].req.addr = d.addr /\ preps[r].req.goods = l.goods
                   /\ preps[r].req.ship = d.ship /\ preps[r].req.tax = d.tax
                   /\ Payable(d, l) /\ ~Got(page, "ready")
                   /\ \A s \in DOMAIN intents :
                         Held(s, intents, submit.secret) => HeldIsHeard(s, preps[r], intents)
<1>1. RunShaped(preps[r], carts, intents)
  BY DEF CheckoutInv, RunsShaped
<1>2. Asking(preps[r], carts, intents)
  BY <1>1 DEF RunShaped, IdlePrepare, Answered
<1>3. ASSUME page.pay.run = r
      PROVE  /\ HeardRun(preps[r], page.pay.asked.draft, page.pay.asked.line, carts)
             /\ OthersAside(r, preps[r], preps, carts) /\ Asked(page) /\ ~Got(page, "ready")
             /\ \A s \in DOMAIN intents :
                   Held(s, intents, submit.secret) => HeldIsHeard(s, preps[r], intents)
  <2>1. r # None
    BY CheckoutAssumption
  <2>2. PayShaped(page.pay) /\ Heard(page, preps, carts)
        /\ HeldIsGot(page, preps, intents, submit.secret)
    BY PageIsRaw DEF CheckoutInv, PageShaped, Links
  <2>3. page.pay.phase = "asked"
    BY <1>3, <2>1, <2>2 DEF PayShaped
  <2> QED  BY <1>3, <2>1, <2>2, <2>3 DEF PayShaped, Heard, HeldIsGot, Asked, Got
<1>4. Asked(page) => Payable(page.pay.asked.draft, page.pay.asked.line)
  BY PaymentAsked DEF CheckoutInv
<1> QED  BY <1>2, <1>3, <1>4 DEF HeardRun

LEMMA AnswerKeeps ==
  ASSUME CheckoutInv, NEW r \in Prepares, preps[r].stage \notin {"idle", "done"},
         NEW out, out # "ready", Answer(r, out),
         UNCHANGED <<page, submit, clock, rev, comps, carts, intents>>
  PROVE  CheckoutInv'
<1> DEFINE y == [stage |-> "done", out |-> out, cart |-> preps[r].cart,
                 secret |-> 0, old |-> preps[r].old]
<1>1. Asking(preps[r], carts, intents)
  BY RunIs
<1>2. preps' = [preps EXCEPT ![r] = y]
  BY DEF Answer, Reply
<1>3. /\ y.stage = "done" /\ y.out = out /\ y.cart = preps[r].cart /\ y.old = preps[r].old
      /\ DOMAIN y = {"stage", "out", "cart", "secret", "old"}
  OBVIOUS
<1> HIDE DEF y
<1>4. RunShaped(y, carts, intents)
  BY <1>1, <1>3 DEF Asking, RunShaped, Answered
<1>5. ~Succeeded(y) /\ y.stage \notin AtCart /\ Aside(y, y.cart)
  BY <1>3 DEF Succeeded, AtCart, Aside
<1>6. \A s : HeldIsHeard(s, y, intents)
  BY <1>3, <1>5 DEF HeldIsHeard
<1>7. page.pay.run = r =>
         /\ HeardRun(y, page.pay.asked.draft, page.pay.asked.line, carts)
         /\ OthersAside(r, y, preps, carts)
  BY <1>3, <1>5 DEF HeardRun, HeardCart, OthersAside
<1> QED  BY <1>2, <1>3, <1>4, <1>5, <1>6, <1>7, QuietStepKeeps

LEMMA PrepareFailsKeeps ==
  ASSUME CheckoutInv, NEW r \in Prepares, PrepareFails(r), UNCHANGED browserVars
  PROVE  CheckoutInv'
BY AnswerKeeps DEF PrepareFails, browserVars

LEMMA PrepareLinesKeeps ==
  ASSUME CheckoutInv, NEW r \in Prepares, PrepareLines(r), UNCHANGED browserVars
  PROVE  CheckoutInv'
<1> DEFINE x   == preps[r]
           req == x.req
           y   == [x EXCEPT !.stage = "reuse", !.unit = UnitPrice(rev, req.goods)]
<1>1. x.stage = "lines" /\ UNCHANGED <<page, submit, clock, rev, comps, carts, intents>>
  BY DEF PrepareLines, browserVars
<1>2. Asking(x, carts, intents)
  BY <1>1, RunIs
<1>4. CASE Answer(r, "bad_quote") \/ Answer(r, "refused") \/ Answer(r, "requote")
  BY <1>1, <1>4, AnswerKeeps
<1>5. CASE preps' = [preps EXCEPT ![r].stage = "reuse", ![r].unit = UnitPrice(rev, req.goods)]
  <2>1. preps' = [preps EXCEPT ![r] = y]
    BY <1>5 DEF CheckoutInv, RunsShaped
  <2>2. /\ DOMAIN y = DOMAIN x /\ y.stage = "reuse" /\ y.unit = UnitPrice(rev, req.goods)
        /\ y.req = x.req /\ y.cart = x.cart /\ y.seen = x.seen /\ y.old = x.old
    BY <1>2 DEF Asking
  <2>3. UnitPrice(rev, req.goods) \in Prices
    <3>1. rev \in Nat /\ req.goods \in Goods
      BY <1>2 DEF CheckoutInv, Asking
    <3> QED  BY <3>1 DEF UnitPrice, Prices, Goods
  <2> HIDE DEF y
  <2>4. Asking(y, carts, intents)
    BY <1>1, <1>2, <2>2, <2>3 DEF Asking, AtCart
  <2>5. RunShaped(y, carts, intents)
    BY <2>4 DEF RunShaped
  <2>6. x.cart = 0 /\ ~Succeeded(y) /\ y.stage \notin AtCart
    BY <1>1, <1>2, <2>2 DEF Asking, Succeeded, AtCart
  <2>7. \A s : HeldIsHeard(s, y, intents)
    BY <2>2 DEF HeldIsHeard
  <2>8. page.pay.run = r =>
           /\ HeardRun(y, page.pay.asked.draft, page.pay.asked.line, carts)
           /\ OthersAside(r, y, preps, carts)
    BY <1>1, <2>2, <2>6, RunIs DEF HeardRun, HeardCart, OthersAside
  <2>9. Aside(x, y.cart) => Aside(y, y.cart)
    BY <1>1, <2>2 DEF Aside
  <2> QED  BY <1>1, <2>1, <2>2, <2>5, <2>7, <2>8, <2>9, QuietStepKeeps
<1> QED  BY <1>4, <1>5 DEF PrepareLines

LEMMA PrepareReuseKeeps ==
  ASSUME CheckoutInv, NEW r \in Prepares, PrepareReuse(r), UNCHANGED browserVars
  PROVE  CheckoutInv'
<1> DEFINE x    == preps[r]
           cart == IF x.req.cart # 0 /\ Reusable(carts[x.req.cart], x.req, x.unit)
                   THEN x.req.cart ELSE 0
           y    == [x EXCEPT !.stage = "write", !.cart = cart]
<1>1. x.stage = "reuse" /\ UNCHANGED <<page, submit, clock, rev, comps, carts, intents>>
  BY DEF PrepareReuse, browserVars
<1>2. Asking(x, carts, intents)
  BY <1>1, RunIs
<1>3. preps' = [preps EXCEPT ![r] = y]
  BY DEF PrepareReuse, CheckoutInv, RunsShaped
<1>4. cart \in 0..Len(carts) /\ (cart # 0 => carts[cart].goods = x.req.goods)
  <2>1. x.req.cart \in 0..Len(carts) /\ Len(carts) \in Nat
    BY <1>2 DEF Asking, CheckoutInv, ServerSound
  <2>2. Reusable(carts[x.req.cart], x.req, x.unit) => carts[x.req.cart].goods = x.req.goods
    BY DEF Reusable
  <2> QED  BY <2>1, <2>2
<1> HIDE DEF cart
<1>5. /\ DOMAIN y = DOMAIN x /\ y.stage = "write" /\ y.unit = x.unit
      /\ y.req = x.req /\ y.cart = cart /\ y.seen = x.seen /\ y.old = x.old
  BY <1>2 DEF Asking
<1> HIDE DEF y
<1>6. Asking(y, carts, intents)
  BY <1>1, <1>2, <1>4, <1>5 DEF Asking, AtCart
<1>7. RunShaped(y, carts, intents)
  BY <1>6 DEF RunShaped
<1>8. ~Succeeded(y) /\ y.stage \notin AtCart /\ Aside(y, y.cart)
  BY <1>5 DEF Succeeded, AtCart, Aside
<1>9. \A s : HeldIsHeard(s, y, intents)
  BY <1>5, <1>8 DEF HeldIsHeard
<1>10. page.pay.run = r =>
          /\ HeardRun(y, page.pay.asked.draft, page.pay.asked.line, carts)
          /\ OthersAside(r, y, preps, carts)
  BY <1>1, <1>5, <1>8, RunIs DEF HeardRun, HeardCart, OthersAside
<1> QED  BY <1>1, <1>3, <1>5, <1>7, <1>8, <1>9, <1>10, QuietStepKeeps

\* A cart's total is never None, which a collection that is missing is.
LEMMA TotalIs ==
  ASSUME NEW c \in Carts
  PROVE  Total(c) \in Totals /\ Total(c) # None
<1>1. /\ c.unit \in Prices /\ c.goods.qty \in Quantities /\ c.ship \in Nat \cup {None}
      /\ PlaceOf(c.addr) \in Places
  BY DEF Carts, Goods, Places
<1>2. Total(c) \in Totals
  BY <1>1 DEF Total, Totals
<1> QED  BY <1>2, CheckoutAssumption

LEMMA CartIs ==
  ASSUME CheckoutInv, NEW c \in DOMAIN carts
  PROVE  /\ carts[c] \in Carts /\ CartSound(c, carts, intents)
         /\ Total(carts[c]) \in Totals /\ Total(carts[c]) # None
         /\ c \in Nat /\ c # 0 /\ c <= Len(carts)
<1>1. carts \in Seq(Carts) /\ CartSound(c, carts, intents)
  BY DEF CheckoutInv, ServerSound
<1>2. carts[c] \in Carts
  BY <1>1
<1> QED  BY <1>1, <1>2, TotalIs

\* A run at its cart has one.
LEMMA AtCartIs ==
  ASSUME CheckoutInv, NEW r \in Prepares, preps[r].stage \in AtCart
  PROVE  /\ Asking(preps[r], carts, intents) /\ preps[r].cart \in DOMAIN carts
         /\ preps[r].stage \notin {"idle", "done"}
<1>1. preps[r].stage \notin {"idle", "done"}
  BY DEF AtCart
<1>2. Asking(preps[r], carts, intents)
  BY <1>1, RunIs
<1>3. carts \in Seq(Carts)
  BY DEF CheckoutInv, ServerSound
<1> QED  BY <1>1, <1>2, <1>3 DEF Asking

LEMMA PrepareReadKeeps ==
  ASSUME CheckoutInv, NEW r \in Prepares, PrepareRead(r), UNCHANGED browserVars
  PROVE  CheckoutInv'
<1> DEFINE x     == preps[r]
           c     == carts[x.cart]
           stage == IF c.coll = None THEN "collect" ELSE "session"
           seen  == IF c.coll = Total(c) THEN c.secret ELSE 0
           y     == [x EXCEPT !.stage = stage, !.seen = seen]
<1>1. x.stage = "read" /\ UNCHANGED <<page, submit, clock, rev, comps, carts, intents>>
  BY DEF PrepareRead, browserVars
<1>2. Asking(x, carts, intents) /\ x.cart \in DOMAIN carts /\ x.stage \in AtCart
  BY <1>1, AtCartIs DEF AtCart
<1>3. preps' = [preps EXCEPT ![r] = y]
  BY DEF PrepareRead, CheckoutInv, RunsShaped
<1>4. CartSound(x.cart, carts, intents) /\ Total(c) # None
  BY <1>2, CartIs
<1>5. /\ stage \in {"collect", "session"} /\ (stage = "collect" => seen = 0)
      /\ stage = "session" => /\ c.coll # None
                              /\ seen = c.secret
                              /\ seen # 0 => /\ seen \in DOMAIN intents
                                             /\ intents[seen].cart = x.cart
  BY <1>4 DEF CartSound
<1> HIDE DEF stage, seen
<1>6. /\ DOMAIN y = DOMAIN x /\ y.stage = stage /\ y.unit = x.unit
      /\ y.req = x.req /\ y.cart = x.cart /\ y.seen = seen /\ y.old = x.old
  BY <1>2 DEF Asking
<1> HIDE DEF y
<1>7. Asking(y, carts, intents)
  BY <1>1, <1>2, <1>5, <1>6 DEF Asking, AtCart
<1>8. RunShaped(y, carts, intents)
  BY <1>7 DEF RunShaped
<1>9. ~Succeeded(y) /\ y.stage \in AtCart /\ (Aside(x, y.cart) => Aside(y, y.cart))
  BY <1>1, <1>5, <1>6 DEF Succeeded, AtCart, Aside
<1>10. ASSUME NEW s \in DOMAIN intents, Held(s, intents, submit.secret)
       PROVE  HeldIsHeard(s, y, intents)
  <2>1. IntentSound(s, carts, intents)
    BY DEF CheckoutInv, ServerSound
  <2>2. carts[intents[s].cart].secret = s
    BY <1>10, <2>1 DEF Held, IntentSound
  <2> QED  BY <1>5, <1>6, <1>9, <2>2 DEF HeldIsHeard
<1>11. ASSUME page.pay.run = r
       PROVE  /\ HeardRun(y, page.pay.asked.draft, page.pay.asked.line, carts)
              /\ OthersAside(r, y, preps, carts)
  <2>1. /\ HeardRun(x, page.pay.asked.draft, page.pay.asked.line, carts)
        /\ OthersAside(r, x, preps, carts)
    BY <1>1, <1>11, RunIs
  <2>2. y.stage \notin {"idle", "done"} /\ x.stage \notin {"idle", "done"}
    BY <1>1, <1>5, <1>6
  <2>3. HeardCart(y, page.pay.asked.draft, carts)
    BY <1>2, <1>5, <1>6, <1>9, <2>1 DEF HeardRun, HeardCart
  <2>4. HeardRun(y, page.pay.asked.draft, page.pay.asked.line, carts)
    BY <1>6, <1>9, <2>1, <2>2, <2>3 DEF HeardRun
  <2>5. OthersAside(r, y, preps, carts)
    BY <1>2, <1>6, <2>1 DEF OthersAside
  <2> QED  BY <2>4, <2>5
<1>12. preps[r].stage # "idle" /\ y.stage # "idle"
  BY <1>1, <1>5, <1>6
<1> QED  BY <1>1, <1>3, <1>6, <1>8, <1>9, <1>10, <1>11, <1>12, QuietStepKeeps

\* The session that was read is answered.
LEMMA SeenAnswered ==
  ASSUME CheckoutInv, NEW r \in Prepares, preps[r].stage = "session", preps[r].seen # 0,
         Reply(r, "ready", preps[r].seen),
         UNCHANGED <<page, submit, clock, rev, comps, carts, intents>>
  PROVE  CheckoutInv'
<1> DEFINE x == preps[r]
           y == [stage |-> "done", out |-> "ready", cart |-> x.cart,
                 secret |-> x.seen, old |-> x.old]
<1>1. Asking(x, carts, intents) /\ x.cart \in DOMAIN carts /\ x.stage \in AtCart
  BY AtCartIs DEF AtCart
<1>2. preps' = [preps EXCEPT ![r] = y]
  BY DEF Reply
<1>3. /\ y.stage = "done" /\ y.out = "ready" /\ y.cart = x.cart /\ y.old = x.old
      /\ y.secret = x.seen /\ DOMAIN y = {"stage", "out", "cart", "secret", "old"}
  OBVIOUS
<1> HIDE DEF y
<1>4. RunShaped(y, carts, intents)
  BY <1>1, <1>3 DEF Asking, RunShaped, Answered
<1>5. Succeeded(y) /\ Aside(y, y.cart) /\ y.stage \notin AtCart
  BY <1>3 DEF Succeeded, Aside, AtCart
<1>6. ASSUME page.pay.run = r
      PROVE  /\ HeardRun(y, page.pay.asked.draft, page.pay.asked.line, carts)
             /\ OthersAside(r, y, preps, carts)
             /\ \A s \in DOMAIN intents :
                   Held(s, intents, submit.secret) => HeldIsHeard(s, y, intents)
  <2>1. /\ HeardRun(x, page.pay.asked.draft, page.pay.asked.line, carts)
        /\ OthersAside(r, x, preps, carts) /\ x.req.goods = page.pay.asked.line.goods
        /\ \A s \in DOMAIN intents :
              Held(s, intents, submit.secret) => HeldIsHeard(s, x, intents)
    BY <1>6, RunIs
  <2>2. carts[y.cart].goods = page.pay.asked.line.goods
    BY <1>1, <1>3, <2>1, AtCartIs DEF Asking, AtCart
  <2>3. HeardCart(y, page.pay.asked.draft, carts)
    BY <1>1, <1>3, <1>5, <2>1 DEF HeardRun, HeardCart
  <2>4. HeardRun(y, page.pay.asked.draft, page.pay.asked.line, carts)
    BY <1>3, <2>2, <2>3 DEF HeardRun
  <2>5. OthersAside(r, y, preps, carts)
    BY <1>1, <1>3, <2>1 DEF OthersAside
  <2>6. \A s \in DOMAIN intents :
            Held(s, intents, submit.secret) => HeldIsHeard(s, y, intents)
    BY <1>3, <2>1 DEF HeldIsHeard
  <2> QED  BY <2>4, <2>5, <2>6
<1> QED  BY <1>2, <1>3, <1>4, <1>5, <1>6, QuietStepKeeps

(***************************************************************************)
(* The steps that write to a cart.                                         *)
(***************************************************************************)
\* A refresh prices the cart anew; a total that moved updates the collection,
\* drops the session and cancels it.
LEMMA RefreshedIs ==
  ASSUME NEW m \in Carts, rev \in Nat
  PROVE  LET n == Refreshed(m)
         IN  /\ n \in Carts
             /\ n.goods = m.goods /\ n.addr = m.addr /\ n.ship = m.ship
             /\ n.order = m.order /\ n.raced = m.raced
             /\ TotalMoved(m) => n.coll = Total(n) /\ n.secret = 0 /\ m.coll # None
             /\ ~TotalMoved(m) => /\ n.coll = m.coll /\ n.secret = m.secret
                                  /\ n.coll # None => n.coll = Total(n)
<1> DEFINE n == Refreshed(m)
           p == Repriced(m)
<1>1. m.goods \in Goods /\ UnitPrice(rev, m.goods) \in Prices
  <2>1. m.goods \in Goods
    BY DEF Carts
  <2> QED  BY <2>1 DEF UnitPrice, Prices, Goods
<1>2. /\ p \in Carts
      /\ p.goods = m.goods /\ p.addr = m.addr /\ p.ship = m.ship /\ p.coll = m.coll
      /\ p.secret = m.secret /\ p.order = m.order /\ p.raced = m.raced
  BY <1>1 DEF Repriced, Carts
<1>3. TotalMoved(m) <=> m.coll # None /\ m.coll # Total(p)
  BY DEF TotalMoved
<1>4. n = IF TotalMoved(m) THEN [p EXCEPT !.coll = Total(p), !.secret = 0] ELSE p
  BY DEF Refreshed
<1>5. Total(p) \in Totals
  BY <1>2, TotalIs
<1> HIDE DEF n, p
<1>6. CASE TotalMoved(m)
  <2> DEFINE t == Total(p)
  <2> HIDE DEF t
  <2>1. n = [p EXCEPT !.coll = t, !.secret = 0] /\ t \in Totals
    BY <1>4, <1>5, <1>6 DEF t
  <2>2. /\ n \in Carts
        /\ n.goods = p.goods /\ n.addr = p.addr /\ n.ship = p.ship /\ n.unit = p.unit
        /\ n.order = p.order /\ n.raced = p.raced /\ n.coll = t /\ n.secret = 0
    BY <1>2, <2>1 DEF Carts
  <2>3. Total(n) = t
    BY <2>2 DEF Total, t
  <2> QED  BY <1>2, <1>3, <1>6, <2>2, <2>3 DEF n
<1>7. CASE ~TotalMoved(m)
  BY <1>2, <1>3, <1>4, <1>7 DEF n
<1> QED  BY <1>6, <1>7

\* The cart c is written, with n; its intent may be canceled by it.
LEMMA WriteSound ==
  ASSUME CheckoutInv, NEW c \in DOMAIN carts, NEW n \in Carts,
         carts' = [carts EXCEPT ![c] = n],
         n.goods = carts[c].goods, carts[c].coll # None => n.coll # None,
         n.coll # None => n.coll = Total(n), n.order = carts[c].order,
         \/ /\ intents' = intents /\ n.secret = carts[c].secret
            /\ n.secret # 0 => n.coll = carts[c].coll
            /\ n.order # None => n.coll = carts[c].coll
         \/ /\ n.secret = 0 /\ n.order = None
            /\ IF carts[c].secret = 0 THEN intents' = intents
               ELSE /\ intents' = Canceled(carts[c].secret)
                    /\ intents[carts[c].secret].status # "captured"
  PROVE  ServerSound(carts', intents') /\ Grown(carts, carts', intents, intents')
<1> DEFINE s == carts[c].secret
<1>1. /\ carts \in Seq(Carts) /\ intents \in Seq(Intents)
      /\ \A o \in DOMAIN carts : CartSound(o, carts, intents)
      /\ \A i \in DOMAIN intents : IntentSound(i, carts, intents)
  BY DEF CheckoutInv, ServerSound
<1>2. /\ carts' \in Seq(Carts) /\ DOMAIN carts' = DOMAIN carts /\ Len(carts') = Len(carts)
      /\ carts'[c] = n /\ \A o \in DOMAIN carts \ {c} : carts'[o] = carts[o]
  BY <1>1
<1>3. CASE intents' = intents /\ n.secret = s
  <2>1. ASSUME NEW o \in DOMAIN carts' PROVE CartSound(o, carts', intents')
    <3>1. CartSound(o, carts, intents)
      BY <1>1, <1>2
    <3>2. CASE o = c
      <4>1. n.secret # 0 \/ n.order # None => n.coll = carts[c].coll
        BY <1>3, <3>1, <3>2 DEF CartSound
      <4> QED  BY <1>2, <1>3, <3>1, <3>2, <4>1 DEF CartSound
    <3>3. CASE o # c
      BY <1>2, <1>3, <3>1, <3>3 DEF CartSound
    <3> QED  BY <3>2, <3>3
  <2>2. ASSUME NEW i \in DOMAIN intents' PROVE IntentSound(i, carts', intents')
    <3>1. IntentSound(i, carts, intents)
      BY <1>1, <1>3
    <3> QED  BY <1>2, <1>3, <3>1 DEF IntentSound
  <2>3. ServerSound(carts', intents')
    BY <1>1, <1>2, <1>3, <2>1, <2>2 DEF ServerSound
  <2>4. Grown(carts, carts', intents, intents')
    BY <1>1, <1>2, <1>3 DEF Grown
  <2> QED  BY <2>3, <2>4
<1>4. CASE /\ n.secret = 0 /\ n.order = None
           /\ IF s = 0 THEN intents' = intents
              ELSE intents' = Canceled(s) /\ intents[s].status # "captured"
  <2>1. s # 0 => /\ s \in DOMAIN intents /\ intents[s].cart = c
    BY <1>1 DEF CartSound
  <2> HIDE DEF s
  <2>2. /\ intents' \in Seq(Intents) /\ DOMAIN intents' = DOMAIN intents
        /\ \A i \in DOMAIN intents : /\ intents'[i].cart = intents[i].cart
                                     /\ intents'[i].amount = intents[i].amount
                                     /\ i # s => intents'[i].status = intents[i].status
        /\ s # 0 => intents'[s].status = "canceled" /\ intents[s].status # "captured"
    <3>1. CASE s = 0
      BY <1>1, <1>4, <3>1
    <3>2. CASE s # 0
      <4>1. intents' = [intents EXCEPT ![s].status = "canceled"]
        BY <1>4, <3>2 DEF Canceled
      <4>2. intents[s] \in Intents
        BY <1>1, <2>1, <3>2
      <4>3. [intents[s] EXCEPT !.status = "canceled"] \in Intents /\ DOMAIN intents[s] = {"cart", "amount", "status"}
        BY <4>2 DEF Intents
      <4> QED  BY <1>1, <1>4, <2>1, <3>2, <4>1, <4>2, <4>3
    <3> QED  BY <3>1, <3>2
  <2>3. ASSUME NEW o \in DOMAIN carts' PROVE CartSound(o, carts', intents')
    <3>1. CartSound(o, carts, intents)
      BY <1>1, <1>2
    <3>2. CASE o = c
      BY <1>2, <1>4, <3>2 DEF CartSound
    <3>3. CASE o # c
      <4>1. carts'[o] = carts[o] /\ o \in DOMAIN carts
        BY <1>2, <3>3
      <4>2. carts[o].secret # 0 => carts[o].secret \in DOMAIN intents /\ carts[o].secret # s
        BY <2>1, <3>1, <3>3 DEF CartSound
      <4> QED  BY <2>2, <3>1, <4>1, <4>2 DEF CartSound
    <3> QED  BY <3>2, <3>3
  <2>4. ASSUME NEW i \in DOMAIN intents' PROVE IntentSound(i, carts', intents')
    <3>1. i \in DOMAIN intents /\ i # 0 /\ IntentSound(i, carts, intents)
      BY <1>1, <2>2
    <3>2. intents'[i].status # "canceled" => i # s /\ intents[i].status # "canceled"
      BY <2>2, <3>1
    <3>3. intents'[i].status # "canceled" => carts[intents[i].cart].secret = i
      BY <3>1, <3>2 DEF IntentSound
    <3>4. intents'[i].status # "canceled" => intents[i].cart # c
      BY <3>2, <3>3 DEF s
    <3> QED  BY <1>2, <2>2, <3>1, <3>3, <3>4 DEF IntentSound
  <2>5. ServerSound(carts', intents')
    BY <1>2, <2>2, <2>3, <2>4 DEF ServerSound
  <2>6. Grown(carts, carts', intents, intents')
    <3>1. \A i \in DOMAIN intents' : intents'[i].status # "canceled" =>
              i \in DOMAIN intents /\ intents'[i].status = intents[i].status
      BY <1>1, <2>2
    <3> QED  BY <1>1, <1>2, <2>2, <3>1 DEF Grown
  <2> QED  BY <2>5, <2>6
<1> QED  BY <1>3, <1>4

\* A refresh that does not throw keeps the server sound.
LEMMA RefreshSound ==
  ASSUME CheckoutInv, NEW c \in DOMAIN carts, NEW m \in Carts, ~RefreshThrows(m),
         m.goods = carts[c].goods, m.coll = carts[c].coll, m.secret = carts[c].secret,
         m.order = carts[c].order,
         carts' = [carts EXCEPT ![c] = Refreshed(m)], intents' = IntentsAfterRefresh(m)
  PROVE  /\ ServerSound(carts', intents') /\ Grown(carts, carts', intents, intents')
         /\ carts'[c].addr = m.addr /\ carts'[c].raced = m.raced
         /\ \A o \in DOMAIN carts \ {c} : carts'[o] = carts[o]
<1> DEFINE n == Refreshed(m)
<1>1. /\ n \in Carts
      /\ n.goods = m.goods /\ n.addr = m.addr /\ n.ship = m.ship
      /\ n.order = m.order /\ n.raced = m.raced
      /\ TotalMoved(m) => n.coll = Total(n) /\ n.secret = 0 /\ m.coll # None
      /\ ~TotalMoved(m) => /\ n.coll = m.coll /\ n.secret = m.secret
                           /\ n.coll # None => n.coll = Total(n)
  BY RefreshedIs DEF CheckoutInv
<1>2. /\ carts' = [carts EXCEPT ![c] = n] /\ n.goods = carts[c].goods
      /\ n.order = carts[c].order
  BY <1>1
<1> HIDE DEF n
<1>3. CartSound(c, carts, intents)
  BY CartIs
<1>4. n.coll # None => n.coll = Total(n)
  BY <1>1
<1>5. Total(n) # None
  BY <1>1, TotalIs
<1>6. CASE TotalMoved(m)
  <2>1. IF carts[c].secret = 0 THEN intents' = intents
        ELSE /\ intents' = Canceled(carts[c].secret)
             /\ intents[carts[c].secret].status # "captured"
    BY <1>6 DEF IntentsAfterRefresh, RefreshThrows
  <2>2. n.order = None
    BY <1>2, <1>3, <2>1 DEF CartSound
  <2>3. n.coll # None /\ n.secret = 0
    BY <1>1, <1>5, <1>6
  <2>4. ServerSound(carts', intents') /\ Grown(carts, carts', intents, intents')
    BY <1>1, <1>2, <1>4, <2>1, <2>2, <2>3, WriteSound
  <2> QED  BY <1>1, <1>2, <2>4 DEF CheckoutInv, ServerSound
<1>7. CASE ~TotalMoved(m)
  <2>1. intents' = intents
    BY <1>7 DEF IntentsAfterRefresh
  <2>2. n.coll = carts[c].coll /\ n.secret = carts[c].secret
    BY <1>1, <1>7
  <2>3. ServerSound(carts', intents') /\ Grown(carts, carts', intents, intents')
    BY <1>1, <1>2, <1>4, <2>1, <2>2, WriteSound
  <2> QED  BY <1>1, <1>2, <2>3 DEF CheckoutInv, ServerSound
<1> QED  BY <1>6, <1>7

LEMMA UpdateCartKeeps ==
  ASSUME CheckoutInv, NEW r \in Prepares, preps[r].stage = "write", preps[r].cart # 0,
         UpdateCart(r, preps[r].cart), UNCHANGED <<page, submit, clock, rev, comps>>
  PROVE  CheckoutInv'
<1> DEFINE x     == preps[r]
           c     == x.cart
           raced == carts[c].raced \/ x.old \/ \E q \in Prepares \ {r} : WorkingOn(q, c)
           moved == [carts[c] EXCEPT !.addr = x.req.addr, !.raced = raced]
           y     == [x EXCEPT !.stage = "method"]
<1>1. Asking(x, carts, intents) /\ x.stage \notin {"idle", "done"}
  BY RunIs
<1>2. c \in DOMAIN carts
  BY <1>1 DEF Asking, CheckoutInv, ServerSound
<1>3. CASE Answer(r, "failed") /\ UNCHANGED <<carts, intents>>
  BY <1>1, <1>3, AnswerKeeps
<1>4. CASE /\ ~RefreshThrows(moved)
           /\ carts' = [carts EXCEPT ![c] = Refreshed(moved)]
           /\ intents' = IntentsAfterRefresh(moved)
           /\ preps' = To(r, "method")
  <2>1. carts[c] \in Carts /\ carts[c].raced \in BOOLEAN /\ x.old \in BOOLEAN
    BY <1>1, <1>2, CartIs DEF Carts, Asking
  <2>2. raced \in BOOLEAN
    OBVIOUS
  <2>3. /\ carts[c].raced => raced
        /\ x.old => raced
        /\ ~raced => \A q \in Prepares \ {r} : ~WorkingOn(q, c)
    BY <2>1
  <2> HIDE DEF raced
  <2>4. x.req.addr \in Addresses
    BY <1>1 DEF Asking
  <2>5. /\ moved \in Carts /\ moved.goods = carts[c].goods /\ moved.coll = carts[c].coll
        /\ moved.secret = carts[c].secret /\ moved.order = carts[c].order
        /\ moved.addr = x.req.addr /\ moved.raced = raced
    BY <2>1, <2>2, <2>4 DEF Carts
  <2> HIDE DEF moved, c
  <2>6. /\ ServerSound(carts', intents') /\ Grown(carts, carts', intents, intents')
        /\ carts'[c].addr = x.req.addr /\ carts'[c].raced = raced
        /\ \A o \in DOMAIN carts \ {c} : carts'[o] = carts[o]
    BY <1>2, <1>4, <2>5, RefreshSound
  <2>7. preps' = [preps EXCEPT ![r] = y]
    BY <1>4 DEF To, CheckoutInv, RunsShaped
  <2>8. /\ DOMAIN y = DOMAIN x /\ y.stage = "method" /\ y.unit = x.unit
        /\ y.req = x.req /\ y.cart = c /\ y.seen = x.seen /\ y.old = x.old
    BY <1>1 DEF Asking, c
  <2> HIDE DEF y
  <2>9. Asking(y, carts, intents)
    BY <1>1, <1>2, <2>8 DEF Asking, AtCart, c
  <2>10. RunShaped(y, carts', intents')
    <3>1. RunShaped(y, carts, intents)
      BY <2>9 DEF RunShaped
    <3> QED  BY <2>6, <3>1, GrownRun DEF CheckoutInv, ServerSound
  <2>11. WritesFair(x, y)
    BY <1>1, <2>3, <2>6, <2>8 DEF WritesFair
  <2>12. ASSUME page.pay.run = r
         PROVE  /\ HeardRun(y, page.pay.asked.draft, page.pay.asked.line, carts')
                /\ OthersAside(r, y, preps, carts')
                /\ \A s : HeldIsHeard(s, y, intents')
    <3>1. /\ HeardRun(x, page.pay.asked.draft, page.pay.asked.line, carts)
          /\ x.req.addr = page.pay.asked.draft.addr
      BY <1>1, <2>12, RunIs
    <3>2. ~Succeeded(y) /\ y.stage \notin {"session", "done"}
      BY <2>8 DEF Succeeded
    <3>3. HeardRun(y, page.pay.asked.draft, page.pay.asked.line, carts')
      BY <1>1, <2>6, <2>8, <3>1, <3>2 DEF HeardRun, HeardCart
    <3>4. OthersAside(r, y, preps, carts')
      BY <2>3, <2>6, <2>8 DEF OthersAside, WorkingOn, Aside
    <3> QED  BY <3>2, <3>3, <3>4 DEF HeldIsHeard
  <2> QED  BY <2>6, <2>7, <2>10, <2>11, <2>12, RunStepKeeps
<1> QED  BY <1>3, <1>4 DEF UpdateCart

\* The run r, at its cart c, goes on to y with what it wrote to it.
LEMMA AtCartKeeps ==
  ASSUME CheckoutInv, NEW r \in Prepares, preps[r].stage \in AtCart, NEW y,
         preps' = [preps EXCEPT ![r] = y], UNCHANGED <<page, submit, clock, rev, comps>>,
         y.stage # "idle", y.old = preps[r].old, y.cart = preps[r].cart,
         y.stage \in AtCart \/ Succeeded(y),
         y.stage # "done" => y.req = preps[r].req,
         ServerSound(carts', intents'), Grown(carts, carts', intents, intents'),
         RunShaped(y, carts', intents'),
         carts'[y.cart].raced = carts[y.cart].raced, carts'[y.cart].addr = carts[y.cart].addr,
         \A o \in DOMAIN carts \ {y.cart} : carts'[o] = carts[o],
         y.stage = "session" /\ y.seen # 0 => carts'[y.cart].secret = y.seen,
         Succeeded(y) => carts'[y.cart].secret = y.secret
  PROVE  CheckoutInv'
<1> DEFINE x == preps[r]
           c == x.cart
           d == page.pay.asked.draft
           l == page.pay.asked.line
<1>1. Asking(x, carts, intents) /\ c \in DOMAIN carts /\ x.stage \notin {"idle", "done"}
  BY AtCartIs
<1>2. WritesFair(x, y)
  <2>1. ~Aside(x, y.cart)
    BY DEF Aside, AtCart
  <2>2. \A o \in DOMAIN carts : carts[o].raced => carts'[o].raced
    BY <1>1
  <2> QED  BY <1>1, <2>1, <2>2 DEF WritesFair
<1>3. carts'[c].goods = x.req.goods
  BY <1>1 DEF Asking, AtCart, Grown
<1>4. ASSUME page.pay.run = r
      PROVE  HeardRun(y, d, l, carts') /\ OthersAside(r, y, preps, carts')
  <2>1. /\ HeardRun(x, d, l, carts) /\ OthersAside(r, x, preps, carts)
        /\ x.req.goods = l.goods
    BY <1>1, <1>4, RunIs
  <2>2. HeardCart(y, d, carts')
    <3>1. HeardCart(x, d, carts)
      BY <2>1 DEF HeardRun
    <3> HIDE DEF d
    <3> QED  BY <3>1 DEF HeardCart
  <2>4. HeardRun(y, d, l, carts')
    BY <1>1, <1>3, <2>1, <2>2 DEF HeardRun
  <2>5. OthersAside(r, y, preps, carts')
    BY <2>1 DEF OthersAside
  <2> QED  BY <2>4, <2>5
<1>5. ASSUME NEW s \in DOMAIN intents', Held(s, intents', submit.secret)
      PROVE  HeldIsHeard(s, y, intents')
  <2>1. IntentSound(s, carts', intents')
    BY DEF ServerSound
  <2>2. carts'[intents'[s].cart].secret = s
    BY <1>5, <2>1 DEF Held, IntentSound
  <2> QED  BY <2>2 DEF HeldIsHeard
<1> QED  BY <1>2, <1>4, <1>5, RunStepKeeps

LEMMA PrepareMethodKeeps ==
  ASSUME CheckoutInv, NEW r \in Prepares, PrepareMethod(r), UNCHANGED browserVars
  PROVE  CheckoutInv'
<1> DEFINE x   == preps[r]
           c   == x.cart
           amt == MethodAmount(carts[c], x.req.ship)
           set == [carts[c] EXCEPT !.ship = amt]
           y   == [x EXCEPT !.stage = "read"]
<1>1. x.stage = "method" /\ UNCHANGED <<page, submit, clock, rev, comps>>
  BY DEF PrepareMethod, browserVars
<1>2. /\ Asking(x, carts, intents) /\ c \in DOMAIN carts /\ x.stage \in AtCart
      /\ x.stage \notin {"idle", "done"}
  BY <1>1, AtCartIs DEF AtCart
<1>3. CASE Answer(r, "failed") /\ UNCHANGED <<carts, intents>>
  BY <1>1, <1>2, <1>3, AnswerKeeps
<1>4. CASE /\ amt # None /\ ~RefreshThrows(set)
           /\ carts' = [carts EXCEPT ![c] = Refreshed(set)]
           /\ intents' = IntentsAfterRefresh(set)
           /\ preps' = To(r, "read")
  <2>1. carts[c] \in Carts
    BY <1>2, CartIs
  <2>2. amt \in Nat
    <3>1. x.req.ship \in ShippingQuotes /\ rev \in Nat
      BY <1>2 DEF Asking, CheckoutInv
    <3>2. amt \in {x.req.ship.amt, FlatRate(rev), None}
      BY DEF MethodAmount
    <3> HIDE DEF amt
    <3> QED  BY <1>4, <3>1, <3>2 DEF ShippingQuotes, FlatRate
  <2> HIDE DEF amt
  <2>3. /\ set \in Carts /\ set.goods = carts[c].goods /\ set.coll = carts[c].coll
        /\ set.secret = carts[c].secret /\ set.order = carts[c].order
        /\ set.addr = carts[c].addr /\ set.raced = carts[c].raced
    BY <2>1, <2>2 DEF Carts
  <2> HIDE DEF set, c
  <2>4. /\ ServerSound(carts', intents') /\ Grown(carts, carts', intents, intents')
        /\ carts'[c].addr = carts[c].addr /\ carts'[c].raced = carts[c].raced
        /\ \A o \in DOMAIN carts \ {c} : carts'[o] = carts[o]
    BY <1>2, <1>4, <2>3, RefreshSound
  <2>5. preps' = [preps EXCEPT ![r] = y]
    BY <1>4 DEF To, CheckoutInv, RunsShaped
  <2>6. /\ DOMAIN y = DOMAIN x /\ y.stage = "read" /\ y.unit = x.unit
        /\ y.req = x.req /\ y.cart = c /\ y.seen = x.seen /\ y.old = x.old
    BY <1>2 DEF Asking, c
  <2> HIDE DEF y
  <2>7. Asking(y, carts, intents)
    BY <1>1, <1>2, <2>6 DEF Asking, AtCart, c
  <2>8. RunShaped(y, carts', intents')
    <3>1. RunShaped(y, carts, intents)
      BY <2>7 DEF RunShaped
    <3> QED  BY <2>4, <3>1, GrownRun DEF CheckoutInv, ServerSound
  <2>9. y.stage \in AtCart /\ y.stage \notin {"idle", "done", "session"} /\ ~Succeeded(y)
    BY <2>6 DEF AtCart, Succeeded
  <2>10. y.cart = preps[r].cart
    BY <2>6 DEF c
  <2> QED  BY <1>1, <1>2, <2>4, <2>5, <2>6, <2>8, <2>9, <2>10, AtCartKeeps
<1> QED  BY <1>3, <1>4 DEF PrepareMethod

LEMMA PrepareCollectKeeps ==
  ASSUME CheckoutInv, NEW r \in Prepares, PrepareCollect(r), UNCHANGED browserVars
  PROVE  CheckoutInv'
<1> DEFINE x == preps[r]
           c == x.cart
           t == Total(carts[c])
           n == [carts[c] EXCEPT !.coll = t]
           y == [x EXCEPT !.stage = "session"]
<1>1. x.stage = "collect" /\ UNCHANGED <<page, submit, clock, rev, comps, intents>>
  BY DEF PrepareCollect, browserVars
<1>2. /\ Asking(x, carts, intents) /\ c \in DOMAIN carts /\ x.stage \in AtCart
      /\ x.stage \notin {"idle", "done"}
  BY <1>1, AtCartIs DEF AtCart
<1>3. CASE Answer(r, "failed") /\ UNCHANGED carts
  BY <1>1, <1>2, <1>3, AnswerKeeps
<1>4. CASE /\ carts[c].coll = None
           /\ carts' = [carts EXCEPT ![c].coll = t]
           /\ preps' = To(r, "session")
  <2>1. /\ carts[c] \in Carts /\ CartSound(c, carts, intents) /\ t \in Totals /\ t # None
    BY <1>2, CartIs
  <2>2. carts[c].secret = 0 /\ carts[c].order = None
    BY <1>4, <2>1 DEF CartSound
  <2> DEFINE m == carts[c]
  <2>3. Total(n) = t
    <3> HIDE DEF t
    <3>1. n.unit = m.unit /\ n.goods = m.goods /\ n.ship = m.ship /\ n.addr = m.addr
      BY <2>1 DEF Carts
    <3> HIDE DEF n, m
    <3> QED  BY <3>1 DEF Total, t, m
  <2>4. carts' = [carts EXCEPT ![c] = n]
    BY <1>4
  <2> HIDE DEF t
  <2>5. /\ n \in Carts /\ n.goods = m.goods /\ n.coll = t /\ n.order = m.order
        /\ n.secret = m.secret /\ n.addr = m.addr /\ n.raced = m.raced
    BY <2>1 DEF Carts
  <2> HIDE DEF n
  <2>6. ServerSound(carts', intents') /\ Grown(carts, carts', intents, intents')
    <3>1. /\ n.goods = carts[c].goods /\ (carts[c].coll # None => n.coll # None)
          /\ n.coll = Total(n) /\ n.order = carts[c].order
          /\ n.secret = carts[c].secret /\ n.secret = 0 /\ n.order = None /\ intents' = intents
      BY <1>1, <1>4, <2>1, <2>2, <2>3, <2>5
    <3> HIDE DEF c, m
    <3> QED  BY <1>2, <2>4, <2>5, <3>1, WriteSound
  <2>7. carts'[c] = n /\ \A o \in DOMAIN carts \ {c} : carts'[o] = carts[o]
    BY <1>2, <2>4
  <2>8. preps' = [preps EXCEPT ![r] = y]
    BY <1>4 DEF To, CheckoutInv, RunsShaped
  <2>9. /\ DOMAIN y = DOMAIN x /\ y.stage = "session" /\ y.unit = x.unit
        /\ y.req = x.req /\ y.cart = c /\ y.seen = 0 /\ y.old = x.old
    BY <1>1, <1>2 DEF Asking
  <2> HIDE DEF y
  <2>10. RunShaped(y, carts', intents')
    <3>1. RunShaped(x, carts', intents')
      BY <1>2, <2>6, GrownRun DEF CheckoutInv, ServerSound, RunShaped
    <3>2. Asking(x, carts', intents')
      BY <1>1, <3>1 DEF RunShaped, IdlePrepare, Answered
    <3>3. Asking(y, carts', intents')
      BY <1>1, <2>1, <2>5, <2>7, <2>9, <3>2 DEF Asking, AtCart
    <3> QED  BY <3>3 DEF RunShaped
  <2>11. y.stage \in AtCart /\ y.stage \notin {"idle", "done"} /\ ~Succeeded(y)
    BY <2>9 DEF AtCart, Succeeded
  <2> QED  BY <1>1, <1>2, <2>5, <2>6, <2>7, <2>8, <2>9, <2>10, <2>11, AtCartKeeps
<1> QED  BY <1>3, <1>4 DEF PrepareCollect

\* A new session of a cart is its only one that is not canceled.
SessionMade(c, old, new) ==
    /\ old = carts[c].secret /\ (old # 0 => intents[old].status # "captured")
    /\ new = Len(intents) + 1
    /\ carts' = [carts EXCEPT ![c].secret = new]
    /\ intents' = Append(IF old # 0 THEN Canceled(old) ELSE intents,
                         [cart |-> c, amount |-> carts[c].coll, status |-> "open"])

LEMMA NewSession ==
  ASSUME CheckoutInv, NEW c \in DOMAIN carts, carts[c].coll # None,
         NEW old, NEW new, SessionMade(c, old, new)
  PROVE  /\ ServerSound(carts', intents') /\ Grown(carts, carts', intents, intents')
         /\ new \in DOMAIN intents' /\ intents'[new].cart = c /\ carts'[c].secret = new
         /\ carts'[c].addr = carts[c].addr /\ carts'[c].raced = carts[c].raced
         /\ \A o \in DOMAIN carts \ {c} : carts'[o] = carts[o]
<1> DEFINE b == IF old # 0 THEN Canceled(old) ELSE intents
           e == [cart |-> c, amount |-> carts[c].coll, status |-> "open"]
           n == [carts[c] EXCEPT !.secret = new]
<1>0. /\ old = carts[c].secret /\ (old # 0 => intents[old].status # "captured")
      /\ new = Len(intents) + 1 /\ carts' = [carts EXCEPT ![c] = n] /\ intents' = Append(b, e)
  BY DEF SessionMade
<1>1. /\ carts \in Seq(Carts) /\ intents \in Seq(Intents)
      /\ \A o \in DOMAIN carts : CartSound(o, carts, intents)
      /\ \A i \in DOMAIN intents : IntentSound(i, carts, intents)
  BY DEF CheckoutInv, ServerSound
<1>2. /\ carts[c] \in Carts /\ carts[c].coll \in Totals /\ c \in Nat
      /\ CartSound(c, carts, intents)
  BY CartIs DEF Carts
<1>3. old # 0 => old \in DOMAIN intents /\ intents[old].cart = c
  BY <1>0, <1>2 DEF CartSound
<1>4. /\ b \in Seq(Intents) /\ Len(b) = Len(intents)
      /\ \A i \in DOMAIN intents : /\ b[i].cart = intents[i].cart
                                   /\ b[i].amount = intents[i].amount
                                   /\ i # old => b[i].status = intents[i].status
      /\ old # 0 => b[old].status = "canceled"
  <2>1. CASE old = 0
    BY <1>1, <2>1
  <2>2. CASE old # 0
    <3>1. b = [intents EXCEPT ![old].status = "canceled"]
      BY <2>2 DEF Canceled
    <3>2. intents[old] \in Intents
      BY <1>1, <1>3, <2>2
    <3>3. /\ [intents[old] EXCEPT !.status = "canceled"] \in Intents
          /\ DOMAIN intents[old] = {"cart", "amount", "status"}
      BY <3>2 DEF Intents
    <3> HIDE DEF b
    <3> QED  BY <1>1, <1>3, <2>2, <3>1, <3>2, <3>3
  <2> QED  BY <2>1, <2>2
<1>5. e \in Intents /\ e.cart = c /\ e.amount = carts[c].coll /\ e.status = "open"
  BY <1>2 DEF Intents
<1>6. intents' = Append(b, e)
  BY <1>0
<1> HIDE DEF b, e
<1>7. /\ intents' \in Seq(Intents) /\ DOMAIN intents' = 1..new /\ new \in Nat /\ new # 0
      /\ DOMAIN intents = 1..(new - 1)
      /\ intents'[new] = e /\ \A i \in DOMAIN intents : intents'[i] = b[i]
  <2>1. Len(intents) \in Nat /\ DOMAIN intents = 1..Len(intents) /\ DOMAIN b = 1..Len(intents)
    BY ONLY <1>1, <1>4
  <2>2. /\ Append(b, e) \in Seq(Intents) /\ Len(Append(b, e)) = Len(b) + 1
        /\ Append(b, e)[Len(b) + 1] = e /\ \A i \in 1..Len(b) : Append(b, e)[i] = b[i]
    BY ONLY <1>4, <1>5
  <2> QED  BY ONLY <1>0, <1>4, <1>6, <2>1, <2>2
<1>8. /\ n \in Carts /\ n.goods = carts[c].goods /\ n.coll = carts[c].coll
      /\ n.order = carts[c].order /\ n.addr = carts[c].addr /\ n.raced = carts[c].raced
      /\ n.secret = new /\ n.unit = carts[c].unit /\ n.ship = carts[c].ship
  BY <1>2, <1>7 DEF Carts
<1>9. carts' = [carts EXCEPT ![c] = n]
  BY <1>0
<1> HIDE DEF n
<1>10. /\ carts' \in Seq(Carts) /\ DOMAIN carts' = DOMAIN carts /\ Len(carts') = Len(carts)
       /\ carts'[c] = n /\ \A o \in DOMAIN carts \ {c} : carts'[o] = carts[o]
  BY <1>1, <1>8, <1>9
<1>11. Total(n) = Total(carts[c])
  BY <1>8 DEF Total
<1>12. carts[c].order = None
  BY <1>0, <1>2 DEF CartSound
<1>13. ASSUME NEW o \in DOMAIN carts' PROVE CartSound(o, carts', intents')
  <2>1. CASE o = c
    <3>1. n.coll = Total(n) /\ n.order = None
      BY <1>2, <1>8, <1>11, <1>12 DEF CartSound
    <3>2. /\ new \in DOMAIN intents' /\ intents'[new].cart = c
          /\ intents'[new].amount = n.coll /\ intents'[new].status # "canceled"
      BY <1>5, <1>7, <1>8
    <3> QED  BY <1>8, <1>10, <2>1, <3>1, <3>2 DEF CartSound
  <2>2. CASE o # c
    <3>1. carts'[o] = carts[o] /\ o \in DOMAIN carts /\ CartSound(o, carts, intents)
      BY <1>1, <1>10, <2>2
    <3>2. carts[o].secret # 0 => carts[o].secret \in DOMAIN intents /\ carts[o].secret # old
      BY <1>0, <1>3, <2>2, <3>1 DEF CartSound
    <3>3. carts[o].secret # 0 =>
             /\ carts[o].secret \in DOMAIN intents'
             /\ intents'[carts[o].secret].cart = intents[carts[o].secret].cart
             /\ intents'[carts[o].secret].amount = intents[carts[o].secret].amount
             /\ intents'[carts[o].secret].status = intents[carts[o].secret].status
      BY <1>4, <1>7, <3>2
    <3> QED  BY <3>1, <3>3 DEF CartSound
  <2> QED  BY <2>1, <2>2
<1>14. ASSUME NEW i \in DOMAIN intents' PROVE IntentSound(i, carts', intents')
  <2>1. CASE i = new
    BY <1>5, <1>7, <1>8, <1>10, <2>1 DEF IntentSound
  <2>2. CASE i # new
    <3>1. i \in DOMAIN intents /\ i # 0 /\ IntentSound(i, carts, intents)
          /\ intents'[i].cart = intents[i].cart
      BY <1>1, <1>4, <1>7, <2>2
    <3>2. intents'[i].status # "canceled" => i # old /\ intents[i].status # "canceled"
      BY <1>4, <1>7, <3>1
    <3>3. intents'[i].status # "canceled" => carts[intents[i].cart].secret = i
      BY <3>1, <3>2 DEF IntentSound
    <3>4. intents'[i].status # "canceled" => intents[i].cart # c
      BY <1>0, <3>2, <3>3
    <3> QED  BY <1>10, <3>1, <3>3, <3>4 DEF IntentSound
  <2> QED  BY <2>1, <2>2
<1>15. ServerSound(carts', intents')
  BY <1>7, <1>10, <1>13, <1>14 DEF ServerSound
<1>16. Grown(carts, carts', intents, intents')
  <2>1. /\ Len(carts) <= Len(carts')
        /\ \A o \in DOMAIN carts : /\ carts'[o].goods = carts[o].goods
                                   /\ carts[o].coll # None => carts'[o].coll # None
    BY <1>1, <1>8, <1>10
  <2>2. /\ DOMAIN intents \subseteq DOMAIN intents'
        /\ \A i \in DOMAIN intents : intents'[i].cart = intents[i].cart
    BY <1>4, <1>7
  <2>3. ASSUME NEW i \in DOMAIN intents', intents'[i].status # "canceled"
        PROVE  IF i \in DOMAIN intents THEN intents'[i].status = intents[i].status
               ELSE intents'[i].status = "open"
    <3>1. CASE i \in DOMAIN intents
      <4>1. i # 0 /\ intents'[i] = b[i]
        BY <1>7, <3>1
      <4>2. i # old
        BY <1>4, <2>3, <4>1
      <4> QED  BY <1>4, <3>1, <4>1, <4>2
    <3>2. CASE i \notin DOMAIN intents
      <4>1. i = new
        BY <1>7, <3>2
      <4> QED  BY <1>5, <1>7, <3>2, <4>1
    <3> QED  BY <3>1, <3>2
  <2> QED  BY <2>1, <2>2, <2>3 DEF Grown
<1>17. new \in DOMAIN intents' /\ intents'[new].cart = c
  BY <1>5, <1>7
<1>18. /\ carts'[c].secret = new
       /\ carts'[c].addr = carts[c].addr /\ carts'[c].raced = carts[c].raced
  BY ONLY <1>8, <1>10
<1> QED  BY ONLY <1>10, <1>15, <1>16, <1>17, <1>18

LEMMA PrepareSessionKeeps ==
  ASSUME CheckoutInv, NEW r \in Prepares, PrepareSession(r), UNCHANGED browserVars
  PROVE  CheckoutInv'
<1> DEFINE x   == preps[r]
           c   == x.cart
           old == carts[c].secret
           new == Len(intents) + 1
           y   == [stage |-> "done", out |-> "ready", cart |-> x.cart, secret |-> new, old |-> x.old]
<1>1. x.stage = "session" /\ UNCHANGED <<page, submit, clock, rev, comps>>
  BY DEF PrepareSession, browserVars
<1>2. /\ Asking(x, carts, intents) /\ c \in DOMAIN carts /\ x.stage \in AtCart
      /\ x.stage \notin {"idle", "done"}
  BY <1>1, AtCartIs DEF AtCart
<1>3. CASE x.seen # 0 /\ Reply(r, "ready", x.seen) /\ UNCHANGED <<carts, intents>>
  BY <1>1, <1>3, SeenAnswered
<1>4. CASE Answer(r, "failed") /\ UNCHANGED <<carts, intents>>
  BY <1>1, <1>2, <1>4, AnswerKeeps
<1>5. CASE /\ ~(old # 0 /\ intents[old].status = "captured")
           /\ intents' = Append(IF old # 0 THEN Canceled(old) ELSE intents,
                                [cart |-> c, amount |-> carts[c].coll, status |-> "open"])
           /\ carts' = [carts EXCEPT ![c].secret = new]
           /\ Reply(r, "ready", new)
  <2>1. /\ carts[c].coll # None /\ old = carts[c].secret /\ new = Len(intents) + 1
        /\ old # 0 => intents[old].status # "captured"
    BY <1>1, <1>2, <1>5 DEF Asking
  <2> HIDE DEF c, old, new
  <2>2. /\ ServerSound(carts', intents') /\ Grown(carts, carts', intents, intents')
        /\ new \in DOMAIN intents' /\ intents'[new].cart = c /\ carts'[c].secret = new
        /\ carts'[c].addr = carts[c].addr /\ carts'[c].raced = carts[c].raced
        /\ \A o \in DOMAIN carts \ {c} : carts'[o] = carts[o]
    <3>1. SessionMade(c, old, new)
      BY <1>5, <2>1 DEF SessionMade
    <3>2. c \in DOMAIN carts
      BY <1>2
    <3> QED  BY ONLY CheckoutInv, <2>1, <3>1, <3>2, NewSession
  <2>3. preps' = [preps EXCEPT ![r] = y]
    BY <1>5 DEF Reply
  <2>4. /\ y.stage = "done" /\ y.out = "ready" /\ y.cart = c /\ y.old = x.old
        /\ y.secret = new /\ DOMAIN y = {"stage", "out", "cart", "secret", "old"}
    BY DEF c
  <2> HIDE DEF y
  <2>5. Succeeded(y) /\ y.stage \notin {"idle", "session"}
    BY <2>4 DEF Succeeded
  <2>6. c \in DOMAIN carts'
    BY <1>2, <2>2 DEF Grown, ServerSound, CheckoutInv
  <2>7. RunShaped(y, carts', intents')
    BY <1>2, <2>2, <2>4, <2>6 DEF RunShaped, Answered, Asking
  <2>8. y.cart = preps[r].cart
    BY <2>4 DEF c
  <2> QED  BY <1>1, <1>2, <2>2, <2>3, <2>4, <2>5, <2>7, <2>8, AtCartKeeps
<1> QED  BY <1>3, <1>4, <1>5 DEF PrepareSession, CreateSession

LEMMA CreateCartKeeps ==
  ASSUME CheckoutInv, NEW r \in Prepares, preps[r].stage = "write", preps[r].cart = 0,
         CreateCart(r), UNCHANGED <<page, submit, clock, rev, comps>>
  PROVE  CheckoutInv'
<1> DEFINE x    == preps[r]
           unit == IF x.req.goods.size = None THEN UnitPrice(rev, x.req.goods) ELSE x.unit
           n    == NewCart(x.req, unit)
           c    == Len(carts) + 1
           y    == [x EXCEPT !.stage = "method", !.cart = c]
<1>1. Asking(x, carts, intents) /\ x.stage \notin {"idle", "done"}
  BY RunIs
<1>2. /\ carts \in Seq(Carts) /\ intents \in Seq(Intents)
      /\ \A o \in DOMAIN carts : CartSound(o, carts, intents)
      /\ \A i \in DOMAIN intents : IntentSound(i, carts, intents)
      /\ DOMAIN preps = Prepares /\ \A q \in Prepares : RunShaped(preps[q], carts, intents)
      /\ rev \in Nat
  BY DEF CheckoutInv, ServerSound, RunsShaped
<1>3. x.req.addr \in Addresses /\ x.req.goods \in Goods /\ x.unit \in Prices
  BY <1>1 DEF Asking
<1>4. unit \in Prices
  <2>1. UnitPrice(rev, x.req.goods) \in Prices
    BY <1>2, <1>3 DEF UnitPrice, Prices, Goods
  <2> QED  BY <1>3, <2>1
<1>5. /\ carts' = Append(carts, n) /\ intents' = intents
      /\ preps' = [preps EXCEPT ![r] = y]
  BY <1>2 DEF CreateCart
<1> HIDE DEF unit
<1>6. /\ n \in Carts /\ n.goods = x.req.goods /\ n.addr = x.req.addr /\ n.coll = None
      /\ n.secret = 0 /\ n.order = None /\ n.raced = FALSE
  BY <1>3, <1>4 DEF NewCart, Carts
<1> HIDE DEF n
<1>7. /\ carts' \in Seq(Carts) /\ Len(carts') = c /\ DOMAIN carts' = 1..c /\ c \in Nat /\ c # 0
      /\ DOMAIN carts = 1..(c - 1) /\ c \notin DOMAIN carts
      /\ carts'[c] = n /\ \A o \in DOMAIN carts : carts'[o] = carts[o]
  BY <1>2, <1>5, <1>6
<1>8. /\ DOMAIN y = DOMAIN x /\ y.stage = "method" /\ y.unit = x.unit
      /\ y.req = x.req /\ y.cart = c /\ y.seen = x.seen /\ y.old = x.old
  BY <1>1 DEF Asking
<1> HIDE DEF y
<1>9. ASSUME NEW o \in DOMAIN carts' PROVE CartSound(o, carts', intents')
  <2>1. CASE o = c
    BY <1>6, <1>7, <2>1 DEF CartSound
  <2>2. CASE o # c
    <3>1. o \in DOMAIN carts /\ carts'[o] = carts[o] /\ CartSound(o, carts, intents)
      BY <1>2, <1>7, <2>2
    <3> QED  BY <1>5, <3>1 DEF CartSound
  <2> QED  BY <2>1, <2>2
<1>10. ASSUME NEW i \in DOMAIN intents' PROVE IntentSound(i, carts', intents')
  <2>1. IntentSound(i, carts, intents)
    BY <1>2, <1>5
  <2>2. intents[i].cart \in DOMAIN carts /\ intents[i].cart \in DOMAIN carts'
    BY <1>7, <2>1 DEF IntentSound
  <2> QED  BY <1>5, <1>7, <2>1, <2>2 DEF IntentSound
<1>11. ServerSound(carts', intents')
  BY <1>2, <1>5, <1>7, <1>9, <1>10 DEF ServerSound
<1>12. Grown(carts, carts', intents, intents')
  BY <1>2, <1>5, <1>7 DEF Grown
<1>13. WritesFair(x, y)
  BY <1>1, <1>7, <1>8 DEF WritesFair
<1>14. RunShaped(y, carts', intents')
  <2>1. y.req.cart \in 0..Len(carts') /\ y.cart \in 0..Len(carts')
    BY <1>1, <1>7, <1>8 DEF Asking
  <2>2. Asking(y, carts', intents')
    BY <1>1, <1>6, <1>7, <1>8, <2>1 DEF Asking, AtCart
  <2> QED  BY <2>2 DEF RunShaped
<1>15. ASSUME NEW q \in Prepares PROVE Aside(preps[q], c)
  <2>1. RunShaped(preps[q], carts, intents)
    BY <1>2
  <2>2. CASE preps[q] = IdlePrepare \/ Answered(preps[q], carts, intents)
    BY <2>2 DEF Aside, IdlePrepare, Answered
  <2>3. CASE Asking(preps[q], carts, intents)
    <3>1. preps[q].cart # c
      BY <1>2, <2>3 DEF Asking
    <3> QED  BY <3>1 DEF Aside
  <2> QED  BY <2>1, <2>2, <2>3 DEF RunShaped
<1>16. ASSUME page.pay.run = r
       PROVE  /\ HeardRun(y, page.pay.asked.draft, page.pay.asked.line, carts')
              /\ OthersAside(r, y, preps, carts')
              /\ \A s : HeldIsHeard(s, y, intents')
  <2>1. /\ HeardRun(x, page.pay.asked.draft, page.pay.asked.line, carts)
        /\ x.req.addr = page.pay.asked.draft.addr
    BY <1>1, <1>16, RunIs
  <2>2. ~Succeeded(y) /\ y.stage \notin {"session", "done"}
    BY <1>8 DEF Succeeded
  <2>3. HeardRun(y, page.pay.asked.draft, page.pay.asked.line, carts')
    BY <1>1, <1>6, <1>7, <1>8, <2>1, <2>2 DEF HeardRun, HeardCart
  <2>4. OthersAside(r, y, preps, carts')
    BY <1>8, <1>15 DEF OthersAside
  <2> QED  BY <2>2, <2>3, <2>4 DEF HeldIsHeard
<1> QED  BY <1>5, <1>11, <1>12, <1>13, <1>14, <1>16, RunStepKeeps

LEMMA PrepareWriteKeeps ==
  ASSUME CheckoutInv, NEW r \in Prepares, PrepareWrite(r), UNCHANGED browserVars
  PROVE  CheckoutInv'
BY UpdateCartKeeps, CreateCartKeeps DEF PrepareWrite, browserVars

LEMMA PrepareStepKeeps ==
  ASSUME CheckoutInv, NEW r \in Prepares, PrepareStep(r) \/ PrepareFails(r), UNCHANGED browserVars
  PROVE  CheckoutInv'
BY PrepareLinesKeeps, PrepareReuseKeeps, PrepareWriteKeeps, PrepareMethodKeeps, PrepareReadKeeps,
   PrepareCollectKeeps, PrepareSessionKeeps, PrepareFailsKeeps DEF PrepareStep

(***************************************************************************)
(* Orders, and the owner's prices.                                         *)
(***************************************************************************)
LEMMA PlaceOrderKeeps ==
  ASSUME CheckoutInv, NEW c \in DOMAIN carts, ~Ordered(c), Paid(c), PlaceOrder(c),
         CompsShaped(comps', carts),
         UNCHANGED <<page, submit, clock, rev, intents, preps>>
  PROVE  CheckoutInv'
<1> DEFINE o == [addr |-> carts[c].addr, goods |-> carts[c].goods, amount |-> Total(carts[c])]
           n == [carts[c] EXCEPT !.order = o]
<1>1. /\ carts \in Seq(Carts) /\ intents \in Seq(Intents)
      /\ \A i \in DOMAIN carts : CartSound(i, carts, intents)
      /\ \A i \in DOMAIN intents : IntentSound(i, carts, intents)
  BY DEF CheckoutInv, ServerSound
<1>2. carts[c] \in Carts /\ CartSound(c, carts, intents) /\ Total(carts[c]) \in Totals
  BY CartIs
<1>3. o \in Orders /\ o.goods = carts[c].goods /\ o.amount = carts[c].coll
  <2>1. carts[c].coll = Total(carts[c])
    BY <1>2 DEF CartSound, Paid
  <2>2. carts[c].addr \in Addresses /\ carts[c].goods \in Goods
    BY <1>2 DEF Carts
  <2> DEFINE t == Total(carts[c])
  <2> HIDE DEF t
  <2>3. o = [addr |-> carts[c].addr, goods |-> carts[c].goods, amount |-> t] /\ t \in Totals
    BY <1>2 DEF t
  <2>4. o \in Orders
    BY <2>2, <2>3 DEF Orders
  <2> QED  BY <2>1, <2>4
<1>4. carts' = [carts EXCEPT ![c] = n]
  BY DEF PlaceOrder
<1> HIDE DEF o
<1>5. /\ n \in Carts /\ n.goods = carts[c].goods /\ n.coll = carts[c].coll /\ n.unit = carts[c].unit
      /\ n.ship = carts[c].ship /\ n.secret = carts[c].secret /\ n.addr = carts[c].addr
      /\ n.raced = carts[c].raced /\ n.order = o
  BY <1>2, <1>3 DEF Carts
<1> HIDE DEF n
<1>6. /\ carts' \in Seq(Carts) /\ DOMAIN carts' = DOMAIN carts /\ Len(carts') = Len(carts)
      /\ carts'[c] = n /\ \A i \in DOMAIN carts \ {c} : carts'[i] = carts[i]
  BY <1>1, <1>4, <1>5
<1>7. \A i \in DOMAIN carts :
         /\ carts'[i].goods = carts[i].goods /\ carts'[i].coll = carts[i].coll
         /\ carts'[i].secret = carts[i].secret /\ carts'[i].addr = carts[i].addr
         /\ carts'[i].raced = carts[i].raced
  BY <1>5, <1>6
<1>8. Total(n) = Total(carts[c])
  BY <1>5 DEF Total
<1>9. ServerSound(carts', intents)
  <2>1. ASSUME NEW i \in DOMAIN carts' PROVE CartSound(i, carts', intents)
    <3>1. CartSound(i, carts, intents)
      BY <1>1, <1>6
    <3>2. CASE i = c
      BY <1>3, <1>5, <1>6, <1>8, <3>1, <3>2 DEF CartSound, Paid
    <3>3. CASE i # c
      BY <1>6, <3>1, <3>3 DEF CartSound
    <3> QED  BY <3>2, <3>3
  <2>2. ASSUME NEW i \in DOMAIN intents PROVE IntentSound(i, carts', intents)
    <3>1. IntentSound(i, carts, intents)
      BY <1>1
    <3> QED  BY <1>6, <1>7, <3>1 DEF IntentSound
  <2> QED  BY <1>1, <1>6, <2>1, <2>2 DEF ServerSound
<1>10. Grown(carts, carts', intents, intents)
  BY <1>1, <1>6, <1>7 DEF Grown
<1>11. RunsShaped(preps, carts', intents)
  BY <1>1, <1>6, <1>10, GrownRun DEF CheckoutInv, RunsShaped
<1>12. CompsShaped(comps', carts')
  BY <1>6 DEF CompsShaped
<1>13. SubmitHolds(submit, carts', intents)
  BY <1>1, <1>6, <1>10, GrownSubmit DEF CheckoutInv
<1>14. Links(page, preps, carts', intents, submit.secret)
  <2>1. Links(page, preps, carts, intents, submit.secret)
    BY DEF CheckoutInv
  <2>2. page.draft.cart \in 0..Len(carts')
    BY <1>6, <2>1 DEF Links
  <2>3. Heard(page, preps, carts')
    <3> SUFFICES ASSUME page.pay.run # None PROVE Heard(page, preps, carts')
      BY DEF Heard
    <3> DEFINE x == preps[page.pay.run]
    <3>1. RunShaped(x, carts, intents)
      BY PageIsRaw DEF CheckoutInv, RunsShaped, PageShaped, PayShaped
    <3>2. x.stage \in AtCart \/ Succeeded(x) => x.cart \in DOMAIN carts
      BY <1>1, <3>1, RunsCart
    <3> HIDE DEF x
    <3>3. Heard(page, preps, carts)
      BY <2>1 DEF Links
    <3> QED  BY <1>7, <3>2, <3>3 DEF Heard, HeardRun, HeardCart, OthersAside, x
  <2>4. GotHolds(page, preps, carts', intents)
    BY <1>6, <1>7, <2>1 DEF Links, GotHolds
  <2> QED  BY <2>1, <2>2, <2>3, <2>4 DEF Links
<1> QED  BY <1>9, <1>11, <1>12, <1>13, <1>14 DEF CheckoutInv

LEMMA CompleteRunKeeps ==
  ASSUME CheckoutInv, NEW k \in Completions, CompleteRun(k), UNCHANGED browserVars
  PROVE  CheckoutInv'
<1>1. CASE UNCHANGED carts
  BY <1>1, CompleteStepKeeps
<1>2. CASE ~UNCHANGED carts
  <2> DEFINE c == comps[k].cart
  <2>1. /\ comps[k].stage = "run" /\ ~Ordered(c) /\ Paid(c) /\ PlaceOrder(c)
        /\ comps' = Goto(k, "lookup")
        /\ UNCHANGED <<page, submit, clock, rev, intents, preps>>
    BY <1>2 DEF CompleteRun, browserVars
  <2>2. CompsShaped(comps', carts)
    <3>1. comps[k].stage # "idle" /\ "lookup" # "idle"
      BY <2>1
    <3> QED  BY <2>1, <3>1, CompStep
  <2>3. c \in DOMAIN carts
    BY <2>1 DEF CheckoutInv, CompsShaped, IdleComplete
  <2> HIDE DEF c
  <2> QED  BY <2>1, <2>2, <2>3, PlaceOrderKeeps
<1> QED  BY <1>1, <1>2

LEMMA PaymentWebhookKeeps ==
  ASSUME CheckoutInv, NEW c, PaymentWebhook(c), UNCHANGED browserVars
  PROVE  CheckoutInv'
<1>1. /\ c \in DOMAIN carts /\ ~Ordered(c) /\ Paid(c) /\ PlaceOrder(c)
      /\ UNCHANGED <<page, submit, clock, rev, intents, preps, comps>>
  BY DEF PaymentWebhook, browserVars
<1>2. CompsShaped(comps', carts)
  BY <1>1 DEF CheckoutInv
<1> QED  BY <1>1, <1>2, PlaceOrderKeeps

LEMMA RepriceKeeps ==
  ASSUME CheckoutInv, Reprice, UNCHANGED browserVars
  PROVE  CheckoutInv'
<1>1. rev' = rev + 1 /\ UNCHANGED <<page, submit, clock, carts, intents, preps, comps>>
  BY DEF Reprice, browserVars
<1>2. PageInv(page, clock)
  BY DEF CheckoutInv
<1>3. rev + 1 \in Nat
  BY DEF CheckoutInv
<1> QED  BY <1>1, <1>2, <1>3 DEF CheckoutInv

(***************************************************************************)
(* The invariant.                                                          *)
(***************************************************************************)
LEMMA ShopperKeeps ==
  ASSUME CheckoutInv, Shopper \/ Quotes
  PROVE  CheckoutInv'
<1>1. PageSide /\ ServerSide /\ clock \in Nat /\ rev \in Nat
      /\ SubmitHolds(submit, carts, intents)
  BY DEF CheckoutInv, PageSide, ServerSide
<1>2. CASE Pay
  BY <1>2, PayKeeps
<1>3. CASE ~Pay
  <2>1. PageSide'
    BY <1>1, <1>3, ChangeAddressKeeps, ChangeQuantityKeeps, ChangeProductKeeps, ReloadKeeps,
       RetryKeeps, AskRateKeeps, RateArrivesKeeps, AskTaxKeeps, TaxArrivesKeeps, QuoteFailsKeeps
       DEF Shopper, Quotes
  <2>2. /\ UNCHANGED <<clock, rev, carts, intents, preps, comps>>
        /\ submit' = submit \/ submit' = [submit EXCEPT !.stage = "idle"]
    BY <1>3 DEF Shopper, Quotes, ChangeAddress, ChangeQuantity, ChangeProduct, Reload, Retry,
                AskRate, RateArrives, AskTax, TaxArrives, QuoteFails, QuietPage, QuietServer,
                serverVars
  <2>3. SubmitHolds(submit', carts, intents)
    BY <1>1, <2>2, SubmitStage
  <2>4. PageInv(page', clock')
        /\ Links(page', preps', carts', intents', submit'.secret)
    BY <2>1 DEF PageSide
  <2> QED  BY <2>2, <2>3, <2>4 DEF CheckoutInv
<1> QED  BY <1>2, <1>3

LEMMA PaymentKeeps ==
  ASSUME CheckoutInv, Payment
  PROVE  CheckoutInv'
<1>1. PageSide /\ ServerSide /\ clock \in Nat /\ rev \in Nat
      /\ SubmitHolds(submit, carts, intents)
  BY DEF CheckoutInv, PageSide, ServerSide
<1>2. CASE PreparePayment \/ QuoteRenewed \/ PaymentArrives \/ PaymentFails
  <2>1. PageSide' /\ ServerSide'
    BY <1>1, <1>2, PreparePaymentKeeps, QuoteRenewedKeeps, PaymentArrivesKeeps, PaymentFailsKeeps
  <2>2. UNCHANGED <<submit, clock, rev, carts, intents, comps>>
    BY <1>2 DEF PreparePayment, QuoteRenewed, PaymentArrives, PaymentFails, serverVars
  <2>3. /\ PageInv(page', clock')
        /\ Links(page', preps', carts', intents', submit'.secret)
        /\ ServerSound(carts', intents') /\ RunsShaped(preps', carts', intents')
    BY <2>1 DEF PageSide, ServerSide
  <2> QED  BY <2>2, <2>3 DEF CheckoutInv
<1>3. CASE Capture \/ Decline \/ AskOrder \/ OrderArrives \/ OrderAnswerLost
  BY <1>3, CaptureKeeps, DeclineKeeps, AskOrderKeeps, OrderArrivesKeeps
<1> QED  BY <1>2, <1>3 DEF Payment

LEMMA ServerKeeps ==
  ASSUME CheckoutInv, Server, UNCHANGED browserVars
  PROVE  CheckoutInv'
<1>1. CASE \E r \in Prepares : PrepareStep(r) \/ PrepareFails(r)
  BY <1>1, PrepareStepKeeps
<1>2. CASE \E k \in Completions : CompleteStep(k) \/ CompleteThrows(k)
  BY <1>2, CompleteStepKeeps, CompleteRunKeeps DEF CompleteStep
<1>3. CASE \E c \in DOMAIN carts : PaymentWebhook(c)
  BY <1>3, PaymentWebhookKeeps
<1>4. CASE Reprice
  BY <1>4, RepriceKeeps
<1> QED  BY <1>1, <1>2, <1>3, <1>4 DEF Server

LEMMA AnswerDropped ==
  ASSUME CheckoutInv, NEW r \in Prepares, DropAnswer(r)
  PROVE  CheckoutInv'
<1>1. PageSide /\ ServerSide
  BY DEF CheckoutInv, PageSide, ServerSide
<1>2. PageSide' /\ ServerSide'
  BY <1>1, DropAnswerKeeps
<1>3. UNCHANGED <<clock, rev, carts, intents, comps, page, submit>>
  BY DEF DropAnswer, browserVars
<1>4. RunsShaped(preps', carts', intents')
      /\ Links(page', preps', carts', intents', submit'.secret)
  BY <1>2 DEF PageSide, ServerSide
<1> QED  BY <1>3, <1>4 DEF CheckoutInv

LEMMA StepKeeps == CheckoutInv /\ [Next]_vars => CheckoutInv'
<1> SUFFICES ASSUME CheckoutInv, [Next]_vars PROVE CheckoutInv'
  OBVIOUS
<1>1. CASE Shopper \/ Quotes
  BY <1>1, ShopperKeeps
<1>2. CASE Payment
  BY <1>2, PaymentKeeps
<1>3. CASE Tick
  BY <1>3, TickKeeps
<1>4. CASE Server /\ UNCHANGED browserVars
  BY <1>4, ServerKeeps
<1>5. CASE \E r \in Prepares : DropAnswer(r)
  BY <1>5, AnswerDropped
<1>6. CASE \E k \in Completions : DropOrder(k)
  BY <1>6, DropOrderKeeps
<1>7. CASE UNCHANGED vars
  BY <1>7 DEF CheckoutInv, vars, serverVars, browserVars
<1> QED  BY <1>1, <1>2, <1>3, <1>4, <1>5, <1>6, <1>7 DEF Next

\* The page, the server and what the one knows of the other are as described
\* above, whatever the shopper, the network, the clock and the owner do.
THEOREM CheckoutHolds == Spec => []CheckoutInv
<1>1. Init => CheckoutInv
  BY InitIsSound
<1>2. CheckoutInv /\ [Next]_vars => CheckoutInv'
  BY StepKeeps
<1> QED  BY <1>1, <1>2, PTL DEF Spec

(***************************************************************************)
(* What a request carries until its quotes are verified.                   *)
(***************************************************************************)
Fresh(req, t) ==
    /\ t <= req.ship.exp /\ t <= req.tax.exp
    /\ RateFits(req.ship, req.addr, req.goods) /\ TaxFits(req.tax, req.addr, req.goods)

LinesHold == \A r \in Prepares : preps[r].stage = "lines" => Fresh(preps[r].req, clock)

\* A step of a request is past the verification, and no other request moves.
LEMMA StepLeaves ==
  ASSUME CheckoutInv, NEW r \in Prepares, PrepareStep(r) \/ PrepareFails(r)
  PROVE  /\ preps'[r].stage # "lines" /\ clock' = clock
         /\ \A q \in Prepares \ {r} : preps'[q] = preps[q]
<1>1. preps[r].stage \notin {"idle", "done"} /\ clock' = clock
  BY DEF PrepareStep, PrepareLines, PrepareReuse, PrepareWrite, PrepareMethod, PrepareRead,
         PrepareCollect, PrepareSession, PrepareFails
<1>2. DOMAIN preps = Prepares /\ DOMAIN preps[r] = {"stage", "req", "unit", "cart", "seen", "old"}
  BY <1>1, RunIs DEF CheckoutInv, RunsShaped, Asking
<1> HIDE DEF CheckoutInv
<1>3. ASSUME NEW out, NEW secret, Reply(r, out, secret)
      PROVE  preps'[r].stage = "done" /\ \A q \in Prepares \ {r} : preps'[q] = preps[q]
  BY <1>2, <1>3 DEF Reply
<1>4. ASSUME NEW stage, stage # "lines", preps' = To(r, stage)
      PROVE  preps'[r].stage # "lines" /\ \A q \in Prepares \ {r} : preps'[q] = preps[q]
  BY <1>2, <1>4 DEF To
<1>5. ASSUME PrepareLines(r) \/ PrepareReuse(r) \/ PrepareRead(r) \/ PrepareFails(r)
      PROVE  preps'[r].stage # "lines" /\ \A q \in Prepares \ {r} : preps'[q] = preps[q]
  BY <1>2, <1>3, <1>5 DEF PrepareLines, PrepareReuse, PrepareRead, PrepareFails, Answer
<1>6. ASSUME PrepareWrite(r) \/ PrepareMethod(r) \/ PrepareCollect(r) \/ PrepareSession(r)
      PROVE  preps'[r].stage # "lines" /\ \A q \in Prepares \ {r} : preps'[q] = preps[q]
  <2>1. CASE \/ \E out, secret : Reply(r, out, secret)
             \/ preps' = To(r, "method") \/ preps' = To(r, "read") \/ preps' = To(r, "session")
    BY <1>3, <1>4, <2>1
  <2>2. CASE CreateCart(r)
    BY <1>2, <2>2 DEF CreateCart
  <2> QED  BY <1>6, <2>1, <2>2 DEF PrepareWrite, PrepareMethod, PrepareCollect, PrepareSession,
              UpdateCart, CreateSession, Answer
<1> QED  BY <1>1, <1>5, <1>6 DEF PrepareStep

\* A request leaves with quotes that may be paid for.
LEMMA PostIsFresh ==
  ASSUME CheckoutInv, LinesHold, UNCHANGED clock,
         NEW p, NEW d, NEW l, NEW goods, NEW forced, Post(p, d, l, forced),
         l.goods = goods, clock <= d.ship.exp, clock <= d.tax.exp,
         RateFits(d.ship, d.addr, goods), TaxFits(d.tax, d.addr, goods)
  PROVE  LinesHold'
<1>1. Free \in Prepares /\ PostPrepare(Free, Request(d, l))
  BY DEF Post, Room, Free
<1>2. /\ Request(d, l).addr = d.addr /\ Request(d, l).goods = goods
      /\ Request(d, l).ship = d.ship /\ Request(d, l).tax = d.tax
  BY DEF Request
<1> DEFINE f   == Free
           req == Request(d, l)
<1>3. f \in Prepares /\ PostPrepare(f, req)
  BY <1>1
<1>4. /\ req.addr = d.addr /\ req.goods = goods /\ req.ship = d.ship /\ req.tax = d.tax
  BY <1>2
<1> HIDE DEF f, req
<1>5. preps'[f].req = req /\ Fresh(req, clock)
  BY <1>3, <1>4 DEF PostPrepare, Fresh
<1>6. ASSUME NEW o \in Prepares \ {f}, preps'[o].stage = "lines"
      PROVE  preps[o].stage = "lines" /\ preps'[o].req = preps[o].req
  <2>1. preps'[o] = IF preps[o].stage = "idle" THEN preps[o] ELSE [preps[o] EXCEPT !.old = TRUE]
    BY <1>3 DEF PostPrepare
  <2>2. RunShaped(preps[o], carts, intents)
    BY DEF CheckoutInv, RunsShaped
  <2> QED  BY <1>6, <2>1, <2>2 DEF RunShaped, IdlePrepare, Asking, Answered
<1>7. ASSUME NEW o \in Prepares, preps'[o].stage = "lines"
      PROVE  Fresh(preps'[o].req, clock')
  <2>1. CASE o = f
    BY <1>5, <2>1
  <2>2. CASE o # f
    BY <1>6, <1>7, <2>2 DEF LinesHold
  <2> QED  BY <2>1, <2>2
<1> QED  BY <1>7 DEF LinesHold

LEMMA LinesKept ==
  ASSUME CheckoutInv, LinesHold, clock' = clock,
         \A r \in Prepares : preps'[r].stage = "lines" => preps'[r] = preps[r]
  PROVE  LinesHold'
BY DEF LinesHold

\* Only the page sends requests, and the clock waits for those that are sent.
LEMMA LinesStep == CheckoutInv /\ LinesHold /\ [Next]_vars => LinesHold'
<1> SUFFICES ASSUME CheckoutInv, LinesHold, [Next]_vars PROVE LinesHold'
  OBVIOUS
<1>1. CASE UNCHANGED <<clock, preps>>
  BY <1>1, LinesKept
<1>2. CASE Tick
  <2>1. UNCHANGED preps /\ \A r \in Prepares : preps[r].stage # "lines"
    BY <1>2 DEF Tick, serverVars
  <2> QED  BY <2>1 DEF LinesHold
<1>3. CASE PaymentArrives \/ \E r \in Prepares : DropAnswer(r)
  <2>1. PICK r : preps' = [preps EXCEPT ![r] = IdlePrepare]
    BY <1>3 DEF PaymentArrives, DropAnswer
  <2>2. clock' = clock
    BY <1>3 DEF PaymentArrives, DropAnswer
  <2>3. DOMAIN preps = Prepares
    BY DEF CheckoutInv, RunsShaped
  <2>4. \A q \in Prepares : preps'[q] = preps[q] \/ preps'[q] = IdlePrepare
    BY <2>1, <2>3
  <2> QED  BY <2>2, <2>4, LinesKept DEF IdlePrepare
<1>4. ASSUME NEW r \in Prepares, PrepareStep(r) \/ PrepareFails(r) PROVE LinesHold'
  <2>1. /\ preps'[r].stage # "lines" /\ clock' = clock
        /\ \A q \in Prepares \ {r} : preps'[q] = preps[q]
    BY <1>4, StepLeaves
  <2> QED  BY <2>1, LinesKept
<1>5. CASE PreparePayment /\ ~UNCHANGED preps
  <2> DEFINE p == [page EXCEPT !.pay = Loading(@, [draft |-> page.draft, line |-> page.line])]
             d == page.draft
             l == page.line
  <2>1. Post(p, d, l, FALSE) /\ page.pay.phase = "timer" /\ ~QuoteDue /\ clock' = clock
    BY <1>5 DEF PreparePayment
  <2>2. Payable(d, l)
    BY <2>1, PaymentDue DEF CheckoutInv
  <2> HIDE DEF p, d, l
  <2> QED  BY <2>1, <2>2, PostIsFresh DEF Payable
<1>6. CASE QuoteRenewed
  <2> DEFINE in    == page.pay.asked
             quote == PriceQuote(in.line.goods)
             fresh == [in.line EXCEPT !.token = quote, !.unit = quote.amt]
             p     == [page EXCEPT !.line = WithQuote(@, in.line, quote)]
             d     == in.draft
             m     == page.pay.forced
  <2>1. Post(p, d, fresh, m) /\ page.pay.phase = "requote" /\ clock' = clock
    BY <1>6 DEF QuoteRenewed
  <2>2. Payable(d, in.line)
    BY <2>1, PaymentAsked DEF CheckoutInv, Asked
  <2>3. fresh.goods = in.line.goods
    BY <2>2 DEF Payable, LineShaped
  <2> DEFINE g == in.line.goods
             l == fresh
  <2>4. /\ Post(p, d, l, m) /\ l.goods = g /\ clock <= d.ship.exp /\ clock <= d.tax.exp
        /\ RateFits(d.ship, d.addr, g) /\ TaxFits(d.tax, d.addr, g)
    BY <2>1, <2>2, <2>3 DEF Payable
  <2> HIDE DEF p, d, m, g, l
  <2> QED  BY <2>1, <2>4, PostIsFresh
<1>7. CASE Next /\ ~UNCHANGED <<clock, preps>>
  <2>1. Shopper \/ Quotes => UNCHANGED <<clock, preps>>
    BY DEF Shopper, Quotes, ChangeAddress, ChangeQuantity, ChangeProduct, Reload, Retry,
           Pay, AskRate, RateArrives, AskTax, TaxArrives, QuoteFails, QuietPage, QuietServer,
           serverVars
  <2>2. PaymentFails \/ Capture \/ Decline \/ AskOrder \/ OrderArrives \/ OrderAnswerLost
           => UNCHANGED <<clock, preps>>
    BY DEF PaymentFails, Capture, Decline, AskOrder, OrderArrives, OrderAnswerLost, serverVars
  <2>3. \A k \in Completions :
           CompleteStep(k) \/ CompleteThrows(k) \/ DropOrder(k) => UNCHANGED <<clock, preps>>
    BY DEF CompleteStep, CompleteFind, CompleteRun, CompleteLookup, CompleteAgain, CompleteThrows,
           DropOrder
  <2>4. Reprice \/ (\E c \in DOMAIN carts : PaymentWebhook(c)) => UNCHANGED <<clock, preps>>
    BY DEF PaymentWebhook, Reprice
  <2>5. PreparePayment => UNCHANGED clock
    BY DEF PreparePayment
  <2>6. ~Shopper /\ ~Quotes /\ ~(\E k \in Completions : DropOrder(k))
    BY <1>7, <2>1, <2>3
  <2>7. Payment => (PreparePayment /\ ~UNCHANGED preps) \/ QuoteRenewed \/ PaymentArrives
    BY <1>7, <2>2, <2>5 DEF Payment
  <2>8. Server => \E r \in Prepares : PrepareStep(r) \/ PrepareFails(r)
    BY <1>7, <2>3, <2>4 DEF Server
  <2> QED  BY <1>2, <1>3, <1>4, <1>5, <1>6, <1>7, <2>6, <2>7, <2>8 DEF Next
<1>8. CASE UNCHANGED vars
  BY <1>1, <1>8 DEF vars, serverVars
<1> QED  BY <1>1, <1>7, <1>8

LEMMA LinesAlways == Spec => [](CheckoutInv /\ LinesHold)
<1>1. Init => LinesHold
  BY DEF Init, ServerInit, LinesHold, IdlePrepare
<1>2. CheckoutInv /\ LinesHold /\ [Next]_vars => LinesHold'
  BY LinesStep
<1> QED  BY <1>1, <1>2, CheckoutHolds, PTL DEF Spec

(***************************************************************************)
(* What it shows.                                                          *)
(***************************************************************************)
\* TaxAskedWithItsRate: the tax hook sends a rate in time, of the quantity and
\* the postal code it asks for, up to spaces.
THEOREM TaxIsAskedWithItsRate == Spec => []TaxAskedWithItsRate
<1>1. CheckoutInv => TaxAskedWithItsRate
  BY DEF CheckoutInv, PageInv, Sound, AskedTax, RateInTime, TaxAskedWithItsRate
<1> QED  BY <1>1, CheckoutHolds, PTL

\* What the server answers to quotes that it turns down.
LEMMA TurnedDown ==
  ASSUME CheckoutInv, Next, NEW r \in Prepares,
         preps[r].stage = "lines", preps'[r].stage = "done", preps'[r].out = "bad_quote"
  PROVE  ~QuotesHold(preps[r].req)
<1>1. DOMAIN preps = Prepares /\ Asking(preps[r], carts, intents)
  BY RunIs DEF CheckoutInv, RunsShaped
<1>2. preps'[r] # preps[r] /\ preps' # preps
  OBVIOUS
<1>3. PrepareLines(r) \/ PrepareFails(r)
  <2>1. ASSUME NEW q \in Prepares, PrepareStep(q) \/ PrepareFails(q)
        PROVE  PrepareLines(r) \/ PrepareFails(r)
    <3>1. q = r
      BY <1>2, <2>1, StepLeaves
    <3> QED  BY <2>1, <3>1 DEF PrepareStep, PrepareReuse, PrepareWrite, PrepareMethod,
                PrepareRead, PrepareCollect, PrepareSession
  <2>2. ASSUME NEW q \in Prepares, NEW req, PostPrepare(q, req)
        PROVE  FALSE
    <3>1. preps[q].stage = "idle" /\ q # r
      BY <2>2 DEF PostPrepare
    <3>2. preps'[r] = [preps[r] EXCEPT !.old = TRUE]
      BY <2>2, <3>1 DEF PostPrepare
    <3>3. preps'[r].stage = "lines"
      BY <1>1, <3>2 DEF Asking
    <3> QED  BY <3>3
  <2>3. ~PreparePayment /\ ~QuoteRenewed
    <3>1. ASSUME NEW p, NEW d, NEW l, NEW forced, Post(p, d, l, forced) PROVE FALSE
      BY <2>2, <3>1 DEF Post, Room, Free
    <3> QED  BY <1>2, <3>1 DEF PreparePayment, QuoteRenewed
  <2>4. ASSUME PaymentArrives \/ \E q \in Prepares : DropAnswer(q) PROVE FALSE
    <3>1. PICK q : preps' = [preps EXCEPT ![q] = IdlePrepare]
      BY <2>4 DEF PaymentArrives, DropAnswer
    <3>2. preps'[r] = preps[r] \/ preps'[r] = IdlePrepare
      BY <1>1, <3>1
    <3> QED  BY <1>2, <3>2 DEF IdlePrepare
  <2>5. Shopper \/ Quotes \/ Tick => UNCHANGED preps
    BY DEF Shopper, Quotes, Tick, ChangeAddress, ChangeQuantity, ChangeProduct, Reload, Retry,
           Pay, AskRate, RateArrives, AskTax, TaxArrives, QuoteFails, QuietPage, QuietServer,
           serverVars
  <2>6. PaymentFails \/ Capture \/ Decline \/ AskOrder \/ OrderArrives \/ OrderAnswerLost
           => UNCHANGED preps
    BY DEF PaymentFails, Capture, Decline, AskOrder, OrderArrives, OrderAnswerLost, serverVars
  <2>7. \A k \in Completions :
           CompleteStep(k) \/ CompleteThrows(k) \/ DropOrder(k) => UNCHANGED preps
    BY DEF CompleteStep, CompleteFind, CompleteRun, CompleteLookup, CompleteAgain, CompleteThrows,
           DropOrder
  <2>8. Reprice \/ (\E c \in DOMAIN carts : PaymentWebhook(c)) => UNCHANGED preps
    BY DEF PaymentWebhook, Reprice
  <2>9. ~Shopper /\ ~Quotes /\ ~Tick /\ ~Payment
    BY <1>2, <2>3, <2>4, <2>5, <2>6 DEF Payment
  <2>10. Server => \E q \in Prepares : PrepareStep(q) \/ PrepareFails(q)
    BY <1>2, <2>7, <2>8 DEF Server
  <2>11. ~(\E q \in Prepares : DropAnswer(q)) /\ ~(\E k \in Completions : DropOrder(k))
    BY <1>2, <2>4, <2>7
  <2> QED  BY <2>1, <2>9, <2>10, <2>11 DEF Next
<1>4. \A out : Answer(r, out) => preps'[r].out = out
  BY <1>1 DEF Answer, Reply
<1>5. PrepareLines(r)
  BY <1>3, <1>4 DEF PrepareFails
<1>6. ASSUME QuotesHold(preps[r].req) PROVE FALSE
  <2>1. \/ preps'[r].out \in {"refused", "requote"}
        \/ preps' = [preps EXCEPT ![r].stage = "reuse",
                                 ![r].unit = UnitPrice(rev, preps[r].req.goods)]
    BY <1>4, <1>5, <1>6 DEF PrepareLines
  <2>2. CASE preps' = [preps EXCEPT ![r].stage = "reuse",
                                    ![r].unit = UnitPrice(rev, preps[r].req.goods)]
    <3>1. DOMAIN preps[r] = {"stage", "req", "unit", "cart", "seen", "old"}
      BY <1>1 DEF Asking
    <3> QED  BY <1>1, <2>2, <3>1
  <2> QED  BY <2>1, <2>2
<1> QED  BY <1>6

\* QuotesRefusedForCause: what the page sends is in time and of its quantity and
\* place, so only the amount between the two quotes, or the spaces, can differ.
THEOREM QuotesAreRefusedForCause == Spec => QuotesRefusedForCause
<1>1. CheckoutInv /\ LinesHold /\ [Next]_vars =>
        [\A r \in Prepares :
            preps[r].stage = "lines" /\ preps'[r].stage = "done" /\ preps'[r].out = "bad_quote" =>
                LET req == preps[r].req
                IN  /\ clock <= req.ship.exp /\ clock <= req.tax.exp
                    /\ RateFits(req.ship, req.addr, req.goods)
                    /\ TaxFits(req.tax, req.addr, req.goods)
                    /\ \/ req.tax.sig[3] # req.ship.amt
                       \/ req.ship.sig[1] # ZipOf[req.addr]
                       \/ req.tax.sig[1] # Typed(req.addr)]_vars
  <2> SUFFICES ASSUME CheckoutInv, LinesHold, Next, NEW r \in Prepares,
                      preps[r].stage = "lines", preps'[r].stage = "done",
                      preps'[r].out = "bad_quote"
               PROVE  /\ Fresh(preps[r].req, clock)
                      /\ \/ preps[r].req.tax.sig[3] # preps[r].req.ship.amt
                         \/ preps[r].req.ship.sig[1] # ZipOf[preps[r].req.addr]
                         \/ preps[r].req.tax.sig[1] # Typed(preps[r].req.addr)
    BY DEF Fresh
  <2> DEFINE req == preps[r].req
  <2>1. Fresh(req, clock) /\ ~QuotesHold(req)
    BY TurnedDown DEF LinesHold
  <2>2. req.ship \in ShippingQuotes /\ req.tax \in TaxQuotes /\ clock \in Nat
    BY RunIs DEF Asking, CheckoutInv
  <2> HIDE DEF req
  <2> DEFINE ship == req.ship.sig
             tax  == req.tax.sig
             qty  == req.goods.qty
  <2>3. /\ req.ship.exp \in Nat /\ req.tax.exp \in Nat
        /\ ship = <<ship[1], ship[2]>> /\ tax = <<tax[1], tax[2], tax[3]>>
    BY <2>2 DEF ShippingQuotes, TaxQuotes
  <2>4. ship[2] = qty /\ tax[2] = qty
    BY <2>1 DEF Fresh, RateFits, TaxFits, RateKey
  <2>5. ship # <<ZipOf[req.addr], qty>> \/ tax # <<Typed(req.addr), qty, req.ship.amt>>
    <3>1. ~(req.ship.exp < clock) /\ ~(req.tax.exp < clock)
      BY <2>1, <2>2, <2>3 DEF Fresh
    <3> QED  BY <2>1, <2>2, <2>3, <3>1 DEF QuotesHold, Verify, ShipSignature, TaxSignature, Fresh
  <2>6. tax[3] # req.ship.amt \/ ship[1] # ZipOf[req.addr] \/ tax[1] # Typed(req.addr)
    <3> HIDE DEF ship, tax, qty
    <3> QED  BY <2>3, <2>4, <2>5
  <2> QED  BY <2>1, <2>6 DEF req
<1> QED  BY <1>1, LinesAlways, PTL DEF Spec, QuotesRefusedForCause

\* ReadyIsPrepared: the form that is shown pays for the cart that was prepared.
THEOREM FormStandsOverItsCart == Spec => []ReadyIsPrepared
<1>1. CheckoutInv => ReadyIsPrepared
  <2> SUFFICES ASSUME CheckoutInv, page.view.pay = "ready" PROVE ReadyIsPrepared
    BY DEF ReadyIsPrepared
  <2> DEFINE n == page.draft.cart
             c == carts[n]
             s == page.view.secret
             key == page.pay.got.key
  <2>1. /\ page.pay.run = None /\ page.pay.active = KeyOfPayment(page) /\ Got(page, "ready")
        /\ page.pay.got.secret = s /\ key = page.pay.active
        /\ n \in DOMAIN carts /\ n # 0 /\ c.goods = page.line.goods
        /\ s \in DOMAIN intents /\ intents[s].cart = n
    BY PayHolds
  <2>2. ASSUME ~Overtaken(n)
        PROVE  /\ ~QuoteDue => SameButForSpaces(c.addr, page.draft.addr)
               /\ c.secret = s
               /\ intents[c.secret].status # "canceled"
               /\ intents[c.secret].amount = Total(c)
    <3>1. ~c.raced
      BY <2>2 DEF Overtaken
    <3>2. /\ PlaceOf(c.addr) = Trimmed(key[1].sig[1]) /\ StreetOf[c.addr] = key[2] /\ c.secret = s
      BY <2>1, <3>1 DEF CheckoutInv, Links, GotHolds
    <3>3. CartSound(n, carts, intents) /\ c \in Carts
      BY <2>1, CartIs DEF CheckoutInv, ServerSound
    <3>4. s # 0
      BY <2>1 DEF CheckoutInv, ServerSound
    <3>5. intents[c.secret].status # "canceled" /\ intents[c.secret].amount = Total(c)
      BY <3>2, <3>3, <3>4 DEF CartSound
    <3>6. ASSUME ~QuoteDue PROVE SameButForSpaces(c.addr, page.draft.addr)
      <4>1. /\ PageInv(page, clock) /\ PageShaped(page) /\ PayShown(page) /\ TaxShown(page)
            /\ ShipShown(page) /\ SeenTax(page) /\ PayShaped(page.pay)
        BY PageIsRaw DEF CheckoutInv, PageInv, Sound, PageShaped
      <4>2. page.view.tax = "ready" /\ page.view.ship = "ready" /\ page.draft.tax # None
        BY <4>1 DEF PayShown, TaxShown
      <4>3. page.tax.phase # "timer" /\ page.draft.addr # None
        BY <3>6, <4>1, <4>2 DEF QuoteDue, ShipShown
      <4>4. Trimmed(page.draft.tax.sig[1]) = PlaceOf(page.draft.addr)
        BY <4>1, <4>2, <4>3, TaxOfDraft DEF TaxFits
      <4>5. key[1] = page.draft.tax /\ key[2] = StreetOf[page.draft.addr]
        BY <2>1 DEF KeyOfPayment
      <4> HIDE DEF c, key
      <4> QED  BY <3>2, <4>4, <4>5 DEF SameButForSpaces
    <3> QED  BY <3>2, <3>5, <3>6
  <2> QED  BY <2>1, <2>2 DEF ReadyIsPrepared
<1> QED  BY <1>1, CheckoutHolds, PTL

\* OrderIsAsSubmitted: an order is made of a cart whose session is paid, and of
\* the sessions of a submitted cart only the submitted one can be.
THEOREM OrderedAsSubmitted == Spec => []OrderIsAsSubmitted
<1>1. CheckoutInv => OrderIsAsSubmitted
  <2> SUFFICES ASSUME CheckoutInv, NEW c \in DOMAIN carts,
                      carts[c].order # None, submit.cart = c
               PROVE  /\ carts[c].order.goods = submit.goods
                      /\ carts[c].order.amount = intents[submit.secret].amount
    BY DEF OrderIsAsSubmitted
  <2>1. CartSound(c, carts, intents) /\ c # 0 /\ SubmitHolds(submit, carts, intents)
    BY DEF CheckoutInv, ServerSound
  <2>2. /\ carts[c].secret \in DOMAIN intents /\ intents[carts[c].secret].cart = c
        /\ intents[carts[c].secret].status = "captured"
        /\ intents[carts[c].secret].amount = carts[c].coll
        /\ carts[c].order.goods = carts[c].goods /\ carts[c].order.amount = carts[c].coll
    BY <2>1 DEF CartSound
  <2>3. carts[c].secret = submit.secret /\ carts[c].goods = submit.goods
    BY <2>1, <2>2 DEF SubmitHolds
  <2> QED  BY <2>2, <2>3
<1> QED  BY <1>1, CheckoutHolds, PTL

\* What a completion that moves on, or answers, leaves in its place.
LEMMA CompIs ==
  ASSUME CheckoutInv, NEW j \in Completions, comps[j].stage # "idle"
  PROVE  /\ DOMAIN comps = Completions
         /\ \A stage : comps' = Goto(j, stage) =>
               /\ comps'[j].stage = stage
               /\ \A k \in Completions \ {j} : comps'[k] = comps[k]
         /\ \A out : Respond(j, out) =>
               /\ comps'[j].out = out
               /\ \A k \in Completions \ {j} : comps'[k] = comps[k]
<1>1. DOMAIN comps = Completions /\ DOMAIN comps[j] = {"stage", "cart", "out"}
  BY DEF CheckoutInv, CompsShaped, IdleComplete
<1> HIDE DEF CheckoutInv
<1>2. ASSUME NEW stage, comps' = Goto(j, stage)
      PROVE  /\ comps'[j].stage = stage
             /\ \A k \in Completions \ {j} : comps'[k] = comps[k]
  BY <1>1, <1>2 DEF Goto
<1>3. ASSUME NEW out, Respond(j, out)
      PROVE  /\ comps'[j].out = out
             /\ \A k \in Completions \ {j} : comps'[k] = comps[k]
  BY <1>1, <1>3 DEF Respond
<1> QED  BY <1>1, <1>2, <1>3

\* FailedMeansNoOrder: only the last look for the order answers a completion as
\* failed, and it has not found one.
THEOREM FailedOnlyWithoutOrder == Spec => FailedMeansNoOrder
<1>1. CheckoutInv /\ [Next]_vars =>
        [\A k \in Completions :
            comps[k].stage # "done" /\ comps'[k].stage = "done" /\ comps'[k].out = "failed"
                => ~Ordered(comps[k].cart)]_vars
  <2> SUFFICES ASSUME CheckoutInv, Next, NEW k \in Completions,
                      comps[k].stage # "done", comps'[k].stage = "done", comps'[k].out = "failed"
               PROVE  ~Ordered(comps[k].cart)
    OBVIOUS
  <2>1. DOMAIN comps = Completions
    BY DEF CheckoutInv, CompsShaped
  <2>2. comps'[k] # comps[k] /\ comps' # comps
    OBVIOUS
  <2>3. CASE AskOrder
    <3>1. PICK j \in Completions : PostComplete(j, submit.cart)
      BY <2>3 DEF AskOrder
    <3>2. comps'[j].stage = "find" /\ \A o \in Completions \ {j} : comps'[o] = comps[o]
      BY <2>1, <3>1 DEF PostComplete
    <3> QED  BY <2>2, <3>2
  <2>4. CASE OrderArrives \/ \E j \in Completions : DropOrder(j)
    <3>1. PICK j : comps' = [comps EXCEPT ![j] = IdleComplete]
      BY <2>4 DEF OrderArrives, DropOrder
    <3>2. comps'[k] = comps[k] \/ comps'[k] = IdleComplete
      BY <2>1, <3>1
    <3> QED  BY <2>2, <3>2 DEF IdleComplete
  <2>5. ASSUME NEW j \in Completions, CompleteStep(j) \/ CompleteThrows(j)
        PROVE  ~Ordered(comps[k].cart)
    <3>1. comps[j].stage # "idle"
      BY <2>5 DEF CompleteStep, CompleteFind, CompleteRun, CompleteLookup, CompleteAgain,
                  CompleteThrows
    <3>2. CASE \/ comps' = Goto(j, "run") \/ comps' = Goto(j, "lookup") \/ comps' = Goto(j, "again")
               \/ Respond(j, "order")
      <4>1. /\ comps'[j].stage \in {"run", "lookup", "again"} \/ comps'[j].out = "order"
            /\ \A o \in Completions \ {j} : comps'[o] = comps[o]
        BY <3>1, <3>2, CompIs
      <4> QED  BY <2>2, <4>1
    <3>3. CASE Respond(j, IF Ordered(comps[j].cart) THEN "order" ELSE "failed")
      <4> DEFINE out == IF Ordered(comps[j].cart) THEN "order" ELSE "failed"
      <4>1. out = "failed" => ~Ordered(comps[j].cart)
        OBVIOUS
      <4> HIDE DEF out
      <4>2. /\ comps'[j].out = out
            /\ \A o \in Completions \ {j} : comps'[o] = comps[o]
        BY <3>1, <3>3, CompIs DEF out
      <4> QED  BY <2>2, <4>1, <4>2
    <3> QED  BY <2>5, <3>2, <3>3 DEF CompleteStep, CompleteFind, CompleteRun, CompleteLookup,
                CompleteAgain, CompleteThrows
  <2>6. \/ AskOrder \/ OrderArrives \/ \E j \in Completions : DropOrder(j)
        \/ \E j \in Completions : CompleteStep(j) \/ CompleteThrows(j)
    <3>1. Shopper \/ Quotes \/ Tick => UNCHANGED comps
      BY DEF Shopper, Quotes, Tick, ChangeAddress, ChangeQuantity, ChangeProduct, Reload, Retry,
             Pay, AskRate, RateArrives, AskTax, TaxArrives, QuoteFails, QuietPage, QuietServer,
             serverVars
    <3>2. PreparePayment \/ QuoteRenewed \/ PaymentArrives \/ PaymentFails
          \/ Capture \/ Decline \/ OrderAnswerLost => UNCHANGED comps
      BY DEF PreparePayment, QuoteRenewed, PaymentArrives, PaymentFails, Capture, Decline,
             OrderAnswerLost, serverVars
    <3>3. ASSUME NEW r \in Prepares
          PROVE  PrepareStep(r) \/ PrepareFails(r) \/ DropAnswer(r) => UNCHANGED comps
      BY DEF PrepareStep, PrepareLines, PrepareReuse, PrepareWrite, PrepareMethod, PrepareRead,
             PrepareCollect, PrepareSession, PrepareFails, DropAnswer
    <3>4. Reprice \/ (\E c \in DOMAIN carts : PaymentWebhook(c)) => UNCHANGED comps
      BY DEF PaymentWebhook, Reprice
    <3>5. ~UNCHANGED comps
      BY <2>2
    <3>6. ~Shopper /\ ~Quotes /\ ~Tick /\ ~(\E r \in Prepares : DropAnswer(r))
      BY <3>1, <3>3, <3>5
    <3>7. Payment => AskOrder \/ OrderArrives
      BY <3>2, <3>5 DEF Payment
    <3>8. Server => \E j \in Completions : CompleteStep(j) \/ CompleteThrows(j)
      BY <3>3, <3>4, <3>5 DEF Server
    <3> QED  BY <3>6, <3>7, <3>8 DEF Next
  <2> QED  BY <2>3, <2>4, <2>5, <2>6
<1> QED  BY <1>1, CheckoutHolds, PTL DEF Spec, FailedMeansNoOrder
================================================================================
