# Verification of craftynp-store

TLA+ models of the shop's server and storefront: what its stateful parts do,
statement by statement, checked with TLC on small instances and, where it
matters most, proved with TLAPS for every instance. The models are written from
the code of this repository; `PROJECT.json` maps every definition to the lines
it stands for.

## The system

A made-to-order print shop. `apps/medusa` is a Medusa server with its own
modules, workflows, routes, subscribers and jobs; `apps/storefront` is the
Next.js shop; `packages/types` holds what both agree on. One server process
answers every HTTP call and runs the jobs; calls interleave at every `await`.
State is kept in Postgres (no transaction spans a workflow), in two S3-like
buckets (artwork, label PDFs), at ShipStation, Stripe and Resend, and in the
storage of the shopper's browser, whose tabs share it.

| Part | State it keeps | Operations | Talks to | Modules |
| --- | --- | --- | --- | --- |
| Order statuses (`packages/types/src/order-status.ts`) | none | the status graph, the carrier's codes | everything about orders | `OrderStatuses` |
| Order-status module (`modules/order-status`) | status and history of an order, shipments, webhook events | transition, record, void and track a shipment, claim and release an event | Postgres | `Fulfilment` |
| Shipping workflows (`workflows/`) | none: each run's locals | buy a label, record a shipment, void it, apply a tracking event, move an order; every step with its compensation | order-status, ShipStation, label store, Medusa's fulfilment and reservation workflows | `Fulfilment`, `OrderLifecycle` |
| Tracking webhook (`api/hooks/shipstation/track`) | none | claim, look up, apply, release | the workflows | `Fulfilment` |
| ShipStation client (`modules/shipstation`) | token bucket, gate, two caches | rates, balance, estimates, purchase, void, reconciliation, PDF, webhook set-up | ShipStation | `Carrier`, `Fulfilment` |
| Shipping desk (`admin/routes/fulfilment`, `admin/widgets/order-fulfilment.tsx`, `admin/components/fulfilment`) | each page's query and panel | choose an order, type a parcel, quote, buy, void, refetch | the admin routes | `ShippingDesk` |
| Artwork (`lib/promote-artwork.ts`, `modules/artwork`, two jobs, a subscriber, two routes) | assets and claims; objects in staging and in the filed prefix | upload, inspect, claim at order, promote, retire, purge by age | Postgres, the bucket | `Artwork` |
| Checkout server (`api/store/checkout`, `shipping-rates`, `tax-quote`, `price-quote`) | Medusa's cart, its payment collection and session | sign a quote, prepare a cart against the quotes, complete it | Medusa, Stripe | `PrepareCart` |
| Checkout page (`components/checkout`) | the draft, cached quotes, the hooks' refs | ask for rate, tax and payment, submit | the checkout server | `Checkout` |
| Cart (`apps/storefront/src/lib/cart.ts`) | one document in local storage, a copy in each tab | add, update, quantity, quote, remove, clear | the other tabs | `Cart` |
| Product page (`components/product`) | draft, upload, quote under way | configure, upload, quote, add, edit a line | the cart, the store routes | `ProductPage` |
| Customization rules (`product-customization.ts` of both, `validate-customization.ts`) | none | read a product's metadata, check a configuration on the page and at the server | all of the above | `Customization` |
| Product widget and its guards (`admin/widgets/product-customization.tsx`, middleware, workflow hook) | metadata of a product | load, edit, merge, save, publish | Medusa's product workflows | `ProductAdmin` |
| Mails (`modules/notification-resend`, a job, subscribers) | Medusa's notification rows | send, retry, replay | Resend | `Notifications` |
| Tax (`modules/stripe-tax`, a subscriber) | cached calculations | calculate for a quote or an order, book an order | Stripe | `TaxBooks` |
| Account (`app/account`, `lib/addresses.ts`) | saved addresses and their default, the session cookie | save, edit, remove, make default, close the account, sign in and out | Medusa's customers | `Account` |
| Rate limit, webhook keys, site content, preferences, pages, sign-in | little or none | counts, keys, one document, rendering, redirects | | not modelled |

What is hard in it: money is spent at the carrier before anything is recorded;
every workflow is a saga whose undoing can itself be refused; webhooks are
delivered twice, late and out of order; nothing locks an order, a cart or a
product, so calls that overlap act on what each read earlier; answers get lost
after the request took effect; the browser goes on editing while its requests
travel, and gives up requests that the server finishes all the same; the process
may die between any two statements. `PROJECT.json` lists each of these at its
line under "hazards", with the property that would notice it going wrong.

What makes each part correct:

- *Orders and shipping*: status and shipment agree once a request is over; the
  history is a walk along the graph; no live label and no stored PDF is lost
  sight of; stock is reserved exactly for orders not sent; an event is acted on
  once and a failed one can come again; a label is bought for the parcel that
  was priced.
- *Client of the carrier*: the rate is kept however many wait; one call buys one
  label at most; every call ends.
- *Artwork*: the file an order was placed with stays readable until it is filed
  and, once filed, until it is past its retention; promotion is idempotent under
  the subscriber, the job and crashes; nothing is kept forever.
- *Checkout*: the payment form stands over a cart that holds what the page shows;
  the order is what was submitted; a failure is reported only where there is no
  order; no hook loads for ever.
- *Cart and product page*: one piece is one line in every tab; a quote stays with
  the size and quantity it was for; what the page lets through the server takes.
- *Products*: what is published can be priced; a save leaves alone what the
  widget does not show.
- *Mails, tax, account*: a mail goes out once; an order's tax is booked from its
  own content; a checkout opens on the default that was asked for last.

## Modules

`OrderStatuses` — the status graph and the tracking codes. Pure definitions.

`OrderLifecycle` — the abstract specification: an order's `status` and the
`parcels` it has with the carrier, moved together by atomic steps (`Advance`,
`Ship`, `Deliver`, `Recall`).

`Fulfilment` — the code. `Requests` are HTTP calls, `Job` says which. A request
has a program counter `pc[r]`, locals `mem[r]`, and goes through the statements
of its route and workflow one at a time:

| Request | Steps, in order | Undone by |
| --- | --- | --- |
| `move` (`.../status`) | `read`, `write`, `log` = `transition` | nothing |
| `buy` (`.../shipment/buy`) | `status`, `free`, `purchase` (`reconcile`), `store`, then those of `record` | `undoRow`, `undoFulfilment`, `undoFile`, `undoLabel`, `note` |
| `record` (`.../shipment`) | `fulfil`, `ship`, `insert`, `read`, `write`, `log` | `undoRow`, `undoFulfilment` |
| `void` (`.../shipment/void`) | `find`, `carrier`, `voidRow`, `restore`, `reserve`, `read`, `write`, `log` | `unreserve`, `unvoid` |
| `track` (the webhook) | `claim`, `lookup`, `context`, `snapshot`, `apply`, `deliver`, `read`, `write`, `log` | `undoApply`, `release` |

`Rollback(r)` is the table of which compensation a failing step leads to. The
stores are variables: `status` and `history` (order-status records and entries),
`rows` (shipment_tracking by its unique tracking number), `claimed`
(tracking_webhook_event), `files` (label PDFs), `label` (what the carrier has
sold), `reserved` and `fulfilled` (Medusa). Three are bookkeeping of the model:
`unanswered` (labels bought with the answer lost), `orphaned` (labels an
`orphaned_label` error names) and `crashed`/`faults`.

Medusa's own workflows and the carrier are outside the repository: each call is
one step that succeeds or fails, the carrier's may also take effect and lose its
answer. A label and its tracking number are named after the purchase.
`reconcileLabel` may return any live label with the same recipient, as
`matchReconciledLabel` may. `activeShipment` returns any active row. Statements
fail one at a time (`StatementFails`) and the process may die (`Crash`), after
which no code takes its requests up again.

`MCFulfilment` — workloads: the calls that may be made, each once, in any order.
`FulfilmentProofs` — its theorems.

`Carrier` — the client all those calls go through, on its own. A call is at one
of its requests, waits at the gate, for a token or for its answer, and is
answered, refused, told to come later (429) or not heard of; `Acquire` is
`TokenBucket.acquire` with its sleep and second look, `Answered` the branches of
the request and its retry loop, the caches' lifetimes are counted in ticks of one
token. `load` counts requests less one for every tick, never below zero, so that
it exceeds the capacity exactly when some stretch of time has too many. What a
label or a void does to an order is left to `Fulfilment`, where a call is one
step. `CarrierProofs` — its theorems.

`ShippingDesk` — the two pages labels are bought from. A page shows what its
query read, and a refetch reads and arrives in two steps; the panel exists while
the page shows an order in packing and holds draft and rates only so long. The
requests' effect on the order is that of `Fulfilment` in one step.

`Artwork` — a customer's file from upload to deletion. A file is its ETag, an
upload is named by `upload_id`, a claim and its object under `artwork/` by their
order line. The stores are variables: `asset` and `claim` (the artwork module's
two tables), `staging` and `filed` (the two prefixes of the bucket), `cart` (an
order's checkout) and `sent` (deliveries of its `order.placed`). The actors:

| Actor | Code | Its steps |
| --- | --- | --- |
| customer | upload, inspect and cart-prepare routes | `RecordUpload`, `Put`, `InspectHead`, `RecordInspection`, `PrepareCart`, `PlaceOrder` |
| a run `p`: a handler of the subscriber, or the sweeping job | `subscribers/promote-artwork.ts`, `jobs/promote-pending-artwork.ts`, `lib/promote-artwork.ts` | below |
| a purger | `jobs/purge-artwork.ts` | `StartPurge`, then `EraseObject` and `MarkErased` per line |
| the clock and the bucket's rule | retention days, lifecycle rule | `Age`, `Expire`, `Deliver`, `RunOut` |

| A run at step | does | then |
| --- | --- | --- |
| `claim` | `ClaimLine`: insert, or find the row the unique line has (handler) | `claim`, `next` |
| `next` | `CopyStaging`: copy bound to the inspected ETag | `mark`, `siblings` |
| `siblings` | `FindSibling`, `NoSibling` | `copySibling`, `listRetired`, `giveUp`, `next` |
| `copySibling` | `CopySibling` | `mark`, `next` |
| `mark` | `MarkPromoted` | `tidy`, `next` |
| `tidy`, `delete` | `CheckStaging`, then `DeleteStaging` on what it read | `next` |
| `listRetired`, `retire` | the lines of an upload whose bytes changed | `next` |
| `giveUp`, `drop` | the sweep's own: an expired source, an upload nobody claimed | `next`, `idle` |

A call that fails ends the work on its line or item (`ClaimFails`, `CopyFails`,
`CallFails`, `DropFails`, `EraseFails`, `MarkErasedFails`); a crash ends the run
(`RunDies`, `PurgeDies`) and leaves what it did. `seen` and `told` are an
inspection's locals and the ETags answered "checked". Of time only the order of
the windows is kept: `age[u]` is in the checkout window, the margin, past the
staging window or past the fallback; `delivered[o]` says what the retention job
learns of the order. A write is allowed through the whole checkout window, more
than the hour the presigned URL lives. Assumed of time (`Quiet`, `InTime`): a
run, and the wait for an order or for its event, ends before the next retention
window does, which is 23 days at the least.

`MCArtwork` — two orders that carry one upload. `ArtworkProofs` — its theorems.

`PrepareCart` — the server at checkout. A quote is a signature over what it is
for, an amount and a time; `Verify` is the check of it. A prepare request goes
through the route's awaits (`PrepareStep`): price the line, check rate and tax,
create or find the cart, put address, line and shipping on it, refresh it, give
it a payment session whose amount is the cart's total. `CompleteStep` is the
completing route with its second look after a failure; `PaymentWebhook` is
Stripe's own completion of the same cart. An amount is the tuple of what it is
computed from. An address is as it was typed: a zip (country and postal code), a
town (state and city) and a street (the rest). A signature holds those of its parts
it is of as they were typed, and `Verify` compares them so; `Trim` takes the spaces
off a part, and a place is a trimmed zip and town. Letter case is left out: where
the keys ignore it, the signatures do too.

`Checkout` — the page over it (EXTENDS `PrepareCart`). The three hooks keep a
key each; `Render` computes keys, statuses and effects as React does after each
event, three times, since a committed quote changes the next hook's key. The key
of a rate is the trimmed zip and the quantity, that of a tax the place and the line,
that of a payment the tax's token, the street and the line; what is asked for is the
address as it stands when the timer fires, spaces included. So spaces typed into a
zip change no key and every signature, and a town edit changes the key of the tax
alone. A dropped request is one the page no longer hears of (`Unheard`); the server
goes on with it. `submit` is the run of `handleSubmit`. `CheckoutProofs` — its theorems and
those of `PrepareCart`.

`Customization` — the rules of a product: what its metadata says to each reader,
what is missing or wrong with a configuration on the page, its payload, and what
the server accepts. Pure definitions, used by the next three.

`Cart` — the document and the tabs' copies, one operator per function of
`lib/cart.ts`, and by itself a specification under any calls.

`ProductPage` — a product's page in one tab over that cart (EXTENDS `Cart`),
while other tabs change it and a checkout renews quotes. Its composition is shown
to implement `CartSpec` (`ImplementsCart`), so that what is proved of the cart by
itself holds of it in use. `PageProofs` — the theorems of `Cart` and of
`ProductPage`, the refinement among them.

`ProductAdmin` — the requests that change a product: read, check, write, check
again, and put back, each beside those of other tabs.

`Notifications` — the two mails of an order and the request for a quote, each
from its event, their attempts under a key, Resend's memory of it, and the job
that lists and replays. A text is what tells one rendering from the next: the
link is signed with the time.

`TaxBooks` — calculations under a key of their content, and the booking of
orders. `BooksProofs` — the theorems of these two.

`Account` — addresses, pages that show them as they were, requests in calls, the
session and the checkout's draft. `OfficeProofs` — the theorems of
`ProductAdmin`, `ShippingDesk` and `Account`.

`MCCheckout`, `MCProductPage`, `MCOffice` — instances. `MCOffice` holds the five
small parts that share no state (`ProductAdmin`, `ShippingDesk`,
`Notifications`, `TaxBooks`, `Account`); `part` chooses which of them a behaviour
is of, so that the run is the sum of five and not their product.

## Runs

| Run | Question | Bounds |
| --- | --- | --- |
| `sequential` | Are the workflows as good as atomic when requests do not overlap? Does stock follow the status, does the history tell it, is a recorded approval true, does an order come to agree with its shipment? | one order; two purchases, one hand-recorded shipment, two voids, two moves, one delivery report, one at a time; every answer of carrier and Medusa |
| `overlapping` | Is a label or a PDF ever lost, is an event acted on once, and again only after a failure? | either two purchases for two orders of one customer and a void, or one shipment, an event twice, another like it and a void; two at a time, one fault; calls the page would not offer included |
| `artwork` | Is what was filed what was inspected, is only that ever called checked, and does a claimed line always have its file or something to copy it from? | one upload on a line of each of two orders, two files that pass and one that does not, two handlers, the sweep, a purger, two inspections, two writes, each event once, no faults |
| `artwork_ends` | Is a filed copy there while retention owes it, gone once it is said to be deleted, and does every claim close? | the same orders, one file, one handler, one inspection, one write, one fault |
| `checkout` | Does the payment form stand over what the page shows, are quotes sent only where they fit and refused only for cause, is the order what was submitted, is a failure true, does loading end? | one line with a custom size, two quantities, five addresses (another street; another zip; a space in zip and town, and another street; a space in the zip, and another town), an artwork the ledger refuses; two prepares and one completion at a time; two upsets: edits, failures, price changes, ticks |
| `product_page` | Is one piece one line, does a quote fit its line, do tabs agree, does the server take what the page lets through, does an edit open as saved, is the button's price of the line, does it come? Is the page's cart the cart that the proofs are of? | three sets of rules, two tabs, two variants, two files, two texts, two sizes, an older document, two ids, four actions |
| `carrier` | Is the rate kept, is a label bought once, does every call end? | two calls of any of the eight kinds, a bucket of two, two retries, a carrier that asks for one tick or four, of which three are waited at most (`MaxWait`) |
| `office` | Is a published product priceable, does saving leave alone what it should, is a label bought for what was quoted, does a mail go out once, is tax booked as ordered, does the default fill in the checkout? | of each part as much as makes a race: two tabs, three saves; two pages, five steps; a quote's mail and one of an order's two, of two attempts, a job that may die; three orders and a quote, two ticks; three addresses, three steps |
| `final`, `double`, `checkout_shown`, `tax_twins` | violations, below | the calls each takes |

Two requests together are enough for the interleavings of `Fulfilment`: every
conflict in this code is between one request's read and its write and one other
request's write. One fault is enough because the properties allow what one fault
leaves and every statement of every request is a place for it. Two purchases and
two voids let every step meet the leftovers of an earlier run of it. Of calls
that are the same the first begins first (`SameInOrder`): the others are the same
behaviours under other names. Deadlock is not checked in these runs, nor in the
storefront's and the office's: the calls or edits run out and the system rests.

In the artwork runs, one upload on two orders is the least that has siblings,
and uploads do not touch each other otherwise. Two writes tell a changed file
from the inspected one; two inspections and two handlers (with the sweep, three
runs on two lines) are each other's rivals. Faults and rivals are split between
the two runs because together they do not fit; the theorems below cover any
number of both for the invariants they are about. Deadlock is checked in them:
the jobs go on.

In `checkout` a cart has one line, since the route treats lines alike and one by
one, and two upsets are the least for an edit to meet a failure or a second edit
to overtake the first. The addresses are what the keys tell apart and what they do
not: each edit changes no key, one of them, or all. Two prepares at the server are one that is heard and one
that was given up. A tick outlives every quote (`QuoteTtl` and `CacheTtl` are 0
ticks), and the browser's clock may be behind. In `product_page` four actions reach
an upload begun before an edit and ended after it, and an edit that turns one
line into another; two ids are the two lines a merge needs.

Four violations are disagreements between a document, a comment, a message or a
test and the code; `PROJECT.json` quotes each under "findings":

- `final`: a void that overlaps a delivery report moves a delivered order back
  to packing, because `transition` writes without looking again.
- `double`: two purchases for one order both find it without a label.
- `checkout_shown`: a quantity changed in the cart keeps the unit price of the
  old one on the page, and Stripe takes the new one.
- `tax_twins`: an order with two lines on one variant is refused by Stripe, and
  its tax is not booked.

The models show more that no run is spent on:

- a void whose answer is lost may have voided the label, while the message says
  nothing changed; a purchase that fails in transport is reported as nothing
  bought and, unlike a timeout, is not reconciled;
- of two delivery reports the loser puts its old snapshot back and erases
  `delivered_at`, from which the artwork's retention is counted;
- a line whose claim cannot be inserted is skipped while the order's others are
  copied, and leaves the sweeper nothing to find it by;
- a late upload writes the draft of the render it began in and so undoes later
  entries (`torn`; `AddedIsAccepted` and `EditOpensAsSaved` leave such lines
  out), which may bring back a custom size that was switched off;
- the rate and the tax fetched last still count as ready when the page comes back to
  their keys after they left the caches (`use-shipping-rates.ts:144-164`), until they
  are asked for again: for that debounce (half a second, `QuoteDue`) the draft has the
  tax of the address in between, and the form may stand over its session where only
  the places differ;
- a space typed at the end of the postal code (or of state or city) leaves the keys
  and the cached quotes (`lib/shipping-rates.ts:24`, `lib/tax-quote.ts:30-37`), while
  the requests send it and the signatures hold it: the next prepare, after an edit of
  the street for one, is refused as a mismatched cart though no rate changed, and so
  is every retry until the quotes leave the caches or a key changes
  (`QuotesRefusedForCause` names it as one of two causes). An edit of the city then
  asks the tax with the rate's token of the postal code without the space, which is
  refused too. Where nothing else is edited no new prepare is sent, and the order is
  for the address as it was spaced before;
- while a new rate is fetched the tax of the former rate stays on the page, with
  payment closed;
- two refused updates of a product that cross may put an old value back over a
  newer one (`crossed`, which `PublishedIsPriceable` leaves out);
- two overlapping requests for a default may end with none or two;
- a confirmation event redelivered after Resend forgot the key would send a
  second mail; `Notifications` takes events to be redelivered while the key is
  kept.

## Fairness

`FairSpec` of `Fulfilment` adds weak fairness of `Work(r)` for each request: a
request that has begun is run to its end, which holds because each await in it
settles (the client gives every call a timeout) and Node runs the continuation.
Nothing obliges anyone to make a call, and nothing is assumed after a crash, so
the run with liveness has none.

`FairSpec` of `Artwork`: a handler that has begun runs on unless it dies, and
the sweep and the purge run on their schedule (weak fairness of each). Time
passes and the bucket's rule is applied; `Age` and `RunOut` are disabled while
a run is under way, by the assumption of time above, so theirs is strong
fairness. Customers and carriers owe nothing: no upload, order or delivery has
to happen. Unlike a request, a run that dies is followed by another sweep, so
`EveryClaimCloses` is checked with a fault.

`CarrierFairSpec`: time passes, and each call takes the token it can have and is
answered or timed out. The limiter serves its waiters in no order; that a call is
not passed over for ever follows from the attempts of the others being bounded,
not from the fairness. `FairSpec` of `Checkout`: timers fire, and requests are
answered by a server that finishes what it began (`Progress`, as one action: the
weakest that will do); no shopper, price change or failure has to come.
`FairSpec` of `ProductPage`: the timer of a quote fires and its request settles.

## Proofs

Each invariant was checked by TLC before it was proved. All are for any values
of the constants that satisfy the module's assumptions.

`FulfilmentProofs`, for any sets of orders, requests and events, any job of each
and any bounds, from `OrdersAssumption`, `JobAssumption`, `EventsAssumption` and
`BoundsAssumption`:

- `TypeCorrect`: `Spec => [](TypeOK /\ LocalsOK)`. `TypeOK` alone is not
  inductive: that a write keeps the type of `rows` or `history` needs to know
  that the request at that step has an order and a shipment. `LocalsOK` says so,
  through `Fits(r, p, m)`: which kinds of request can be at step p and which of
  their locals are set there.
- `EventsHandledOnce` (`EventHandledOnce`) and `ClaimsAccounted`
  (`ClaimAccounted`). Added is `ClaimsHeld`: a request that handles an event has
  it in `claimed`. With it the claim's uniqueness makes the second claimer a
  duplicate, and the only request that gives a claim back is the one that holds
  it.
- `LabelsAccounted`: `Spec => []LabelAccounted`. Added are `RowsOwned` (a row
  that a request may still delete is there, is its own and no one else's: the
  tracking number is unique, so the insertion that succeeded made it) and
  `OrphansReported` (a purchase lets go of a label only after reporting it).
  `LabelGoto` reduces a step to what it passes on; each action then has one
  case.
- `PdfsAccounted` (`FilesAccounted`). Added is `FilesOwned`: what a purchase has
  filed and still holds is in storage, the row it owns points to that file, and
  every file in storage is such a one or has a row that points to it. It stands on
  `RowsOwned`.

`SequentialProofs`, about the same `Spec` for any orders and any sequence of
calls the page offers and of deliveries, each of which may be refused anywhere,
under one assumption, `Undisturbed`: one request at a time and no crash. These are
the properties `sequential` checks; with requests that overlap they are false, as
`final` shows. Nothing bounds how many requests run in turn.

- `StockIsPutBack` (`StockFollowsStatus`) and `HistoryIsAWalk`
  (`HistoryTellsStatus`), from `OneByOne`: at most one request is under way, every
  order it does not work on is `Settled`, and its own order differs from a settled
  one by exactly what `Phase` says for its step (a parcel more, stock still
  reserved, a status written and not yet told in the history), on the way forward
  and on the way back of each compensation. `SentBySome` ties the events to the
  shipments they name.
- `ApprovalsAreTrue` (`VoidApprovalIsTrue`), from `ApprovalInv`: a shipment that
  records an approval is of a voided label, and a request that has not yet bought
  (`BeforePurchase`) holds no label to record.
- `WorkflowsAreAtomic` (`ImplementsLifecycle`): the refinement of
  `OrderLifecycle`, step by step. `Shown` is the invariant that links the parcels
  with the carrier to the rows and to what the running request has done and not
  yet put down (`ParcelsOf`); each action is a step of the abstract lifecycle at
  the one write that commits it and a stutter everywhere else.

`ArtworkProofs`, for any uploads, orders, lines, files, handlers, purgers and
inspections and any bounds, from `ShapeAssumption` and `BoundsAssumption`:

- `TypeCorrect`: `Spec => [](TypeOK /\ RunsFit /\ PurgesFit)`. The two added
  parts say that a run or a purge at work on a line works on a claim that
  exists, and that a sibling is another line of the same upload; marking a claim
  keeps its type only then.
- `FiledWasInspected` (`FiledIsInspected`) and `CheckedWasRecorded`
  (`CheckedIsRecorded`): both rest on `InspectedOnce`, that the recorded ETag is
  written once, and on the copy being bound to it.
- `ClaimedArtWasKept` (`ClaimedArtIsKept`): no claim of an upload written once
  loses its file while the staging window is open. The invariant `KeepInv` adds
  `OneFileEach` (such an upload is one file wherever it is: staging, record, an
  inspection under way), `OrderedIsInspected` (a prepared cart's uploads are
  inspected), `DueIsClosed` (a purge holds nothing whose window is open),
  `MarksDeserved` (what each run is about to mark on a line is true of it when
  it does: the copy is there, the window is over, the upload was written again) and
  `OpenIsKept` (a claim on an open upload stands, and staging goes only when some
  line has its copy). The last
  three carry a decision from the call that read it to the call that acts on it,
  through any steps of other runs between the two.

- `OwedArtIsKept` (`KeptWhileOwed`), from `OwedInv`: a purge has in hand only
  claims that nothing owes any more (`PurgesTheUnowed`: what it read of the order's
  deliveries cannot come to be owed again), and a run marks a line promoted only
  with the copy in place (`MarksTheFiled`), though another run or a purge may work
  on the same upload between the copy and the mark.
- `DeletedArtIsGone` (`DeletedIsGone`), from `GoneInv`: a run that began in time
  works in time (`HandlersInTime`, the assumption `Quiet` on windows turned into
  what each step can still see), so a line in some run's hand is never one that a
  purge closes (`CopiedIsNotDue`), even if another run filed it first; what a purge
  is about to delete (`Doomed`) is filed and in no run's hand, and so nothing
  copies it back after.

A family of frame lemmas (`AssetSteps`, `FiledSteps`, `RunMoves`, ...) says once
which steps can change what; the cases of each invariant are about those only.

`CarrierProofs`, for any number of calls, waits and attempts, from
`CarrierAssumption`:

- `RateHolds` (`SendsWithinRate`) and `LabelBoughtOnce` (`BuysOnce`), both from
  `CarrierInv`. The rate rests on `BucketCovers`, that `load` and the tokens left
  never exceed the capacity together; the single purchase on `NothingMadeYet`,
  that a call still to be sent again has bought nothing.

`PageProofs`, of the cart by itself, for any tabs, variants, customizations and
quantities, from `CartAssumption`:

- `CartTypeCorrect`, `PiecesStayApart` (`OnePieceOneLine`), `QuotesFit`
  (`QuoteFitsLine`) and `TabsWorkOnTheStored` (`TabsAgree`), from `CartInv`.
  What is proved of one document (`DocumentsSound`: its ids are of those minted,
  id 0 is in the stored one alone, pieces and ids are apart, quotes fit) is
  proved once for each operator on lines; a write then replaces documents by
  such documents. `TabsAgree` is an induction of its own over who is still to be
  told.

and of the product page, for any product, tabs and bounds, from `CartAssumption` and
`RuleAssumption`:

- `PageImplementsCart` (`ImplementsCart`): every step of the page, of the drawers
  and of a checkout's requote is a step of `Cart` or leaves the cart alone, and so
  `PageKeepsCart`: the theorems of the cart by itself hold of it in use. The
  invariant `PageInv` says that the page's fields have their types, that the quote
  asked for is that of the page's own key, and that a late quote is of a line id
  that was minted.
- `ButtonPriceFits` (`ButtonPriceIsOfTheLine`), from the same.
- `AddedIsTaken` (`AddedIsAccepted`) and `EditOpensFaithfully`
  (`EditOpensAsSaved`), from `AcceptInv`: every line stored or in a tab's copy,
  other than those a late upload wrote over (`spoilt`), is one the server accepts
  under these rules. They carry the assumption `SizeCanBeLeft`: a product whose size is
  optional has a preset. Without it `defaultSelection`
  (`src/apps/storefront/src/components/product/product-detail-view.tsx:30`) opens the
  page at its own size with nothing else to choose.

`OfficeProofs`:

- `PublishedCanBePriced` (`PublishedIsPriceable`), from `AdminInv`. A bad value of a
  product is there only between a write and the hook that refuses it. Tabs that
  cross may each see the other's bad value as what to put back, so no statement
  about one request is inductive; `Trail` counts instead: for each bad value the
  updates that will put it back, and the product if it stands there, are no more
  than the updates that wrote it and are still to be refused. When none is in
  flight, nothing bad stands.
- `OthersAreKept` (`KeepsWhatOthersWrote`), an action property, from `OthersKnown`:
  what a request carries of a key that is not the widget's is what the product has,
  unless another update came between.
- `UntouchedSaveIsIdle` (`UntouchedSaveChangesNothing`): reading what was written
  from a reading gives the reading again (`ReadingSettles`), for any metadata.
- `QuotedIsBought` (`BuysWhatWasQuoted`), from `DeskInv`: a panel that has
  rates has the draft they were quoted for, through every edit, late answer and
  reload.
- `CheckoutFillsIn` (`FillsInTheDefault`, an action property), from `AccountInv`:
  while the last request for a default is undisturbed, no address is the default
  but its own and those it is still to take that from (`AloneHolds`).

`CheckoutProofs`, for any addresses, quantities, sizes, artworks, numbers of requests
and lifetimes, from `CheckoutAssumption` and `PageAssumption`:

- `CheckoutHolds`: `Spec => []CheckoutInv`. The theorems below are read off this
  one invariant, which has three layers.
  `PageInv` is about the page alone. Every cached quote is of its key and of its age;
  the draft has the quotes of the keys its hooks saw last; what a hook has asked for is
  what its key says, which is up to spaces (`OfRate` and `OfTax` are a signature as the
  keys have it); and what the page shows as ready is what its hooks come to, but
  for a debounce that runs (`Due`). A tax or a payment that is asked for, or
  about to be, goes with quotes in time (`RateInTime`, `AskedInTime`, `InTime`): a
  cached quote is used for less than its life, and no tick passes under a timer. A
  render is proved once (`PagePass`: one pass of the three hooks settles a page whose
  hooks wait, are cached or failed) and every event only has to leave such a page
  (`Raw`).
  `ServerSound` is about the server alone. A cart's collection is of its total; its
  session is the one intent of the cart that is not canceled, for that total; an order
  was made of what was paid. That holds however requests interleave, because each step
  refreshes the cart it writes.
  `Links` joins the two. A request the page listens to is of what the page asked for,
  and unless another was at work on its cart (`raced`) the cart is as it left it
  (`Heard`); the session the page shows is of its line (`GotHolds`); all requests but
  the last are marked (`OthersOld`), so that the first write of a late one shows; and
  whatever was paid, or may yet be, for the page's cart is of the session the page has
  or is about to hear of (`HeldIsGot`), so that a second press of Pay cannot submit
  another session of a cart that is paid.
- `FormStandsOverItsCart` (`ReadyIsPrepared`), from `GotHolds` and `CartSound`; the
  address is the page's, up to spaces, because its place is in the tax and its street
  in the key.
- `QuotesAreRefusedForCause` (`QuotesRefusedForCause`, an action property), from
  `LinesHold`, which is inductive beside `CheckoutInv`: until it is verified, a request
  has quotes in time and, as the keys see it, of its own quantity and place (`Fresh`),
  also one the page has given up. What is left to differ is the amount the tax was
  asked with, or the spaces.
- `TaxIsAskedWithItsRate` (`TaxAskedWithItsRate`), from the hooks' keys and `RateInTime`.
- `OrderedAsSubmitted` (`OrderIsAsSubmitted`), from `CartSound` and `SubmitHolds`: an
  order's session is paid, and the submitted one is the only paid session of its cart.
- `FailedOnlyWithoutOrder` (`FailedMeansNoOrder`), an action property.

`BooksProofs`, from `MailAssumption` (the provider keeps a key as long as the job
replays) and `TaxAssumption`:

- `MailSentOnce` (`MailedOnce`), from `MailInv`: the key is no older than the row
  (`KeyedOnce`), and whatever is being sent, or listed to be replayed, is of a
  row young enough for the key to be known (`SentInTime`, `ListedInTime`).
- `OrdersBookedRight` (`BookedAsOrdered`), from `TaxInv`: what the cache keeps
  under a key is a calculation of that content (`KeptUnderItsKey`), and a handler
  carries one of its own order's (`RecordsItsOwn`).

Assumptions on constants are those the modules name. Most only tell marks from data
(`None` is no Boolean, no line, no quote, no key). Two of the checkout's are of
substance and hold in the code: a quote outlives its place in a cache (30 minutes and
15), and the first line is one the shop sells. Of `Trim` and the parts of an address
nothing is assumed. What a
theorem assumes beyond its module (`Undisturbed`, `SizeCanBeLeft`) stands in its
statement.

What stays with TLC: liveness (`TornOrdersSettle`, `EveryClaimCloses`, `LoadingEnds`,
`PriceComes`, `CallsEnd`), which is out of the prover's reach; and the runs that show
a violation. Every safety invariant and every action property that a passing run
checks is a theorem.

## Not modelled, and why

Of orders: compensating writes are not failed one by one (a crash stops them
anywhere); the address check of `assertOrderShippableStep` is a refusal like that
of `CheckFree`; a hand-recorded shipment has no label id, since the page never
sends one; `revertTransition` is never called; signatures and payloads of
webhooks are taken as valid and well-formed.

Of artwork: what the inspection finds in the bytes (whether a file passes is a
constant, `Printable`), mime types, downloads and key formats; uploads inspected
before ETags were recorded; the bucket's 180-day rule on `artwork/`, later than
every window modelled; which of its two reasons the retention job gives. The
job's list and its lookup of deliveries are one step, and so are the inspect
route's row and head: the conditional update that follows looks again.

Of the shop: carts of several lines at the server, order access tokens, form
validation, markup; the arithmetic of prices (an amount is the tuple of what it
is computed from); products with several options; artwork resolution other than
as a set of file and size pairs; Medusa's, Stripe's and Resend's own rules, which
are taken from what the code relies on: a refresh prices a cart anew and drops a
session whose total moved, two lines or two transactions of one reference are
refused, a key is known for a time, making an address the default may or may not
take that from the others.

Of the artwork field: a file found unreadable after it was removed leaves the field
saying so (`fail` in `artwork-upload.tsx`), where the model has it empty; no property
depends on that.

Of the account: names and phones; a tab has one request at a time, though a
second tab may have its own; what one checkout tab chooses stands in the other's
draft.

Not modelled at all: the rate limit (its count is read and written back, so that
it is not sharp, and nothing depends on that), the keys of ShipStation's webhooks,
site content (one owner edits one document), the communication preferences and
the profile, the wording of mails, pages without a protocol, and the redirects of
the authentication providers.

## Plan

Done: the modules above, their runs and theorems. What would add most next:

1. `ArtworkLife`, the abstract life of one file, as a specification that
   `Artwork` implements.
2. A cart of two lines in `PrepareCart`, with the lines' prices resolved side by
   side.
