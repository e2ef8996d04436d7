-------------------------------- MODULE TaxBooks --------------------------------
(***************************************************************************)
(* The tax calculations asked of Stripe, and the transactions that book    *)
(* the tax of the orders.                                                  *)
(*                                                                         *)
(* A calculation is kept in the cache under its content.  The quote the    *)
(* shopper sees and the handler of a placed order ask for one by the same  *)
(* call, the handler to book the order with it.  Stripe is external: it    *)
(* refuses two lines under one reference, and two transactions.            *)
(*                                                                         *)
(* Bounds: MaxTaxEvents events and requests, MaxTaxTicks ticks.            *)
(***************************************************************************)
EXTENDS Integers, Sequences
LOCAL INSTANCE SequencesExt

CONSTANTS
    PlacedOrders,  \* the orders that are placed: [orders -> content], see below
    AskedBaskets,  \* the baskets that quotes are asked for, alike
    NoVariant,     \* of an order's line whose variant is gone
    CalculationTtl,
    MaxTaxEvents, MaxTaxTicks

ASSUME TaxAssumption ==
    /\ DOMAIN PlacedOrders \cap DOMAIN AskedBaskets = {}
    /\ \A o \in DOMAIN PlacedOrders :
         LET content == PlacedOrders[o]
         IN  content = [lines |-> content.lines, to |-> content.to, shipping |-> content.shipping]
    /\ {CalculationTtl, MaxTaxEvents, MaxTaxTicks} \subseteq Nat

VARIABLES
    keptCalculations,  \* the cache: [key, id, left]
    calculations,      \* at Stripe: the calculations made, by id
    transactions,      \* at Stripe: each order's booked calculation, 0: none
    taxWork,           \* each handler and quote: [stage, id]
    taxEvents,
    taxTicks

taxVars == <<keptCalculations, calculations, transactions, taxWork, taxEvents, taxTicks>>

TaxedOrders == DOMAIN PlacedOrders

Works == DOMAIN PlacedOrders \cup DOMAIN AskedBaskets

(***************************************************************************)
(* What is asked.  A line is [variant, amount, quantity]; a quote tells    *)
(* lines apart by their place, the handler only by their variant.          *)
(***************************************************************************)
TaxLineItems(lines) ==
    [i \in DOMAIN lines |->
        [reference |-> <<lines[i].variant, i>>, amount |-> lines[i].amount,
         quantity |-> lines[i].quantity]]

TransactionLines(lines) ==
    LET taxed == SelectSeq(lines, LAMBDA line : line.variant # NoVariant)
    IN  [i \in DOMAIN taxed |->
            [reference |-> <<taxed[i].variant>>, amount |-> taxed[i].amount,
             quantity |-> taxed[i].quantity]]

Input(w) ==
    IF w \in TaxedOrders THEN [PlacedOrders[w] EXCEPT !.lines = TransactionLines(@)]
    ELSE [AskedBaskets[w] EXCEPT !.lines = TaxLineItems(@)]

\* The lines are sorted: in the key they are a bag.
TaxCacheKeyWithoutShipping(input) == [lines |-> ToBag(input.lines), to |-> input.to]

TaxCacheKey(input) ==
    [lines |-> ToBag(input.lines), to |-> input.to, shipping |-> input.shipping]

KeptApart(lines) == \A i, j \in DOMAIN lines : lines[i].reference = lines[j].reference => i = j

(***************************************************************************)
(* The event of an order, or the request for a quote.                      *)
(***************************************************************************)
At(w, stage) == taxWork[w].stage = stage

Now(w, stage) == taxWork' = [taxWork EXCEPT ![w].stage = stage]

StartTax(w) ==
    /\ taxWork[w].stage \notin {"looks", "asks", "records"}
    /\ taxEvents < MaxTaxEvents /\ taxEvents' = taxEvents + 1
    /\ taxWork' = [taxWork EXCEPT ![w] =
         [stage |-> IF Input(w).lines = <<>> THEN "nothing" ELSE "looks", id |-> 0]]
    /\ UNCHANGED <<keptCalculations, calculations, transactions, taxTicks>>

\* A handler goes on to book what a quote returns.
Have(w, id) ==
    taxWork' = [taxWork EXCEPT ![w] =
        [@ EXCEPT !.id = id, !.stage = IF w \in TaxedOrders THEN "records" ELSE "done"]]

LookUp(w) ==
    /\ At(w, "looks")
    /\ LET hits == {e \in keptCalculations : e.key = TaxCacheKey(Input(w))}
       IN  IF hits = {} THEN Now(w, "asks") ELSE \E e \in hits : Have(w, e.id)
    /\ UNCHANGED <<keptCalculations, calculations, transactions, taxEvents, taxTicks>>

CalculateTax(w) ==
    /\ At(w, "asks")
    /\ LET input == Input(w)
           id    == Len(calculations) + 1
           key   == TaxCacheKey(input)
       IN  IF KeptApart(input.lines)
           THEN /\ calculations' = Append(calculations, input)
                /\ keptCalculations' = {e \in keptCalculations : e.key # key}
                     \cup {[key |-> key, id |-> id, left |-> CalculationTtl]}
                /\ Have(w, id)
           ELSE /\ Now(w, "refused")
                /\ UNCHANGED <<keptCalculations, calculations>>
    /\ UNCHANGED <<transactions, taxEvents, taxTicks>>

\* Booked, whether or not the answer comes.
Book(w) == transactions' = [transactions EXCEPT ![w] = IF @ = 0 THEN taxWork[w].id ELSE @]

RecordTransaction(w) ==
    /\ At(w, "records")
    /\ Book(w)
    /\ Now(w, IF transactions[w] = 0 THEN "done" ELSE "failed")
    /\ UNCHANGED <<keptCalculations, calculations, taxEvents, taxTicks>>

\* No answer, an address Stripe does not know, or any other error: the quote
\* fails, the handler logs it, and nobody asks again.
StripeFails(w) ==
    /\ taxWork[w].stage \in {"asks", "records"}
    /\ Now(w, "failed")
    /\ \/ At(w, "records") /\ Book(w)
       \/ UNCHANGED transactions
    /\ UNCHANGED <<keptCalculations, calculations, taxEvents, taxTicks>>

TaxTick ==
    /\ taxTicks < MaxTaxTicks /\ keptCalculations # {}
    /\ taxTicks' = taxTicks + 1
    /\ keptCalculations' =
         {[e EXCEPT !.left = @ - 1] : e \in {k \in keptCalculations : k.left > 1}}
    /\ UNCHANGED <<calculations, transactions, taxWork, taxEvents>>

(***************************************************************************)
(* The specification.                                                      *)
(***************************************************************************)
TaxInit ==
    /\ keptCalculations = {} /\ calculations = <<>>
    /\ transactions = [o \in TaxedOrders |-> 0]
    /\ taxWork = [w \in Works |-> [stage |-> "idle", id |-> 0]]
    /\ taxEvents = 0 /\ taxTicks = 0

TaxNext ==
    \/ \E w \in Works :
        \/ StartTax(w) \/ LookUp(w) \/ CalculateTax(w)
        \/ RecordTransaction(w) \/ StripeFails(w)
    \/ TaxTick

TaxSpec == TaxInit /\ [][TaxNext]_taxVars

(***************************************************************************)
(* Properties.                                                             *)
(***************************************************************************)
\* An order is booked with a calculation of its own lines, address and
\* shipping, although the calculation may have been made for another order or
\* a redelivered event and kept since (service.ts calculateTax).
BookedAsOrdered ==
    \A o \in TaxedOrders : transactions[o] # 0 =>
        LET booked == calculations[transactions[o]]
        IN  /\ ToBag(booked.lines) = ToBag(Input(o).lines)
            /\ booked.to = PlacedOrders[o].to /\ booked.shipping = PlacedOrders[o].shipping

\* Stripe never refuses the lines of an order, so every order is booked when
\* Stripe answers (tax-quote/route.test.ts, "keeps two lines on one variant
\* apart, which Stripe requires").
LinesKeptApart == \A w \in Works : taxWork[w].stage # "refused"

================================================================================
