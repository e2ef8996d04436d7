------------------------------- MODULE ProductPage -------------------------------
(***************************************************************************)
(* A customizable product's page in the tab Here, over the Cart it shares  *)
(* with the other tabs, where the shopper changes or empties the cart and  *)
(* the checkout renews quotes.                                             *)
(*                                                                         *)
(* The page asks what the rules say (Customization), uploads a file in the *)
(* background, has every configuration quoted after a debounce, and adds   *)
(* the line or saves an edit of one.  A step ends with React rendering and *)
(* running the effects (Rendered).  The product has one option, the size:  *)
(* a variant is a preset or the value that means a custom size.            *)
(*                                                                         *)
(* An upload's callback belongs to the render it began in: what it writes  *)
(* when it ends is that render's draft with the file (base).  torn marks a *)
(* page whose later edits were undone so, and a page that edits a line one *)
(* saved; spoilt has the lines that such pages saved.                      *)
(*                                                                         *)
(* Bounds: MaxEdits actions of the shopper and failures together.          *)
(***************************************************************************)
EXTENDS Cart

CONSTANTS
    Here,                  \* the tab of the page
    Presets, OwnSize,      \* the variants: presets and the custom value
    SoldOut,
    Files, Texts, Typed,   \* what the shopper can give
    Rulebook,              \* what the product may ask for
    MaxEdits

ASSUME ProductAssumption ==
    /\ Here \in Tabs
    /\ Variants = Presets \cup {OwnSize} /\ OwnSize \notin Presets
    /\ None \notin Variants \cup Files \cup Texts \cup Typed \cup BOOLEAN
    /\ MaxEdits \in Nat

\* A rule says of every input whether it is asked for, of a typed size whether
\* it is within bounds, of a text whether it is unfit; a line carries at most
\* what a shopper can give, and every piece that a rule allows.
ASSUME RuleAssumption ==
    /\ \A r \in Rulebook :
        /\ r.inputs \in [Inputs -> Modes]
        /\ r.named \in BOOLEAN
        /\ r.within \subseteq Typed
        /\ r.unfit \subseteq Texts
        /\ [art : Files \cup {None}, text : (Texts \ r.unfit) \cup {None},
            size : r.within \cup {None}] \subseteq Customs
    /\ Customs \subseteq [art : Files \cup {None}, text : Texts \cup {None},
                         size : Typed \cup {None}]

VARIABLES
    rules,      \* what the page and the server read of the product
    page,       \* the page's state
    late,       \* the quote that a checkout in another tab has asked for
    spoilt,     \* history: the lines saved by a torn page
    edits

vars == <<cartVars, rules, page, late, spoilt, edits>>

Edit == edits < MaxEdits /\ edits' = edits + 1

(***************************************************************************)
(* Rendering.                                                              *)
(***************************************************************************)
\* A variant is selected, and there is stock of it, or none is kept.
Available(v) == v # None /\ v \notin SoldOut

\* Of a product with one option, the size.
optionValueAvailability(v) == IF Available(v) THEN "available" ELSE "sold_out"

Measured(v) == IF v \in Presets THEN v ELSE None

Quotable(p) ==
    /\ Available(p.selected)
    /\ ~SizeErrors(rules, p.draft)
    /\ UsesOwnSize(rules, p.draft) => p.draft.size # None

\* The configuration the page wants priced, or None.
QuoteKey(p) ==
    IF ~Quotable(p) THEN None
    ELSE [variant |-> p.selected, qty |-> p.qty,
          size |-> IF UsesOwnSize(rules, p.draft) THEN p.draft.size ELSE None]

RenderedKeepingRequest(p) == [p EXCEPT !.active = QuoteKey(p),
    !.asked = IF @ = "no" /\ QuoteKey(p) \notin {None, p.active} THEN "timer" ELSE @]

\* usePriceQuote's effect: another key drops what was asked.
Rendered(p) ==
    LET key == QuoteKey(p)
    IN  IF key = p.active THEN p
        ELSE [p EXCEPT !.active = key, !.asked = IF key = None THEN "no" ELSE "timer"]

QuoteStatus(p) ==
    CASE p.active = None -> "idle"
      [] p.active # None /\ (p.fetched = None \/ p.fetched.key # p.active) -> "loading"
      [] OTHER -> p.fetched.status

CanAddWithAnyQuote(p) ==
    /\ Available(p.selected)
    /\ Missing(rules, p.draft) = {}
    /\ ~SizeErrors(rules, p.draft)
    /\ ~TextProblem(rules, p.draft)
    /\ ~ArtworkError(rules, p.draft, Measured(p.selected))
    /\ p.fetched # None /\ p.fetched.status = "ready"

CanAdd(p) ==
    /\ Available(p.selected)
    /\ Missing(rules, p.draft) = {}
    /\ ~SizeErrors(rules, p.draft)
    /\ ~TextProblem(rules, p.draft)
    /\ ~ArtworkError(rules, p.draft, Measured(p.selected))
    /\ QuoteStatus(p) = "ready"

View(p) ==
    CASE p.show = "uploading" -> "uploading"
      [] p.show = "failed"    -> "error"
      [] OTHER -> IF p.draft.art # None THEN "uploaded" ELSE "idle"

(***************************************************************************)
(* Mounting: the page anew, or with a line's configuration.                *)
(***************************************************************************)
DefaultSelection ==
    CASE rules.named /\ UsesOwnSize(rules, EmptyDraft) -> OwnSize
      [] Presets = {} -> OwnSize
      [] OTHER -> None

Mounted(line, selected, draft, qty, torn) ==
    Rendered([line |-> line, selected |-> selected, draft |-> draft, qty |-> qty,
              preset |-> None, upload |-> None, show |-> "quiet", retry |-> None, torn |-> torn,
              active |-> None, asked |-> "no", fetched |-> None])

NewPage == Mounted(0, DefaultSelection, EmptyDraft, MinQty, FALSE)

\* configurationFromCartLine.
EditPageWithoutSize(l) ==
    Mounted(l.id, l.variant, [DraftOf(rules, l.custom) EXCEPT !.own = FALSE],
            IF l.qty < MinQty THEN MinQty ELSE l.qty, LineKey(l) \in spoilt)

EditPage(l) ==
    Mounted(l.id, l.variant, DraftOf(rules, l.custom),
            IF l.qty < MinQty THEN MinQty ELSE l.qty, LineKey(l) \in spoilt)

\* A page whose line left the cart is a new page.
Kept(p, lines) == IF p.line # 0 /\ WithId(lines, p.line) = {} THEN NewPage ELSE p

(***************************************************************************)
(* The shopper's entries.                                                  *)
(***************************************************************************)
Entered(p) == page' = Rendered(p) /\ Edit /\ UNCHANGED <<cartVars, rules, late, spoilt>>

\* The Custom value is hidden and the group disabled while an own size is asked.
ChooseSize(v) ==
    /\ optionValueAvailability(v) = "available"
    /\ rules.named => v # OwnSize /\ ~UsesOwnSize(rules, page.draft)
    /\ Entered([page EXCEPT !.selected = v])

ToggleOwnSizeOnly ==
    /\ rules.inputs["size"] = "optional"
    /\ Entered([page EXCEPT !.draft.own = ~@])

\* The checkbox changes the draft and, where the product has the value, the
\* variant with it.
ToggleOwnSize ==
    LET own == ~page.draft.own
    IN  /\ rules.inputs["size"] = "optional"
        /\ CASE ~rules.named        -> Entered([page EXCEPT !.draft.own = own])
             [] rules.named /\ own  -> Entered([page EXCEPT !.draft.own = own, !.selected = OwnSize,
                                                            !.preset = page.selected])
             [] rules.named /\ ~own -> Entered([page EXCEPT !.draft.own = own,
                                                            !.selected = page.preset])

TypeSize(s) ==
    /\ UsesOwnSize(rules, page.draft)
    /\ Entered([page EXCEPT !.draft.size = s])

TypeText(x) ==
    /\ rules.inputs["text"] # "off"
    /\ Entered([page EXCEPT !.draft.text = x])

SetPageQuantity(n) ==
    Entered([page EXCEPT !.qty = IF n < MinQty THEN MinQty ELSE n])

(***************************************************************************)
(* Uploads.                                                                *)
(***************************************************************************)
\* Aborting while a body is read gives that reading's failure (lib/artwork-upload).
Aborted(p) ==
    CASE p.upload = None -> p
      [] p.upload # None /\ p.upload.step = "reads" ->
            [p EXCEPT !.upload = None, !.show = "failed", !.retry = p.upload.file]
      [] OTHER -> [p EXCEPT !.upload = None, !.show = "quiet"]

\* The upload it replaces reports its end after the new one is shown.
Started(p, f) ==
    LET new == [file |-> f, step |-> "calls", base |-> p.draft]
    IN  IF p.upload = None THEN [p EXCEPT !.upload = new, !.show = "uploading"]
        ELSE [Aborted(p) EXCEPT !.upload = new]

PickFile(f) == rules.inputs["artwork"] # "off" /\ Entered(Started(page, f))

\* Several files, or one of a kind not taken: an upload under way goes on.
DropBadFile ==
    /\ rules.inputs["artwork"] # "off"
    /\ Entered([page EXCEPT !.show = "failed", !.retry = None])

Retry == View(page) = "error" /\ page.retry # None /\ Entered(Started(page, page.retry))

KeepCurrent ==
    /\ View(page) = "error" /\ page.draft.art # None
    /\ Entered([page EXCEPT !.show = "quiet"])

CancelUpload == View(page) = "uploading" /\ Entered(Aborted(page))

RemoveFile ==
    /\ View(page) = "uploaded"
    /\ Entered([Aborted(page) EXCEPT !.show = "quiet", !.draft.art = None])

InBackground(p) == page' = Rendered(p) /\ UNCHANGED <<cartVars, rules, late, spoilt>>

\* Presigning, the bytes, the inspection: a call, or its answer being read.
UploadGoesOn ==
    /\ page.upload # None
    /\ InBackground([page EXCEPT !.upload.step = IF @ = "calls" THEN "reads" ELSE "calls"])
    /\ UNCHANGED edits

UploadFails ==
    /\ page.upload # None
    /\ Edit
    /\ InBackground([page EXCEPT !.upload = None, !.show = "failed", !.retry = page.upload.file])

\* onChange of the render that began it.
UploadEnds ==
    LET draft == [page.upload.base EXCEPT !.art = page.upload.file]
    IN  /\ page.upload # None /\ page.upload.step = "reads"
        /\ InBackground([page EXCEPT !.upload = None, !.show = "quiet", !.draft = draft,
                            !.torn = @ \/ draft # [page.draft EXCEPT !.art = page.upload.file]])
        /\ UNCHANGED edits

(***************************************************************************)
(* Quotes.                                                                 *)
(***************************************************************************)
QuoteTimer ==
    /\ page.asked = "timer"
    /\ InBackground([page EXCEPT !.asked = "sent",
                        !.fetched = [key |-> page.active, status |-> "loading"]])
    /\ UNCHANGED edits

QuoteAnswered ==
    /\ page.asked = "sent"
    /\ InBackground([page EXCEPT !.asked = "no", !.fetched.status = "ready"])
    /\ UNCHANGED edits

QuoteFails ==
    /\ page.asked = "sent"
    /\ Edit
    /\ InBackground([page EXCEPT !.asked = "no", !.fetched.status = "error"])

(***************************************************************************)
(* The cart button, and the edit of a line.                                *)
(***************************************************************************)
LineOf(p) ==
    [id |-> 0, variant |-> p.selected, custom |-> Payload(rules, p.draft), qty |-> p.qty,
     token |-> p.fetched.key]

\* A line that is added leaves the page as it is, a saved edit ends.
Submit ==
    LET l == LineOf(page)
    IN  /\ CanAdd(page)
        /\ IF page.line = 0 THEN AddLine(Here, l) ELSE UpdateLine(Here, page.line, l)
        /\ page' = IF page.line = 0 THEN page ELSE NewPage
        /\ spoilt' = IF page.torn THEN spoilt \cup {LineKey(l)} ELSE spoilt
        /\ Edit
        /\ UNCHANGED <<rules, late>>

OpenEdit(l) ==
    /\ page' = EditPage(l)
    /\ Edit
    /\ UNCHANGED <<cartVars, rules, late, spoilt>>

LeaveEdit ==
    /\ page.line # 0
    /\ page' = NewPage
    /\ Edit
    /\ UNCHANGED <<cartVars, rules, late, spoilt>>

(***************************************************************************)
(* The cart beside the page: the drawer of any tab, a checkout elsewhere.  *)
(***************************************************************************)
Beside == page' = Kept(page, cache'[Here]) /\ UNCHANGED <<rules, spoilt>>

TabReads(t) == ReadStore(t) /\ Beside /\ UNCHANGED <<late, edits>>

DrawerQuantity(t) ==
    /\ \E l \in cache[t], n \in 0..MaxQty : SetQuantity(t, LineKey(l), n)
    /\ Beside /\ Edit /\ UNCHANGED late

DrawerRemove(t) ==
    /\ \E l \in cache[t] : RemoveLine(t, LineKey(l))
    /\ Beside /\ Edit /\ UNCHANGED late

OrderPlaced(t) ==
    /\ ClearCart(t)
    /\ Beside /\ Edit /\ UNCHANGED late

\* requoteLine: asks for the line as the checkout has it, writes when answered.
CheckoutRequotes(t) ==
    /\ late = None
    /\ \E l \in cache[t] :
        /\ l.custom.size # None
        /\ late' = [tab |-> t, id |-> l.id, token |-> Quote(l.variant, l.custom, l.qty)]
    /\ Edit
    /\ UNCHANGED <<cartVars, rules, page, spoilt>>

RequoteAnswered ==
    /\ late # None /\ cache[late.tab] # None
    /\ late' = None
    /\ \/ SetQuote(late.tab, late.id, late.token)
       \/ /\ ~\E l \in WithId(cache[late.tab], late.id) : Fits(l, late.token)
          /\ Refused
    /\ Beside
    /\ UNCHANGED edits

(***************************************************************************)
(* The specification.                                                      *)
(***************************************************************************)
Init ==
    /\ rules \in Rulebook
    /\ CartInit
    /\ \A l \in store : ServerAccepts(rules, l.custom, l.variant = OwnSize, Measured(l.variant))
    /\ page = NewPage
    /\ late = None /\ spoilt = {} /\ edits = 0

Shopper ==
    \/ \E v \in Variants : ChooseSize(v)
    \/ ToggleOwnSize
    \/ \E s \in Typed \cup {None} : TypeSize(s)
    \/ \E x \in Texts \cup {None} : TypeText(x)
    \/ \E n \in 1..MaxQty : SetPageQuantity(n)
    \/ \E f \in Files : PickFile(f)
    \/ DropBadFile \/ Retry \/ KeepCurrent \/ CancelUpload \/ RemoveFile
    \/ Submit \/ LeaveEdit
    \/ \E l \in cache[Here] : OpenEdit(l)

Background == UploadGoesOn \/ UploadFails \/ UploadEnds \/ QuoteTimer \/ QuoteAnswered \/ QuoteFails

Elsewhere ==
    \E t \in Tabs :
        \/ TabReads(t)
        \/ cache[t] # None /\ (DrawerQuantity(t) \/ DrawerRemove(t))
        \/ t # Here /\ cache[t] # None /\ (OrderPlaced(t) \/ CheckoutRequotes(t))

Next ==
    \/ cache[Here] # None /\ (Shopper \/ Background)
    \/ Elsewhere
    \/ RequoteAnswered

Spec == Init /\ [][Next]_vars

\* The browser fires its timers and the price route answers or fails.
FairSpec == Spec /\ WF_vars(QuoteTimer) /\ WF_vars(QuoteAnswered)

(***************************************************************************)
(* Properties.                                                             *)
(***************************************************************************)
\* The calls that the page, the drawers and a checkout elsewhere make on the
\* cart are steps of the cart by itself, for which PageProofs proves its
\* invariants (product-purchase.tsx, cart-drawer.tsx, use-payment-session.ts).
\* It is CartSpec; that the cart changes is said first to spare TLC the calls.
ImplementsCart == CartInit /\ [][cartVars' # cartVars /\ CartNext]_cartVars

\* What the page lets a shopper add, the server takes: its checks and those of
\* validate-customization.ts, written apart, agree in every order of entries,
\* edits and uploads, but for a page whose entries a late upload undid and for
\* the edits of what it saved.
AddedIsAccepted ==
    \A l \in store :
        \/ LineKey(l) \in spoilt
        \/ ServerAccepts(rules, l.custom, l.variant = OwnSize, Measured(l.variant))

\* An edit opens on the line as it was saved: saved again untouched it is the
\* same piece (configurationFromCartLine, lineItemCustomization).
EditOpensAsSaved ==
    \A l \in store :
        \/ LineKey(l) \in spoilt
        \/ LET p == EditPage(l) IN p.selected = l.variant /\ Payload(rules, p.draft) = l.custom

\* The price on the button is of what the page would add (use-price-quote.ts).
ButtonPriceIsOfTheLine ==
    CanAdd(page) => page.fetched.key = Quote(page.selected, Payload(rules, page.draft), page.qty)

\* A price that is being fetched comes or fails, whatever was edited meanwhile.
PriceComes == QuoteStatus(page) = "loading" ~> QuoteStatus(page) # "loading"

================================================================================
