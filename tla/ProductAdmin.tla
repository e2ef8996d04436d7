----------------------------- MODULE ProductAdmin -----------------------------
(***************************************************************************)
(* A product and the requests of the owner's browser tabs that change it:  *)
(* the customization widget, the dashboard's metadata editor, publishing   *)
(* and unpublishing, and the option value that means a custom size, which  *)
(* the dashboard adds and deletes without asking the guards.               *)
(*                                                                         *)
(* An update is four steps that other requests come between.  The widget   *)
(* reads the product anew and builds the body; the middleware checks the   *)
(* stored product with the body merged over it; Medusa's workflow merges   *)
(* and writes; the hook checks what was written and, when it refuses,      *)
(* Medusa puts back what the write replaced.                               *)
(*                                                                         *)
(* Metadata is abstracted as Customization says.  other stands for the     *)
(* keys that no widget owns.  Bounds: MaxSaves requests.                   *)
(***************************************************************************)
EXTENDS Customization

CONSTANTS
    Clients,
    Forms,      \* what the owner may have entered in the widget
    Bodies,     \* what the metadata editor may send: [keys, meta]
    Products,   \* the products at rest to begin with
    MaxSaves

WidgetKeys == {"flag", "inputs", "bounds", "names", "price", "limit", "minimum"}

ASSUME AdminAssumption ==
    /\ IsFiniteSet(Clients) /\ MaxSaves \in Nat
    /\ \A b \in Bodies : b.keys \subseteq DOMAIN b.meta
    /\ \A p \in Products :
        /\ p = [status |-> p.status, offersCustom |-> p.offersCustom, meta |-> p.meta]
        /\ p.meta = [k \in WidgetKeys \cup {"other"} |-> p.meta[k]]
        /\ Declared(p.meta, p.status = "published")

VARIABLES
    product,    \* [status, meta, offersCustom]
    seen,       \* the metadata that each tab's widget loaded
    req,        \* each tab's request
    raced,      \* history: tabs whose save was overtaken after its reading
    crossed,    \* history: a refusal put a value back over a later write
    saves

adminVars == <<product, seen, req, raced, crossed, saves>>

Merge(meta, body) ==
    [k \in DOMAIN meta |-> IF k \in body.keys THEN body.meta[k] ELSE meta[k]]

(***************************************************************************)
(* The widget's form.                                                      *)
(***************************************************************************)
FormOf(meta) ==
    LET c == Resolve(meta)
    IN  [customizable |-> c.customizable, inputs |-> c.inputs,
         bounds  |-> IF c.inputs["size"] = "off" THEN "blank" ELSE c.bounds,
         names   |-> c.names, price |-> c.price,
         limit   |-> IF c.inputs["text"] = "off" THEN "blank" ELSE c.limit,
         minimum |-> IF meta.minimum = "own" THEN "own" ELSE "blank"]

\* A bound left blank is the number 0.
DraftSettings(f) ==
    [customizable |-> f.customizable, inputs |-> f.inputs,
     bounds |-> IF f.bounds \in {"blank", "half"} THEN "odd" ELSE f.bounds,
     names |-> f.names, price |-> ReadPrice(f.price), limit |-> ReadLimit(f.limit)]

\* The body is the metadata just read with the settings over it.
WidgetBody(f, fresh) ==
    LET p == Patch(DraftSettings(f))
    IN  [keys |-> DOMAIN fresh,
         meta |-> [k \in DOMAIN fresh |->
                    CASE k = "minimum" -> f.minimum
                      [] k = "other"   -> fresh.other
                      [] OTHER         -> p[k]]]

(***************************************************************************)
(* The guards, of the middleware and of the hook.                          *)
(***************************************************************************)
Published(p) == p.status = "published"

Merged(p, r) == [p EXCEPT !.meta = Merge(@, r.body), !.status = IF r.status = None THEN @ ELSE r.status]

DeclaredBy(p) == Declared(p.meta, Published(p))

OptionHeldBy(p) == OptionHeld(p.meta, p.offersCustom, Published(p))

(***************************************************************************)
(* The requests.                                                           *)
(***************************************************************************)
NoBody(meta) == [keys |-> {}, meta |-> meta]

Idle == [stage |-> "none"]

Sent(c, body, status) ==
    /\ req[c].stage = "none" /\ saves < MaxSaves
    /\ req' = [req EXCEPT ![c] = [stage |-> "sent", body |-> body, status |-> status]]
    /\ saves' = saves + 1
    /\ raced' = raced \ {c}
    /\ UNCHANGED <<product, crossed>>

\* The widget loads, at its mount and again after a save.
LoadWidget(c) ==
    /\ req[c].stage = "none" /\ seen[c] # product.meta
    /\ seen' = [seen EXCEPT ![c] = product.meta]
    /\ UNCHANGED <<product, req, raced, crossed, saves>>

SaveCopy(c) ==
    /\ seen[c] # None
    /\ \E f \in Forms \cup {FormOf(seen[c])} : Sent(c, WidgetBody(f, seen[c]), None)
    /\ UNCHANGED seen

Save(c) ==
    /\ seen[c] # None
    /\ \E f \in Forms \cup {FormOf(seen[c])} : Sent(c, WidgetBody(f, product.meta), None)
    /\ UNCHANGED seen

EditMetadata(c) ==
    /\ \E b \in Bodies : Sent(c, b, None)
    /\ UNCHANGED seen

SetStatus(c) ==
    /\ \E s \in {"draft", "published"} \ {product.status} : Sent(c, NoBody(product.meta), s)
    /\ UNCHANGED seen

\* validateProductUpdate.
Check(c) ==
    LET merged == Merged(product, req[c])
    IN  /\ req[c].stage = "sent"
        /\ req' = [req EXCEPT ![c] = IF DeclaredBy(merged) /\ OptionHeldBy(merged)
                                     THEN [@ EXCEPT !.stage = "checked"] ELSE Idle]
        /\ UNCHANGED <<product, seen, raced, crossed, saves>>

\* updateProductsWorkflow, its step.
WriteProduct(c) ==
    /\ req[c].stage = "checked"
    /\ product' = Merged(product, req[c])
    /\ req' = [req EXCEPT ![c] = [stage |-> "written", body |-> req[c].body, status |-> req[c].status,
                                  before |-> product, result |-> Merged(product, req[c])]]
    /\ raced' = raced \cup {d \in Clients \ {c} : req[d].stage # "none"}
    /\ UNCHANGED <<seen, crossed, saves>>

\* updateProductsWorkflow's hook: the written product, and its options as they
\* are now.
HookAfterOptionsOnly(c) == OptionHeldBy(product)

HookHolds(c) == DeclaredBy(req[c].result) /\ OptionHeldBy(product)

PutBack(c) ==
    LET r == req[c]
    IN  [product EXCEPT !.meta = Merge(@, [keys |-> r.body.keys, meta |-> r.before.meta]),
                        !.status = IF r.status = None THEN @ ELSE r.before.status]

Hook(c) ==
    /\ req[c].stage = "written"
    /\ req' = [req EXCEPT ![c] = Idle]
    /\ IF HookHolds(c) THEN UNCHANGED <<product, raced, crossed>>
       ELSE /\ product' = PutBack(c)
            /\ crossed' = (crossed \/ [product EXCEPT !.offersCustom = req[c].result.offersCustom]
                                        # req[c].result)
            /\ raced' = raced \cup {d \in Clients \ {c} : req[d].stage # "none"}
    /\ UNCHANGED <<seen, saves>>

\* Outside the guards: the option's values are not the product's fields.
ChangeOption ==
    /\ saves < MaxSaves /\ saves' = saves + 1
    /\ product' = [product EXCEPT !.offersCustom = ~@]
    /\ UNCHANGED <<seen, req, raced, crossed>>

(***************************************************************************)
(* The specification.                                                      *)
(***************************************************************************)
AdminInit ==
    /\ product \in Products
    /\ seen = [c \in Clients |-> None]
    /\ req = [c \in Clients |-> Idle]
    /\ raced = {} /\ crossed = FALSE /\ saves = 0

AdminNext ==
    \/ \E c \in Clients :
        \/ LoadWidget(c) \/ Save(c) \/ EditMetadata(c) \/ SetStatus(c)
        \/ Check(c) \/ WriteProduct(c) \/ Hook(c)
    \/ ChangeOption

AdminSpec == AdminInit /\ [][AdminNext]_adminVars

(***************************************************************************)
(* Properties.                                                             *)
(***************************************************************************)
Resting == \A c \in Clients : req[c].stage # "written"

\* A published product asks for something, and a custom size it asks for can be
\* priced and is told from a preset: two saves and a publication that pass the
\* middleware beside each other are caught by the hook.  A refusal that puts
\* back over a later write is the exception, and so is the option's deletion,
\* which this does not speak of (validate-products.ts, middlewares.ts).
PublishedIsPriceable ==
    LET c == Resolve(product.meta)
    IN  Resting /\ ~crossed /\ Published(product) /\ c.customizable =>
            /\ \E i \in Inputs : c.inputs[i] # "off"
            /\ c.inputs["size"] # "off" => c.names = "both" /\ c.price = "both"

\* A save of the widget, or a publication, leaves what another editor wrote,
\* unless that was written after the save had read the product: the copy that
\* the widget loaded may be older than the metadata editor's last save.
KeepsWhatOthersWrote ==
    [][\A c \in Clients :
        /\ req[c].stage = "checked" /\ req'[c].stage = "written"
        /\ req[c].body \notin Bodies
        => c \in raced \/ product'.meta.other = product.meta.other]_adminVars

\* What a product asks for and at which terms, whatever is written under inputs
\* that are off.
Terms(meta) ==
    LET c == Resolve(meta)
    IN  [inputs |-> c.inputs,
         size   |-> IF c.inputs["size"] = "off" THEN None ELSE <<c.bounds, c.names, c.price>>,
         limit  |-> IF c.inputs["text"] = "off" THEN None ELSE c.limit,
         least  |-> meta.minimum = "own"]

\* The form opened and saved untouched asks the shopper for the same at the same
\* terms: reading the metadata and writing it are inverse as far as it matters.
UntouchedSaveChangesNothing ==
    Terms(Merge(product.meta, WidgetBody(FormOf(product.meta), product.meta))) = Terms(product.meta)

================================================================================
