------------------------------- MODULE OfficeProofs -------------------------------
(***************************************************************************)
(* What holds of the owner's and the customer's small parts, for any       *)
(* number of tabs, any products, parcels and addresses: what a published   *)
(* product asks for (ProductAdmin), what a label is bought for             *)
(* (ShippingDesk), and what fills a checkout in (Account).                 *)
(***************************************************************************)
EXTENDS ProductAdmin, ShippingDesk, Account, FiniteSetTheorems, TLAPS

(***************************************************************************)
(* The product widget.  An update that was written and whose hook has not  *)
(* run leads from the value it found to the value it left.  While nothing  *)
(* has crossed, the pending updates are a trail that ends at the product:  *)
(* into a value that the guards would refuse there lead as many of them as *)
(* out of it, and one more where the product is.  A refusal goes back over *)
(* the last of them, and a hook that passes leads into no such value.      *)
(***************************************************************************)
Fields == WidgetKeys \cup {"other"}

ProductShaped(p) ==
    /\ p = [status |-> p.status, offersCustom |-> p.offersCustom, meta |-> p.meta]
    /\ p.meta = [k \in Fields |-> p.meta[k]]

RequestShaped(r) ==
    /\ r.stage \in {"none", "sent", "checked", "written"}
    /\ r.stage \in {"sent", "checked"} =>
        r = [stage |-> r.stage, body |-> r.body, status |-> r.status]
    /\ r.stage = "written" => ProductShaped(r.before) /\ r.result = Merged(r.before, r)

AdminShaped ==
    /\ ProductShaped(product)
    /\ req = [c \in Clients |-> req[c]]
    /\ \A c \in Clients : RequestShaped(req[c])

\* What the guards look at, but for the option.
Value(p) == <<p.meta, p.status>>

Bad(v) == ~Declared(v[1], v[2] = "published")

Into(v)  == {c \in Clients : req[c].stage = "written" /\ Value(req[c].result) = v}
OutOf(v) == {c \in Clients : req[c].stage = "written" /\ Value(req[c].before) = v}

Stands(v) == IF Value(product) = v THEN 1 ELSE 0

Trail(v) == Bad(v) => Cardinality(OutOf(v)) + Stands(v) <= Cardinality(Into(v))

Trails == ~crossed => \A v : Trail(v)

\* A body that no metadata editor sent has the product's other keys, unless
\* another update came between.
OthersKnown ==
    \A c \in Clients :
        /\ req[c].stage \in {"sent", "checked"}
        /\ req[c].body \notin Bodies
        /\ c \notin raced /\ "other" \in req[c].body.keys
        => req[c].body.meta.other = product.meta.other

AdminInv == AdminShaped /\ Trails /\ OthersKnown


\* Tabs counted.
LEMMA TabsCounted ==
    ASSUME NEW S, S \subseteq Clients
    PROVE  IsFiniteSet(S) /\ Cardinality(S) \in Nat
BY AdminAssumption, FS_Subset, FS_CardinalityType

\* A tab that joins a set of tabs is one more, one that leaves it one fewer.
LEMMA TabJoins ==
    ASSUME NEW S, S \subseteq Clients, NEW c \in Clients \ S
    PROVE  Cardinality(S \cup {c}) = Cardinality(S) + 1
BY TabsCounted, FS_AddElement

LEMMA TabLeaves ==
    ASSUME NEW S, S \subseteq Clients, NEW c \in S
    PROVE  Cardinality(S \ {c}) = Cardinality(S) - 1
BY TabsCounted, FS_RemoveElement

\* Writing over a product leaves it a product: the keys it has are kept.
LEMMA MergeShaped ==
    ASSUME NEW p, ProductShaped(p), NEW r
    PROVE  /\ ProductShaped(Merged(p, r))
           /\ Merged(p, r).offersCustom = p.offersCustom
           /\ Merged(p, r).meta = Merge(p.meta, r.body)
           /\ Merged(p, r).status = IF r.status = None THEN p.status ELSE r.status
<1>1. p = [status |-> p.status, offersCustom |-> p.offersCustom, meta |-> p.meta]
  BY DEF ProductShaped
<1> DEFINE status == IF r.status = None THEN p.status ELSE r.status
           meta   == Merge(p.meta, r.body)
           over   == [p EXCEPT !.meta = meta]
<1>2. Merged(p, r) = [status |-> status, offersCustom |-> p.offersCustom, meta |-> meta]
  <2>1. Merged(p, r) = [over EXCEPT !.status = status]
    BY Zenon DEF Merged
  <2> HIDE DEF meta, status
  <2>2. over = [status |-> p.status, offersCustom |-> p.offersCustom, meta |-> meta]
    BY <1>1
  <2> HIDE DEF over
  <2> QED
    BY <2>1, <2>2
<1>3. p.meta = [k \in Fields |-> p.meta[k]]
  BY DEF ProductShaped
<1>4. Merge(p.meta, r.body) = [k \in Fields |-> Merge(p.meta, r.body)[k]]
  BY <1>3 DEF Merge
<1> QED
  BY <1>2, <1>4 DEF ProductShaped

(***************************************************************************)
(* The steps, of the requests first.                                       *)
(***************************************************************************)
\* A request that changes its stage, none of whose updates is pending, leaves
\* the trail as it is.
LEMMA TrailsStay ==
    ASSUME AdminInv, Value(product') = Value(product), crossed' = crossed,
           \A d \in Clients : req'[d].stage = "written" \/ req[d].stage = "written" => req'[d] = req[d]
    PROVE  Trails'
<1>1. ASSUME NEW v PROVE Into(v)' = Into(v) /\ OutOf(v)' = OutOf(v) /\ Stands(v)' = Stands(v)
  BY DEF Into, OutOf, Stands
<1>2. ASSUME NEW v PROVE Trail(v)' <=> Trail(v)
  BY <1>1 DEF Trail
<1> QED
  BY <1>2 DEF Trails, AdminInv

\* Sending.
LEMMA SentKeeps ==
    ASSUME AdminAssumption, AdminInv, NEW c \in Clients, NEW body, NEW status, Sent(c, body, status),
           body \notin Bodies /\ "other" \in body.keys => body.meta.other = product.meta.other
    PROVE  AdminInv'
<1>1. /\ req[c].stage = "none" /\ product' = product /\ crossed' = crossed
      /\ req' = [req EXCEPT ![c] = [stage |-> "sent", body |-> body, status |-> status]]
      /\ raced' = raced \ {c}
  BY DEF Sent
<1>2. req = [d \in Clients |-> req[d]]
  BY DEF AdminInv, AdminShaped
<1>3. /\ req'[c] = [stage |-> "sent", body |-> body, status |-> status]
      /\ \A d \in Clients \ {c} : req'[d] = req[d]
      /\ req' = [d \in Clients |-> req'[d]]
  BY <1>1, <1>2
<1>4. AdminShaped'
  <2>1. RequestShaped(req'[c])
    BY <1>3 DEF RequestShaped
  <2> QED
    BY <1>1, <1>3, <2>1 DEF AdminInv, AdminShaped
<1>5. Trails'
  BY <1>1, <1>3, TrailsStay
<1>6. OthersKnown'
  BY <1>1, <1>3 DEF AdminInv, OthersKnown
<1> QED
  BY <1>4, <1>5, <1>6 DEF AdminInv

LEMMA SaveKeeps ==
    ASSUME AdminAssumption, AdminInv, NEW c \in Clients, Save(c)
    PROVE  AdminInv'
<1>1. PICK f : Sent(c, WidgetBody(f, product.meta), None)
  BY DEF Save
<1>2. product.meta = [k \in Fields |-> product.meta[k]] /\ "other" \in Fields
  BY DEF AdminInv, AdminShaped, ProductShaped, Fields
<1>3. DOMAIN product.meta = Fields
  BY <1>2
<1>4. WidgetBody(f, product.meta).meta.other = product.meta.other
  BY <1>2, <1>3 DEF WidgetBody
<1> QED
  BY <1>1, <1>4, SentKeeps

LEMMA EditMetadataKeeps ==
    ASSUME AdminAssumption, AdminInv, NEW c \in Clients, EditMetadata(c)
    PROVE  AdminInv'
BY SentKeeps DEF EditMetadata

LEMMA SetStatusKeeps ==
    ASSUME AdminAssumption, AdminInv, NEW c \in Clients, SetStatus(c)
    PROVE  AdminInv'
BY SentKeeps DEF SetStatus, NoBody

LEMMA CheckKeeps ==
    ASSUME AdminAssumption, AdminInv, NEW c \in Clients, Check(c)
    PROVE  AdminInv'
<1>1. /\ req[c].stage = "sent" /\ product' = product /\ crossed' = crossed /\ raced' = raced
      /\ \/ req' = [req EXCEPT ![c] = [@ EXCEPT !.stage = "checked"]]
         \/ req' = [req EXCEPT ![c] = Idle]
  BY DEF Check
<1>2. req = [d \in Clients |-> req[d]] /\ RequestShaped(req[c])
  BY DEF AdminInv, AdminShaped
<1>3. /\ \A d \in Clients \ {c} : req'[d] = req[d]
      /\ req' = [d \in Clients |-> req'[d]]
  BY <1>1, <1>2
<1>4. CASE req' = [req EXCEPT ![c] = Idle]
  <2>1. req'[c] = Idle
    BY <1>2, <1>4
  <2>2. AdminShaped'
    BY <1>1, <1>3, <2>1 DEF AdminInv, AdminShaped, RequestShaped, Idle
  <2>3. Trails'
    BY <1>1, <1>3, <2>1, TrailsStay DEF Idle
  <2>4. OthersKnown'
    BY <1>1, <1>3, <2>1 DEF AdminInv, OthersKnown, Idle
  <2> QED
    BY <2>2, <2>3, <2>4 DEF AdminInv
<1>5. CASE req' = [req EXCEPT ![c] = [@ EXCEPT !.stage = "checked"]]
  <2>1. req[c] = [stage |-> req[c].stage, body |-> req[c].body, status |-> req[c].status]
    BY <1>1, <1>2 DEF RequestShaped
  <2>2. req'[c] = [stage |-> "checked", body |-> req[c].body, status |-> req[c].status]
    BY <1>2, <1>5, <2>1
  <2>3. AdminShaped'
    <3>1. RequestShaped(req'[c])
      BY <2>2 DEF RequestShaped
    <3> QED
      BY <1>1, <1>3, <3>1 DEF AdminInv, AdminShaped
  <2>4. Trails'
    BY <1>1, <1>3, <2>2, TrailsStay
  <2>5. OthersKnown'
    BY <1>1, <1>3, <2>2 DEF AdminInv, OthersKnown
  <2> QED
    BY <2>3, <2>4, <2>5 DEF AdminInv
<1> QED
  BY <1>1, <1>4, <1>5

\* A write joins the trail where the product is, and leads on from there.
LEMMA WriteProductKeeps ==
    ASSUME AdminAssumption, AdminInv, NEW c \in Clients, WriteProduct(c)
    PROVE  AdminInv'
<1> DEFINE r == req[c]
           over == Merged(product, r)
<1>1. /\ r.stage = "checked" /\ product' = over /\ crossed' = crossed
      /\ req' = [req EXCEPT ![c] = [stage |-> "written", body |-> r.body, status |-> r.status,
                                    before |-> product, result |-> over]]
      /\ raced' = raced \cup {d \in Clients \ {c} : req[d].stage # "none"}
  BY DEF WriteProduct
<1>2. req = [d \in Clients |-> req[d]] /\ ProductShaped(product)
  BY DEF AdminInv, AdminShaped
<1>3. ProductShaped(over)
  BY <1>2, MergeShaped
<1> HIDE DEF over
<1>4. /\ req'[c] = [stage |-> "written", body |-> r.body, status |-> r.status,
                    before |-> product, result |-> over]
      /\ \A d \in Clients \ {c} : req'[d] = req[d]
      /\ req' = [d \in Clients |-> req'[d]]
  BY <1>1, <1>2
<1>5. AdminShaped'
  <2>1. over = Merged(product, req'[c])
    BY <1>4 DEF over, Merged
  <2>2. RequestShaped(req'[c])
    BY <1>2, <1>4, <2>1 DEF RequestShaped
  <2> QED
    BY <1>1, <1>3, <1>4, <2>2 DEF AdminInv, AdminShaped
<1>6. ASSUME ~crossed, NEW v PROVE Trail(v)'
  <2>1. /\ Into(v) \subseteq Clients /\ OutOf(v) \subseteq Clients
        /\ c \notin Into(v) /\ c \notin OutOf(v)
    BY <1>1 DEF Into, OutOf
  <2>2. Into(v)' = IF Value(over) = v THEN Into(v) \cup {c} ELSE Into(v)
    BY <1>1, <1>4 DEF Into
  <2>3. OutOf(v)' = IF Value(product) = v THEN OutOf(v) \cup {c} ELSE OutOf(v)
    BY <1>1, <1>4 DEF OutOf
  <2>4. Stands(v)' = IF Value(over) = v THEN 1 ELSE 0
    BY <1>1 DEF Stands
  <2>5. Cardinality(Into(v))' = Cardinality(Into(v)) + (IF Value(over) = v THEN 1 ELSE 0)
    BY <2>1, <2>2, TabJoins, TabsCounted
  <2>6. Cardinality(OutOf(v))' = Cardinality(OutOf(v)) + Stands(v)
    BY <2>1, <2>3, TabJoins, TabsCounted DEF Stands
  <2>7. Cardinality(Into(v)) \in Nat /\ Cardinality(OutOf(v)) \in Nat
    BY <2>1, TabsCounted
  <2>8. Bad(v) => Cardinality(OutOf(v)) + Stands(v) <= Cardinality(Into(v))
    BY <1>6 DEF AdminInv, Trails, Trail
  <2>9. Stands(v) \in {0, 1}
    BY DEF Stands
  <2> QED
    BY <2>4, <2>5, <2>6, <2>7, <2>8, <2>9 DEF Trail
<1>7. Trails'
  BY <1>1, <1>6 DEF Trails
<1>8. OthersKnown'
  BY <1>1, <1>4 DEF AdminInv, OthersKnown
<1> QED
  BY <1>5, <1>7, <1>8 DEF AdminInv

\* A hook that holds takes its update off the trail, which led into no value
\* the guards would refuse.
LEMMA HookHoldsKeeps ==
    ASSUME AdminAssumption, AdminInv, NEW c \in Clients, Hook(c), HookHolds(c)
    PROVE  AdminInv'
<1>1. /\ req[c].stage = "written" /\ product' = product /\ crossed' = crossed /\ raced' = raced
      /\ req' = [req EXCEPT ![c] = Idle]
  BY DEF Hook
<1>2. req = [d \in Clients |-> req[d]]
  BY DEF AdminInv, AdminShaped
<1>3. /\ req'[c] = Idle /\ Idle.stage = "none"
      /\ \A d \in Clients \ {c} : req'[d] = req[d]
      /\ req' = [d \in Clients |-> req'[d]]
  BY <1>1, <1>2 DEF Idle
<1>4. AdminShaped'
  BY <1>1, <1>3 DEF AdminInv, AdminShaped, RequestShaped
<1>5. ~Bad(Value(req[c].result))
  BY DEF HookHolds, DeclaredBy, Published, Bad, Value
<1>6. ASSUME ~crossed, NEW v, Bad(v) PROVE Trail(v)'
  <2>1. /\ Into(v) \subseteq Clients /\ OutOf(v) \subseteq Clients /\ OutOf(v)' \subseteq OutOf(v)
    BY <1>3 DEF Into, OutOf
  <2>2. Into(v)' = Into(v)
    BY <1>3, <1>5, <1>6 DEF Into
  <2>3. Stands(v)' = Stands(v) /\ Stands(v) \in {0, 1}
    BY <1>1 DEF Stands
  <2>4. /\ Cardinality(OutOf(v)') <= Cardinality(OutOf(v))
        /\ Cardinality(OutOf(v)') \in Nat /\ Cardinality(OutOf(v)) \in Nat
        /\ Cardinality(Into(v)) \in Nat
    <3> DEFINE out == OutOf(v)' before == OutOf(v)
    <3>1. out \subseteq before /\ out \subseteq Clients /\ before \subseteq Clients
      BY <2>1
    <3>2. Cardinality(Into(v)) \in Nat
      BY <2>1, TabsCounted
    <3> HIDE DEF out, before
    <3>3. Cardinality(out) <= Cardinality(before)
      BY <3>1, FS_Subset, TabsCounted
    <3> QED
      BY <3>1, <3>2, <3>3, TabsCounted DEF out, before
  <2>5. Cardinality(OutOf(v)) + Stands(v) <= Cardinality(Into(v))
    BY <1>6 DEF AdminInv, Trails, Trail
  <2>6. Cardinality(OutOf(v))' + Stands(v)' <= Cardinality(Into(v))'
    BY <2>2, <2>3, <2>4, <2>5
  <2> QED
    BY <2>6 DEF Trail
<1>7. Trails'
  BY <1>1, <1>6 DEF Trails, Trail
<1>8. OthersKnown'
  BY <1>1, <1>3 DEF AdminInv, OthersKnown
<1> QED
  BY <1>4, <1>7, <1>8 DEF AdminInv

\* A refusal that crosses nothing puts the product back to where its update
\* began.
LEMMA PutBackReturns ==
    ASSUME AdminInv, NEW c \in Clients, req[c].stage = "written"
    PROVE  /\ ProductShaped(PutBack(c))
           /\ [product EXCEPT !.offersCustom = req[c].result.offersCustom] = req[c].result =>
                /\ Value(product) = Value(req[c].result)
                /\ Value(PutBack(c)) = Value(req[c].before)
<1> DEFINE r == req[c]
           old == [keys |-> r.body.keys, meta |-> r.before.meta]
           meta == Merge(product.meta, old)
           status == IF r.status = None THEN product.status ELSE r.before.status
           half == [product EXCEPT !.meta = meta]
<1>1. /\ ProductShaped(product) /\ RequestShaped(r) /\ ProductShaped(r.before)
      /\ r.result = Merged(r.before, r)
  BY DEF AdminInv, AdminShaped, RequestShaped
<1>2. product = [status |-> product.status, offersCustom |-> product.offersCustom, meta |-> product.meta]
  BY <1>1 DEF ProductShaped
<1>3. PutBack(c) = [status |-> status, offersCustom |-> product.offersCustom, meta |-> meta]
  <2>1. PutBack(c) = [half EXCEPT !.status = status]
    BY Zenon DEF PutBack
  <2> HIDE DEF meta, status
  <2>2. half = [status |-> product.status, offersCustom |-> product.offersCustom, meta |-> meta]
    BY <1>2
  <2> HIDE DEF half
  <2> QED
    BY <2>1, <2>2
<1>4. meta = [k \in Fields |-> meta[k]]
  <2>1. product.meta = [k \in Fields |-> product.meta[k]]
    BY <1>1 DEF ProductShaped
  <2> QED
    BY <2>1 DEF Merge
<1>5. ProductShaped(PutBack(c))
  <2> HIDE DEF meta, status
  <2> QED
    BY <1>3, <1>4 DEF ProductShaped
<1>6. ASSUME [product EXCEPT !.offersCustom = r.result.offersCustom] = r.result
      PROVE  Value(product) = Value(r.result) /\ Value(PutBack(c)) = Value(r.before)
  <2>1. product.meta = r.result.meta /\ product.status = r.result.status
    <3> DEFINE other == r.result.offersCustom
               mixed == [product EXCEPT !.offersCustom = other]
    <3>1. mixed = r.result
      BY <1>6
    <3> HIDE DEF other
    <3>2. mixed.meta = product.meta /\ mixed.status = product.status
      BY <1>2
    <3> QED
      BY <3>1, <3>2
  <2>2. /\ product.meta = Merge(r.before.meta, r.body)
        /\ product.status = IF r.status = None THEN r.before.status ELSE r.status
    <3>1. /\ Merged(r.before, r).meta = Merge(r.before.meta, r.body)
          /\ Merged(r.before, r).status = IF r.status = None THEN r.before.status ELSE r.status
      <4> DEFINE before == r.before
                 ask == r
      <4>1. ProductShaped(before)
        BY <1>1
      <4> HIDE DEF before, ask
      <4>2. /\ Merged(before, ask).meta = Merge(before.meta, ask.body)
            /\ Merged(before, ask).status = IF ask.status = None THEN before.status ELSE ask.status
        BY <4>1, MergeShaped
      <4> QED
        BY <4>2 DEF before, ask
    <3>2. r.result.meta = Merged(r.before, r).meta /\ r.result.status = Merged(r.before, r).status
      BY <1>1
    <3> QED
      BY <2>1, <3>1, <3>2
  <2>3. meta = r.before.meta
    <3>1. r.before.meta = [k \in Fields |-> r.before.meta[k]]
      BY <1>1 DEF ProductShaped
    <3>2. product.meta = [k \in Fields |-> IF k \in r.body.keys THEN r.body.meta[k] ELSE r.before.meta[k]]
      BY <2>2, <3>1 DEF Merge
    <3>3. meta = [k \in Fields |-> IF k \in r.body.keys THEN r.before.meta[k] ELSE product.meta[k]]
      BY <3>2 DEF Merge
    <3> QED
      BY <3>1, <3>2, <3>3
  <2>4. status = r.before.status
    BY <2>2
  <2>5. PutBack(c).meta = r.before.meta /\ PutBack(c).status = r.before.status
    <3> HIDE DEF meta, status
    <3> QED
      BY <1>3, <2>3, <2>4
  <2> QED
    BY <2>1, <2>5 DEF Value
<1> QED
  BY <1>5, <1>6

\* So it goes back one step of the trail.
LEMMA HookRefusesKeeps ==
    ASSUME AdminAssumption, AdminInv, NEW c \in Clients, Hook(c), ~HookHolds(c)
    PROVE  AdminInv'
<1> DEFINE same == [product EXCEPT !.offersCustom = req[c].result.offersCustom] = req[c].result
<1>1. /\ req[c].stage = "written" /\ product' = PutBack(c)
      /\ crossed' = (crossed \/ ~same)
      /\ req' = [req EXCEPT ![c] = Idle]
      /\ raced' = raced \cup {d \in Clients \ {c} : req[d].stage # "none"}
  BY DEF Hook
<1>2. req = [d \in Clients |-> req[d]]
  BY DEF AdminInv, AdminShaped
<1>3. /\ req'[c] = Idle /\ Idle.stage = "none"
      /\ \A d \in Clients \ {c} : req'[d] = req[d]
      /\ req' = [d \in Clients |-> req'[d]]
  BY <1>1, <1>2 DEF Idle
<1>4. AdminShaped'
  BY <1>1, <1>3, PutBackReturns DEF AdminInv, AdminShaped, RequestShaped
<1>5. same => Value(product) = Value(req[c].result) /\ Value(product') = Value(req[c].before)
  BY <1>1, PutBackReturns
<1> HIDE DEF same
<1>6. ASSUME ~crossed', NEW v PROVE Trail(v)'
  <2>1. /\ Into(v) \subseteq Clients /\ OutOf(v) \subseteq Clients
    BY DEF Into, OutOf
  <2>2. Value(product) = Value(req[c].result) /\ Value(product') = Value(req[c].before) /\ ~crossed
    BY <1>1, <1>5, <1>6
  <2>3. Into(v)' = IF Value(product) = v THEN Into(v) \ {c} ELSE Into(v)
    BY <1>3, <2>2 DEF Into
  <2>4. OutOf(v)' = IF Value(product') = v THEN OutOf(v) \ {c} ELSE OutOf(v)
    BY <1>3, <2>2 DEF OutOf
  <2>5. /\ Value(product) = v => c \in Into(v)
        /\ Value(product') = v => c \in OutOf(v)
    BY <1>1, <2>2 DEF Into, OutOf
  <2>6. Cardinality(Into(v))' = Cardinality(Into(v)) - Stands(v)
    BY <2>1, <2>3, <2>5, TabLeaves, TabsCounted DEF Stands
  <2>7. Cardinality(OutOf(v))' = Cardinality(OutOf(v)) - Stands(v)'
    BY <2>1, <2>4, <2>5, TabLeaves, TabsCounted DEF Stands
  <2>8. Cardinality(Into(v)) \in Nat /\ Cardinality(OutOf(v)) \in Nat
    BY <2>1, TabsCounted
  <2>9. Bad(v) => Cardinality(OutOf(v)) + Stands(v) <= Cardinality(Into(v))
    BY <2>2 DEF AdminInv, Trails, Trail
  <2>10. Stands(v) \in {0, 1} /\ Stands(v)' \in {0, 1}
    BY DEF Stands
  <2> QED
    BY <2>6, <2>7, <2>8, <2>9, <2>10 DEF Trail
<1>7. Trails'
  BY <1>6 DEF Trails
<1>8. OthersKnown'
  BY <1>1, <1>3 DEF AdminInv, OthersKnown
<1> QED
  BY <1>4, <1>7, <1>8 DEF AdminInv

LEMMA LoadWidgetKeeps ==
    ASSUME AdminInv, product' = product, req' = req, raced' = raced, crossed' = crossed
    PROVE  AdminInv'
BY DEF AdminInv, AdminShaped, Trails, Trail, Into, OutOf, Stands, OthersKnown

LEMMA ChangeOptionKeeps ==
    ASSUME AdminInv, ChangeOption
    PROVE  AdminInv'
<1>1. /\ product' = [product EXCEPT !.offersCustom = ~@]
      /\ req' = req /\ raced' = raced /\ crossed' = crossed
  BY DEF ChangeOption
<1>2. product' = [status |-> product.status, offersCustom |-> product'.offersCustom, meta |-> product.meta]
  <2> DEFINE offers == ~product.offersCustom
  <2>1. product' = [product EXCEPT !.offersCustom = offers]
    BY <1>1
  <2> HIDE DEF offers
  <2>2. product = [status |-> product.status, offersCustom |-> product.offersCustom, meta |-> product.meta]
    BY DEF AdminInv, AdminShaped, ProductShaped
  <2> QED
    BY <2>1, <2>2
<1>3. ProductShaped(product')
  BY <1>2 DEF AdminInv, AdminShaped, ProductShaped
<1>4. Value(product') = Value(product)
  BY <1>2 DEF Value
<1>5. Trails'
  BY <1>1, <1>4, TrailsStay
<1>6. product'.meta = product.meta
  BY <1>2
<1> QED
  BY <1>1, <1>3, <1>5, <1>6 DEF AdminInv, AdminShaped, OthersKnown

LEMMA AdminStepKeeps ==
    ASSUME AdminAssumption, AdminInv, [AdminNext]_adminVars
    PROVE  AdminInv'
<1>1. ASSUME NEW c \in Clients, LoadWidget(c) PROVE AdminInv'
  BY <1>1, LoadWidgetKeeps DEF LoadWidget
<1>2. ASSUME NEW c \in Clients, Hook(c) PROVE AdminInv'
  BY <1>2, HookHoldsKeeps, HookRefusesKeeps
<1>3. CASE UNCHANGED adminVars
  BY <1>3, LoadWidgetKeeps DEF adminVars
<1> QED
  BY <1>1, <1>2, <1>3, SaveKeeps, EditMetadataKeeps, SetStatusKeeps, CheckKeeps, WriteProductKeeps,
     ChangeOptionKeeps DEF AdminNext

LEMMA AdminStarts ==
    ASSUME AdminAssumption, AdminInit
    PROVE  AdminInv
<1>1. /\ ProductShaped(product) /\ ~Bad(Value(product))
      /\ req = [c \in Clients |-> Idle] /\ Idle.stage = "none"
  BY AdminAssumption DEF AdminInit, ProductShaped, Fields, Bad, Value, Idle
<1>2. AdminShaped /\ OthersKnown
  BY <1>1 DEF AdminShaped, OthersKnown, RequestShaped
<1>3. ASSUME NEW v PROVE Trail(v)
  <2>1. Into(v) = {} /\ OutOf(v) = {}
    BY <1>1 DEF Into, OutOf
  <2> QED
    BY <1>1, <2>1, FS_EmptySet DEF Trail, Stands
<1> QED
  BY <1>2, <1>3 DEF AdminInv, Trails

\* The trail of pending updates is there in every state.
THEOREM AdminInvariant == AdminSpec => []AdminInv
<1>1. AdminInit => AdminInv
  BY AdminStarts, AdminAssumption
<1>2. AdminInv /\ [AdminNext]_adminVars => AdminInv'
  BY AdminStepKeeps, AdminAssumption
<1> QED
  BY <1>1, <1>2, PTL DEF AdminSpec

(***************************************************************************)
(* What the guards promise of a product at rest.                           *)
(***************************************************************************)
\* What was declared of a published product can be asked of a shopper.
LEMMA DeclaredIsPriceable ==
    ASSUME NEW m, Declared(m, TRUE), Resolve(m).customizable
    PROVE  /\ \E i \in Inputs : Resolve(m).inputs[i] # "off"
           /\ Resolve(m).inputs["size"] # "off" =>
                Resolve(m).names = "both" /\ Resolve(m).price = "both"
<1>1. m.flag = "true"
  BY DEF Resolve, ReadyMade
<1> DEFINE inputs == [i \in Inputs |-> ReadMode(m.inputs[i])]
<1>2. /\ Resolve(m).inputs = inputs
      /\ Resolve(m).names = ReadNames(m.names) /\ Resolve(m).price = ReadPrice(m.price)
  BY <1>1 DEF Resolve
<1>3. ASSUME NEW i \in Inputs PROVE inputs[i] # "off" <=> i \in Asked(m)
  BY DEF Declared, Asked, ReadMode, Modes
<1>4. Asked(m) # {} /\ Asked(m) \subseteq Inputs
  BY <1>1 DEF Declared, Asked
<1>5. "size" \in Asked(m) => m.names = "both" /\ m.price = "both"
  BY DEF Declared, SizeConfigHolds
<1>6. "size" \in Inputs
  BY DEF Inputs
<1> HIDE DEF inputs
<1> QED
  BY <1>2, <1>3, <1>4, <1>5, <1>6 DEF ReadNames, ReadPrice

LEMMA AtRestDeclared ==
    ASSUME AdminAssumption, AdminInv, Resting, ~crossed
    PROVE  Declared(product.meta, Published(product))
<1> DEFINE v == Value(product)
<1>1. Trail(v)
  BY DEF AdminInv, Trails
<1>2. Into(v) = {} /\ OutOf(v) = {}
  BY DEF Resting, Into, OutOf
<1>3. ~Bad(v)
  BY <1>1, <1>2, FS_EmptySet DEF Trail, Stands
<1> QED
  BY <1>3 DEF Bad, Value, Published

\* A published product at rest asks for something, and the custom size it asks
\* for has a price and a name: of two updates that pass the middleware beside
\* each other, the hook refuses the one that does not fit, however many there
\* are and whatever the dashboard's editors send (validate-products.ts).
THEOREM PublishedCanBePriced == AdminSpec => []PublishedIsPriceable
<1>1. AdminInv => PublishedIsPriceable
  BY AtRestDeclared, DeclaredIsPriceable, AdminAssumption DEF PublishedIsPriceable, Published
<1> QED
  BY <1>1, AdminInvariant, PTL

\* A save of the widget, and a publication, write back no older value of a key
\* that is not the widget's, unless they were overtaken.
THEOREM OthersAreKept == AdminSpec => KeepsWhatOthersWrote
<1>1. ASSUME AdminInv, [AdminNext]_adminVars, NEW c \in Clients,
             req[c].stage = "checked", req'[c].stage = "written", req[c].body \notin Bodies,
             c \notin raced
      PROVE  product'.meta.other = product.meta.other
  <2>1. WriteProduct(c)
    <3>1. req = [d \in Clients |-> req[d]]
      BY <1>1 DEF AdminInv, AdminShaped
    <3> QED
      BY <1>1, <3>1 DEF AdminNext, adminVars, LoadWidget, Save, EditMetadata, SetStatus, Sent, Check,
         WriteProduct, Hook, ChangeOption, Idle
  <2>2. product'.meta = Merge(product.meta, req[c].body)
    <3>1. product' = Merged(product, req[c])
      BY <2>1 DEF WriteProduct
    <3>2. ProductShaped(product)
      BY <1>1 DEF AdminInv, AdminShaped
    <3>3. Merged(product, req[c]).meta = Merge(product.meta, req[c].body)
      BY <3>2, MergeShaped
    <3> QED
      BY <3>1, <3>3
  <2>3. product.meta = [k \in Fields |-> product.meta[k]] /\ "other" \in Fields
    BY <1>1 DEF AdminInv, AdminShaped, ProductShaped, Fields
  <2>4. product'.meta.other = IF "other" \in req[c].body.keys THEN req[c].body.meta.other
                              ELSE product.meta.other
    BY <2>2, <2>3 DEF Merge
  <2> QED
    BY <1>1, <2>4 DEF AdminInv, OthersKnown
<1>2. AdminInv /\ [AdminNext]_adminVars =>
        [\A c \in Clients :
            /\ req[c].stage = "checked" /\ req'[c].stage = "written"
            /\ req[c].body \notin Bodies
            => c \in raced \/ product'.meta.other = product.meta.other]_adminVars
  BY <1>1
<1> QED
  BY <1>2, AdminInvariant, PTL DEF AdminSpec, KeepsWhatOthersWrote

(***************************************************************************)
(* The form opened and saved untouched.                                    *)
(***************************************************************************)
\* Reading twice reads the same.
LEMMA ReadingSettles ==
    /\ \A v : ReadMode(ReadMode(v)) = ReadMode(v)
    /\ \A v : ReadBounds(ReadBounds(v)) = ReadBounds(v)
    /\ \A v : ReadNames(ReadNames(v)) = ReadNames(v)
    /\ \A v : ReadPrice(ReadPrice(v)) = ReadPrice(v)
    /\ \A v : ReadLimit(ReadLimit(v)) = ReadLimit(v)
    /\ \A v : ReadBounds(v) \notin {"blank", "half"}
BY DEF ReadMode, ReadBounds, ReadNames, ReadPrice, ReadLimit, Modes

\* What the body of an untouched form holds, field by field.
LEMMA UntouchedBody ==
    ASSUME NEW m, m = [k \in Fields |-> m[k]]
    PROVE  LET c    == Resolve(m)
               back == Merge(m, WidgetBody(FormOf(m), m))
               size == c.customizable /\ c.inputs["size"] # "off"
               text == c.customizable /\ c.inputs["text"] # "off"
           IN  /\ back.flag = IF c.customizable THEN "true" ELSE "false"
               /\ back.inputs = IF c.customizable THEN c.inputs ELSE NoInputs
               /\ size => back.bounds = c.bounds /\ back.names = c.names /\ back.price = ReadPrice(c.price)
               /\ text => back.limit = ReadLimit(c.limit)
               /\ back.minimum = IF m.minimum = "own" THEN "own" ELSE "blank"
<1> DEFINE c == Resolve(m)
           f == FormOf(m)
           d == DraftSettings(f)
           p == Patch(d)
           body == WidgetBody(f, m)
           back == Merge(m, body)
<1>1. DOMAIN m = Fields
  BY Zenon
<1>2. /\ body.keys = Fields
      /\ body.meta = [k \in Fields |->
                        CASE k = "minimum" -> f.minimum
                          [] k = "other"   -> m.other
                          [] OTHER         -> p[k]]
  BY <1>1 DEF WidgetBody
<1>3. \A k \in Fields : back[k] = body.meta[k]
  BY <1>1, <1>2 DEF Merge
<1>4. {"flag", "inputs", "bounds", "names", "price", "limit", "minimum"} \subseteq Fields
  BY DEF Fields, WidgetKeys
<1>5. /\ back.flag = p.flag /\ back.inputs = p.inputs /\ back.bounds = p.bounds
      /\ back.names = p.names /\ back.price = p.price /\ back.limit = p.limit
      /\ back.minimum = f.minimum
  <2> HIDE DEF body, p, f, back
  <2> QED
    BY <1>2, <1>3, <1>4
<1>6. /\ f.customizable = c.customizable /\ f.inputs = c.inputs
      /\ f.bounds = IF c.inputs["size"] = "off" THEN "blank" ELSE c.bounds
      /\ f.names = c.names /\ f.price = c.price
      /\ f.limit = IF c.inputs["text"] = "off" THEN "blank" ELSE c.limit
      /\ f.minimum = IF m.minimum = "own" THEN "own" ELSE "blank"
  BY DEF FormOf
<1>7. /\ d.customizable = f.customizable /\ d.inputs = f.inputs
      /\ d.bounds = IF f.bounds \in {"blank", "half"} THEN "odd" ELSE f.bounds
      /\ d.names = f.names /\ d.price = ReadPrice(f.price) /\ d.limit = ReadLimit(f.limit)
  <2> HIDE DEF f
  <2> QED
    BY DEF DraftSettings
<1>8. LET asksForSize == d.customizable /\ d.inputs["size"] # "off"
          asksForText == d.customizable /\ d.inputs["text"] # "off"
      IN  /\ p.flag = IF d.customizable THEN "true" ELSE "false"
          /\ p.inputs = IF d.customizable THEN d.inputs ELSE NoInputs
          /\ asksForSize => p.bounds = d.bounds /\ p.names = d.names /\ p.price = d.price
          /\ asksForText => p.limit = d.limit
  <2> HIDE DEF d
  <2> QED
    BY DEF Patch
<1>9. c.customizable => c.bounds \notin {"blank", "half"}
  BY ReadingSettles DEF Resolve, ReadyMade
<1> HIDE DEF c, f, d, p, body, back
<1>10. /\ back.flag = IF c.customizable THEN "true" ELSE "false"
       /\ back.inputs = IF c.customizable THEN c.inputs ELSE NoInputs
       /\ back.minimum = IF m.minimum = "own" THEN "own" ELSE "blank"
  BY <1>5, <1>6, <1>7, <1>8
<1>11. c.customizable /\ c.inputs["size"] # "off" =>
         back.bounds = c.bounds /\ back.names = c.names /\ back.price = ReadPrice(c.price)
  BY <1>5, <1>6, <1>7, <1>8, <1>9
<1>12. c.customizable /\ c.inputs["text"] # "off" => back.limit = ReadLimit(c.limit)
  BY <1>5, <1>6, <1>7, <1>8
<1> QED
  BY <1>10, <1>11, <1>12 DEF c, f, body, back

\* The terms are what the readers read, of the inputs that are on.
LEMMA SameTerms ==
    ASSUME NEW m, NEW n,
           Resolve(n).inputs = Resolve(m).inputs,
           Resolve(m).inputs["size"] # "off" =>
             /\ Resolve(n).bounds = Resolve(m).bounds
             /\ Resolve(n).names = Resolve(m).names
             /\ Resolve(n).price = Resolve(m).price,
           Resolve(m).inputs["text"] # "off" => Resolve(n).limit = Resolve(m).limit,
           (n.minimum = "own") = (m.minimum = "own")
    PROVE  Terms(n) = Terms(m)
<1> DEFINE c == Resolve(m)
           r == Resolve(n)
           size(x) == IF x.inputs["size"] = "off" THEN None ELSE <<x.bounds, x.names, x.price>>
           limit(x) == IF x.inputs["text"] = "off" THEN None ELSE x.limit
<1>1. /\ Terms(n) = [inputs |-> r.inputs, size |-> size(r), limit |-> limit(r), least |-> n.minimum = "own"]
      /\ Terms(m) = [inputs |-> c.inputs, size |-> size(c), limit |-> limit(c), least |-> m.minimum = "own"]
  BY Zenon DEF Terms
<1>2. size(r) = size(c) /\ limit(r) = limit(c)
  BY DEF size
<1> HIDE DEF size, limit, c, r
<1>3. r.inputs = c.inputs
  BY DEF c, r
<1> QED
  BY Zenon, <1>1, <1>2, <1>3

\* Whatever the metadata says, the body the untouched form builds of it says
\* the same of the terms.
LEMMA UntouchedTerms ==
    ASSUME NEW m, m = [k \in Fields |-> m[k]]
    PROVE  Terms(Merge(m, WidgetBody(FormOf(m), m))) = Terms(m)
<1> DEFINE c == Resolve(m)
           back == Merge(m, WidgetBody(FormOf(m), m))
           r == Resolve(back)
<1>1. /\ back.flag = IF c.customizable THEN "true" ELSE "false"
      /\ back.inputs = IF c.customizable THEN c.inputs ELSE NoInputs
      /\ c.customizable /\ c.inputs["size"] # "off" =>
            back.bounds = c.bounds /\ back.names = c.names /\ back.price = ReadPrice(c.price)
      /\ c.customizable /\ c.inputs["text"] # "off" => back.limit = ReadLimit(c.limit)
      /\ back.minimum = IF m.minimum = "own" THEN "own" ELSE "blank"
  BY UntouchedBody
<1>2. (back.minimum = "own") = (m.minimum = "own")
  BY <1>1
<1> HIDE DEF back
<1>3. CASE m.flag = "true"
  <2>1. /\ c.customizable
        /\ c.inputs = [i \in Inputs |-> ReadMode(m.inputs[i])]
        /\ c.bounds = ReadBounds(m.bounds) /\ c.names = ReadNames(m.names)
        /\ c.price = ReadPrice(m.price) /\ c.limit = ReadLimit(m.limit)
    BY <1>3 DEF Resolve
  <2>2. back.flag = "true" /\ back.inputs = c.inputs
    BY <1>1, <2>1
  <2>3. /\ r.inputs = [i \in Inputs |-> ReadMode(c.inputs[i])]
        /\ r.bounds = ReadBounds(back.bounds) /\ r.names = ReadNames(back.names)
        /\ r.price = ReadPrice(back.price) /\ r.limit = ReadLimit(back.limit)
    BY <2>2 DEF Resolve
  <2>4. r.inputs = c.inputs
    <3>1. \A i \in Inputs : ReadMode(c.inputs[i]) = c.inputs[i]
      BY <2>1, ReadingSettles
    <3> QED
      BY <2>1, <2>3, <3>1
  <2>5. c.inputs["size"] # "off" => r.bounds = c.bounds /\ r.names = c.names /\ r.price = c.price
    BY <1>1, <2>1, <2>3, ReadingSettles
  <2>6. c.inputs["text"] # "off" => r.limit = c.limit
    BY <1>1, <2>1, <2>3, ReadingSettles
  <2>7. Terms(back) = Terms(m)
    BY <1>2, <2>4, <2>5, <2>6, SameTerms
  <2> QED
    BY <2>7 DEF back
<1>4. CASE m.flag # "true"
  <2>1. c = ReadyMade /\ c.customizable = FALSE
    BY <1>4 DEF Resolve, ReadyMade
  <2>2. back.flag = "false"
    BY <1>1, <2>1
  <2>3. r = c
    BY <2>1, <2>2 DEF Resolve
  <2>4. Terms(back) = Terms(m)
    BY <1>2, <2>3, SameTerms
  <2> QED
    BY <2>4 DEF back
<1> QED
  BY <1>3, <1>4

\* Opening the widget and saving it untouched never changes what a shopper is
\* asked for, nor the terms: reading the metadata and writing it are inverse,
\* as far as it matters (product-customization.tsx).
THEOREM UntouchedSaveIsIdle == AdminSpec => []UntouchedSaveChangesNothing
<1>1. AdminInv => UntouchedSaveChangesNothing
  BY UntouchedTerms DEF AdminInv, AdminShaped, ProductShaped, UntouchedSaveChangesNothing
<1> QED
  BY <1>1, AdminInvariant, PTL

(***************************************************************************)
(* Shipping: a panel that has rates has the draft they are for.            *)
(***************************************************************************)
PanelHolds(p) ==
    \/ p = NoPanel
    \/ /\ p = [draft |-> p.draft, derived |-> p.derived, rates |-> p.rates, picked |-> p.picked,
               stale |-> p.stale, asked |-> p.asked]
       /\ p.rates # NoParcel => p.draft = p.rates

TabHolds(t) ==
    /\ t = [view |-> t.view, read |-> t.read, ask |-> t.ask, chosen |-> t.chosen, panel |-> t.panel]
    /\ PanelHolds(t.panel)

DeskInv ==
    /\ desk = [d \in Desks |-> desk[d]]
    /\ \A d \in Desks : TabHolds(desk[d])
    /\ BuysWhatWasQuoted

\* A step of one tab.
LEMMA TabKeeps ==
    ASSUME DeskInv, NEW d \in Desks, NEW tab, TabHolds(tab),
           desk' = [desk EXCEPT ![d] = tab], bought' = bought
    PROVE  DeskInv'
BY DEF DeskInv, BuysWhatWasQuoted

\* A page's panel, rendered.
LEMMA RenderedHolds ==
    ASSUME NEW d \in Desks, NEW tab, TabHolds(tab)
    PROVE  /\ TabHolds(Rendered(d, tab))
           /\ \A detail : TabHolds([tab EXCEPT !.view = detail])
           /\ \A ask : TabHolds([tab EXCEPT !.ask = ask])
           /\ \A read : TabHolds([tab EXCEPT !.read = read])
           /\ \A chosen : TabHolds([tab EXCEPT !.chosen = chosen])
           /\ \A panel : PanelHolds(panel) => TabHolds([tab EXCEPT !.panel = panel])
<1>1. tab = [view |-> tab.view, read |-> tab.read, ask |-> tab.ask, chosen |-> tab.chosen,
             panel |-> tab.panel]
  BY DEF TabHolds
<1>2. \A detail : TabHolds([tab EXCEPT !.view = detail])
  BY <1>1 DEF TabHolds
<1>3. \A ask : TabHolds([tab EXCEPT !.ask = ask])
  BY <1>1 DEF TabHolds
<1>4. \A read : TabHolds([tab EXCEPT !.read = read])
  BY <1>1 DEF TabHolds
<1>5. \A chosen : TabHolds([tab EXCEPT !.chosen = chosen])
  BY <1>1 DEF TabHolds
<1>6. \A panel : PanelHolds(panel) => TabHolds([tab EXCEPT !.panel = panel])
  BY <1>1 DEF TabHolds
<1>7. PanelHolds(Following(d, tab))
  <2>1. PanelHolds(NoPanel) /\ PanelHolds(tab.panel)
    BY DEF TabHolds, PanelHolds
  <2>2. \A derived : PanelHolds(NewPanel(derived))
    BY DEF PanelHolds, NewPanel
  <2> QED
    BY <2>1, <2>2 DEF Following
<1> QED
  BY <1>2, <1>3, <1>4, <1>5, <1>6, <1>7 DEF Rendered

FullPanel(p) ==
    p = [draft |-> p.draft, derived |-> p.derived, rates |-> p.rates, picked |-> p.picked,
         stale |-> p.stale, asked |-> p.asked]

\* One field of a panel set.
LEMMA PanelDraft ==
    ASSUME NEW p, FullPanel(p), NEW x
    PROVE  LET q == [p EXCEPT !.draft = x]
           IN  FullPanel(q) /\ q.draft = x /\ q.rates = p.rates
BY DEF FullPanel

LEMMA PanelDerived ==
    ASSUME NEW p, FullPanel(p), NEW x
    PROVE  LET q == [p EXCEPT !.derived = x]
           IN  FullPanel(q) /\ q.draft = p.draft /\ q.rates = p.rates
BY DEF FullPanel

LEMMA PanelRates ==
    ASSUME NEW p, FullPanel(p), NEW x
    PROVE  LET q == [p EXCEPT !.rates = x]
           IN  FullPanel(q) /\ q.draft = p.draft /\ q.rates = x
BY DEF FullPanel

LEMMA PanelPicked ==
    ASSUME NEW p, FullPanel(p), NEW x
    PROVE  LET q == [p EXCEPT !.picked = x]
           IN  FullPanel(q) /\ q.draft = p.draft /\ q.rates = p.rates
BY DEF FullPanel

LEMMA PanelStale ==
    ASSUME NEW p, FullPanel(p), NEW x
    PROVE  LET q == [p EXCEPT !.stale = x]
           IN  FullPanel(q) /\ q.draft = p.draft /\ q.rates = p.rates
BY DEF FullPanel

LEMMA PanelAsked ==
    ASSUME NEW p, FullPanel(p), NEW x
    PROVE  LET q == [p EXCEPT !.asked = x]
           IN  FullPanel(q) /\ q.draft = p.draft /\ q.rates = p.rates
BY DEF FullPanel

\* A panel whose rates are dropped, or that only waits or ages, holds.
LEMMA PanelChanges ==
    ASSUME NEW p, PanelHolds(p), p # NoPanel
    PROVE  /\ \A asked : /\ PanelHolds([p EXCEPT !.asked = asked])
                         /\ [p EXCEPT !.asked = asked].draft = p.draft
                         /\ [p EXCEPT !.asked = asked].rates = p.rates
           /\ \A stale : PanelHolds([p EXCEPT !.stale = stale])
           /\ PanelHolds([p EXCEPT !.rates = NoParcel])
           /\ \A typed : /\ PanelHolds(DraftChanged(p, typed))
                         /\ FullPanel(DraftChanged(p, typed))
           /\ \A r, offered : /\ PanelHolds(Rated(p, r, offered))
                              /\ FullPanel(Rated(p, r, offered))
<1>1. FullPanel(p) /\ (p.rates # NoParcel => p.draft = p.rates)
  BY DEF PanelHolds, FullPanel
<1>2. ASSUME NEW q, FullPanel(q), q.rates # NoParcel => q.draft = q.rates PROVE PanelHolds(q)
  BY <1>2 DEF PanelHolds, FullPanel
<1>3. ASSUME NEW typed PROVE PanelHolds(DraftChanged(p, typed)) /\ FullPanel(DraftChanged(p, typed))
  <2> DEFINE no == FALSE
             q1 == [p EXCEPT !.draft = typed]
             q2 == [q1 EXCEPT !.rates = NoParcel]
             q3 == [q2 EXCEPT !.picked = no]
             q4 == [q3 EXCEPT !.stale = no]
  <2>1. DraftChanged(p, typed) = q4
    BY Zenon DEF DraftChanged
  <2> HIDE DEF no
  <2>2. FullPanel(q1)
    BY <1>1, PanelDraft
  <2> HIDE DEF q1
  <2>3. FullPanel(q2) /\ q2.rates = NoParcel
    BY <2>2, PanelRates
  <2> HIDE DEF q2
  <2>4. FullPanel(q3) /\ q3.rates = NoParcel
    BY <2>3, PanelPicked
  <2> HIDE DEF q3
  <2>5. FullPanel(q4) /\ q4.rates = NoParcel
    BY <2>4, PanelStale
  <2> HIDE DEF q4
  <2> QED
    BY <1>2, <2>1, <2>5
<1>4. ASSUME NEW r, NEW offered PROVE PanelHolds(Rated(p, r, offered)) /\ FullPanel(Rated(p, r, offered))
  <2> DEFINE no == FALSE
             rates == IF offered THEN r.parcel ELSE NoParcel
             q1 == [p EXCEPT !.rates = rates]
             q2 == [q1 EXCEPT !.derived = r.derived]
             q3 == [q2 EXCEPT !.draft = r.parcel]
             q4 == [q3 EXCEPT !.picked = offered]
             q5 == [q4 EXCEPT !.stale = no]
  <2>1. Rated(p, r, offered) = q5
    BY Zenon DEF Rated
  <2>2. rates # NoParcel => r.parcel = rates
    OBVIOUS
  <2> HIDE DEF no, rates
  <2>3. FullPanel(q1) /\ q1.rates = rates
    BY <1>1, PanelRates
  <2> HIDE DEF q1
  <2>4. FullPanel(q2) /\ q2.rates = rates
    BY <2>3, PanelDerived
  <2> HIDE DEF q2
  <2>5. FullPanel(q3) /\ q3.rates = rates /\ q3.draft = r.parcel
    BY <2>4, PanelDraft
  <2> HIDE DEF q3
  <2>6. FullPanel(q4) /\ q4.rates = rates /\ q4.draft = r.parcel
    BY <2>5, PanelPicked
  <2> HIDE DEF q4
  <2>7. FullPanel(q5) /\ q5.rates = rates /\ q5.draft = r.parcel
    BY <2>6, PanelStale
  <2> HIDE DEF q5
  <2> QED
    BY <1>2, <2>1, <2>2, <2>7
<1>5. ASSUME NEW asked
      PROVE  LET q == [p EXCEPT !.asked = asked]
             IN  PanelHolds(q) /\ q.draft = p.draft /\ q.rates = p.rates
  <2> DEFINE q == [p EXCEPT !.asked = asked]
  <2>1. FullPanel(q) /\ q.draft = p.draft /\ q.rates = p.rates
    BY <1>1, PanelAsked
  <2> HIDE DEF q
  <2>2. PanelHolds(q)
    BY <1>1, <1>2, <2>1
  <2> QED
    BY <2>1, <2>2 DEF q
<1>6. ASSUME NEW stale PROVE PanelHolds([p EXCEPT !.stale = stale])
  <2> DEFINE q == [p EXCEPT !.stale = stale]
  <2>1. FullPanel(q) /\ q.draft = p.draft /\ q.rates = p.rates
    BY <1>1, PanelStale
  <2> HIDE DEF q
  <2>2. PanelHolds(q)
    BY <1>1, <1>2, <2>1
  <2> QED
    BY <2>1, <2>2 DEF q
<1>7. PanelHolds([p EXCEPT !.rates = NoParcel])
  <2> DEFINE q == [p EXCEPT !.rates = NoParcel]
  <2>1. FullPanel(q) /\ q.rates = NoParcel
    BY <1>1, PanelRates
  <2> HIDE DEF q
  <2>2. PanelHolds(q)
    BY <1>1, <1>2, <2>1
  <2> QED
    BY <2>1, <2>2 DEF q
<1> QED
  BY <1>3, <1>4, <1>5, <1>6, <1>7

\* The step of one tab whose panel is what one of the panel's steps makes it.
LEMMA PanelStepKeeps ==
    ASSUME DeskInv, NEW d \in Desks, NEW panel, PanelHolds(panel),
           desk' = [desk EXCEPT ![d].panel = panel], bought' = bought
    PROVE  DeskInv'
<1>1. desk' = [desk EXCEPT ![d] = [desk[d] EXCEPT !.panel = panel]]
  BY DEF DeskInv
<1>2. TabHolds([desk[d] EXCEPT !.panel = panel])
  BY RenderedHolds DEF DeskInv
<1> QED
  BY <1>1, <1>2, TabKeeps

LEMMA AskStepKeeps ==
    ASSUME DeskInv, NEW d \in Desks, NEW ask, NEW panel, PanelHolds(panel),
           desk' = [desk EXCEPT ![d].ask = ask, ![d].panel = panel], bought' = bought
    PROVE  DeskInv'
<1> DEFINE asking == [desk[d] EXCEPT !.ask = ask]
           tab == [asking EXCEPT !.panel = panel]
<1>1. TabHolds(asking)
  BY RenderedHolds DEF DeskInv
<1>2. TabHolds(tab)
  <2> HIDE DEF asking
  <2> QED
    BY <1>1, RenderedHolds
<1>3. desk' = [desk EXCEPT ![d] = tab]
  BY DEF DeskInv
<1> HIDE DEF tab
<1> QED
  BY <1>2, <1>3, TabKeeps

LEMMA ReadKeeps ==
    ASSUME DeskInv, NEW d \in Desks, StartRead(d) \/ EndRead(d) \/ Select(d) \/ AskVoid(d)
    PROVE  DeskInv'
<1>1. desk = [e \in Desks |-> desk[e]] /\ TabHolds(desk[d])
  BY DEF DeskInv
<1>2. CASE StartRead(d)
  <2> DEFINE tab == [desk[d] EXCEPT !.read = Reading(d)]
  <2>1. desk' = [desk EXCEPT ![d] = tab] /\ bought' = bought
    BY <1>1, <1>2 DEF StartRead
  <2>2. TabHolds(tab)
    BY <1>1, RenderedHolds
  <2> QED
    BY <2>1, <2>2, TabKeeps
<1>3. CASE EndRead(d)
  <2> DEFINE viewing == [desk[d] EXCEPT !.view = desk[d].read]
             shown == Rendered(d, viewing)
             tab == [shown EXCEPT !.read = NoRequest]
  <2>1. desk' = [desk EXCEPT ![d] = tab] /\ bought' = bought
    BY <1>3 DEF EndRead, Showing
  <2>2. TabHolds(viewing)
    BY <1>1, RenderedHolds
  <2> HIDE DEF viewing
  <2>3. TabHolds(shown)
    BY <2>2, RenderedHolds
  <2> HIDE DEF shown
  <2>4. TabHolds(tab)
    BY <2>3, RenderedHolds
  <2> HIDE DEF tab
  <2> QED
    BY <2>1, <2>4, TabKeeps
<1>4. CASE Select(d)
  <2> DEFINE yes == TRUE
             choosing == [desk[d] EXCEPT !.chosen = yes]
             tab == Rendered(d, choosing)
  <2>1. desk' = [desk EXCEPT ![d] = tab] /\ bought' = bought
    BY <1>4 DEF Select
  <2> HIDE DEF yes
  <2>2. TabHolds(choosing)
    BY <1>1, RenderedHolds
  <2> HIDE DEF choosing
  <2>3. TabHolds(tab)
    BY <2>2, RenderedHolds
  <2> HIDE DEF tab
  <2> QED
    BY <2>1, <2>3, TabKeeps
<1>5. CASE AskVoid(d)
  <2> DEFINE ask == [kind |-> "void"]
             tab == [desk[d] EXCEPT !.ask = ask]
  <2>1. desk' = [desk EXCEPT ![d] = tab] /\ bought' = bought
    BY <1>1, <1>5 DEF AskVoid
  <2>2. TabHolds(tab)
    BY <1>1, RenderedHolds
  <2> QED
    BY <2>1, <2>2, TabKeeps
<1> QED
  BY <1>2, <1>3, <1>4, <1>5

LEMMA EditDraftKeeps ==
    ASSUME DeskInv, NEW d \in Desks, EditDraft(d)
    PROVE  DeskInv'
<1>1. PICK typed : desk' = [desk EXCEPT ![d].panel = DraftChanged(@, typed)]
  BY DEF EditDraft
<1>2. PanelHolds(DraftChanged(desk[d].panel, typed))
  BY PanelChanges DEF EditDraft, HasPanel, DeskInv, TabHolds
<1> QED
  BY <1>1, <1>2, PanelStepKeeps DEF EditDraft

LEMMA RatesAgeKeeps ==
    ASSUME DeskInv, NEW d \in Desks, RatesAge(d)
    PROVE  DeskInv'
<1> DEFINE yes == TRUE
           panel == [desk[d].panel EXCEPT !.stale = yes]
<1>1. desk' = [desk EXCEPT ![d].panel = panel] /\ bought' = bought
  BY DEF RatesAge, DeskInv
<1> HIDE DEF yes
<1>2. PanelHolds(panel)
  BY PanelChanges DEF RatesAge, DeskInv, TabHolds
<1> HIDE DEF panel
<1> QED
  BY <1>1, <1>2, PanelStepKeeps

LEMMA AskRatesKeeps ==
    ASSUME DeskInv, NEW d \in Desks, AskRates(d)
    PROVE  DeskInv'
<1> DEFINE yes == TRUE
           panel == [desk[d].panel EXCEPT !.asked = yes]
<1>1. PICK ask : desk' = [desk EXCEPT ![d].ask = ask, ![d].panel.asked = TRUE]
  BY DEF AskRates
<1>2. desk' = [desk EXCEPT ![d].ask = ask, ![d].panel = panel] /\ bought' = bought
  <2>1. desk[d] = [view |-> desk[d].view, read |-> desk[d].read, ask |-> desk[d].ask,
                   chosen |-> desk[d].chosen, panel |-> desk[d].panel]
    BY DEF DeskInv, TabHolds
  <2>2. desk = [e \in Desks |-> desk[e]]
    BY DEF DeskInv
  <2>3. desk' = [desk EXCEPT ![d].ask = ask, ![d].panel.asked = yes]
    BY <1>1
  <2> HIDE DEF yes
  <2> QED
    BY <2>1, <2>2, <2>3 DEF AskRates
<1> HIDE DEF yes
<1>3. PanelHolds(panel)
  BY PanelChanges DEF AskRates, HasPanel, DeskInv, TabHolds
<1> HIDE DEF panel
<1> QED
  BY <1>2, <1>3, AskStepKeeps

\* An answer that finds the panel that asked, or none.
LEMMA AnswerKeeps ==
    ASSUME DeskInv, NEW d \in Desks, NEW panel, AnswerRates(d, panel),
           Busied(d) => PanelHolds(panel) /\ panel # NoPanel
    PROVE  DeskInv'
<1> DEFINE no == FALSE
           free == [panel EXCEPT !.asked = no]
           after == IF Busied(d) THEN free ELSE desk[d].panel
<1>1. desk' = [desk EXCEPT ![d].ask = NoRequest, ![d].panel = after] /\ bought' = bought
  BY DEF AnswerRates, DeskInv
<1> HIDE DEF no
<1>2. Busied(d) => PanelHolds(free)
  BY PanelChanges
<1>3. PanelHolds(after)
  <2> HIDE DEF free
  <2> QED
    BY <1>2 DEF DeskInv, TabHolds
<1> HIDE DEF after
<1> QED
  BY <1>1, <1>3, AskStepKeeps

\* A panel is all its fields, no panel the draft alone.
LEMMA FullIsPanel ==
    ASSUME NEW p, FullPanel(p)
    PROVE  p # NoPanel
<1>1. DOMAIN p = {"draft", "derived", "rates", "picked", "stale", "asked"}
  BY DEF FullPanel
<1>2. DOMAIN NoPanel = {"draft"}
  BY DEF NoPanel
<1> QED
  BY <1>1, <1>2

LEMMA RatesComeKeeps ==
    ASSUME DeskInv, NEW d \in Desks, RatesArrive(d) \/ RatesFail(d)
    PROVE  DeskInv'
<1>1. PanelHolds(desk[d].panel)
  BY DEF DeskInv, TabHolds
<1>2. CASE RatesArrive(d)
  <2>1. PICK offered : AnswerRates(d, Rated(desk[d].panel, desk[d].ask, offered))
    BY <1>2 DEF RatesArrive
  <2> DEFINE panel == Rated(desk[d].panel, desk[d].ask, offered)
  <2>2. Busied(d) => PanelHolds(panel) /\ FullPanel(panel)
    BY <1>1, PanelChanges DEF Busied
  <2> HIDE DEF panel
  <2>3. Busied(d) => PanelHolds(panel) /\ panel # NoPanel
    BY <2>2, FullIsPanel
  <2>4. AnswerRates(d, panel)
    BY <2>1 DEF panel
  <2> QED
    BY <2>3, <2>4, AnswerKeeps
<1>3. CASE RatesFail(d)
  <2> DEFINE panel == [desk[d].panel EXCEPT !.rates = NoParcel]
  <2>1. AnswerRates(d, panel)
    BY <1>3 DEF RatesFail
  <2>2. Busied(d) => PanelHolds(panel)
    BY <1>1, PanelChanges DEF Busied
  <2>3. Busied(d) => FullPanel(panel)
    <3>1. Busied(d) => FullPanel(desk[d].panel)
      BY <1>1 DEF Busied, PanelHolds, FullPanel
    <3> QED
      BY <3>1, PanelRates
  <2> HIDE DEF panel
  <2> QED
    BY <2>1, <2>2, <2>3, FullIsPanel, AnswerKeeps
<1> QED
  BY <1>2, <1>3

\* What is asked for is the draft, which is what the rates are for.
LEMMA AskPurchaseKeeps ==
    ASSUME DeskInv, NEW d \in Desks, AskPurchase(d)
    PROVE  DeskInv'
<1> DEFINE yes == TRUE
           p == desk[d].panel
           panel == [p EXCEPT !.asked = yes]
           asking == [kind |-> "purchase"]
           afterwards == [desk EXCEPT ![d].ask = asking, ![d].panel = panel]
<1>1. desk' = afterwards
  <2>1. desk[d] = [view |-> desk[d].view, read |-> desk[d].read, ask |-> desk[d].ask,
                   chosen |-> desk[d].chosen, panel |-> desk[d].panel]
    BY DEF DeskInv, TabHolds
  <2>2. desk = [e \in Desks |-> desk[e]]
    BY DEF DeskInv
  <2>3. desk' = [desk EXCEPT ![d].ask = asking, ![d].panel.asked = yes]
    BY DEF AskPurchase
  <2> HIDE DEF yes, asking
  <2> QED
    BY <2>1, <2>2, <2>3
<1> HIDE DEF yes
<1>2. PanelHolds(p) /\ p # NoPanel /\ p.rates # NoParcel /\ ParseDraft(p.draft) # NoParcel
  BY DEF AskPurchase, CanBuy, HasPanel, DeskInv, TabHolds
<1>3. PanelHolds(panel)
  BY <1>2, PanelChanges
<1>4. p.draft = p.rates /\ ParseDraft(p.draft) = p.draft
  BY <1>2 DEF PanelHolds, ParseDraft
<1>5. bought' = bought \cup {[parcel |-> ParseDraft(p.draft), quoted |-> p.rates]}
  BY DEF AskPurchase
<1>6. BuysWhatWasQuoted'
  BY <1>4, <1>5 DEF DeskInv, BuysWhatWasQuoted
<1> HIDE DEF panel, asking
<1>7. desk' = [e \in Desks |-> desk'[e]] /\ \A e \in Desks : TabHolds(desk'[e])
  <2> DEFINE wait == [desk[d] EXCEPT !.ask = asking]
             tab == [wait EXCEPT !.panel = panel]
  <2>1. TabHolds(wait)
    BY RenderedHolds DEF DeskInv
  <2> HIDE DEF wait
  <2>2. TabHolds(tab)
    BY <1>3, <2>1, RenderedHolds
  <2>3. desk' = [desk EXCEPT ![d] = tab]
    BY <1>1 DEF DeskInv, wait
  <2> HIDE DEF tab
  <2> QED
    BY <2>2, <2>3 DEF DeskInv
<1> QED
  BY <1>6, <1>7 DEF DeskInv

LEMMA ServeKeeps ==
    ASSUME DeskInv, NEW d \in Desks, ServePurchase(d) \/ ServeVoid(d) \/ ServeRefusal(d)
    PROVE  DeskInv'
<1>1. CASE ServePurchase(d) \/ ServeVoid(d)
  <2> DEFINE ask == [kind |-> "done", detail |-> Detail']
             tab == [desk[d] EXCEPT !.ask = ask]
  <2>1. desk' = [desk EXCEPT ![d].ask = ask] /\ bought' = bought
    BY <1>1, Zenon DEF ServePurchase, ServeVoid
  <2> HIDE DEF ask
  <2>2. desk' = [desk EXCEPT ![d] = tab]
    BY <2>1 DEF DeskInv
  <2>3. TabHolds(tab)
    BY RenderedHolds DEF DeskInv
  <2> HIDE DEF tab
  <2> QED
    BY <2>1, <2>2, <2>3, TabKeeps
<1>2. CASE ServeRefusal(d)
  <2> DEFINE no == FALSE
             free == [desk[d].panel EXCEPT !.asked = no]
             after == IF Busied(d) THEN free ELSE desk[d].panel
  <2>1. desk' = [desk EXCEPT ![d].ask = NoRequest, ![d].panel = after] /\ bought' = bought
    BY <1>2 DEF ServeRefusal, DeskInv
  <2> HIDE DEF no
  <2>2. Busied(d) => PanelHolds(free)
    BY PanelChanges DEF Busied, DeskInv, TabHolds
  <2>3. PanelHolds(after)
    <3> HIDE DEF free
    <3> QED
      BY <2>2 DEF DeskInv, TabHolds
  <2> HIDE DEF after
  <2> QED
    BY <2>1, <2>3, AskStepKeeps
<1> QED
  BY <1>1, <1>2

LEMMA AnswerArrivesKeeps ==
    ASSUME DeskInv, NEW d \in Desks, AnswerArrives(d)
    PROVE  DeskInv'
<1>1. desk = [e \in Desks |-> desk[e]] /\ TabHolds(desk[d])
  BY DEF DeskInv
<1>2. CASE PageOf[d] = "queue"
  <2> DEFINE no == FALSE
             t1 == [desk[d] EXCEPT !.ask = NoRequest]
             t2 == [t1 EXCEPT !.chosen = no]
             t3 == [t2 EXCEPT !.panel = NoPanel]
             t4 == [t3 EXCEPT !.read = Reading(d)]
  <2>1. desk' = [desk EXCEPT ![d] = t4] /\ bought' = bought
    BY <1>2, Zenon DEF AnswerArrives
  <2> HIDE DEF no
  <2>2. TabHolds(t1)
    BY <1>1, RenderedHolds
  <2> HIDE DEF t1
  <2>3. TabHolds(t2)
    BY <2>2, RenderedHolds
  <2> HIDE DEF t2
  <2>4. TabHolds(t3)
    BY <2>3, RenderedHolds DEF PanelHolds
  <2> HIDE DEF t3
  <2>5. TabHolds(t4)
    BY <2>4, RenderedHolds
  <2> HIDE DEF t4
  <2> QED
    BY <2>1, <2>5, TabKeeps
<1>3. CASE PageOf[d] # "queue"
  <2> DEFINE t1 == [desk[d] EXCEPT !.view = desk[d].ask.detail]
             t2 == Rendered(d, t1)
             t3 == [t2 EXCEPT !.ask = NoRequest]
  <2>1. desk' = [desk EXCEPT ![d] = t3] /\ bought' = bought
    BY <1>3, Zenon DEF AnswerArrives, Showing
  <2>2. TabHolds(t1)
    BY <1>1, RenderedHolds
  <2> HIDE DEF t1
  <2>3. TabHolds(t2)
    BY <2>2, RenderedHolds
  <2> HIDE DEF t2
  <2>4. TabHolds(t3)
    BY <2>3, RenderedHolds
  <2> HIDE DEF t3
  <2> QED
    BY <2>1, <2>4, TabKeeps
<1> QED
  BY <1>2, <1>3

LEMMA DeskStarts ==
    ASSUME DeskInit
    PROVE  DeskInv
<1>1. PanelHolds(NewPanel(NoParcel)) /\ PanelHolds(NoPanel)
  BY DEF PanelHolds, NewPanel
<1> DEFINE no == FALSE
           panel(d) == IF PageOf[d] = "order" THEN NewPanel(NoParcel) ELSE NoPanel
<1>2. desk = [d \in Desks |-> [view |-> Reading(d), read |-> NoRequest, ask |-> NoRequest, chosen |-> no,
                panel |-> panel(d)]] /\ bought = {}
  BY DEF DeskInit
<1>3. ASSUME NEW d PROVE PanelHolds(panel(d))
  BY <1>1
<1> HIDE DEF no, panel
<1>4. ASSUME NEW d \in Desks PROVE TabHolds(desk[d])
  <2>1. desk[d] = [view |-> Reading(d), read |-> NoRequest, ask |-> NoRequest, chosen |-> no,
                   panel |-> panel(d)]
    BY <1>2
  <2> QED
    BY <1>3, <2>1 DEF TabHolds
<1>5. desk = [d \in Desks |-> desk[d]]
  BY <1>2
<1> QED
  BY <1>2, <1>4, <1>5 DEF DeskInv, BuysWhatWasQuoted

LEMMA DeskStepKeeps ==
    ASSUME DeskInv, [DeskNext]_deskVars
    PROVE  DeskInv'
<1>1. CASE ChangeSizes \/ UNCHANGED deskVars
  <2>1. desk' = desk /\ bought' = bought
    BY <1>1 DEF ChangeSizes, deskVars
  <2> QED
    BY <2>1 DEF DeskInv, BuysWhatWasQuoted
<1> QED
  BY <1>1, ReadKeeps, EditDraftKeeps, RatesAgeKeeps, AskRatesKeeps, RatesComeKeeps, AskPurchaseKeeps,
     ServeKeeps, AnswerArrivesKeeps DEF DeskNext

\* Every label is bought for the parcel whose rates the page showed: edits drop
\* the rates, an answer brings its parcel along, and a panel that comes anew
\* has none (rate-and-buy-panel.tsx).
THEOREM QuotedIsBought == DeskSpec => []BuysWhatWasQuoted
<1>1. DeskInit => DeskInv
  BY DeskStarts
<1>2. DeskInv /\ [DeskNext]_deskVars => DeskInv'
  BY DeskStepKeeps
<1>3. DeskInv => BuysWhatWasQuoted
  BY DEF DeskInv
<1> QED
  BY <1>1, <1>2, <1>3, PTL DEF DeskSpec

(***************************************************************************)
(* The default address.  While a request for it is undisturbed, no address *)
(* is the default but its own and those it will take that from.            *)
(***************************************************************************)
PageShaped(p) == p = [place |-> p.place, list |-> p.list, signedIn |-> p.signedIn, refreshing |-> p.refreshing]

AskShaped(r) ==
    /\ r = [op |-> r.op, id |-> r.id, lines |-> r.lines, previous |-> r.previous, alone |-> r.alone]
    /\ r.alone \in BOOLEAN
    /\ r.op \in {"create", "edit"} => r.lines \in Lines

\* Ids are given once, and what was shown or asked for had been given.
Known(id) == id \in Int /\ id <= lastAddress

AccountShaped ==
    /\ lastAddress \in Nat
    /\ saved \in [AddressIds -> Lines \cup {NoLines}]
    /\ \A a \in Kept : Known(a)
    /\ defaults \subseteq Kept
    /\ draft = [chosen |-> draft.chosen, lines |-> draft.lines] /\ draft.lines \in Lines \cup {NoLines}
    /\ pages = [t \in Tabs |-> pages[t]]
    /\ asks = [t \in Tabs |-> asks[t]]
    /\ \A t \in Tabs :
        /\ PageShaped(pages[t])
        /\ \A e \in pages[t].list : Known(e.id) /\ e.lines \in Lines
        /\ AskShaped(asks[t]) /\ Known(asks[t].id)

\* A request for the default at the server.
Asking(t) == IsDefaultAsk(asks[t])

\* One that has read the defaults there were.
HasListed(t) == asks[t].op \in {"set", "unset"}

PreferredHolds ==
    preferred # NoAddress =>
        preferred \in Kept /\ defaults = {preferred} /\ \A t \in Tabs : ~Asking(t)

AloneHolds(t) ==
    /\ Asking(t) => \A u \in Tabs \ {t} : ~Asking(u)
    /\ HasListed(t) => defaults \subseteq asks[t].previous \cup {asks[t].id}
    /\ asks[t].op = "unset" /\ asks[t].id \in Kept => asks[t].id \in defaults

DefaultsHold ==
    /\ PreferredHolds
    /\ \A t \in Tabs : asks[t].alone => AloneHolds(t)
    /\ \A t \in Tabs : HasListed(t) => asks[t].id \notin asks[t].previous

AccountInv == AccountShaped /\ DefaultsHold

\* What a page shows of the addresses.
LEMMA ShownAddress ==
    ASSUME NEW a
    PROVE  toSavedAddress(a).id = a /\ toSavedAddress(a).lines = saved[a]
<1> DEFINE is == a \in defaults
<1>1. toSavedAddress(a) = [id |-> a, lines |-> saved[a], isDefault |-> is]
  BY Zenon DEF toSavedAddress
<1> HIDE DEF is
<1> QED
  BY <1>1

\* Pages are rendered of what there is.
LEMMA PagesShaped ==
    ASSUME AccountShaped, NEW place, NEW p \in Pages(place)
    PROVE  PageShaped(p) /\ \A e \in p.list : Known(e.id) /\ e.lines \in Lines
<1>1. ASSUME NEW q, NEW list, NEW in, NEW out, q = [place |-> out, list |-> list, signedIn |-> in, refreshing |-> FALSE],
             \A e \in list : Known(e.id) /\ e.lines \in Lines
      PROVE  PageShaped(q) /\ \A e \in q.list : Known(e.id) /\ e.lines \in Lines
  BY <1>1 DEF PageShaped
<1> DEFINE all == {toSavedAddress(a) : a \in Kept}
<1>2. \A e \in all : Known(e.id) /\ e.lines \in Lines
  BY ShownAddress DEF AccountShaped, Kept
<1>3. PICK q, out, list, in :
        /\ p = q /\ q = [place |-> out, list |-> list, signedIn |-> in, refreshing |-> FALSE]
        /\ list \in {{}, all}
  BY DEF Pages, Page, Away, fetchCustomerAddresses
<1> HIDE DEF all
<1> QED
  BY <1>1, <1>2, <1>3

\* Steps that leave what the requests for a default look at.
LEMMA DefaultsStay ==
    ASSUME AccountInv, preferred' = preferred, defaults' = defaults,
           Kept \subseteq Kept', \A a \in Kept' : Known(a) => a \in Kept,
           \A t \in Tabs : asks'[t] = asks[t] \/ ~IsDefaultAsk(asks'[t])
    PROVE  DefaultsHold'
<1>1. ASSUME NEW t \in Tabs, Asking(t)' PROVE asks'[t] = asks[t] /\ Asking(t)
  BY <1>1 DEF Asking
<1>2. ASSUME NEW t \in Tabs, HasListed(t)' PROVE asks'[t] = asks[t] /\ HasListed(t)
  BY <1>2 DEF HasListed, IsDefaultAsk
<1>3. PreferredHolds'
  BY <1>1 DEF AccountInv, DefaultsHold, PreferredHolds
<1>4. ASSUME NEW t \in Tabs, asks'[t].alone PROVE AloneHolds(t)'
  <2>1. CASE ~IsDefaultAsk(asks'[t])
    BY <2>1 DEF AloneHolds, Asking, HasListed, IsDefaultAsk
  <2>2. CASE asks'[t] = asks[t]
    <3>1. AloneHolds(t) /\ Known(asks[t].id)
      BY <1>4, <2>2 DEF AccountInv, AccountShaped, DefaultsHold
    <3> QED
      BY <1>1, <2>2, <3>1 DEF AloneHolds, Asking, HasListed
  <2> QED
    BY <2>1, <2>2
<1>5. \A t \in Tabs : HasListed(t)' => asks'[t].id \notin asks'[t].previous
  BY <1>2 DEF AccountInv, DefaultsHold
<1> QED
  BY <1>3, <1>4, <1>5 DEF DefaultsHold

\* A page, the draft or the session changes.
LEMMA ViewStepKeeps ==
    ASSUME AccountInv,
           saved' = saved, lastAddress' = lastAddress, defaults' = defaults, preferred' = preferred,
           \A t \in Tabs : asks'[t] = asks[t] \/ ~IsDefaultAsk(asks'[t]),
           asks' = [t \in Tabs |-> asks'[t]],
           \A t \in Tabs : AskShaped(asks'[t]) /\ Known(asks'[t].id),
           pages' = [t \in Tabs |-> pages'[t]],
           \A t \in Tabs : PageShaped(pages'[t]) /\ \A e \in pages'[t].list : Known(e.id) /\ e.lines \in Lines,
           draft' = [chosen |-> draft'.chosen, lines |-> draft'.lines], draft'.lines \in Lines \cup {NoLines}
    PROVE  AccountInv'
<1>1. Kept' = Kept /\ \A a : Known(a)' <=> Known(a)
  BY DEF Kept, Known
<1>2. DefaultsHold'
  BY <1>1, DefaultsStay
<1>3. \A t \in Tabs : AskShaped(asks[t])'
  BY DEF AskShaped
<1>4. AccountShaped'
  BY <1>1, <1>3 DEF AccountInv, AccountShaped, PageShaped
<1> QED
  BY <1>2, <1>4 DEF AccountInv

(***************************************************************************)
(* Of numbers with a bound one is the greatest, so a list that is not      *)
(* empty has its newest address.                                           *)
(***************************************************************************)
LEMMA LeastNatural ==
    ASSUME NEW S \in SUBSET Nat, S # {}
    PROVE  \E m \in S : \A k \in S : m <= k
<1> DEFINE R == {ss \in Nat \X Nat : ss[1] < ss[2]}
<1>1. IsWellFoundedOn(R, Nat)
  BY Zenon, NatLessThanWellFounded DEF OpToRel
<1>2. \A k, m \in Nat : k < m => <<k, m>> \in R
  OBVIOUS
<1> HIDE DEF R
<1>3. PICK m \in S : \A k \in S : ~ (<<k, m>> \in R)
  BY <1>1, WFMin
<1>4. ASSUME NEW k \in S PROVE m <= k
  <2>1. k \in Nat /\ m \in Nat
    OBVIOUS
  <2>2. ~(k < m)
    BY <1>2, <1>3, <2>1, Zenon
  <2> QED
    BY <2>1, <2>2
<1> QED
  BY <1>4

LEMMA GreatestOf ==
    ASSUME NEW S, NEW n \in Int, S # {}, \A s \in S : s \in Int /\ s <= n
    PROVE  \E m \in S : \A k \in S : k <= m
<1> DEFINE gaps == {n - s : s \in S}
<1>1. gaps \in SUBSET Nat /\ gaps # {}
  OBVIOUS
<1> HIDE DEF gaps
<1>2. PICK g \in gaps : \A h \in gaps : g <= h
  BY <1>1, LeastNatural
<1>3. PICK m \in S : g = n - m
  BY <1>2 DEF gaps
<1>4. ASSUME NEW k \in S PROVE k <= m
  <2>1. n - k \in gaps
    BY DEF gaps
  <2> QED
    BY <1>2, <1>3, <2>1
<1> QED
  BY <1>3, <1>4

LEMMA FirstIsListed ==
    ASSUME NEW list, list # {}, \A e \in list : Known(e.id), lastAddress \in Nat
    PROVE  First(list) \in list
<1>1. ASSUME NEW some, some \subseteq list, some # {} PROVE Newest(some) \in some
  <2> DEFINE ids == {e.id : e \in some}
  <2>1. ids # {} /\ \A i \in ids : i \in Int /\ i <= lastAddress
    BY <1>1 DEF Known
  <2> HIDE DEF ids
  <2>2. PICK i \in ids : \A k \in ids : k <= i
    BY <2>1, GreatestOf
  <2>3. PICK e \in some : e.id = i
    BY DEF ids
  <2>4. \A f \in some : f.id <= e.id
    BY <2>2, <2>3 DEF ids
  <2> QED
    BY <2>4 DEF Newest
<1> DEFINE heads == {e \in list : e.isDefault}
<1>2. heads \subseteq list
  OBVIOUS
<1>3. First(list) = Newest(IF heads = {} THEN list ELSE heads)
  BY DEF First
<1> HIDE DEF heads
<1> QED
  BY <1>1, <1>2, <1>3

\* A page is opened, or rendered again.
LEMMA PageStepKeeps ==
    ASSUME AccountInv, NEW t \in Tabs, NEW p,
           PageShaped(p), \A e \in p.list : Known(e.id) /\ e.lines \in Lines,
           pages' = [pages EXCEPT ![t] = p],
           UNCHANGED <<saved, lastAddress, defaults, preferred, asks>>,
           draft' = [chosen |-> draft'.chosen, lines |-> draft'.lines], draft'.lines \in Lines \cup {NoLines}
    PROVE  AccountInv'
<1>1. /\ pages' = [u \in Tabs |-> pages'[u]]
      /\ pages'[t] = p /\ \A u \in Tabs \ {t} : pages'[u] = pages[u]
  BY DEF AccountInv, AccountShaped
<1> QED
  BY <1>1, ViewStepKeeps DEF AccountInv, AccountShaped

\* The draft is filled in, typed into or cleared.
LEMMA DraftStepKeeps ==
    ASSUME AccountInv, UNCHANGED <<saved, lastAddress, defaults, preferred, asks, pages>>,
           draft' = [chosen |-> draft'.chosen, lines |-> draft'.lines], draft'.lines \in Lines \cup {NoLines}
    PROVE  AccountInv'
BY ViewStepKeeps DEF AccountInv, AccountShaped

\* A tab's request begins, fails or ends, which is not for the default from
\* then on.
LEMMA RequestStepKeeps ==
    ASSUME AccountInv, NEW t \in Tabs, NEW r, AskShaped(r), Known(r.id), ~IsDefaultAsk(r),
           asks' = [asks EXCEPT ![t] = r],
           UNCHANGED <<saved, lastAddress, defaults, preferred, pages, draft>>
    PROVE  AccountInv'
<1>1. /\ asks' = [u \in Tabs |-> asks'[u]]
      /\ asks'[t] = r /\ \A u \in Tabs \ {t} : asks'[u] = asks[u]
  BY DEF AccountInv, AccountShaped
<1> QED
  BY <1>1, ViewStepKeeps DEF AccountInv, AccountShaped

LEMMA AwayShaped ==
    ASSUME AccountShaped
    PROVE  PageShaped(Away) /\ Away.list = {}
BY DEF PageShaped, Away, Page

LEMMA ViewActionsKeep ==
    ASSUME AccountInv, NEW t \in Tabs,
           \/ \E place \in {"addresses", "checkout"} : Open(t, place)
           \/ Refreshed(t) \/ Logout(t) \/ Callback \/ FillIn(t) \/ Pick(t) \/ Type(t) \/ ClearDraft(t)
    PROVE  AccountInv'
<1> USE DEF AccountInv
<1>1. draft = [chosen |-> draft.chosen, lines |-> draft.lines] /\ draft.lines \in Lines \cup {NoLines}
  BY DEF AccountShaped
<1>2. CASE \E place \in {"addresses", "checkout"} : Open(t, place)
  <2>1. PICK place : Open(t, place)
    BY <1>2
  <2>2. PICK p \in Pages(place) :
          /\ pages' = [pages EXCEPT ![t] = p]
          /\ UNCHANGED <<saved, lastAddress, defaults, preferred, asks, draft>>
    BY <2>1 DEF Open
  <2> QED
    BY <1>1, <2>2, PagesShaped, PageStepKeeps
<1>3. CASE Refreshed(t)
  <2>1. PICK p \in Pages(pages[t].place) :
          /\ pages' = [pages EXCEPT ![t] = p]
          /\ UNCHANGED <<saved, lastAddress, defaults, preferred, asks, draft>>
    BY <1>3 DEF Refreshed
  <2> QED
    BY <1>1, <2>1, PagesShaped, PageStepKeeps
<1>4. CASE Logout(t)
  BY <1>1, <1>4, AwayShaped, PageStepKeeps DEF Logout
<1>5. CASE Callback
  BY <1>1, <1>5, DraftStepKeeps DEF Callback
<1>6. ASSUME NEW e \in pages[t].list, Chosen(e), UNCHANGED <<saved, lastAddress, defaults, preferred, asks, pages>>
      PROVE  AccountInv'
  <2>1. draft' = [chosen |-> e.id, lines |-> e.lines] /\ e.lines \in Lines
    BY <1>6 DEF Chosen, draftFromSavedAddress, AccountShaped
  <2> QED
    BY <1>6, <2>1, DraftStepKeeps
<1>7. CASE FillIn(t)
  <2>1. First(pages[t].list) \in pages[t].list
    <3>1. pages[t].list # {} /\ \A e \in pages[t].list : Known(e.id)
      BY <1>7 DEF FillIn, AccountShaped
    <3> QED
      BY <3>1, FirstIsListed DEF AccountShaped
  <2> QED
    BY <1>6, <1>7, <2>1 DEF FillIn
<1>8. CASE Pick(t)
  <2>1. CASE draft' = [chosen |-> NewAddress, lines |-> NoLines]
    BY <1>8, <2>1, DraftStepKeeps DEF Pick
  <2> QED
    BY <1>6, <1>8, <2>1 DEF Pick
<1>9. CASE Type(t)
  <2>1. PICK lines \in Lines : draft' = [draft EXCEPT !.lines = lines]
    BY <1>9 DEF Type
  <2>2. draft' = [chosen |-> draft.chosen, lines |-> lines]
    BY <1>1, <2>1
  <2> QED
    BY <1>9, <2>2, DraftStepKeeps DEF Type
<1>10. CASE ClearDraft(t)
  <2>1. draft' = [chosen |-> NoAddress, lines |-> NoLines]
    BY <1>10 DEF ClearDraft
  <2>2. draft' = [chosen |-> draft'.chosen, lines |-> draft'.lines] /\ draft'.lines \in Lines \cup {NoLines}
    BY <2>1
  <2>3. PageShaped(Away) /\ \A e \in Away.list : Known(e.id) /\ e.lines \in Lines
    BY AwayShaped
  <2>4. /\ pages' = [pages EXCEPT ![t] = Away]
        /\ UNCHANGED <<saved, lastAddress, defaults, preferred, asks>>
    BY <1>10 DEF ClearDraft
  <2> QED
    BY <2>2, <2>3, <2>4, PageStepKeeps
<1> QED
  BY <1>2, <1>3, <1>4, <1>5, <1>7, <1>8, <1>9, <1>10

(***************************************************************************)
(* The requests.                                                           *)
(***************************************************************************)
\* A request as it is made.
LEMMA RequestShape ==
    ASSUME NEW op, NEW id, NEW lines, op \in {"create", "edit"} => lines \in Lines
    PROVE  /\ AskShaped(Request(op, id, lines))
           /\ Request(op, id, lines).id = id /\ Request(op, id, lines).op = op
<1> DEFINE no == FALSE
           r1 == [[op |-> "idle", id |-> NoAddress, lines |-> NoLines, previous |-> {}, alone |-> no]
                    EXCEPT !.op = op]
           r2 == [r1 EXCEPT !.id = id]
           r3 == [r2 EXCEPT !.lines = lines]
<1>1. Request(op, id, lines) = r3
  BY Zenon DEF Request, NoAsk
<1>2. no = FALSE
  OBVIOUS
<1> HIDE DEF no
<1>3. r1 = [op |-> op, id |-> NoAddress, lines |-> NoLines, previous |-> {}, alone |-> no]
  OBVIOUS
<1> HIDE DEF r1
<1>4. r2 = [op |-> op, id |-> id, lines |-> NoLines, previous |-> {}, alone |-> no]
  BY <1>3
<1> HIDE DEF r2
<1>5. r3 = [op |-> op, id |-> id, lines |-> lines, previous |-> {}, alone |-> no]
  BY <1>4
<1> HIDE DEF r3
<1>6. /\ r3 = [op |-> r3.op, id |-> r3.id, lines |-> r3.lines, previous |-> r3.previous, alone |-> r3.alone]
      /\ r3.op = op /\ r3.id = id /\ r3.lines = lines /\ r3.previous = {} /\ r3.alone = no
  BY <1>5
<1>7. r3.alone \in BOOLEAN /\ ~r3.alone
  BY <1>2, <1>6
<1>8. AskShaped(r3)
  BY <1>6, <1>7 DEF AskShaped
<1> QED
  BY <1>1, <1>6, <1>7, <1>8

LEMMA NoAskShape ==
    ASSUME AccountShaped
    PROVE  AskShaped(NoAsk) /\ Known(NoAsk.id) /\ ~IsDefaultAsk(NoAsk)
BY DEF AskShaped, NoAsk, Known, NoAddress, IsDefaultAsk, AccountShaped

\* A request goes on to its next call, or to its end.
LEMMA AskMoves ==
    ASSUME NEW r, AskShaped(r), NEW op, op \notin {"create", "edit"}
    PROVE  /\ AskShaped([r EXCEPT !.op = op]) /\ [r EXCEPT !.op = op].op = op
           /\ [r EXCEPT !.op = op].id = r.id /\ [r EXCEPT !.op = op].previous = r.previous
           /\ [r EXCEPT !.op = op].alone = r.alone
<1>1. r = [op |-> r.op, id |-> r.id, lines |-> r.lines, previous |-> r.previous, alone |-> r.alone]
  BY DEF AskShaped
<1>2. [r EXCEPT !.op = op] = [op |-> op, id |-> r.id, lines |-> r.lines, previous |-> r.previous, alone |-> r.alone]
  BY <1>1
<1> QED
  BY <1>2 DEF AskShaped

LEMMA AskActionsKeep ==
    ASSUME AccountInv, NEW t \in Tabs, AskSave(t) \/ AskRemove(t) \/ AskClose(t) \/ SaveAddress(t)
    PROVE  AccountInv'
<1>1. UNCHANGED <<saved, lastAddress, defaults, preferred, pages, draft>>
  BY DEF AskSave, AskRemove, AskClose, SaveAddress
<1>2. ASSUME NEW op \in {"create", "edit", "remove", "close"}, NEW id, Known(id), NEW lines,
             op \in {"create", "edit"} => lines \in Lines, Send(t, Request(op, id, lines))
      PROVE  AccountInv'
  <2> DEFINE r == Request(op, id, lines)
  <2>1. AskShaped(r) /\ r.id = id /\ r.op = op
    BY <1>2, RequestShape
  <2>2. asks' = [asks EXCEPT ![t] = r]
    BY <1>2 DEF Send
  <2> HIDE DEF r
  <2>3. Known(r.id) /\ ~IsDefaultAsk(r)
    BY <1>2, <2>1 DEF IsDefaultAsk
  <2> QED
    BY <1>1, <2>1, <2>2, <2>3, RequestStepKeeps
<1>3. /\ Known(NoAddress) /\ draft.lines \in Lines \cup {NoLines}
      /\ \A e \in Cards(t) : Known(e.id)
  BY DEF Known, NoAddress, AccountInv, AccountShaped, Cards
<1>4. CASE AskSave(t)
  <2>1. PICK lines \in Lines :
          \/ Send(t, Request("create", NoAddress, lines))
          \/ \E e \in Cards(t) : Send(t, Request("edit", e.id, lines))
    BY <1>4 DEF AskSave, validAddressFields
  <2>2. CASE Send(t, Request("create", NoAddress, lines))
    BY <1>2, <1>3, <2>2
  <2>3. ASSUME NEW e \in Cards(t), Send(t, Request("edit", e.id, lines)) PROVE AccountInv'
    BY <1>2, <1>3, <2>3
  <2> QED
    BY <2>1, <2>2, <2>3
<1>5. CASE AskRemove(t)
  <2>1. PICK e \in Cards(t) : Send(t, Request("remove", e.id, NoLines))
    BY <1>5 DEF AskRemove
  <2> QED
    BY <1>2, <1>3, <2>1
<1>6. CASE AskClose(t)
  <2>1. Send(t, Request("close", NoAddress, NoLines))
    BY <1>6 DEF AskClose
  <2> QED
    BY <1>2, <1>3, <2>1
<1>7. CASE SaveAddress(t)
  <2>1. Send(t, Request("create", NoAddress, draft.lines)) /\ draft.lines # NoLines
    BY <1>7 DEF SaveAddress, validAddressFields
  <2> QED
    BY <1>2, <1>3, <2>1
<1> QED
  BY <1>4, <1>5, <1>6, <1>7

LEMMA EndsKeep ==
    ASSUME AccountInv, NEW t \in Tabs, CallFails(t) \/ Done(t) \/ Closed(t) \/ LosesAnswer(t)
    PROVE  AccountInv'
<1> USE DEF AccountInv
<1>1. AccountShaped /\ AskShaped(asks[t]) /\ Known(asks[t].id)
  BY DEF AccountShaped
<1>2. CASE CallFails(t)
  <2>1. asks' = [asks EXCEPT ![t] = [asks[t] EXCEPT !.op = "failed"]]
    BY <1>2 DEF CallFails, To, AccountShaped
  <2> DEFINE r == [asks[t] EXCEPT !.op = "failed"]
  <2>2. AskShaped(r) /\ r.op = "failed" /\ r.id = asks[t].id
    BY <1>1, AskMoves
  <2> HIDE DEF r
  <2>3. Known(r.id) /\ ~IsDefaultAsk(r)
    BY <1>1, <2>2 DEF IsDefaultAsk
  <2>4. asks' = [asks EXCEPT ![t] = r]
    BY <2>1 DEF r
  <2> QED
    BY <1>2, <2>2, <2>3, <2>4, RequestStepKeeps DEF CallFails
<1>3. CASE LosesAnswer(t)
  BY <1>1, <1>3, NoAskShape, RequestStepKeeps DEF LosesAnswer, Freed
<1>4. CASE Done(t) \/ Closed(t)
  <2> DEFINE waits == pages[t].place = "addresses"
             page == [pages[t] EXCEPT !.refreshing = waits]
  <2>1. /\ asks' = [asks EXCEPT ![t] = NoAsk]
        /\ pages' = [pages EXCEPT ![t] = page] \/ pages' = [pages EXCEPT ![t] = Away]
        /\ UNCHANGED <<saved, lastAddress, defaults, preferred, draft>>
    BY <1>4 DEF Done, Closed, Freed, AccountShaped
  <2> HIDE DEF waits
  <2>2. PageShaped(page) /\ page.list = pages[t].list
    BY DEF PageShaped, AccountShaped
  <2> HIDE DEF page
  <2>3. /\ pages' = [u \in Tabs |-> pages'[u]]
        /\ pages'[t] \in {page, Away} /\ \A u \in Tabs \ {t} : pages'[u] = pages[u]
    BY <2>1 DEF AccountShaped
  <2>4. /\ asks' = [u \in Tabs |-> asks'[u]]
        /\ asks'[t] = NoAsk /\ \A u \in Tabs \ {t} : asks'[u] = asks[u]
    BY <2>1 DEF AccountShaped
  <2>5. \A u \in Tabs : /\ PageShaped(pages'[u])
                        /\ \A e \in pages'[u].list : Known(e.id) /\ e.lines \in Lines
    BY <2>2, <2>3, AwayShaped DEF AccountShaped
  <2>6. \A u \in Tabs : /\ asks'[u] = asks[u] \/ ~IsDefaultAsk(asks'[u])
                        /\ AskShaped(asks'[u]) /\ Known(asks'[u].id)
    BY <2>4, NoAskShape DEF AccountShaped
  <2>7. draft' = [chosen |-> draft'.chosen, lines |-> draft'.lines] /\ draft'.lines \in Lines \cup {NoLines}
    BY <2>1 DEF AccountShaped
  <2> QED
    BY <2>1, <2>3, <2>4, <2>5, <2>6, <2>7, ViewStepKeeps
<1> QED
  BY <1>2, <1>3, <1>4

(***************************************************************************)
(* The request for a default.                                              *)
(***************************************************************************)
LEMMA AloneSet ==
    ASSUME NEW r, AskShaped(r), NEW b \in BOOLEAN
    PROVE  LET q == [r EXCEPT !.alone = b]
           IN  /\ AskShaped(q) /\ q.op = r.op /\ q.id = r.id /\ q.lines = r.lines
               /\ q.previous = r.previous /\ (q.alone <=> b)
<1> DEFINE q == [r EXCEPT !.alone = b]
<1>1. /\ r = [op |-> r.op, id |-> r.id, lines |-> r.lines, previous |-> r.previous, alone |-> r.alone]
      /\ r.op \in {"create", "edit"} => r.lines \in Lines
  BY DEF AskShaped
<1>2. q = [op |-> r.op, id |-> r.id, lines |-> r.lines, previous |-> r.previous, alone |-> b]
  BY <1>1
<1> HIDE DEF q
<1>3. /\ q = [op |-> q.op, id |-> q.id, lines |-> q.lines, previous |-> q.previous, alone |-> q.alone]
      /\ q.op = r.op /\ q.id = r.id /\ q.lines = r.lines /\ q.previous = r.previous /\ q.alone = b
  BY <1>2
<1>4. AskShaped(q)
  BY <1>1, <1>3 DEF AskShaped
<1> QED
  BY <1>3, <1>4 DEF q

\* While one is on its way, nothing is preferred and no other is alone.
LEMMA NoneBeside ==
    ASSUME AccountInv, NEW t \in Tabs, Asking(t)
    PROVE  preferred = NoAddress /\ \A u \in Tabs \ {t} : asks[u].alone => ~Asking(u)
BY DEF AccountInv, DefaultsHold, PreferredHolds, AloneHolds

\* Its steps.
LEMMA AskingStepKeeps ==
    ASSUME AccountInv, NEW t \in Tabs, Asking(t), NEW r, AskShaped(r), Known(r.id),
           r.op \in {"set", "unset"} => r.id \notin r.previous,
           asks' = [asks EXCEPT ![t] = r],
           UNCHANGED <<saved, lastAddress, pages, draft>>, defaults' \subseteq Kept,
           r.alone => AloneHolds(t)', PreferredHolds'
    PROVE  AccountInv'
<1>1. Kept' = Kept /\ \A a : Known(a)' <=> Known(a)
  BY DEF Kept, Known
<1>2. /\ asks' = [u \in Tabs |-> asks'[u]]
      /\ asks'[t] = r /\ \A u \in Tabs \ {t} : asks'[u] = asks[u]
  BY DEF AccountInv, AccountShaped
<1>3. \A u \in Tabs : AskShaped(asks'[u]) /\ Known(asks'[u].id)
  BY <1>2 DEF AccountInv, AccountShaped
<1>4. AccountShaped'
  <2>1. \A u \in Tabs : AskShaped(asks[u])' /\ Known(asks[u].id)'
    BY <1>1, <1>3 DEF AskShaped, Known
  <2> QED
    BY <1>1, <1>2, <2>1 DEF AccountInv, AccountShaped, PageShaped
<1>5. ASSUME NEW u \in Tabs, asks'[u].alone PROVE AloneHolds(u)'
  <2>1. CASE u # t
    BY <1>2, <1>5, <2>1, NoneBeside DEF AloneHolds, Asking, HasListed, IsDefaultAsk
  <2> QED
    BY <1>2, <1>5, <2>1
<1>6. \A u \in Tabs : HasListed(u)' => asks'[u].id \notin asks'[u].previous
  BY <1>2 DEF HasListed, AccountInv, DefaultsHold
<1> QED
  BY <1>4, <1>5, <1>6 DEF AccountInv, DefaultsHold

LEMMA AskDefaultKeeps ==
    ASSUME AccountInv, NEW t \in Tabs, AskDefault(t)
    PROVE  AccountInv'
<1> DEFINE none == {u \in Tabs : IsDefaultAsk(asks[u])} = {}
           no == FALSE
<1>1. PICK e \in Cards(t) :
        asks' = [u \in Tabs |->
                   IF u = t THEN [Request("list", e.id, NoLines) EXCEPT !.alone = none]
                   ELSE [asks[u] EXCEPT !.alone = no]]
  BY DEF AskDefault, Offered
<1>2. /\ preferred' = NoAddress /\ asks[t].op = "idle"
      /\ UNCHANGED <<saved, lastAddress, defaults, pages, draft>>
  BY DEF AskDefault, IdleAt
<1>3. Known(e.id) /\ none \in BOOLEAN /\ no \in BOOLEAN /\ ~no
  BY DEF Cards, AccountInv, AccountShaped
<1>4. none => \A u \in Tabs : ~Asking(u)
  BY DEF Asking
<1> HIDE DEF none, no
<1>5. /\ AskShaped(asks'[t]) /\ asks'[t].op = "list" /\ asks'[t].id = e.id
      /\ asks'[t].alone => none
  <2> DEFINE r == Request("list", e.id, NoLines)
  <2>1. AskShaped(r) /\ r.id = e.id /\ r.op = "list"
    BY RequestShape
  <2> HIDE DEF r
  <2>2. asks'[t] = [r EXCEPT !.alone = none]
    BY <1>1 DEF r
  <2> QED
    BY <1>3, <2>1, <2>2, AloneSet
<1>6. ASSUME NEW u \in Tabs \ {t}
      PROVE  /\ AskShaped(asks'[u]) /\ asks'[u].op = asks[u].op /\ asks'[u].id = asks[u].id
             /\ asks'[u].previous = asks[u].previous /\ ~asks'[u].alone
  <2>1. asks'[u] = [asks[u] EXCEPT !.alone = no] /\ AskShaped(asks[u])
    BY <1>1 DEF AccountInv, AccountShaped
  <2> QED
    BY <1>3, <2>1, AloneSet
<1>7. Kept' = Kept /\ \A a : Known(a)' <=> Known(a)
  BY <1>2 DEF Kept, Known
<1>8. AccountShaped'
  <2>1. \A u \in Tabs : AskShaped(asks'[u]) /\ Known(asks'[u].id)
    BY <1>3, <1>5, <1>6 DEF AccountInv, AccountShaped
  <2>2. \A u \in Tabs : AskShaped(asks[u])' /\ Known(asks[u].id)'
    BY <1>7, <2>1 DEF AskShaped, Known
  <2>3. asks' = [u \in Tabs |-> asks'[u]]
    BY <1>1
  <2> QED
    BY <1>2, <1>7, <2>2, <2>3 DEF AccountInv, AccountShaped, PageShaped
<1>9. AloneHolds(t)' \/ ~asks'[t].alone
  <2>1. ASSUME none, NEW u \in Tabs \ {t} PROVE ~Asking(u)'
    BY <1>4, <1>6, <2>1 DEF Asking, IsDefaultAsk
  <2> QED
    BY <1>5, <2>1 DEF AloneHolds, HasListed
<1>10. \A u \in Tabs : HasListed(u)' => asks'[u].id \notin asks'[u].previous
  BY <1>5, <1>6 DEF HasListed, AccountInv, DefaultsHold
<1>11. DefaultsHold'
  BY <1>2, <1>6, <1>9, <1>10 DEF DefaultsHold, PreferredHolds
<1> QED
  BY <1>8, <1>11 DEF AccountInv

\* The defaults there were, when there was one at most: the request's own or
\* the one it found.
LEMMA FoundIsTheOther ==
    ASSUME AccountAssumption, AccountInv, NEW id, NEW found \in SUBSET (defaults \ {id}),
           Cardinality(found) = (IF defaults \ {id} = {} THEN 0 ELSE 1),
           Cardinality(defaults) <= 1
    PROVE  defaults \subseteq found \cup {id}
<1>1. IsFiniteSet(defaults) /\ IsFiniteSet(found)
  <2>1. defaults \subseteq 1..MaxAddresses
    BY DEF AccountInv, AccountShaped, Kept, AddressIds
  <2>2. IsFiniteSet(1..MaxAddresses)
    BY FS_Interval, AccountAssumption
  <2> QED
    BY <2>1, <2>2, FS_Subset
<1>2. CASE defaults \ {id} = {}
  BY <1>2
<1>3. CASE defaults \ {id} # {}
  <2>1. Cardinality(found) = 1 /\ found \subseteq defaults
    BY <1>3
  <2>2. Cardinality(found) <= Cardinality(defaults) /\ Cardinality(defaults) \in Nat
    BY <1>1, <2>1, FS_Subset, FS_CardinalityType
  <2>3. Cardinality(defaults) = Cardinality(found)
    BY <2>1, <2>2
  <2>4. defaults = found
    BY <1>1, <2>1, <2>3, FS_Subset
  <2> QED
    BY <2>4
<1> QED
  BY <1>2, <1>3

LEMMA ListAddressesKeeps ==
    ASSUME AccountAssumption, AccountInv, NEW t \in Tabs, ListAddresses(t)
    PROVE  AccountInv'
<1> DEFINE ask == asks[t]
           first == Cardinality(defaults) <= 1
           alone == ask.alone /\ first
           listed(f) == [ask EXCEPT !.op = "set", !.previous = f, !.alone = alone]
<1>1. PICK found \in SUBSET (defaults \ {ask.id}) :
        /\ Cardinality(found) = (IF defaults \ {ask.id} = {} THEN 0 ELSE 1)
        /\ asks' = [asks EXCEPT ![t] = listed(found)]
  BY DEF ListAddresses, Previous
<1>2. /\ ask.op = "list" /\ AskShaped(ask) /\ Known(ask.id) /\ defaults \subseteq Kept
      /\ UNCHANGED <<saved, lastAddress, defaults, pages, draft, preferred>>
  BY DEF ListAddresses, AccountInv, AccountShaped
<1>3. Asking(t) /\ preferred = NoAddress
  BY <1>2, NoneBeside DEF Asking, IsDefaultAsk
<1> DEFINE r1 == [ask EXCEPT !.op = "set"]
           r2 == [r1 EXCEPT !.previous = found]
           r3 == [r2 EXCEPT !.alone = alone]
<1>4. /\ r1 = [op |-> "set", id |-> ask.id, lines |-> ask.lines, previous |-> ask.previous, alone |-> ask.alone]
      /\ r2 = [op |-> "set", id |-> ask.id, lines |-> ask.lines, previous |-> found, alone |-> ask.alone]
  <2>1. ask = [op |-> ask.op, id |-> ask.id, lines |-> ask.lines, previous |-> ask.previous,
               alone |-> ask.alone]
    BY <1>2 DEF AskShaped
  <2> HIDE DEF ask
  <2>2. r1 = [op |-> "set", id |-> ask.id, lines |-> ask.lines, previous |-> ask.previous, alone |-> ask.alone]
    BY <2>1
  <2> HIDE DEF r1
  <2> QED
    BY <2>2
<1>5. r2.alone = ask.alone /\ AskShaped(r2) /\ r2.op = "set" /\ r2.id = ask.id /\ r2.previous = found
  <2>1. ask.alone \in BOOLEAN
    BY <1>2 DEF AskShaped
  <2> HIDE DEF ask, r2
  <2> QED
    BY <1>4, <2>1 DEF AskShaped
<1>6. asks' = [asks EXCEPT ![t] = r3]
  BY <1>1, Zenon
<1>7. alone \in BOOLEAN
  OBVIOUS
<1>8. alone => ask.alone /\ first
  OBVIOUS
<1> HIDE DEF alone, r2
<1>9. /\ AskShaped(r3) /\ r3.op = "set" /\ r3.id = ask.id /\ r3.previous = found
      /\ r3.alone => alone
  BY <1>5, <1>7, AloneSet
<1> HIDE DEF r3
<1>10. r3.alone => AloneHolds(t)'
  <2> SUFFICES ASSUME r3.alone PROVE AloneHolds(t)'
    OBVIOUS
  <2>1. /\ asks'[t] = r3 /\ \A u \in Tabs \ {t} : asks'[u] = asks[u]
    BY <1>6 DEF AccountInv, AccountShaped
  <2>2. \A u \in Tabs \ {t} : ~Asking(u)
    BY <1>3, <1>8, <1>9 DEF AccountInv, DefaultsHold, AloneHolds
  <2>3. defaults \subseteq found \cup {ask.id}
    BY <1>1, <1>8, <1>9, FoundIsTheOther
  <2> QED
    BY <1>2, <1>9, <2>1, <2>2, <2>3 DEF AloneHolds, Asking, HasListed
<1>11. PreferredHolds'
  BY <1>2, <1>3 DEF PreferredHolds
<1> QED
  BY <1>1, <1>2, <1>3, <1>6, <1>9, <1>10, <1>11, AskingStepKeeps

LEMMA SetDefaultKeeps ==
    ASSUME AccountInv, NEW t \in Tabs, SetDefault(t)
    PROVE  AccountInv'
<1> DEFINE ask == asks[t]
           op == IF ask.previous = {} THEN "done" ELSE "unset"
           r == [ask EXCEPT !.op = op]
<1>1. /\ ask.op = "set" /\ ask.id \in Kept /\ AskShaped(ask) /\ Known(ask.id) /\ defaults \subseteq Kept
      /\ asks = [u \in Tabs |-> asks[u]] /\ ask.id \notin ask.previous
      /\ UNCHANGED <<saved, lastAddress, pages, draft>>
  BY DEF SetDefault, Finds, AccountInv, AccountShaped, DefaultsHold, HasListed
<1>2. Asking(t) /\ preferred = NoAddress
  BY <1>1, NoneBeside DEF Asking, IsDefaultAsk
<1>3. asks' = [asks EXCEPT ![t] = r]
  BY <1>1 DEF SetDefault, To
<1>4. AskShaped(r) /\ r.op = op /\ r.id = ask.id /\ r.previous = ask.previous /\ r.alone = ask.alone
  BY <1>1, AskMoves
<1>5. /\ defaults' \in {defaults \cup {ask.id}, {ask.id}} /\ defaults' \subseteq Kept
      /\ preferred' = IF ask.previous = {} /\ ask.alone THEN ask.id ELSE NoAddress
  BY <1>1, <1>2 DEF SetDefault, Prefers
<1>6. asks'[t] = r /\ \A u \in Tabs \ {t} : asks'[u] = asks[u]
  BY <1>1, <1>3
<1>7. Kept' = Kept
  BY <1>1 DEF Kept
<1> HIDE DEF r
<1>8. ASSUME ask.alone
      PROVE  /\ defaults' \subseteq ask.previous \cup {ask.id} /\ ask.id \in defaults'
             /\ \A u \in Tabs \ {t} : ~Asking(u)'
  <2>1. AloneHolds(t)
    BY <1>8 DEF AccountInv, DefaultsHold
  <2>2. defaults \subseteq ask.previous \cup {ask.id}
    BY <1>1, <2>1 DEF AloneHolds, HasListed
  <2> QED
    BY <1>2, <1>5, <1>6, <2>1, <2>2 DEF AloneHolds, Asking
<1>9. r.alone => AloneHolds(t)'
  BY <1>4, <1>6, <1>8 DEF AloneHolds, HasListed
<1>10. PreferredHolds'
  <2>1. CASE ask.previous = {} /\ ask.alone
    <3>1. preferred' = ask.id /\ defaults' = {ask.id} /\ ~Asking(t)'
      BY <1>4, <1>5, <1>6, <1>8, <2>1 DEF Asking, IsDefaultAsk
    <3> QED
      BY <1>1, <1>7, <1>8, <2>1, <3>1 DEF PreferredHolds
  <2>2. CASE ~(ask.previous = {} /\ ask.alone)
    BY <1>5, <2>2 DEF PreferredHolds
  <2> QED
    BY <2>1, <2>2
<1> QED
  BY <1>1, <1>2, <1>3, <1>4, <1>5, <1>9, <1>10, AskingStepKeeps

LEMMA UnsetDefaultKeeps ==
    ASSUME AccountInv, NEW t \in Tabs, UnsetDefault(t)
    PROVE  AccountInv'
<1> DEFINE ask == asks[t]
           r == [ask EXCEPT !.op = "done"]
<1>1. /\ ask.op = "unset" /\ AskShaped(ask) /\ Known(ask.id) /\ defaults \subseteq Kept
      /\ asks = [u \in Tabs |-> asks[u]] /\ ask.id \notin ask.previous
      /\ defaults' = defaults \ ask.previous
      /\ UNCHANGED <<saved, lastAddress, pages, draft>>
  BY DEF UnsetDefault, AccountInv, AccountShaped, DefaultsHold, HasListed
<1>2. Asking(t) /\ preferred = NoAddress
  BY <1>1, NoneBeside DEF Asking, IsDefaultAsk
<1>3. asks' = [asks EXCEPT ![t] = r]
  BY <1>1 DEF UnsetDefault, To
<1>4. AskShaped(r) /\ r.op = "done" /\ r.id = ask.id
  BY <1>1, AskMoves
<1>5. preferred' = IF ask.alone /\ ask.id \in Kept THEN ask.id ELSE NoAddress
  BY <1>2 DEF UnsetDefault, Prefers
<1>6. asks'[t] = r /\ \A u \in Tabs \ {t} : asks'[u] = asks[u]
  BY <1>1, <1>3
<1>7. Kept' = Kept
  BY <1>1 DEF Kept
<1> HIDE DEF r
<1>8. ASSUME ask.alone
      PROVE  /\ ask.id \in Kept => defaults' = {ask.id}
             /\ \A u \in Tabs : ~Asking(u)'
  <2>1. AloneHolds(t)
    BY <1>8 DEF AccountInv, DefaultsHold
  <2>2. defaults \subseteq ask.previous \cup {ask.id} /\ (ask.id \in Kept => ask.id \in defaults)
    BY <1>1, <2>1 DEF AloneHolds, HasListed
  <2>3. \A u \in Tabs \ {t} : ~Asking(u)'
    BY <1>2, <1>6, <2>1 DEF AloneHolds, Asking
  <2>4. ~Asking(t)'
    BY <1>4, <1>6 DEF Asking, IsDefaultAsk
  <2> QED
    BY <1>1, <2>2, <2>3, <2>4
<1>9. AloneHolds(t)'
  BY <1>4, <1>6 DEF AloneHolds, HasListed, Asking, IsDefaultAsk
<1>10. PreferredHolds'
  BY <1>5, <1>7, <1>8 DEF PreferredHolds
<1> QED
  BY <1>1, <1>2, <1>3, <1>4, <1>9, <1>10, AskingStepKeeps

\* An address is created under a new id, or rewritten.
LEMMA WriteAddressKeeps ==
    ASSUME AccountAssumption, AccountInv, NEW t \in Tabs, CreateAddress(t) \/ UpdateAddress(t)
    PROVE  AccountInv'
<1> DEFINE ask == asks[t]
           r == [ask EXCEPT !.op = "done"]
<1>1. /\ ask.op \in {"create", "edit"} /\ AskShaped(ask) /\ Known(ask.id) /\ ask.lines \in Lines
      /\ asks = [u \in Tabs |-> asks[u]] /\ defaults \subseteq Kept /\ lastAddress \in Nat
      /\ saved \in [AddressIds -> Lines \cup {NoLines}]
      /\ UNCHANGED <<defaults, preferred, pages, draft>>
  BY DEF CreateAddress, UpdateAddress, AccountInv, AccountShaped, AskShaped
<1>2. asks' = [asks EXCEPT ![t] = r]
  BY <1>1 DEF CreateAddress, UpdateAddress, To
<1>3. AskShaped(r) /\ r.op = "done" /\ r.id = ask.id
  BY <1>1, AskMoves
<1>4. asks'[t] = r /\ \A u \in Tabs \ {t} : asks'[u] = asks[u]
  BY <1>1, <1>2
<1>5. PICK id \in AddressIds :
        /\ saved' = [saved EXCEPT ![id] = ask.lines]
        /\ \/ id = lastAddress + 1 /\ lastAddress' = id
           \/ id \in Kept /\ lastAddress' = lastAddress
  <2>1. CASE CreateAddress(t)
    <3>1. lastAddress < MaxAddresses /\ lastAddress' = lastAddress + 1
      BY <2>1 DEF CreateAddress
    <3>2. lastAddress' \in AddressIds
      <4>1. MaxAddresses \in Nat /\ lastAddress \in Nat
        BY <1>1, AccountAssumption
      <4> QED
        BY <3>1, <4>1 DEF AddressIds
    <3>3. saved' = [saved EXCEPT ![lastAddress'] = ask.lines]
      BY <2>1 DEF CreateAddress
    <3> QED
      BY <3>1, <3>2, <3>3
  <2>2. CASE UpdateAddress(t)
    BY <2>2 DEF UpdateAddress, Finds, Kept
  <2> QED
    BY <2>1, <2>2
<1> HIDE DEF r
<1>6. NoLines \notin Lines
  BY AccountAssumption
<1>7. Kept' = Kept \cup {id}
  BY <1>1, <1>5, <1>6 DEF Kept
<1>8. \A a : Known(a) => Known(a)'
  BY <1>1, <1>5 DEF Known
<1>9. \A a \in Kept' : Known(a) => a \in Kept
  BY <1>1, <1>5, <1>7 DEF Known
<1>10. \A a \in Kept' : Known(a)'
  BY <1>1, <1>5, <1>7, <1>8 DEF Known, AccountInv, AccountShaped
<1>11. DefaultsHold'
  BY <1>1, <1>3, <1>4, <1>7, <1>9, DefaultsStay DEF IsDefaultAsk
<1>12. AccountShaped'
  <2>1. \A u \in Tabs : AskShaped(asks'[u]) /\ Known(asks'[u].id)
    BY <1>1, <1>3, <1>4 DEF AccountInv, AccountShaped
  <2>2. \A u \in Tabs : AskShaped(asks[u])' /\ Known(asks[u].id)'
    BY <1>8, <2>1 DEF AskShaped
  <2>3. saved' \in [AddressIds -> Lines \cup {NoLines}] /\ lastAddress' \in Nat
    BY <1>1, <1>5
  <2>4. \A u \in Tabs : /\ PageShaped(pages[u])'
                        /\ \A e \in pages'[u].list : Known(e.id)' /\ e.lines \in Lines
    BY <1>1, <1>8 DEF AccountInv, AccountShaped, PageShaped
  <2>5. asks' = [u \in Tabs |-> asks'[u]] /\ pages' = [u \in Tabs |-> pages'[u]]
    BY <1>1, <1>2 DEF AccountInv, AccountShaped
  <2>6. defaults' \subseteq Kept' /\ draft' = draft
    BY <1>1, <1>7
  <2> QED
    BY <1>10, <2>1, <2>2, <2>3, <2>4, <2>5, <2>6 DEF AccountInv, AccountShaped
<1> QED
  BY <1>11, <1>12 DEF AccountInv

\* Addresses go, and with them what said of them that they are the default.
LEMMA ForgottenKeeps ==
    ASSUME AccountInv, NEW gone, Forgotten(gone), asks' = [t \in Tabs |-> asks'[t]],
           \A t \in Tabs : asks'[t] = asks[t] \/ ~IsDefaultAsk(asks'[t]),
           \A t \in Tabs : AskShaped(asks'[t]) /\ Known(asks'[t].id),
           UNCHANGED <<lastAddress, pages, draft>>
    PROVE  AccountInv'
<1>1. /\ saved' = [a \in AddressIds |-> IF a \in gone THEN NoLines ELSE saved[a]]
      /\ defaults' = defaults \ gone
      /\ preferred' = IF preferred \in gone THEN NoAddress ELSE preferred
  BY DEF Forgotten
<1>2. Kept' = Kept \ gone
  BY <1>1 DEF Kept
<1>3. \A a : Known(a)' <=> Known(a)
  BY DEF Known
<1>4. ASSUME NEW t \in Tabs, Asking(t)' PROVE asks'[t] = asks[t] /\ Asking(t)
  BY <1>4 DEF Asking
<1>5. ASSUME NEW t \in Tabs, HasListed(t)' PROVE asks'[t] = asks[t] /\ HasListed(t)
  BY <1>5 DEF HasListed, IsDefaultAsk
<1>6. PreferredHolds'
  BY <1>1, <1>2, <1>4 DEF AccountInv, DefaultsHold, PreferredHolds
<1>7. ASSUME NEW t \in Tabs, asks'[t].alone PROVE AloneHolds(t)'
  <2>1. CASE ~IsDefaultAsk(asks'[t])
    BY <2>1 DEF AloneHolds, Asking, HasListed, IsDefaultAsk
  <2>2. CASE asks'[t] = asks[t]
    <3>1. AloneHolds(t)
      BY <1>7, <2>2 DEF AccountInv, DefaultsHold
    <3> QED
      BY <1>1, <1>2, <1>4, <2>2, <3>1 DEF AloneHolds, Asking, HasListed
  <2> QED
    BY <2>1, <2>2
<1>8. \A t \in Tabs : HasListed(t)' => asks'[t].id \notin asks'[t].previous
  BY <1>5 DEF AccountInv, DefaultsHold
<1>9. AccountShaped'
  <2>1. saved' \in [AddressIds -> Lines \cup {NoLines}]
    BY <1>1 DEF AccountInv, AccountShaped
  <2>2. defaults' \subseteq Kept' /\ \A a \in Kept' : Known(a)'
    BY <1>1, <1>2, <1>3 DEF AccountInv, AccountShaped
  <2>3. \A t \in Tabs : AskShaped(asks[t])' /\ Known(asks[t].id)'
    BY <1>3 DEF AskShaped
  <2> QED
    BY <1>3, <2>1, <2>2, <2>3 DEF AccountInv, AccountShaped, PageShaped
<1> QED
  BY <1>6, <1>7, <1>8, <1>9 DEF AccountInv, DefaultsHold

LEMMA DeleteAddressKeeps ==
    ASSUME AccountInv, NEW t \in Tabs, DeleteAddress(t)
    PROVE  AccountInv'
<1> DEFINE r == [asks[t] EXCEPT !.op = "done"]
<1>1. /\ AskShaped(asks[t]) /\ asks = [u \in Tabs |-> asks[u]]
      /\ Forgotten({asks[t].id}) /\ UNCHANGED <<lastAddress, pages, draft>>
  BY DEF DeleteAddress, AccountInv, AccountShaped
<1>2. asks' = [asks EXCEPT ![t] = r]
  BY <1>1 DEF DeleteAddress, To
<1>3. AskShaped(r) /\ r.op = "done" /\ r.id = asks[t].id
  BY <1>1, AskMoves
<1> HIDE DEF r
<1>4. asks' = [u \in Tabs |-> asks'[u]] /\ asks'[t] = r /\ \A u \in Tabs \ {t} : asks'[u] = asks[u]
  BY <1>1, <1>2
<1>5. \A u \in Tabs : /\ asks'[u] = asks[u] \/ ~IsDefaultAsk(asks'[u])
                      /\ AskShaped(asks'[u]) /\ Known(asks'[u].id)
  BY <1>3, <1>4 DEF IsDefaultAsk, AccountInv, AccountShaped
<1> QED
  BY <1>1, <1>4, <1>5, ForgottenKeeps

LEMMA CloseAccountKeeps ==
    ASSUME AccountInv, NEW t \in Tabs, CloseAccount(t)
    PROVE  AccountInv'
<1> DEFINE ended(u) == [asks[u] EXCEPT !.op = IF u = t THEN "closed" ELSE "failed"]
<1>1. /\ Forgotten(AddressIds) /\ UNCHANGED <<lastAddress, pages, draft>>
      /\ asks' = [u \in Tabs |->
           IF u = t THEN [asks[u] EXCEPT !.op = "closed"]
           ELSE IF asks[u].op \in {"idle", "done", "closed"} THEN asks[u]
           ELSE [asks[u] EXCEPT !.op = "failed"]]
  BY DEF CloseAccount, purgeCustomerIdentity
<1>2. asks' = [u \in Tabs |-> asks'[u]]
  BY <1>1
<1>3. ASSUME NEW u \in Tabs
      PROVE  /\ asks'[u] = asks[u] \/ ~IsDefaultAsk(asks'[u])
             /\ AskShaped(asks'[u]) /\ Known(asks'[u].id)
  <2>1. \/ asks'[u] = asks[u]
        \/ asks'[u] = [asks[u] EXCEPT !.op = "closed"]
        \/ asks'[u] = [asks[u] EXCEPT !.op = "failed"]
    BY <1>1
  <2>2. AskShaped(asks[u]) /\ Known(asks[u].id)
    BY DEF AccountInv, AccountShaped
  <2>3. ASSUME NEW op \in {"closed", "failed"}, asks'[u] = [asks[u] EXCEPT !.op = op]
        PROVE  asks'[u].op = op /\ AskShaped(asks'[u]) /\ Known(asks'[u].id)
    BY <2>2, <2>3, AskMoves
  <2>4. ASSUME NEW op \in {"closed", "failed"}, asks'[u] = [asks[u] EXCEPT !.op = op]
        PROVE  ~IsDefaultAsk(asks'[u])
    BY <2>3, <2>4 DEF IsDefaultAsk
  <2> QED
    BY <2>1, <2>2, <2>3, <2>4
<1> QED
  BY <1>1, <1>2, <1>3, ForgottenKeeps

LEMMA AccountStarts ==
    ASSUME AccountAssumption, AccountInit
    PROVE  AccountInv
<1> DEFINE all == {toSavedAddress(a) : a \in Kept}
           yes == TRUE
<1>1. lastAddress \in Nat /\ saved \in [AddressIds -> Lines \cup {NoLines}] /\ defaults \subseteq Kept
  BY AccountAssumption DEF AccountInit
<1>2. \A a \in Kept : Known(a)
  BY AccountAssumption DEF AccountInit, Kept, Known, AddressIds
<1>3. \A e \in all : Known(e.id) /\ e.lines \in Lines
  BY <1>1, <1>2, ShownAddress DEF Kept
<1>4. /\ pages = [t \in Tabs |-> [place |-> "addresses", list |-> all, signedIn |-> yes, refreshing |-> FALSE]]
      /\ asks = [t \in Tabs |-> NoAsk]
      /\ draft = [chosen |-> NoAddress, lines |-> NoLines]
      /\ preferred = NoAddress
  BY DEF AccountInit, Page
<1>5. AskShaped(NoAsk) /\ Known(NoAsk.id) /\ NoAsk.op = "idle" /\ ~NoAsk.alone
  BY <1>1 DEF AskShaped, NoAsk, Known, NoAddress
<1> HIDE DEF all, yes
<1>6. \A t \in Tabs : /\ PageShaped(pages[t])
                      /\ \A e \in pages[t].list : Known(e.id) /\ e.lines \in Lines
  BY <1>3, <1>4 DEF PageShaped
<1>7. AccountShaped
  <2>1. draft = [chosen |-> draft.chosen, lines |-> draft.lines] /\ draft.lines \in Lines \cup {NoLines}
    BY <1>4
  <2>2. pages = [t \in Tabs |-> pages[t]] /\ asks = [t \in Tabs |-> asks[t]]
    BY <1>4
  <2>3. \A t \in Tabs : AskShaped(asks[t]) /\ Known(asks[t].id)
    BY <1>4, <1>5
  <2> QED
    BY <1>1, <1>2, <1>6, <2>1, <2>2, <2>3 DEF AccountShaped
<1>8. DefaultsHold
  BY <1>4, <1>5 DEF DefaultsHold, PreferredHolds, HasListed, AloneHolds
<1> QED
  BY <1>7, <1>8 DEF AccountInv

LEMMA AccountStepKeeps ==
    ASSUME AccountAssumption, AccountInv, [AccountNext]_accountVars
    PROVE  AccountInv'
<1>1. CASE UNCHANGED accountVars
  BY <1>1, DraftStepKeeps DEF accountVars, AccountInv, AccountShaped
<1>2. CASE Callback
  <2>1. UNCHANGED <<saved, lastAddress, defaults, preferred, asks, pages, draft>>
    BY <1>2 DEF Callback
  <2> QED
    BY <2>1, DraftStepKeeps DEF AccountInv, AccountShaped
<1>3. ASSUME NEW t \in Tabs,
             \/ \E place \in {"addresses", "checkout"} : Open(t, place)
             \/ Logout(t) \/ Refreshed(t) \/ FillIn(t) \/ Pick(t) \/ Type(t) \/ ClearDraft(t)
      PROVE  AccountInv'
  BY <1>3, ViewActionsKeep
<1>4. ASSUME NEW t \in Tabs, AskSave(t) \/ AskRemove(t) \/ AskClose(t) \/ SaveAddress(t)
      PROVE  AccountInv'
  BY <1>4, AskActionsKeep
<1>5. ASSUME NEW t \in Tabs, CallFails(t) \/ Done(t) \/ Closed(t) \/ LosesAnswer(t)
      PROVE  AccountInv'
  BY <1>5, EndsKeep
<1>6. ASSUME NEW t \in Tabs, AskDefault(t) \/ ListAddresses(t) \/ SetDefault(t) \/ UnsetDefault(t)
      PROVE  AccountInv'
  BY <1>6, AskDefaultKeeps, ListAddressesKeeps, SetDefaultKeeps, UnsetDefaultKeeps
<1>7. ASSUME NEW t \in Tabs,
             CreateAddress(t) \/ UpdateAddress(t) \/ DeleteAddress(t) \/ CloseAccount(t)
      PROVE  AccountInv'
  BY <1>7, WriteAddressKeeps, DeleteAddressKeeps, CloseAccountKeeps
<1> QED
  BY <1>1, <1>2, <1>3, <1>4, <1>5, <1>6, <1>7 DEF AccountNext


\* An address is shown as the default when it is.
LEMMA ShownDefault ==
    ASSUME NEW a
    PROVE  toSavedAddress(a).id = a /\ (toSavedAddress(a).isDefault <=> a \in defaults)
<1> DEFINE is == a \in defaults
<1>1. toSavedAddress(a) = [id |-> a, lines |-> saved[a], isDefault |-> is]
  BY DEF toSavedAddress
<1> HIDE DEF is
<1>2. toSavedAddress(a).id = a /\ toSavedAddress(a).isDefault = is
  BY <1>1
<1> QED
  BY <1>2, Zenon DEF is

\* Of all the addresses, the one that is the only default is the first.
LEMMA DefaultIsFirst ==
    ASSUME NEW a \in Kept, defaults = {a}, Known(a)
    PROVE  First({toSavedAddress(b) : b \in Kept}) = toSavedAddress(a)
<1> DEFINE all == {toSavedAddress(b) : b \in Kept}
           heads == {e \in all : e.isDefault}
           one == toSavedAddress(a)
<1>1. one \in heads
  BY ShownDefault, Zenon
<1>2. \A e \in heads : e = one
  BY ShownDefault, Zenon
<1>3. heads = {one}
  BY <1>1, <1>2
<1>4. one.id <= one.id
  BY ShownDefault DEF Known
<1>5. First(all) = Newest(heads)
  BY <1>1 DEF First
<1> HIDE DEF heads, one, all
<1>6. Newest({one}) = one
  BY <1>4 DEF Newest
<1> QED
  BY <1>3, <1>5, <1>6 DEF one, all

\* A page that shows addresses shows all of them.
LEMMA PagesListAll ==
    ASSUME NEW place, NEW p \in Pages(place), p.list # {}
    PROVE  p.list = {toSavedAddress(a) : a \in Kept}
<1> DEFINE all == {toSavedAddress(a) : a \in Kept}
<1>1. PICK out, list, in :
        /\ p = [place |-> out, list |-> list, signedIn |-> in, refreshing |-> FALSE]
        /\ list \in {{}, all}
  BY DEF Pages, Page, Away, fetchCustomerAddresses
<1> HIDE DEF all
<1>2. p.list \in {{}, all}
  BY <1>1
<1> QED
  BY <1>2 DEF all

\* The account's pages, requests and addresses keep their shape, and while the
\* last request for a default is undisturbed no address is the default but its
\* own and those it is still to take that from.
THEOREM AccountInvariant == AccountSpec => []AccountInv
<1>1. AccountInit => AccountInv
  BY AccountAssumption, AccountStarts
<1>2. AccountInv /\ [AccountNext]_accountVars => AccountInv'
  BY AccountAssumption, AccountStepKeeps
<1> QED
  BY <1>1, <1>2, PTL DEF AccountSpec

\* "Pick a default so checkout fills itself in": once the last request for a
\* default has run to its end undisturbed, a checkout that is opened and can
\* read the addresses is headed by that one, however many tabs rename, remove
\* and create others, close the account or come back to it.
THEOREM CheckoutFillsIn == AccountSpec => FillsInTheDefault
<1>1. ASSUME AccountInv, NEW t \in Tabs, Open(t, "checkout"), preferred # NoAddress,
             pages'[t].list # {}
      PROVE  First(pages'[t].list) = toSavedAddress(preferred)
  <2>1. PICK p \in Pages("checkout") : pages' = [pages EXCEPT ![t] = p]
    BY <1>1 DEF Open
  <2>2. pages'[t] = p
    BY <1>1, <2>1 DEF AccountInv, AccountShaped
  <2>3. p.list = {toSavedAddress(a) : a \in Kept}
    BY <1>1, <2>2, PagesListAll
  <2>4. preferred \in Kept /\ defaults = {preferred} /\ Known(preferred)
    BY <1>1 DEF AccountInv, AccountShaped, DefaultsHold, PreferredHolds
  <2> QED
    BY <2>2, <2>3, <2>4, DefaultIsFirst
<1>2. ASSUME AccountInv
      PROVE  \A t \in Tabs :
                Open(t, "checkout") /\ preferred # NoAddress /\ pages'[t].list # {} =>
                    First(pages'[t].list) = toSavedAddress(preferred)
  BY <1>1, <1>2
<1>3. AccountInv /\ [AccountNext]_accountVars =>
        [\A t \in Tabs :
            Open(t, "checkout") /\ preferred # NoAddress /\ pages'[t].list # {} =>
                First(pages'[t].list) = toSavedAddress(preferred)]_accountVars
  BY <1>2
<1> QED
  BY <1>3, AccountInvariant, PTL DEF AccountSpec, FillsInTheDefault

================================================================================
