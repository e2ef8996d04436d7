---------------------------------- MODULE Cart ----------------------------------
(***************************************************************************)
(* The shopper's cart: one document in local storage that every tab reads  *)
(* once and keeps a copy of.  A tab writes the whole document from its own *)
(* copy; the browser tells the other tabs afterwards, one by one, and each *)
(* reads the document anew (ReadStore).                                    *)
(*                                                                         *)
(* A line is [id, variant, custom, qty, token]; token is None or the       *)
(* [variant, size, qty] that the backend quoted.  What makes two lines the *)
(* same piece is what its details and its artwork say, the variant and the *)
(* custom record (LineKey).  A document stored before lines had ids holds  *)
(* a line whose id is 0, and every reader mints one of its own.            *)
(*                                                                         *)
(* Bounds: MaxIds ids, quantities up to MaxQty.                            *)
(***************************************************************************)
EXTENDS Customization

CONSTANTS
    Tabs, Variants,
    Customs,            \* what a line may be customized with; has a field size
    MinQty, MaxQty,     \* the product's minimum order; the bound of a quantity
    Earlier,            \* what an earlier release may have stored: [variant, custom]
    MaxIds

ASSUME CartAssumption ==
    /\ MinQty \in Nat \ {0} /\ MaxQty \in Nat /\ MinQty <= MaxQty
    /\ MaxIds \in Nat
    /\ Earlier \subseteq [variant : Variants, custom : Customs]

VARIABLES
    store,      \* the document in local storage: the set of its lines
    cache,      \* the copy that each tab works on, None until it reads
    told,       \* tabs whose storage event is still to come
    lastId      \* ids minted so far

cartVars == <<store, cache, told, lastId>>

Quote(variant, custom, qty) == [variant |-> variant, size |-> custom.size, qty |-> qty]

LineKey(l) == <<l.variant, l.custom>>

WithId(lines, id) == {l \in lines : l.id = id}
WithKey(lines, k) == {l \in lines : LineKey(l) = k}

\* parseCart: a line stored without an id gets one, in this tab's copy only.
Parse(lines, id) == {IF l.id = 0 THEN [l EXCEPT !.id = id] ELSE l : l \in lines}

Minted(lines) == IF WithId(lines, 0) # {} THEN lastId + 1 ELSE lastId

(***************************************************************************)
(* Writing.  When the storage refuses, the copy stays what it was.         *)
(***************************************************************************)
WriteUntold(t, lines) ==
    /\ store' = lines
    /\ cache' = [cache EXCEPT ![t] = lines]
    /\ UNCHANGED told

Write(t, lines) ==
    /\ store' = lines
    /\ cache' = [cache EXCEPT ![t] = lines]
    /\ told' = IF lines # store THEN told \cup (Tabs \ {t}) ELSE told

Refused == UNCHANGED cartVars

\* The first reading, and the reading after the browser's storage event.
ReadStore(t) ==
    /\ cache[t] = None \/ t \in told
    /\ Minted(store) <= MaxIds
    /\ told' = told \ {t}
    /\ cache' = [cache EXCEPT ![t] = Parse(store, Minted(store))]
    /\ lastId' = Minted(store)
    /\ UNCHANGED store

(***************************************************************************)
(* The operations, on the copy of tab t.                                   *)
(***************************************************************************)
Unquoted(l, qty) == [l EXCEPT !.qty = qty, !.token = None]

\* A piece that is in the cart already is ordered in a greater quantity, which
\* nobody quoted.
AddedKeepingQuote(lines, l) ==
    LET same == WithKey(lines, LineKey(l))
    IN  IF same = {} THEN lines \cup {l}
        ELSE {IF e \in same THEN [e EXCEPT !.qty = @ + l.qty] ELSE e : e \in lines}

AddedBeside(lines, l) == lines \cup {l}

Added(lines, l) ==
    LET same == WithKey(lines, LineKey(l))
    IN  IF same = {} THEN lines \cup {l}
        ELSE {IF e \in same THEN Unquoted(e, e.qty + l.qty) ELSE e : e \in lines}

Bounded(lines) == \A l \in lines : l.qty <= MaxQty

AddLine(t, l) ==
    /\ lastId < MaxIds /\ Bounded(Added(cache[t], l))
    /\ lastId' = lastId + 1
    /\ Write(t, Added(cache[t], [l EXCEPT !.id = lastId + 1]))

\* An edit that arrives at a piece the cart holds already joins it.
Updated(lines, id, next) ==
    LET twins == WithKey(lines, LineKey(next)) \ WithId(lines, id)
    IN  IF twins = {} THEN {IF e.id = id THEN [next EXCEPT !.id = id] ELSE e : e \in lines}
        ELSE {IF e \in twins THEN Unquoted(e, e.qty + next.qty) ELSE e :
                e \in lines \ WithId(lines, id)}

UpdateLine(t, id, next) ==
    /\ WithId(cache[t], id) # {} /\ Bounded(Updated(cache[t], id, next))
    /\ Write(t, Updated(cache[t], id, next))
    /\ UNCHANGED lastId

Quantified(lines, key, n) ==
    LET qty == IF n < MinQty THEN MinQty ELSE n
    IN  {IF LineKey(l) = key /\ l.qty # qty THEN Unquoted(l, qty) ELSE l : l \in lines}

SetQuantity(t, key, n) ==
    /\ Write(t, Quantified(cache[t], key, n))
    /\ UNCHANGED lastId

\* A quote that comes late is written only on a line still of its size and
\* quantity.
Fits(l, token) == token.size # None /\ l.custom.size = token.size /\ l.qty = token.qty

SetQuote(t, id, token) ==
    /\ \E l \in WithId(cache[t], id) : Fits(l, token)
    /\ Write(t, {IF l.id = id THEN [l EXCEPT !.token = token] ELSE l : l \in cache[t]})
    /\ UNCHANGED lastId

RemoveLine(t, key) ==
    /\ Write(t, cache[t] \ WithKey(cache[t], key))
    /\ UNCHANGED lastId

ClearCart(t) ==
    /\ Write(t, {})
    /\ UNCHANGED lastId

(***************************************************************************)
(* The cart by itself, under any calls.                                    *)
(***************************************************************************)
NewLine(variant, custom, qty) ==
    [id |-> 0, variant |-> variant, custom |-> custom, qty |-> qty,
     token |-> Quote(variant, custom, qty)]

Lines == [id : 0..MaxIds, variant : Variants, custom : Customs, qty : MinQty..MaxQty,
          token : {None} \cup [variant : Variants, size : {c.size : c \in Customs}, qty : MinQty..MaxQty]]

CartTypeOK ==
    /\ store \subseteq Lines
    /\ cache \in [Tabs -> {None} \cup SUBSET Lines]
    /\ told \subseteq Tabs
    /\ lastId \in 0..MaxIds

\* A document of an earlier release may be there already.
CartInit ==
    /\ store \in {{}} \cup {{[NewLine(e.variant, e.custom, MinQty) EXCEPT !.token = None]} :
                                e \in Earlier}
    /\ told = {}
    /\ cache = [t \in Tabs |-> None]
    /\ lastId = 0

Call(t) ==
    \/ \E v \in Variants, c \in Customs, n \in MinQty..MaxQty :
        \/ AddLine(t, NewLine(v, c, n))
        \/ \E id \in 1..lastId : UpdateLine(t, id, NewLine(v, c, n))
    \/ \E l \in cache[t], n \in 0..MaxQty : SetQuantity(t, LineKey(l), n)
    \/ \E id \in 1..lastId, v \in Variants, l \in cache[t] :
        SetQuote(t, id, Quote(v, l.custom, l.qty))
    \/ \E l \in cache[t] : RemoveLine(t, LineKey(l))
    \/ ClearCart(t)

CartNext == \E t \in Tabs : ReadStore(t) \/ (cache[t] # None /\ Call(t))

CartSpec == CartInit /\ [][CartNext]_cartVars

(***************************************************************************)
(* What the operations keep between them.                                  *)
(***************************************************************************)
Documents == {store} \cup ({cache[t] : t \in Tabs} \ {None})

\* In the document and in every tab's copy no two lines are the same piece and
\* no two have one id: a merge, an edit that turns a line into another, a copy
\* written over a newer document never split or alias a line (cart.ts).
OnePieceOneLine ==
    \A lines \in Documents : \A l, m \in lines :
        LineKey(l) = LineKey(m) \/ l.id = m.id => l = m

\* A quote on a line was given for the line's size and its quantity, whatever
\* merged, was edited or answered late since: prepare-cart would otherwise
\* take another tier's price for proven (cart.ts, setCartLineQuote).
QuoteFitsLine ==
    \A lines \in Documents : \A l \in lines :
        l.token # None => l.token.size = l.custom.size /\ l.token.qty = l.qty

\* A tab with no storage event to come works on what is stored.
TabsAgree ==
    \A t \in Tabs :
        t \in told \/ cache[t] \in {None, store} \/ \E id \in 1..lastId : cache[t] = Parse(store, id)

================================================================================
