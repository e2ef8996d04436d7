------------------------------- MODULE PageProofs -------------------------------
(***************************************************************************)
(* What holds of Cart and of ProductPage for any product, catalogue, tabs  *)
(* and bounds.  The cart's operations, called by several tabs on copies of *)
(* different age, keep lines apart, quotes with their lines, and the       *)
(* copies in agreement; the page, the drawers and a checkout call the cart *)
(* as Cart says they do, so all that holds of it; the price on the button  *)
(* is of what the button adds; and the checks of the page, of the edit and *)
(* of the server, written apart, agree.                                    *)
(***************************************************************************)
EXTENDS ProductPage, TLAPS

Tokens == [variant : Variants, size : {c.size : c \in Customs}, qty : MinQty..MaxQty]

\* The quote of one line.
Quoted(l) == l.token # None => l.token.size = l.custom.size /\ l.token.qty = l.qty

(***************************************************************************)
(* A document is sound: its lines are lines, apart by piece and by id,     *)
(* with quotes of their own and ids between least and top.                 *)
(***************************************************************************)
Apart(lines) == \A l, m \in lines : LineKey(l) = LineKey(m) \/ l.id = m.id => l = m

Sound(lines, least, top) ==
    /\ lines \subseteq Lines
    /\ Apart(lines)
    /\ \A l \in lines : Quoted(l)
    /\ \A l \in lines : l.id \in least..top

\* Only what an earlier release stored may lack an id, and a tab's copy never
\* does: ids that were minted are not minted again.
DocumentsSound ==
    /\ Sound(store, 0, lastId)
    /\ \A t \in Tabs : cache[t] # None => Sound(cache[t], 1, lastId)

CartInv == CartTypeOK /\ DocumentsSound /\ TabsAgree

(***************************************************************************)
(* Lines.                                                                  *)
(***************************************************************************)
LEMMA LineIsRecord ==
    ASSUME NEW l \in Lines
    PROVE  /\ l.id \in 0..MaxIds /\ l.variant \in Variants /\ l.custom \in Customs
           /\ l.qty \in MinQty..MaxQty /\ l.token \in {None} \cup Tokens
  BY DEF Lines, Tokens

LEMMA Requantified ==
    ASSUME NEW l \in Lines, NEW q \in MinQty..MaxQty
    PROVE  /\ Unquoted(l, q) \in Lines
           /\ Unquoted(l, q).id = l.id /\ LineKey(Unquoted(l, q)) = LineKey(l)
           /\ Quoted(Unquoted(l, q)) /\ Unquoted(l, q).qty = q
  BY DEF Lines, Unquoted, LineKey, Quoted

LEMMA Renamed ==
    ASSUME NEW l \in Lines, NEW i \in 0..MaxIds
    PROVE  /\ [l EXCEPT !.id = i] \in Lines
           /\ [l EXCEPT !.id = i].id = i
           /\ LineKey([l EXCEPT !.id = i]) = LineKey(l)
           /\ Quoted(l) => Quoted([l EXCEPT !.id = i])
           /\ [l EXCEPT !.id = i].qty = l.qty
  BY DEF Lines, LineKey, Quoted

LEMMA QuoteOnLine ==
    ASSUME NEW l \in Lines, NEW k \in Tokens, Fits(l, k)
    PROVE  /\ [l EXCEPT !.token = k] \in Lines
           /\ [l EXCEPT !.token = k].id = l.id
           /\ LineKey([l EXCEPT !.token = k]) = LineKey(l)
           /\ Quoted([l EXCEPT !.token = k])
  BY DEF Lines, Tokens, LineKey, Quoted, Fits

LEMMA NewLineIsLine ==
    ASSUME NEW v \in Variants, NEW c \in Customs, NEW n \in MinQty..MaxQty
    PROVE  NewLine(v, c, n) \in Lines /\ Quoted(NewLine(v, c, n)) /\ NewLine(v, c, n).qty = n
  <1>1. Quote(v, c, n) \in Tokens /\ Quote(v, c, n).size = c.size /\ Quote(v, c, n).qty = n
    BY DEF Quote, Tokens
  <1>2. 0 \in 0..MaxIds
    BY CartAssumption
  <1> QED
    BY <1>1, <1>2 DEF NewLine, Lines, Tokens, Quoted

(***************************************************************************)
(* Documents.                                                              *)
(***************************************************************************)
LEMMA SoundLater ==
    ASSUME NEW lines, NEW least, NEW top \in Nat, NEW later \in Nat, top <= later,
           least \in Nat, Sound(lines, least, top)
    PROVE  Sound(lines, least, later)
  BY DEF Sound

LEMMA SoundPart ==
    ASSUME NEW lines, NEW least, NEW top, Sound(lines, least, top), NEW part \in SUBSET lines
    PROVE  Sound(part, least, top)
  BY DEF Sound, Apart

\* Lines that are changed and keep their piece and their id.
LEMMA SoundChanged ==
    ASSUME NEW lines, NEW least, NEW top, Sound(lines, least, top),
           NEW f \in [lines -> Lines],
           \A l \in lines : f[l].id = l.id /\ LineKey(f[l]) = LineKey(l) /\ Quoted(f[l])
    PROVE  Sound({f[l] : l \in lines}, least, top)
  <1> DEFINE S == {f[l] : l \in lines}
  <1>1. S \subseteq Lines /\ (\A l \in S : Quoted(l)) /\ (\A l \in S : l.id \in least..top)
    BY DEF Sound
  <1>2. Apart(S)
    <2> SUFFICES ASSUME NEW x \in S, NEW y \in S, LineKey(x) = LineKey(y) \/ x.id = y.id
                 PROVE  x = y
      BY DEF Apart
    <2>1. PICK l \in lines : x = f[l]
      OBVIOUS
    <2>2. PICK m \in lines : y = f[m]
      OBVIOUS
    <2>3. LineKey(l) = LineKey(m) \/ l.id = m.id
      BY <2>1, <2>2
    <2>4. l = m
      BY <2>3 DEF Sound, Apart
    <2> QED
      BY <2>1, <2>2, <2>4
  <1> QED
    BY <1>1, <1>2 DEF Sound

\* A line that comes in under a piece and an id that the document lacks.
LEMMA SoundJoined ==
    ASSUME NEW lines, NEW least, NEW top, Sound(lines, least, top),
           NEW l \in Lines, Quoted(l), l.id \in least..top,
           \A e \in lines : LineKey(e) # LineKey(l) /\ e.id # l.id
    PROVE  Sound(lines \cup {l}, least, top)
  BY DEF Sound, Apart

(***************************************************************************)
(* The operations keep a copy sound.                                       *)
(***************************************************************************)
LEMMA ReadSound ==
    ASSUME NEW lines, lastId \in Nat, Sound(lines, 0, lastId), Minted(lines) <= MaxIds
    PROVE  Sound(Parse(lines, Minted(lines)), 1, Minted(lines))
  <1>1. CASE WithId(lines, 0) = {}
    <2>1. \A l \in lines : l.id # 0
      BY <1>1 DEF WithId
    <2>2. Parse(lines, Minted(lines)) = lines
      BY <2>1 DEF Parse
    <2> QED
      BY <1>1, <2>1, <2>2 DEF Sound, Minted
  <1>2. CASE WithId(lines, 0) # {}
    <2>1. PICK z \in lines : z.id = 0
      BY <1>2 DEF WithId
    <2> DEFINE top == lastId + 1
               named == [z EXCEPT !.id = top]
    <2>2. Minted(lines) = top /\ top \in 0..MaxIds /\ top \in 1..top
      BY <1>2, CartAssumption DEF Minted
    <2>3. \A l \in lines : l # z => l.id \in 1..lastId /\ LineKey(l) # LineKey(z)
      BY <2>1 DEF Sound, Apart
    <2>4. Sound(lines \ {z}, 1, top)
      BY <2>3 DEF Sound, Apart
    <2>5. named \in Lines /\ named.id = top /\ LineKey(named) = LineKey(z) /\ Quoted(named)
      BY <2>2, Renamed DEF Sound
    <2>6. Parse(lines, top) = (lines \ {z}) \cup {named}
      BY <2>1, <2>3 DEF Parse
    <2> HIDE DEF named
    <2>7. \A e \in lines \ {z} : LineKey(e) # LineKey(named) /\ e.id # named.id
      BY <2>3, <2>5
    <2>8. Sound((lines \ {z}) \cup {named}, 1, top)
      BY <2>2, <2>4, <2>5, <2>7, SoundJoined
    <2> QED
      BY <2>2, <2>6, <2>8
  <1> QED
    BY <1>1, <1>2

\* Lines of one piece that are ordered in a greater quantity.
More(lines, twins, n) == {IF e \in twins THEN Unquoted(e, e.qty + n) ELSE e : e \in lines}

LEMMA SoundMore ==
    ASSUME NEW lines, NEW least, NEW top, Sound(lines, least, top),
           NEW twins \in SUBSET lines, NEW n \in MinQty..MaxQty,
           Bounded(More(lines, twins, n))
    PROVE  Sound(More(lines, twins, n), least, top)
  <1> DEFINE f == [e \in lines |-> IF e \in twins THEN Unquoted(e, e.qty + n) ELSE e]
  <1>1. ASSUME NEW e \in lines
        PROVE  f[e] \in Lines /\ f[e].id = e.id /\ LineKey(f[e]) = LineKey(e) /\ Quoted(f[e])
    <2>1. e \in Lines /\ Quoted(e)
      BY DEF Sound
    <2>2. CASE e \in twins
      <3>1. f[e] = Unquoted(e, e.qty + n) /\ Unquoted(e, e.qty + n).qty <= MaxQty
        BY <2>2 DEF Bounded, More
      <3>2. Unquoted(e, e.qty + n).qty = e.qty + n
        BY <2>1 DEF Unquoted, Lines
      <3>3. e.qty + n \in MinQty..MaxQty
        BY <2>1, <3>1, <3>2, LineIsRecord, CartAssumption
      <3> QED
        BY <2>1, <3>1, <3>3, Requantified
    <2>3. CASE e \notin twins
      BY <2>1, <2>3
    <2> QED
      BY <2>2, <2>3
  <1>2. f \in [lines -> Lines]
    BY <1>1
  <1>3. {f[e] : e \in lines} = More(lines, twins, n)
    BY DEF More
  <1> HIDE DEF f
  <1>4. Sound({f[e] : e \in lines}, least, top)
    BY <1>1, <1>2, SoundChanged
  <1> QED
    BY <1>3, <1>4

LEMMA AddedSound ==
    ASSUME NEW lines, NEW top \in Nat, top + 1 <= MaxIds, Sound(lines, 1, top),
           NEW l \in Lines, Quoted(l), Bounded(Added(lines, l))
    PROVE  Sound(Added(lines, [l EXCEPT !.id = top + 1]), 1, top + 1)
  <1> DEFINE new  == [l EXCEPT !.id = top + 1]
             same == WithKey(lines, LineKey(l))
  <1>1. new \in Lines /\ new.id = top + 1 /\ LineKey(new) = LineKey(l) /\ Quoted(new)
        /\ new.qty = l.qty
    BY Renamed, CartAssumption
  <1>2. Sound(lines, 1, top + 1)
    BY SoundLater
  <1>3. WithKey(lines, LineKey(new)) = same
    BY <1>1
  <1>s. SUFFICES Sound(Added(lines, new), 1, top + 1)
    OBVIOUS
  <1> HIDE DEF new
  <1>4. CASE same = {}
    <2>1. Added(lines, new) = lines \cup {new}
      BY <1>3, <1>4 DEF Added
    <2>2. \A e \in lines : LineKey(e) # LineKey(new) /\ e.id # new.id
      BY <1>1, <1>4 DEF WithKey, Sound
    <2>3. new.id \in 1..(top + 1)
      BY <1>1
    <2> QED
      BY <1>1, <1>2, <2>1, <2>2, <2>3, SoundJoined
  <1>5. CASE same # {}
    <2> DEFINE more == More(lines, same, l.qty)
    <2>1. Added(lines, new) = more /\ Added(lines, l) = more
      BY <1>1, <1>3, <1>5 DEF Added, More
    <2>2. same \in SUBSET lines /\ l.qty \in MinQty..MaxQty
      BY LineIsRecord DEF WithKey
    <2>3. Sound(more, 1, top + 1)
      BY <1>2, <2>1, <2>2, SoundMore
    <2> QED
      BY <2>1, <2>3
  <1> QED
    BY <1>4, <1>5

LEMMA UpdatedSound ==
    ASSUME NEW lines, NEW top \in Nat, top <= MaxIds, Sound(lines, 1, top),
           NEW id \in 1..top, WithId(lines, id) # {},
           NEW next \in Lines, Quoted(next), Bounded(Updated(lines, id, next))
    PROVE  Sound(Updated(lines, id, next), 1, top)
  <1> DEFINE rest  == lines \ WithId(lines, id)
             twins == WithKey(lines, LineKey(next)) \ WithId(lines, id)
             new   == [next EXCEPT !.id = id]
  <1>1. Sound(rest, 1, top)
    BY SoundPart
  <1>2. CASE twins = {}
    <2>1. new \in Lines /\ new.id = id /\ LineKey(new) = LineKey(next) /\ Quoted(new)
      BY Renamed, CartAssumption
    <2>2. Updated(lines, id, next) = {IF e.id = id THEN new ELSE e : e \in lines}
      BY <1>2 DEF Updated
    <2>3. {IF e.id = id THEN new ELSE e : e \in lines} = rest \cup {new}
      BY DEF WithId
    <2> HIDE DEF new
    <2>4. \A e \in rest : LineKey(e) # LineKey(new) /\ e.id # new.id
      BY <1>2, <2>1 DEF WithKey, WithId
    <2>5. Sound(rest \cup {new}, 1, top)
      <3> HIDE DEF rest
      <3> QED
        BY <1>1, <2>1, <2>4, SoundJoined
    <2> QED
      BY <2>2, <2>3, <2>5
  <1>3. CASE twins # {}
    <2> DEFINE more == More(rest, twins, next.qty)
    <2>1. Updated(lines, id, next) = more
      BY <1>3 DEF Updated, More
    <2>2. twins \in SUBSET rest /\ next.qty \in MinQty..MaxQty
      BY LineIsRecord DEF WithKey
    <2>3. Sound(more, 1, top)
      <3> HIDE DEF rest, twins
      <3> QED
        BY <1>1, <2>1, <2>2, SoundMore
    <2> QED
      BY <2>1, <2>3
  <1> QED
    BY <1>2, <1>3

LEMMA QuantifiedSound ==
    ASSUME NEW lines, NEW least, NEW top, Sound(lines, least, top), NEW key, NEW n \in 0..MaxQty
    PROVE  Sound(Quantified(lines, key, n), least, top)
  <1> DEFINE qty == IF n < MinQty THEN MinQty ELSE n
             f   == [l \in lines |-> IF LineKey(l) = key /\ l.qty # qty
                                     THEN Unquoted(l, qty) ELSE l]
  <1>1. qty \in MinQty..MaxQty
    BY CartAssumption
  <1>2. \A l \in lines :
          f[l] \in Lines /\ f[l].id = l.id /\ LineKey(f[l]) = LineKey(l) /\ Quoted(f[l])
    <2> HIDE DEF qty
    <2> QED
      BY <1>1, Requantified DEF Sound
  <1>3. Quantified(lines, key, n) = {f[l] : l \in lines}
    BY DEF Quantified
  <1>4. f \in [lines -> Lines]
    BY <1>2
  <1> HIDE DEF f
  <1> QED
    BY <1>2, <1>3, <1>4, SoundChanged

LEMMA QuoteSetSound ==
    ASSUME NEW lines, NEW least, NEW top, Sound(lines, least, top),
           NEW id, NEW k \in Tokens, \E l \in WithId(lines, id) : Fits(l, k)
    PROVE  Sound({IF l.id = id THEN [l EXCEPT !.token = k] ELSE l : l \in lines}, least, top)
  <1> DEFINE f == [l \in lines |-> IF l.id = id THEN [l EXCEPT !.token = k] ELSE l]
  <1>1. \A l \in lines : l.id = id => Fits(l, k)
    BY DEF WithId, Sound, Apart
  <1>2. \A l \in lines :
          f[l] \in Lines /\ f[l].id = l.id /\ LineKey(f[l]) = LineKey(l) /\ Quoted(f[l])
    BY <1>1, QuoteOnLine DEF Sound
  <1>3. f \in [lines -> Lines]
    BY <1>2
  <1>4. {f[l] : l \in lines} =
            {IF l.id = id THEN [l EXCEPT !.token = k] ELSE l : l \in lines}
    OBVIOUS
  <1> HIDE DEF f
  <1>5. Sound({f[l] : l \in lines}, least, top)
    BY <1>2, <1>3, SoundChanged
  <1> QED
    BY <1>4, <1>5

(***************************************************************************)
(* The steps.                                                              *)
(***************************************************************************)
LEMMA CartInitEstablishes == CartInit => CartInv
  <1> SUFFICES ASSUME CartInit PROVE CartInv
    OBVIOUS
  <1>1. lastId = 0 /\ told = {} /\ cache = [t \in Tabs |-> None]
    BY DEF CartInit
  <1>2. Sound(store, 0, lastId)
    <2>1. CASE store = {}
      BY <2>1 DEF Sound, Apart
    <2>2. ASSUME NEW e \in Earlier,
                 store = {[NewLine(e.variant, e.custom, MinQty) EXCEPT !.token = None]}
          PROVE  Sound(store, 0, lastId)
      <3> DEFINE l == [NewLine(e.variant, e.custom, MinQty) EXCEPT !.token = None]
      <3>1. e.variant \in Variants /\ e.custom \in Customs /\ MinQty \in MinQty..MaxQty
        BY CartAssumption
      <3>2. l \in Lines /\ Quoted(l) /\ l.id = 0
        BY <3>1, CartAssumption DEF NewLine, Lines, Quoted
      <3>3. store = {l}
        BY <2>2
      <3> HIDE DEF l
      <3> QED
        BY <1>1, <3>2, <3>3 DEF Sound, Apart
    <2> QED
      BY <2>1, <2>2 DEF CartInit
  <1>3. CartTypeOK
    BY <1>1, <1>2, CartAssumption DEF CartTypeOK, Sound
  <1>4. TabsAgree
    BY <1>1 DEF TabsAgree
  <1> QED
    BY <1>1, <1>2, <1>3, <1>4 DEF CartInv, DocumentsSound

LEMMA WriteKeeps ==
    ASSUME CartInv, NEW t \in Tabs, NEW lines, lastId' \in lastId..MaxIds,
           Sound(lines, 1, lastId'), Write(t, lines)
    PROVE  CartInv'
  <1>1. /\ lastId \in Nat /\ lastId' \in Nat /\ lastId <= lastId' /\ lastId' \in 0..MaxIds
    BY CartAssumption DEF CartInv, CartTypeOK
  <1>2. /\ store' = lines /\ cache' = [cache EXCEPT ![t] = lines]
        /\ told' = IF lines # store THEN told \cup (Tabs \ {t}) ELSE told
    BY DEF Write
  <1>3. cache \in [Tabs -> {None} \cup SUBSET Lines] /\ told \subseteq Tabs
    BY DEF CartInv, CartTypeOK
  <1>4. cache'[t] = lines /\ \A s \in Tabs \ {t} : cache'[s] = cache[s]
    BY <1>2, <1>3
  <1>5. lines \subseteq Lines
    BY DEF Sound
  <1>6. CartTypeOK'
    BY <1>1, <1>2, <1>3, <1>5 DEF CartTypeOK
  <1>7. Sound(store, 0, lastId)'
    BY <1>1, <1>2 DEF Sound
  <1>8. \A s \in Tabs : cache'[s] # None => Sound(cache'[s], 1, lastId')
    <2> SUFFICES ASSUME NEW s \in Tabs, cache'[s] # None PROVE Sound(cache'[s], 1, lastId')
      OBVIOUS
    <2>1. CASE s = t
      BY <1>4, <2>1
    <2>2. CASE s # t
      <3>1. Sound(cache[s], 1, lastId) /\ cache'[s] = cache[s]
        BY <1>4, <2>2 DEF CartInv, DocumentsSound
      <3> QED
        BY <1>1, <3>1, SoundLater
    <2> QED
      BY <2>1, <2>2
  <1>9. TabsAgree'
    <2> SUFFICES ASSUME NEW s \in Tabs, s \notin told', cache'[s] # None, cache'[s] # store'
                 PROVE  \E id \in 1..lastId' : cache'[s] = Parse(store', id)
      BY DEF TabsAgree, Parse
    <2>1. s # t /\ lines = store /\ s \notin told /\ cache'[s] = cache[s]
      BY <1>2, <1>4
    <2>2. PICK id \in 1..lastId : cache[s] = Parse(store, id)
      BY <1>2, <2>1 DEF CartInv, TabsAgree
    <2> QED
      BY <1>1, <1>2, <2>1, <2>2
  <1> QED
    BY <1>6, <1>7, <1>8, <1>9 DEF CartInv, DocumentsSound

LEMMA ReadKeeps ==
    ASSUME CartInv, NEW t \in Tabs, ReadStore(t)
    PROVE  CartInv'
  <1> DEFINE top   == Minted(store)
             lines == Parse(store, top)
  <1>1. /\ lastId \in Nat /\ top \in Nat /\ lastId <= top /\ top \in 0..MaxIds
        /\ top \in {lastId, lastId + 1}
    BY CartAssumption DEF CartInv, CartTypeOK, ReadStore, Minted
  <1>2. /\ store' = store /\ cache' = [cache EXCEPT ![t] = lines]
        /\ told' = told \ {t} /\ lastId' = top
    BY DEF ReadStore
  <1>3. cache \in [Tabs -> {None} \cup SUBSET Lines] /\ told \subseteq Tabs
    BY DEF CartInv, CartTypeOK
  <1>4. cache'[t] = lines /\ \A s \in Tabs \ {t} : cache'[s] = cache[s]
    BY <1>2, <1>3
  <1>5. Sound(store, 0, lastId)
    BY DEF CartInv, DocumentsSound
  <1>6. Sound(lines, 1, top)
    BY <1>1, <1>5, ReadSound DEF ReadStore
  <1>7. lines = store \/ (\E id \in 1..top : lines = Parse(store, id))
    <2>1. CASE WithId(store, 0) = {}
      BY <2>1 DEF Parse, WithId
    <2>2. CASE WithId(store, 0) # {}
      BY <1>1, <2>2 DEF Minted
    <2> QED
      BY <2>1, <2>2
  <1> HIDE DEF lines, top
  <1>8. CartTypeOK'
    BY <1>1, <1>2, <1>3, <1>6 DEF CartTypeOK, CartInv, Sound
  <1>9. DocumentsSound'
    <2>1. Sound(store, 0, lastId)'
      BY <1>1, <1>2, <1>5, SoundLater
    <2>2. ASSUME NEW s \in Tabs, cache'[s] # None PROVE Sound(cache'[s], 1, lastId')
      <3>1. CASE s = t
        BY <1>2, <1>4, <1>6, <3>1
      <3>2. CASE s # t
        <4>1. Sound(cache[s], 1, lastId) /\ cache'[s] = cache[s]
          BY <1>4, <2>2, <3>2 DEF CartInv, DocumentsSound
        <4> QED
          BY <1>1, <1>2, <4>1, SoundLater
      <3> QED
        BY <3>1, <3>2
    <2> QED
      BY <2>1, <2>2 DEF DocumentsSound
  <1>10. TabsAgree'
    <2> SUFFICES ASSUME NEW s \in Tabs, s \notin told', cache'[s] # None, cache'[s] # store'
                 PROVE  \E id \in 1..lastId' : cache'[s] = Parse(store', id)
      BY DEF TabsAgree, Parse
    <2>1. CASE s = t
      BY <1>2, <1>4, <1>7, <2>1
    <2>2. CASE s # t
      <3>1. s \notin told /\ cache'[s] = cache[s]
        BY <1>2, <1>4, <2>2
      <3>2. PICK id \in 1..lastId : cache[s] = Parse(store, id)
        BY <1>2, <3>1 DEF CartInv, TabsAgree
      <3> QED
        BY <1>1, <1>2, <3>1, <3>2
    <2> QED
      BY <2>1, <2>2
  <1> QED
    BY <1>8, <1>9, <1>10 DEF CartInv

LEMMA CallKeeps ==
    ASSUME CartInv, NEW t \in Tabs, cache[t] # None, Call(t)
    PROVE  CartInv'
  <1>1. Sound(cache[t], 1, lastId) /\ lastId \in Nat /\ lastId <= MaxIds
    BY CartAssumption DEF CartInv, DocumentsSound, CartTypeOK
  <1>2. ASSUME NEW v \in Variants, NEW c \in Customs, NEW n \in MinQty..MaxQty,
               AddLine(t, NewLine(v, c, n))
        PROVE  CartInv'
    <2> DEFINE l     == NewLine(v, c, n)
               lines == Added(cache[t], [l EXCEPT !.id = lastId + 1])
    <2>1. l \in Lines /\ Quoted(l)
      BY NewLineIsLine
    <2>2. /\ Bounded(Added(cache[t], l)) /\ Write(t, lines)
          /\ lastId' = lastId + 1 /\ lastId + 1 <= MaxIds
      BY <1>1, <1>2, CartAssumption DEF AddLine
    <2>3. Sound(lines, 1, lastId + 1)
      <3> HIDE DEF l
      <3> QED
        BY <1>1, <2>1, <2>2, AddedSound
    <2>4. lastId' \in lastId..MaxIds
      BY <1>1, <2>2, CartAssumption
    <2> HIDE DEF lines
    <2> QED
      BY <2>2, <2>3, <2>4, WriteKeeps
  <1>3. ASSUME NEW v \in Variants, NEW c \in Customs, NEW n \in MinQty..MaxQty,
               NEW id \in 1..lastId, UpdateLine(t, id, NewLine(v, c, n))
        PROVE  CartInv'
    <2> DEFINE l     == NewLine(v, c, n)
               lines == Updated(cache[t], id, l)
    <2>1. l \in Lines /\ Quoted(l)
      BY NewLineIsLine
    <2>2. WithId(cache[t], id) # {} /\ Bounded(lines) /\ Write(t, lines) /\ lastId' = lastId
      BY <1>3 DEF UpdateLine
    <2>3. Sound(lines, 1, lastId')
      <3> HIDE DEF l
      <3> QED
        BY <1>1, <2>1, <2>2, UpdatedSound
    <2>4. lastId' \in lastId..MaxIds
      BY <1>1, <2>2, CartAssumption
    <2> HIDE DEF lines
    <2> QED
      BY <2>2, <2>3, <2>4, WriteKeeps
  <1>4. ASSUME NEW l \in cache[t], NEW n \in 0..MaxQty, SetQuantity(t, LineKey(l), n)
        PROVE  CartInv'
    <2> DEFINE lines == Quantified(cache[t], LineKey(l), n)
    <2>1. Write(t, lines) /\ lastId' = lastId
      BY <1>4 DEF SetQuantity
    <2>2. Sound(lines, 1, lastId') /\ lastId' \in lastId..MaxIds
      BY <1>1, <2>1, QuantifiedSound, CartAssumption
    <2> HIDE DEF lines
    <2> QED
      BY <2>1, <2>2, WriteKeeps
  <1>5. ASSUME NEW id \in 1..lastId, NEW v \in Variants, NEW l \in cache[t],
               SetQuote(t, id, Quote(v, l.custom, l.qty))
        PROVE  CartInv'
    <2> DEFINE k     == Quote(v, l.custom, l.qty)
               lines == {IF e.id = id THEN [e EXCEPT !.token = k] ELSE e : e \in cache[t]}
    <2>1. l \in Lines
      BY <1>1 DEF Sound
    <2>2. k \in Tokens
      BY <2>1, LineIsRecord DEF Quote, Tokens
    <2>3. (\E e \in WithId(cache[t], id) : Fits(e, k)) /\ Write(t, lines) /\ lastId' = lastId
      BY <1>5 DEF SetQuote
    <2>4. Sound(lines, 1, lastId') /\ lastId' \in lastId..MaxIds
      <3> HIDE DEF k
      <3> QED
        BY <1>1, <2>2, <2>3, QuoteSetSound, CartAssumption
    <2> HIDE DEF lines
    <2> QED
      BY <2>3, <2>4, WriteKeeps
  <1>6. ASSUME NEW l \in cache[t], RemoveLine(t, LineKey(l))
        PROVE  CartInv'
    <2> DEFINE lines == cache[t] \ WithKey(cache[t], LineKey(l))
    <2>1. Write(t, lines) /\ lastId' = lastId
      BY <1>6 DEF RemoveLine
    <2>2. Sound(lines, 1, lastId') /\ lastId' \in lastId..MaxIds
      BY <1>1, <2>1, SoundPart, CartAssumption
    <2> HIDE DEF lines
    <2> QED
      BY <2>1, <2>2, WriteKeeps
  <1>7. CASE ClearCart(t)
    <2>1. Write(t, {}) /\ lastId' = lastId
      BY <1>7 DEF ClearCart
    <2>2. Sound({}, 1, lastId') /\ lastId' \in lastId..MaxIds
      BY <1>1, <2>1, CartAssumption DEF Sound, Apart
    <2> QED
      BY <2>1, <2>2, WriteKeeps
  <1> QED
    BY <1>2, <1>3, <1>4, <1>5, <1>6, <1>7 DEF Call

LEMMA CartStepKeeps == CartInv /\ [CartNext]_cartVars => CartInv'
  <1> SUFFICES ASSUME CartInv, [CartNext]_cartVars PROVE CartInv'
    OBVIOUS
  <1>1. ASSUME NEW t \in Tabs, ReadStore(t) PROVE CartInv'
    BY <1>1, ReadKeeps
  <1>2. ASSUME NEW t \in Tabs, cache[t] # None, Call(t) PROVE CartInv'
    BY <1>2, CallKeeps
  <1>3. CASE UNCHANGED cartVars
    BY <1>3 DEF cartVars, CartInv, CartTypeOK, DocumentsSound, TabsAgree, Sound, Apart,
                Quoted, LineKey, Parse
  <1> QED
    BY <1>1, <1>2, <1>3 DEF CartNext

LEMMA CartInvariant == CartSpec => []CartInv
  BY CartInitEstablishes, CartStepKeeps, PTL DEF CartSpec

(***************************************************************************)
(* The theorems.                                                           *)
(***************************************************************************)
\* The document and every copy of it hold lines, whatever the tabs call.
THEOREM CartTypeCorrect == CartSpec => []CartTypeOK
  <1>1. CartInv => CartTypeOK
    BY DEF CartInv
  <1> QED
    BY <1>1, CartInvariant, PTL

\* No piece is split over two lines and no id names two, for any number of
\* tabs that write over each other's document (cart.ts).
THEOREM PiecesStayApart == CartSpec => []OnePieceOneLine
  <1>1. CartInv => OnePieceOneLine
    BY DEF CartInv, DocumentsSound, Sound, Apart, OnePieceOneLine, Documents
  <1> QED
    BY <1>1, CartInvariant, PTL

\* Every quote on a line is for the line's size and quantity, however late it
\* came and whatever was merged before (cart.ts, setCartLineQuote).
THEOREM QuotesFit == CartSpec => []QuoteFitsLine
  <1>1. CartInv => QuoteFitsLine
    BY DEF CartInv, DocumentsSound, Sound, Quoted, QuoteFitsLine, Documents
  <1> QED
    BY <1>1, CartInvariant, PTL

\* A tab that is owed no storage event works on what is stored (cart.ts).
THEOREM TabsWorkOnTheStored == CartSpec => []TabsAgree
  <1>1. CartInv => TabsAgree
    BY DEF CartInv
  <1> QED
    BY <1>1, CartInvariant, PTL

(***************************************************************************)
(* The page by itself.                                                     *)
(***************************************************************************)
Drafts == [art : Files \cup {None}, text : Texts \cup {None}, own : BOOLEAN,
           size : Typed \cup {None}]

Keys == {None} \cup [variant : Variants, qty : MinQty..MaxQty, size : Typed \cup {None}]

Uploads == [file : Files, step : {"calls", "reads"}, base : Drafts]

Fetches == [key : Keys, status : {"loading", "ready", "error"}]

Pages == [line : 0..MaxIds, selected : Variants \cup {None}, draft : Drafts,
          qty : MinQty..MaxQty, preset : Variants \cup {None},
          upload : {None} \cup Uploads, show : {"quiet", "uploading", "failed"},
          retry : Files \cup {None}, torn : BOOLEAN,
          active : Keys, asked : {"no", "timer", "sent"}, fetched : {None} \cup Fetches]

\* A request that is under way has put its key on the page.
Shaped(p) == p \in Pages /\ (p.asked = "sent" => p.fetched \in Fetches)

\* Between two steps the effects have run: the page asks for what it shows.
Current(p) == Shaped(p) /\ p.active = QuoteKey(p)

\* The checkbox and the variant say the same of the size, on a page that no
\* late upload has torn: what the server reads from the variant alone.
SizeAgrees(p) ==
    ~p.torn /\ rules.named =>
        /\ UsesOwnSize(rules, p.draft) => p.selected = OwnSize
        /\ rules.inputs["size"] = "optional" =>
            IF p.draft.own THEN p.preset # OwnSize ELSE p.selected # OwnSize

\* A quote that is under way is one for a line.
LateSound == late # None => late \in [tab : Tabs, id : 0..MaxIds, token : Tokens]

PageInv == CartInv /\ rules \in Rulebook /\ Current(page) /\ LateSound

(***************************************************************************)
(* The lines.                                                              *)
(***************************************************************************)
Accepted(l) == ServerAccepts(rules, l.custom, l.variant = OwnSize, Measured(l.variant))

Sanctioned(lines) == \A l \in lines : LineKey(l) \in spoilt \/ Accepted(l)

LinesSanctioned == Sanctioned(store) /\ \A t \in Tabs : cache[t] # None => Sanctioned(cache[t])

AcceptInv == PageInv /\ SizeAgrees(page) /\ LinesSanctioned

\* A shopper who need not give a size can choose another than the Custom value.
SizeCanBeLeft ==
    Presets = {} => \A r \in Rulebook : r.named => r.inputs["size"] # "optional"

(***************************************************************************)
(* Rendering.                                                              *)
(***************************************************************************)
LEMMA KeyIsKey ==
    ASSUME NEW p \in Pages
    PROVE  QuoteKey(p) \in Keys
  BY DEF QuoteKey, Keys, Quotable, Available, UsesOwnSize, Pages, Drafts

LEMMA RenderedIsCurrent ==
    ASSUME NEW p, Shaped(p)
    PROVE  /\ Current(Rendered(p))
           /\ Rendered(p).draft = p.draft /\ Rendered(p).selected = p.selected
           /\ Rendered(p).preset = p.preset /\ Rendered(p).torn = p.torn
           /\ Rendered(p).line = p.line
  <1> DEFINE key == QuoteKey(p)
             a   == IF key = None THEN "no" ELSE "timer"
             r   == [p EXCEPT !.active = key, !.asked = a]
  <1>1. p \in Pages /\ key \in Keys /\ a \in {"no", "timer"}
    BY KeyIsKey DEF Shaped
  <1>2. CASE key = p.active
    BY <1>2 DEF Rendered, Current
  <1>3. CASE key # p.active
    <2>1. Rendered(p) = r
      BY <1>3 DEF Rendered
    <2> HIDE DEF key, a
    <2>2. /\ r \in Pages /\ r.asked = a /\ r.active = key /\ r.draft = p.draft
          /\ r.selected = p.selected /\ r.preset = p.preset /\ r.torn = p.torn
          /\ r.qty = p.qty /\ r.line = p.line
      BY <1>1 DEF Pages
    <2> HIDE DEF r
    <2>3. QuoteKey(r) = QuoteKey(p)
      BY <2>2 DEF QuoteKey, Quotable
    <2> QED
      BY <1>1, <2>1, <2>2, <2>3 DEF Current, Shaped, key
  <1> QED
    BY <1>2, <1>3

LEMMA AgreesAlike ==
    ASSUME NEW p, NEW q, SizeAgrees(p), q.draft.own = p.draft.own,
           q.selected = p.selected, q.preset = p.preset, p.torn => q.torn, 
           p.torn \in BOOLEAN, q.torn \in BOOLEAN
    PROVE  SizeAgrees(q)
  BY DEF SizeAgrees, UsesOwnSize

(***************************************************************************)
(* Mounting.                                                               *)
(***************************************************************************)
LEMMA NewPageIsCurrent ==
    ASSUME rules \in Rulebook
    PROVE  Current(NewPage) /\ (SizeCanBeLeft => SizeAgrees(NewPage))
  <1>1. EmptyDraft \in Drafts /\ ~EmptyDraft.own
    BY DEF EmptyDraft, Drafts
  <1>2. DefaultSelection \in Variants \cup {None}
    BY ProductAssumption DEF DefaultSelection
  <1>3. 0 \in 0..MaxIds /\ MinQty \in MinQty..MaxQty
    BY CartAssumption
  <1>4. /\ Current(NewPage) /\ NewPage.selected = DefaultSelection
        /\ NewPage.draft = EmptyDraft /\ NewPage.preset = None /\ NewPage.torn = FALSE
    <2> DEFINE p == [line |-> 0, selected |-> DefaultSelection, draft |-> EmptyDraft,
                     qty |-> MinQty, preset |-> None, upload |-> None, show |-> "quiet",
                     retry |-> None, torn |-> FALSE, active |-> None, asked |-> "no",
                     fetched |-> None]
    <2>1. Shaped(p) /\ NewPage = Rendered(p)
      BY <1>1, <1>2, <1>3 DEF Shaped, Pages, Keys, NewPage, Mounted
    <2>2. /\ p.selected = DefaultSelection /\ p.draft = EmptyDraft
          /\ p.preset = None /\ p.torn = FALSE
      OBVIOUS
    <2> HIDE DEF p
    <2> QED
      BY <2>1, <2>2, RenderedIsCurrent
  <1>5. ASSUME SizeCanBeLeft, rules.named
        PROVE  /\ UsesOwnSize(rules, EmptyDraft) => DefaultSelection = OwnSize
               /\ rules.inputs["size"] = "optional" => DefaultSelection # OwnSize
    <2>1. UsesOwnSize(rules, EmptyDraft) => DefaultSelection = OwnSize
      BY <1>5 DEF DefaultSelection
    <2>2. rules.inputs["size"] = "optional" => ~UsesOwnSize(rules, EmptyDraft) /\ Presets # {}
      BY <1>1, <1>5 DEF UsesOwnSize, SizeCanBeLeft
    <2>3. None # OwnSize
      BY ProductAssumption
    <2> QED
      BY <2>1, <2>2, <2>3 DEF DefaultSelection
  <1>6. SizeCanBeLeft => SizeAgrees(NewPage)
    BY <1>1, <1>4, <1>5 DEF SizeAgrees
  <1> QED
    BY <1>4, <1>6

LEMMA CustomIsDraft ==
    ASSUME NEW c \in Customs
    PROVE  DraftOf(rules, c) \in Drafts
  <1>1. c \in [art : Files \cup {None}, text : Texts \cup {None}, size : Typed \cup {None}]
    BY RuleAssumption
  <1> QED
    BY <1>1 DEF DraftOf, Drafts

LEMMA EditPageIsCurrent ==
    ASSUME rules \in Rulebook, NEW l \in Lines
    PROVE  LET p == EditPage(l)
           IN  /\ Current(p) /\ p.selected = l.variant /\ p.draft = DraftOf(rules, l.custom)
               /\ LineKey(l) \in spoilt \/ Accepted(l) => SizeAgrees(p)
  <1> DEFINE p     == EditPage(l)
             torn  == LineKey(l) \in spoilt
             draft == DraftOf(rules, l.custom)
  <1>1. /\ l.id \in 0..MaxIds /\ l.variant \in Variants /\ l.custom \in Customs
        /\ l.qty \in MinQty..MaxQty
    BY LineIsRecord
  <1>2. (IF l.qty < MinQty THEN MinQty ELSE l.qty) \in MinQty..MaxQty
    BY <1>1, CartAssumption
  <1>3. /\ Current(p) /\ p.selected = l.variant /\ p.draft = draft
        /\ p.preset = None /\ p.torn = torn
    <2> DEFINE q == [line |-> l.id, selected |-> l.variant, draft |-> draft,
                     qty |-> IF l.qty < MinQty THEN MinQty ELSE l.qty,
                     preset |-> None, upload |-> None, show |-> "quiet", retry |-> None,
                     torn |-> torn, active |-> None, asked |-> "no", fetched |-> None]
    <2>1. draft \in Drafts
      BY <1>1, CustomIsDraft
    <2>2. p = Rendered(q)
      BY DEF EditPage, Mounted
    <2>3. Shaped(q)
      <3> HIDE DEF draft, torn
      <3>1. torn \in BOOLEAN
        BY DEF torn
      <3> QED
        BY <1>1, <1>2, <2>1, <3>1 DEF Shaped, Pages, Keys
    <2>4. q.selected = l.variant /\ q.draft = draft /\ q.preset = None /\ q.torn = torn
      OBVIOUS
    <2> HIDE DEF p, q, draft, torn
    <2> QED
      BY <2>2, <2>3, <2>4, RenderedIsCurrent
  <1>4. ASSUME Accepted(l), rules.named
        PROVE  /\ UsesOwnSize(rules, draft) => l.variant = OwnSize
               /\ rules.inputs["size"] = "optional" /\ ~draft.own => l.variant # OwnSize
    <2> DEFINE isCustom == (l.variant = OwnSize)
    <2>1. /\ rules.inputs["size"] \in Modes
      BY RuleAssumption DEF Inputs
    <2>2. IF l.custom.size # None THEN ~SwitchedOff(rules, "size", CustomVariant(rules, isCustom))
          ELSE ~Required(rules, "size", CustomVariant(rules, isCustom))
      BY <1>4 DEF Accepted, ServerAccepts, Given, Inputs
    <2>3. draft.own = (l.custom.size # None /\ rules.inputs["size"] = "optional")
      BY DEF DraftOf
    <2> QED
      BY <1>4, <2>1, <2>2, <2>3
      DEF SwitchedOff, Required, CustomVariant, UsesOwnSize, Modes
  <1>5. None # OwnSize
    BY ProductAssumption
  <1>6. torn \/ Accepted(l) => SizeAgrees(p)
    <2> HIDE DEF draft, p
    <2> QED
      BY <1>3, <1>4, <1>5 DEF SizeAgrees
  <1> QED
    BY <1>3, <1>6

(***************************************************************************)
(* The entries, the uploads and the quotes: each renders a page that is    *)
(* shaped and whose size agrees if it did.                                 *)
(***************************************************************************)
Reshaped(p) == Shaped(p) /\ (SizeAgrees(page) => SizeAgrees(p))

LEMMA RenderingKeeps ==
    ASSUME NEW p, Reshaped(p), page' = Rendered(p), rules' = rules
    PROVE  Current(page)' /\ (SizeAgrees(page) => SizeAgrees(page)')
  <1>1. /\ Current(page') /\ page'.draft = p.draft /\ page'.selected = p.selected
        /\ page'.preset = p.preset /\ page'.torn = p.torn
    BY RenderedIsCurrent DEF Reshaped
  <1>2. p.torn \in BOOLEAN
    BY DEF Reshaped, Shaped, Pages
  <1>3. SizeAgrees(page) => SizeAgrees(page')
    BY <1>1, <1>2, AgreesAlike DEF Reshaped
  <1> QED
    BY <1>1, <1>3 DEF Current, Shaped, QuoteKey, Quotable, SizeErrors, UsesOwnSize, SizeAgrees

LEMMA AbortedIsShaped ==
    ASSUME NEW p, Shaped(p)
    PROVE  /\ Shaped(Aborted(p)) /\ Aborted(p).draft = p.draft
           /\ Aborted(p).selected = p.selected /\ Aborted(p).preset = p.preset
           /\ Aborted(p).torn = p.torn
  <1>1. CASE p.upload = None
    BY <1>1 DEF Aborted
  <1>2. CASE p.upload # None /\ p.upload.step = "reads"
    BY <1>2 DEF Aborted, Shaped, Pages, Uploads
  <1>3. CASE p.upload # None /\ p.upload.step # "reads"
    BY <1>3 DEF Aborted, Shaped, Pages, Uploads
  <1> QED
    BY <1>1, <1>2, <1>3

LEMMA StartedIsShaped ==
    ASSUME NEW p, Shaped(p), NEW f \in Files
    PROVE  /\ Shaped(Started(p, f)) /\ Started(p, f).draft = p.draft
           /\ Started(p, f).selected = p.selected /\ Started(p, f).preset = p.preset
           /\ Started(p, f).torn = p.torn
  <1> DEFINE new == [file |-> f, step |-> "calls", base |-> p.draft]
  <1>1. new \in Uploads
    BY DEF Uploads, Shaped, Pages
  <1>2. CASE p.upload = None
    <2>1. Started(p, f) = [p EXCEPT !.upload = new, !.show = "uploading"]
      BY <1>2 DEF Started
    <2> HIDE DEF new
    <2> QED
      BY <1>1, <2>1 DEF Shaped, Pages
  <1>3. CASE p.upload # None
    <2> DEFINE a == Aborted(p)
    <2>1. Started(p, f) = [a EXCEPT !.upload = new]
      BY <1>3 DEF Started
    <2>2. /\ Shaped(a) /\ a.draft = p.draft /\ a.selected = p.selected
          /\ a.preset = p.preset /\ a.torn = p.torn
      BY AbortedIsShaped
    <2> HIDE DEF new, a
    <2> QED
      BY <1>1, <2>1, <2>2 DEF Shaped, Pages
  <1> QED
    BY <1>2, <1>3

\* The size stays what it was.
LEMMA ReshapedAlike ==
    ASSUME Shaped(page), NEW p, Shaped(p), p.draft.own = page.draft.own,
           p.selected = page.selected, p.preset = page.preset, page.torn => p.torn
    PROVE  Reshaped(p)
  <1>1. page.torn \in BOOLEAN /\ p.torn \in BOOLEAN
    BY DEF Shaped, Pages
  <1> QED
    BY <1>1, AgreesAlike DEF Reshaped

LEMMA EntryReshapes ==
    ASSUME Shaped(page), rules \in Rulebook,
           \/ \E v \in Variants : ChooseSize(v)
           \/ ToggleOwnSize
           \/ \E s \in Typed \cup {None} : TypeSize(s)
           \/ \E x \in Texts \cup {None} : TypeText(x)
           \/ \E n \in 1..MaxQty : SetPageQuantity(n)
    PROVE  \E p : Reshaped(p) /\ page' = Rendered(p)
  <1>1. page \in Pages /\ page.draft \in Drafts
    BY DEF Shaped, Pages
  <1>2. ASSUME NEW v \in Variants, ChooseSize(v)
        PROVE  \E p : Reshaped(p) /\ page' = Rendered(p)
    <2> DEFINE p == [page EXCEPT !.selected = v]
    <2>1. page' = Rendered(p)
      BY <1>2 DEF ChooseSize, Entered
    <2>2. Shaped(p)
      BY <1>1 DEF Shaped, Pages
    <2>3. rules.named => v # OwnSize /\ ~UsesOwnSize(rules, page.draft)
      BY <1>2 DEF ChooseSize
    <2>4. p.selected = v /\ p.draft = page.draft
      BY <1>1 DEF Pages
    <2> HIDE DEF p
    <2>5. SizeAgrees(p)
      BY <2>3, <2>4 DEF SizeAgrees, UsesOwnSize
    <2> QED
      BY <2>1, <2>2, <2>5 DEF Reshaped
  <1>3. ASSUME ToggleOwnSize
        PROVE  \E p : Reshaped(p) /\ page' = Rendered(p)
    <2> DEFINE own == ~page.draft.own
    <2>1. rules.inputs["size"] = "optional" /\ rules.named \in BOOLEAN
      BY <1>3, RuleAssumption DEF ToggleOwnSize
    <2> DEFINE toggled == [page EXCEPT !.draft.own = own]
    <2>o. /\ Shaped(toggled) /\ toggled.selected = page.selected
          /\ toggled.preset = page.preset
      <3>1. own \in BOOLEAN
        OBVIOUS
      <3> HIDE DEF own
      <3> QED
        BY <1>1, <3>1 DEF Shaped, Pages, Drafts
    <2>2. CASE ~rules.named
      <3>1. page' = Rendered(toggled)
        BY <1>3, <2>2 DEF ToggleOwnSize, Entered
      <3> QED
        BY <2>2, <2>o, <3>1 DEF Reshaped, SizeAgrees
    <2>3. CASE rules.named /\ own
      <3> DEFINE p == [page EXCEPT !.draft.own = own, !.selected = OwnSize,
                                   !.preset = page.selected]
      <3>1. page' = Rendered(p)
        BY <1>3, <2>3 DEF ToggleOwnSize, Entered
      <3>2. Shaped(p)
        <4>1. p = [toggled EXCEPT !.selected = OwnSize, !.preset = page.selected]
          OBVIOUS
        <4> HIDE DEF toggled, p
        <4> QED
          BY <1>1, <2>o, <4>1, ProductAssumption DEF Shaped, Pages
      <3>3. /\ p.draft.own /\ p.selected = OwnSize /\ p.preset = page.selected
            /\ p.torn = page.torn
        BY <1>1, <2>3 DEF Pages, Drafts
      <3> HIDE DEF p
      <3>4. SizeAgrees(page) => SizeAgrees(p)
        BY <2>1, <2>3, <3>3 DEF SizeAgrees
      <3> QED
        BY <3>1, <3>2, <3>4 DEF Reshaped
    <2>4. CASE rules.named /\ ~own
      <3> DEFINE p == [page EXCEPT !.draft.own = own, !.selected = page.preset]
      <3>1. page' = Rendered(p)
        BY <1>3, <2>4 DEF ToggleOwnSize, Entered
      <3>2. Shaped(p)
        <4>1. p = [toggled EXCEPT !.selected = page.preset]
          OBVIOUS
        <4> HIDE DEF toggled, p
        <4> QED
          BY <1>1, <2>o, <4>1 DEF Shaped, Pages
      <3>3. ~p.draft.own /\ p.selected = page.preset /\ p.torn = page.torn
        BY <1>1, <2>4 DEF Pages, Drafts
      <3> HIDE DEF p
      <3>4. SizeAgrees(page) => SizeAgrees(p)
        BY <2>1, <2>4, <3>3 DEF SizeAgrees, UsesOwnSize
      <3> QED
        BY <3>1, <3>2, <3>4 DEF Reshaped
    <2> QED
      BY <2>2, <2>3, <2>4
  <1>4. ASSUME NEW s \in Typed \cup {None}, TypeSize(s)
        PROVE  \E p : Reshaped(p) /\ page' = Rendered(p)
    <2> DEFINE p == [page EXCEPT !.draft.size = s]
    <2>1. page' = Rendered(p)
      BY <1>4 DEF TypeSize, Entered
    <2>2. /\ Shaped(p) /\ p.draft.own = page.draft.own /\ p.selected = page.selected
          /\ p.preset = page.preset /\ p.torn = page.torn
      BY <1>1 DEF Shaped, Pages, Drafts
    <2> HIDE DEF p
    <2> QED
      BY <2>1, <2>2, ReshapedAlike
  <1>5. ASSUME NEW x \in Texts \cup {None}, TypeText(x)
        PROVE  \E p : Reshaped(p) /\ page' = Rendered(p)
    <2> DEFINE p == [page EXCEPT !.draft.text = x]
    <2>1. page' = Rendered(p)
      BY <1>5 DEF TypeText, Entered
    <2>2. /\ Shaped(p) /\ p.draft.own = page.draft.own /\ p.selected = page.selected
          /\ p.preset = page.preset /\ p.torn = page.torn
      BY <1>1 DEF Shaped, Pages, Drafts
    <2> HIDE DEF p
    <2> QED
      BY <2>1, <2>2, ReshapedAlike
  <1>6. ASSUME NEW n \in 1..MaxQty, SetPageQuantity(n)
        PROVE  \E p : Reshaped(p) /\ page' = Rendered(p)
    <2> DEFINE q == IF n < MinQty THEN MinQty ELSE n
               p == [page EXCEPT !.qty = q]
    <2>1. page' = Rendered(p)
      BY <1>6 DEF SetPageQuantity, Entered
    <2>2. q \in MinQty..MaxQty
      BY CartAssumption
    <2> HIDE DEF q
    <2>3. /\ Shaped(p) /\ p.draft.own = page.draft.own /\ p.selected = page.selected
          /\ p.preset = page.preset /\ p.torn = page.torn
      BY <1>1, <2>2 DEF Shaped, Pages, Drafts
    <2> HIDE DEF p
    <2> QED
      BY <2>1, <2>3, ReshapedAlike
  <1> QED
    BY <1>2, <1>3, <1>4, <1>5, <1>6

LEMMA UploadReshapes ==
    ASSUME Shaped(page),
           \/ \E f \in Files : PickFile(f)
           \/ DropBadFile \/ Retry \/ KeepCurrent \/ CancelUpload \/ RemoveFile
           \/ UploadGoesOn \/ UploadFails \/ UploadEnds
    PROVE  \E p : Reshaped(p) /\ page' = Rendered(p)
  <1>1. page \in Pages
    BY DEF Shaped
  <1>2. ASSUME NEW f \in Files, PickFile(f)
        PROVE  \E p : Reshaped(p) /\ page' = Rendered(p)
    <2>1. page' = Rendered(Started(page, f))
      BY <1>2 DEF PickFile, Entered
    <2> QED
      BY <2>1, StartedIsShaped, ReshapedAlike
  <1>3. ASSUME DropBadFile
        PROVE  \E p : Reshaped(p) /\ page' = Rendered(p)
    <2> DEFINE p == [page EXCEPT !.show = "failed", !.retry = None]
    <2>1. page' = Rendered(p)
      BY <1>3 DEF DropBadFile, Entered
    <2>2. /\ Shaped(p) /\ p.draft.own = page.draft.own /\ p.selected = page.selected
          /\ p.preset = page.preset /\ p.torn = page.torn
      BY <1>1 DEF Shaped, Pages
    <2> HIDE DEF p
    <2> QED
      BY <2>1, <2>2, ReshapedAlike
  <1>4. ASSUME Retry
        PROVE  \E p : Reshaped(p) /\ page' = Rendered(p)
    <2>1. page' = Rendered(Started(page, page.retry))
      BY <1>4 DEF Retry, Entered
    <2>2. page.retry \in Files
      BY <1>1, <1>4 DEF Retry, Pages
    <2> QED
      BY <2>1, <2>2, StartedIsShaped, ReshapedAlike
  <1>5. ASSUME KeepCurrent
        PROVE  \E p : Reshaped(p) /\ page' = Rendered(p)
    <2> DEFINE p == [page EXCEPT !.show = "quiet"]
    <2>1. page' = Rendered(p)
      BY <1>5 DEF KeepCurrent, Entered
    <2>2. /\ Shaped(p) /\ p.draft.own = page.draft.own /\ p.selected = page.selected
          /\ p.preset = page.preset /\ p.torn = page.torn
      BY <1>1 DEF Shaped, Pages
    <2> HIDE DEF p
    <2> QED
      BY <2>1, <2>2, ReshapedAlike
  <1>6. ASSUME CancelUpload
        PROVE  \E p : Reshaped(p) /\ page' = Rendered(p)
    <2>1. page' = Rendered(Aborted(page))
      BY <1>6 DEF CancelUpload, Entered
    <2> QED
      BY <2>1, AbortedIsShaped, ReshapedAlike
  <1>7. ASSUME RemoveFile
        PROVE  \E p : Reshaped(p) /\ page' = Rendered(p)
    <2> DEFINE a == Aborted(page)
               b == [a EXCEPT !.draft.art = None]
               p == [a EXCEPT !.show = "quiet", !.draft.art = None]
    <2>1. page' = Rendered(p)
      BY <1>7 DEF RemoveFile, Entered
    <2>2. /\ Shaped(a) /\ a.draft = page.draft /\ a.selected = page.selected
          /\ a.preset = page.preset /\ a.torn = page.torn
      BY AbortedIsShaped
    <2> HIDE DEF a
    <2>3. /\ Shaped(b) /\ b.draft.own = page.draft.own /\ b.selected = page.selected
          /\ b.preset = page.preset /\ b.torn = page.torn
      BY <2>2 DEF Shaped, Pages, Drafts
    <2>4. p = [b EXCEPT !.show = "quiet"]
      BY <2>2 DEF Shaped, Pages
    <2> HIDE DEF b, p
    <2>5. /\ Shaped(p) /\ p.draft.own = page.draft.own /\ p.selected = page.selected
          /\ p.preset = page.preset /\ p.torn = page.torn
      BY <2>3, <2>4 DEF Shaped, Pages
    <2> HIDE DEF p
    <2> QED
      BY <2>1, <2>5, ReshapedAlike
  <1>8. ASSUME UploadGoesOn
        PROVE  \E p : Reshaped(p) /\ page' = Rendered(p)
    <2> DEFINE p == [page EXCEPT !.upload.step = IF @ = "calls" THEN "reads" ELSE "calls"]
    <2>1. page' = Rendered(p) /\ page.upload # None
      BY <1>8 DEF UploadGoesOn, InBackground
    <2>2. /\ Shaped(p) /\ p.draft.own = page.draft.own /\ p.selected = page.selected
          /\ p.preset = page.preset /\ p.torn = page.torn
      BY <1>1, <2>1 DEF Shaped, Pages, Uploads
    <2> HIDE DEF p
    <2> QED
      BY <2>1, <2>2, ReshapedAlike
  <1>9. ASSUME UploadFails
        PROVE  \E p : Reshaped(p) /\ page' = Rendered(p)
    <2> DEFINE p == [page EXCEPT !.upload = None, !.show = "failed", !.retry = page.upload.file]
    <2>1. page' = Rendered(p) /\ page.upload # None
      BY <1>9 DEF UploadFails, InBackground
    <2>2. /\ Shaped(p) /\ p.draft.own = page.draft.own /\ p.selected = page.selected
          /\ p.preset = page.preset /\ p.torn = page.torn
      BY <1>1, <2>1 DEF Shaped, Pages, Uploads
    <2> HIDE DEF p
    <2> QED
      BY <2>1, <2>2, ReshapedAlike
  <1>10. ASSUME UploadEnds
         PROVE  \E p : Reshaped(p) /\ page' = Rendered(p)
    <2> DEFINE kept  == [page.draft EXCEPT !.art = page.upload.file]
               draft == [page.upload.base EXCEPT !.art = page.upload.file]
               torn  == page.torn \/ draft # kept
               p == [page EXCEPT !.upload = None, !.show = "quiet", !.draft = draft,
                                 !.torn = torn]
    <2>1. page' = Rendered(p)
      BY <1>10 DEF UploadEnds, InBackground
    <2>2. draft \in Drafts /\ kept \in Drafts /\ kept.own = page.draft.own
      BY <1>1, <1>10 DEF UploadEnds, Pages, Uploads, Drafts
    <2>3. torn \in BOOLEAN /\ (~torn => ~page.torn /\ draft = kept)
      OBVIOUS
    <2> HIDE DEF draft, kept, torn
    <2>4. /\ Shaped(p) /\ p.draft = draft /\ p.selected = page.selected
          /\ p.preset = page.preset /\ p.torn = torn
      BY <1>1, <2>2, <2>3 DEF Shaped, Pages
    <2> HIDE DEF p
    <2>5. SizeAgrees(page) => SizeAgrees(p)
      BY <2>2, <2>3, <2>4 DEF SizeAgrees, UsesOwnSize
    <2> QED
      BY <2>1, <2>4, <2>5 DEF Reshaped
  <1> QED
    BY <1>2, <1>3, <1>4, <1>5, <1>6, <1>7, <1>8, <1>9, <1>10

LEMMA QuoteReshapes ==
    ASSUME Current(page), QuoteTimer \/ QuoteAnswered \/ QuoteFails
    PROVE  \E p : Reshaped(p) /\ page' = Rendered(p)
  <1>1. page \in Pages /\ (page.asked = "sent" => page.fetched \in Fetches)
    BY DEF Current, Shaped, Pages
  <1>2. ASSUME QuoteTimer
        PROVE  \E p : Reshaped(p) /\ page' = Rendered(p)
    <2> DEFINE f == [key |-> page.active, status |-> "loading"]
               p == [page EXCEPT !.asked = "sent", !.fetched = f]
    <2>1. page' = Rendered(p)
      BY <1>2 DEF QuoteTimer, InBackground
    <2>2. f \in Fetches
      BY <1>1 DEF Fetches, Pages
    <2> HIDE DEF f
    <2>3. /\ Shaped(p) /\ p.draft.own = page.draft.own /\ p.selected = page.selected
          /\ p.preset = page.preset /\ p.torn = page.torn
      BY <1>1, <2>2 DEF Shaped, Pages
    <2> HIDE DEF p
    <2> QED
      BY <2>1, <2>3, ReshapedAlike DEF Current
  <1>3. ASSUME QuoteAnswered
        PROVE  \E p : Reshaped(p) /\ page' = Rendered(p)
    <2> DEFINE p == [page EXCEPT !.asked = "no", !.fetched.status = "ready"]
    <2>1. page' = Rendered(p) /\ page.asked = "sent"
      BY <1>3 DEF QuoteAnswered, InBackground
    <2>2. /\ Shaped(p) /\ p.draft.own = page.draft.own /\ p.selected = page.selected
          /\ p.preset = page.preset /\ p.torn = page.torn
      BY <1>1, <2>1 DEF Shaped, Pages, Fetches
    <2> HIDE DEF p
    <2> QED
      BY <2>1, <2>2, ReshapedAlike DEF Current
  <1>4. ASSUME QuoteFails
        PROVE  \E p : Reshaped(p) /\ page' = Rendered(p)
    <2> DEFINE p == [page EXCEPT !.asked = "no", !.fetched.status = "error"]
    <2>1. page' = Rendered(p) /\ page.asked = "sent"
      BY <1>4 DEF QuoteFails, InBackground
    <2>2. /\ Shaped(p) /\ p.draft.own = page.draft.own /\ p.selected = page.selected
          /\ p.preset = page.preset /\ p.torn = page.torn
      BY <1>1, <2>1 DEF Shaped, Pages, Fetches
    <2> HIDE DEF p
    <2> QED
      BY <2>1, <2>2, ReshapedAlike DEF Current
  <1> QED
    BY <1>2, <1>3, <1>4

(***************************************************************************)
(* What the button adds.                                                   *)
(***************************************************************************)
LEMMA PayloadIsWhole ==
    ASSUME NEW d \in Drafts, Missing(rules, d) = {}, UsesOwnSize(rules, d)
    PROVE  d.size \in rules.within /\ Payload(rules, d).size = d.size
  <1>1. d.size \in rules.within
    BY DEF Missing, Satisfied, Inputs
  <1>2. rules.inputs["size"] # "off"
    BY DEF UsesOwnSize
  <1> QED
    BY <1>1, <1>2 DEF Payload, Satisfied

LEMMA PayloadHasNoSize ==
    ASSUME NEW d, ~UsesOwnSize(rules, d)
    PROVE  Payload(rules, d).size = None
  BY DEF Payload, Satisfied

\* The price that is ready is the one of the line.
LEMMA ReadyPriceFits ==
    ASSUME Current(page), CanAdd(page)
    PROVE  /\ page.selected \in Variants
           /\ page.fetched.key = Quote(page.selected, Payload(rules, page.draft), page.qty)
  <1>1. page.fetched.key = QuoteKey(page) /\ QuoteKey(page) # None
    BY DEF CanAdd, QuoteStatus, Current
  <1>2. page.draft \in Drafts /\ Missing(rules, page.draft) = {} /\ page.selected \in Variants
    BY DEF CanAdd, Available, Current, Shaped, Pages
  <1>3. QuoteKey(page) =
            [variant |-> page.selected, qty |-> page.qty,
             size |-> IF UsesOwnSize(rules, page.draft) THEN page.draft.size ELSE None]
    BY <1>1 DEF QuoteKey
  <1>4. Payload(rules, page.draft).size =
            IF UsesOwnSize(rules, page.draft) THEN page.draft.size ELSE None
    BY <1>2, PayloadIsWhole, PayloadHasNoSize
  <1> QED
    BY <1>1, <1>2, <1>3, <1>4 DEF Quote

\* What passes the page's checks can be on a line.
LEMMA PayloadIsCustom ==
    ASSUME rules \in Rulebook, Current(page), CanAdd(page)
    PROVE  Payload(rules, page.draft) \in Customs
  <1> DEFINE d == page.draft
             c == Payload(rules, d)
  <1>1. d \in Drafts /\ ~TextProblem(rules, d)
    BY DEF CanAdd, Current, Shaped, Pages
  <1>2. c = [art |-> c.art, text |-> c.text, size |-> c.size]
    BY DEF Payload
  <1>3. c.art \in Files \cup {None}
    BY <1>1 DEF Payload, Drafts
  <1>4. c.text \in (Texts \ rules.unfit) \cup {None}
    BY <1>1 DEF Payload, Drafts, TextProblem
  <1>5. c.size \in rules.within \cup {None}
    BY DEF Payload, Satisfied
  <1>6. [art : Files \cup {None}, text : (Texts \ rules.unfit) \cup {None},
         size : rules.within \cup {None}] \subseteq Customs
    BY RuleAssumption
  <1> HIDE DEF c
  <1>7. c \in [art : Files \cup {None}, text : (Texts \ rules.unfit) \cup {None},
              size : rules.within \cup {None}]
    BY <1>2, <1>3, <1>4, <1>5
  <1>8. c \in Customs
    BY <1>6, <1>7
  <1> QED
    BY <1>8 DEF c

LEMMA LineIsNewLine ==
    ASSUME rules \in Rulebook, Current(page), CanAdd(page)
    PROVE  \E v \in Variants, c \in Customs, n \in MinQty..MaxQty :
             v = page.selected /\ c = Payload(rules, page.draft) /\ LineOf(page) = NewLine(v, c, n)
  <1>1. page.qty \in MinQty..MaxQty
    BY DEF Current, Shaped, Pages
  <1>2. LineOf(page) = NewLine(page.selected, Payload(rules, page.draft), page.qty)
    BY ReadyPriceFits DEF LineOf, NewLine
  <1> QED
    BY <1>1, <1>2, ReadyPriceFits, PayloadIsCustom

(***************************************************************************)
(* The page's checks and the server's.                                     *)
(***************************************************************************)
LEMMA ServerTakesPayload ==
    ASSUME rules \in Rulebook, Current(page), SizeAgrees(page), ~page.torn, CanAdd(page)
    PROVE  ServerAccepts(rules, Payload(rules, page.draft), page.selected = OwnSize,
                         Measured(page.selected))
  <1> DEFINE d        == page.draft
             c        == Payload(rules, d)
             isCustom == page.selected = OwnSize
             variant  == CustomVariant(rules, isCustom)
             own      == UsesOwnSize(rules, d)
  <1>1. d \in Drafts /\ Missing(rules, d) = {} /\ ~TextProblem(rules, d)
        /\ ~ArtworkError(rules, d, Measured(page.selected))
    BY DEF CanAdd, Current, Shaped, Pages
  <1>2. /\ rules.inputs \in [Inputs -> Modes] /\ rules.named \in BOOLEAN
        /\ rules.within \subseteq Typed /\ rules.unfit \subseteq Texts
    BY RuleAssumption
  <1>3. None \notin Files \cup Texts \cup Typed
    BY ProductAssumption
  <1>4. /\ c.art = IF rules.inputs["artwork"] # "off" THEN d.art ELSE None
        /\ c.text = IF rules.inputs["text"] # "off" THEN d.text ELSE None
    BY DEF Payload, Satisfied
  <1>5. c.size = IF own THEN d.size ELSE None
    BY <1>1, PayloadIsWhole, PayloadHasNoSize
  <1>6. own => d.size \in rules.within
    BY <1>1, PayloadIsWhole
  <1>7. /\ rules.inputs["artwork"] = "required" => d.art # None
        /\ rules.inputs["text"] = "required" => d.text # None
    BY <1>1 DEF Missing, Satisfied, Inputs
  <1>8. \A i \in {"artwork", "text"} :
            IF Given(c, i) THEN ~SwitchedOff(rules, i, variant) ELSE ~Required(rules, i, variant)
    <2> HIDE DEF c, d, variant
    <2> QED
      BY <1>4, <1>7 DEF Given, SwitchedOff, Required
  <1>9. IF Given(c, "size") THEN ~SwitchedOff(rules, "size", variant)
        ELSE ~Required(rules, "size", variant)
    <2>1. rules.named => (own => isCustom)
      BY DEF SizeAgrees
    <2>2. rules.named => (rules.inputs["size"] = "optional" /\ ~own => ~isCustom)
      BY DEF SizeAgrees, UsesOwnSize
    <2>3. Given(c, "size") <=> own
      BY <1>2, <1>3, <1>5, <1>6 DEF Given
    <2>4. own => rules.inputs["size"] # "off"
      BY DEF UsesOwnSize
    <2>5. rules.inputs["size"] = "required" => own
      BY DEF UsesOwnSize
    <2>6. rules.inputs["size"] \in {"off", "optional", "required"}
      BY <1>2 DEF Inputs, Modes
    <2>7. None # TRUE /\ None # FALSE
      BY ProductAssumption
    <2>8. CASE ~rules.named \/ rules.inputs["size"] = "off"
      <3>1. variant = None
        BY <2>8 DEF CustomVariant
      <3> HIDE DEF own, variant, c, d
      <3> QED
        BY <2>3, <2>4, <2>5, <2>7, <3>1 DEF SwitchedOff, Required
    <2>9. CASE rules.named /\ rules.inputs["size"] # "off"
      <3>1. variant = isCustom
        BY <2>9 DEF CustomVariant
      <3> HIDE DEF own, variant, c, d
      <3> QED
        BY <2>1, <2>2, <2>3, <2>5, <2>6, <2>9, <3>1 DEF SwitchedOff, Required
    <2> QED
      BY <2>8, <2>9
  <1>10. c.text \notin rules.unfit
    BY <1>1, <1>2, <1>3, <1>4 DEF TextProblem
  <1>11. c.size \in rules.within \cup {None}
    BY <1>5, <1>6
  <1>12. LET size == IF c.size # None THEN c.size ELSE Measured(page.selected)
         IN  c.art # None => <<c.art, size>> \notin rules.coarse
    <2>1. (IF c.size # None THEN c.size ELSE Measured(page.selected))
            = OrderedSize(rules, d, Measured(page.selected))
      BY <1>2, <1>3, <1>5, <1>6 DEF OrderedSize
    <2>2. c.art # None => c.art = d.art
      BY <1>4
    <2> QED
      BY <1>1, <2>1, <2>2 DEF ArtworkError
  <1> HIDE DEF c, d, own
  <1>13. ServerAccepts(rules, c, isCustom, Measured(page.selected))
    BY <1>8, <1>9, <1>10, <1>11, <1>12 DEF ServerAccepts, Inputs
  <1> QED
    BY <1>13 DEF c, d

LEMMA AcceptedEditIsSame ==
    ASSUME rules \in Rulebook, NEW l \in Lines, Accepted(l)
    PROVE  Payload(rules, DraftOf(rules, l.custom)) = l.custom
  <1> DEFINE c       == l.custom
             d       == DraftOf(rules, c)
             p       == Payload(rules, d)
             variant == CustomVariant(rules, l.variant = OwnSize)
  <1>1. c \in [art : Files \cup {None}, text : Texts \cup {None}, size : Typed \cup {None}]
    BY LineIsRecord, RuleAssumption
  <1>2. rules.inputs["size"] \in Modes
    BY RuleAssumption DEF Inputs
  <1>3. \A i \in Inputs : Given(c, i) => rules.inputs[i] # "off"
    BY DEF Accepted, ServerAccepts, SwitchedOff
  <1>4. c.size \in rules.within \cup {None}
    BY DEF Accepted, ServerAccepts
  <1>5. /\ c.art # None => rules.inputs["artwork"] # "off"
        /\ c.text # None => rules.inputs["text"] # "off"
        /\ c.size # None => rules.inputs["size"] # "off"
    BY <1>3 DEF Given, Inputs
  <1>6. /\ d.art = c.art /\ d.text = c.text /\ d.size = c.size
        /\ d.own = (c.size # None /\ rules.inputs["size"] = "optional")
    BY DEF DraftOf
  <1> HIDE DEF d
  <1>7. c.size # None => UsesOwnSize(rules, d)
    BY <1>2, <1>5, <1>6 DEF UsesOwnSize, Modes
  <1>8. p.art = c.art /\ p.text = c.text
    BY <1>5, <1>6 DEF Payload, Satisfied
  <1>9. p.size = c.size
    <2>1. p.size \in {d.size, None}
      BY DEF Payload
    <2>2. c.size # None => p.size = d.size
      BY <1>4, <1>5, <1>6, <1>7 DEF Payload, Satisfied
    <2> QED
      BY <1>6, <2>1, <2>2
  <1>10. p = [art |-> p.art, text |-> p.text, size |-> p.size]
    BY DEF Payload
  <1> HIDE DEF p, c
  <1>11. p = c
    BY <1>1, <1>8, <1>9, <1>10
  <1> QED
    BY <1>11 DEF p, c, d

(***************************************************************************)
(* The pieces of a document: every operation on the cart keeps them, but   *)
(* for the one that comes in.                                              *)
(***************************************************************************)
Derived(doc, lines) == \A m \in doc : \E e \in lines : LineKey(e) = LineKey(m)

LEMMA DerivedByMap ==
    ASSUME NEW lines, NEW f, \A e \in lines : LineKey(f[e]) = LineKey(e)
    PROVE  Derived({f[e] : e \in lines}, lines)
  BY DEF Derived

LEMMA DerivedByReading ==
    ASSUME NEW lines \in SUBSET Lines, NEW id
    PROVE  Derived(Parse(lines, id), lines)
  <1> DEFINE f == [l \in lines |-> IF l.id = 0 THEN [l EXCEPT !.id = id] ELSE l]
  <1>1. \A e \in lines : LineKey(f[e]) = LineKey(e)
    BY DEF Lines, LineKey
  <1>2. Parse(lines, id) = {f[e] : e \in lines}
    BY DEF Parse
  <1> HIDE DEF f
  <1> QED
    BY <1>1, <1>2, DerivedByMap

LEMMA DerivedByQuantity ==
    ASSUME NEW lines \in SUBSET Lines, NEW key, NEW n
    PROVE  Derived(Quantified(lines, key, n), lines)
  <1> DEFINE qty == IF n < MinQty THEN MinQty ELSE n
             f   == [l \in lines |-> IF LineKey(l) = key /\ l.qty # qty
                                     THEN Unquoted(l, qty) ELSE l]
  <1>1. \A e \in lines : LineKey(f[e]) = LineKey(e)
    <2> HIDE DEF qty
    <2> QED
      BY DEF Lines, LineKey, Unquoted
  <1>2. Quantified(lines, key, n) = {f[e] : e \in lines}
    BY DEF Quantified
  <1> HIDE DEF f
  <1> QED
    BY <1>1, <1>2, DerivedByMap

LEMMA DerivedByQuote ==
    ASSUME NEW lines \in SUBSET Lines, NEW id, NEW token
    PROVE  Derived({IF l.id = id THEN [l EXCEPT !.token = token] ELSE l : l \in lines}, lines)
  <1> DEFINE f == [l \in lines |-> IF l.id = id THEN [l EXCEPT !.token = token] ELSE l]
  <1>1. \A e \in lines : LineKey(f[e]) = LineKey(e)
    BY DEF Lines, LineKey
  <1>2. {IF l.id = id THEN [l EXCEPT !.token = token] ELSE l : l \in lines}
            = {f[e] : e \in lines}
    OBVIOUS
  <1> HIDE DEF f
  <1>3. Derived({f[e] : e \in lines}, lines)
    BY <1>1, DerivedByMap
  <1> QED
    BY <1>2, <1>3

LEMMA DerivedByMore ==
    ASSUME NEW lines \in SUBSET Lines, NEW twins, NEW n
    PROVE  Derived(More(lines, twins, n), lines)
  <1> DEFINE f == [e \in lines |-> IF e \in twins THEN Unquoted(e, e.qty + n) ELSE e]
  <1>1. \A e \in lines : LineKey(f[e]) = LineKey(e)
    BY DEF Lines, LineKey, Unquoted
  <1>2. More(lines, twins, n) = {f[e] : e \in lines}
    BY DEF More
  <1> HIDE DEF f
  <1> QED
    BY <1>1, <1>2, DerivedByMap

LEMMA DerivedByAdding ==
    ASSUME NEW lines \in SUBSET Lines, NEW l \in Lines, NEW id
    PROVE  Derived(Added(lines, [l EXCEPT !.id = id]), lines \cup {l})
  <1> DEFINE new  == [l EXCEPT !.id = id]
             same == WithKey(lines, LineKey(new))
  <1>1. LineKey(new) = LineKey(l)
    BY DEF Lines, LineKey
  <1> SUFFICES Derived(Added(lines, new), lines \cup {l})
    OBVIOUS
  <1> HIDE DEF new
  <1>2. CASE same = {}
    BY <1>1, <1>2 DEF Added, Derived
  <1>3. CASE same # {}
    <2>1. Added(lines, new) = More(lines, same, new.qty)
      BY <1>3 DEF Added, More
    <2> QED
      BY <2>1, DerivedByMore DEF Derived
  <1> QED
    BY <1>2, <1>3

LEMMA DerivedByUpdate ==
    ASSUME NEW lines \in SUBSET Lines, NEW l \in Lines, NEW id
    PROVE  Derived(Updated(lines, id, l), lines \cup {l})
  <1> DEFINE twins == WithKey(lines, LineKey(l)) \ WithId(lines, id)
             rest  == lines \ WithId(lines, id)
             new   == [l EXCEPT !.id = id]
  <1>1. CASE twins = {}
    <2>1. Updated(lines, id, l) \subseteq lines \cup {new}
      BY <1>1 DEF Updated
    <2>2. LineKey(new) = LineKey(l)
      BY DEF Lines, LineKey
    <2> HIDE DEF new
    <2> QED
      BY <2>1, <2>2 DEF Derived
  <1>2. CASE twins # {}
    <2>1. Updated(lines, id, l) = More(rest, twins, l.qty)
      BY <1>2 DEF Updated, More
    <2>2. rest \in SUBSET lines
      OBVIOUS
    <2> HIDE DEF rest, twins
    <2> QED
      BY <2>1, <2>2, DerivedByMore DEF Derived
  <1> QED
    BY <1>1, <1>2

Fine(l) == LineKey(l) \in spoilt \/ Accepted(l)

\* A step that puts one document in the store, or leaves it, and in one copy.
LEMMA DocumentKeeps ==
    ASSUME PageInv, LinesSanctioned, rules' = rules, spoilt \subseteq spoilt',
           NEW t \in Tabs, NEW doc, NEW lines, Derived(doc, lines), \A e \in lines : Fine(e)',
           store' \in {store, doc}, cache' = [cache EXCEPT ![t] = doc]
    PROVE  LinesSanctioned'
  <1>1. ASSUME NEW l, Fine(l) PROVE Fine(l)'
    BY <1>1 DEF Fine, Accepted, ServerAccepts, CustomVariant
  <1>2. ASSUME NEW m \in doc PROVE Fine(m)'
    <2>1. PICK e \in lines : LineKey(e) = LineKey(m)
      BY DEF Derived
    <2>2. e.variant = m.variant /\ e.custom = m.custom
      BY <2>1 DEF LineKey
    <2> QED
      BY <2>1, <2>2 DEF Fine, Accepted
  <1>3. Sanctioned(store)'
    BY <1>1, <1>2 DEF Sanctioned, LinesSanctioned, Fine
  <1>4. ASSUME NEW s \in Tabs, cache'[s] # None PROVE \A m \in cache'[s] : Fine(m)'
    <2>1. cache'[s] = IF s = t THEN doc ELSE cache[s]
      BY DEF PageInv, CartInv, CartTypeOK
    <2> QED
      BY <1>1, <1>2, <1>4, <2>1 DEF LinesSanctioned, Sanctioned, Fine
  <1> QED
    BY <1>3, <1>4 DEF LinesSanctioned, Sanctioned, Fine

(***************************************************************************)
(* The steps.  Each is a step of the cart or leaves it, keeps the page     *)
(* sound, and keeps the lines acceptable where a size can be left.         *)
(***************************************************************************)
StepKeeps == /\ [CartNext]_cartVars
             /\ PageInv'
             /\ SizeCanBeLeft /\ AcceptInv => AcceptInv'

LEMMA PageBecomes ==
    ASSUME NEW r, page' = r, rules' = rules, Current(r)
    PROVE  Current(page)' /\ (SizeAgrees(r) => SizeAgrees(page)')
  BY DEF Current, Shaped, QuoteKey, Quotable, SizeErrors, UsesOwnSize, SizeAgrees

LEMMA CartStaysSound ==
    ASSUME PageInv, [CartNext]_cartVars
    PROVE  CartInv'
  BY CartStepKeeps DEF PageInv

LEMMA EntryKeeps ==
    ASSUME PageInv, UNCHANGED <<cartVars, rules, late, spoilt>>,
           \E p : Reshaped(p) /\ page' = Rendered(p)
    PROVE  StepKeeps
  <1>1. PICK p : Reshaped(p) /\ page' = Rendered(p)
    OBVIOUS
  <1>2. Current(page)' /\ (SizeAgrees(page) => SizeAgrees(page)')
    BY <1>1, RenderingKeeps
  <1>3. PageInv'
    BY <1>2, CartStaysSound DEF PageInv, LateSound
  <1>4. LinesSanctioned => LinesSanctioned'
    BY DEF cartVars, LinesSanctioned, Sanctioned, Accepted, ServerAccepts, CustomVariant
  <1> QED
    BY <1>2, <1>3, <1>4 DEF StepKeeps, AcceptInv

LEMMA EditKeeps ==
    ASSUME PageInv, UNCHANGED <<cartVars, rules, late, spoilt>>,
           \/ page' = NewPage
           \/ \E l \in cache[Here] : cache[Here] # None /\ page' = EditPage(l)
    PROVE  StepKeeps
  <1>1. rules \in Rulebook /\ Here \in Tabs
    BY ProductAssumption DEF PageInv
  <1>2. Current(page)' /\ (SizeCanBeLeft /\ AcceptInv => SizeAgrees(page)')
    <2>1. CASE page' = NewPage
      BY <1>1, <2>1, NewPageIsCurrent, PageBecomes
    <2>2. ASSUME NEW l \in cache[Here], cache[Here] # None, page' = EditPage(l)
          PROVE  Current(page)' /\ (SizeCanBeLeft /\ AcceptInv => SizeAgrees(page)')
      <3>1. l \in Lines
        BY <1>1, <2>2 DEF PageInv, CartInv, DocumentsSound, Sound
      <3>2. AcceptInv => LineKey(l) \in spoilt \/ Accepted(l)
        BY <1>1, <2>2 DEF AcceptInv, LinesSanctioned, Sanctioned
      <3>3. Current(EditPage(l)) /\ (AcceptInv => SizeAgrees(EditPage(l)))
        BY <1>1, <3>1, <3>2, EditPageIsCurrent
      <3> QED
        BY <2>2, <3>3, PageBecomes
    <2> QED
      BY <2>1, <2>2
  <1>3. PageInv'
    BY <1>2, CartStaysSound DEF PageInv, LateSound
  <1>4. LinesSanctioned => LinesSanctioned'
    BY DEF cartVars, LinesSanctioned, Sanctioned, Accepted, ServerAccepts, CustomVariant
  <1> QED
    BY <1>2, <1>3, <1>4 DEF StepKeeps, AcceptInv

\* A call on the cart beside the page, which takes no new piece in.
LEMMA BesideKeeps ==
    ASSUME PageInv, Beside, CartNext \/ UNCHANGED cartVars, late' = late \/ late' = None,
           NEW t \in Tabs, NEW doc, store' = store \/ store' = doc,
           cache' = [cache EXCEPT ![t] = doc],
           Derived(doc, store) \/ (cache[t] # None /\ Derived(doc, cache[t]))
    PROVE  StepKeeps
  <1>0. PICK lines : /\ Derived(doc, lines)
                     /\ lines = store \/ (cache[t] # None /\ lines = cache[t])
    OBVIOUS
  <1>1. rules' = rules /\ spoilt' = spoilt /\ (page' = page \/ page' = NewPage)
    BY DEF Beside, Kept
  <1>2. Current(page)' /\ (SizeCanBeLeft /\ SizeAgrees(page) => SizeAgrees(page)')
    BY <1>1, NewPageIsCurrent, PageBecomes DEF PageInv
  <1>3. PageInv'
    BY <1>1, <1>2, CartStaysSound DEF PageInv, LateSound
  <1>4. ASSUME LinesSanctioned PROVE LinesSanctioned'
    <2>1. \A e \in lines : Fine(e)
      BY <1>0, <1>4 DEF LinesSanctioned, Sanctioned, Fine
    <2>2. \A e \in lines : Fine(e)'
      BY <1>1, <2>1 DEF Fine, Accepted, ServerAccepts, CustomVariant
    <2> QED
      BY <1>0, <1>1, <1>4, <2>2, DocumentKeeps
  <1> QED
    BY <1>2, <1>3, <1>4 DEF StepKeeps, AcceptInv

LEMMA SubmitKeeps ==
    ASSUME PageInv, cache[Here] # None, Submit
    PROVE  StepKeeps
  <1>0. PICK l : l = LineOf(page)
    OBVIOUS
  <1> DEFINE old == cache[Here]
             doc == IF page.line = 0 THEN Added(old, [l EXCEPT !.id = lastId + 1])
                                     ELSE Updated(old, page.line, l)
  <1>1. /\ rules \in Rulebook /\ Current(page) /\ CanAdd(page) /\ Here \in Tabs
        /\ old \subseteq Lines /\ rules' = rules /\ late' = late
    BY ProductAssumption DEF PageInv, CartInv, DocumentsSound, Sound, Submit
  <1>2. PICK v \in Variants, c \in Customs, n \in MinQty..MaxQty :
            v = page.selected /\ c = Payload(rules, page.draft) /\ l = NewLine(v, c, n)
    BY <1>0, <1>1, LineIsNewLine
  <1>3. l \in Lines /\ l.variant = v /\ l.custom = c
    BY <1>2, NewLineIsLine DEF NewLine
  <1>4. /\ page.line = 0 => AddLine(Here, l)
        /\ page.line # 0 => UpdateLine(Here, page.line, l)
    BY <1>0 DEF Submit
  <1>5. CartNext
    <2>1. CASE page.line = 0
      BY <1>1, <1>2, <1>4, <2>1 DEF CartNext, Call
    <2>2. CASE page.line # 0
      <3>1. WithId(old, page.line) # {}
        BY <1>4, <2>2 DEF UpdateLine
      <3>2. page.line \in 1..lastId
        BY <1>1, <3>1 DEF WithId, PageInv, CartInv, DocumentsSound, Sound
      <3> QED
        BY <1>1, <1>2, <1>4, <2>2, <3>2 DEF CartNext, Call
    <2> QED
      BY <2>1, <2>2
  <1>6. Current(page)' /\ (SizeCanBeLeft /\ SizeAgrees(page) => SizeAgrees(page)')
    <2>1. page' = page \/ page' = NewPage
      BY DEF Submit
    <2> QED
      BY <1>1, <2>1, NewPageIsCurrent, PageBecomes
  <1>7. PageInv'
    BY <1>1, <1>5, <1>6, CartStaysSound DEF PageInv, LateSound
  <1>8. ASSUME LinesSanctioned, SizeAgrees(page) PROVE LinesSanctioned'
    <2>1. spoilt' = IF page.torn THEN spoilt \cup {LineKey(l)} ELSE spoilt
      BY <1>0 DEF Submit
    <2>2. Fine(l)'
      <3>1. CASE page.torn
        BY <2>1, <3>1 DEF Fine
      <3>2. CASE ~page.torn
        <4>1. ServerAccepts(rules, c, v = OwnSize, Measured(v))
          BY <1>1, <1>2, <1>8, <3>2, ServerTakesPayload
        <4>2. ServerAccepts(rules', c, v = OwnSize, Measured(v))
          BY <1>1, <4>1
        <4> QED
          BY <1>3, <4>2 DEF Fine, Accepted
      <3> QED
        BY <3>1, <3>2
    <2>3. spoilt \subseteq spoilt'
      BY <2>1
    <2>4. \A e \in old : Fine(e)
      BY <1>1, <1>8 DEF LinesSanctioned, Sanctioned, Fine
    <2>5. \A e \in old \cup {l} : Fine(e)'
      BY <1>1, <2>2, <2>3, <2>4 DEF Fine, Accepted, ServerAccepts, CustomVariant
    <2>6. Derived(doc, old \cup {l})
      BY <1>1, <1>3, DerivedByAdding, DerivedByUpdate
    <2>7. store' = doc /\ cache' = [cache EXCEPT ![Here] = doc]
      BY <1>4 DEF AddLine, UpdateLine, Write
    <2> HIDE DEF doc, old
    <2> QED
      BY <1>1, <1>8, <2>3, <2>5, <2>6, <2>7, DocumentKeeps
  <1> QED
    BY <1>5, <1>6, <1>7, <1>8 DEF StepKeeps, AcceptInv

LEMMA ReadingKeeps ==
    ASSUME PageInv, NEW t \in Tabs, TabReads(t)
    PROVE  StepKeeps
  <1> DEFINE doc == Parse(store, Minted(store))
  <1>1. ReadStore(t) /\ Beside /\ late' = late
    BY DEF TabReads
  <1>2. store' = store /\ cache' = [cache EXCEPT ![t] = doc]
    BY <1>1 DEF ReadStore
  <1>3. CartNext
    BY <1>1 DEF CartNext
  <1>4. store \in SUBSET Lines
    BY DEF PageInv, CartInv, CartTypeOK
  <1>5. Derived(doc, store)
    BY <1>4, DerivedByReading
  <1> HIDE DEF doc
  <1> QED
    BY <1>1, <1>2, <1>3, <1>5, BesideKeeps

LEMMA DrawerKeeps ==
    ASSUME PageInv, NEW t \in Tabs, cache[t] # None,
           DrawerQuantity(t) \/ DrawerRemove(t) \/ OrderPlaced(t)
    PROVE  StepKeeps
  <1> DEFINE old == cache[t]
  <1>1. Beside /\ late' = late /\ old \in SUBSET Lines
    BY DEF DrawerQuantity, DrawerRemove, OrderPlaced, PageInv, CartInv, DocumentsSound, Sound
  <1>2. ASSUME NEW l \in old, NEW n \in 0..MaxQty, SetQuantity(t, LineKey(l), n)
        PROVE  StepKeeps
    <2> DEFINE doc == Quantified(old, LineKey(l), n)
    <2>1. store' = doc /\ cache' = [cache EXCEPT ![t] = doc]
      BY <1>2 DEF SetQuantity, Write
    <2>2. CartNext
      BY <1>2 DEF CartNext, Call
    <2>3. Derived(doc, old)
      BY <1>1, DerivedByQuantity
    <2> HIDE DEF doc
    <2> QED
      BY <1>1, <2>1, <2>2, <2>3, BesideKeeps
  <1>3. ASSUME NEW l \in old, RemoveLine(t, LineKey(l))
        PROVE  StepKeeps
    <2> DEFINE doc == old \ WithKey(old, LineKey(l))
    <2>1. store' = doc /\ cache' = [cache EXCEPT ![t] = doc]
      BY <1>3 DEF RemoveLine, Write
    <2>2. CartNext
      BY <1>3 DEF CartNext, Call
    <2>3. Derived(doc, old)
      BY DEF Derived
    <2> HIDE DEF doc
    <2> QED
      BY <1>1, <2>1, <2>2, <2>3, BesideKeeps
  <1>4. CASE ClearCart(t)
    <2>1. store' = {} /\ cache' = [cache EXCEPT ![t] = {}]
      BY <1>4 DEF ClearCart, Write
    <2>2. CartNext
      BY <1>4 DEF CartNext, Call
    <2>3. Derived({}, old)
      BY DEF Derived
    <2> QED
      BY <1>1, <2>1, <2>2, <2>3, BesideKeeps
  <1> QED
    BY <1>2, <1>3, <1>4 DEF DrawerQuantity, DrawerRemove, OrderPlaced

LEMMA RequotingKeeps ==
    ASSUME PageInv, NEW t \in Tabs, cache[t] # None, CheckoutRequotes(t)
    PROVE  StepKeeps
  <1>1. PICK l \in cache[t] :
            late' = [tab |-> t, id |-> l.id, token |-> Quote(l.variant, l.custom, l.qty)]
    BY DEF CheckoutRequotes
  <1>2. UNCHANGED <<cartVars, rules, page, spoilt>>
    BY DEF CheckoutRequotes
  <1>3. l \in Lines
    BY DEF PageInv, CartInv, DocumentsSound, Sound
  <1>4. Quote(l.variant, l.custom, l.qty) \in Tokens
    BY <1>3, LineIsRecord DEF Quote, Tokens
  <1>5. LateSound'
    <2> DEFINE token == Quote(l.variant, l.custom, l.qty)
    <2>1. late' = [tab |-> t, id |-> l.id, token |-> token] /\ l.id \in 0..MaxIds
      BY <1>1, <1>3, LineIsRecord
    <2> HIDE DEF token
    <2>2. late' \in [tab : Tabs, id : 0..MaxIds, token : Tokens]
      BY <1>4, <2>1 DEF token
    <2> QED
      BY <2>2 DEF LateSound
  <1>6. Current(page)' /\ (SizeAgrees(page) => SizeAgrees(page)')
    BY <1>2, PageBecomes DEF PageInv
  <1>7. PageInv'
    BY <1>2, <1>5, <1>6, CartStaysSound DEF PageInv
  <1>8. LinesSanctioned => LinesSanctioned'
    BY <1>2 DEF cartVars, LinesSanctioned, Sanctioned, Accepted, ServerAccepts, CustomVariant
  <1> QED
    BY <1>2, <1>6, <1>7, <1>8 DEF StepKeeps, AcceptInv

LEMMA RequoteKeeps ==
    ASSUME PageInv, RequoteAnswered
    PROVE  StepKeeps
  <1> DEFINE t   == late.tab
             k   == late.token
             old == cache[t]
  <1>1. /\ t \in Tabs /\ k \in Tokens /\ old # None /\ Beside /\ late' = None
        /\ late.id \in 0..MaxIds
    BY DEF RequoteAnswered, PageInv, LateSound
  <1>2. old \in SUBSET Lines /\ \A l \in old : l.id \in 1..lastId
    BY <1>1 DEF PageInv, CartInv, DocumentsSound, Sound
  <1>3. CASE SetQuote(t, late.id, k)
    <2> DEFINE doc == {IF l.id = late.id THEN [l EXCEPT !.token = k] ELSE l : l \in old}
    <2>1. PICK l \in WithId(old, late.id) : Fits(l, k)
      BY <1>3 DEF SetQuote
    <2>2. k = Quote(k.variant, l.custom, l.qty) /\ k.variant \in Variants
      BY <1>1, <2>1 DEF Tokens, Quote, Fits
    <2>3. l \in old /\ late.id \in 1..lastId
      BY <1>2, <2>1 DEF WithId
    <2>4. SetQuote(t, late.id, Quote(k.variant, l.custom, l.qty))
      BY <1>3, <2>2
    <2>5. Call(t)
      BY <2>2, <2>3, <2>4 DEF Call
    <2>6. CartNext
      BY <1>1, <2>5 DEF CartNext
    <2>7. store' = doc /\ cache' = [cache EXCEPT ![t] = doc]
      BY <1>3 DEF SetQuote, Write
    <2>8. Derived(doc, old)
      BY <1>2, DerivedByQuote
    <2> HIDE DEF doc, old, k, t
    <2> QED
      BY <1>1, <2>6, <2>7, <2>8, BesideKeeps DEF old
  <1>4. CASE Refused
    <2>1. store' = store /\ cache' = [cache EXCEPT ![t] = old] /\ UNCHANGED cartVars
      BY <1>4 DEF Refused, cartVars, PageInv, CartInv, CartTypeOK
    <2>2. Derived(old, old)
      BY DEF Derived
    <2> HIDE DEF t
    <2> QED
      BY <1>1, <2>1, <2>2, BesideKeeps
  <1> QED
    BY <1>3, <1>4 DEF RequoteAnswered

LEMMA NextKeeps ==
    ASSUME PageInv, [Next]_vars
    PROVE  StepKeeps
  <1>1. rules \in Rulebook /\ Current(page) /\ Shaped(page)
    BY DEF PageInv, Current
  <1>2. CASE UNCHANGED vars
    <2>1. UNCHANGED <<cartVars, rules, page, late, spoilt>>
      BY <1>2 DEF vars
    <2>2. Current(page)' /\ (SizeAgrees(page) => SizeAgrees(page)')
      BY <1>1, <2>1, PageBecomes
    <2>3. PageInv'
      BY <2>1, <2>2, CartStaysSound DEF PageInv, LateSound
    <2>4. LinesSanctioned => LinesSanctioned'
      BY <2>1 DEF cartVars, LinesSanctioned, Sanctioned, Accepted, ServerAccepts, CustomVariant
    <2> QED
      BY <2>1, <2>2, <2>3, <2>4 DEF StepKeeps, AcceptInv
  <1>3. ASSUME cache[Here] # None, Shopper
        PROVE  StepKeeps
    <2>1. ASSUME \/ \E v \in Variants : ChooseSize(v)
                 \/ ToggleOwnSize
                 \/ \E s \in Typed \cup {None} : TypeSize(s)
                 \/ \E x \in Texts \cup {None} : TypeText(x)
                 \/ \E n \in 1..MaxQty : SetPageQuantity(n)
          PROVE  StepKeeps
      <3>1. UNCHANGED <<cartVars, rules, late, spoilt>>
        BY <2>1 DEF ChooseSize, ToggleOwnSize, TypeSize, TypeText, SetPageQuantity, Entered
      <3> QED
        BY <1>1, <2>1, <3>1, EntryReshapes, EntryKeeps
    <2>2. ASSUME \/ \E f \in Files : PickFile(f)
                 \/ DropBadFile \/ Retry \/ KeepCurrent \/ CancelUpload \/ RemoveFile
          PROVE  StepKeeps
      <3>1. UNCHANGED <<cartVars, rules, late, spoilt>>
        BY <2>2 DEF PickFile, DropBadFile, Retry, KeepCurrent, CancelUpload, RemoveFile, Entered
      <3> QED
        BY <1>1, <2>2, <3>1, UploadReshapes, EntryKeeps
    <2>3. ASSUME LeaveEdit \/ \E l \in cache[Here] : OpenEdit(l)
          PROVE  StepKeeps
      BY <1>3, <2>3, EditKeeps DEF LeaveEdit, OpenEdit
    <2> QED
      BY <1>3, <2>1, <2>2, <2>3, SubmitKeeps DEF Shopper
  <1>4. ASSUME Background
        PROVE  StepKeeps
    <2>1. UNCHANGED <<cartVars, rules, late, spoilt>>
      BY <1>4 DEF Background, UploadGoesOn, UploadFails, UploadEnds, QuoteTimer, QuoteAnswered,
                  QuoteFails, InBackground
    <2>2. \E p : Reshaped(p) /\ page' = Rendered(p)
      BY <1>1, <1>4, UploadReshapes, QuoteReshapes DEF Background
    <2> QED
      BY <2>1, <2>2, EntryKeeps
  <1>5. ASSUME Elsewhere
        PROVE  StepKeeps
    BY <1>5, ReadingKeeps, DrawerKeeps, RequotingKeeps DEF Elsewhere
  <1> QED
    BY <1>2, <1>3, <1>4, <1>5, RequoteKeeps DEF Next

LEMMA InitEstablishes == Init => PageInv /\ (SizeCanBeLeft => AcceptInv)
  <1> SUFFICES ASSUME Init PROVE PageInv /\ (SizeCanBeLeft => AcceptInv)
    OBVIOUS
  <1>1. CartInv
    BY CartInitEstablishes DEF Init
  <1>2. Current(page) /\ (SizeCanBeLeft => SizeAgrees(page))
    BY NewPageIsCurrent DEF Init
  <1>3. PageInv
    BY <1>1, <1>2 DEF PageInv, LateSound, Init
  <1>4. LinesSanctioned
    BY DEF LinesSanctioned, Sanctioned, Accepted, Init, CartInit
  <1> QED
    BY <1>2, <1>3, <1>4 DEF AcceptInv

LEMMA PageInvariant == Spec => []PageInv
  <1>1. Init => PageInv
    BY InitEstablishes
  <1>2. PageInv /\ [Next]_vars => PageInv'
    BY NextKeeps DEF StepKeeps
  <1> QED
    BY <1>1, <1>2, PTL DEF Spec

LEMMA AcceptInvariant == ASSUME SizeCanBeLeft PROVE Spec => []AcceptInv
  <1>1. Init => AcceptInv
    BY InitEstablishes
  <1>2. AcceptInv /\ [Next]_vars => AcceptInv'
    BY NextKeeps DEF StepKeeps, AcceptInv
  <1> QED
    BY <1>1, <1>2, PTL DEF Spec

(***************************************************************************)
(* The theorems.                                                           *)
(***************************************************************************)
\* The page, the drawers of all tabs and a checkout call the cart only as Cart
\* by itself allows: a page adds the line that its price is of, an edit names a
\* line of the copy, a late quote fits (product-purchase.tsx, cart-drawer.tsx,
\* use-payment-session.ts).
THEOREM PageImplementsCart == Spec => ImplementsCart
  <1>1. Init => CartInit
    BY DEF Init
  <1>2. PageInv /\ [Next]_vars => [cartVars' # cartVars /\ CartNext]_cartVars
    BY NextKeeps DEF StepKeeps
  <1> QED
    BY <1>1, <1>2, PageInvariant, PTL DEF Spec, ImplementsCart

\* What is proved of the cart by itself holds of the cart under the page.
THEOREM PageKeepsCart == Spec => []OnePieceOneLine /\ []QuoteFitsLine /\ []TabsAgree
  <1>1. [cartVars' # cartVars /\ CartNext]_cartVars => [CartNext]_cartVars
    OBVIOUS
  <1>2. ImplementsCart => CartSpec
    BY <1>1, PTL DEF ImplementsCart, CartSpec
  <1> QED
    BY <1>2, PageImplementsCart, PiecesStayApart, QuotesFit, TabsWorkOnTheStored, PTL

\* The price on the button is of what it adds, in every order of entries, late
\* answers, uploads and edits (use-price-quote.ts).
THEOREM ButtonPriceFits == Spec => []ButtonPriceIsOfTheLine
  <1>1. PageInv => ButtonPriceIsOfTheLine
    BY ReadyPriceFits DEF PageInv, ButtonPriceIsOfTheLine
  <1> QED
    BY <1>1, PageInvariant, PTL

\* What the page lets a shopper add the server takes, for every product whose
\* optional size can be left: the two sets of checks agree (product-purchase.tsx,
\* validate-customization.ts).
THEOREM AddedIsTaken == ASSUME SizeCanBeLeft PROVE Spec => []AddedIsAccepted
  <1>1. AcceptInv => AddedIsAccepted
    BY DEF AcceptInv, LinesSanctioned, Sanctioned, Accepted, AddedIsAccepted
  <1> QED
    BY <1>1, AcceptInvariant, PTL

\* Saved again untouched, an edited line is the same piece
\* (configurationFromCartLine, lineItemCustomization).
THEOREM EditOpensFaithfully == ASSUME SizeCanBeLeft PROVE Spec => []EditOpensAsSaved
  <1>1. AcceptInv => EditOpensAsSaved
    <2> SUFFICES ASSUME AcceptInv, NEW l \in store, LineKey(l) \notin spoilt
                 PROVE  /\ EditPage(l).selected = l.variant
                        /\ Payload(rules, EditPage(l).draft) = l.custom
      BY DEF EditOpensAsSaved
    <2>1. rules \in Rulebook /\ l \in Lines
      BY DEF AcceptInv, PageInv, CartInv, CartTypeOK
    <2>2. Accepted(l)
      BY DEF AcceptInv, LinesSanctioned, Sanctioned
    <2> QED
      BY <2>1, <2>2, EditPageIsCurrent, AcceptedEditIsSame
  <1> QED
    BY <1>1, AcceptInvariant, PTL

================================================================================
