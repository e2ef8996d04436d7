---------------------------- MODULE ArtworkProofs -----------------------------
(***************************************************************************)
(* What holds of Artwork for every set of uploads, orders, lines, files and*)
(* runs, and for every bound: its types, that only inspected files are     *)
(* filed or answered "checked", that a claimed file is kept while staging  *)
(* is open and a filed one while it is owed, and that what was deleted is. *)
(***************************************************************************)
EXTENDS Artwork, TLAPS

\* The steps at which a run works on one line.
LineSteps == Steps \ {"idle", "claim", "next", "drop"}

(***************************************************************************)
(* A run at step s with locals m works on claims that exist, and a copy it *)
(* takes from a sibling is a copy of the same upload.                      *)
(***************************************************************************)
Fits(s, m) ==
    /\ m.todo \subseteq Claimed /\ m.retired \subseteq Claimed
    /\ s \in LineSteps => m.line \in Claimed
    /\ s = "copySibling" => /\ m.source \in Lines
                            /\ UploadOf[m.source] = UploadOf[m.line]

RunsFit == \A p \in Promoters : Fits(pc[p], mem[p])

PurgesFit == \A q \in Purgers :
    /\ purge[q].due \subseteq Claimed
    /\ purge[q].erased # None => purge[q].erased \in Claimed

TypeInv == TypeOK /\ RunsFit /\ PurgesFit

\* An upload its customer wrote once, while its staging window is open.
Open(u) == puts[u] = 1 /\ age[u] < StagingClosed

(***************************************************************************)
(* An upload written once is one file: in staging, on record and in the    *)
(* hands of every inspection.  One never written is none.                  *)
(***************************************************************************)
OneFileEach == \A u \in Uploads :
    /\ puts[u] = 0 => /\ staging[u] = None /\ asset[u].inspected = None
                      /\ \A i \in Inspectors : seen[i].upload # u
    /\ puts[u] = 1 => \E e \in Etags :
          /\ staging[u] \in {None, e} /\ asset[u].inspected \in {None, e}
          /\ \A i \in Inspectors : seen[i].upload = u => seen[i].etag = e

\* What a customer ordered was inspected, and so is whatever is claimed.
OrderedIsInspected ==
    /\ \A o \in Orders : cart[o] # "open" =>
          \A l \in LinesOf(o) : asset[UploadOf[l]].inspected # None
    /\ \A l \in Claimed : asset[UploadOf[l]].inspected # None

\* Retention windows end after the staging window, for what a purge has in
\* hand too.
DueIsClosed ==
    /\ \A o \in Orders : delivered[o] = "long" =>
          \A l \in LinesOf(o) : age[UploadOf[l]] >= StagingClosed
    /\ \A q \in Purgers :
          /\ \A l \in purge[q].due : age[UploadOf[l]] >= StagingClosed
          /\ purge[q].erased # None =>
                age[UploadOf[purge[q].erased]] >= StagingClosed

(***************************************************************************)
(* What a run at step s with locals m is about to mark deserves it: claimed*)
(* only if inspected, given up only past the window, retired only if the   *)
(* upload was written again, promoted only with its copy in place.         *)
(***************************************************************************)
Deserves(s, m) ==
    /\ \A u \in m.past : age[u] >= StagingClosed
    /\ \A l \in m.retired : puts[UploadOf[l]] > 1
    /\ \A l \in m.unclaimed : asset[UploadOf[l]].inspected # None
    /\ s = "giveUp" => UploadOf[m.line] \in m.past
    /\ s = "siblings" /\ m.changed => puts[UploadOf[m.line]] > 1
    /\ s = "listRetired" => puts[UploadOf[m.line]] > 1
    /\ s = "mark" /\ Open(UploadOf[m.line]) => filed[m.line] # None
    /\ s \in {"tidy", "delete"} => claim[m.line].promoted

MarksDeserved == \A p \in Promoters : Deserves(pc[p], mem[p])

\* The claims on an open upload stand, and its staging object goes only when
\* one of them has its copy.
OpenIsKept ==
    /\ \A l \in Claimed : Open(UploadOf[l]) =>
          /\ claim[l].purged = None
          /\ claim[l].promoted => filed[l] # None
    /\ \A u \in Uploads : Open(u) /\ staging[u] = None =>
          \E s \in Siblings(u) : Download(s) /\ filed[s] # None

KeepInv == /\ OneFileEach /\ OrderedIsInspected /\ DueIsClosed
           /\ MarksDeserved /\ OpenIsKept

-----------------------------------------------------------------------------
(***************************************************************************)
(* Lemmas on the parts a step is made of.                                  *)
(***************************************************************************)
USE DEF tableVars, bucketVars, clockVars, orderVars, runVars, inspectVars

\* A claim, once made, stays: no step puts a row back to none.
ClaimsStay == Claimed \subseteq Claimed'

\* The tables and the bucket alone keep every claim.
LEMMA SameClaims ==
    ASSUME UNCHANGED claim PROVE Claimed' = Claimed
BY DEF Claimed

\* A row that is not NoClaim is a claim, and stays one when it is marked.
LEMMA MarkedClaim ==
    ASSUME TypeOK, NEW l \in Claimed, NEW c \in Claims,
           claim' = [claim EXCEPT ![l] = c]
    PROVE  claim' \in [Lines -> Claims \cup {NoClaim}] /\ Claimed' = Claimed
<1>1. c # NoClaim
  BY ShapeAssumption DEF Claims, NoClaim
<1> QED BY <1>1 DEF TypeOK, Claimed

\* The runs when one of them goes on to step s with locals m.
LEMMA RunGoesOn ==
    ASSUME TypeInv, NEW p \in Promoters, NEW s \in Steps, NEW m \in Locals,
           pc' = [pc EXCEPT ![p] = s], mem' = [mem EXCEPT ![p] = m],
           ClaimsStay, Fits(s, m)'
    PROVE  /\ pc' \in [Promoters -> Steps]
           /\ mem' \in [Promoters -> Locals]
           /\ RunsFit'
<1>1. pc \in [Promoters -> Steps] /\ mem \in [Promoters -> Locals]
  BY DEF TypeInv, TypeOK
<1>2. ASSUME NEW r \in Promoters PROVE Fits(pc[r], mem[r])'
  <2>1. CASE r = p
    BY <1>1, <2>1
  <2>2. CASE r # p
    <3>1. pc'[r] = pc[r] /\ mem'[r] = mem[r]
      BY <1>1, <2>2
    <3>2. Fits(pc[r], mem[r])
      BY DEF TypeInv, RunsFit
    <3> QED BY <3>1, <3>2 DEF Fits, ClaimsStay
  <2> QED BY <2>1, <2>2
<1> QED BY <1>1, <1>2 DEF RunsFit

\* The runs when none of them moves.
LEMMA RunsStay ==
    ASSUME TypeInv, UNCHANGED runVars, ClaimsStay
    PROVE  /\ pc' \in [Promoters -> Steps]
           /\ mem' \in [Promoters -> Locals]
           /\ RunsFit'
BY DEF TypeInv, TypeOK, RunsFit, Fits, ClaimsStay

\* The purgers when none of them moves.
LEMMA PurgesStay ==
    ASSUME TypeInv, UNCHANGED purge, ClaimsStay
    PROVE  PurgesFit'
BY DEF TypeInv, PurgesFit, ClaimsStay

\* A run with no line in hand fits wherever it goes next.
LEMMA BlankFits ==
    /\ Blank \in Locals
    /\ Fits("idle", Blank)
BY DEF Blank, Locals, Fits, LineSteps

\* The runs when one of them is done with its line.
LEMMA RunNextLine ==
    ASSUME TypeInv, NEW p \in Promoters, NextLine(p), ClaimsStay
    PROVE  /\ pc' \in [Promoters -> Steps]
           /\ mem' \in [Promoters -> Locals]
           /\ RunsFit'
<1>1. mem \in [Promoters -> Locals] /\ mem[p] \in Locals
  BY DEF TypeInv, TypeOK
<1> DEFINE n == [mem[p] EXCEPT !.line = None, !.source = None,
                               !.changed = FALSE, !.retired = {}]
<1>2. n \in Locals /\ n.todo = mem[p].todo /\ n.retired = {}
  BY <1>1 DEF Locals
<1>3. PICK m \in Locals : m = n /\ m.todo = mem[p].todo /\ m.retired = {}
  BY <1>2
<1>4. pc' = [pc EXCEPT ![p] = "next"] /\ mem' = [mem EXCEPT ![p] = m]
  BY <1>1, <1>3 DEF NextLine, Goto
<1>5. mem[p].todo \subseteq Claimed
  BY DEF TypeInv, RunsFit, Fits
<1>6. Fits("next", m)'
  BY <1>3, <1>5 DEF Fits, LineSteps, ClaimsStay
<1>7. "next" \in Steps
  BY DEF Steps
<1> QED BY <1>3, <1>4, <1>6, <1>7, RunGoesOn

-----------------------------------------------------------------------------
(***************************************************************************)
(* Types: every step keeps them.                                           *)
(***************************************************************************)
\* Age: a retention clock keeps the types and the fit of the runs.
LEMMA TypeAge ==
    ASSUME TypeInv, NEW u \in Uploads, Age(u)
    PROVE  TypeInv'
<1>1. ClaimsStay /\ UNCHANGED <<claim, runVars, purge>>
  BY SameClaims
     DEF Age, CheckoutWindow, StagingClosed, FallbackClosed, ClaimsStay
<1>2. RunsFit' /\ PurgesFit'
  BY <1>1, RunsStay, PurgesStay
<1>3. TypeOK'
  BY DEF TypeInv, TypeOK, Age, CheckoutWindow, StagingClosed, FallbackClosed
<1> QED BY <1>2, <1>3 DEF TypeInv

\* Expire: the staging lifecycle rule keeps the types and the fit of the runs.
LEMMA TypeExpire ==
    ASSUME TypeInv, NEW u \in Uploads, Expire(u)
    PROVE  TypeInv'
<1>1. ClaimsStay /\ UNCHANGED <<claim, runVars, purge>>
  BY SameClaims DEF Expire, ClaimsStay
<1>2. RunsFit' /\ PurgesFit'
  BY <1>1, RunsStay, PurgesStay
<1>3. TypeOK'
  BY DEF TypeInv, TypeOK, Expire
<1> QED BY <1>2, <1>3 DEF TypeInv

\* Deliver: a delivery date keeps the types and the fit of the runs.
LEMMA TypeDeliver ==
    ASSUME TypeInv, NEW o \in Orders, Deliver(o)
    PROVE  TypeInv'
<1>1. ClaimsStay /\ UNCHANGED <<claim, runVars, purge>>
  BY SameClaims DEF Deliver, Deliveries, ClaimsStay
<1>2. RunsFit' /\ PurgesFit'
  BY <1>1, RunsStay, PurgesStay
<1>3. TypeOK'
  BY DEF TypeInv, TypeOK, Deliver, Deliveries
<1> QED BY <1>2, <1>3 DEF TypeInv

\* RunOut: the thirty days after a delivery keeps the types and the fit of the
\* runs.
LEMMA TypeRunOut ==
    ASSUME TypeInv, NEW o \in Orders, RunOut(o)
    PROVE  TypeInv'
<1>1. ClaimsStay /\ UNCHANGED <<claim, runVars, purge>>
  BY SameClaims DEF RunOut, Deliveries, ClaimsStay
<1>2. RunsFit' /\ PurgesFit'
  BY <1>1, RunsStay, PurgesStay
<1>3. TypeOK'
  BY DEF TypeInv, TypeOK, RunOut, Deliveries
<1> QED BY <1>2, <1>3 DEF TypeInv

\* RecordUpload: recordUpload keeps the types and the fit of the runs.
LEMMA TypeRecordUpload ==
    ASSUME TypeInv, NEW u \in Uploads, RecordUpload(u)
    PROVE  TypeInv'
<1>1. ClaimsStay /\ UNCHANGED <<claim, runVars, purge>>
  BY SameClaims DEF RecordUpload, ClaimsStay
<1>2. RunsFit' /\ PurgesFit'
  BY <1>1, RunsStay, PurgesStay
<1>3. asset' \in [Uploads -> [recorded : BOOLEAN, purged : BOOLEAN,
                             inspected : Printable \cup {None}]]
  <2> DEFINE Rows == [recorded : BOOLEAN, purged : BOOLEAN,
                      inspected : Printable \cup {None}]
             row == [asset[u] EXCEPT !.recorded = TRUE]
  <2>1. asset \in [Uploads -> Rows]
    BY DEF TypeInv, TypeOK
  <2>2. row \in Rows
    BY <2>1
  <2>3. asset' = [asset EXCEPT ![u] = row]
    BY DEF RecordUpload
  <2> HIDE DEF Rows, row
  <2>4. asset' \in [Uploads -> Rows]
    BY <2>1, <2>2, <2>3
  <2> QED BY <2>4 DEF Rows
<1>4. TypeOK'
  BY <1>3 DEF TypeInv, TypeOK, RecordUpload
<1> QED BY <1>2, <1>4 DEF TypeInv

\* Put: a write through the presigned URL keeps the types and the fit of the
\* runs.
LEMMA TypePut ==
    ASSUME TypeInv, NEW u \in Uploads, NEW e \in Etags, Put(u, e)
    PROVE  TypeInv'
<1>1. ClaimsStay /\ UNCHANGED <<claim, runVars, purge>>
  BY SameClaims DEF Put, ClaimsStay
<1>2. RunsFit' /\ PurgesFit'
  BY <1>1, RunsStay, PurgesStay
<1>3. TypeOK'
  BY BoundsAssumption DEF TypeInv, TypeOK, Put
<1> QED BY <1>2, <1>3 DEF TypeInv

\* InspectHead: the inspect route's reading of the object keeps the types and
\* the fit of the runs.
LEMMA TypeInspectHead ==
    ASSUME TypeInv, NEW i \in Inspectors, NEW u \in Uploads, InspectHead(i, u)
    PROVE  TypeInv'
<1>1. ClaimsStay /\ UNCHANGED <<claim, runVars, purge>>
  BY SameClaims DEF InspectHead, ClaimsStay
<1>2. RunsFit' /\ PurgesFit'
  BY <1>1, RunsStay, PurgesStay
<1>3. staging[u] \in Printable
  BY DEF InspectHead, inspectArtworkBytes
<1>4. seen' \in [Inspectors -> [upload : Uploads, etag : Printable] \cup {Away}]
  BY <1>3 DEF InspectHead, TypeInv, TypeOK
<1>5. told' \in [Uploads -> SUBSET Printable]
  BY <1>3 DEF InspectHead, TypeInv, TypeOK
<1>6. TypeOK'
  BY <1>4, <1>5 DEF InspectHead, TypeInv, TypeOK
<1> QED BY <1>2, <1>6 DEF TypeInv

\* RecordInspection: the inspect route's conditional update keeps the types and
\* the fit of the runs.
LEMMA TypeRecordInspection ==
    ASSUME TypeInv, NEW i \in Inspectors, RecordInspection(i)
    PROVE  TypeInv'
<1>1. ClaimsStay /\ UNCHANGED <<claim, runVars, purge>>
  BY SameClaims DEF RecordInspection, ClaimsStay
<1>2. RunsFit' /\ PurgesFit'
  BY <1>1, RunsStay, PurgesStay
<1>3. seen[i].upload \in Uploads /\ seen[i].etag \in Printable
  BY ShapeAssumption DEF RecordInspection, Away, TypeInv, TypeOK
<1>4. asset' \in [Uploads -> [recorded : BOOLEAN, purged : BOOLEAN,
                             inspected : Printable \cup {None}]]
  <2>1. CASE asset[seen[i].upload].inspected = None
    <3>1. asset' = [asset EXCEPT ![seen[i].upload].inspected = seen[i].etag]
      BY <2>1 DEF RecordInspection
    <3>2. asset \in [Uploads -> [recorded : BOOLEAN, purged : BOOLEAN,
                                 inspected : Printable \cup {None}]]
      BY DEF TypeInv, TypeOK
    <3> QED BY <1>3, <3>1, <3>2
  <2>2. CASE asset[seen[i].upload].inspected # None
    <3>1. asset' = asset
      BY <2>2 DEF RecordInspection
    <3> QED BY <3>1 DEF TypeInv, TypeOK
  <2> QED BY <2>1, <2>2
<1>5. told' \in [Uploads -> SUBSET Printable]
  BY <1>3, <1>4 DEF RecordInspection, TypeInv, TypeOK
<1>6. TypeOK'
  BY <1>4, <1>5 DEF RecordInspection, Away, TypeInv, TypeOK
<1> QED BY <1>2, <1>6 DEF TypeInv

\* PrepareCart: prepare-cart's ledger check keeps the types and the fit of the
\* runs.
LEMMA TypePrepareCart ==
    ASSUME TypeInv, NEW o \in Orders, PrepareCart(o)
    PROVE  TypeInv'
<1>1. ClaimsStay /\ UNCHANGED <<claim, runVars, purge>>
  BY SameClaims DEF PrepareCart, ClaimsStay
<1>2. RunsFit' /\ PurgesFit'
  BY <1>1, RunsStay, PurgesStay
<1>3. TypeOK'
  BY DEF TypeInv, TypeOK, PrepareCart
<1> QED BY <1>2, <1>3 DEF TypeInv

\* PlaceOrder: cart completion keeps the types and the fit of the runs.
LEMMA TypePlaceOrder ==
    ASSUME TypeInv, NEW o \in Orders, PlaceOrder(o)
    PROVE  TypeInv'
<1>1. ClaimsStay /\ UNCHANGED <<claim, runVars, purge>>
  BY SameClaims DEF PlaceOrder, ClaimsStay
<1>2. RunsFit' /\ PurgesFit'
  BY <1>1, RunsStay, PurgesStay
<1>3. TypeOK'
  BY DEF TypeInv, TypeOK, PlaceOrder
<1> QED BY <1>2, <1>3 DEF TypeInv

\* DeleteStaging: the deletion of the staging object keeps the types and the
\* fit of the runs.
LEMMA TypeDeleteStaging ==
    ASSUME TypeInv, NEW p \in Promoters, DeleteStaging(p)
    PROVE  TypeInv'
<1>1. ClaimsStay /\ UNCHANGED <<claim, purge>> /\ NextLine(p)
  BY SameClaims DEF DeleteStaging, KeepRest, KeepTables, OthersKept, ClaimsStay
<1>2. RunsFit' /\ PurgesFit' /\ pc' \in [Promoters -> Steps]
      /\ mem' \in [Promoters -> Locals]
  BY <1>1, RunNextLine, PurgesStay
<1>3. TypeOK'
  BY <1>2 DEF TypeInv, TypeOK, DeleteStaging, KeepRest, KeepTables, OthersKept
<1> QED BY <1>2, <1>3 DEF TypeInv

\* The runs when one of them takes up its line at another step.
LEMMA RunSteps ==
    ASSUME TypeInv, NEW p \in Promoters, NEW s \in Steps, Goto(p, s),
           UNCHANGED mem, ClaimsStay, s # "copySibling",
           s \in LineSteps => mem[p].line \in Claimed
    PROVE  /\ pc' \in [Promoters -> Steps]
           /\ mem' \in [Promoters -> Locals]
           /\ RunsFit'
<1>1. mem \in [Promoters -> Locals] /\ mem[p] \in Locals
  BY DEF TypeInv, TypeOK
<1>2. PICK m \in Locals : m = mem[p]
  BY <1>1
<1>3. pc' = [pc EXCEPT ![p] = s] /\ mem' = [mem EXCEPT ![p] = m]
  BY <1>1, <1>2 DEF Goto
<1>4. Fits(pc[p], mem[p])
  BY DEF TypeInv, RunsFit
<1>5. Fits(s, m)'
  BY <1>2, <1>4 DEF Fits, ClaimsStay
<1> QED BY <1>2, <1>3, <1>5, RunGoesOn

\* NoSibling: a line with nothing to copy from keeps the types and the fit of
\* the runs.
LEMMA TypeNoSibling ==
    ASSUME TypeInv, NEW p \in Promoters, NoSibling(p)
    PROVE  TypeInv'
<1>0. mem[p] \in Locals /\ mem[p].line \in Claimed /\ Claimed \subseteq Lines
  BY DEF NoSibling, TypeInv, TypeOK, RunsFit, Fits, LineSteps, Steps, Claimed
<1>1. ClaimsStay /\ UNCHANGED <<claim, purge>>
  BY SameClaims DEF NoSibling, KeepRest, KeepTables, OthersKept, ClaimsStay
<1>2. RunsFit' /\ pc' \in [Promoters -> Steps]
      /\ mem' \in [Promoters -> Locals]
  <2>1. CASE Goto(p, "listRetired") /\ UNCHANGED mem
    BY <1>0, <1>1, <2>1, RunSteps DEF Steps
  <2>2. CASE Goto(p, "giveUp") /\ UNCHANGED mem
    BY <1>0, <1>1, <2>2, RunSteps DEF Steps
  <2>3. CASE NextLine(p)
    BY <1>1, <2>3, RunNextLine
  <2> QED BY <2>1, <2>2, <2>3 DEF NoSibling
<1>3. PurgesFit'
  BY <1>1, PurgesStay
<1>4. TypeOK'
  BY <1>2 DEF TypeInv, TypeOK, NoSibling, KeepRest, KeepTables, OthersKept
<1> QED BY <1>2, <1>3, <1>4 DEF TypeInv

\* CheckStaging: stagingStillNeeded keeps the types and the fit of the runs.
LEMMA TypeCheckStaging ==
    ASSUME TypeInv, NEW p \in Promoters, CheckStaging(p)
    PROVE  TypeInv'
<1>0. mem[p] \in Locals /\ mem[p].line \in Claimed /\ Claimed \subseteq Lines
  BY
     DEF CheckStaging, TypeInv, TypeOK, RunsFit, Fits, LineSteps, Steps,
       Claimed
<1>1. ClaimsStay /\ UNCHANGED <<claim, purge>>
  BY SameClaims DEF CheckStaging, KeepRest, KeepTables, OthersKept, ClaimsStay
<1>2. RunsFit' /\ pc' \in [Promoters -> Steps]
      /\ mem' \in [Promoters -> Locals]
  <2>1. CASE NextLine(p)
    BY <1>1, <2>1, RunNextLine
  <2>2. CASE Goto(p, "delete") /\ UNCHANGED mem
    BY <1>0, <1>1, <2>2, RunSteps DEF Steps
  <2> QED BY <2>1, <2>2 DEF CheckStaging
<1>3. PurgesFit'
  BY <1>1, PurgesStay
<1>4. TypeOK'
  BY <1>2 DEF TypeInv, TypeOK, CheckStaging, KeepRest, KeepTables, OthersKept
<1> QED BY <1>2, <1>3, <1>4 DEF TypeInv

\* FindSibling: selectSiblingSource keeps the types and the fit of the runs.
LEMMA TypeFindSibling ==
    ASSUME TypeInv, NEW p \in Promoters, FindSibling(p)
    PROVE  TypeInv'
<1>0. mem[p] \in Locals /\ Fits(pc[p], mem[p]) /\ Claimed \subseteq Lines
  BY DEF TypeInv, TypeOK, RunsFit, Claimed
<1>1. ClaimsStay /\ UNCHANGED <<claim, purge>>
  BY SameClaims DEF FindSibling, KeepRest, KeepTables, OthersKept, ClaimsStay
<1>2. PICK s \in SiblingSources(mem[p].line) :
          mem' = [mem EXCEPT ![p].source = s]
  BY DEF FindSibling
<1>3. s \in Lines /\ UploadOf[s] = UploadOf[mem[p].line]
  BY DEF SiblingSources, Siblings
<1> DEFINE n == [mem[p] EXCEPT !.source = s]
<1>4. n \in Locals /\ n.todo = mem[p].todo /\ n.retired = mem[p].retired
      /\ n.line = mem[p].line /\ n.source = s
  BY <1>0, <1>3 DEF Locals
<1>5. PICK m \in Locals :
          m = n /\ m.todo = mem[p].todo /\ m.retired = mem[p].retired
      /\ m.line = mem[p].line /\ m.source = s
  BY <1>4
<1>6. pc' = [pc EXCEPT ![p] = "copySibling"] /\ mem' = [mem EXCEPT ![p] = m]
  BY <1>0, <1>2, <1>5 DEF FindSibling, Goto, TypeInv, TypeOK
<1>7. Fits("copySibling", m)'
  BY <1>0, <1>1, <1>3, <1>5 DEF FindSibling, Fits, LineSteps, Steps, ClaimsStay
<1>8. RunsFit' /\ PurgesFit' /\ pc' \in [Promoters -> Steps]
      /\ mem' \in [Promoters -> Locals]
  BY <1>1, <1>5, <1>6, <1>7, RunGoesOn, PurgesStay DEF Steps
<1>9. TypeOK'
  BY <1>8 DEF TypeInv, TypeOK, FindSibling, KeepRest, KeepTables, OthersKept
<1> QED BY <1>8, <1>9 DEF TypeInv

\* StartSweep: the sweep's list of claims keeps the types and the fit of the
\* runs.
LEMMA TypeStartSweep ==
    ASSUME TypeInv, StartSweep
    PROVE  TypeInv'
<1>0. mem[Sweeper] \in Locals /\ Fits(pc[Sweeper], mem[Sweeper])
      /\ Claimed \subseteq Lines /\ Sweeper \in Promoters
  BY DEF TypeInv, TypeOK, RunsFit, Claimed, Promoters
<1>1. ClaimsStay /\ UNCHANGED purge
  BY SameClaims DEF StartSweep, KeepRest, KeepTables, OthersKept, ClaimsStay
<1> DEFINE n == [Blank EXCEPT
           !.todo = {l \in Lines : Pending(l)},
           !.past = {u \in Uploads : age[u] >= StagingClosed}]
<1>2. n \in Locals /\ n.todo = {l \in Lines : Pending(l)} /\ n.retired = {}
  BY <1>0 DEF StartSweep, Locals, Blank, Pending, Claimed
<1>3. PICK m \in Locals :
          m = n /\ m.todo = {l \in Lines : Pending(l)} /\ m.retired = {}
  BY <1>2
<1>4. pc' = [pc EXCEPT ![Sweeper] = "next"]
      /\ mem' = [mem EXCEPT ![Sweeper] = m]
  BY <1>0, <1>3, SameClaims DEF StartSweep, Goto, TypeInv, TypeOK
<1>5. Fits("next", m)' /\ "next" \in Steps
  BY <1>0, <1>1, <1>3, SameClaims
     DEF Fits, ClaimsStay, LineSteps, Steps, StartSweep, Pending, Claimed
<1>6. RunsFit' /\ PurgesFit' /\ pc' \in [Promoters -> Steps]
      /\ mem' \in [Promoters -> Locals]
  BY <1>0, <1>1, <1>3, <1>4, <1>5, SameClaims, RunGoesOn, PurgesStay
<1>7. TypeOK'
  BY <1>6, BoundsAssumption
     DEF Fault, TypeInv, TypeOK, StartSweep, KeepRest, KeepTables, OthersKept
<1> QED BY <1>6, <1>7 DEF TypeInv

\* ReceiveOrder: a delivery of order.placed keeps the types and the fit of the
\* runs.
LEMMA TypeReceiveOrder ==
    ASSUME TypeInv, NEW h \in Handlers, NEW o \in Orders, ReceiveOrder(h, o)
    PROVE  TypeInv'
<1>0. mem[h] \in Locals /\ Fits(pc[h], mem[h]) /\ Claimed \subseteq Lines
      /\ h \in Promoters
  BY DEF TypeInv, TypeOK, RunsFit, Claimed, Promoters
<1>1. ClaimsStay /\ UNCHANGED purge
  BY SameClaims DEF ReceiveOrder, KeepRest, KeepTables, OthersKept, ClaimsStay
<1> DEFINE n == [Blank EXCEPT !.order = o, !.unclaimed = LinesOf(o)]
<1>2. n \in Locals /\ n.todo = {} /\ n.retired = {}
  BY <1>0 DEF ReceiveOrder, Locals, Blank, LinesOf
<1>3. PICK m \in Locals : m = n /\ m.todo = {} /\ m.retired = {}
  BY <1>2
<1>4. pc' = [pc EXCEPT ![h] = "claim"] /\ mem' = [mem EXCEPT ![h] = m]
  BY <1>0, <1>3 DEF ReceiveOrder, Goto, TypeInv, TypeOK
<1>5. Fits("claim", m)' /\ "claim" \in Steps
  BY <1>0, <1>1, <1>3
     DEF Fits, ClaimsStay, LineSteps, Steps, ReceiveOrder, LinesOf
<1>6. RunsFit' /\ PurgesFit' /\ pc' \in [Promoters -> Steps]
      /\ mem' \in [Promoters -> Locals]
  BY <1>0, <1>1, <1>3, <1>4, <1>5, RunGoesOn, PurgesStay
<1>7. TypeOK'
  BY <1>6, BoundsAssumption
     DEF Fault, TypeInv, TypeOK, ReceiveOrder, KeepRest, KeepTables, OthersKept
<1> QED BY <1>6, <1>7 DEF TypeInv

\* EndHandler: the end of a handler keeps the types and the fit of the runs.
LEMMA TypeEndHandler ==
    ASSUME TypeInv, NEW h \in Handlers, EndHandler(h)
    PROVE  TypeInv'
<1>0. mem[h] \in Locals /\ Fits(pc[h], mem[h]) /\ Claimed \subseteq Lines
      /\ h \in Promoters
  BY DEF TypeInv, TypeOK, RunsFit, Claimed, Promoters
<1>1. ClaimsStay /\ UNCHANGED purge
  BY SameClaims DEF EndHandler, KeepRest, KeepTables, OthersKept, ClaimsStay
<1> DEFINE n == Blank
<1>2. n \in Locals /\ n.todo = {} /\ n.retired = {}
  BY <1>0 DEF EndHandler, Locals, Blank
<1>3. PICK m \in Locals : m = n /\ m.todo = {} /\ m.retired = {}
  BY <1>2
<1>4. pc' = [pc EXCEPT ![h] = "idle"] /\ mem' = [mem EXCEPT ![h] = m]
  BY <1>0, <1>3 DEF EndHandler, Goto, TypeInv, TypeOK
<1>5. Fits("idle", m)' /\ "idle" \in Steps
  BY <1>0, <1>1, <1>3 DEF Fits, ClaimsStay, LineSteps, Steps, EndHandler
<1>6. RunsFit' /\ PurgesFit' /\ pc' \in [Promoters -> Steps]
      /\ mem' \in [Promoters -> Locals]
  BY <1>0, <1>1, <1>3, <1>4, <1>5, RunGoesOn, PurgesStay
<1>7. TypeOK'
  BY <1>6, BoundsAssumption
     DEF Fault, TypeInv, TypeOK, EndHandler, KeepRest, KeepTables, OthersKept
<1> QED BY <1>6, <1>7 DEF TypeInv

\* RunDies: a crash of a handler or sweep keeps the types and the fit of the
\* runs.
LEMMA TypeRunDies ==
    ASSUME TypeInv, NEW p \in Promoters, RunDies(p)
    PROVE  TypeInv'
<1>0. mem[p] \in Locals /\ Fits(pc[p], mem[p]) /\ Claimed \subseteq Lines
      /\ p \in Promoters
  BY DEF TypeInv, TypeOK, RunsFit, Claimed, Promoters
<1>1. ClaimsStay /\ UNCHANGED purge
  BY SameClaims DEF RunDies, KeepRest, KeepTables, OthersKept, ClaimsStay
<1> DEFINE n == Blank
<1>2. n \in Locals /\ n.todo = {} /\ n.retired = {}
  BY <1>0 DEF RunDies, Locals, Blank, Fault
<1>3. PICK m \in Locals : m = n /\ m.todo = {} /\ m.retired = {}
  BY <1>2
<1>4. pc' = [pc EXCEPT ![p] = "idle"] /\ mem' = [mem EXCEPT ![p] = m]
  BY <1>0, <1>3 DEF RunDies, Goto, TypeInv, TypeOK
<1>5. Fits("idle", m)' /\ "idle" \in Steps
  BY <1>0, <1>1, <1>3 DEF Fits, ClaimsStay, LineSteps, Steps, RunDies, Fault
<1>6. RunsFit' /\ PurgesFit' /\ pc' \in [Promoters -> Steps]
      /\ mem' \in [Promoters -> Locals]
  BY <1>0, <1>1, <1>3, <1>4, <1>5, RunGoesOn, PurgesStay
<1>7. TypeOK'
  BY <1>6, BoundsAssumption
     DEF Fault, TypeInv, TypeOK, RunDies, KeepRest, KeepTables, OthersKept
<1> QED BY <1>6, <1>7 DEF TypeInv

\* CopyFails: a copy that throws keeps the types and the fit of the runs.
LEMMA TypeCopyFails ==
    ASSUME TypeInv, NEW p \in Promoters, NEW l \in Lines, CopyFails(p, l)
    PROVE  TypeInv'
<1>0. mem[p] \in Locals /\ Fits(pc[p], mem[p]) /\ Claimed \subseteq Lines
      /\ p \in Promoters
  BY DEF TypeInv, TypeOK, RunsFit, Claimed, Promoters
<1>1. ClaimsStay /\ UNCHANGED purge
  BY SameClaims DEF CopyFails, KeepRest, KeepTables, OthersKept, ClaimsStay
<1> DEFINE n == [mem[p] EXCEPT !.todo = @ \ {l}]
<1>2. n \in Locals /\ n.todo = mem[p].todo \ {l} /\ n.retired = mem[p].retired
  BY <1>0 DEF CopyFails, Locals, Blank, Fault
<1>3. PICK m \in Locals :
          m = n /\ m.todo = mem[p].todo \ {l} /\ m.retired = mem[p].retired
  BY <1>2
<1>4. pc' = [pc EXCEPT ![p] = "next"] /\ mem' = [mem EXCEPT ![p] = m]
  BY <1>0, <1>3 DEF CopyFails, Goto, TypeInv, TypeOK
<1>5. Fits("next", m)' /\ "next" \in Steps
  BY <1>0, <1>1, <1>3 DEF Fits, ClaimsStay, LineSteps, Steps, CopyFails, Fault
<1>6. RunsFit' /\ PurgesFit' /\ pc' \in [Promoters -> Steps]
      /\ mem' \in [Promoters -> Locals]
  BY <1>0, <1>1, <1>3, <1>4, <1>5, RunGoesOn, PurgesStay
<1>7. TypeOK'
  BY <1>6, BoundsAssumption
     DEF Fault, TypeInv, TypeOK, CopyFails, KeepRest, KeepTables, OthersKept
<1> QED BY <1>6, <1>7 DEF TypeInv

\* ClaimFails: an insert that throws keeps the types and the fit of the runs.
LEMMA TypeClaimFails ==
    ASSUME TypeInv, NEW h \in Handlers, NEW l \in Lines, ClaimFails(h, l)
    PROVE  TypeInv'
<1>1. mem[h] \in Locals /\ Fits(pc[h], mem[h]) /\ Claimed \subseteq Lines
      /\ h \in Promoters
  BY DEF TypeInv, TypeOK, RunsFit, Claimed, Promoters
<1>2. ClaimsStay /\ UNCHANGED purge
  BY SameClaims DEF ClaimFails, KeepRest, KeepTables, OthersKept, ClaimsStay
<1>3. PICK s \in {"idle", "claim", "next", "drop"} :
          s = AfterClaims(mem[h].unclaimed \ {l})
  BY DEF AfterClaims, AfterDrops
<1> DEFINE n == [mem[h] EXCEPT !.unclaimed = @ \ {l}]
<1>4. n \in Locals /\ n.todo = mem[h].todo /\ n.retired = mem[h].retired
  BY <1>1 DEF ClaimFails, Locals, Blank
<1>5. PICK m \in Locals :
          m = n /\ m.todo = mem[h].todo /\ m.retired = mem[h].retired
  BY <1>4
<1>6. pc' = [pc EXCEPT ![h] = s] /\ mem' = [mem EXCEPT ![h] = m]
  BY <1>1, <1>5, <1>3 DEF ClaimFails, Goto, TypeInv, TypeOK
<1>7. Fits(s, m)' /\ s \in Steps
  BY <1>1, <1>2, <1>5, <1>3 DEF Fits, ClaimsStay, LineSteps, Steps, ClaimFails
<1>8. RunsFit' /\ PurgesFit' /\ pc' \in [Promoters -> Steps]
      /\ mem' \in [Promoters -> Locals]
  BY <1>1, <1>2, <1>5, <1>6, <1>7, <1>3, RunGoesOn, PurgesStay
<1>9. TypeOK'
  BY <1>8, BoundsAssumption
     DEF Fault, TypeInv, TypeOK, ClaimFails, KeepRest, KeepTables, OthersKept
<1> QED BY <1>8, <1>9 DEF TypeInv

\* MarkAbandoned: the mark on an abandoned upload keeps the types and the fit
\* of the runs.
LEMMA TypeMarkAbandoned ==
    ASSUME TypeInv, NEW u \in Uploads, MarkAbandoned(u)
    PROVE  TypeInv'
<1>1. mem[Sweeper] \in Locals /\ Fits(pc[Sweeper], mem[Sweeper])
      /\ Claimed \subseteq Lines /\ Sweeper \in Promoters
  BY DEF TypeInv, TypeOK, RunsFit, Claimed, Promoters
<1>2. ClaimsStay /\ UNCHANGED purge
  BY SameClaims DEF MarkAbandoned, KeepRest, KeepTables, OthersKept, ClaimsStay
<1>3. PICK s \in {"idle", "claim", "next", "drop"} :
          s = AfterDrops(mem[Sweeper].abandoned \ {u})
  BY DEF AfterClaims, AfterDrops
<1> DEFINE n == [mem[Sweeper] EXCEPT !.abandoned = @ \ {u}]
<1>4. n \in Locals /\ n.todo = mem[Sweeper].todo
      /\ n.retired = mem[Sweeper].retired
  BY <1>1 DEF MarkAbandoned, Locals, Blank
<1>5. PICK m \in Locals :
          m = n /\ m.todo = mem[Sweeper].todo
          /\ m.retired = mem[Sweeper].retired
  BY <1>4
<1>6. pc' = [pc EXCEPT ![Sweeper] = s] /\ mem' = [mem EXCEPT ![Sweeper] = m]
  BY <1>1, <1>5, <1>3 DEF MarkAbandoned, Goto, TypeInv, TypeOK
<1>7. Fits(s, m)' /\ s \in Steps
  BY <1>1, <1>2, <1>5, <1>3
     DEF Fits, ClaimsStay, LineSteps, Steps, MarkAbandoned
<1>8. RunsFit' /\ PurgesFit' /\ pc' \in [Promoters -> Steps]
      /\ mem' \in [Promoters -> Locals]
  BY <1>1, <1>2, <1>5, <1>6, <1>7, <1>3, RunGoesOn, PurgesStay
<1>9. asset' \in [Uploads -> [recorded : BOOLEAN, purged : BOOLEAN,
                             inspected : Printable \cup {None}]]
  <2> DEFINE Rows == [recorded : BOOLEAN, purged : BOOLEAN,
                      inspected : Printable \cup {None}]
             row == [asset[u] EXCEPT !.purged = TRUE]
  <2>1. asset \in [Uploads -> Rows]
    BY DEF TypeInv, TypeOK
  <2>2. row \in Rows
    BY <2>1
  <2>3. asset' = [asset EXCEPT ![u] = row]
    BY DEF MarkAbandoned
  <2> HIDE DEF Rows, row
  <2>4. asset' \in [Uploads -> Rows]
    BY <2>1, <2>2, <2>3
  <2> QED BY <2>4 DEF Rows
<1>10. TypeOK'
  BY <1>8, <1>9
     DEF TypeInv, TypeOK, MarkAbandoned, KeepRest, OthersKept
<1> QED BY <1>8, <1>10 DEF TypeInv

\* DropFails: that mark when it throws keeps the types and the fit of the runs.
LEMMA TypeDropFails ==
    ASSUME TypeInv, NEW u \in Uploads, DropFails(u)
    PROVE  TypeInv'
<1>1. mem[Sweeper] \in Locals /\ Fits(pc[Sweeper], mem[Sweeper])
      /\ Claimed \subseteq Lines /\ Sweeper \in Promoters
  BY DEF TypeInv, TypeOK, RunsFit, Claimed, Promoters
<1>2. ClaimsStay /\ UNCHANGED purge
  BY SameClaims DEF DropFails, KeepRest, KeepTables, OthersKept, ClaimsStay
<1>3. PICK s \in {"idle", "claim", "next", "drop"} :
          s = AfterDrops(mem[Sweeper].abandoned \ {u})
  BY DEF AfterClaims, AfterDrops
<1> DEFINE n == [mem[Sweeper] EXCEPT !.abandoned = @ \ {u}]
<1>4. n \in Locals /\ n.todo = mem[Sweeper].todo
      /\ n.retired = mem[Sweeper].retired
  BY <1>1 DEF DropFails, Locals, Blank
<1>5. PICK m \in Locals :
          m = n /\ m.todo = mem[Sweeper].todo
          /\ m.retired = mem[Sweeper].retired
  BY <1>4
<1>6. pc' = [pc EXCEPT ![Sweeper] = s] /\ mem' = [mem EXCEPT ![Sweeper] = m]
  BY <1>1, <1>5, <1>3 DEF DropFails, Goto, TypeInv, TypeOK
<1>7. Fits(s, m)' /\ s \in Steps
  BY <1>1, <1>2, <1>5, <1>3 DEF Fits, ClaimsStay, LineSteps, Steps, DropFails
<1>8. RunsFit' /\ PurgesFit' /\ pc' \in [Promoters -> Steps]
      /\ mem' \in [Promoters -> Locals]
  BY <1>1, <1>2, <1>5, <1>6, <1>7, <1>3, RunGoesOn, PurgesStay
<1>9. TypeOK'
  BY <1>8, BoundsAssumption
     DEF Fault, TypeInv, TypeOK, DropFails, KeepRest, KeepTables, OthersKept
<1> QED BY <1>8, <1>9 DEF TypeInv

\* CallFails: any other call that throws keeps the types and the fit of the
\* runs.
LEMMA TypeCallFails ==
    ASSUME TypeInv, NEW p \in Promoters, CallFails(p)
    PROVE  TypeInv'
<1>1. ClaimsStay /\ UNCHANGED <<claim, purge>> /\ NextLine(p)
  BY SameClaims DEF CallFails, KeepRest, KeepTables, OthersKept, ClaimsStay
<1>2. RunsFit' /\ PurgesFit' /\ pc' \in [Promoters -> Steps]
      /\ mem' \in [Promoters -> Locals]
  BY <1>1, RunNextLine, PurgesStay
<1>3. TypeOK'
  BY <1>2, BoundsAssumption
     DEF TypeInv, TypeOK, CallFails, Fault, KeepRest, KeepTables, OthersKept
<1> QED BY <1>2, <1>3 DEF TypeInv

\* ListAbandoned: the sweep's list of abandoned uploads keeps the types and the
\* fit of the runs.
LEMMA TypeListAbandoned ==
    ASSUME TypeInv, ListAbandoned
    PROVE  TypeInv'
<1>1. mem[Sweeper] \in Locals /\ Fits(pc[Sweeper], mem[Sweeper])
      /\ Claimed \subseteq Lines /\ Sweeper \in Promoters
  BY DEF TypeInv, TypeOK, RunsFit, Claimed, Promoters
<1>2. ClaimsStay /\ UNCHANGED purge
  BY SameClaims DEF ListAbandoned, KeepRest, KeepTables, OthersKept, ClaimsStay
<1>3. PICK s \in {"idle", "claim", "next", "drop"} :
          s = IF {u \in mem[Sweeper].past : asset[u].recorded
          /\ ~asset[u].purged /\ Unclaimed(u)} = {} THEN "idle" ELSE "drop"
  BY DEF AfterClaims, AfterDrops
<1> DEFINE n == [Blank EXCEPT !.abandoned = {u \in mem[Sweeper].past :
                    asset[u].recorded /\ ~asset[u].purged /\ Unclaimed(u)}]
<1>4. n \in Locals /\ n.todo = {} /\ n.retired = {}
  BY <1>1 DEF ListAbandoned, Locals, Blank
<1>5. PICK m \in Locals : m = n /\ m.todo = {} /\ m.retired = {}
  BY <1>4
<1>6. pc' = [pc EXCEPT ![Sweeper] = s] /\ mem' = [mem EXCEPT ![Sweeper] = m]
  BY <1>1, <1>5, <1>3 DEF ListAbandoned, Goto, TypeInv, TypeOK
<1>7. Fits(s, m)' /\ s \in Steps
  BY <1>1, <1>2, <1>5, <1>3
     DEF Fits, ClaimsStay, LineSteps, Steps, ListAbandoned
<1>8. RunsFit' /\ PurgesFit' /\ pc' \in [Promoters -> Steps]
      /\ mem' \in [Promoters -> Locals]
  BY <1>1, <1>2, <1>5, <1>6, <1>7, <1>3, RunGoesOn, PurgesStay
<1>9. TypeOK'
  BY <1>8, BoundsAssumption
     DEF Fault, TypeInv, TypeOK, ListAbandoned, KeepRest, KeepTables,
       OthersKept
<1> QED BY <1>8, <1>9 DEF TypeInv

\* GiveUp: the mark of a sweep that gives up keeps the types and the fit of the
\* runs.
LEMMA TypeGiveUp ==
    ASSUME TypeInv, NEW p \in Promoters, GiveUp(p)
    PROVE  TypeInv'
<1>0. mem[p] \in Locals /\ Fits(pc[p], mem[p]) /\ mem[p].line \in Claimed
      /\ Claimed \subseteq Lines
  BY DEF GiveUp, TypeInv, TypeOK, RunsFit, Fits, LineSteps, Steps, Claimed
<1>1. claim[mem[p].line] \in Claims
  BY <1>0 DEF TypeInv, TypeOK, Claimed
<1> DEFINE c == [claim[mem[p].line] EXCEPT !.purged = "staging_expired"]
<1>2. c \in Claims /\ claim' = [claim EXCEPT ![mem[p].line] = c]
  BY <1>0, <1>1 DEF GiveUp, Claims, Reasons, TypeInv, TypeOK
<1>3. claim' \in [Lines -> Claims \cup {NoClaim}] /\ Claimed' = Claimed
  <2> HIDE DEF c
  <2> QED BY <1>0, <1>2, MarkedClaim DEF TypeInv
<1>4. ClaimsStay /\ UNCHANGED purge
  BY <1>3 DEF GiveUp, KeepRest, KeepTables, OthersKept, ClaimsStay
<1>5. RunsFit' /\ pc' \in [Promoters -> Steps]
      /\ mem' \in [Promoters -> Locals]
  BY <1>4, RunNextLine DEF GiveUp
<1>6. PurgesFit'
  BY <1>4, PurgesStay
<1>7. TypeOK'
  BY <1>3, <1>5 DEF TypeInv, TypeOK, GiveUp, KeepRest, KeepTables, OthersKept
<1> QED BY <1>5, <1>6, <1>7 DEF TypeInv

\* MarkPromoted: markClaimPromoted keeps the types and the fit of the runs.
LEMMA TypeMarkPromoted ==
    ASSUME TypeInv, NEW p \in Promoters, MarkPromoted(p)
    PROVE  TypeInv'
<1>0. mem[p] \in Locals /\ Fits(pc[p], mem[p]) /\ mem[p].line \in Claimed
      /\ Claimed \subseteq Lines
  BY
     DEF MarkPromoted, TypeInv, TypeOK, RunsFit, Fits, LineSteps, Steps,
       Claimed
<1>1. claim[mem[p].line] \in Claims
  BY <1>0 DEF TypeInv, TypeOK, Claimed
<1> DEFINE c == [claim[mem[p].line] EXCEPT !.promoted = TRUE]
<1>2. c \in Claims /\ claim' = [claim EXCEPT ![mem[p].line] = c]
  BY <1>0, <1>1 DEF MarkPromoted, Claims, Reasons, TypeInv, TypeOK
<1>3. claim' \in [Lines -> Claims \cup {NoClaim}] /\ Claimed' = Claimed
  <2> HIDE DEF c
  <2> QED BY <1>0, <1>2, MarkedClaim DEF TypeInv
<1>4. ClaimsStay /\ UNCHANGED purge
  BY <1>3 DEF MarkPromoted, KeepRest, KeepTables, OthersKept, ClaimsStay
<1>5. RunsFit' /\ pc' \in [Promoters -> Steps]
      /\ mem' \in [Promoters -> Locals]
  <2>1. CASE NextLine(p)
    BY <1>4, <2>1, RunNextLine
  <2>2. CASE Goto(p, "tidy") /\ UNCHANGED mem
    BY <1>0, <1>4, <2>2, RunSteps DEF Steps
  <2> QED BY <2>1, <2>2 DEF MarkPromoted
<1>6. PurgesFit'
  BY <1>4, PurgesStay
<1>7. TypeOK'
  BY <1>3, <1>5
     DEF TypeInv, TypeOK, MarkPromoted, KeepRest, KeepTables, OthersKept
<1> QED BY <1>5, <1>6, <1>7 DEF TypeInv

\* Retire: a mark of retireChangedUpload keeps the types and the fit of the
\* runs.
LEMMA TypeRetire ==
    ASSUME TypeInv, NEW p \in Promoters, NEW l \in Lines, Retire(p, l)
    PROVE  TypeInv'
<1>0. mem[p] \in Locals /\ Fits(pc[p], mem[p]) /\ l \in Claimed
      /\ Claimed \subseteq Lines
  BY DEF Retire, TypeInv, TypeOK, RunsFit, Fits, LineSteps, Steps, Claimed
<1>1. claim[l] \in Claims
  BY <1>0 DEF TypeInv, TypeOK, Claimed
<1> DEFINE c == [claim[l] EXCEPT !.purged = "changed_after_inspect"]
<1>2. c \in Claims /\ claim' = [claim EXCEPT ![l] = c]
  BY <1>0, <1>1 DEF Retire, Claims, Reasons, TypeInv, TypeOK
<1>3. claim' \in [Lines -> Claims \cup {NoClaim}] /\ Claimed' = Claimed
  <2> HIDE DEF c
  <2> QED BY <1>0, <1>2, MarkedClaim DEF TypeInv
<1>4. ClaimsStay /\ UNCHANGED purge
  BY <1>3 DEF Retire, KeepRest, KeepTables, OthersKept, ClaimsStay
<1>5. RunsFit' /\ pc' \in [Promoters -> Steps]
      /\ mem' \in [Promoters -> Locals]
  <2>1. CASE NextLine(p)
    BY <1>4, <2>1, RunNextLine
  <2>2. CASE mem' = [mem EXCEPT ![p].retired = @ \ {l}] /\ UNCHANGED pc
    <3> DEFINE n == [mem[p] EXCEPT !.retired = @ \ {l}]
    <3>1. n \in Locals /\ n.todo = mem[p].todo /\ n.line = mem[p].line
          /\ n.retired = mem[p].retired \ {l}
      BY <1>0 DEF Locals
    <3>2. PICK m \in Locals :
          m = n /\ m.todo = mem[p].todo /\ m.line = mem[p].line
          /\ m.retired = mem[p].retired \ {l}
      BY <3>1
    <3>3. pc' = [pc EXCEPT ![p] = "retire"] /\ mem' = [mem EXCEPT ![p] = m]
      BY <1>0, <2>2, <3>2 DEF Retire, TypeInv, TypeOK
    <3>4. Fits("retire", m)'
      BY <1>0, <1>4, <3>2 DEF Retire, Fits, LineSteps, Steps, ClaimsStay
    <3> QED BY <1>4, <3>2, <3>3, <3>4, RunGoesOn DEF Steps
  <2> QED BY <2>1, <2>2 DEF Retire
<1>6. PurgesFit'
  BY <1>4, PurgesStay
<1>7. TypeOK'
  BY <1>3, <1>5 DEF TypeInv, TypeOK, Retire, KeepRest, KeepTables, OthersKept
<1> QED BY <1>5, <1>6, <1>7 DEF TypeInv

\* ListRetired: the list of retireChangedUpload keeps the types and the fit of
\* the runs.
LEMMA TypeListRetired ==
    ASSUME TypeInv, NEW p \in Promoters, ListRetired(p)
    PROVE  TypeInv'
<1>0. mem[p] \in Locals /\ Fits(pc[p], mem[p]) /\ Claimed \subseteq Lines
  BY DEF TypeInv, TypeOK, RunsFit, Claimed
<1>1. ClaimsStay /\ UNCHANGED <<claim, purge>>
  BY SameClaims DEF ListRetired, KeepRest, KeepTables, OthersKept, ClaimsStay
<1>2. RunsFit' /\ pc' \in [Promoters -> Steps]
      /\ mem' \in [Promoters -> Locals]
  <2>1. CASE NextLine(p)
    BY <1>1, <2>1, RunNextLine
  <2>2. CASE ~NextLine(p)
    <3>1. PICK pending \in SUBSET Claimed :
          mem' = [mem EXCEPT ![p].retired = pending]
      BY <2>2 DEF ListRetired, Pending
    <3> DEFINE n == [mem[p] EXCEPT !.retired = pending]
    <3>2. n \in Locals /\ n.todo = mem[p].todo /\ n.line = mem[p].line
          /\ n.retired = pending
      BY <1>0 DEF Locals
    <3>3. PICK m \in Locals :
          m = n /\ m.todo = mem[p].todo /\ m.line = mem[p].line
          /\ m.retired = pending
      BY <3>2
    <3>4. pc' = [pc EXCEPT ![p] = "retire"] /\ mem' = [mem EXCEPT ![p] = m]
      BY <1>0, <2>2, <3>1, <3>3 DEF ListRetired, Goto, TypeInv, TypeOK
    <3>5. Fits("retire", m)'
      BY <1>0, <1>1, <3>3 DEF ListRetired, Fits, LineSteps, Steps, ClaimsStay
    <3> QED BY <1>1, <3>3, <3>4, <3>5, RunGoesOn DEF Steps
  <2> QED BY <2>1, <2>2
<1>3. PurgesFit'
  BY <1>1, PurgesStay
<1>4. TypeOK'
  BY <1>2 DEF TypeInv, TypeOK, ListRetired, KeepRest, KeepTables, OthersKept
<1> QED BY <1>2, <1>3, <1>4 DEF TypeInv

\* CopySibling: a copy from another line's object keeps the types and the fit
\* of the runs.
LEMMA TypeCopySibling ==
    ASSUME TypeInv, NEW p \in Promoters, CopySibling(p)
    PROVE  TypeInv'
<1>0. mem[p] \in Locals /\ mem[p].line \in Claimed /\ Claimed \subseteq Lines
      /\ mem[p].source \in Lines
  BY DEF CopySibling, TypeInv, TypeOK, RunsFit, Fits, LineSteps, Steps, Claimed
<1>1. ClaimsStay /\ UNCHANGED <<claim, purge>>
  BY SameClaims DEF CopySibling, KeepRest, KeepTables, OthersKept, ClaimsStay
<1>2. RunsFit' /\ pc' \in [Promoters -> Steps]
      /\ mem' \in [Promoters -> Locals]
  <2>1. CASE NextLine(p)
    BY <1>1, <2>1, RunNextLine
  <2>2. CASE Goto(p, "mark") /\ UNCHANGED mem
    BY <1>0, <1>1, <2>2, RunSteps DEF Steps
  <2> QED BY <2>1, <2>2 DEF CopySibling
<1>3. PurgesFit'
  BY <1>1, PurgesStay
<1>4. TypeOK'
  BY <1>0, <1>2
     DEF TypeInv, TypeOK, CopySibling, KeepRest, KeepTables, OthersKept
<1> QED BY <1>2, <1>3, <1>4 DEF TypeInv

\* CopyStaging: a copy from staging keeps the types and the fit of the runs.
LEMMA TypeCopyStaging ==
    ASSUME TypeInv, NEW p \in Promoters, NEW l \in Lines, CopyStaging(p, l)
    PROVE  TypeInv'
<1>0. mem[p] \in Locals /\ Fits(pc[p], mem[p]) /\ Claimed \subseteq Lines
      /\ l \in Claimed
  BY DEF CopyStaging, TypeInv, TypeOK, RunsFit, Fits, Claimed
<1>1. ClaimsStay /\ UNCHANGED <<claim, purge>>
  BY SameClaims DEF CopyStaging, KeepRest, KeepTables, OthersKept, ClaimsStay
<1> DEFINE n == [mem[p] EXCEPT !.todo = @ \ {l}, !.line = l,
                               !.changed = staging[UploadOf[l]] # None]
<1>2. n \in Locals /\ n.todo = mem[p].todo \ {l} /\ n.line = l
      /\ n.retired = mem[p].retired
  BY <1>0 DEF Locals
<1>3. PICK m \in Locals : m = n /\ m.todo = mem[p].todo \ {l} /\ m.line = l
          /\ m.retired = mem[p].retired
  BY <1>2
<1>4. PICK s \in {"mark", "siblings"} : pc' = [pc EXCEPT ![p] = s]
  BY DEF CopyStaging, Goto
<1>5. mem' = [mem EXCEPT ![p] = m]
  BY <1>0, <1>3 DEF CopyStaging, TypeInv, TypeOK
<1>6. Fits(s, m)' /\ s \in Steps
  BY <1>0, <1>1, <1>3 DEF Fits, LineSteps, Steps, ClaimsStay
<1>7. RunsFit' /\ PurgesFit' /\ pc' \in [Promoters -> Steps]
      /\ mem' \in [Promoters -> Locals]
  BY <1>1, <1>3, <1>4, <1>5, <1>6, RunGoesOn, PurgesStay
<1>8. filed' \in [Lines -> Etags \cup {None}]
  BY ShapeAssumption DEF CopyStaging, TypeInv, TypeOK
<1>9. TypeOK'
  BY <1>7, <1>8
     DEF TypeInv, TypeOK, CopyStaging, KeepRest, KeepTables, OthersKept
<1> QED BY <1>7, <1>9 DEF TypeInv

\* ClaimLine: claimLine keeps the types and the fit of the runs.
LEMMA TypeClaimLine ==
    ASSUME TypeInv, NEW h \in Handlers, NEW l \in Lines, ClaimLine(h, l)
    PROVE  TypeInv'
<1>0. mem[h] \in Locals /\ Fits(pc[h], mem[h]) /\ Claimed \subseteq Lines
      /\ h \in Promoters
  BY DEF TypeInv, TypeOK, RunsFit, Claimed, Promoters
<1>1. claim' \in [Lines -> Claims \cup {NoClaim}] /\ ClaimsStay
      /\ l \in Claimed'
  BY <1>0, ShapeAssumption
     DEF ClaimLine, TypeInv, TypeOK, Claims, Reasons, NoClaim, NewClaim,
          Claimed, ClaimsStay
<1>2. UNCHANGED purge
  BY DEF ClaimLine, KeepRest, KeepTables, OthersKept
<1>3. PICK new \in SUBSET {l} :
          mem' = [mem EXCEPT ![h].unclaimed = @ \ {l}, ![h].todo = @ \cup new]
  BY DEF ClaimLine
<1> DEFINE n == [mem[h] EXCEPT !.unclaimed = @ \ {l}, !.todo = @ \cup new]
<1>4. n \in Locals /\ n.todo = mem[h].todo \cup new
      /\ n.retired = mem[h].retired
  BY <1>0 DEF Locals
<1>5. PICK m \in Locals :
          m = n /\ m.todo = mem[h].todo \cup new /\ m.retired = mem[h].retired
  BY <1>4
<1>6. PICK s \in {"claim", "next"} : pc' = [pc EXCEPT ![h] = s]
  BY DEF ClaimLine, Goto, AfterClaims
<1>7. mem' = [mem EXCEPT ![h] = m]
  BY <1>0, <1>3, <1>5 DEF TypeInv, TypeOK
<1>8. Fits(s, m)' /\ s \in Steps
  BY <1>0, <1>1, <1>5 DEF Fits, LineSteps, Steps, ClaimsStay
<1>9. RunsFit' /\ PurgesFit' /\ pc' \in [Promoters -> Steps]
      /\ mem' \in [Promoters -> Locals]
  BY <1>0, <1>1, <1>2, <1>5, <1>6, <1>7, <1>8, RunGoesOn, PurgesStay
<1>10. TypeOK'
  BY <1>1, <1>9
     DEF TypeInv, TypeOK, ClaimLine, KeepRest, KeepTables, OthersKept
<1> QED BY <1>9, <1>10 DEF TypeInv

\* StartPurge: the purge's list of candidates keeps the types and the fit of
\* the runs.
LEMMA TypeStartPurge ==
    ASSUME TypeInv, NEW q \in Purgers, StartPurge(q)
    PROVE  TypeInv'
<1>1. ClaimsStay /\ UNCHANGED <<claim, runVars>>
  BY SameClaims DEF StartPurge, PurgeKept, ClaimsStay
<1>2. RunsFit' /\ pc' \in [Promoters -> Steps]
      /\ mem' \in [Promoters -> Locals]
  BY <1>1, RunsStay
<1>3. purge' \in [Purgers -> [due : SUBSET Lines, erased : Lines \cup {None}]]
  BY DEF StartPurge, Rest, TypeInv, TypeOK
<1>4. PurgesFit'
  BY <1>1, SameClaims
     DEF StartPurge, Rest, Download, TypeInv, TypeOK, PurgesFit
<1>5. TypeOK'
  BY <1>2, <1>3 DEF TypeInv, TypeOK, StartPurge, PurgeKept
<1> QED BY <1>2, <1>4, <1>5 DEF TypeInv

\* EraseObject: the deletion of a filed object keeps the types and the fit of
\* the runs.
LEMMA TypeEraseObject ==
    ASSUME TypeInv, NEW q \in Purgers, NEW l \in Lines, EraseObject(q, l)
    PROVE  TypeInv'
<1>1. ClaimsStay /\ UNCHANGED <<claim, runVars>>
  BY SameClaims DEF EraseObject, PurgeKept, ClaimsStay
<1>2. RunsFit' /\ pc' \in [Promoters -> Steps]
      /\ mem' \in [Promoters -> Locals]
  BY <1>1, RunsStay
<1>3. purge' \in [Purgers -> [due : SUBSET Lines, erased : Lines \cup {None}]]
  BY DEF EraseObject, TypeInv, TypeOK
<1>4. PurgesFit'
  BY <1>1, SameClaims DEF EraseObject, TypeInv, TypeOK, PurgesFit
<1>5. TypeOK'
  BY <1>2, <1>3 DEF TypeInv, TypeOK, EraseObject, PurgeKept
<1> QED BY <1>2, <1>4, <1>5 DEF TypeInv

\* EraseFails: that deletion when it throws keeps the types and the fit of the
\* runs.
LEMMA TypeEraseFails ==
    ASSUME TypeInv, NEW q \in Purgers, NEW l \in Lines, EraseFails(q, l)
    PROVE  TypeInv'
<1>1. ClaimsStay /\ UNCHANGED <<claim, runVars>>
  BY SameClaims DEF EraseFails, PurgeKept, ClaimsStay
<1>2. RunsFit' /\ pc' \in [Promoters -> Steps]
      /\ mem' \in [Promoters -> Locals]
  BY <1>1, RunsStay
<1>3. purge' \in [Purgers -> [due : SUBSET Lines, erased : Lines \cup {None}]]
  BY DEF EraseFails, TypeInv, TypeOK
<1>4. PurgesFit'
  BY <1>1, SameClaims DEF EraseFails, TypeInv, TypeOK, PurgesFit
<1>5. faults' \in 0..MaxFaults
  BY BoundsAssumption DEF EraseFails, Fault, TypeInv, TypeOK
<1>6. TypeOK'
  BY <1>2, <1>3, <1>5 DEF TypeInv, TypeOK, EraseFails, PurgeKept
<1> QED BY <1>2, <1>4, <1>6 DEF TypeInv

\* MarkErasedFails: a purge mark that throws keeps the types and the fit of the
\* runs.
LEMMA TypeMarkErasedFails ==
    ASSUME TypeInv, NEW q \in Purgers, MarkErasedFails(q)
    PROVE  TypeInv'
<1>1. ClaimsStay /\ UNCHANGED <<claim, runVars>>
  BY SameClaims DEF MarkErasedFails, PurgeKept, ClaimsStay
<1>2. RunsFit' /\ pc' \in [Promoters -> Steps]
      /\ mem' \in [Promoters -> Locals]
  BY <1>1, RunsStay
<1>3. purge' \in [Purgers -> [due : SUBSET Lines, erased : Lines \cup {None}]]
  BY DEF MarkErasedFails, TypeInv, TypeOK
<1>4. PurgesFit'
  <2>1. ASSUME NEW p \in Purgers
        PROVE  purge'[p].due = purge[p].due /\ purge'[p].erased \in {purge[p].erased, None}
    BY DEF MarkErasedFails, TypeInv, TypeOK
  <2>2. Claimed' = Claimed
    BY <1>1, SameClaims
  <2> QED BY <2>1, <2>2 DEF TypeInv, PurgesFit
<1>5. faults' \in 0..MaxFaults
  BY BoundsAssumption DEF MarkErasedFails, Fault, TypeInv, TypeOK
<1>6. TypeOK'
  BY <1>2, <1>3, <1>5 DEF TypeInv, TypeOK, MarkErasedFails, PurgeKept
<1> QED BY <1>2, <1>4, <1>6 DEF TypeInv

\* PurgeDies: a crash of a purge keeps the types and the fit of the runs.
LEMMA TypePurgeDies ==
    ASSUME TypeInv, NEW q \in Purgers, PurgeDies(q)
    PROVE  TypeInv'
<1>1. ClaimsStay /\ UNCHANGED <<claim, runVars>>
  BY SameClaims DEF PurgeDies, PurgeKept, ClaimsStay
<1>2. RunsFit' /\ pc' \in [Promoters -> Steps]
      /\ mem' \in [Promoters -> Locals]
  BY <1>1, RunsStay
<1>3. purge' \in [Purgers -> [due : SUBSET Lines, erased : Lines \cup {None}]]
  BY DEF PurgeDies, Rest, TypeInv, TypeOK
<1>4. PurgesFit'
  BY <1>1, SameClaims DEF PurgeDies, Rest, TypeInv, TypeOK, PurgesFit
<1>5. faults' \in 0..MaxFaults
  BY BoundsAssumption DEF PurgeDies, Fault, TypeInv, TypeOK
<1>6. TypeOK'
  BY <1>2, <1>3, <1>5 DEF TypeInv, TypeOK, PurgeDies, PurgeKept
<1> QED BY <1>2, <1>4, <1>6 DEF TypeInv

\* MarkErased: the purge's mark keeps the types and the fit of the runs.
LEMMA TypeMarkErased ==
    ASSUME TypeInv, NEW q \in Purgers, MarkErased(q)
    PROVE  TypeInv'
<1> DEFINE k == purge[q].erased
<1>0. k \in Claimed /\ k \in Lines
  BY DEF MarkErased, TypeInv, TypeOK, PurgesFit, Claimed
<1>1. claim[k] \in Claims
  BY <1>0 DEF TypeInv, TypeOK, Claimed
<1> DEFINE c == [claim[k] EXCEPT !.purged = "retention"]
<1>2. c \in Claims /\ claim' = [claim EXCEPT ![k] = c]
  BY <1>0, <1>1 DEF MarkErased, Claims, Reasons, TypeInv, TypeOK
<1>3. claim' \in [Lines -> Claims \cup {NoClaim}] /\ Claimed' = Claimed
  <2> HIDE DEF c, k
  <2> QED BY <1>0, <1>2, MarkedClaim DEF TypeInv
<1>4. RunsFit' /\ pc' \in [Promoters -> Steps]
      /\ mem' \in [Promoters -> Locals]
  BY <1>3, RunsStay DEF MarkErased, PurgeKept, ClaimsStay
<1>5. purge' \in [Purgers -> [due : SUBSET Lines, erased : Lines \cup {None}]]
  BY DEF MarkErased, TypeInv, TypeOK
<1>6. PurgesFit'
  BY <1>3 DEF MarkErased, TypeInv, TypeOK, PurgesFit
<1>7. TypeOK'
  BY <1>3, <1>4, <1>5 DEF TypeInv, TypeOK, MarkErased, PurgeKept
<1> QED BY <1>4, <1>6, <1>7 DEF TypeInv

\* What promoteArtworkClaim does for a line keeps the types.
LEMMA TypePromote ==
    ASSUME TypeInv, NEW p \in Promoters, Promote(p)
    PROVE  TypeInv'
BY TypeCopyStaging, TypeRetire, TypeFindSibling, TypeNoSibling,
   TypeCopySibling, TypeMarkPromoted, TypeCheckStaging, TypeDeleteStaging,
   TypeListRetired
   DEF Promote

\* The types, and the fit of the runs, hold when nothing was uploaded yet.
LEMMA TypeInit == Init => TypeInv
<1> SUFFICES ASSUME Init PROVE TypeInv
  OBVIOUS
<1>1. asset \in [Uploads -> [recorded : BOOLEAN, purged : BOOLEAN,
                             inspected : Printable \cup {None}]]
  BY DEF Init
<1>2. /\ mem \in [Promoters -> Locals] /\ pc \in [Promoters -> Steps]
      /\ RunsFit
  BY BlankFits DEF Init, RunsFit, Steps
<1>3. PurgesFit /\ purge \in [Purgers -> [due : SUBSET Lines,
                                          erased : Lines \cup {None}]]
  BY DEF Init, PurgesFit, Rest
<1>4. TypeOK
  BY <1>1, <1>2, <1>3, BoundsAssumption
     DEF Init, TypeOK, CheckoutWindow, FallbackClosed, Deliveries
<1> QED BY <1>2, <1>3, <1>4 DEF TypeInv

\* Every step of the system keeps the types and the fit of the runs.
LEMMA TypeNext == TypeInv /\ [Next]_vars => TypeInv'
<1> SUFFICES ASSUME TypeInv, [Next]_vars PROVE TypeInv'
  OBVIOUS
<1>1. CASE Customer
  BY <1>1, TypeRecordUpload, TypePut, TypeRecordInspection, TypeInspectHead,
     TypePrepareCart, TypePlaceOrder DEF Customer
<1>2. CASE Time
  BY <1>2, TypeAge, TypeExpire, TypeDeliver, TypeRunOut DEF Time
<1>3. CASE Failure
  BY <1>3, TypeClaimFails, TypeCallFails, TypeRunDies, TypeCopyFails,
     TypeDropFails, TypeMarkErasedFails, TypePurgeDies, TypeEraseFails
     DEF Failure
<1>4. CASE \E h \in Handlers :
          Handle(h) \/ \E o \in Orders : ReceiveOrder(h, o)
  BY <1>4, TypeClaimLine, TypePromote, TypeEndHandler, TypeReceiveOrder
     DEF Handle, Promoters
<1>5. CASE Sweep
  BY <1>5, TypeStartSweep, TypePromote, TypeGiveUp, TypeListAbandoned,
     TypeMarkAbandoned DEF Sweep, Promoters
<1>6. CASE \E q \in Purgers : Purge(q)
  BY <1>6, TypeStartPurge, TypeMarkErased, TypeEraseObject DEF Purge
<1>7. CASE UNCHANGED vars
  <2>1. ClaimsStay /\ UNCHANGED <<claim, runVars, purge>>
    BY <1>7, SameClaims DEF vars, ClaimsStay
  <2>2. RunsFit' /\ PurgesFit'
    BY <2>1, RunsStay, PurgesStay
  <2>3. TypeOK'
    BY <1>7 DEF vars, TypeInv, TypeOK
  <2> QED BY <2>2, <2>3 DEF TypeInv
<1> QED BY <1>1, <1>2, <1>3, <1>4, <1>5, <1>6, <1>7 DEF Next

\* Type correctness: every row, object and local of every run is what the code
\* declares it to be, whatever the numbers of orders, lines and runs.
THEOREM TypeCorrect == Spec => []TypeOK
<1>1. TypeInv => TypeOK
  BY DEF TypeInv
<1> QED BY <1>1, TypeInit, TypeNext, PTL DEF Spec

-----------------------------------------------------------------------------
(***************************************************************************)
(* Which steps write what.                                                 *)
(***************************************************************************)
\* The asset table is written by the upload route, the inspection and the
\* sweep's mark on an abandoned upload, and by nothing else.
LEMMA AssetSteps ==
    ASSUME [Next]_vars
    PROVE  \/ UNCHANGED asset
           \/ \E u \in Uploads : RecordUpload(u) \/ MarkAbandoned(u)
           \/ \E i \in Inspectors : RecordInspection(i)
<1>1. CASE Customer
  BY <1>1 DEF Customer, Put, InspectHead, PrepareCart, PlaceOrder
<1>2. CASE Time
  BY <1>2 DEF Time, Age, Expire, Deliver, RunOut
<1>3. CASE Failure
  BY <1>3 DEF Failure, ClaimFails, CallFails, RunDies, CopyFails, DropFails,
     MarkErasedFails, PurgeDies, EraseFails, KeepTables, PurgeKept
<1>4. ASSUME NEW p \in Promoters, Promote(p) PROVE UNCHANGED asset
  BY <1>4 DEF Promote, CopyStaging, Retire, FindSibling, NoSibling,
     CopySibling, MarkPromoted, CheckStaging, DeleteStaging, ListRetired,
     KeepTables
<1>5. CASE \E h \in Handlers :
          Handle(h) \/ \E o \in Orders : ReceiveOrder(h, o)
  BY <1>4, <1>5 DEF Handle, Promoters, ClaimLine, EndHandler, ReceiveOrder,
     KeepTables
<1>6. CASE Sweep
  BY <1>4, <1>6 DEF Sweep, Promoters, StartSweep, GiveUp, ListAbandoned,
     KeepTables
<1>7. CASE \E q \in Purgers : Purge(q)
  BY <1>7 DEF Purge, StartPurge, MarkErased, EraseObject, PurgeKept
<1>8. CASE UNCHANGED vars
  BY <1>8 DEF vars
<1> QED BY <1>1, <1>2, <1>3, <1>5, <1>6, <1>7, <1>8 DEF Next

\* Objects under artwork/ are written by the two copies and removed by the
\* purge, and by nothing else.
LEMMA FiledSteps ==
    ASSUME [Next]_vars
    PROVE  \/ UNCHANGED filed
           \/ \E p \in Promoters : \/ CopySibling(p)
                                  \/ \E l \in Lines : CopyStaging(p, l)
           \/ \E q \in Purgers, l \in Lines : EraseObject(q, l)
<1>1. CASE Customer
  BY <1>1 DEF Customer, RecordUpload, Put, RecordInspection, InspectHead,
     PrepareCart, PlaceOrder
<1>2. CASE Time
  BY <1>2 DEF Time, Age, Expire, Deliver, RunOut
<1>3. CASE Failure
  BY <1>3 DEF Failure, ClaimFails, CallFails, RunDies, CopyFails, DropFails,
     MarkErasedFails, PurgeDies, EraseFails, KeepTables, PurgeKept
<1>4. ASSUME NEW p \in Promoters, Promote(p)
      PROVE  UNCHANGED filed \/ CopySibling(p) \/ \E l \in Lines : CopyStaging(p, l)
  BY <1>4 DEF Promote, Retire, FindSibling, NoSibling,
     MarkPromoted, CheckStaging, DeleteStaging, ListRetired, KeepTables
<1>5. CASE \E h \in Handlers :
          Handle(h) \/ \E o \in Orders : ReceiveOrder(h, o)
  BY <1>4, <1>5 DEF Handle, Promoters, ClaimLine, EndHandler, ReceiveOrder,
     KeepTables
<1>6. CASE Sweep
  BY <1>4, <1>6 DEF Sweep, Promoters, StartSweep, GiveUp, ListAbandoned,
     MarkAbandoned, KeepTables
<1>7. CASE \E q \in Purgers : Purge(q)
  BY <1>7 DEF Purge, StartPurge, MarkErased
<1>8. CASE UNCHANGED vars
  BY <1>8 DEF vars
<1> QED BY <1>1, <1>2, <1>3, <1>5, <1>6, <1>7, <1>8 DEF Next

\* Inspections, and the answer "checked", are the inspect route's alone.
LEMMA ToldSteps ==
    ASSUME [Next]_vars
    PROVE  \/ UNCHANGED inspectVars
           \/ \E i \in Inspectors : \/ RecordInspection(i)
                                   \/ \E u \in Uploads : InspectHead(i, u)
<1>1. CASE Customer
  BY <1>1 DEF Customer, RecordUpload, Put, PrepareCart, PlaceOrder
<1>2. CASE Time
  BY <1>2 DEF Time, Age, Expire, Deliver, RunOut
<1>3. CASE Failure
  BY <1>3 DEF Failure, ClaimFails, CallFails, RunDies, CopyFails, DropFails,
     MarkErasedFails, PurgeDies, EraseFails, OthersKept, PurgeKept
<1>4. ASSUME NEW p \in Promoters, Promote(p) PROVE UNCHANGED inspectVars
  BY <1>4 DEF Promote, CopyStaging, Retire, FindSibling, NoSibling,
     CopySibling, MarkPromoted, CheckStaging, DeleteStaging, ListRetired,
     KeepRest, OthersKept
<1>5. CASE \E h \in Handlers :
          Handle(h) \/ \E o \in Orders : ReceiveOrder(h, o)
  BY <1>4, <1>5 DEF Handle, Promoters, ClaimLine, EndHandler, ReceiveOrder,
     KeepRest, OthersKept
<1>6. CASE Sweep
  BY <1>4, <1>6 DEF Sweep, Promoters, StartSweep, GiveUp, ListAbandoned,
     MarkAbandoned, KeepRest, OthersKept
<1>7. CASE \E q \in Purgers : Purge(q)
  BY <1>7 DEF Purge, StartPurge, MarkErased, EraseObject, PurgeKept
<1>8. CASE UNCHANGED vars
  BY <1>8 DEF vars
<1> QED BY <1>1, <1>2, <1>3, <1>5, <1>6, <1>7, <1>8 DEF Next

\* What an inspection recorded is never overwritten: the update asks that no
\* check is on record.
LEMMA InspectedOnce ==
    ASSUME TypeInv, [Next]_vars, NEW u \in Uploads, asset[u].inspected # None
    PROVE  asset'[u].inspected = asset[u].inspected
<1>1. asset \in [Uploads -> [recorded : BOOLEAN, purged : BOOLEAN,
                             inspected : Printable \cup {None}]]
  BY DEF TypeInv, TypeOK
<1>2. ASSUME NEW v \in Uploads, RecordUpload(v) \/ MarkAbandoned(v)
      PROVE  asset'[u].inspected = asset[u].inspected
  BY <1>1, <1>2 DEF RecordUpload, MarkAbandoned
<1>3. ASSUME NEW i \in Inspectors, RecordInspection(i)
      PROVE  asset'[u].inspected = asset[u].inspected
  <2>1. CASE asset[seen[i].upload].inspected # None
    BY <1>3, <2>1 DEF RecordInspection
  <2>2. CASE asset[seen[i].upload].inspected = None
    <3>1. asset' = [asset EXCEPT ![seen[i].upload].inspected = seen[i].etag]
      BY <1>3, <2>2 DEF RecordInspection
    <3>2. u # seen[i].upload
      BY <2>2
    <3> QED BY <1>1, <3>1, <3>2
  <2> QED BY <2>1, <2>2
<1> QED BY <1>2, <1>3, AssetSteps

-----------------------------------------------------------------------------
(***************************************************************************)
(* What is filed was inspected.                                            *)
(***************************************************************************)
\* No step files anything but the recorded file, and none rewrites the record.
LEMMA FiledNext ==
    ASSUME TypeInv, FiledIsInspected, [Next]_vars
    PROVE  FiledIsInspected'
<1> SUFFICES ASSUME NEW l \in Lines, filed'[l] # None
             PROVE  /\ filed'[l] \in Printable
                    /\ filed'[l] = asset'[UploadOf[l]].inspected
  BY DEF FiledIsInspected
<1>1. UploadOf[l] \in Uploads /\ filed \in [Lines -> Etags \cup {None}]
  BY ShapeAssumption DEF TypeInv, TypeOK
<1>2. filed'[l] = asset[UploadOf[l]].inspected
  <2>1. CASE UNCHANGED filed
    BY <2>1 DEF FiledIsInspected
  <2>2. ASSUME NEW p \in Promoters, NEW k \in Lines, CopyStaging(p, k)
        PROVE  filed'[l] = asset[UploadOf[l]].inspected
    BY <1>1, <2>2 DEF CopyStaging, FiledIsInspected
  <2>3. ASSUME NEW p \in Promoters, CopySibling(p)
        PROVE  filed'[l] = asset[UploadOf[l]].inspected
    <3>1. Fits("copySibling", mem[p])
      BY <2>3 DEF CopySibling, TypeInv, RunsFit
    <3>2. CASE filed[mem[p].source] = None
      BY <2>3, <3>2 DEF CopySibling, FiledIsInspected
    <3>3. CASE filed[mem[p].source] # None
      <4>1. filed' = [filed EXCEPT ![mem[p].line] = filed[mem[p].source]]
        BY <2>3, <3>3 DEF CopySibling
      <4>2. CASE l = mem[p].line
        BY <1>1, <3>1, <3>3, <4>1, <4>2 DEF Fits, FiledIsInspected
      <4>3. CASE l # mem[p].line
        BY <1>1, <4>1, <4>3 DEF FiledIsInspected
      <4> QED BY <4>2, <4>3
    <3> QED BY <3>2, <3>3
  <2>4. ASSUME NEW q \in Purgers, NEW k \in Lines, EraseObject(q, k)
        PROVE  filed'[l] = asset[UploadOf[l]].inspected
    BY <1>1, <2>4 DEF EraseObject, FiledIsInspected
  <2> QED BY <2>1, <2>2, <2>3, <2>4, FiledSteps
<1>3. asset[UploadOf[l]].inspected # None
  BY <1>2
<1>4. asset[UploadOf[l]].inspected \in Printable
  BY <1>1, <1>3 DEF TypeInv, TypeOK
<1> QED BY <1>1, <1>2, <1>3, <1>4, InspectedOnce

\* Print quality and mime checks hold of what is printed: the object on an
\* order is the file the inspection measured, whatever was written through the
\* presigned URL after it, and from whichever source the copy was taken.
THEOREM FiledWasInspected == Spec => []FiledIsInspected
<1> DEFINE Inv == TypeInv /\ FiledIsInspected
<1>1. Init => Inv
  BY TypeInit DEF Init, FiledIsInspected
<1>2. Inv /\ [Next]_vars => Inv'
  BY TypeNext, FiledNext
<1>3. Inv => FiledIsInspected
  OBVIOUS
<1> QED BY <1>1, <1>2, <1>3, PTL DEF Spec

\* A file is answered "checked" in the step that reads or writes its record.
LEMMA ToldNext ==
    ASSUME TypeInv, CheckedIsRecorded, [Next]_vars
    PROVE  CheckedIsRecorded'
<1> SUFFICES ASSUME NEW u \in Uploads, NEW e \in told'[u]
             PROVE  e = asset'[u].inspected
  BY DEF CheckedIsRecorded
<1>1. told \in [Uploads -> SUBSET Printable] /\ None \notin Printable
  BY ShapeAssumption DEF TypeInv, TypeOK
<1>2. CASE e \in told[u]
  BY <1>1, <1>2, InspectedOnce DEF CheckedIsRecorded
<1>3. CASE e \notin told[u]
  <2>1. ASSUME NEW i \in Inspectors, NEW v \in Uploads, InspectHead(i, v)
        PROVE  e = asset'[u].inspected
    <3>1. /\ told' = [told EXCEPT ![v] = @ \cup {staging[v]}]
          /\ asset[v].inspected = staging[v] /\ UNCHANGED asset
      BY <1>3, <2>1 DEF InspectHead
    <3> QED BY <1>1, <1>3, <3>1
  <2>2. ASSUME NEW i \in Inspectors, RecordInspection(i)
        PROVE  e = asset'[u].inspected
    <3> DEFINE v == seen[i].upload
               f == seen[i].etag
    <3>1. /\ told' = [told EXCEPT ![v] = @ \cup {f}]
          /\ asset'[v].inspected = f
      BY <1>3, <2>2 DEF RecordInspection
    <3> HIDE DEF v, f
    <3> QED BY <1>1, <1>3, <3>1
  <2> QED BY <1>3, <2>1, <2>2, ToldSteps
<1> QED BY <1>2, <1>3

\* A shopper is told "checked" of the recorded file only: of two inspections
\* that race over a rewritten upload, the one that lost is not believed.
THEOREM CheckedWasRecorded == Spec => []CheckedIsRecorded
<1> DEFINE Inv == TypeInv /\ CheckedIsRecorded
<1>1. Init => Inv
  BY TypeInit DEF Init, CheckedIsRecorded
<1>2. Inv /\ [Next]_vars => Inv'
  BY TypeNext, ToldNext
<1>3. Inv => CheckedIsRecorded
  OBVIOUS
<1> QED BY <1>1, <1>2, <1>3, PTL DEF Spec

-----------------------------------------------------------------------------
(***************************************************************************)
(* Which steps write the rest.                                             *)
(***************************************************************************)
\* An upload's writes, its clock and its staging object: the customer, time,
\* the lifecycle rule and the run that promoted it.
LEMMA ClockSteps ==
    ASSUME [Next]_vars
    PROVE  \/ UNCHANGED <<puts, age, staging>>
           \/ \E u \in Uploads : Age(u) \/ Expire(u) \/ \E e \in Etags : Put(u, e)
           \/ \E p \in Promoters : DeleteStaging(p)
<1>1. CASE Customer
  BY <1>1
     DEF Customer, RecordUpload, RecordInspection, InspectHead, PrepareCart,
     PlaceOrder
<1>2. CASE Time
  BY <1>2
     DEF Time, Deliver, RunOut
<1>3. CASE Failure
  BY <1>3
     DEF Failure, ClaimFails, CallFails, RunDies, CopyFails, DropFails,
     MarkErasedFails, PurgeDies, EraseFails, Goto, NextLine, KeepTables,
     OthersKept, PurgeKept
<1>4. ASSUME NEW p \in Promoters, Promote(p)
      PROVE  UNCHANGED <<puts, age, staging>> \/ DeleteStaging(p)
  BY <1>4
     DEF Promote, CopyStaging, Retire, FindSibling, NoSibling, CopySibling,
     MarkPromoted, CheckStaging, ListRetired, KeepRest, KeepTables,
     OthersKept
<1>5. CASE \E h \in Handlers :
          Handle(h) \/ \E o \in Orders : ReceiveOrder(h, o)
  BY <1>4, <1>5
     DEF Promoters, Handle, ClaimLine, EndHandler, ReceiveOrder, KeepRest,
     KeepTables, OthersKept
<1>6. CASE Sweep
  BY <1>4, <1>6
     DEF Promoters, Sweep, StartSweep, GiveUp, ListAbandoned, MarkAbandoned,
     KeepRest, KeepTables, OthersKept
<1>7. CASE \E q \in Purgers : Purge(q)
  BY <1>7
     DEF Purge, StartPurge, MarkErased, EraseObject, PurgeKept
<1>8. CASE UNCHANGED vars
  BY <1>8 DEF vars
<1> QED BY <1>1, <1>2, <1>3, <1>5, <1>6, <1>7, <1>8 DEF Next

\* The claim table is written by claimLine, by the two ends of a promotion,
\* by the sweep that gives up and by the purge.
LEMMA ClaimSteps ==
    ASSUME [Next]_vars
    PROVE  \/ UNCHANGED claim
           \/ \E h \in Handlers, l \in Lines : ClaimLine(h, l)
           \/ \E p \in Promoters : \/ MarkPromoted(p) \/ GiveUp(p)
                                  \/ \E l \in Lines : Retire(p, l)
           \/ \E q \in Purgers : MarkErased(q)
<1>1. CASE Customer
  BY <1>1
     DEF Customer, RecordUpload, Put, RecordInspection, InspectHead,
     PrepareCart, PlaceOrder
<1>2. CASE Time
  BY <1>2
     DEF Time, Age, Expire, Deliver, RunOut
<1>3. CASE Failure
  BY <1>3
     DEF Failure, ClaimFails, CallFails, RunDies, CopyFails, DropFails,
     MarkErasedFails, PurgeDies, EraseFails, Goto, NextLine, KeepTables,
     OthersKept, PurgeKept
<1>4. ASSUME NEW p \in Promoters, Promote(p)
      PROVE  \/ UNCHANGED claim \/ MarkPromoted(p)
             \/ \E l \in Lines : Retire(p, l)
  BY <1>4
     DEF Promote, CopyStaging, FindSibling, NoSibling, CopySibling,
     CheckStaging, DeleteStaging, ListRetired, KeepRest, KeepTables,
     OthersKept
<1>5. CASE \E h \in Handlers :
          Handle(h) \/ \E o \in Orders : ReceiveOrder(h, o)
  BY <1>4, <1>5
     DEF Promoters, Handle, EndHandler, ReceiveOrder, KeepRest, KeepTables,
     OthersKept
<1>6. CASE Sweep
  BY <1>4, <1>6
     DEF Promoters, Sweep, StartSweep, ListAbandoned, MarkAbandoned,
     KeepRest, KeepTables, OthersKept
<1>7. CASE \E q \in Purgers : Purge(q)
  BY <1>7
     DEF Purge, StartPurge, EraseObject, PurgeKept
<1>8. CASE UNCHANGED vars
  BY <1>8 DEF vars
<1> QED BY <1>1, <1>2, <1>3, <1>5, <1>6, <1>7, <1>8 DEF Next

\* Deliveries, and what a purge has in hand.
LEMMA DueSteps ==
    ASSUME [Next]_vars
    PROVE  \/ UNCHANGED <<delivered, purge>>
           \/ \E o \in Orders : Deliver(o) \/ RunOut(o)
           \/ \E q \in Purgers : \/ StartPurge(q) \/ MarkErased(q)
                                \/ MarkErasedFails(q) \/ PurgeDies(q)
                                \/ \E l \in Lines : \/ EraseObject(q, l)
                                                   \/ EraseFails(q, l)
<1>1. CASE Customer
  BY <1>1
     DEF Customer, RecordUpload, Put, RecordInspection, InspectHead,
     PrepareCart, PlaceOrder
<1>2. CASE Time
  BY <1>2
     DEF Time, Age, Expire
<1>3. CASE Failure
  BY <1>3
     DEF Failure, ClaimFails, CallFails, RunDies, CopyFails, DropFails, Goto,
     NextLine, KeepTables, OthersKept, PurgeKept
<1>4. ASSUME NEW p \in Promoters, Promote(p)
      PROVE  UNCHANGED <<delivered, purge>>
  BY <1>4
     DEF Promote, CopyStaging, Retire, FindSibling, NoSibling, CopySibling,
     MarkPromoted, CheckStaging, DeleteStaging, ListRetired, KeepRest,
     KeepTables, OthersKept
<1>5. CASE \E h \in Handlers :
          Handle(h) \/ \E o \in Orders : ReceiveOrder(h, o)
  BY <1>4, <1>5
     DEF Promoters, Handle, ClaimLine, EndHandler, ReceiveOrder, KeepRest,
     KeepTables, OthersKept
<1>6. CASE Sweep
  BY <1>4, <1>6
     DEF Promoters, Sweep, StartSweep, GiveUp, ListAbandoned, MarkAbandoned,
     KeepRest, KeepTables, OthersKept
<1>7. CASE \E q \in Purgers : Purge(q)
  BY <1>7
     DEF Purge, PurgeKept
<1>8. CASE UNCHANGED vars
  BY <1>8 DEF vars
<1> QED BY <1>1, <1>2, <1>3, <1>5, <1>6, <1>7, <1>8 DEF Next

\* A checkout moves by prepare-cart and by completion alone.
LEMMA CartSteps ==
    ASSUME [Next]_vars
    PROVE  \/ UNCHANGED cart
           \/ \E o \in Orders : PrepareCart(o) \/ PlaceOrder(o)
<1>1. CASE Customer
  BY <1>1
     DEF Customer, RecordUpload, Put, RecordInspection, InspectHead
<1>2. CASE Time
  BY <1>2
     DEF Time, Age, Expire, Deliver, RunOut
<1>3. CASE Failure
  BY <1>3
     DEF Failure, ClaimFails, CallFails, RunDies, CopyFails, DropFails,
     MarkErasedFails, PurgeDies, EraseFails, Goto, NextLine, KeepTables,
     OthersKept, PurgeKept
<1>4. ASSUME NEW p \in Promoters, Promote(p)
      PROVE  UNCHANGED cart
  BY <1>4
     DEF Promote, CopyStaging, Retire, FindSibling, NoSibling, CopySibling,
     MarkPromoted, CheckStaging, DeleteStaging, ListRetired, KeepRest,
     KeepTables, OthersKept
<1>5. CASE \E h \in Handlers :
          Handle(h) \/ \E o \in Orders : ReceiveOrder(h, o)
  BY <1>4, <1>5
     DEF Promoters, Handle, ClaimLine, EndHandler, ReceiveOrder, KeepRest,
     KeepTables, OthersKept
<1>6. CASE Sweep
  BY <1>4, <1>6
     DEF Promoters, Sweep, StartSweep, GiveUp, ListAbandoned, MarkAbandoned,
     KeepRest, KeepTables, OthersKept
<1>7. CASE \E q \in Purgers : Purge(q)
  BY <1>7
     DEF Purge, StartPurge, MarkErased, EraseObject, PurgeKept
<1>8. CASE UNCHANGED vars
  BY <1>8 DEF vars
<1> QED BY <1>1, <1>2, <1>3, <1>5, <1>6, <1>7, <1>8 DEF Next

\* A run moves by its own steps alone.
LEMMA RunMoves ==
    ASSUME TypeInv, [Next]_vars, NEW p \in Promoters
    PROVE  \/ pc'[p] = pc[p] /\ mem'[p] = mem[p]
           \/ Promote(p) \/ GiveUp(p) \/ EndHandler(p)
           \/ CallFails(p) \/ RunDies(p)
           \/ \E l \in Lines : ClaimLine(p, l) \/ ClaimFails(p, l) \/ CopyFails(p, l)
           \/ \E o \in Orders : ReceiveOrder(p, o)
           \/ /\ p = Sweeper
              /\ \/ StartSweep \/ ListAbandoned
                 \/ \E u \in Uploads : MarkAbandoned(u) \/ DropFails(u)
<1> DEFINE Still == pc'[p] = pc[p] /\ mem'[p] = mem[p]
<1>0. pc \in [Promoters -> Steps] /\ mem \in [Promoters -> Locals]
  BY DEF TypeInv, TypeOK
<1>1. CASE Customer
  BY <1>1 DEF Customer, RecordUpload, Put, RecordInspection, InspectHead,
     PrepareCart, PlaceOrder
<1>2. CASE Time
  BY <1>2 DEF Time, Age, Expire, Deliver, RunOut
<1>3. CASE Failure
  <2>1. ASSUME NEW r \in Promoters \ {p}, NEW l \in Lines,
               ClaimFails(r, l) \/ CopyFails(r, l)
        PROVE  Still
    BY <1>0, <2>1 DEF ClaimFails, CopyFails, Goto
  <2>2. ASSUME NEW u \in Uploads, DropFails(u), p # Sweeper PROVE Still
    BY <1>0, <2>2 DEF DropFails, Goto
  <2>3. ASSUME NEW r \in Promoters \ {p}, CallFails(r) \/ RunDies(r)
        PROVE  Still
    BY <1>0, <2>3 DEF CallFails, RunDies, Goto, NextLine
  <2>4. ASSUME NEW q \in Purgers, NEW l \in Lines, EraseFails(q, l)
        PROVE  Still
    BY <2>4 DEF EraseFails, PurgeKept
  <2>5. ASSUME NEW q \in Purgers, MarkErasedFails(q) \/ PurgeDies(q)
        PROVE  Still
    BY <2>5 DEF MarkErasedFails, PurgeDies, PurgeKept
  <2> HIDE DEF Still
  <2>6. CASE Still
    BY <2>6 DEF Still
  <2> QED BY <1>3, <2>1, <2>2, <2>3, <2>4, <2>5, <2>6 DEF Failure, Promoters
<1>4. ASSUME NEW r \in Promoters \ {p}, Promote(r) PROVE Still
  <2>1. ASSUME NEW l \in Lines, CopyStaging(r, l) \/ Retire(r, l) PROVE Still
    BY <1>0, <2>1 DEF CopyStaging, Retire, Goto, NextLine
  <2>2. CASE FindSibling(r) \/ NoSibling(r) \/ CopySibling(r)
    BY <1>0, <2>2 DEF FindSibling, NoSibling, CopySibling, Goto, NextLine
  <2>3. CASE MarkPromoted(r) \/ CheckStaging(r)
    BY <1>0, <2>3 DEF MarkPromoted, CheckStaging, Goto, NextLine
  <2>4. CASE DeleteStaging(r) \/ ListRetired(r)
    BY <1>0, <2>4 DEF DeleteStaging, ListRetired, Goto, NextLine
  <2> QED BY <1>4, <2>1, <2>2, <2>3, <2>4 DEF Promote
<1>5. ASSUME NEW h \in Handlers, h # p,
             \/ Handle(h) \/ \E o \in Orders : ReceiveOrder(h, o)
      PROVE  Still
  <2>1. ASSUME NEW l \in Lines, ClaimLine(h, l) PROVE Still
    BY <1>0, <1>5, <2>1 DEF ClaimLine, Goto
  <2>2. CASE EndHandler(h) \/ \E o \in Orders : ReceiveOrder(h, o)
    BY <1>0, <1>5, <2>2 DEF EndHandler, ReceiveOrder, Goto
  <2> QED BY <1>4, <1>5, <2>1, <2>2 DEF Handle, Promoters
<1>6. ASSUME Sweep, p # Sweeper PROVE Still
  <2>1. CASE StartSweep \/ GiveUp(Sweeper) \/ ListAbandoned
    BY <1>0, <1>6, <2>1 DEF StartSweep, GiveUp, ListAbandoned, Goto, NextLine
  <2>2. ASSUME NEW u \in Uploads, MarkAbandoned(u) PROVE Still
    BY <1>0, <1>6, <2>2 DEF MarkAbandoned, Goto
  <2> QED BY <1>4, <1>6, <2>1, <2>2 DEF Sweep, Promoters
<1>7. CASE \E q \in Purgers : Purge(q)
  BY <1>7 DEF Purge, StartPurge, MarkErased, EraseObject, PurgeKept
<1>8. CASE UNCHANGED vars
  BY <1>8 DEF vars
<1>9. CASE \E h \in Handlers :
          Handle(h) \/ \E o \in Orders : ReceiveOrder(h, o)
  <2> HIDE DEF Still
  <2>1. CASE Still
    BY <2>1 DEF Still
  <2> QED BY <1>5, <1>9, <2>1 DEF Handle
<1>10. CASE Sweep
  <2> HIDE DEF Still
  <2>1. CASE Still
    BY <2>1 DEF Still
  <2> QED BY <1>6, <1>10, <2>1 DEF Sweep
<1> QED BY <1>1, <1>2, <1>3, <1>7, <1>8, <1>9, <1>10 DEF Next

-----------------------------------------------------------------------------
(***************************************************************************)
(* Claimed artwork is kept while the staging window is open.               *)
(***************************************************************************)
\* No write of an upload is undone and no clock goes back.
LEMMA ClocksGrow ==
    ASSUME TypeInv, [Next]_vars, NEW u \in Uploads
    PROVE  /\ puts[u] \in Nat /\ puts'[u] \in Nat /\ puts[u] <= puts'[u]
           /\ age[u] \in Nat /\ age'[u] \in Nat /\ age[u] <= age'[u]
<1>1. /\ puts \in [Uploads -> Nat] /\ age \in [Uploads -> Nat]
      /\ puts' \in [Uploads -> Nat] /\ age' \in [Uploads -> Nat]
  <2>1. TypeInv'
    BY TypeNext
  <2>2. /\ puts \in [Uploads -> 0..MaxPuts]
        /\ puts' \in [Uploads -> 0..MaxPuts]
        /\ age \in [Uploads -> 0..3] /\ age' \in [Uploads -> 0..3]
    BY <2>1 DEF TypeInv, TypeOK, CheckoutWindow, FallbackClosed
  <2>3. 0..MaxPuts \subseteq Nat /\ 0..3 \subseteq Nat
    BY BoundsAssumption
  <2> QED BY <2>2, <2>3
<1>2. ASSUME NEW v \in Uploads, NEW e \in Etags, Put(v, e)
      PROVE  puts[u] <= puts'[u] /\ age[u] <= age'[u]
  BY <1>1, <1>2 DEF Put
<1>3. ASSUME NEW v \in Uploads, Age(v) \/ Expire(v)
      PROVE  puts[u] <= puts'[u] /\ age[u] <= age'[u]
  BY <1>1, <1>3 DEF Age, Expire
<1>4. ASSUME NEW p \in Promoters, DeleteStaging(p)
      PROVE  puts[u] <= puts'[u] /\ age[u] <= age'[u]
  BY <1>1, <1>4 DEF DeleteStaging, KeepRest, OthersKept
<1> QED BY <1>1, <1>2, <1>3, <1>4, ClockSteps

\* A claimed upload was written before: it was open if it is.
LEMMA OpenWas ==
    ASSUME TypeInv, OneFileEach, [Next]_vars, NEW u \in Uploads,
           asset[u].inspected # None, Open(u)'
    PROVE  Open(u)
BY ClocksGrow DEF OneFileEach, Open, StagingClosed

\* A claim stays a claim, and a promoted one stays promoted.
LEMMA ClaimGoesOn ==
    ASSUME TypeInv, [Next]_vars, NEW l \in Claimed
    PROVE  l \in Claimed' /\ (claim[l].promoted => claim'[l].promoted)
<1>1. /\ claim \in [Lines -> Claims \cup {NoClaim}]
      /\ claim[l] \in Claims /\ l \in Lines
  BY DEF TypeInv, TypeOK, Claimed
<1>2. \A c \in Claims : c # NoClaim
  BY ShapeAssumption DEF Claims, NoClaim
<1>3. claim'[l] \in Claims /\ (claim[l].promoted => claim'[l].promoted)
  <2>1. CASE UNCHANGED claim
    BY <1>1, <2>1
  <2>2. ASSUME NEW h \in Handlers, NEW k \in Lines, ClaimLine(h, k)
        PROVE  claim'[l] = claim[l]
    BY <1>1, <2>2 DEF ClaimLine, Claimed
  <2>3. ASSUME NEW p \in Promoters, MarkPromoted(p)
        PROVE  claim'[l] \in {claim[l], [claim[l] EXCEPT !.promoted = TRUE]}
    BY <1>1, <2>3 DEF MarkPromoted
  <2>4. ASSUME NEW p \in Promoters, NEW k \in Lines, GiveUp(p) \/ Retire(p, k)
        PROVE  \E r \in Reasons :
                   claim'[l] \in {claim[l], [claim[l] EXCEPT !.purged = r]}
    BY <1>1, <2>4 DEF GiveUp, Retire, Reasons
  <2>5. ASSUME NEW q \in Purgers, MarkErased(q)
        PROVE  \E r \in Reasons :
                   claim'[l] \in {claim[l], [claim[l] EXCEPT !.purged = r]}
    BY <1>1, <2>5 DEF MarkErased, Reasons
  <2>6. /\ [claim[l] EXCEPT !.promoted = TRUE] \in Claims
        /\ [claim[l] EXCEPT !.promoted = TRUE].promoted
        /\ \A r \in Reasons :
              /\ [claim[l] EXCEPT !.purged = r] \in Claims
              /\ [claim[l] EXCEPT !.purged = r].promoted = claim[l].promoted
    BY <1>1 DEF Claims
  <2>7. ASSUME NEW p \in Promoters, GiveUp(p)
        PROVE  \E r \in Reasons :
                   claim'[l] \in {claim[l], [claim[l] EXCEPT !.purged = r]}
    BY <1>1, <2>4, <2>7
  <2> QED BY <1>1, <2>1, <2>2, <2>3, <2>4, <2>5, <2>6, <2>7, ClaimSteps
<1> QED BY <1>1, <1>2, <1>3 DEF Claimed

\* Marks on an open upload: no reason to close a claim is at hand.
LEMMA OpenStays ==
    ASSUME TypeInv, KeepInv, [Next]_vars, NEW l \in Claimed, Open(UploadOf[l])
    PROVE  claim'[l].purged = None
<1>1. /\ claim \in [Lines -> Claims \cup {NoClaim}]
      /\ claim[l] \in Claims /\ l \in Lines /\ UploadOf[l] \in Uploads
  BY ShapeAssumption DEF TypeInv, TypeOK, Claimed
<1>2. claim[l].purged = None
  BY DEF KeepInv, OpenIsKept
<1>3. puts[UploadOf[l]] = 1 /\ ~(age[UploadOf[l]] >= StagingClosed)
  BY <1>1, ClocksGrow DEF Open, StagingClosed
<1>4. ASSUME NEW h \in Handlers, NEW k \in Lines, ClaimLine(h, k)
      PROVE  claim'[l] = claim[l]
  BY <1>1, <1>4 DEF ClaimLine, Claimed
<1>5. ASSUME NEW p \in Promoters, MarkPromoted(p)
      PROVE  claim'[l] \in {claim[l], [claim[l] EXCEPT !.promoted = TRUE]}
  BY <1>1, <1>5 DEF MarkPromoted
<1>6. [claim[l] EXCEPT !.promoted = TRUE].purged = None
  BY <1>1, <1>2 DEF Claims
<1>7. ASSUME NEW p \in Promoters, NEW k \in Lines, Retire(p, k)
      PROVE  claim'[l] = claim[l]
  <2>1. l # k
    BY <1>3, <1>7 DEF Retire, KeepInv, MarksDeserved, Deserves
  <2> QED BY <1>7, <2>1, <1>1 DEF Retire
<1>8. ASSUME NEW p \in Promoters, GiveUp(p)
      PROVE  claim'[l] = claim[l]
  <2>1. l # mem[p].line
    BY <1>3, <1>8 DEF GiveUp, KeepInv, MarksDeserved, Deserves
  <2> QED BY <1>8, <2>1, <1>1 DEF GiveUp
<1>9. ASSUME NEW q \in Purgers, MarkErased(q)
      PROVE  claim'[l] = claim[l]
  <2>1. l # purge[q].erased
    BY <1>3, <1>9 DEF MarkErased, KeepInv, DueIsClosed
  <2> QED BY <1>9, <2>1, <1>1 DEF MarkErased
<1> QED BY <1>2, <1>4, <1>5, <1>6, <1>7, <1>8, <1>9, ClaimSteps

\* The copy of an open upload stays where it is: no purge has it in hand.
LEMMA CopyStays ==
    ASSUME TypeInv, KeepInv, [Next]_vars, NEW l \in Lines, Open(UploadOf[l]),
           filed[l] # None
    PROVE  filed'[l] # None
<1>1. /\ filed \in [Lines -> Etags \cup {None}] /\ UploadOf[l] \in Uploads
  BY ShapeAssumption DEF TypeInv, TypeOK
<1>2. ASSUME NEW p \in Promoters, NEW k \in Lines, CopyStaging(p, k)
      PROVE  filed'[l] # None
  BY <1>1, <1>2 DEF CopyStaging
<1>3. ASSUME NEW p \in Promoters, CopySibling(p) PROVE filed'[l] # None
  BY <1>1, <1>3 DEF CopySibling
<1>4. ASSUME NEW q \in Purgers, NEW k \in Lines, EraseObject(q, k)
      PROVE  filed'[l] # None
  <2>1. age[UploadOf[k]] >= StagingClosed
    BY <1>4 DEF EraseObject, KeepInv, DueIsClosed
  <2>2. k # l
    BY <2>1, <1>1, ClocksGrow DEF Open, StagingClosed
  <2> QED BY <1>1, <1>4, <2>2 DEF EraseObject
<1> QED BY <1>2, <1>3, <1>4, FiledSteps

\* An upload written once stays one file.
LEMMA OneFileNext ==
    ASSUME TypeInv, OneFileEach, [Next]_vars
    PROVE  OneFileEach'
<1>1. /\ staging \in [Uploads -> Etags \cup {None}]
      /\ puts \in [Uploads -> 0..MaxPuts] /\ 0..MaxPuts \subseteq Nat
      /\ asset \in [Uploads -> [recorded : BOOLEAN, purged : BOOLEAN,
                                inspected : Printable \cup {None}]]
      /\ seen \in [Inspectors -> [upload : Uploads, etag : Printable] \cup {Away}]
      /\ None \notin Uploads \cup Etags
      /\ Printable \subseteq Etags
  BY ShapeAssumption, BoundsAssumption DEF TypeInv, TypeOK
<1> DEFINE One(u) ==
    /\ puts[u] = 0 => /\ staging[u] = None /\ asset[u].inspected = None
                      /\ \A i \in Inspectors : seen[i].upload # u
    /\ puts[u] = 1 => \E e \in Etags :
          /\ staging[u] \in {None, e} /\ asset[u].inspected \in {None, e}
          /\ \A i \in Inspectors : seen[i].upload = u => seen[i].etag = e
<1>2. SUFFICES ASSUME NEW u \in Uploads PROVE One(u)'
  BY DEF OneFileEach
<1>3. One(u)
  BY DEF OneFileEach
<1>4. ASSUME UNCHANGED <<staging, puts, seen>>,
             asset'[u].inspected = asset[u].inspected
      PROVE  One(u)'
  BY <1>3, <1>4
<1>5. ASSUME NEW v \in Uploads, RecordUpload(v) \/ MarkAbandoned(v)
      PROVE  One(u)'
  <2>1. asset'[u].inspected = asset[u].inspected
    BY <1>1, <1>5 DEF RecordUpload, MarkAbandoned
  <2> QED BY <1>4, <1>5, <2>1
          DEF RecordUpload, MarkAbandoned, KeepRest, OthersKept
<1>6. ASSUME NEW i \in Inspectors, RecordInspection(i) PROVE One(u)'
  <2>1. /\ seen' = [seen EXCEPT ![i] = Away] /\ UNCHANGED <<staging, puts>>
        /\ seen[i].upload # None
    BY <1>6 DEF RecordInspection
  <2>2. \A j \in Inspectors : seen'[j].upload = u => seen'[j] = seen[j]
    BY <1>1, <2>1 DEF Away
  <2>3. asset'[u].inspected \in
            {asset[u].inspected} \cup {e \in {seen[i].etag} : seen[i].upload = u}
    BY <1>1, <1>6 DEF RecordInspection
  <2> QED BY <1>1, <1>3, <2>1, <2>2, <2>3
<1>7. ASSUME NEW i \in Inspectors, NEW v \in Uploads, InspectHead(i, v)
      PROVE  One(u)'
  <2>1. /\ UNCHANGED <<staging, puts, asset>> /\ staging[v] \in Printable
        /\ seen' \in {seen,
               [seen EXCEPT ![i] = [upload |-> v, etag |-> staging[v]]]}
    BY <1>1, <1>7 DEF InspectHead, inspectArtworkBytes
  <2>2. CASE seen' = seen
    BY <1>4, <2>1, <2>2
  <2>3. CASE seen' = [seen EXCEPT ![i] = [upload |-> v, etag |-> staging[v]]]
    <3>1. CASE u = v
      BY <1>1, <1>3, <2>1, <2>3, <3>1
    <3>2. CASE u # v
      <4>1. \A j \in Inspectors : seen'[j].upload = u => seen'[j] = seen[j]
        BY <1>1, <2>3, <3>2
      <4> QED BY <1>3, <2>1, <4>1
    <3> QED BY <3>1, <3>2
  <2> QED BY <2>1, <2>2, <2>3
<1>8. ASSUME NEW v \in Uploads, NEW e \in Etags, Put(v, e) PROVE One(u)'
  <2>1. /\ staging' = [staging EXCEPT ![v] = e]
        /\ puts' = [puts EXCEPT ![v] = @ + 1] /\ UNCHANGED <<asset, seen>>
    BY <1>8 DEF Put
  <2>2. CASE u # v
    <3>1. staging'[u] = staging[u] /\ puts'[u] = puts[u]
      BY <1>1, <2>1, <2>2
    <3> QED BY <1>3, <2>1, <3>1
  <2>3. CASE u = v
    <3>1. staging'[u] = e /\ puts'[u] = puts[u] + 1 /\ puts[u] \in Nat
      BY <1>1, <2>1, <2>3
    <3>2. CASE puts[u] = 0
      BY <1>3, <2>1, <3>1, <3>2
    <3>3. CASE puts[u] # 0
      BY <3>1, <3>3
    <3> QED BY <3>2, <3>3
  <2> QED BY <2>2, <2>3
<1>9. ASSUME staging' \in [Uploads -> Etags \cup {None}],
             staging'[u] \in {staging[u], None}, UNCHANGED <<puts, asset, seen>>
      PROVE  One(u)'
  BY <1>3, <1>9
<1>10. ASSUME NEW v \in Uploads, Age(v) \/ Expire(v) PROVE One(u)'
  BY <1>1, <1>9, <1>10 DEF Age, Expire
<1>11. ASSUME NEW p \in Promoters, DeleteStaging(p) PROVE One(u)'
  BY <1>1, <1>9, <1>11 DEF DeleteStaging, KeepRest, OthersKept
<1> HIDE DEF One
<1>12. CASE UNCHANGED <<staging, puts, asset, seen>>
  BY <1>4, <1>12
<1> QED BY <1>5, <1>6, <1>7, <1>8, <1>10, <1>11, <1>12, AssetSteps, ToldSteps,
           ClockSteps

\* What is ordered, and what is claimed of it, was inspected: the ledger check
\* asks for it, and the record is kept.
LEMMA OrderedNext ==
    ASSUME TypeInv, KeepInv, [Next]_vars
    PROVE  OrderedIsInspected'
<1>1. /\ UploadOf \in [Lines -> Uploads]
      /\ claim \in [Lines -> Claims \cup {NoClaim}]
      /\ cart \in [Orders -> {"open", "prepared", "placed"}]
  BY ShapeAssumption DEF TypeInv, TypeOK
<1>2. ASSUME NEW o \in Orders, cart'[o] # "open", NEW l \in LinesOf(o)
      PROVE  asset'[UploadOf[l]].inspected # None
  <2>1. UploadOf[l] \in Uploads
    BY <1>1 DEF LinesOf
  <2>2. asset[UploadOf[l]].inspected # None
    <3>1. CASE cart[o] # "open"
      BY <3>1 DEF KeepInv, OrderedIsInspected
    <3>2. CASE cart[o] = "open"
      <4>1. ASSUME NEW k \in Orders, PrepareCart(k)
            PROVE  asset[UploadOf[l]].inspected # None
        BY <1>1, <1>2, <3>2, <4>1 DEF PrepareCart, InLedger
      <4>2. ASSUME NEW k \in Orders, PlaceOrder(k) PROVE FALSE
        BY <1>1, <1>2, <3>2, <4>2 DEF PlaceOrder
      <4> QED BY <1>2, <3>2, <4>1, <4>2, CartSteps
    <3> QED BY <3>1, <3>2
  <2> QED BY <2>1, <2>2, InspectedOnce
<1>3. ASSUME NEW l \in Claimed' PROVE asset'[UploadOf[l]].inspected # None
  <2>1. l \in Lines /\ UploadOf[l] \in Uploads
    BY <1>1 DEF Claimed
  <2>2. asset[UploadOf[l]].inspected # None
    <3>1. CASE l \in Claimed
      BY <3>1 DEF KeepInv, OrderedIsInspected
    <3>2. CASE l \notin Claimed
      <4>1. ASSUME NEW h \in Handlers, NEW k \in Lines, ClaimLine(h, k)
            PROVE  asset[UploadOf[l]].inspected # None
        <5>1. k = l
          BY <1>1, <2>1, <3>2, <4>1 DEF ClaimLine, Claimed
        <5> QED BY <4>1, <5>1
                DEF ClaimLine, KeepInv, MarksDeserved, Deserves, Promoters
      <4>2. ASSUME NEW p \in Promoters,
                   MarkPromoted(p) \/ GiveUp(p) \/ \E k \in Lines : Retire(p, k)
            PROVE  FALSE
        <5>1. Fits(pc[p], mem[p])
          BY DEF TypeInv, RunsFit
        <5>2. /\ pc[p] \in {"mark", "giveUp"} => mem[p].line # l
              /\ l \notin mem[p].retired
          BY <3>2, <5>1 DEF Fits, LineSteps, Steps
        <5>3. claim'[l] = claim[l]
          BY <1>1, <2>1, <4>2, <5>2 DEF MarkPromoted, GiveUp, Retire
        <5> QED BY <1>3, <3>2, <5>3 DEF Claimed
      <4>3. ASSUME NEW q \in Purgers, MarkErased(q) PROVE FALSE
        <5>1. purge[q].erased # l
          BY <3>2, <4>3 DEF MarkErased, TypeInv, PurgesFit
        <5>2. claim'[l] = claim[l]
          BY <1>1, <2>1, <4>3, <5>1 DEF MarkErased
        <5> QED BY <1>3, <3>2, <5>2 DEF Claimed
      <4>4. CASE UNCHANGED claim
        BY <1>3, <3>2, <4>4 DEF Claimed
      <4> QED BY <4>1, <4>2, <4>3, <4>4, ClaimSteps
    <3> QED BY <3>1, <3>2
  <2> QED BY <2>1, <2>2, InspectedOnce
<1> QED BY <1>2, <1>3 DEF OrderedIsInspected

\* Nothing is due for deletion before its staging window closed.
LEMMA DueNext ==
    ASSUME TypeInv, KeepInv, [Next]_vars
    PROVE  DueIsClosed'
<1>1. /\ UploadOf \in [Lines -> Uploads] /\ OrderOf \in [Lines -> Orders]
      /\ delivered \in [Orders -> Deliveries]
      /\ purge \in [Purgers -> [due : SUBSET Lines, erased : Lines \cup {None}]]
      /\ None \notin Lines
  BY ShapeAssumption DEF TypeInv, TypeOK
<1> DEFINE Closed(l) == age[UploadOf[l]] >= StagingClosed
<1>2. ASSUME NEW l \in Lines, Closed(l) PROVE Closed(l)'
  BY <1>1, <1>2, ClocksGrow DEF StagingClosed
<1>3. /\ \A o \in Orders : delivered[o] = "long" => \A l \in LinesOf(o) : Closed(l)
      /\ \A q \in Purgers : /\ \A l \in purge[q].due : Closed(l)
                            /\ purge[q].erased # None => Closed(purge[q].erased)
  BY DEF KeepInv, DueIsClosed
<1>4. ASSUME NEW o \in Orders, delivered'[o] = "long", NEW l \in LinesOf(o)
      PROVE  Closed(l)
  <2>1. CASE delivered[o] = "long"
    BY <1>3, <2>1
  <2>2. CASE delivered[o] # "long"
    <3>1. ASSUME NEW k \in Orders, Deliver(k) PROVE FALSE
      BY <1>1, <1>4, <2>2, <3>1 DEF Deliver
    <3>2. ASSUME NEW k \in Orders, RunOut(k) PROVE Closed(l)
      BY <1>1, <1>4, <2>2, <3>2 DEF RunOut
    <3>3. ASSUME NEW q \in Purgers, NEW k \in Lines,
                 \/ StartPurge(q) \/ MarkErased(q) \/ MarkErasedFails(q)
                 \/ PurgeDies(q) \/ EraseObject(q, k) \/ EraseFails(q, k)
          PROVE  FALSE
      BY <1>4, <2>2, <3>3 DEF StartPurge, MarkErased, MarkErasedFails,
         PurgeDies, EraseObject, EraseFails, PurgeKept
    <3> HIDE DEF Closed
    <3>4. LinesOf(o) \subseteq Lines
      BY DEF LinesOf
    <3> QED BY <1>4, <2>2, <3>1, <3>2, <3>3, <3>4, DueSteps
  <2> QED BY <2>1, <2>2
<1>5. ASSUME NEW q \in Purgers
      PROVE  /\ \A l \in purge'[q].due : Closed(l)
             /\ purge'[q].erased # None => Closed(purge'[q].erased)
  <2> DEFINE Goal == /\ \A l \in purge'[q].due : Closed(l)
                     /\ purge'[q].erased # None => Closed(purge'[q].erased)
  <2>1. CASE purge'[q] = purge[q]
    BY <1>3, <2>1
  <2>2. ASSUME NEW r \in Purgers, StartPurge(r) PROVE Goal
    <3>1. purge' = [purge EXCEPT ![r].due = {l \in Lines : Download(l)
          /\ Due(l)}]
      BY <2>2 DEF StartPurge
    <3>2. \A l \in Lines : Due(l) => Closed(l)
      BY <1>1, <1>3 DEF Due, LinesOf, StagingClosed, FallbackClosed
    <3> QED BY <1>1, <1>3, <3>1, <3>2
  <2>3. ASSUME NEW r \in Purgers, NEW k \in Lines, EraseObject(r, k) PROVE Goal
    <3>1. /\ purge' = [purge EXCEPT ![r] = [due |-> @.due \ {k}, erased |-> k]]
          /\ k \in purge[r].due
      BY <2>3 DEF EraseObject
    <3> QED BY <1>1, <1>3, <3>1
  <2>4. ASSUME NEW r \in Purgers, NEW k \in Lines, EraseFails(r, k) PROVE Goal
    <3>1. purge' = [purge EXCEPT ![r].due = @ \ {k}]
      BY <2>4 DEF EraseFails
    <3> QED BY <1>1, <1>3, <3>1
  <2>5. ASSUME NEW r \in Purgers, MarkErased(r) \/ MarkErasedFails(r) PROVE Goal
    <3>1. purge' = [purge EXCEPT ![r].erased = None]
      BY <2>5 DEF MarkErased, MarkErasedFails
    <3> QED BY <1>1, <1>3, <3>1
  <2>6. ASSUME NEW r \in Purgers, PurgeDies(r) PROVE Goal
    <3>1. purge' = [purge EXCEPT ![r] = [due |-> {}, erased |-> None]]
      BY <2>6 DEF PurgeDies, Rest
    <3> QED BY <1>1, <1>3, <3>1
  <2>7. ASSUME NEW o \in Orders, Deliver(o) \/ RunOut(o) PROVE Goal
    BY <2>1, <2>7 DEF Deliver, RunOut
  <2>8. ASSUME UNCHANGED <<delivered, purge>> PROVE Goal
    BY <2>1, <2>8
  <2> HIDE DEF Goal
  <2>9. Goal
    BY <2>2, <2>3, <2>4, <2>5, <2>6, <2>7, <2>8, DueSteps
  <2> QED BY <2>9 DEF Goal
<1>6. ASSUME NEW l, Closed(l), l \in Lines PROVE Closed(l)'
  BY <1>2, <1>6
<1>7. purge' \in [Purgers -> [due : SUBSET Lines, erased : Lines \cup {None}]]
  BY TypeNext DEF TypeInv, TypeOK
<1>8. \A o \in Orders : LinesOf(o) \subseteq Lines /\ LinesOf(o)' = LinesOf(o)
  BY DEF LinesOf
<1>9. \A o \in Orders : delivered'[o] = "long" => \A l \in LinesOf(o) : Closed(l)'
  BY <1>2, <1>4, <1>8
<1>10. \A q \in Purgers : /\ \A l \in purge'[q].due : Closed(l)'
                          /\ purge'[q].erased # None => age'[UploadOf[purge'[q].erased]] >= StagingClosed
  <2> TAKE q \in Purgers
  <2>1. \A l \in purge'[q].due : Closed(l)'
    BY <1>2, <1>5, <1>7
  <2>2. ASSUME purge'[q].erased # None
        PROVE  age'[UploadOf[purge'[q].erased]] >= StagingClosed
    <3>1. PICK l \in Lines : l = purge'[q].erased
      BY <1>7, <2>2
    <3>2. Closed(l)
      BY <1>5, <2>2, <3>1
    <3> QED BY <1>2, <3>1, <3>2
  <2> QED BY <2>1, <2>2
<1> QED BY <1>8, <1>9, <1>10 DEF DueIsClosed

\* What a run in hand deserves it goes on deserving, whatever others do.
LEMMA DeservesStays ==
    ASSUME TypeInv, KeepInv, [Next]_vars, NEW s \in Steps, NEW m \in Locals,
           Fits(s, m), Deserves(s, m)
    PROVE  Deserves(s, m)'
<1>1. /\ UploadOf \in [Lines -> Uploads] /\ Claimed \subseteq Lines
      /\ m.past \subseteq Uploads /\ m.retired \subseteq Lines
      /\ m.unclaimed \subseteq Lines
  BY ShapeAssumption DEF Locals, Claimed
<1>2. s \in LineSteps => m.line \in Claimed /\ m.line \in Lines
                         /\ UploadOf[m.line] \in Uploads
  BY <1>1 DEF Fits
<1>3. \A u \in m.past : age'[u] >= StagingClosed
  BY <1>1, ClocksGrow DEF Deserves, StagingClosed
<1>4. \A l \in m.retired : puts'[UploadOf[l]] > 1
  BY <1>1, ClocksGrow DEF Deserves
<1>5. \A l \in m.unclaimed : asset'[UploadOf[l]].inspected # None
  <2> TAKE l \in m.unclaimed
  <2>1. UploadOf[l] \in Uploads /\ asset[UploadOf[l]].inspected # None
    BY <1>1 DEF Deserves
  <2> QED BY <2>1, InspectedOnce
<1>6. \/ s = "siblings" /\ m.changed
      \/ s = "listRetired"
      => puts'[UploadOf[m.line]] > 1
  BY <1>2, ClocksGrow DEF Deserves, LineSteps, Steps
<1>7. ASSUME s = "mark", Open(UploadOf[m.line])' PROVE filed'[m.line] # None
  <2>1. /\ m.line \in Claimed /\ m.line \in Lines
        /\ UploadOf[m.line] \in Uploads
        /\ asset[UploadOf[m.line]].inspected # None
    BY <1>2, <1>7 DEF LineSteps, Steps, KeepInv, OrderedIsInspected
  <2>2. Open(UploadOf[m.line])
    BY <1>7, <2>1, OpenWas DEF KeepInv
  <2> QED BY <1>7, <2>1, <2>2, CopyStays DEF Deserves
<1>8. s \in {"tidy", "delete"} => claim'[m.line].promoted
  BY <1>2, ClaimGoesOn DEF Deserves, LineSteps, Steps
<1> QED BY <1>3, <1>4, <1>5, <1>6, <1>7, <1>8 DEF Deserves

\* A run that moves to step s with locals m, deserved before the step, goes on
\* deserving them after it.
LEMMA DeservesMoves ==
    ASSUME TypeInv, KeepInv, [Next]_vars, NEW p \in Promoters,
           Fits(pc'[p], mem'[p]), Deserves(pc'[p], mem'[p])
    PROVE  Deserves(pc[p], mem[p])'
<1>1. pc'[p] \in Steps /\ mem'[p] \in Locals
  BY TypeNext DEF TypeInv, TypeOK
<1>2. PICK s \in Steps, m \in Locals : s = pc'[p] /\ m = mem'[p]
  BY <1>1
<1>3. Deserves(s, m)'
  BY <1>2, DeservesStays
<1> QED BY <1>2, <1>3 DEF Deserves

\* A run done with its line deserves what it keeps.
LEMMA DeservesNextLine ==
    ASSUME TypeInv, KeepInv, [Next]_vars, NEW p \in Promoters, NextLine(p)
    PROVE  Deserves(pc[p], mem[p])'
<1>1. /\ pc \in [Promoters -> Steps] /\ mem \in [Promoters -> Locals]
      /\ mem[p] \in Locals
      /\ Fits(pc[p], mem[p]) /\ Deserves(pc[p], mem[p])
  BY DEF TypeInv, TypeOK, RunsFit, KeepInv, MarksDeserved
<1>2. /\ pc'[p] = "next"
      /\ mem'[p] = [mem[p] EXCEPT !.line = None, !.source = None,
                                  !.changed = FALSE, !.retired = {}]
  BY <1>1 DEF NextLine, Goto
<1>3. /\ mem'[p].past = mem[p].past /\ mem'[p].retired = {}
      /\ mem'[p].unclaimed = mem[p].unclaimed /\ mem'[p].todo = mem[p].todo
  BY <1>1, <1>2 DEF Locals
<1>4. Deserves(pc'[p], mem'[p])
  BY <1>1, <1>2, <1>3 DEF Deserves
<1>5. Fits(pc'[p], mem'[p])
  BY <1>1, <1>2, <1>3 DEF Fits, LineSteps
<1> QED BY <1>4, <1>5, DeservesMoves

\* Promotion: a run marks only with the copy in place, and retires only what
\* was written again.
LEMMA DeservesPromote ==
    ASSUME TypeInv, KeepInv, [Next]_vars, NEW p \in Promoters, Promote(p)
    PROVE  Deserves(pc[p], mem[p])'
<1>1. /\ pc \in [Promoters -> Steps] /\ mem \in [Promoters -> Locals]
      /\ mem[p] \in Locals /\ UploadOf \in [Lines -> Uploads]
      /\ filed \in [Lines -> Etags \cup {None}] /\ None \notin Etags
      /\ Claimed \subseteq Lines
      /\ Fits(pc[p], mem[p]) /\ Deserves(pc[p], mem[p])
  BY ShapeAssumption
     DEF TypeInv, TypeOK, RunsFit, KeepInv, MarksDeserved, Claimed
<1> DEFINE Goal == Deserves(pc[p], mem[p])'
<1>3. ASSUME NEW l \in Lines, CopyStaging(p, l) PROVE Goal
  <2>1. /\ mem'[p] = [mem[p] EXCEPT !.todo = @ \ {l}, !.line = l,
                          !.changed = staging[UploadOf[l]] # None]
        /\ l \in mem[p].todo
    BY <1>1, <1>3 DEF CopyStaging
  <2>2. /\ mem'[p].past = mem[p].past /\ mem'[p].retired = mem[p].retired
        /\ mem'[p].unclaimed = mem[p].unclaimed /\ mem'[p].line = l
        /\ mem'[p].todo = mem[p].todo \ {l}
        /\ mem'[p].changed = (staging[UploadOf[l]] # None)
    BY <1>1, <2>1 DEF Locals
  <2>3. l \in Claimed /\ UploadOf[l] \in Uploads
    BY <1>1, <2>1 DEF Fits
  <2>4. CASE pc'[p] = "siblings"
    <3>1. ASSUME staging[UploadOf[l]] # None PROVE puts[UploadOf[l]] > 1
      <4>1. /\ staging[UploadOf[l]] # asset[UploadOf[l]].inspected
            /\ asset[UploadOf[l]].inspected # None
        BY <1>1, <1>3, <2>3, <2>4, <3>1
           DEF CopyStaging, Goto, KeepInv, OrderedIsInspected
      <4> QED BY <2>3, <3>1, <4>1, ClocksGrow DEF KeepInv, OneFileEach
    <3>2. Deserves(pc'[p], mem'[p])
      BY <1>1, <2>2, <2>4, <3>1 DEF Deserves
    <3>3. Fits(pc'[p], mem'[p])
      BY <1>1, <2>2, <2>3, <2>4 DEF Fits, LineSteps, Steps
    <3> QED BY <3>2, <3>3, DeservesMoves
  <2>5. CASE pc'[p] = "mark"
    <3>1. filed'[l] # None
      BY <1>1, <1>3, <2>5 DEF CopyStaging, Goto
    <3>2. Deserves("next", mem'[p]) /\ Fits("next", mem'[p])
      BY <1>1, <2>2 DEF Deserves, Fits, LineSteps
    <3>3. PICK m \in Locals : m = mem'[p]
      BY TypeNext DEF TypeInv, TypeOK
    <3>4. Deserves("next", m)'
      BY <3>2, <3>3, DeservesStays DEF Steps
    <3> QED BY <2>2, <2>5, <3>1, <3>3, <3>4 DEF Deserves
  <2> QED BY <1>1, <1>3, <2>4, <2>5 DEF CopyStaging, Goto
<1>4. ASSUME NEW l \in Lines, Retire(p, l) PROVE Goal
  <2>1. CASE mem' = [mem EXCEPT ![p].retired = @ \ {l}] /\ UNCHANGED pc
    <3>1. mem'[p] = [mem[p] EXCEPT !.retired = @ \ {l}] /\ pc'[p] = "retire"
      BY <1>1, <1>4, <2>1 DEF Retire
    <3>2. /\ mem'[p].past = mem[p].past /\ mem'[p].line = mem[p].line
          /\ mem'[p].retired = mem[p].retired \ {l}
          /\ mem'[p].unclaimed = mem[p].unclaimed
          /\ mem'[p].todo = mem[p].todo
      BY <1>1, <3>1 DEF Locals
    <3>3. Deserves(pc'[p], mem'[p])
      BY <1>1, <3>1, <3>2 DEF Deserves
    <3>4. Fits(pc'[p], mem'[p])
      BY <1>1, <1>4, <3>1, <3>2 DEF Retire, Fits, LineSteps, Steps
    <3> QED BY <3>3, <3>4, DeservesMoves
  <2> QED BY <1>4, <2>1, DeservesNextLine DEF Retire
<1>5. ASSUME FindSibling(p) PROVE Goal
  <2>1. PICK k \in SiblingSources(mem[p].line) :
            mem' = [mem EXCEPT ![p].source = k]
    BY <1>5 DEF FindSibling
  <2>2. mem'[p] = [mem[p] EXCEPT !.source = k] /\ pc'[p] = "copySibling"
    BY <1>1, <1>5, <2>1 DEF FindSibling, Goto
  <2>3. /\ mem'[p].past = mem[p].past /\ mem'[p].line = mem[p].line
        /\ mem'[p].retired = mem[p].retired /\ mem'[p].source = k
        /\ mem'[p].unclaimed = mem[p].unclaimed /\ mem'[p].todo = mem[p].todo
    BY <1>1, <2>2 DEF Locals
  <2>4. Deserves(pc'[p], mem'[p])
    BY <1>1, <2>2, <2>3 DEF Deserves
  <2>5. Fits(pc'[p], mem'[p])
    BY <1>1, <1>5, <2>1, <2>2, <2>3
       DEF FindSibling, Fits, LineSteps, Steps, SiblingSources, Siblings
  <2> QED BY <2>4, <2>5, DeservesMoves
<1>6. ASSUME UNCHANGED mem, pc'[p] \in LineSteps \ {"copySibling"},
             pc[p] \in LineSteps, Deserves(pc'[p], mem[p])
      PROVE  Goal
  <2>1. Fits(pc'[p], mem[p]) /\ mem'[p] = mem[p]
    BY <1>1, <1>6 DEF Fits
  <2> QED BY <1>6, <2>1, DeservesMoves
<1>7. ASSUME NoSibling(p) PROVE Goal
  <2>1. CASE mem[p].changed /\ Goto(p, "listRetired") /\ UNCHANGED mem
    BY <1>1, <1>6, <1>7, <2>1 DEF NoSibling, Goto, Deserves, LineSteps, Steps
  <2>2. CASE /\ UploadOf[mem[p].line] \in mem[p].past
             /\ Goto(p, "giveUp") /\ UNCHANGED mem
    BY <1>1, <1>6, <1>7, <2>2 DEF NoSibling, Goto, Deserves, LineSteps, Steps
  <2> QED BY <1>7, <2>1, <2>2, DeservesNextLine DEF NoSibling
<1>8. ASSUME CheckStaging(p) PROVE Goal
  <2>1. CASE Goto(p, "delete") /\ UNCHANGED mem
    BY <1>1, <1>6, <1>8, <2>1
       DEF CheckStaging, Goto, Deserves, LineSteps, Steps
  <2> QED BY <1>8, <2>1, DeservesNextLine DEF CheckStaging
<1>9. ASSUME ListRetired(p) PROVE Goal
  <2>1. CASE ~NextLine(p)
    <3>1. PICK pending \in SUBSET Claimed :
              /\ pending \subseteq Siblings(UploadOf[mem[p].line])
              /\ mem' = [mem EXCEPT ![p].retired = pending]
      BY <1>9, <2>1 DEF ListRetired, Pending
    <3>2. /\ mem'[p] = [mem[p] EXCEPT !.retired = pending]
          /\ pc[p] = "listRetired" /\ pc'[p] = "retire"
      BY <1>1, <1>9, <2>1, <3>1 DEF ListRetired, Goto
    <3>3. /\ mem'[p].past = mem[p].past /\ mem'[p].line = mem[p].line
          /\ mem'[p].retired = pending /\ mem'[p].todo = mem[p].todo
          /\ mem'[p].unclaimed = mem[p].unclaimed
      BY <1>1, <3>2 DEF Locals
    <3>4. Deserves(pc'[p], mem'[p])
      BY <1>1, <3>1, <3>2, <3>3 DEF Deserves, Siblings
    <3>5. Fits(pc'[p], mem'[p])
      BY <1>1, <3>2, <3>3 DEF Fits, LineSteps, Steps
    <3> QED BY <3>4, <3>5, DeservesMoves
  <2> QED BY <1>9, <2>1, DeservesNextLine DEF ListRetired
\* A step that leaves its line to be marked or tidied in the state it made.
<1>10. ASSUME UNCHANGED mem, pc[p] \in LineSteps, NEW t \in {"mark", "tidy"},
              pc'[p] = t, t = "mark" => filed'[mem[p].line] # None,
              t = "tidy" => claim'[mem[p].line].promoted
       PROVE  Goal
  <2>1. Deserves("next", mem[p]) /\ Fits("next", mem[p])
    BY <1>1 DEF Deserves, Fits, LineSteps
  <2>2. PICK m \in Locals : m = mem[p] /\ m = mem'[p]
    BY <1>1, <1>10
  <2>3. Deserves("next", m)'
    BY <2>1, <2>2, DeservesStays DEF Steps
  <2> QED BY <1>10, <2>2, <2>3 DEF Deserves
<1>11. ASSUME CopySibling(p) PROVE Goal
  <2>1. CASE filed[mem[p].source] # None
    <3>1. mem[p].line \in Lines
      BY <1>1, <1>11 DEF CopySibling, Fits, LineSteps, Steps
    <3>2. /\ filed'[mem[p].line] # None /\ pc'[p] = "mark" /\ UNCHANGED mem
          /\ pc[p] \in LineSteps
      BY <1>1, <1>11, <2>1, <3>1 DEF CopySibling, Goto, LineSteps, Steps
    <3> QED BY <1>10, <3>2
  <2> QED BY <1>11, <2>1, DeservesNextLine DEF CopySibling
<1>12. ASSUME MarkPromoted(p) PROVE Goal
  <2>1. CASE Goto(p, "tidy") /\ UNCHANGED mem
    <3>1. mem[p].line \in Claimed /\ mem[p].line \in Lines
      BY <1>1, <1>12 DEF MarkPromoted, Fits, LineSteps, Steps
    <3>2. claim \in [Lines -> Claims \cup {NoClaim}]
          /\ claim[mem[p].line] \in Claims
      BY <3>1 DEF TypeInv, TypeOK, Claimed
    <3>3. claim'[mem[p].line].promoted
      BY <1>12, <3>1, <3>2 DEF MarkPromoted, Claims
    <3>4. pc'[p] = "tidy" /\ pc[p] \in LineSteps
      BY <1>1, <1>12, <2>1 DEF MarkPromoted, Goto, LineSteps, Steps
    <3> QED BY <1>10, <2>1, <3>3, <3>4
  <2> QED BY <1>12, <2>1, DeservesNextLine DEF MarkPromoted
<1>13. ASSUME DeleteStaging(p) PROVE Goal
  BY <1>13, DeservesNextLine DEF DeleteStaging
<1> HIDE DEF Goal
<1>14. Goal
  BY <1>3, <1>4, <1>5, <1>7, <1>8, <1>9, <1>11, <1>12, <1>13 DEF Promote
<1> QED BY <1>14 DEF Goal

\* Every run deserves the marks it is about to make.
LEMMA MarksNext ==
    ASSUME TypeInv, KeepInv, [Next]_vars
    PROVE  MarksDeserved'
<1> SUFFICES ASSUME NEW p \in Promoters PROVE Deserves(pc[p], mem[p])'
  BY DEF MarksDeserved
<1>1. /\ pc \in [Promoters -> Steps] /\ mem \in [Promoters -> Locals]
      /\ mem[p] \in Locals
      /\ Fits(pc[p], mem[p]) /\ Deserves(pc[p], mem[p])
  BY DEF TypeInv, TypeOK, RunsFit, KeepInv, MarksDeserved
<1> DEFINE Goal == Deserves(pc[p], mem[p])'
<1>2. ASSUME pc'[p] = pc[p], mem'[p] = mem[p] PROVE Goal
  BY <1>1, <1>2, DeservesMoves
\* A step that takes up no line, and keeps no more than it had.
<1>3. ASSUME pc'[p] \in {"idle", "claim", "next", "drop"},
             mem'[p].past \subseteq mem[p].past,
             mem'[p].retired \subseteq mem[p].retired,
             mem'[p].unclaimed \subseteq mem[p].unclaimed
      PROVE  Goal
  <2>1. Deserves(pc'[p], mem'[p])
    BY <1>1, <1>3 DEF Deserves
  <2>2. PICK s \in {"idle", "claim", "next", "drop"}, m \in Locals :
            s = pc'[p] /\ m = mem'[p]
    BY <1>3, TypeNext DEF TypeInv, TypeOK
  <2> DEFINE b == [m EXCEPT !.todo = {}, !.retired = {}]
  <2>3. b \in Locals /\ b.past = m.past /\ b.unclaimed = m.unclaimed
        /\ b.todo = {} /\ b.retired = {}
    BY DEF Locals
  <2>4. PICK c \in Locals : /\ c.past = m.past /\ c.unclaimed = m.unclaimed
                            /\ c.todo = {} /\ c.retired = {}
    BY <2>3
  <2>5. Fits(s, c) /\ Deserves(s, c)
    BY <2>1, <2>2, <2>4 DEF Fits, Deserves, LineSteps
  <2>6. Deserves(s, c)'
    BY <2>5, DeservesStays DEF Steps
  <2>7. \A l \in m.retired : puts'[UploadOf[l]] > 1
    <3> TAKE l \in m.retired
    <3>1. UploadOf[l] \in Uploads /\ puts[UploadOf[l]] > 1
      BY <2>1, <2>2, ShapeAssumption DEF Deserves, Locals
    <3> QED BY <3>1, ClocksGrow
  <2> QED BY <2>2, <2>4, <2>6, <2>7 DEF Deserves
<1>4. ASSUME EndHandler(p) \/ RunDies(p) PROVE Goal
  BY <1>1, <1>3, <1>4 DEF EndHandler, RunDies, Goto, Blank
<1>5. ASSUME CallFails(p) \/ GiveUp(p) PROVE Goal
  BY <1>5, DeservesNextLine DEF CallFails, GiveUp
<1>6. ASSUME NEW l \in Lines, ClaimLine(p, l) PROVE Goal
  <2>1. PICK more \in SUBSET {l} :
            mem' = [mem EXCEPT ![p].unclaimed = @ \ {l}, ![p].todo = @ \cup more]
    BY <1>6 DEF ClaimLine
  <2>2. mem'[p] = [mem[p] EXCEPT !.unclaimed = @ \ {l}, !.todo = @ \cup more]
    BY <1>1, <2>1
  <2>3. /\ mem'[p].past = mem[p].past /\ mem'[p].retired = mem[p].retired
        /\ mem'[p].unclaimed = mem[p].unclaimed \ {l}
    BY <1>1, <2>2 DEF Locals
  <2> QED BY <1>1, <1>3, <1>6, <2>3 DEF ClaimLine, Goto, AfterClaims
<1>7. ASSUME NEW l \in Lines, ClaimFails(p, l) PROVE Goal
  <2>1. mem'[p] = [mem[p] EXCEPT !.unclaimed = @ \ {l}]
    BY <1>1, <1>7 DEF ClaimFails
  <2>2. /\ mem'[p].past = mem[p].past /\ mem'[p].retired = mem[p].retired
        /\ mem'[p].unclaimed = mem[p].unclaimed \ {l}
    BY <1>1, <2>1 DEF Locals
  <2> QED BY <1>1, <1>3, <1>7, <2>2 DEF ClaimFails, Goto, AfterClaims
<1>8. ASSUME NEW l \in Lines, CopyFails(p, l) PROVE Goal
  <2>1. mem'[p] = [mem[p] EXCEPT !.todo = @ \ {l}] /\ pc'[p] = "next"
    BY <1>1, <1>8 DEF CopyFails
  <2>2. /\ mem'[p].past = mem[p].past /\ mem'[p].retired = mem[p].retired
        /\ mem'[p].unclaimed = mem[p].unclaimed
    BY <1>1, <2>1 DEF Locals
  <2> QED BY <1>3, <2>1, <2>2
<1>9. ASSUME NEW o \in Orders, ReceiveOrder(p, o) PROVE Goal
  <2>1. /\ mem'[p] = [Blank EXCEPT !.order = o, !.unclaimed = LinesOf(o)]
        /\ pc'[p] = "claim" /\ cart[o] = "placed"
    BY <1>1, <1>9 DEF ReceiveOrder, Goto
  <2>2. /\ mem'[p].past = {} /\ mem'[p].retired = {} /\ mem'[p].todo = {}
        /\ mem'[p].unclaimed = LinesOf(o)
    BY <2>1 DEF Blank
  <2>3. Deserves(pc'[p], mem'[p])
    BY <2>1, <2>2 DEF Deserves, KeepInv, OrderedIsInspected
  <2>4. Fits(pc'[p], mem'[p])
    BY <2>1, <2>2 DEF Fits, LineSteps
  <2> QED BY <2>3, <2>4, DeservesMoves
<1>10. ASSUME StartSweep, p = Sweeper PROVE Goal
  <2>1. /\ mem'[p] = [Blank EXCEPT !.todo = {l \in Lines : Pending(l)},
                          !.past = {u \in Uploads : age[u] >= StagingClosed}]
        /\ pc'[p] = "next"
    BY <1>1, <1>10 DEF StartSweep, Goto
  <2>2. /\ mem'[p].past = {u \in Uploads : age[u] >= StagingClosed}
        /\ mem'[p].todo = {l \in Lines : Pending(l)}
        /\ mem'[p].retired = {} /\ mem'[p].unclaimed = {}
    BY <2>1 DEF Blank
  <2>3. Deserves(pc'[p], mem'[p])
    BY <2>1, <2>2 DEF Deserves
  <2>4. Fits(pc'[p], mem'[p])
    BY <2>1, <2>2 DEF Fits, LineSteps, Pending
  <2> QED BY <2>3, <2>4, DeservesMoves
<1>11. ASSUME ListAbandoned, p = Sweeper PROVE Goal
  <2>1. /\ \E list : mem'[p] = [Blank EXCEPT !.abandoned = list]
        /\ pc'[p] \in {"idle", "drop"}
    BY <1>1, <1>11 DEF ListAbandoned, Goto
  <2>2. mem'[p].past = {} /\ mem'[p].retired = {} /\ mem'[p].unclaimed = {}
    BY <2>1 DEF Blank
  <2> QED BY <1>3, <2>1, <2>2
<1>12. ASSUME NEW u \in Uploads, MarkAbandoned(u) \/ DropFails(u), p = Sweeper
       PROVE  Goal
  <2>1. /\ mem'[p] = [mem[p] EXCEPT !.abandoned = @ \ {u}]
        /\ pc'[p] \in {"idle", "drop"}
    BY <1>1, <1>12 DEF MarkAbandoned, DropFails, Goto, AfterDrops
  <2>2. /\ mem'[p].past = mem[p].past /\ mem'[p].retired = mem[p].retired
        /\ mem'[p].unclaimed = mem[p].unclaimed
    BY <1>1, <2>1 DEF Locals
  <2> QED BY <1>3, <2>1, <2>2
<1>13. ASSUME Promote(p) PROVE Goal
  BY <1>13, DeservesPromote
<1> HIDE DEF Goal
<1>14. Goal
  BY <1>2, <1>4, <1>5, <1>6, <1>7, <1>8, <1>9, <1>10, <1>11, <1>12, <1>13,
     RunMoves
<1> QED BY <1>14 DEF Goal

\* A claim that was not there before is new.
LEMMA ClaimedAnew ==
    ASSUME TypeInv, [Next]_vars, NEW l \in Claimed', l \notin Claimed
    PROVE  l \in Lines /\ claim'[l] = NewClaim
<1>1. claim \in [Lines -> Claims \cup {NoClaim}] /\ l \in Lines
  BY DEF TypeInv, TypeOK, Claimed
<1>2. ASSUME NEW h \in Handlers, NEW k \in Lines, ClaimLine(h, k)
      PROVE  claim'[l] = NewClaim
  BY <1>1, <1>2 DEF ClaimLine, Claimed
<1>3. ASSUME NEW p \in Promoters,
             MarkPromoted(p) \/ GiveUp(p) \/ \E k \in Lines : Retire(p, k)
      PROVE  FALSE
  <2>1. Fits(pc[p], mem[p])
    BY DEF TypeInv, RunsFit
  <2>2. /\ pc[p] \in {"mark", "giveUp"} => mem[p].line # l
        /\ l \notin mem[p].retired
    BY <2>1 DEF Fits, LineSteps, Steps
  <2>3. claim'[l] = claim[l]
    BY <1>1, <1>3, <2>2 DEF MarkPromoted, GiveUp, Retire
  <2> QED BY <1>1, <2>3 DEF Claimed
<1>4. ASSUME NEW q \in Purgers, MarkErased(q) PROVE FALSE
  <2>1. purge[q].erased # l
    BY <1>4 DEF MarkErased, TypeInv, PurgesFit
  <2>2. claim'[l] = claim[l]
    BY <1>1, <1>4, <2>1 DEF MarkErased
  <2> QED BY <1>1, <2>2 DEF Claimed
<1>5. claim' # claim
  BY DEF Claimed
<1> QED BY <1>1, <1>2, <1>3, <1>4, <1>5, ClaimSteps

\* A claim becomes promoted by the mark of a run that works on its line.
LEMMA PromotedByMark ==
    ASSUME TypeInv, [Next]_vars, NEW l \in Claimed', claim'[l].promoted
    PROVE  \/ l \in Claimed /\ claim[l].promoted
           \/ /\ l \in Claimed
              /\ \E p \in Promoters : MarkPromoted(p) /\ l = mem[p].line
<1>1. CASE l \notin Claimed
  BY <1>1, ClaimedAnew DEF NewClaim
<1>2. CASE l \in Claimed
  <2>1. claim \in [Lines -> Claims \cup {NoClaim}] /\ l \in Lines
        /\ claim[l] \in Claims
    BY <1>2 DEF TypeInv, TypeOK, Claimed
  <2>2. ASSUME NEW p \in Promoters, MarkPromoted(p)
        PROVE  claim'[l] = claim[l] \/ l = mem[p].line
    BY <2>1, <2>2 DEF MarkPromoted
  <2>3. ASSUME NEW p \in Promoters, NEW k \in Lines, GiveUp(p) \/ Retire(p, k)
        PROVE  \E r \in Reasons :
                   claim'[l] \in {claim[l], [claim[l] EXCEPT !.purged = r]}
    BY <2>1, <2>3 DEF GiveUp, Retire, Reasons
  <2>4. ASSUME NEW q \in Purgers, MarkErased(q)
        PROVE  \E r \in Reasons :
                   claim'[l] \in {claim[l], [claim[l] EXCEPT !.purged = r]}
    BY <2>1, <2>4 DEF MarkErased, Reasons
  <2>5. ASSUME NEW h \in Handlers, NEW k \in Lines, ClaimLine(h, k)
        PROVE  claim'[l] = claim[l]
    BY <1>2, <2>1, <2>5 DEF ClaimLine, Claimed
  <2>6. \A r \in Reasons :
            [claim[l] EXCEPT !.purged = r].promoted = claim[l].promoted
    BY <2>1 DEF Claims
  <2>7. ASSUME NEW p \in Promoters, GiveUp(p)
        PROVE  \E r \in Reasons :
                   claim'[l] \in {claim[l], [claim[l] EXCEPT !.purged = r]}
    BY <2>1, <2>3, <2>7
  <2> QED BY <1>2, <2>2, <2>3, <2>4, <2>5, <2>6, <2>7, ClaimSteps
<1> QED BY <1>1, <1>2

\* The claims on an open upload stand, and one of them, or staging, has it.
LEMMA OpenNext ==
    ASSUME TypeInv, KeepInv, [Next]_vars
    PROVE  OpenIsKept'
<1>1. /\ UploadOf \in [Lines -> Uploads] /\ Claimed \subseteq Lines
      /\ claim \in [Lines -> Claims \cup {NoClaim}]
      /\ staging \in [Uploads -> Etags \cup {None}] /\ None \notin Etags
  BY ShapeAssumption DEF TypeInv, TypeOK, Claimed
<1>2. \A l \in Claimed : asset[UploadOf[l]].inspected # None
  BY DEF KeepInv, OrderedIsInspected
<1>3. ASSUME NEW l \in Claimed, Open(UploadOf[l])' PROVE Open(UploadOf[l])
  BY <1>1, <1>2, <1>3, OpenWas DEF KeepInv
<1>4. ASSUME NEW l \in Claimed, Open(UploadOf[l])'
      PROVE  /\ claim'[l].purged = None
             /\ claim'[l].promoted => filed'[l] # None
  <2>1. Open(UploadOf[l]) /\ l \in Lines /\ l \in Claimed'
    BY <1>1, <1>3, <1>4, ClaimGoesOn
  <2>2. claim'[l].purged = None
    BY <2>1, OpenStays
  <2>3. ASSUME claim'[l].promoted PROVE filed[l] # None
    <3>1. CASE claim[l].promoted
      BY <2>1, <3>1 DEF KeepInv, OpenIsKept
    <3>2. ASSUME NEW p \in Promoters, MarkPromoted(p), l = mem[p].line
          PROVE  filed[l] # None
      BY <2>1, <3>2 DEF MarkPromoted, KeepInv, MarksDeserved, Deserves
    <3> QED BY <2>1, <2>3, <3>1, <3>2, PromotedByMark
  <2>4. claim'[l].promoted => filed'[l] # None
    BY <2>1, <2>3, CopyStays
  <2> QED BY <2>2, <2>4
<1>6. ASSUME NEW l \in Claimed', Open(UploadOf[l])'
      PROVE  /\ claim'[l].purged = None
             /\ claim'[l].promoted => filed'[l] # None
  <2>1. CASE l \in Claimed
    BY <1>4, <1>6, <2>1
  <2>2. CASE l \notin Claimed
    BY <2>2, ClaimedAnew DEF NewClaim
  <2> QED BY <2>1, <2>2
<1>7. ASSUME NEW u \in Uploads, Open(u)', staging'[u] = None
      PROVE  \E s \in Siblings(u)' : Download(s)' /\ filed'[s] # None
  <2>1. ASSUME NEW s \in Siblings(u), Download(s), filed[s] # None
        PROVE  s \in Siblings(u)' /\ Download(s)' /\ filed'[s] # None
    <3>1. s \in Claimed /\ UploadOf[s] = u /\ s \in Lines
      BY <2>1 DEF Siblings, Download
    <3>2. Open(u)
      BY <1>3, <1>7, <3>1
    <3> QED BY <2>1, <3>1, <3>2, ClaimGoesOn, OpenStays, CopyStays
            DEF Siblings, Download
  <2>2. CASE Open(u) /\ staging[u] = None
    BY <2>1, <2>2 DEF KeepInv, OpenIsKept
  <2>3. CASE ~(Open(u) /\ staging[u] = None)
    <3>1. ASSUME NEW v \in Uploads, NEW e \in Etags, Put(v, e) PROVE FALSE
      <4>1. u # v
        BY <1>1, <1>7, <3>1 DEF Put
      <4> QED BY <1>1, <1>7, <2>3, <3>1, <4>1, ClocksGrow DEF Put, Open
    <3>2. ASSUME NEW v \in Uploads, Age(v) PROVE FALSE
      BY <1>7, <2>3, <3>2, ClocksGrow DEF Age, Open, StagingClosed
    <3>3. ASSUME NEW v \in Uploads, Expire(v) PROVE FALSE
      <4>1. u # v
        BY <1>7, <3>3, ClocksGrow DEF Expire, Open, StagingClosed
      <4> QED BY <1>1, <1>7, <2>3, <3>3, <4>1 DEF Expire, Open
    <3>4. ASSUME NEW p \in Promoters, DeleteStaging(p)
          PROVE  \E s \in Siblings(u) : Download(s) /\ filed[s] # None
      <4>1. UNCHANGED <<puts, age>>
        BY <3>4 DEF DeleteStaging, KeepRest, OthersKept
      <4>2. Open(u)
        BY <1>7, <4>1 DEF Open
      <4>3. u = UploadOf[mem[p].line]
        BY <1>1, <1>7, <2>3, <3>4, <4>2 DEF DeleteStaging
      <4>4. mem[p].line \in Claimed /\ claim[mem[p].line].promoted
        BY <3>4 DEF DeleteStaging, TypeInv, RunsFit, Fits, LineSteps, Steps,
           KeepInv, MarksDeserved, Deserves
      <4> QED BY <1>1, <4>2, <4>3, <4>4
              DEF KeepInv, OpenIsKept, Siblings, Download
    <3>5. ~UNCHANGED <<puts, age, staging>>
      BY <1>7, <2>3 DEF Open
    <3> QED BY <2>1, <3>1, <3>2, <3>3, <3>4, <3>5, ClockSteps
  <2> QED BY <2>2, <2>3
<1> QED BY <1>6, <1>7 DEF OpenIsKept

\* Nothing is claimed, written or due when the shop opens.
LEMMA KeepInit == Init => KeepInv
<1> SUFFICES ASSUME Init PROVE KeepInv
  OBVIOUS
<1>1. OneFileEach
  BY ShapeAssumption DEF Init, OneFileEach, Away
<1>2. OrderedIsInspected /\ Claimed = {}
  BY DEF Init, OrderedIsInspected, Claimed
<1>3. DueIsClosed
  BY DEF Init, DueIsClosed, Rest
<1>4. MarksDeserved
  BY DEF Init, MarksDeserved, Deserves, Blank
<1>5. OpenIsKept
  BY <1>2 DEF Init, OpenIsKept, Open
<1> QED BY <1>1, <1>2, <1>3, <1>4, <1>5 DEF KeepInv

\* What KeepInv says of a claim is what its customer was promised.
LEMMA KeepIsEnough == TypeInv /\ KeepInv => ClaimedArtIsKept
<1> SUFFICES ASSUME TypeInv, KeepInv, NEW l \in Claimed, Open(UploadOf[l])
             PROVE  \/ Download(l) /\ filed[l] # None
                    \/ /\ Pending(l)
                       /\ \/ staging[UploadOf[l]] # None
                          \/ \E s \in SiblingSources(l) : filed[s] # None
  BY DEF ClaimedArtIsKept, Open
<1>1. l \in Lines /\ UploadOf[l] \in Uploads
  BY ShapeAssumption DEF Claimed
<1>2. claim[l].purged = None /\ (claim[l].promoted => filed[l] # None)
  BY DEF KeepInv, OpenIsKept
<1>3. CASE claim[l].promoted
  BY <1>2, <1>3 DEF Download
<1>4. CASE ~claim[l].promoted
  <2>1. Pending(l) /\ ~Download(l)
    BY <1>2, <1>4 DEF Pending, Download
  <2>2. ASSUME staging[UploadOf[l]] = None
        PROVE  \E s \in SiblingSources(l) : filed[s] # None
    <3>1. PICK s \in Siblings(UploadOf[l]) : Download(s) /\ filed[s] # None
      BY <1>1, <2>2 DEF KeepInv, OpenIsKept
    <3> QED BY <2>1, <3>1 DEF SiblingSources
  <2> QED BY <2>1, <2>2
<1> QED BY <1>3, <1>4

\* While the staging window of an upload written once is open, its claims are
\* filed with their objects, or wait with something to copy from: the deletion
\* of the staging object, decided on a list read one call before, never takes
\* the last copy, however many orders, handlers, sweeps and crashes there are.
THEOREM ClaimedArtWasKept == Spec => []ClaimedArtIsKept
<1> DEFINE Inv == TypeInv /\ KeepInv
<1>1. Init => Inv
  BY TypeInit, KeepInit
<1>2. Inv /\ [Next]_vars => Inv'
  <2> SUFFICES ASSUME TypeInv, KeepInv, [Next]_vars PROVE Inv'
    OBVIOUS
  <2>1. OneFileEach'
    BY OneFileNext DEF KeepInv
  <2>2. OrderedIsInspected' /\ DueIsClosed' /\ MarksDeserved' /\ OpenIsKept'
    BY OrderedNext, DueNext, MarksNext, OpenNext
  <2> QED BY <2>1, <2>2, TypeNext DEF KeepInv
<1>3. Inv => ClaimedArtIsKept
  BY KeepIsEnough
<1> QED BY <1>1, <1>2, <1>3, PTL DEF Spec

-----------------------------------------------------------------------------
(***************************************************************************)
(* A filed copy is there while the retention policy owes it.               *)
(***************************************************************************)
\* What the retention policy owes: a copy of line l.
Owed(l) ==
    LET d == delivered[OrderOf[l]] IN
    d = "recent" \/ (d = "no" /\ age[UploadOf[l]] < FallbackClosed)

(***************************************************************************)
(* A purge has only what is no longer owed in hand, and a run marks a line *)
(* as filed, while its copy is owed, only with the copy in place.          *)
(***************************************************************************)
PurgesTheUnowed == \A q \in Purgers : \A l \in purge[q].due : ~Owed(l)

MarksTheFiled == \A p \in Promoters :
    pc[p] = "mark" /\ Owed(mem[p].line) => filed[mem[p].line] # None

OwedInv == PurgesTheUnowed /\ MarksTheFiled /\ KeptWhileOwed

\* The dates of deliveries are the deliveries' and the calendar's.
LEMMA DeliveredSteps ==
    ASSUME [Next]_vars
    PROVE  UNCHANGED delivered \/ \E o \in Orders : Deliver(o) \/ RunOut(o)
<1>1. ASSUME NEW q \in Purgers, NEW l \in Lines,
             \/ StartPurge(q) \/ MarkErased(q) \/ MarkErasedFails(q)
             \/ PurgeDies(q) \/ EraseObject(q, l) \/ EraseFails(q, l)
      PROVE  UNCHANGED delivered
  BY <1>1 DEF StartPurge, MarkErased, MarkErasedFails, PurgeDies,
     EraseObject, EraseFails, PurgeKept
<1>2. ASSUME NEW q \in Purgers,
             \/ StartPurge(q) \/ MarkErased(q) \/ MarkErasedFails(q)
             \/ PurgeDies(q)
      PROVE  UNCHANGED delivered
  BY <1>2 DEF StartPurge, MarkErased, MarkErasedFails, PurgeDies, PurgeKept
<1> QED BY <1>1, <1>2, DueSteps

\* What is owed after a step was owed before it.
LEMMA OwedWas ==
    ASSUME TypeInv, [Next]_vars, NEW l \in Lines, Owed(l)'
    PROVE  Owed(l)
<1>1. /\ UploadOf[l] \in Uploads /\ OrderOf[l] \in Orders
      /\ delivered \in [Orders -> Deliveries]
  BY ShapeAssumption DEF TypeInv, TypeOK
<1>2. /\ age[UploadOf[l]] \in Nat /\ age'[UploadOf[l]] \in Nat
      /\ age[UploadOf[l]] <= age'[UploadOf[l]]
  BY <1>1, ClocksGrow
<1>3. CASE UNCHANGED delivered
  BY <1>2, <1>3 DEF Owed, FallbackClosed
<1>4. ASSUME NEW o \in Orders, Deliver(o) PROVE Owed(l)
  <2>1. CASE o = OrderOf[l]
    <3>1. l \in LinesOf(o) /\ age[UploadOf[l]] \in 0..3
      BY <1>1, <2>1 DEF LinesOf, TypeInv, TypeOK, CheckoutWindow, FallbackClosed
    <3>2. delivered[o] = "no" /\ delivered'[o] # "late"
      BY <2>1, <1>1, <1>4 DEF Deliver, Owed
    <3>3. age[UploadOf[l]] # FallbackClosed
      BY <1>1, <1>4, <3>1, <3>2 DEF Deliver
    <3> QED BY <2>1, <3>1, <3>2, <3>3 DEF Owed, FallbackClosed
  <2>2. CASE o # OrderOf[l]
    BY <1>1, <1>2, <1>4, <2>2 DEF Deliver, Owed
  <2> QED BY <2>1, <2>2
<1>5. ASSUME NEW o \in Orders, RunOut(o) PROVE Owed(l)
  BY <1>1, <1>2, <1>5 DEF RunOut, Owed
<1> QED BY <1>3, <1>4, <1>5, DeliveredSteps

\* What a purge has listed, it found filed and due.
LEMMA ListedWhenDue ==
    ASSUME TypeInv, [Next]_vars, NEW q \in Purgers, NEW l \in purge'[q].due
    PROVE  \/ l \in purge[q].due
           \/ StartPurge(q) /\ l \in Lines /\ Download(l) /\ Due(l)
<1> DEFINE Goal == \/ l \in purge[q].due
                   \/ StartPurge(q) /\ l \in Lines /\ Download(l) /\ Due(l)
<1>1. purge \in [Purgers -> [due : SUBSET Lines, erased : Lines \cup {None}]]
  BY DEF TypeInv, TypeOK
<1>2. ASSUME NEW r \in Purgers, StartPurge(r) PROVE Goal
  <2>1. purge' = [purge EXCEPT ![r].due = {k \in Lines : Download(k) /\ Due(k)}]
    BY <1>2 DEF StartPurge
  <2> QED BY <1>1, <1>2, <2>1
<1>3. ASSUME NEW r \in Purgers, NEW k \in Lines, EraseObject(r, k) PROVE Goal
  <2>1. purge' = [purge EXCEPT ![r] = [due |-> @.due \ {k}, erased |-> k]]
    BY <1>3 DEF EraseObject
  <2> QED BY <1>1, <2>1
<1>4. ASSUME NEW r \in Purgers, NEW k \in Lines, EraseFails(r, k) PROVE Goal
  <2>1. purge' = [purge EXCEPT ![r].due = @ \ {k}]
    BY <1>4 DEF EraseFails
  <2> QED BY <1>1, <2>1
<1>5. ASSUME NEW r \in Purgers, MarkErased(r) \/ MarkErasedFails(r) PROVE Goal
  <2>1. purge' = [purge EXCEPT ![r].erased = None]
    BY <1>5 DEF MarkErased, MarkErasedFails
  <2> QED BY <1>1, <2>1
<1>6. ASSUME NEW r \in Purgers, PurgeDies(r) PROVE Goal
  <2>1. purge' = [purge EXCEPT ![r] = [due |-> {}, erased |-> None]]
    BY <1>6 DEF PurgeDies, Rest
  <2> QED BY <1>1, <2>1
<1>7. ASSUME NEW o \in Orders, Deliver(o) \/ RunOut(o) PROVE Goal
  BY <1>7 DEF Deliver, RunOut
<1>8. ASSUME UNCHANGED <<delivered, purge>> PROVE Goal
  BY <1>8
<1> HIDE DEF Goal
<1>9. Goal
  BY <1>2, <1>3, <1>4, <1>5, <1>6, <1>7, <1>8, DueSteps
<1> QED BY <1>9 DEF Goal

\* A copy that is owed stays where it is: no purge has it in hand.
LEMMA OwedCopyStays ==
    ASSUME TypeInv, PurgesTheUnowed, [Next]_vars, NEW l \in Lines, Owed(l),
           filed[l] # None
    PROVE  filed'[l] # None
<1>1. /\ filed \in [Lines -> Etags \cup {None}] /\ None \notin Etags
      /\ UploadOf[l] \in Uploads
  BY ShapeAssumption DEF TypeInv, TypeOK
<1>2. ASSUME NEW p \in Promoters, NEW k \in Lines, CopyStaging(p, k)
      PROVE  filed'[l] # None
  BY <1>1, <1>2 DEF CopyStaging
<1>3. ASSUME NEW p \in Promoters, CopySibling(p) PROVE filed'[l] # None
  BY <1>1, <1>3 DEF CopySibling
<1>4. ASSUME NEW q \in Purgers, NEW k \in Lines, EraseObject(q, k)
      PROVE  filed'[l] # None
  <2>1. k # l
    BY <1>4 DEF EraseObject, PurgesTheUnowed
  <2> QED BY <1>1, <1>4, <2>1 DEF EraseObject
<1> QED BY <1>2, <1>3, <1>4, FiledSteps

\* A run comes to mark a line by a copy that took place in that very step.
LEMMA MarksWhatItCopied ==
    ASSUME TypeInv, [Next]_vars, NEW p \in Promoters, pc'[p] = "mark"
    PROVE  \/ pc[p] = "mark" /\ mem'[p].line = mem[p].line
           \/ mem'[p].line \in Lines /\ filed'[mem'[p].line] # None
<1> DEFINE Goal == \/ pc[p] = "mark" /\ mem'[p].line = mem[p].line
                   \/ mem'[p].line \in Lines /\ filed'[mem'[p].line] # None
<1>1. /\ pc \in [Promoters -> Steps] /\ mem \in [Promoters -> Locals]
      /\ mem[p] \in Locals /\ Fits(pc[p], mem[p]) /\ Claimed \subseteq Lines
      /\ filed \in [Lines -> Etags \cup {None}] /\ None \notin Etags
  BY ShapeAssumption DEF TypeInv, TypeOK, RunsFit, Claimed
<1>2. ASSUME NextLine(p) PROVE FALSE
  BY <1>1, <1>2 DEF NextLine, Goto
<1>3. ASSUME NEW l \in Lines, CopyStaging(p, l) PROVE Goal
  <2>1. mem'[p] = [mem[p] EXCEPT !.todo = @ \ {l}, !.line = l,
                                 !.changed = staging[UploadOf[l]] # None]
    BY <1>1, <1>3 DEF CopyStaging
  <2>2. mem'[p].line = l
    BY <1>1, <2>1 DEF Locals
  <2> QED BY <1>1, <1>3, <2>2 DEF CopyStaging, Goto
<1>4. ASSUME CopySibling(p) PROVE Goal
  <2>1. mem[p].line \in Lines
    BY <1>1, <1>4 DEF CopySibling, Fits, LineSteps, Steps
  <2> QED BY <1>1, <1>2, <1>4, <2>1 DEF CopySibling
<1>5. ASSUME NEW l \in Lines, Retire(p, l) PROVE Goal
  BY <1>1, <1>2, <1>5 DEF Retire
<1>6. ASSUME FindSibling(p) \/ NoSibling(p) PROVE Goal
  BY <1>1, <1>2, <1>6 DEF FindSibling, NoSibling, Goto
<1>7. ASSUME MarkPromoted(p) \/ CheckStaging(p) \/ DeleteStaging(p)
             \/ ListRetired(p)
      PROVE  Goal
  BY <1>1, <1>2, <1>7 DEF MarkPromoted, CheckStaging, DeleteStaging,
     ListRetired, Goto
<1>8. ASSUME GiveUp(p) \/ EndHandler(p) \/ CallFails(p) \/ RunDies(p) PROVE Goal
  BY <1>1, <1>2, <1>8 DEF GiveUp, EndHandler, CallFails, RunDies, Goto
<1>9. ASSUME NEW l \in Lines,
             ClaimLine(p, l) \/ ClaimFails(p, l) \/ CopyFails(p, l)
      PROVE  Goal
  BY <1>1, <1>9 DEF ClaimLine, ClaimFails, CopyFails, Goto, AfterClaims
<1>10. ASSUME NEW o \in Orders, ReceiveOrder(p, o) PROVE Goal
  BY <1>1, <1>10 DEF ReceiveOrder, Goto
<1>11. ASSUME p = Sweeper,
              \/ StartSweep \/ ListAbandoned
              \/ \E u \in Uploads : MarkAbandoned(u) \/ DropFails(u)
       PROVE  Goal
  BY <1>1, <1>11 DEF StartSweep, ListAbandoned, MarkAbandoned, DropFails,
     Goto, AfterDrops
<1>12. ASSUME pc'[p] = pc[p], mem'[p] = mem[p] PROVE Goal
  BY <1>12
<1> HIDE DEF Goal
<1>13. ASSUME Promote(p) PROVE Goal
  BY <1>3, <1>4, <1>5, <1>6, <1>7, <1>13 DEF Promote
<1>14. Goal
  BY <1>8, <1>9, <1>10, <1>11, <1>12, <1>13, RunMoves
<1> QED BY <1>14 DEF Goal

\* Every step keeps what is owed.
LEMMA OwedNext ==
    ASSUME TypeInv, OwedInv, [Next]_vars
    PROVE  OwedInv'
<1>1. PurgesTheUnowed /\ MarksTheFiled /\ KeptWhileOwed
  BY DEF OwedInv
<1>2. ASSUME NEW q \in Purgers, NEW l \in purge'[q].due PROVE ~Owed(l)'
  <2>1. l \in Lines
    BY TypeNext DEF TypeInv, TypeOK
  <2>2. l \in purge[q].due \/ Due(l)
    BY ListedWhenDue
  <2>3. ~Owed(l)
    BY <1>1, <2>1, <2>2 DEF PurgesTheUnowed, Due, Owed, FallbackClosed
  <2> QED BY <2>1, <2>3, OwedWas
<1>3. ASSUME NEW p \in Promoters, pc'[p] = "mark", Owed(mem[p].line)'
      PROVE  filed'[mem'[p].line] # None
  <2>1. CASE pc[p] = "mark" /\ mem'[p].line = mem[p].line
    <3>1. PICK l \in Lines : l = mem[p].line /\ l = mem'[p].line
      BY <2>1 DEF TypeInv, TypeOK, RunsFit, Fits, LineSteps, Steps, Claimed
    <3>2. Owed(l)'
      BY <1>3, <3>1 DEF Owed
    <3>3. Owed(l)
      BY <3>2, OwedWas
    <3>4. filed[l] # None
      BY <1>1, <2>1, <3>1, <3>3 DEF MarksTheFiled
    <3> QED BY <1>1, <3>1, <3>3, <3>4, OwedCopyStays
  <2> QED BY <1>3, <2>1, MarksWhatItCopied
<1>4. ASSUME NEW l \in Claimed', claim'[l].promoted, Owed(l)'
      PROVE  filed'[l] # None
  <2>1. l \in Lines
    BY DEF Claimed
  <2>2. Owed(l)
    BY <1>4, <2>1, OwedWas
  <2>3. CASE l \in Claimed /\ claim[l].promoted
    <3>1. filed[l] # None
      BY <1>1, <2>2, <2>3 DEF KeptWhileOwed, Owed
    <3> QED BY <1>1, <2>1, <2>2, <3>1, OwedCopyStays
  <2>4. ASSUME NEW p \in Promoters, MarkPromoted(p), l = mem[p].line
        PROVE  filed'[l] # None
    <3>1. filed[l] # None
      BY <1>1, <2>2, <2>4 DEF MarkPromoted, MarksTheFiled
    <3> QED BY <1>1, <2>1, <2>2, <3>1, OwedCopyStays
  <2> QED BY <1>4, <2>3, <2>4, PromotedByMark
<1> QED BY <1>2, <1>3, <1>4
        DEF OwedInv, PurgesTheUnowed, MarksTheFiled, KeptWhileOwed, Owed

\* No filed copy is removed before the policy allows it: until the fallback
\* while nothing is delivered, and for thirty days after a delivery, a promoted
\* claim has its object, whatever runs and purges overlap, fail or die.
THEOREM OwedArtIsKept == Spec => []KeptWhileOwed
<1>1. Init => TypeInv /\ OwedInv
  <2> SUFFICES ASSUME Init PROVE OwedInv
    BY TypeInit
  <2>1. Claimed = {}
    BY DEF Init, Claimed
  <2> QED BY <2>1 DEF Init, OwedInv, PurgesTheUnowed, MarksTheFiled,
             KeptWhileOwed, Rest
<1>2. TypeInv /\ OwedInv /\ [Next]_vars => (TypeInv /\ OwedInv)'
  BY TypeNext, OwedNext
<1>3. OwedInv => KeptWhileOwed
  BY DEF OwedInv
<1> QED BY <1>1, <1>2, <1>3, PTL DEF Spec

-----------------------------------------------------------------------------
(***************************************************************************)
(* A claim closed by the retention job has no object any more.             *)
(***************************************************************************)
\* The lines a run has still to copy, and those a purge has in hand.
InHand(p) == mem[p].todo \cup
             {l \in {mem[p].line} : pc[p] \in {"siblings", "copySibling"}}
Doomed(q) == purge[q].due \cup {l \in {purge[q].erased} : l # None}

(***************************************************************************)
(* A run without a list has nothing to copy, a line in work is off the     *)
(* list, and a handler works on the lines of its order.                    *)
(***************************************************************************)
Orderly(p) ==
    /\ pc[p] \in {"idle", "drop"} => mem[p].todo = {}
    /\ pc[p] \in LineSteps => mem[p].line \notin mem[p].todo
    /\ p \in Handlers /\ pc[p] # "idle" =>
          /\ mem[p].unclaimed \cup mem[p].todo \subseteq LinesOf(mem[p].order)
          /\ pc[p] \in LineSteps => mem[p].line \in LinesOf(mem[p].order)

RunsOrderly == \A p \in Promoters : Orderly(p)

\* No retention window ends while a handler of the order is at work.
HandlersInTime ==
    \A h \in Handlers : pc[h] # "idle" =>
        \A l \in LinesOf(mem[h].order) : ~Due(l)

\* A line that another run filed meanwhile is not due while a run has it still
\* in hand.
CopiedIsNotDue ==
    \A p \in Promoters : \A l \in InHand(p) : claim[l].promoted => ~Due(l)

(***************************************************************************)
(* What a purge has in hand, and what it closed, was filed and is in no    *)
(* run's hand any more: nothing can file it anew.                          *)
(***************************************************************************)
DoomedIsFiled ==
    \A q \in Purgers : \A l \in Doomed(q) :
        claim[l].promoted /\ \A p \in Promoters : l \notin InHand(p)

ClosedIsFiled ==
    \A l \in Claimed : claim[l].purged = "retention" =>
        claim[l].promoted /\ \A p \in Promoters : l \notin InHand(p)

ErasedIsGone ==
    \A q \in Purgers : purge[q].erased # None => filed[purge[q].erased] = None

GoneInv == /\ RunsOrderly /\ HandlersInTime /\ CopiedIsNotDue
           /\ DoomedIsFiled /\ ClosedIsFiled /\ ErasedIsGone /\ DeletedIsGone

\* What a run keeps when it is done with its line.
LEMMA NextLineKeeps ==
    ASSUME TypeInv, NEW p \in Promoters, NextLine(p)
    PROVE  /\ pc'[p] = "next" /\ mem'[p].order = mem[p].order
           /\ mem'[p].todo = mem[p].todo
           /\ mem'[p].unclaimed = mem[p].unclaimed
<1>1. /\ pc \in [Promoters -> Steps] /\ mem \in [Promoters -> Locals]
      /\ mem[p] \in Locals
  BY DEF TypeInv, TypeOK
<1>2. /\ pc'[p] = "next"
      /\ mem'[p] = [mem[p] EXCEPT !.line = None, !.source = None,
                                  !.changed = FALSE, !.retired = {}]
  BY <1>1 DEF NextLine, Goto
<1> QED BY <1>1, <1>2 DEF Locals

(***************************************************************************)
(* What a step of run p makes of it: it stays orderly, takes up only lines *)
(* that are not yet filed, and a handler keeps its order.                  *)
(***************************************************************************)
GoesOn(p) ==
    /\ Orderly(p)'
    /\ \A l \in InHand(p)' : l \in InHand(p) \/ (l \in Lines /\ ~claim'[l].promoted)
    /\ p \in Handlers /\ pc'[p] # "idle" =>
          \/ pc[p] # "idle" /\ mem'[p].order = mem[p].order
          \/ \E o \in Orders : ReceiveOrder(p, o) /\ mem'[p].order = o

\* A run that goes on with its lists, or with less, and works on a line it had.
LEMMA OrderlyGoesOn ==
    ASSUME TypeInv, RunsOrderly, NEW p \in Promoters,
           pc[p] # "idle", pc'[p] \notin {"idle", "drop"},
           mem'[p].order = mem[p].order,
           mem'[p].todo \subseteq mem[p].todo,
           mem'[p].unclaimed \subseteq mem[p].unclaimed,
           pc'[p] \in LineSteps =>
              \/ mem'[p].line = mem[p].line /\ pc[p] \in LineSteps
              \/ mem'[p].line \in mem[p].todo \ mem'[p].todo,
           pc'[p] \in {"siblings", "copySibling"} =>
              mem'[p].line \in InHand(p)
    PROVE  GoesOn(p)
<1>1. Orderly(p)
  BY DEF RunsOrderly
<1>3. Orderly(p)'
  <2>1. pc'[p] \in LineSteps => mem'[p].line \notin mem'[p].todo
    BY <1>1 DEF Orderly
  <2>2. ASSUME p \in Handlers
        PROVE  /\ mem'[p].unclaimed \cup mem'[p].todo \subseteq LinesOf(mem[p].order)
               /\ pc'[p] \in LineSteps => mem'[p].line \in LinesOf(mem[p].order)
    BY <1>1, <2>2 DEF Orderly
  <2>3. LinesOf(mem[p].order)' = LinesOf(mem[p].order)
    BY DEF LinesOf
  <2> QED BY <2>1, <2>2, <2>3 DEF Orderly
<1>4. \A l \in InHand(p)' : l \in InHand(p)
  BY DEF InHand
<1> QED BY <1>3, <1>4 DEF GoesOn

\* A run that is done with its line goes on with its list.
LEMMA NextLineGoesOn ==
    ASSUME TypeInv, RunsOrderly, NEW p \in Promoters, NextLine(p),
           pc[p] # "idle"
    PROVE  GoesOn(p)
BY NextLineKeeps, OrderlyGoesOn DEF LineSteps

\* A run that goes on to its next call on the same line.
LEMMA SameLineGoesOn ==
    ASSUME TypeInv, RunsOrderly, NEW p \in Promoters, pc[p] \in LineSteps,
           pc'[p] \in LineSteps \ {"siblings", "copySibling"},
           UNCHANGED mem
    PROVE  GoesOn(p)
<1>1. /\ mem'[p].order = mem[p].order /\ mem'[p].todo = mem[p].todo
      /\ mem'[p].unclaimed = mem[p].unclaimed /\ mem'[p].line = mem[p].line
  OBVIOUS
<1>2. pc[p] # "idle" /\ pc'[p] \notin {"idle", "drop"}
  BY DEF LineSteps, Steps
<1> QED BY <1>1, <1>2, OrderlyGoesOn

\* Promotion, call by call.
LEMMA PromoteGoesOn ==
    ASSUME TypeInv, RunsOrderly, NEW p \in Promoters, Promote(p)
    PROVE  GoesOn(p)
<1>1. /\ pc \in [Promoters -> Steps] /\ mem \in [Promoters -> Locals]
      /\ mem[p] \in Locals
  BY DEF TypeInv, TypeOK
<1>2. ASSUME NEW l \in Lines, CopyStaging(p, l) PROVE GoesOn(p)
  <2>1. /\ mem'[p] = [mem[p] EXCEPT !.todo = @ \ {l}, !.line = l,
                          !.changed = staging[UploadOf[l]] # None]
        /\ l \in mem[p].todo /\ pc[p] = "next" /\ pc'[p] \in {"mark", "siblings"}
    BY <1>1, <1>2 DEF CopyStaging, Goto
  <2>2. /\ mem'[p].order = mem[p].order /\ mem'[p].todo = mem[p].todo \ {l}
        /\ mem'[p].unclaimed = mem[p].unclaimed /\ mem'[p].line = l
    BY <1>1, <2>1 DEF Locals
  <2>3. mem'[p].line \in mem[p].todo \ mem'[p].todo /\ mem'[p].line \in InHand(p)
    BY <2>1, <2>2 DEF InHand
  <2> QED BY <2>1, <2>2, <2>3, OrderlyGoesOn
<1>3. ASSUME NEW l \in Lines, Retire(p, l) PROVE GoesOn(p)
  <2>1. CASE mem' = [mem EXCEPT ![p].retired = @ \ {l}] /\ UNCHANGED pc
    <3>1. mem'[p] = [mem[p] EXCEPT !.retired = @ \ {l}]
          /\ pc'[p] = "retire" /\ pc[p] = "retire"
      BY <1>1, <1>3, <2>1 DEF Retire
    <3>2. /\ mem'[p].order = mem[p].order /\ mem'[p].todo = mem[p].todo
          /\ mem'[p].unclaimed = mem[p].unclaimed /\ mem'[p].line = mem[p].line
      BY <1>1, <3>1 DEF Locals
    <3> QED BY <3>1, <3>2, OrderlyGoesOn DEF LineSteps, Steps
  <2> QED BY <1>3, <2>1, NextLineGoesOn DEF Retire
<1>4. ASSUME FindSibling(p) PROVE GoesOn(p)
  <2>1. PICK k \in SiblingSources(mem[p].line) :
            mem' = [mem EXCEPT ![p].source = k]
    BY <1>4 DEF FindSibling
  <2>2. /\ mem'[p] = [mem[p] EXCEPT !.source = k]
        /\ pc'[p] = "copySibling" /\ pc[p] = "siblings"
    BY <1>1, <1>4, <2>1 DEF FindSibling, Goto
  <2>3. /\ mem'[p].order = mem[p].order /\ mem'[p].todo = mem[p].todo
        /\ mem'[p].unclaimed = mem[p].unclaimed /\ mem'[p].line = mem[p].line
    BY <1>1, <2>2 DEF Locals
  <2>4. mem'[p].line \in InHand(p)
    BY <2>2, <2>3 DEF InHand
  <2> QED BY <2>2, <2>3, <2>4, OrderlyGoesOn DEF LineSteps, Steps
<1>5. ASSUME NoSibling(p) PROVE GoesOn(p)
  <2>1. CASE \/ Goto(p, "listRetired") /\ UNCHANGED mem
             \/ Goto(p, "giveUp") /\ UNCHANGED mem
    BY <1>1, <1>5, <2>1, SameLineGoesOn DEF NoSibling, Goto, LineSteps, Steps
  <2> QED BY <1>5, <2>1, NextLineGoesOn DEF NoSibling
<1>6. ASSUME CopySibling(p) PROVE GoesOn(p)
  <2>1. CASE Goto(p, "mark") /\ UNCHANGED mem
    BY <1>1, <1>6, <2>1, SameLineGoesOn DEF CopySibling, Goto, LineSteps, Steps
  <2> QED BY <1>6, <2>1, NextLineGoesOn DEF CopySibling
<1>7. ASSUME MarkPromoted(p) PROVE GoesOn(p)
  <2>1. CASE Goto(p, "tidy") /\ UNCHANGED mem
    BY <1>1, <1>7, <2>1, SameLineGoesOn DEF MarkPromoted, Goto, LineSteps, Steps
  <2> QED BY <1>7, <2>1, NextLineGoesOn DEF MarkPromoted
<1>8. ASSUME CheckStaging(p) PROVE GoesOn(p)
  <2>1. CASE Goto(p, "delete") /\ UNCHANGED mem
    BY <1>1, <1>8, <2>1, SameLineGoesOn DEF CheckStaging, Goto, LineSteps, Steps
  <2> QED BY <1>8, <2>1, NextLineGoesOn DEF CheckStaging
<1>9. ASSUME DeleteStaging(p) PROVE GoesOn(p)
  BY <1>9, NextLineGoesOn DEF DeleteStaging
<1>10. ASSUME ListRetired(p) PROVE GoesOn(p)
  <2>1. CASE ~NextLine(p)
    <3>1. PICK pending :
              /\ mem' = [mem EXCEPT ![p].retired = pending]
              /\ Goto(p, "retire") /\ pc[p] = "listRetired"
      BY <1>10, <2>1 DEF ListRetired
    <3>2. /\ mem'[p] = [mem[p] EXCEPT !.retired = pending]
          /\ pc'[p] = "retire" /\ pc[p] = "listRetired"
      BY <1>1, <3>1 DEF Goto
    <3>3. /\ mem'[p].order = mem[p].order /\ mem'[p].todo = mem[p].todo
          /\ mem'[p].unclaimed = mem[p].unclaimed /\ mem'[p].line = mem[p].line
      BY <1>1, <3>2 DEF Locals
    <3> QED BY <3>2, <3>3, OrderlyGoesOn DEF LineSteps, Steps
  <2> QED BY <1>10, <2>1, NextLineGoesOn DEF ListRetired
<1> QED BY <1>2, <1>3, <1>4, <1>5, <1>6, <1>7, <1>8, <1>9, <1>10 DEF Promote

\* A run that ends, or a sweep that has only abandoned uploads left, has
\* nothing to copy.
LEMMA EndsOrderly ==
    ASSUME NEW p \in Promoters, pc'[p] \in {"idle", "drop"},
           p \in Handlers => pc'[p] = "idle", mem'[p].todo = {}
    PROVE  GoesOn(p)
<1>1. Orderly(p)'
  BY DEF Orderly, LineSteps
<1>2. InHand(p)' = {}
  BY DEF InHand
<1> QED BY <1>1, <1>2 DEF GoesOn

\* Every run goes on so.
LEMMA RunsGoOn ==
    ASSUME TypeInv, RunsOrderly, [Next]_vars, NEW p \in Promoters
    PROVE  GoesOn(p) \/ (pc'[p] = pc[p] /\ mem'[p] = mem[p])
<1> DEFINE Goal == GoesOn(p) \/ (pc'[p] = pc[p] /\ mem'[p] = mem[p])
<1>1. /\ pc \in [Promoters -> Steps] /\ mem \in [Promoters -> Locals]
      /\ mem[p] \in Locals /\ Orderly(p) /\ Fits(pc[p], mem[p])
      /\ Claimed \subseteq Lines
  BY DEF TypeInv, TypeOK, RunsOrderly, RunsFit, Claimed
<1>2. ASSUME Promote(p) PROVE Goal
  BY <1>2, PromoteGoesOn
<1>3. ASSUME GiveUp(p) \/ CallFails(p) PROVE Goal
  BY <1>3, NextLineGoesOn DEF GiveUp, CallFails, Steps
<1>4. ASSUME EndHandler(p) \/ RunDies(p) PROVE Goal
  <2>1. pc'[p] = "idle" /\ mem'[p] = Blank
    BY <1>1, <1>4 DEF EndHandler, RunDies, Goto
  <2> QED BY <2>1, EndsOrderly DEF Blank
<1>5. ASSUME NEW l \in Lines, CopyFails(p, l) PROVE Goal
  <2>1. mem'[p] = [mem[p] EXCEPT !.todo = @ \ {l}]
        /\ pc'[p] = "next" /\ pc[p] = "next"
    BY <1>1, <1>5 DEF CopyFails
  <2>2. /\ mem'[p].order = mem[p].order /\ mem'[p].todo = mem[p].todo \ {l}
        /\ mem'[p].unclaimed = mem[p].unclaimed
    BY <1>1, <2>1 DEF Locals
  <2> QED BY <2>1, <2>2, OrderlyGoesOn DEF LineSteps
<1>6. ASSUME NEW l \in Lines, ClaimFails(p, l) PROVE Goal
  <2>1. mem'[p] = [mem[p] EXCEPT !.unclaimed = @ \ {l}]
        /\ pc'[p] \in {"next", "claim"} /\ pc[p] = "claim"
    BY <1>1, <1>6 DEF ClaimFails, Goto, AfterClaims
  <2>2. /\ mem'[p].order = mem[p].order /\ mem'[p].todo = mem[p].todo
        /\ mem'[p].unclaimed = mem[p].unclaimed \ {l}
    BY <1>1, <2>1 DEF Locals
  <2> QED BY <2>1, <2>2, OrderlyGoesOn DEF LineSteps
<1>7. ASSUME NEW l \in Lines, ClaimLine(p, l) PROVE Goal
  <2> DEFINE new == {k \in {l} : ~claim'[k].promoted}
  <2>1. mem'[p] = [mem[p] EXCEPT !.unclaimed = @ \ {l}, !.todo = @ \cup new]
        /\ pc'[p] \in {"next", "claim"} /\ pc[p] = "claim"
        /\ l \in mem[p].unclaimed
    BY <1>1, <1>7 DEF ClaimLine, Goto, AfterClaims
  <2>2. /\ mem'[p].order = mem[p].order /\ mem'[p].todo = mem[p].todo \cup new
        /\ mem'[p].unclaimed = mem[p].unclaimed \ {l}
    BY <1>1, <2>1 DEF Locals
  <2>3. LinesOf(mem[p].order)' = LinesOf(mem[p].order)
    BY <2>2 DEF LinesOf
  <2>4. Orderly(p)'
    BY <1>1, <2>1, <2>2, <2>3 DEF Orderly, LineSteps
  <2>5. \A k \in InHand(p)' : k \in InHand(p) \/ (k \in Lines /\ ~claim'[k].promoted)
    BY <2>1, <2>2 DEF InHand
  <2> QED BY <2>1, <2>2, <2>4, <2>5 DEF GoesOn
<1>8. ASSUME NEW o \in Orders, ReceiveOrder(p, o) PROVE Goal
  <2>1. /\ mem'[p] = [Blank EXCEPT !.order = o, !.unclaimed = LinesOf(o)]
        /\ pc'[p] = "claim"
    BY <1>1, <1>8 DEF ReceiveOrder, Goto
  <2>2. mem'[p].order = o /\ mem'[p].todo = {} /\ mem'[p].unclaimed = LinesOf(o)
    BY <2>1 DEF Blank
  <2>3. LinesOf(mem[p].order)' = LinesOf(o)
    BY <2>2 DEF LinesOf
  <2>4. Orderly(p)' /\ InHand(p)' = {}
    BY <2>1, <2>2, <2>3 DEF Orderly, LineSteps, InHand
  <2> QED BY <1>8, <2>2, <2>4 DEF GoesOn
<1>9. ASSUME p = Sweeper, StartSweep PROVE Goal
  <2>1. /\ mem'[p] = [Blank EXCEPT
               !.todo = {l \in Lines : Pending(l)},
               !.past = {u \in Uploads : age[u] >= StagingClosed}]
        /\ pc'[p] = "next" /\ UNCHANGED claim
    BY <1>1, <1>9 DEF StartSweep, Goto, KeepTables
  <2>2. mem'[p].todo = {l \in Lines : Pending(l)}
    BY <2>1 DEF Blank
  <2>3. p \notin Handlers
    BY <1>9, ShapeAssumption
  <2>4. Orderly(p)'
    BY <2>1, <2>3 DEF Orderly, LineSteps
  <2>5. \A l \in InHand(p)' : l \in Lines /\ ~claim'[l].promoted
    BY <2>1, <2>2 DEF InHand, Pending
  <2> QED BY <2>3, <2>4, <2>5 DEF GoesOn
<1>10. ASSUME p = Sweeper, ListAbandoned PROVE Goal
  <2>1. PICK list : /\ mem'[p] = [Blank EXCEPT !.abandoned = list]
                    /\ pc'[p] \in {"idle", "drop"}
    BY <1>1, <1>10 DEF ListAbandoned, Goto
  <2> QED BY <1>10, <2>1, EndsOrderly, ShapeAssumption DEF Blank
<1>11. ASSUME p = Sweeper, NEW u \in Uploads, MarkAbandoned(u) \/ DropFails(u)
       PROVE  Goal
  <2>1. /\ mem'[p] = [mem[p] EXCEPT !.abandoned = @ \ {u}]
        /\ pc'[p] \in {"idle", "drop"} /\ pc[p] = "drop"
    BY <1>1, <1>11 DEF MarkAbandoned, DropFails, Goto, AfterDrops
  <2>2. mem'[p].todo = {}
    BY <1>1, <2>1 DEF Locals, Orderly
  <2> QED BY <1>11, <2>1, <2>2, EndsOrderly, ShapeAssumption
<1>12. ASSUME pc'[p] = pc[p], mem'[p] = mem[p] PROVE Goal
  BY <1>12
<1> HIDE DEF Goal
<1>13. Goal
  BY <1>2, <1>3, <1>4, <1>5, <1>6, <1>7, <1>8, <1>9, <1>10, <1>11, <1>12,
     RunMoves
<1> QED BY <1>13 DEF Goal

\* A line comes due only while no run and no purge is at work.
LEMMA DueWhenQuiet ==
    ASSUME TypeInv, [Next]_vars, NEW l \in Lines, Due(l)', ~Due(l)
    PROVE  Quiet
<1>1. /\ UploadOf[l] \in Uploads /\ OrderOf[l] \in Orders
      /\ delivered \in [Orders -> Deliveries] /\ age[UploadOf[l]] \in 0..3
      /\ age \in [Uploads -> 0..3]
  BY ShapeAssumption DEF TypeInv, TypeOK, CheckoutWindow, FallbackClosed
<1>2. ASSUME NEW o \in Orders, Deliver(o) PROVE FALSE
  BY <1>1, <1>2 DEF Deliver, Due
<1>3. ASSUME NEW o \in Orders, RunOut(o) PROVE Quiet
  BY <1>3 DEF RunOut
<1>4. ASSUME UNCHANGED delivered PROVE Quiet
  <2>1. age'[UploadOf[l]] = FallbackClosed /\ age[UploadOf[l]] # FallbackClosed
    BY <1>4 DEF Due
  <2>2. ASSUME NEW u \in Uploads, Age(u) PROVE Quiet
    <3>1. u = UploadOf[l]
      BY <1>1, <2>1, <2>2 DEF Age
    <3>2. age[u] = StagingClosed
      BY <1>1, <2>1, <2>2, <3>1 DEF Age, StagingClosed, FallbackClosed
    <3> QED BY <2>2, <3>2 DEF Age
  <2>3. ASSUME NEW u \in Uploads, NEW e \in Etags, Put(u, e) PROVE FALSE
    BY <2>1, <2>3 DEF Put
  <2>4. ASSUME NEW u \in Uploads, Expire(u) PROVE FALSE
    BY <2>1, <2>4 DEF Expire
  <2>5. ASSUME NEW p \in Promoters, DeleteStaging(p) PROVE FALSE
    BY <2>1, <2>5 DEF DeleteStaging, KeepRest, OthersKept
  <2> QED BY <2>1, <2>2, <2>3, <2>4, <2>5, ClockSteps
<1> QED BY <1>2, <1>3, <1>4, DeliveredSteps

\* What a purge has erased it had listed, and it is gone.
LEMMA ErasedWasListed ==
    ASSUME TypeInv, [Next]_vars, NEW q \in Purgers, purge'[q].erased # None
    PROVE  \/ purge'[q].erased = purge[q].erased
           \/ \E l \in purge[q].due : /\ purge'[q].erased = l /\ l \in Lines
                                      /\ EraseObject(q, l)
<1> DEFINE Goal ==
      \/ purge'[q].erased = purge[q].erased
      \/ \E l \in purge[q].due : /\ purge'[q].erased = l /\ l \in Lines
                                 /\ EraseObject(q, l)
<1>1. purge \in [Purgers -> [due : SUBSET Lines, erased : Lines \cup {None}]]
  BY DEF TypeInv, TypeOK
<1>2. ASSUME NEW r \in Purgers, StartPurge(r) PROVE Goal
  <2>1. PICK due : purge' = [purge EXCEPT ![r].due = due]
    BY <1>2 DEF StartPurge
  <2> QED BY <1>1, <2>1
<1>3. ASSUME NEW r \in Purgers, NEW k \in Lines, EraseObject(r, k) PROVE Goal
  <2>1. /\ purge' = [purge EXCEPT ![r] = [due |-> @.due \ {k}, erased |-> k]]
        /\ k \in purge[r].due
    BY <1>3 DEF EraseObject
  <2>2. CASE r = q
    <3>1. purge'[q].erased = k
      BY <1>1, <2>1, <2>2
    <3> QED BY <1>3, <2>1, <2>2, <3>1
  <2>3. CASE r # q
    BY <1>1, <2>1, <2>3
  <2> QED BY <2>2, <2>3
<1>4. ASSUME NEW r \in Purgers, NEW k \in Lines, EraseFails(r, k) PROVE Goal
  <2>1. purge' = [purge EXCEPT ![r].due = @ \ {k}]
    BY <1>4 DEF EraseFails
  <2> QED BY <1>1, <2>1
<1>5. ASSUME NEW r \in Purgers, MarkErased(r) \/ MarkErasedFails(r) PROVE Goal
  <2>1. purge' = [purge EXCEPT ![r].erased = None]
    BY <1>5 DEF MarkErased, MarkErasedFails
  <2> QED BY <1>1, <2>1
<1>6. ASSUME NEW r \in Purgers, PurgeDies(r) PROVE Goal
  <2>1. purge' = [purge EXCEPT ![r] = [due |-> {}, erased |-> None]]
    BY <1>6 DEF PurgeDies, Rest
  <2> QED BY <1>1, <2>1
<1>7. ASSUME NEW o \in Orders, Deliver(o) \/ RunOut(o) PROVE Goal
  BY <1>7 DEF Deliver, RunOut
<1>8. ASSUME UNCHANGED <<delivered, purge>> PROVE Goal
  BY <1>8
<1> HIDE DEF Goal
<1>9. Goal
  BY <1>2, <1>3, <1>4, <1>5, <1>6, <1>7, <1>8, DueSteps
<1> QED BY <1>9 DEF Goal

\* A claim is closed by the retention job's mark alone.
LEMMA ClosedByMark ==
    ASSUME TypeInv, [Next]_vars, NEW l \in Claimed',
           claim'[l].purged = "retention"
    PROVE  /\ l \in Claimed
           /\ \/ claim[l].purged = "retention"
              \/ \E q \in Purgers : MarkErased(q) /\ l = purge[q].erased
<1>1. "retention" # None /\ "retention" # "staging_expired"
      /\ "retention" # "changed_after_inspect"
  BY ShapeAssumption DEF Reasons
<1>2. l \in Claimed
  BY <1>1, ClaimedAnew DEF NewClaim
<1>3. claim \in [Lines -> Claims \cup {NoClaim}] /\ l \in Lines
      /\ claim[l] \in Claims
  BY <1>2 DEF TypeInv, TypeOK, Claimed
<1>4. ASSUME NEW p \in Promoters, MarkPromoted(p)
      PROVE  claim'[l].purged = claim[l].purged
  <2>1. claim'[l] \in {claim[l], [claim[l] EXCEPT !.promoted = TRUE]}
    BY <1>3, <1>4 DEF MarkPromoted
  <2> QED BY <1>3, <2>1 DEF Claims
<1>5. ASSUME NEW p \in Promoters, NEW k \in Lines, GiveUp(p) \/ Retire(p, k)
      PROVE  claim'[l] = claim[l]
  <2>1. claim'[l] \in {claim[l],
                       [claim[l] EXCEPT !.purged = "staging_expired"],
                       [claim[l] EXCEPT !.purged = "changed_after_inspect"]}
    BY <1>3, <1>5 DEF GiveUp, Retire
  <2>2. claim'[l] = claim[l] \/ claim'[l].purged # "retention"
    BY <1>1, <1>3, <2>1 DEF Claims
  <2> QED BY <2>2
<1>6. ASSUME NEW q \in Purgers, MarkErased(q)
      PROVE  claim'[l] = claim[l] \/ l = purge[q].erased
  BY <1>3, <1>6 DEF MarkErased
<1>7. ASSUME NEW h \in Handlers, NEW k \in Lines, ClaimLine(h, k)
      PROVE  claim'[l] = claim[l]
  BY <1>2, <1>3, <1>7 DEF ClaimLine, Claimed
<1>8. ASSUME NEW p \in Promoters, GiveUp(p) PROVE claim'[l] = claim[l]
  BY <1>3, <1>5, <1>8
<1> QED BY <1>2, <1>4, <1>5, <1>6, <1>7, <1>8, ClaimSteps

\* What is gone, and in no run's hand, stays gone.
LEMMA GoneStays ==
    ASSUME TypeInv, [Next]_vars, NEW l \in Lines, filed[l] = None,
           \A p \in Promoters : l \notin InHand(p)
    PROVE  filed'[l] = None
<1>1. filed \in [Lines -> Etags \cup {None}]
  BY DEF TypeInv, TypeOK
<1>2. ASSUME NEW p \in Promoters, NEW k \in Lines, CopyStaging(p, k)
      PROVE  filed'[l] = None
  BY <1>1, <1>2 DEF CopyStaging, InHand
<1>3. ASSUME NEW p \in Promoters, CopySibling(p) PROVE filed'[l] = None
  BY <1>1, <1>3 DEF CopySibling, InHand
<1>4. ASSUME NEW q \in Purgers, NEW k \in Lines, EraseObject(q, k)
      PROVE  filed'[l] = None
  BY <1>1, <1>4 DEF EraseObject
<1> QED BY <1>2, <1>3, <1>4, FiledSteps

\* What is filed, and in no run's hand, is taken up by none.
LEMMA FiledNotTaken ==
    ASSUME TypeInv, RunsOrderly, [Next]_vars, NEW l \in Claimed,
           claim[l].promoted, \A p \in Promoters : l \notin InHand(p)
    PROVE  claim'[l].promoted /\ \A p \in Promoters : l \notin InHand(p)'
<1>1. claim'[l].promoted
  BY ClaimGoesOn
<1>2. ASSUME NEW p \in Promoters, l \in InHand(p)' PROVE FALSE
  <2>1. CASE GoesOn(p)
    BY <1>1, <1>2, <2>1 DEF GoesOn
  <2>2. CASE pc'[p] = pc[p] /\ mem'[p] = mem[p]
    BY <1>2, <2>2 DEF InHand
  <2> QED BY <2>1, <2>2, RunsGoOn
<1> QED BY <1>1, <1>2

\* A handler's lines are not due: its order arrived in time, and no window
\* ends while it works.
LEMMA InTimeNext ==
    ASSUME TypeInv, GoneInv, [Next]_vars
    PROVE  HandlersInTime'
<1> SUFFICES ASSUME NEW h \in Handlers, pc'[h] # "idle",
                    NEW l \in LinesOf(mem[h].order)', Due(l)'
             PROVE  FALSE
  BY DEF HandlersInTime
<1>1. l \in Lines /\ OrderOf[l] = mem'[h].order /\ h \in Promoters
  BY DEF LinesOf, Promoters
<1>2. CASE pc[h] # "idle" /\ mem'[h].order = mem[h].order
  <2>1. ~Due(l)
    BY <1>1, <1>2 DEF GoneInv, HandlersInTime, LinesOf
  <2>2. Quiet
    BY <1>1, <2>1, DueWhenQuiet
  <2> QED BY <1>1, <1>2, <2>2 DEF Quiet
<1>3. ASSUME NEW o \in Orders, ReceiveOrder(h, o), mem'[h].order = o
      PROVE  FALSE
  <2>1. l \in LinesOf(o) /\ InTime(o) /\ UNCHANGED <<age, delivered>>
    BY <1>1, <1>3 DEF LinesOf, ReceiveOrder, OthersKept
  <2>2. age[UploadOf[l]] # FallbackClosed /\ delivered[o] # "long"
    BY <2>1 DEF InTime, FallbackClosed
  <2> QED BY <1>1, <1>3, <2>1, <2>2 DEF Due
<1>4. CASE pc'[h] = pc[h] /\ mem'[h] = mem[h]
  BY <1>2, <1>4
<1>5. RunsOrderly
  BY DEF GoneInv
<1> QED BY <1>1, <1>2, <1>3, <1>4, <1>5, RunsGoOn DEF GoesOn

\* A run stays orderly.
LEMMA OrderlyNext ==
    ASSUME TypeInv, RunsOrderly, [Next]_vars
    PROVE  RunsOrderly'
<1> SUFFICES ASSUME NEW p \in Promoters PROVE Orderly(p)'
  BY DEF RunsOrderly
<1>1. CASE pc'[p] = pc[p] /\ mem'[p] = mem[p]
  <2>1. LinesOf(mem[p].order)' = LinesOf(mem[p].order)
    BY <1>1 DEF LinesOf
  <2> QED BY <1>1, <2>1 DEF RunsOrderly, Orderly
<1> QED BY <1>1, RunsGoOn DEF GoesOn

\* Of two runs that have one line in hand, one is a handler: it is not due.
LEMMA SharedIsNotDue ==
    ASSUME TypeInv, GoneInv, NEW p \in Promoters, NEW r \in Promoters, p # r,
           NEW l \in InHand(p), pc[r] \in LineSteps, l = mem[r].line
    PROVE  ~Due(l)
<1>1. Orderly(p) /\ Orderly(r)
  BY DEF GoneInv, RunsOrderly
<1>2. "siblings" \in LineSteps /\ "copySibling" \in LineSteps /\ "idle" \notin LineSteps
  BY DEF LineSteps, Steps
<1>3. pc[p] # "idle"
  BY <1>1, <1>2 DEF Orderly, InHand
<1>4. CASE p \in Handlers
  BY <1>1, <1>2, <1>3, <1>4 DEF Orderly, InHand, GoneInv, HandlersInTime
<1>5. CASE r \in Handlers
  BY <1>1, <1>2, <1>5 DEF Orderly, GoneInv, HandlersInTime
<1> QED BY <1>4, <1>5 DEF Promoters

\* What a run has in hand and another filed is not due.
LEMMA CopiedNext ==
    ASSUME TypeInv, GoneInv, [Next]_vars
    PROVE  CopiedIsNotDue'
<1> SUFFICES ASSUME NEW p \in Promoters, NEW l \in InHand(p)',
                    claim'[l].promoted, Due(l)'
             PROVE  FALSE
  BY DEF CopiedIsNotDue
<1>1. RunsOrderly /\ Orderly(p)
  BY DEF GoneInv, RunsOrderly
<1>2. l \in InHand(p)
  <2>1. CASE pc'[p] = pc[p] /\ mem'[p] = mem[p]
    BY <2>1 DEF InHand
  <2> QED BY <1>1, <2>1, RunsGoOn DEF GoesOn
<1>3. l \in Claimed /\ l \in Lines
  <2>1. Fits(pc[p], mem[p]) /\ Claimed \subseteq Lines
    BY DEF TypeInv, RunsFit, Claimed
  <2> QED BY <1>2, <2>1 DEF InHand, Fits, LineSteps, Steps
<1>4. Due(l)
  <2>1. pc[p] # "idle"
    BY <1>1, <1>2 DEF Orderly, InHand
  <2> QED BY <1>3, <2>1, DueWhenQuiet DEF Quiet
<1>5. ~claim[l].promoted
  BY <1>2, <1>4 DEF GoneInv, CopiedIsNotDue
<1>6. PICK r \in Promoters : MarkPromoted(r) /\ l = mem[r].line
  BY <1>3, <1>5, ClaimGoesOn, PromotedByMark
<1>7. pc[r] = "mark" /\ pc[r] \in LineSteps
  BY <1>6 DEF MarkPromoted, LineSteps, Steps
<1>8. CASE r = p
  BY <1>1, <1>2, <1>6, <1>7, <1>8 DEF Orderly, InHand
<1>9. CASE r # p
  BY <1>2, <1>4, <1>6, <1>7, <1>9, SharedIsNotDue
<1> QED BY <1>8, <1>9

\* Every step keeps it so.
LEMMA GoneNext ==
    ASSUME TypeInv, GoneInv, [Next]_vars
    PROVE  GoneInv'
<1>1. /\ RunsOrderly /\ CopiedIsNotDue /\ DoomedIsFiled /\ ClosedIsFiled
      /\ ErasedIsGone /\ DeletedIsGone
  BY DEF GoneInv
<1>2. \A q \in Purgers : Doomed(q) \subseteq Claimed /\ Claimed \subseteq Lines
  BY DEF TypeInv, PurgesFit, Doomed, Claimed
<1>3. ASSUME NEW q \in Purgers, NEW l \in Doomed(q)'
      PROVE  claim'[l].promoted /\ \A p \in Promoters : l \notin InHand(p)'
  <2>1. CASE l \in Doomed(q)
    BY <1>1, <1>2, <2>1, FiledNotTaken DEF DoomedIsFiled
  <2>2. CASE Download(l) /\ Due(l)
    <3>1. \A p \in Promoters : l \notin InHand(p)
      BY <1>1, <2>2 DEF CopiedIsNotDue, Download
    <3> QED BY <1>1, <2>2, <3>1, FiledNotTaken DEF Download
  <2>3. CASE l \in purge'[q].due
    BY <2>1, <2>2, <2>3, ListedWhenDue DEF Doomed
  <2>4. CASE purge'[q].erased = l /\ l # None
    BY <2>1, <2>4, ErasedWasListed DEF Doomed
  <2> QED BY <2>3, <2>4 DEF Doomed
<1>4. ASSUME NEW l \in Claimed', claim'[l].purged = "retention"
      PROVE  /\ claim'[l].promoted /\ \A p \in Promoters : l \notin InHand(p)'
             /\ filed'[l] = None
  <2>1. l \in Claimed /\ l \in Lines
    BY <1>2, <1>4, ClosedByMark DEF Claimed
  <2>2. CASE claim[l].purged = "retention"
    BY <1>1, <2>1, <2>2, FiledNotTaken, GoneStays DEF ClosedIsFiled, DeletedIsGone
  <2>3. ASSUME NEW q \in Purgers, MarkErased(q), l = purge[q].erased
        PROVE  /\ claim'[l].promoted /\ \A p \in Promoters : l \notin InHand(p)'
               /\ filed'[l] = None
    <3>1. l \in Doomed(q) /\ purge[q].erased # None
      BY <2>3 DEF Doomed, MarkErased
    <3>2. filed[l] = None
      BY <1>1, <2>3, <3>1 DEF ErasedIsGone
    <3>3. claim[l].promoted /\ \A p \in Promoters : l \notin InHand(p)
      BY <1>1, <3>1 DEF DoomedIsFiled
    <3> QED BY <1>1, <2>1, <3>2, <3>3, FiledNotTaken, GoneStays
  <2> QED BY <1>4, <2>2, <2>3, ClosedByMark
<1>5. ASSUME NEW q \in Purgers, purge'[q].erased # None
      PROVE  filed'[purge'[q].erased] = None
  <2>1. CASE purge'[q].erased = purge[q].erased
    <3>1. PICK l \in Doomed(q) : l = purge[q].erased
      BY <1>5, <2>1 DEF Doomed
    <3> QED BY <1>1, <1>2, <1>5, <2>1, <3>1, GoneStays
            DEF ErasedIsGone, DoomedIsFiled
  <2>2. ASSUME NEW l \in Lines, purge'[q].erased = l, EraseObject(q, l)
        PROVE  filed'[l] = None
    BY <2>2 DEF EraseObject, TypeInv, TypeOK
  <2> QED BY <1>5, <2>1, <2>2, ErasedWasListed
<1>6. DoomedIsFiled' /\ ClosedIsFiled' /\ ErasedIsGone' /\ DeletedIsGone'
  BY <1>3, <1>4, <1>5
     DEF DoomedIsFiled, ClosedIsFiled, ErasedIsGone, DeletedIsGone
<1> QED BY <1>1, <1>6, OrderlyNext, InTimeNext, CopiedNext DEF GoneInv

\* A claim closed by the retention job has no object left in the bucket: a late
\* copy by a handler or the sweep never brings one back, since no run that may
\* still copy a line is under way when its window ends.
THEOREM DeletedArtIsGone == Spec => []DeletedIsGone
<1>1. Init => TypeInv /\ GoneInv
  <2> SUFFICES ASSUME Init PROVE GoneInv
    BY TypeInit
  <2>1. Claimed = {} /\ \A p \in Promoters : InHand(p) = {}
    BY DEF Init, Claimed, InHand, Blank
  <2>2. RunsOrderly /\ HandlersInTime
    BY DEF Init, RunsOrderly, Orderly, HandlersInTime, Blank, LineSteps, Promoters
  <2>3. \A q \in Purgers : Doomed(q) = {} /\ purge[q].erased = None
    BY DEF Init, Doomed, Rest
  <2> QED BY <2>1, <2>2, <2>3 DEF GoneInv, CopiedIsNotDue, DoomedIsFiled,
             ClosedIsFiled, ErasedIsGone, DeletedIsGone
<1>2. TypeInv /\ GoneInv /\ [Next]_vars => (TypeInv /\ GoneInv)'
  BY TypeNext, GoneNext
<1>3. GoneInv => DeletedIsGone
  BY DEF GoneInv
<1> QED BY <1>1, <1>2, <1>3, PTL DEF Spec

================================================================================
