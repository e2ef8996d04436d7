------------------------------- MODULE Artwork --------------------------------
(***************************************************************************)
(* A customer's artwork from upload to deletion: the presigned upload, the *)
(* inspection that fixes which bytes were checked, the ledger check at     *)
(* checkout, the claim each paid order line takes on its upload, the copy  *)
(* onto the order (by the order.placed subscriber or by the sweeper), and  *)
(* the two ways a copy goes: the staging lifecycle rule and the retention  *)
(* job.  One step is one call to the database or to the bucket.            *)
(*                                                                         *)
(* A claim is named after its line (line_item_id is unique), and so is its *)
(* object under artwork/: storage_key is a function of the line and is set *)
(* together with promoted_at.  A file is its ETag.                         *)
(*                                                                         *)
(* Days are phases: an upload is in its checkout window, its margin, past  *)
(* the staging window, or past the retention fallback.  Assumed of time: a *)
(* run, and the wait for an order or for its event, ends before the next   *)
(* retention window does, 23 days at the least (Quiet, InTime).             *)
(*                                                                         *)
(* Bounds: MaxPuts writes of an upload, MaxDeliveries of one order.placed, *)
(* MaxFaults calls that fail or runs that die.                             *)
(***************************************************************************)
EXTENDS Naturals, FiniteSets

CONSTANTS
    Uploads, Orders, Lines,
    OrderOf,        \* OrderOf[l]: the order line l is on
    UploadOf,       \* UploadOf[l]: the upload line l carries
    Etags,          \* the files a customer may send, by ETag
    Printable,      \* those that are what they say, and whose size can be read
    Handlers,       \* how many order.placed handlers run beside each other
    Sweeper,        \* the promote-pending-artwork job, never beside itself
    Purgers,        \* purge-artwork: the job, and the script run by hand
    Inspectors,     \* inspect requests in flight
    MaxPuts, MaxDeliveries, MaxFaults,
    None

\* Why a claim is closed.  The retention job's two reasons (delivered,
\* undelivered) are one: nothing that reads them tells them apart.
Reasons == {"staging_expired", "changed_after_inspect", "retention"}

ASSUME ShapeAssumption ==
    /\ OrderOf \in [Lines -> Orders] /\ UploadOf \in [Lines -> Uploads]
    /\ Sweeper \notin Handlers
    /\ Printable \subseteq Etags
    /\ None \notin Lines \cup Etags \cup Orders \cup Uploads \cup Reasons

ASSUME BoundsAssumption ==
    MaxPuts \in Nat /\ MaxDeliveries \in Nat /\ MaxFaults \in Nat

VARIABLES
    asset, claim,              \* the artwork module's two tables
    staging, filed,            \* the bucket: under staging/, under artwork/
    puts,                      \* how often an upload was written
    age, delivered,            \* where the two retention clocks stand
    cart, sent,                \* each order's checkout; its event's deliveries
    pc, mem,                   \* handlers and sweeper: next call, locals
    purge,                     \* purgers: what is due and being deleted
    seen, told,                \* inspectors' locals; ETags answered "checked"
    faults

tableVars  == <<asset, claim>>
bucketVars == <<staging, filed, puts>>
clockVars  == <<age, delivered>>
orderVars  == <<cart, sent>>
runVars    == <<pc, mem>>
inspectVars == <<seen, told>>
vars == <<tableVars, bucketVars, clockVars, orderVars, runVars, purge,
          inspectVars, faults>>

(***************************************************************************)
(* State.                                                                  *)
(***************************************************************************)
Promoters == Handlers \cup {Sweeper}

LinesOf(o)   == {l \in Lines : OrderOf[l] = o}
Siblings(u)  == {l \in Lines : UploadOf[l] = u}

Claims  == [promoted : BOOLEAN, purged : Reasons \cup {None}]
NoClaim == [promoted |-> None]
NewClaim == [promoted |-> FALSE, purged |-> None]
Claimed == {l \in Lines : claim[l] # NoClaim}

Pending(l)  == l \in Claimed /\ ~claim[l].promoted /\ claim[l].purged = None
Download(l) == l \in Claimed /\ claim[l].promoted /\ claim[l].purged = None

\* The phases of an upload's clock, and of its order's delivery: "late" is a
\* delivery after the fallback window closed.
CheckoutWindow == 0
Margin         == 1
StagingClosed  == 2
FallbackClosed == 3

Deliveries == {"no", "recent", "late", "long"}

Steps == {"idle", "claim", "next", "siblings", "copySibling", "mark", "tidy",
          "delete", "listRetired", "retire", "giveUp", "drop"}

\* A run's locals: the handler's order, lines still to claim, claims still to
\* promote, the line it works on, the sibling it copies from, whether staging
\* held an object when its own copy failed, the claims to retire, the uploads
\* its cutoff puts past the window and those it found abandoned.
Locals == [order : Orders \cup {None},
           unclaimed : SUBSET Lines, todo : SUBSET Lines,
           line : Lines \cup {None}, source : Lines \cup {None},
           changed : BOOLEAN, retired : SUBSET Lines,
           past : SUBSET Uploads, abandoned : SUBSET Uploads]

Blank == [order |-> None, unclaimed |-> {}, todo |-> {}, line |-> None,
          source |-> None, changed |-> FALSE, retired |-> {}, past |-> {},
          abandoned |-> {}]

Rest == [due |-> {}, erased |-> None]
Away == [upload |-> None, etag |-> None]

TypeOK ==
    /\ asset \in [Uploads -> [recorded : BOOLEAN, purged : BOOLEAN,
                              inspected : Printable \cup {None}]]
    /\ claim \in [Lines -> Claims \cup {NoClaim}]
    /\ staging \in [Uploads -> Etags \cup {None}]
    /\ filed \in [Lines -> Etags \cup {None}]
    /\ puts \in [Uploads -> 0..MaxPuts]
    /\ age \in [Uploads -> CheckoutWindow..FallbackClosed]
    /\ delivered \in [Orders -> Deliveries]
    /\ cart \in [Orders -> {"open", "prepared", "placed"}]
    /\ sent \in [Orders -> 0..MaxDeliveries]
    /\ pc \in [Promoters -> Steps] /\ mem \in [Promoters -> Locals]
    /\ purge \in [Purgers -> [due : SUBSET Lines, erased : Lines \cup {None}]]
    /\ seen \in [Inspectors -> [upload : Uploads, etag : Printable] \cup {Away}]
    /\ told \in [Uploads -> SUBSET Printable]
    /\ faults \in 0..MaxFaults

Init ==
    /\ asset = [u \in Uploads |-> [recorded |-> FALSE, purged |-> FALSE,
                                   inspected |-> None]]
    /\ claim = [l \in Lines |-> NoClaim]
    /\ staging = [u \in Uploads |-> None] /\ filed = [l \in Lines |-> None]
    /\ puts = [u \in Uploads |-> 0] /\ age = [u \in Uploads |-> CheckoutWindow]
    /\ delivered = [o \in Orders |-> "no"]
    /\ cart = [o \in Orders |-> "open"] /\ sent = [o \in Orders |-> 0]
    /\ pc = [p \in Promoters |-> "idle"] /\ mem = [p \in Promoters |-> Blank]
    /\ purge = [q \in Purgers |-> Rest]
    /\ seen = [i \in Inspectors |-> Away] /\ told = [u \in Uploads |-> {}]
    /\ faults = 0

(***************************************************************************)
(* Time.  The bucket's rule counts seven days from the last write, which   *)
(* comes after the upload was recorded.                                    *)
(***************************************************************************)
Quiet == /\ \A p \in Promoters : pc[p] = "idle"
         /\ \A q \in Purgers : purge[q] = Rest

\* The order is placed, and its event arrives, before a window of weeks ends.
InTime(o) == /\ \A l \in LinesOf(o) : age[UploadOf[l]] < FallbackClosed
             /\ delivered[o] # "long"

Age(u) ==
    /\ asset[u].recorded /\ age[u] < FallbackClosed
    /\ age[u] = StagingClosed => Quiet
    /\ age' = [age EXCEPT ![u] = @ + 1]
    /\ UNCHANGED <<tableVars, bucketVars, delivered, orderVars, runVars, purge,
                   inspectVars, faults>>

Expire(u) ==
    /\ age[u] >= StagingClosed /\ staging[u] # None
    /\ staging' = [staging EXCEPT ![u] = None]
    /\ UNCHANGED <<tableVars, filed, puts, clockVars, orderVars, runVars, purge,
                   inspectVars, faults>>

\* What deliveredAtByOrder reports of the order.
Deliver(o) ==
    /\ cart[o] = "placed" /\ delivered[o] = "no"
    /\ delivered' = [delivered EXCEPT ![o] =
           IF \E l \in LinesOf(o) : age[UploadOf[l]] = FallbackClosed
           THEN "late" ELSE "recent"]
    /\ UNCHANGED <<tableVars, bucketVars, age, orderVars, runVars, purge,
                   inspectVars, faults>>

\* Thirty days later; the staging window of seven closed long before.
RunOut(o) ==
    /\ delivered[o] \in {"recent", "late"} /\ Quiet
    /\ \A l \in LinesOf(o) : age[UploadOf[l]] >= StagingClosed
    /\ delivered' = [delivered EXCEPT ![o] = "long"]
    /\ UNCHANGED <<tableVars, bucketVars, age, orderVars, runVars, purge,
                   inspectVars, faults>>

(***************************************************************************)
(* Upload and inspection.                                                  *)
(***************************************************************************)
RecordUpload(u) ==
    /\ ~asset[u].recorded
    /\ asset' = [asset EXCEPT ![u].recorded = TRUE]
    /\ UNCHANGED <<claim, bucketVars, clockVars, orderVars, runVars, purge,
                   inspectVars, faults>>

\* The presigned URL takes any bytes of the signed size until it expires,
\* within the hour: before the inspection, after it or after the order.
Put(u, e) ==
    /\ asset[u].recorded /\ age[u] = CheckoutWindow /\ puts[u] < MaxPuts
    /\ staging' = [staging EXCEPT ![u] = e]
    /\ puts' = [puts EXCEPT ![u] = @ + 1]
    /\ UNCHANGED <<tableVars, filed, clockVars, orderVars, runVars, purge,
                   inspectVars, faults>>

Unclaimed(u) == Siblings(u) \cap Claimed = {}

\* Of an accepted type, and a raster's width and height can be read.
inspectArtworkBytes(e) == e \in Printable

\* The row is read, then the head of the object; a check already on record for
\* other bytes is answered "changed" here, bytes that are of no accepted type
\* or of no readable size are rejected.
InspectHead(i, u) ==
    /\ seen[i] = Away
    /\ asset[u].recorded /\ ~asset[u].purged /\ Unclaimed(u)
    /\ inspectArtworkBytes(staging[u]) /\ asset[u].inspected \in {None, staging[u]}
    /\ IF asset[u].inspected = None
       THEN /\ seen' = [seen EXCEPT ![i] = [upload |-> u, etag |-> staging[u]]]
            /\ UNCHANGED told
       ELSE /\ told' = [told EXCEPT ![u] = @ \cup {staging[u]}]
            /\ UNCHANGED seen
    /\ UNCHANGED <<tableVars, bucketVars, clockVars, orderVars, runVars, purge,
                   faults>>

\* Mutant: the update names the row only, so the later inspection wins.
RecordInspectionAlways(i) ==
    LET u == seen[i].upload
        e == seen[i].etag IN
    /\ u # None
    /\ asset' = [asset EXCEPT ![u].inspected = e]
    /\ told' = [told EXCEPT ![u] = @ \cup {e}]
    /\ seen' = [seen EXCEPT ![i] = Away]
    /\ UNCHANGED <<claim, bucketVars, clockVars, orderVars, runVars, purge,
                   faults>>

\* The update's selector asks that no check is on record; a lost race is
\* answered "checked" only when the winner measured the same bytes.
RecordInspection(i) ==
    LET u == seen[i].upload
        e == seen[i].etag IN
    /\ u # None
    /\ asset' = IF asset[u].inspected = None
                THEN [asset EXCEPT ![u].inspected = e] ELSE asset
    /\ told' = IF asset'[u].inspected = e
               THEN [told EXCEPT ![u] = @ \cup {e}] ELSE told
    /\ seen' = [seen EXCEPT ![i] = Away]
    /\ UNCHANGED <<claim, bucketVars, clockVars, orderVars, runVars, purge,
                   faults>>

(***************************************************************************)
(* Checkout: the ledger is asked when the cart is prepared, and not again  *)
(* when it is completed.                                                   *)
(***************************************************************************)
InLedger(u) == /\ asset[u].recorded /\ ~asset[u].purged /\ Unclaimed(u)
               /\ age[u] = CheckoutWindow /\ asset[u].inspected # None

PrepareCart(o) ==
    /\ cart[o] = "open" /\ \A l \in LinesOf(o) : InLedger(UploadOf[l])
    /\ cart' = [cart EXCEPT ![o] = "prepared"]
    /\ UNCHANGED <<tableVars, bucketVars, clockVars, sent, runVars, purge,
                   inspectVars, faults>>

PlaceOrder(o) ==
    /\ cart[o] = "prepared" /\ InTime(o)
    /\ cart' = [cart EXCEPT ![o] = "placed"]
    /\ UNCHANGED <<tableVars, bucketVars, clockVars, sent, runVars, purge,
                   inspectVars, faults>>

(***************************************************************************)
(* The runs.  OthersKept is what no step of a handler or sweep touches.    *)
(***************************************************************************)
OthersKept == UNCHANGED <<puts, clockVars, cart, inspectVars>>

Goto(p, step)    == pc' = [pc EXCEPT ![p] = step]
KeepTables       == UNCHANGED <<tableVars, staging, filed>>
KeepRest         == UNCHANGED <<sent, purge, faults>> /\ OthersKept

\* The subscriber: every line is claimed before any is copied.
ReceiveOrder(h, o) ==
    /\ pc[h] = "idle" /\ cart[o] = "placed"
    /\ sent[o] < MaxDeliveries /\ InTime(o)
    /\ sent' = [sent EXCEPT ![o] = @ + 1]
    /\ Goto(h, "claim")
    /\ mem' = [mem EXCEPT ![h] =
           [Blank EXCEPT !.order = o, !.unclaimed = LinesOf(o)]]
    /\ KeepTables /\ UNCHANGED <<purge, faults>> /\ OthersKept

AfterClaims(left) == IF left = {} THEN "next" ELSE "claim"

\* The insert, or the row the unique line_item_id already has; one already
\* promoted needs nothing more.
ClaimLine(h, l) ==
    /\ pc[h] = "claim" /\ l \in mem[h].unclaimed
    /\ claim' = IF l \in Claimed THEN claim
                ELSE [claim EXCEPT ![l] = NewClaim]
    /\ mem' = [mem EXCEPT ![h].unclaimed = @ \ {l},
                          ![h].todo = @ \cup {k \in {l} : ~claim'[k].promoted}]
    /\ Goto(h, AfterClaims(mem[h].unclaimed \ {l}))
    /\ UNCHANGED <<asset, staging, filed>> /\ KeepRest

\* The sweep fixes its cutoff and lists the pending claims once.
StartSweep ==
    /\ pc[Sweeper] = "idle"
    /\ mem' = [mem EXCEPT ![Sweeper] =
           [Blank EXCEPT !.todo = {l \in Lines : Pending(l)},
                         !.past = {u \in Uploads : age[u] >= StagingClosed}]]
    /\ Goto(Sweeper, "next")
    /\ KeepTables /\ KeepRest

\* A line of the list is done with.
NextLine(p) ==
    /\ Goto(p, "next")
    /\ mem' = [mem EXCEPT ![p].line = None, ![p].source = None,
                          ![p].changed = FALSE, ![p].retired = {}]

(***************************************************************************)
(* promoteArtworkClaim, one line at a time.                                *)
(***************************************************************************)
\* Mutant: the copy is not bound to the inspected ETag.
CopyStagingUnbound(p, l) ==
    LET u == UploadOf[l] IN
    /\ pc[p] = "next" /\ l \in mem[p].todo
    /\ IF staging[u] # None
       THEN filed' = [filed EXCEPT ![l] = staging[u]] /\ Goto(p, "mark")
       ELSE Goto(p, "siblings") /\ UNCHANGED filed
    /\ mem' = [mem EXCEPT ![p].todo = @ \ {l}, ![p].line = l]
    /\ UNCHANGED <<tableVars, staging>> /\ KeepRest

\* Mutant: staging is moved, so it is gone before the claim is marked.
MoveStaging(p, l) ==
    LET u == UploadOf[l] IN
    /\ pc[p] = "next" /\ l \in mem[p].todo
    /\ IF staging[u] # None /\ staging[u] = asset[u].inspected
       THEN /\ filed' = [filed EXCEPT ![l] = staging[u]] /\ Goto(p, "mark")
            /\ staging' = [staging EXCEPT ![u] = None]
       ELSE Goto(p, "siblings") /\ UNCHANGED <<filed, staging>>
    /\ mem' = [mem EXCEPT ![p].todo = @ \ {l}, ![p].line = l,
                          ![p].changed = staging[u] # None]
    /\ UNCHANGED tableVars /\ KeepRest

\* The copy from staging is bound to the ETag the inspection recorded.
CopyStaging(p, l) ==
    LET u == UploadOf[l] IN
    /\ pc[p] = "next" /\ l \in mem[p].todo
    /\ IF staging[u] # None /\ staging[u] = asset[u].inspected
       THEN filed' = [filed EXCEPT ![l] = staging[u]] /\ Goto(p, "mark")
       ELSE Goto(p, "siblings") /\ UNCHANGED filed
    /\ mem' = [mem EXCEPT ![p].todo = @ \ {l}, ![p].line = l,
                          ![p].changed = staging[u] # None]
    /\ UNCHANGED <<tableVars, staging>> /\ KeepRest

\* What a copy may be taken from instead: another line's, filed and kept.
SiblingSources(l) ==
    {s \in Siblings(UploadOf[l]) \ {l} : Download(s)}

\* The list of claims comes in no given order.
FindSibling(p) ==
    /\ pc[p] = "siblings"
    /\ \E s \in SiblingSources(mem[p].line) :
           mem' = [mem EXCEPT ![p].source = s]
    /\ Goto(p, "copySibling")
    /\ KeepTables /\ KeepRest

\* Mutant: the sweep never gives up on a missing object.
NoSiblingRetried(p) ==
    /\ pc[p] = "siblings" /\ SiblingSources(mem[p].line) = {}
    /\ IF mem[p].changed THEN Goto(p, "listRetired") /\ UNCHANGED mem
       ELSE NextLine(p)
    /\ KeepTables /\ KeepRest

\* Nothing to copy from.  Changed bytes retire the upload's lines; a missing
\* object is given up by a sweep whose cutoff the upload is past.
NoSibling(p) ==
    LET u == UploadOf[mem[p].line] IN
    /\ pc[p] = "siblings" /\ SiblingSources(mem[p].line) = {}
    /\ \/ mem[p].changed /\ Goto(p, "listRetired") /\ UNCHANGED mem
       \/ /\ ~mem[p].changed /\ u \in mem[p].past
          /\ Goto(p, "giveUp") /\ UNCHANGED mem
       \/ ~mem[p].changed /\ u \notin mem[p].past /\ NextLine(p)
    /\ KeepTables /\ KeepRest

\* A sibling's object the purge already took fails the line.
CopySibling(p) ==
    LET s == mem[p].source IN
    /\ pc[p] = "copySibling"
    /\ IF filed[s] # None
       THEN /\ filed' = [filed EXCEPT ![mem[p].line] = filed[s]]
            /\ Goto(p, "mark") /\ UNCHANGED mem
       ELSE NextLine(p) /\ UNCHANGED filed
    /\ UNCHANGED <<tableVars, staging>> /\ KeepRest

MarkPromoted(p) ==
    /\ pc[p] = "mark"
    /\ claim' = [claim EXCEPT ![mem[p].line].promoted = TRUE]
    /\ IF mem[p].source = None
       THEN Goto(p, "tidy") /\ UNCHANGED mem
       ELSE NextLine(p)
    /\ UNCHANGED <<asset, staging, filed>> /\ KeepRest

StagingStillNeeded(u) == \E l \in Siblings(u) : Pending(l)

\* Read now, acted on in the next call.
CheckStaging(p) ==
    /\ pc[p] = "tidy"
    /\ IF StagingStillNeeded(UploadOf[mem[p].line])
       THEN NextLine(p)
       ELSE Goto(p, "delete") /\ UNCHANGED mem
    /\ KeepTables /\ KeepRest

DeleteStaging(p) ==
    /\ pc[p] = "delete"
    /\ staging' = [staging EXCEPT ![UploadOf[mem[p].line]] = None]
    /\ NextLine(p)
    /\ UNCHANGED <<tableVars, filed>> /\ KeepRest

\* retireChangedUpload: the claims pending when listed, marked one by one.
ListRetired(p) ==
    LET pending == {l \in Siblings(UploadOf[mem[p].line]) : Pending(l)} IN
    /\ pc[p] = "listRetired"
    /\ IF pending = {} THEN NextLine(p)
       ELSE /\ mem' = [mem EXCEPT ![p].retired = pending]
            /\ Goto(p, "retire")
    /\ KeepTables /\ KeepRest

Retire(p, l) ==
    /\ pc[p] = "retire" /\ l \in mem[p].retired
    /\ claim' = [claim EXCEPT ![l].purged = "changed_after_inspect"]
    /\ IF mem[p].retired = {l} THEN NextLine(p)
       ELSE /\ mem' = [mem EXCEPT ![p].retired = @ \ {l}]
            /\ UNCHANGED pc
    /\ UNCHANGED <<asset, staging, filed>> /\ KeepRest

\* The sweep's own mark, on the claim as it was listed.
GiveUp(p) ==
    /\ pc[p] = "giveUp"
    /\ claim' = [claim EXCEPT ![mem[p].line].purged = "staging_expired"]
    /\ NextLine(p)
    /\ UNCHANGED <<asset, staging, filed>> /\ KeepRest

EndHandler(h) ==
    /\ h # Sweeper /\ pc[h] = "next" /\ mem[h].todo = {}
    /\ Goto(h, "idle") /\ mem' = [mem EXCEPT ![h] = Blank]
    /\ KeepTables /\ KeepRest

\* The sweep's second list: uploads past the cutoff that no line claims.
ListAbandoned ==
    LET list == {u \in mem[Sweeper].past :
                     asset[u].recorded /\ ~asset[u].purged /\ Unclaimed(u)} IN
    /\ pc[Sweeper] = "next" /\ mem[Sweeper].todo = {}
    /\ Goto(Sweeper, IF list = {} THEN "idle" ELSE "drop")
    /\ mem' = [mem EXCEPT ![Sweeper] = [Blank EXCEPT !.abandoned = list]]
    /\ KeepTables /\ KeepRest

AfterDrops(left) == IF left = {} THEN "idle" ELSE "drop"

MarkAbandoned(u) ==
    /\ pc[Sweeper] = "drop" /\ u \in mem[Sweeper].abandoned
    /\ asset' = [asset EXCEPT ![u].purged = TRUE]
    /\ mem' = [mem EXCEPT ![Sweeper].abandoned = @ \ {u}]
    /\ Goto(Sweeper, AfterDrops(mem[Sweeper].abandoned \ {u}))
    /\ UNCHANGED <<claim, staging, filed>> /\ KeepRest

(***************************************************************************)
(* purge-artwork: 30 days after delivery, or 60 after upload while nothing *)
(* was delivered.                                                          *)
(***************************************************************************)
\* Mutant: the fallback counts for an order that was delivered too.
DueByUpload(l) == \/ delivered[OrderOf[l]] = "long"
                  \/ age[UploadOf[l]] = FallbackClosed

Due(l) == \/ delivered[OrderOf[l]] = "long"
          \/ /\ delivered[OrderOf[l]] = "no"
             /\ age[UploadOf[l]] = FallbackClosed

PurgeKept == UNCHANGED <<asset, staging, puts, clockVars, orderVars, runVars,
                         inspectVars>>

StartPurge(q) ==
    LET due == {l \in Lines : Download(l) /\ Due(l)} IN
    /\ purge[q] = Rest /\ due # {}
    /\ purge' = [purge EXCEPT ![q].due = due]
    /\ UNCHANGED <<claim, filed, faults>> /\ PurgeKept

EraseObject(q, l) ==
    /\ purge[q].erased = None /\ l \in purge[q].due
    /\ filed' = [filed EXCEPT ![l] = None]
    /\ purge' = [purge EXCEPT ![q] = [due |-> @.due \ {l}, erased |-> l]]
    /\ UNCHANGED <<claim, faults>> /\ PurgeKept

MarkErased(q) ==
    /\ purge[q].erased # None
    /\ claim' = [claim EXCEPT ![purge[q].erased].purged = "retention"]
    /\ purge' = [purge EXCEPT ![q].erased = None]
    /\ UNCHANGED <<filed, faults>> /\ PurgeKept

(***************************************************************************)
(* Failures.  A call that fails ends the work on its line, or its item, and*)
(* the run goes on; a crash ends the run.  A write that fails after it took*)
(* effect is the write, then a failure of the next call.                   *)
(***************************************************************************)
Fault == faults < MaxFaults /\ faults' = faults + 1

\* A line that could not be claimed is skipped.
ClaimFails(h, l) ==
    /\ pc[h] = "claim" /\ l \in mem[h].unclaimed
    /\ Fault
    /\ mem' = [mem EXCEPT ![h].unclaimed = @ \ {l}]
    /\ Goto(h, AfterClaims(mem[h].unclaimed \ {l}))
    /\ KeepTables /\ UNCHANGED <<sent, purge>> /\ OthersKept

CopyFails(p, l) ==
    /\ pc[p] = "next" /\ l \in mem[p].todo
    /\ Fault
    /\ mem' = [mem EXCEPT ![p].todo = @ \ {l}] /\ UNCHANGED pc
    /\ KeepTables /\ UNCHANGED <<sent, purge>> /\ OthersKept

CallFails(p) ==
    /\ pc[p] \in Steps \ {"idle", "claim", "next", "drop"}
    /\ Fault
    /\ NextLine(p)
    /\ KeepTables /\ UNCHANGED <<sent, purge>> /\ OthersKept

DropFails(u) ==
    /\ pc[Sweeper] = "drop" /\ u \in mem[Sweeper].abandoned
    /\ Fault
    /\ mem' = [mem EXCEPT ![Sweeper].abandoned = @ \ {u}]
    /\ Goto(Sweeper, AfterDrops(mem[Sweeper].abandoned \ {u}))
    /\ KeepTables /\ UNCHANGED <<sent, purge>> /\ OthersKept

\* Mutant: the failed deletion is caught before the claim is marked.
EraseFailsUnseen(q, l) ==
    /\ purge[q].erased = None /\ l \in purge[q].due
    /\ Fault
    /\ purge' = [purge EXCEPT ![q] = [due |-> @.due \ {l}, erased |-> l]]
    /\ UNCHANGED <<claim, filed>> /\ PurgeKept

EraseFails(q, l) ==
    /\ purge[q].erased = None /\ l \in purge[q].due
    /\ Fault
    /\ purge' = [purge EXCEPT ![q].due = @ \ {l}]
    /\ UNCHANGED <<claim, filed>> /\ PurgeKept

MarkErasedFails(q) ==
    /\ purge[q].erased # None
    /\ Fault
    /\ purge' = [purge EXCEPT ![q].erased = None]
    /\ UNCHANGED <<claim, filed>> /\ PurgeKept

\* Also the order that could not be read at the start of its handler.
RunDies(p) ==
    /\ pc[p] # "idle"
    /\ Fault
    /\ Goto(p, "idle") /\ mem' = [mem EXCEPT ![p] = Blank]
    /\ KeepTables /\ UNCHANGED <<sent, purge>> /\ OthersKept

PurgeDies(q) ==
    /\ purge[q] # Rest
    /\ Fault
    /\ purge' = [purge EXCEPT ![q] = Rest]
    /\ UNCHANGED <<claim, filed>> /\ PurgeKept

(***************************************************************************)
(* The specification.                                                      *)
(***************************************************************************)
Promote(p) ==
    \/ \E l \in Lines : CopyStaging(p, l) \/ Retire(p, l)
    \/ FindSibling(p) \/ NoSibling(p) \/ CopySibling(p) \/ MarkPromoted(p)
    \/ CheckStaging(p) \/ DeleteStaging(p) \/ ListRetired(p)

Handle(h) == \/ \E l \in Lines : ClaimLine(h, l)
             \/ Promote(h) \/ EndHandler(h)

Sweep == \/ StartSweep \/ Promote(Sweeper) \/ GiveUp(Sweeper)
         \/ ListAbandoned \/ \E u \in Uploads : MarkAbandoned(u)

Purge(q) == \/ StartPurge(q) \/ MarkErased(q)
            \/ \E l \in Lines : EraseObject(q, l)

Customer ==
    \/ \E u \in Uploads : RecordUpload(u) \/ \E e \in Etags : Put(u, e)
    \/ \E i \in Inspectors : \/ RecordInspection(i)
                            \/ \E u \in Uploads : InspectHead(i, u)
    \/ \E o \in Orders : PrepareCart(o) \/ PlaceOrder(o)

Time == \/ \E u \in Uploads : Age(u) \/ Expire(u)
        \/ \E o \in Orders : Deliver(o) \/ RunOut(o)

Failure ==
    \/ \E h \in Handlers, l \in Lines : ClaimFails(h, l)
    \/ \E p \in Promoters : \/ CallFails(p) \/ RunDies(p)
                           \/ \E l \in Lines : CopyFails(p, l)
    \/ \E u \in Uploads : DropFails(u)
    \/ \E q \in Purgers : \/ MarkErasedFails(q) \/ PurgeDies(q)
                         \/ \E l \in Lines : EraseFails(q, l)

Next ==
    \/ Customer \/ Time \/ Failure
    \/ \E h \in Handlers : Handle(h) \/ \E o \in Orders : ReceiveOrder(h, o)
    \/ Sweep
    \/ \E q \in Purgers : Purge(q)

\* A started handler runs to its end unless it dies, and both jobs run on
\* schedule.  Time passes and lifecycle rules apply, however often a job
\* happens to be running.  Customers and carriers owe nothing.
Fairness ==
    /\ \A h \in Handlers : WF_vars(Handle(h))
    /\ WF_vars(Sweep)
    /\ \A q \in Purgers : WF_vars(Purge(q))
    /\ \A u \in Uploads : SF_vars(Age(u)) /\ WF_vars(Expire(u))
    /\ \A o \in Orders : SF_vars(RunOut(o))

Spec     == Init /\ [][Next]_vars
FairSpec == Spec /\ Fairness

(***************************************************************************)
(* Properties.                                                             *)
(***************************************************************************)
\* Whatever is filed on an order, from staging or from another line's copy, is
\* the very file the inspection recorded, and one it accepted, however often the
\* URL was written to.
FiledIsInspected ==
    \A l \in Lines : filed[l] # None =>
        filed[l] \in Printable /\ filed[l] = asset[UploadOf[l]].inspected

\* A shopper told "checked" was told so of the file on record, and of no other:
\* two inspections that race over a rewritten upload do not both pass.
CheckedIsRecorded ==
    \A u \in Uploads : told[u] \subseteq {asset[u].inspected}

\* While the staging window is open and the upload was written once, a claimed
\* line is filed with its object in place, or waits with something to copy
\* from: staging, or a sibling's kept copy.  The staging object is deleted on a
\* list of claims read one call before.
ClaimedArtIsKept ==
    \A l \in Claimed :
        LET u == UploadOf[l] IN
        puts[u] = 1 /\ age[u] < StagingClosed =>
            \/ Download(l) /\ filed[l] # None
            \/ Pending(l) /\ \/ staging[u] # None
                             \/ \E s \in SiblingSources(l) : filed[s] # None

\* A promoted claim has its object for as long as the retention policy owes it:
\* until the fallback while nothing is delivered, for thirty days after a
\* delivery.  An order delivered just before the fallback keeps its copy after.
KeptWhileOwed ==
    \A l \in Claimed :
        LET d == delivered[OrderOf[l]] IN
        /\ claim[l].promoted
        /\ d = "recent" \/ (d = "no" /\ age[UploadOf[l]] < FallbackClosed)
        => filed[l] # None

\* A claim closed by the retention job has no object left in the bucket.
DeletedIsGone ==
    \A l \in Claimed : claim[l].purged = "retention" => filed[l] = None

\* No claim stays "being filed", or filed, for ever: each is given up, retired
\* or deleted in the end.
EveryClaimCloses ==
    \A l \in Lines : l \in Claimed ~> l \in Claimed /\ claim[l].purged # None
=============================================================================
