----------------------------- MODULE Notifications -----------------------------
(***************************************************************************)
(* The mails of the store: the subscribers that send an order's mails, the *)
(* request for a quote, the Resend provider with its attempts, and the job *)
(* that replays what failed.                                               *)
(*                                                                         *)
(* Medusa keeps a row for a mail, found by its idempotency key, and Resend *)
(* keeps the key of what it accepted; both are external.  An order's mail  *)
(* is stored in its row, so that it can be replayed as it was; rendered    *)
(* anew it is another text, since the link in it is signed with the time.  *)
(*                                                                         *)
(* A tick is long against a send and a run of the job: they end within it, *)
(* or with the process.  Bounds: MaxAge ticks, MaxDeliveries of an event,  *)
(* MaxMailCrashes crashes.                                                 *)
(***************************************************************************)
EXTENDS Integers, FiniteSets

CONSTANTS
    ConfirmationMails, ShippedMails, QuoteMails,
    MailAttempts,      \* maxRetries + 1
    RetryWindow,       \* how old a failure is replayed
    Lookback,          \* how old a row the job still looks at
    KeyKept,           \* how long Resend knows a key
    MaxAge, MaxDeliveries, MaxMailCrashes

ASSUME MailAssumption ==
    /\ ConfirmationMails \cap (ShippedMails \cup QuoteMails) = {} /\ ShippedMails \cap QuoteMails = {}
    /\ MailAttempts \in Nat \ {0}
    /\ RetryWindow \in Nat /\ Lookback \in Nat /\ MaxAge \in Nat
    /\ MaxDeliveries \in Nat /\ MaxMailCrashes \in Nat
    /\ KeyKept \in Nat /\ KeyKept >= RetryWindow

Mails == ConfirmationMails \cup ShippedMails \cup QuoteMails

VARIABLES
    mailRow,     \* Medusa's row: [status, copy, exhausted, age]
    keyed,       \* at Resend: [text, age] of the key's mail, text "none": no key
    mailed,      \* history: how often Resend has sent the mail
    sending,     \* a send: by "event" or "job", [text, left], left 0: none
    run,         \* the job: [phase, todo], todo the rows as they were listed
    delivered,   \* how often the event of the mail has come
    mailCrashes

mailVars == <<mailRow, keyed, mailed, sending, run, delivered, mailCrashes>>

NoSend == [text |-> "none", left |-> 0]

NoRow == [status |-> "none", copy |-> "none", exhausted |-> FALSE, age |-> 0]

(***************************************************************************)
(* The texts.  A mail rendered a second time may read as it did.           *)
(***************************************************************************)
\* The link is signed with the time, or not at all for want of the secret.
orderConfirmationUrl(row) == IF row.status = "none" THEN {"first"} ELSE {"first", "again"}

orderConfirmationContent(row) == orderConfirmationUrl(row)

orderShippedContent(row) == orderConfirmationUrl(row)

\* A text, and the copy of it that goes into the row.
replayableEmail(text) == [text |-> text, copy |-> text]

\* Of a request that comes once.
customQuoteEmailContent == [text |-> "first", copy |-> "none"]

readReplayLedger(row) == [content |-> row.copy, exhausted |-> row.exhausted]

(***************************************************************************)
(* The events, and the requests for a quote.                               *)
(***************************************************************************)
Sends(m, by, text) == [sending EXCEPT ![m][by] = [text |-> text, left |-> MailAttempts]]

Arrives(m, times) ==
    /\ delivered[m] < times
    /\ sending[m]["event"] = NoSend /\ mailRow[m].age <= KeyKept
    /\ delivered' = [delivered EXCEPT ![m] = @ + 1]
    /\ UNCHANGED <<keyed, mailed, run, mailCrashes>>

\* Found by its key, a row that has not failed is left alone.
CreateNotification(m, email) ==
    \/ /\ mailRow[m].status = "none"
       /\ mailRow' = [mailRow EXCEPT ![m] = [NoRow EXCEPT !.status = "pending", !.copy = email.copy]]
       /\ sending' = Sends(m, "event", email.text)
    \/ /\ mailRow[m].status = "failure"
       /\ sending' = Sends(m, "event", email.text) /\ UNCHANGED mailRow
    \/ /\ mailRow[m].status \notin {"none", "failure"}
       /\ UNCHANGED <<mailRow, sending>>

NoMail == UNCHANGED <<mailRow, sending>>

\* Whether the order, its status and its tracking could be read.
loadOrderConfirmation == BOOLEAN

sendOrderConfirmationEmail(m) ==
    /\ m \in ConfirmationMails /\ Arrives(m, MaxDeliveries)
    /\ \E loaded \in loadOrderConfirmation, text \in orderConfirmationContent(mailRow[m]) :
          IF loaded THEN CreateNotification(m, replayableEmail(text)) ELSE NoMail

\* Not when it was asked not to notify, nor for a fulfilment without an order.
sendOrderShippedEmail(m) ==
    /\ m \in ShippedMails /\ Arrives(m, MaxDeliveries)
    /\ \E notify \in BOOLEAN, linked \in BOOLEAN, loaded \in loadOrderConfirmation :
       \E text \in orderShippedContent(mailRow[m]) :
          IF notify /\ linked /\ loaded THEN CreateNotification(m, replayableEmail(text)) ELSE NoMail

\* No mail of a request with the field filled in that nobody sees, nor when
\* the address of the store cannot be read.
CustomQuote(m) ==
    /\ m \in QuoteMails /\ Arrives(m, 1)
    /\ \E human \in BOOLEAN, known \in BOOLEAN :
          IF human /\ known THEN CreateNotification(m, customQuoteEmailContent) ELSE NoMail

(***************************************************************************)
(* The provider.                                                           *)
(***************************************************************************)
InFlight(m, by) == sending[m][by].left > 0

KeyKnown(m) == keyed[m].text # "none" /\ keyed[m].age <= KeyKept

\* The send is over: the provider returned, or threw, and Medusa notes it.
Over(m, by, status) ==
    /\ sending' = [sending EXCEPT ![m][by] = NoSend]
    /\ mailRow' = [mailRow EXCEPT ![m].status = status]

\* exhaust, withoutReplayContent.
Exhausted(row) == [row EXCEPT !.copy = "none", !.exhausted = TRUE]

\* Another attempt, or the last error thrown.
OrElse(m, by) ==
    IF sending[m][by].left > 1
    THEN sending' = [sending EXCEPT ![m][by].left = @ - 1] /\ UNCHANGED mailRow
    ELSE Over(m, by, "failure")

AtResend(m, by) ==
    /\ InFlight(m, by)
    /\ UNCHANGED <<run, delivered, mailCrashes>>

Reach(m, by) ==
    IF KeyKnown(m) THEN UNCHANGED <<keyed, mailed>>
    ELSE /\ keyed' = [keyed EXCEPT ![m] = [text |-> sending[m][by].text, age |-> 0]]
         /\ mailed' = [mailed EXCEPT ![m] = @ + 1]

SameText(m, by) == KeyKnown(m) => keyed[m].text = sending[m][by].text

Accepted(m, by) ==
    /\ AtResend(m, by) /\ SameText(m, by)
    /\ Reach(m, by)
    /\ Over(m, by, "success")

\* Accepted, and the answer is lost.
AnswerLost(m, by) ==
    /\ AtResend(m, by) /\ SameText(m, by)
    /\ Reach(m, by)
    /\ OrElse(m, by)

\* A 5xx, too many requests, or the key's other request still under way.
Unavailable(m, by) ==
    /\ AtResend(m, by)
    /\ OrElse(m, by)
    /\ UNCHANGED <<keyed, mailed>>

\* The day's quota is used up, or the account is refused: not tried again now.
Refused(m, by) ==
    /\ AtResend(m, by)
    /\ Over(m, by, "failure")
    /\ UNCHANGED <<keyed, mailed>>

\* The job gives up a mail that was rejected.
GivenUp(row, by) == IF by = "job" THEN Exhausted(row) ELSE row

\* Never to be sent as it is, another text under a known key among the
\* reasons.
Rejected(m, by) ==
    /\ AtResend(m, by)
    /\ sending' = [sending EXCEPT ![m][by] = NoSend]
    /\ mailRow' = [mailRow EXCEPT ![m] = [GivenUp(@, by) EXCEPT !.status = "failure"]]
    /\ UNCHANGED <<keyed, mailed>>

(***************************************************************************)
(* The job.                                                                *)
(***************************************************************************)
DueAtAnyAge(row) == TRUE

Due(row) == row.age <= RetryWindow

ListedNow(Wanted(_)) == {[mail |-> m, row |-> mailRow[m]] : m \in {n \in Mails : Wanted(mailRow[n])}}

Failing(row) == row.status = "failure" /\ Due(row)

StartRun ==
    /\ run.phase = "idle"
    /\ run' = [phase |-> "replay", todo |-> ListedNow(Failing)]
    /\ UNCHANGED <<mailRow, keyed, mailed, sending, delivered, mailCrashes>>

\* The next row, once the send of the one before is over.
Take(phase, e) ==
    /\ run.phase = phase /\ e \in run.todo
    /\ \A m \in Mails : ~InFlight(m, "job")
    /\ run' = [run EXCEPT !.todo = @ \ {e}]
    /\ UNCHANGED <<keyed, mailed, delivered, mailCrashes>>

Replay(e) ==
    /\ Take("replay", e)
    /\ LET ledger == readReplayLedger(e.row)
       IN  IF ledger.exhausted THEN UNCHANGED <<mailRow, sending>>
           ELSE IF ledger.content = "none"
           THEN mailRow' = [mailRow EXCEPT ![e.mail] = Exhausted(@)] /\ UNCHANGED sending
           ELSE /\ sending' = IF mailRow[e.mail].status = "failure"
                              THEN Sends(e.mail, "job", ledger.content) ELSE sending
                /\ UNCHANGED mailRow

LookBack ==
    /\ run.phase = "replay" /\ run.todo = {}
    /\ \A m \in Mails : ~InFlight(m, "job")
    /\ run' = [phase |-> "sweep", todo |-> ListedNow(LAMBDA r : r.status # "none" /\ r.age <= Lookback)]
    /\ UNCHANGED <<mailRow, keyed, mailed, sending, delivered, mailCrashes>>

Sweep(e) ==
    /\ Take("sweep", e)
    /\ mailRow' = [mailRow EXCEPT ![e.mail] =
         IF e.row.status = "success" THEN [@ EXCEPT !.copy = "none"]
         ELSE IF e.row.exhausted \/ Due(e.row) THEN @ ELSE Exhausted(@)]
    /\ UNCHANGED sending

EndRun ==
    /\ run.phase = "sweep" /\ run.todo = {}
    /\ run' = [phase |-> "idle", todo |-> {}]
    /\ UNCHANGED <<mailRow, keyed, mailed, sending, delivered, mailCrashes>>

(***************************************************************************)
(* The process dies; time passes.                                          *)
(***************************************************************************)
Quiet == run.phase = "idle" /\ \A m \in Mails, by \in {"event", "job"} : ~InFlight(m, by)

Restarted == [m \in Mails |-> [by \in {"event", "job"} |-> NoSend]]

MailCrash ==
    /\ mailCrashes < MaxMailCrashes /\ ~Quiet
    /\ sending' = Restarted
    /\ run' = [phase |-> "idle", todo |-> {}]
    /\ mailCrashes' = mailCrashes + 1
    /\ UNCHANGED <<mailRow, keyed, mailed, delivered>>

Older(age) == IF age < MaxAge THEN age + 1 ELSE age

MailTick ==
    /\ Quiet
    /\ \E m \in Mails : mailRow[m].status # "none" /\ mailRow[m].age < MaxAge
    /\ mailRow' = [m \in Mails |->
         IF mailRow[m].status = "none" THEN mailRow[m] ELSE [mailRow[m] EXCEPT !.age = Older(@)]]
    /\ keyed' = [m \in Mails |->
         IF keyed[m].text = "none" THEN keyed[m] ELSE [keyed[m] EXCEPT !.age = Older(@)]]
    /\ UNCHANGED <<mailed, sending, run, delivered, mailCrashes>>

(***************************************************************************)
(* The specification.                                                      *)
(***************************************************************************)
MailInit ==
    /\ mailRow = [m \in Mails |-> NoRow]
    /\ keyed = [m \in Mails |-> [text |-> "none", age |-> 0]]
    /\ mailed = [m \in Mails |-> 0]
    /\ sending = Restarted
    /\ run = [phase |-> "idle", todo |-> {}]
    /\ delivered = [m \in Mails |-> 0]
    /\ mailCrashes = 0

MailNext ==
    \/ \E m \in Mails : sendOrderConfirmationEmail(m) \/ sendOrderShippedEmail(m) \/ CustomQuote(m)
    \/ \E m \in Mails, by \in {"event", "job"} :
        \/ Accepted(m, by) \/ AnswerLost(m, by)
        \/ Unavailable(m, by) \/ Refused(m, by) \/ Rejected(m, by)
    \/ StartRun \/ LookBack \/ EndRun
    \/ \E e \in run.todo : Replay(e) \/ Sweep(e)
    \/ MailCrash \/ MailTick

MailSpec == MailInit /\ [][MailNext]_mailVars

(***************************************************************************)
(* Property.                                                               *)
(***************************************************************************)
\* No mail goes out twice, whatever answers are lost, however often its event
\* comes, and although the job goes on replaying it: the job stops before the
\* key is forgotten (retry-failed-notifications.test.ts, "does not replay a
\* failure older than Resend's 24-hour idempotency window").
MailedOnce == \A m \in Mails : mailed[m] <= 1

================================================================================
