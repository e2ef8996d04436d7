------------------------------ MODULE BooksProofs ------------------------------
(***************************************************************************)
(* What follows an order without its customer: the mail about it goes out  *)
(* once (Notifications), and Stripe books it with what it contains         *)
(* (TaxBooks).  For any mails, orders and quotes and any bounds as         *)
(* CONSTANTS order them.                                                   *)
(***************************************************************************)
EXTENDS Notifications, TaxBooks, TLAPS
LOCAL INSTANCE SequencesExt

(***************************************************************************)
(* Mails.                                                                  *)
(***************************************************************************)
Senders == {"event", "job"}

MailRows ==
    [status : {"none", "pending", "success", "failure"}, copy : {"none", "first", "again"},
     exhausted : BOOLEAN, age : Nat]

Sendings == [text : {"none", "first", "again"}, left : Nat]

Listed == [mail : Mails, row : MailRows]

MailTypeOK ==
    /\ mailRow \in [Mails -> MailRows]
    /\ keyed \in [Mails -> [text : {"none", "first", "again"}, age : Nat]]
    /\ mailed \in [Mails -> Nat]
    /\ sending \in [Mails -> [Senders -> Sendings]]
    /\ run \in [phase : {"idle", "replay", "sweep"}, todo : SUBSET Listed]

(***************************************************************************)
(* Resend has sent a mail once, under a key that is no older than its row, *)
(* or not at all.                                                          *)
(***************************************************************************)
KeyedOnce ==
    \A m \in Mails :
        IF keyed[m].text = "none" THEN mailed[m] = 0
        ELSE /\ mailed[m] = 1
             /\ mailRow[m].status # "none" /\ keyed[m].age <= mailRow[m].age

\* A send is of a row so young that Resend, if it had the key, still has it.
SentInTime ==
    \A m \in Mails, by \in Senders : InFlight(m, by) =>
        /\ sending[m][by].text # "none"
        /\ mailRow[m].status # "none" /\ mailRow[m].age <= KeyKept

\* What the job has still to replay is as young as when it was listed.
ListedInTime ==
    \A e \in run.todo :
        /\ mailRow[e.mail].status # "none"
        /\ run.phase = "replay" => e.row.age = mailRow[e.mail].age /\ e.row.age <= RetryWindow

MailInv == MailTypeOK /\ KeyedOnce /\ SentInTime /\ ListedInTime

(***************************************************************************)
(* One row and one of its sends change, and the mail may reach Resend.     *)
(***************************************************************************)
LEMMA OneSendMoves ==
    ASSUME MailInv, NEW m \in Mails, NEW by \in Senders,
           NEW row \in MailRows, NEW s \in Sendings,
           mailRow' = [mailRow EXCEPT ![m] = row],
           sending' = [sending EXCEPT ![m][by] = s],
           row.status # "none",
           mailRow[m].status # "none" => row.age = mailRow[m].age,
           s.left > 0 => s.text # "none" /\ row.age <= KeyKept,
           run' \in [phase : {run.phase}, todo : SUBSET run.todo],
           UNCHANGED <<keyed, mailed>> \/ (InFlight(m, by) /\ Reach(m, by))
    PROVE  MailInv'
  <1>1. /\ mailRow \in [Mails -> MailRows] /\ mailed \in [Mails -> Nat]
        /\ keyed \in [Mails -> [text : {"none", "first", "again"}, age : Nat]]
        /\ sending \in [Mails -> [Senders -> Sendings]]
        /\ run \in [phase : {"idle", "replay", "sweep"}, todo : SUBSET Listed]
    BY DEF MailInv, MailTypeOK
  <1>2. /\ mailRow'[m] = row /\ \A n \in Mails \ {m} : mailRow'[n] = mailRow[n]
        /\ mailRow' \in [Mails -> MailRows]
    BY <1>1
  <1>3. /\ sending'[m][by] = s
        /\ \A n \in Mails, b \in Senders :
              n # m \/ b # by => sending'[n][b] = sending[n][b]
        /\ sending' \in [Mails -> [Senders -> Sendings]]
    BY <1>1
  <1>4. run' \in [phase : {"idle", "replay", "sweep"}, todo : SUBSET Listed]
        /\ run'.phase = run.phase /\ run'.todo \subseteq run.todo
    BY <1>1
  <1>5. /\ keyed' \in [Mails -> [text : {"none", "first", "again"}, age : Nat]]
        /\ mailed' \in [Mails -> Nat] /\ KeyedOnce'
    <2>1. CASE UNCHANGED <<keyed, mailed>>
      BY <1>1, <1>2, <2>1 DEF MailInv, KeyedOnce
    <2>2. CASE InFlight(m, by) /\ Reach(m, by) /\ ~KeyKnown(m)
      <3>1. /\ mailRow[m].status # "none" /\ mailRow[m].age <= KeyKept
            /\ sending[m][by].text \in {"first", "again"}
        BY <1>1, <2>2 DEF MailInv, SentInTime, Sendings
      <3>2. keyed[m].text = "none" /\ mailed[m] = 0
        <4>1. keyed[m].text # "none" => keyed[m].age <= mailRow[m].age
          BY DEF MailInv, KeyedOnce
        <4>2. keyed[m].age \in Nat /\ mailRow[m].age \in Nat /\ KeyKept \in Nat
          BY <1>1, MailAssumption DEF MailRows
        <4> QED
          BY <2>2, <3>1, <4>1, <4>2 DEF MailInv, KeyedOnce, KeyKnown
      <3>3. /\ keyed' = [keyed EXCEPT ![m] = [text |-> sending[m][by].text, age |-> 0]]
            /\ mailed' = [mailed EXCEPT ![m] = @ + 1]
        BY <2>2 DEF Reach
      <3>4. /\ keyed'[m] = [text |-> sending[m][by].text, age |-> 0] /\ mailed'[m] = 1
            /\ \A n \in Mails \ {m} : keyed'[n] = keyed[n] /\ mailed'[n] = mailed[n]
            /\ keyed' \in [Mails -> [text : {"none", "first", "again"}, age : Nat]]
            /\ mailed' \in [Mails -> Nat]
        BY <1>1, <3>1, <3>2, <3>3
      <3>5. 0 <= row.age
        BY DEF MailRows
      <3> QED
        BY <1>2, <3>1, <3>4, <3>5 DEF MailInv, KeyedOnce
    <2>3. CASE InFlight(m, by) /\ Reach(m, by) /\ KeyKnown(m)
      <3>1. UNCHANGED <<keyed, mailed>>
        BY <2>3 DEF Reach
      <3> QED
        BY <1>1, <1>2, <3>1 DEF MailInv, KeyedOnce
    <2> QED
      BY <2>1, <2>2, <2>3
  <1>6. SentInTime'
    <2> SUFFICES ASSUME NEW n \in Mails, NEW b \in Senders, sending'[n][b].left > 0
                 PROVE  /\ sending'[n][b].text # "none"
                        /\ mailRow'[n].status # "none" /\ mailRow'[n].age <= KeyKept
      BY DEF SentInTime, InFlight
    <2>1. CASE n = m /\ b = by
      BY <1>2, <1>3, <2>1
    <2>2. CASE n # m \/ b # by
      <3>1. /\ sending'[n][b] = sending[n][b] /\ sending[n][b].text # "none"
            /\ mailRow[n].status # "none" /\ mailRow[n].age <= KeyKept
        BY <1>3, <2>2 DEF MailInv, SentInTime, InFlight
      <3> QED
        BY <1>2, <3>1
    <2> QED
      BY <2>1, <2>2
  <1>7. ListedInTime'
    <2> SUFFICES ASSUME NEW e \in run'.todo
                 PROVE  /\ mailRow'[e.mail].status # "none"
                        /\ run'.phase = "replay" =>
                             e.row.age = mailRow'[e.mail].age /\ e.row.age <= RetryWindow
      BY DEF ListedInTime
    <2>1. /\ mailRow[e.mail].status # "none" /\ e.mail \in Mails
          /\ run.phase = "replay" => e.row.age = mailRow[e.mail].age /\ e.row.age <= RetryWindow
      BY <1>1, <1>4 DEF MailInv, ListedInTime, Listed
    <2> QED
      BY <1>2, <1>4, <2>1
  <1> QED
    BY <1>2, <1>3, <1>4, <1>5, <1>6, <1>7 DEF MailInv, MailTypeOK

(***************************************************************************)
(* The steps.                                                              *)
(***************************************************************************)
LEMMA MailInitEstablishes == MailInit => MailInv
  <1> SUFFICES ASSUME MailInit PROVE MailInv
    OBVIOUS
  <1>1. NoRow \in MailRows /\ NoSend \in Sendings /\ NoSend.left = 0
    BY DEF NoRow, MailRows, NoSend, Sendings
  <1>2. sending \in [Mails -> [Senders -> Sendings]]
        /\ \A m \in Mails, by \in Senders : sending[m][by] = NoSend
    BY <1>1 DEF MailInit, Restarted, Senders
  <1>3. MailTypeOK
    BY <1>1, <1>2 DEF MailInit, MailTypeOK
  <1>4. KeyedOnce /\ ListedInTime
    BY DEF MailInit, KeyedOnce, ListedInTime
  <1>5. SentInTime
    BY <1>1, <1>2 DEF SentInTime, InFlight
  <1> QED
    BY <1>3, <1>4, <1>5 DEF MailInv

Emails == [text : {"first", "again"}, copy : {"none", "first", "again"}]

\* Each of the three events is a mail created, or none.
LEMMA EventIsMailOrNone ==
    ASSUME NEW m \in Mails,
           sendOrderConfirmationEmail(m) \/ sendOrderShippedEmail(m) \/ CustomQuote(m)
    PROVE  /\ UNCHANGED <<keyed, mailed, run>> /\ mailRow[m].age <= KeyKept
           /\ NoMail \/ \E email \in Emails : CreateNotification(m, email)
  <1>1. /\ orderConfirmationUrl(mailRow[m]) \subseteq {"first", "again"}
        /\ \A text \in {"first", "again"} : replayableEmail(text) \in Emails
        /\ customQuoteEmailContent \in Emails
    BY DEF orderConfirmationUrl, replayableEmail, customQuoteEmailContent, Emails
  <1>2. CASE sendOrderConfirmationEmail(m)
    BY <1>1, <1>2 DEF sendOrderConfirmationEmail, Arrives, orderConfirmationContent
  <1>3. CASE sendOrderShippedEmail(m)
    BY <1>1, <1>3 DEF sendOrderShippedEmail, Arrives, orderShippedContent
  <1>4. CASE CustomQuote(m)
    BY <1>1, <1>4 DEF CustomQuote, Arrives
  <1> QED
    BY <1>2, <1>3, <1>4

LEMMA EventKeeps ==
    ASSUME MailInv, NEW m \in Mails,
           sendOrderConfirmationEmail(m) \/ sendOrderShippedEmail(m) \/ CustomQuote(m)
    PROVE  MailInv'
  <1>1. /\ mailRow \in [Mails -> MailRows] /\ sending \in [Mails -> [Senders -> Sendings]]
        /\ run \in [phase : {"idle", "replay", "sweep"}, todo : SUBSET Listed]
        /\ MailAttempts \in Nat /\ KeyKept \in Nat
    BY MailAssumption DEF MailInv, MailTypeOK
  <1>2. /\ UNCHANGED <<keyed, mailed, run>> /\ mailRow[m].age <= KeyKept
        /\ "event" \in Senders
        /\ NoMail \/ \E email \in Emails : CreateNotification(m, email)
    BY EventIsMailOrNone DEF Senders
  <1>3. run' \in [phase : {run.phase}, todo : SUBSET run.todo]
    BY <1>1, <1>2
  <1>4. CASE NoMail
    BY <1>2, <1>4 DEF NoMail, MailInv, MailTypeOK, KeyedOnce, SentInTime, ListedInTime, InFlight
  <1>5. ASSUME NEW email \in Emails, CreateNotification(m, email)
        PROVE  MailInv'
    <2> DEFINE s == [text |-> email.text, left |-> MailAttempts]
    <2>1. s \in Sendings /\ s.text # "none"
      BY <1>1, <1>5 DEF Sendings, Emails
    <2>2. CASE /\ mailRow[m].status = "none"
               /\ mailRow' = [mailRow EXCEPT ![m] =
                    [NoRow EXCEPT !.status = "pending", !.copy = email.copy]]
               /\ sending' = Sends(m, "event", email.text)
      <3> DEFINE row == [NoRow EXCEPT !.status = "pending", !.copy = email.copy]
      <3>1. row \in MailRows /\ row.status # "none" /\ row.age = 0
        BY <1>5 DEF NoRow, MailRows, Emails
      <3>2. mailRow' = [mailRow EXCEPT ![m] = row] /\ sending' = [sending EXCEPT ![m]["event"] = s]
        BY <2>2 DEF Sends
      <3>3. row.age <= KeyKept
        BY <1>1, <3>1
      <3>4. mailRow[m].status # "none" => row.age = mailRow[m].age
        BY <2>2
      <3> HIDE DEF row, s
      <3> QED
        BY <1>2, <1>3, <2>1, <3>1, <3>2, <3>3, <3>4, OneSendMoves
    <2>3. CASE mailRow[m].status = "failure" /\ sending' = Sends(m, "event", email.text)
               /\ UNCHANGED mailRow
      <3> DEFINE row == mailRow[m]
      <3>1. row \in MailRows /\ row.status # "none" /\ row.age <= KeyKept
        BY <1>1, <1>2, <2>3
      <3>2. mailRow' = [mailRow EXCEPT ![m] = row] /\ sending' = [sending EXCEPT ![m]["event"] = s]
        BY <1>1, <2>3 DEF Sends
      <3>3. row.age = mailRow[m].age
        OBVIOUS
      <3> HIDE DEF row, s
      <3> QED
        BY <1>2, <1>3, <2>1, <3>1, <3>2, <3>3, OneSendMoves
    <2>4. CASE UNCHANGED <<mailRow, sending>>
      BY <1>4, <2>4 DEF NoMail
    <2> QED
      BY <1>5, <2>2, <2>3, <2>4 DEF CreateNotification
  <1> QED
    BY <1>2, <1>4, <1>5

LEMMA AnswerOfResendKeeps ==
    ASSUME MailInv, NEW m \in Mails, NEW by \in Senders,
           \/ Accepted(m, by) \/ AnswerLost(m, by)
           \/ Unavailable(m, by) \/ Refused(m, by) \/ Rejected(m, by)
    PROVE  MailInv'
  <1>1. /\ mailRow \in [Mails -> MailRows] /\ sending \in [Mails -> [Senders -> Sendings]]
        /\ run \in [phase : {"idle", "replay", "sweep"}, todo : SUBSET Listed]
        /\ UNCHANGED run /\ InFlight(m, by)
    BY DEF MailInv, MailTypeOK, Accepted, AnswerLost, Unavailable, Refused, Rejected, AtResend
  <1>2. /\ run' \in [phase : {run.phase}, todo : SUBSET run.todo]
        /\ mailRow[m] \in MailRows /\ sending[m][by] \in Sendings
        /\ sending[m][by].text # "none" /\ sending[m][by].left > 0
        /\ mailRow[m].status # "none" /\ mailRow[m].age <= KeyKept
    BY <1>1 DEF MailInv, SentInTime, InFlight
  <1>3. UNCHANGED <<keyed, mailed>> \/ Reach(m, by)
    BY DEF Accepted, AnswerLost, Unavailable, Refused, Rejected
  <1>4. NoSend \in Sendings /\ NoSend.left = 0
    BY DEF NoSend, Sendings
  <1>5. ASSUME NEW row \in MailRows, row.status = "success" \/ row.status = "failure",
               row.age = mailRow[m].age,
               mailRow' = [mailRow EXCEPT ![m] = row],
               sending' = [sending EXCEPT ![m][by] = NoSend]
        PROVE  MailInv'
    <2>1. row.status # "none" /\ ~(NoSend.left > 0)
      BY <1>4, <1>5
    <2> QED
      BY <1>1, <1>2, <1>3, <1>4, <1>5, <2>1, OneSendMoves
  <1>6. ASSUME NEW status \in {"success", "failure"}, Over(m, by, status)
        PROVE  MailInv'
    <2> DEFINE row == [mailRow[m] EXCEPT !.status = status]
    <2>1. row \in MailRows /\ row.status = status /\ row.age = mailRow[m].age
      BY <1>2 DEF MailRows
    <2>2. mailRow' = [mailRow EXCEPT ![m] = row] /\ sending' = [sending EXCEPT ![m][by] = NoSend]
      BY <1>6 DEF Over
    <2> HIDE DEF row
    <2> QED
      BY <1>5, <2>1, <2>2
  <1>7. CASE OrElse(m, by)
    <2>1. CASE sending[m][by].left > 1
      <3> DEFINE s == [sending[m][by] EXCEPT !.left = @ - 1]
      <3>1. sending' = [sending EXCEPT ![m][by] = s] /\ UNCHANGED mailRow
        BY <1>7, <2>1 DEF OrElse
      <3>2. s \in Sendings /\ s.text = sending[m][by].text
        <4>1. sending[m][by].left - 1 \in Nat
          BY <1>2, <2>1 DEF Sendings
        <4> QED
          BY <1>2, <4>1 DEF Sendings
      <3>3. mailRow' = [mailRow EXCEPT ![m] = mailRow[m]]
        BY <1>1, <3>1
      <3> HIDE DEF s
      <3> QED
        BY <1>1, <1>2, <1>3, <3>1, <3>2, <3>3, OneSendMoves
    <2>2. CASE ~(sending[m][by].left > 1)
      BY <1>6, <1>7, <2>2 DEF OrElse
    <2> QED
      BY <2>1, <2>2
  <1>8. CASE Rejected(m, by)
    <2> DEFINE row == [GivenUp(mailRow[m], by) EXCEPT !.status = "failure"]
    <2>1. row \in MailRows /\ row.status = "failure" /\ row.age = mailRow[m].age
      BY <1>2 DEF MailRows, GivenUp, Exhausted
    <2>2. mailRow' = [mailRow EXCEPT ![m] = row] /\ sending' = [sending EXCEPT ![m][by] = NoSend]
      BY <1>8 DEF Rejected
    <2> HIDE DEF row
    <2> QED
      BY <1>5, <2>1, <2>2
  <1> QED
    BY <1>6, <1>7, <1>8 DEF Accepted, AnswerLost, Unavailable, Refused

(***************************************************************************)
(* The job.                                                                *)
(***************************************************************************)
LEMMA ListingKeeps ==
    ASSUME MailInv, StartRun \/ LookBack
    PROVE  MailInv'
  <1>1. /\ mailRow \in [Mails -> MailRows]
        /\ UNCHANGED <<mailRow, keyed, mailed, sending>>
    BY DEF MailInv, MailTypeOK, StartRun, LookBack
  <1>2. \A e \in run'.todo : \E m \in Mails :
          /\ e = [mail |-> m, row |-> mailRow[m]] /\ mailRow[m].status # "none"
          /\ run'.phase = "replay" => mailRow[m].age <= RetryWindow
    <2>1. CASE StartRun
      BY <2>1 DEF StartRun, ListedNow, Failing, Due
    <2>2. CASE LookBack
      BY <2>2 DEF LookBack, ListedNow
    <2> QED
      BY <2>1, <2>2
  <1>3. run' = [phase |-> run'.phase, todo |-> run'.todo]
        /\ run'.phase \in {"idle", "replay", "sweep"}
    BY DEF StartRun, LookBack
  <1>4. run'.todo \subseteq Listed
    BY <1>1, <1>2 DEF Listed
  <1>5. run' \in [phase : {"idle", "replay", "sweep"}, todo : SUBSET Listed]
    BY <1>3, <1>4
  <1>6. ListedInTime'
    BY <1>1, <1>2 DEF ListedInTime
  <1> QED
    BY <1>1, <1>5, <1>6 DEF MailInv, MailTypeOK, KeyedOnce, SentInTime, InFlight

LEMMA TakeKeeps ==
    ASSUME MailInv, NEW e \in run.todo, Replay(e) \/ Sweep(e)
    PROVE  MailInv'
  <1> DEFINE m == e.mail
  <1>1. /\ mailRow \in [Mails -> MailRows] /\ sending \in [Mails -> [Senders -> Sendings]]
        /\ run \in [phase : {"idle", "replay", "sweep"}, todo : SUBSET Listed]
        /\ RetryWindow \in Nat /\ KeyKept \in Nat /\ RetryWindow <= KeyKept /\ MailAttempts \in Nat
    BY MailAssumption DEF MailInv, MailTypeOK
  <1>2. /\ m \in Mails /\ e.row \in MailRows /\ mailRow[m] \in MailRows
        /\ "job" \in Senders /\ sending[m]["job"] \in Sendings
    BY <1>1 DEF Listed, Senders
  <1>3. /\ mailRow[m].status # "none"
        /\ run.phase = "replay" => e.row.age = mailRow[m].age /\ e.row.age <= RetryWindow
    BY DEF MailInv, ListedInTime
  <1>4. run' = [run EXCEPT !.todo = @ \ {e}] /\ UNCHANGED <<keyed, mailed>>
    BY DEF Replay, Sweep, Take
  <1>5. run' \in [phase : {run.phase}, todo : SUBSET run.todo]
    BY <1>1, <1>4
  <1>6. sending[m]["job"].left > 0 =>
          sending[m]["job"].text # "none" /\ mailRow[m].age <= KeyKept
    BY <1>2 DEF MailInv, SentInTime, InFlight
  <1>7. sending = [sending EXCEPT ![m]["job"] = sending[m]["job"]]
        /\ mailRow = [mailRow EXCEPT ![m] = mailRow[m]]
    BY <1>1, <1>2
  <1> HIDE DEF m
  <1>8. ASSUME NEW row \in MailRows, row.status = mailRow[m].status, row.age = mailRow[m].age,
               mailRow' = [mailRow EXCEPT ![m] = row], UNCHANGED sending
        PROVE  MailInv'
    <2> DEFINE s == sending[m]["job"]
    <2>1. sending' = [sending EXCEPT ![m]["job"] = s]
      BY <1>7, <1>8
    <2>2. /\ row.status # "none" /\ mailRow' = [mailRow EXCEPT ![m] = row]
          /\ mailRow[m].status # "none" => row.age = mailRow[m].age
      BY <1>3, <1>8
    <2>3. s \in Sendings /\ (s.left > 0 => s.text # "none" /\ row.age <= KeyKept)
      BY <1>2, <1>6, <1>8
    <2> HIDE DEF s
    <2> QED
      BY <1>2, <1>4, <1>5, <2>1, <2>2, <2>3, OneSendMoves
  <1>9. ASSUME UNCHANGED <<mailRow, sending>>
        PROVE  MailInv'
    <2>1. mailRow' = [mailRow EXCEPT ![m] = mailRow[m]]
      BY <1>7, <1>9
    <2> QED
      BY <1>2, <1>8, <1>9, <2>1
  <1>10. \A row \in MailRows :
           Exhausted(row) \in MailRows /\ Exhausted(row).status = row.status
           /\ Exhausted(row).age = row.age
    BY DEF Exhausted, MailRows
  <1>11. CASE Replay(e)
    <2>1. CASE e.row.exhausted
      BY <1>9, <1>11, <2>1 DEF Replay, readReplayLedger
    <2>2. CASE ~e.row.exhausted /\ e.row.copy = "none"
      <3>1. mailRow' = [mailRow EXCEPT ![m] = Exhausted(mailRow[m])] /\ UNCHANGED sending
        BY <1>11, <2>2 DEF Replay, readReplayLedger, m
      <3> QED
        BY <1>2, <1>8, <1>10, <3>1
    <2>3. CASE ~e.row.exhausted /\ e.row.copy # "none" /\ mailRow[m].status = "failure"
      <3> DEFINE s == [text |-> e.row.copy, left |-> MailAttempts]
      <3>1. s \in Sendings /\ s.text # "none"
        BY <1>1, <1>2, <2>3 DEF Sendings, MailRows
      <3>2. sending' = [sending EXCEPT ![m]["job"] = s] /\ UNCHANGED mailRow
        BY <1>11, <2>3 DEF Replay, readReplayLedger, Sends, m
      <3>3. mailRow' = [mailRow EXCEPT ![m] = mailRow[m]]
        BY <1>7, <3>2
      <3>4. mailRow[m].age <= KeyKept
        <4>1. run.phase = "replay"
          BY <1>11 DEF Replay, Take
        <4> QED
          BY <1>1, <1>2, <1>3, <4>1 DEF MailRows
      <3> HIDE DEF s
      <3> QED
        BY <1>2, <1>3, <1>4, <1>5, <3>1, <3>2, <3>3, <3>4, OneSendMoves
    <2>4. CASE ~e.row.exhausted /\ e.row.copy # "none" /\ mailRow[m].status # "failure"
      BY <1>9, <1>11, <2>4 DEF Replay, readReplayLedger, m
    <2> QED
      BY <2>1, <2>2, <2>3, <2>4
  <1>12. CASE Sweep(e)
    <2> DEFINE cleared == [mailRow[m] EXCEPT !.copy = "none"]
    <2>1. cleared \in MailRows /\ cleared.status = mailRow[m].status
          /\ cleared.age = mailRow[m].age
      BY <1>2 DEF MailRows
    <2>2. PICK row \in {cleared, mailRow[m], Exhausted(mailRow[m])} :
              mailRow' = [mailRow EXCEPT ![m] = row]
      BY <1>12 DEF Sweep, m
    <2>3. UNCHANGED sending
      BY <1>12 DEF Sweep
    <2>4. row \in MailRows /\ row.status = mailRow[m].status /\ row.age = mailRow[m].age
      BY <1>2, <1>10, <2>1, <2>2
    <2> QED
      BY <1>8, <2>2, <2>3, <2>4
  <1> QED
    BY <1>11, <1>12

LEMMA CrashOrEndKeeps ==
    ASSUME MailInv, MailCrash \/ EndRun
    PROVE  MailInv'
  <1>1. run' = [phase |-> "idle", todo |-> {}] /\ UNCHANGED <<mailRow, keyed, mailed>>
    BY DEF MailCrash, EndRun
  <1>2. \/ UNCHANGED sending
        \/ /\ sending' \in [Mails -> [Senders -> Sendings]]
           /\ \A m \in Mails, by \in Senders : ~(sending'[m][by].left > 0)
    <2>1. CASE EndRun
      BY <2>1 DEF EndRun
    <2>2. CASE MailCrash
      BY <2>2 DEF MailCrash, Restarted, NoSend, Senders, Sendings
    <2> QED
      BY <2>1, <2>2
  <1>3. MailTypeOK'
    BY <1>1, <1>2 DEF MailInv, MailTypeOK
  <1>4. KeyedOnce' /\ ListedInTime'
    BY <1>1 DEF MailInv, KeyedOnce, ListedInTime
  <1>5. SentInTime'
    BY <1>1, <1>2 DEF MailInv, SentInTime, InFlight
  <1> QED
    BY <1>3, <1>4, <1>5 DEF MailInv

LEMMA MailTickKeeps ==
    ASSUME MailInv, MailTick
    PROVE  MailInv'
  <1>1. /\ mailRow \in [Mails -> MailRows] /\ MaxAge \in Nat
        /\ keyed \in [Mails -> [text : {"none", "first", "again"}, age : Nat]]
    BY MailAssumption DEF MailInv, MailTypeOK
  <1>2. /\ UNCHANGED <<mailed, sending, run>> /\ run.phase = "idle"
        /\ \A m \in Mails, by \in Senders : ~InFlight(m, by)
    BY DEF MailTick, Quiet, Senders
  <1>3. ASSUME NEW m \in Mails
        PROVE  /\ mailRow'[m] \in MailRows /\ mailRow'[m].status = mailRow[m].status
               /\ mailRow[m].status # "none" => mailRow'[m].age = Older(mailRow[m].age)
    <2>1. Older(mailRow[m].age) \in Nat
      BY <1>1 DEF Older, MailRows
    <2>2. mailRow'[m] = IF mailRow[m].status = "none" THEN mailRow[m]
                        ELSE [mailRow[m] EXCEPT !.age = Older(mailRow[m].age)]
      BY DEF MailTick
    <2> QED
      BY <1>1, <2>1, <2>2 DEF MailRows
  <1>4. ASSUME NEW m \in Mails
        PROVE  /\ keyed'[m] \in [text : {"none", "first", "again"}, age : Nat]
               /\ keyed'[m].text = keyed[m].text
               /\ keyed[m].text # "none" => keyed'[m].age = Older(keyed[m].age)
    <2>1. Older(keyed[m].age) \in Nat
      BY <1>1 DEF Older
    <2>2. keyed'[m] = IF keyed[m].text = "none" THEN keyed[m]
                      ELSE [keyed[m] EXCEPT !.age = Older(keyed[m].age)]
      BY DEF MailTick
    <2> QED
      BY <1>1, <2>1, <2>2
  <1>5. mailRow' \in [Mails -> MailRows]
        /\ keyed' \in [Mails -> [text : {"none", "first", "again"}, age : Nat]]
    BY <1>3, <1>4 DEF MailTick
  <1>6. KeyedOnce'
    <2> SUFFICES ASSUME NEW m \in Mails
                 PROVE  IF keyed'[m].text = "none" THEN mailed'[m] = 0
                        ELSE /\ mailed'[m] = 1
                             /\ mailRow'[m].status # "none" /\ keyed'[m].age <= mailRow'[m].age
      BY DEF KeyedOnce
    <2>1. CASE keyed[m].text = "none"
      BY <1>2, <1>4, <2>1 DEF MailInv, KeyedOnce
    <2>2. CASE keyed[m].text # "none"
      <3>1. mailed[m] = 1 /\ mailRow[m].status # "none" /\ keyed[m].age <= mailRow[m].age
        BY <2>2 DEF MailInv, KeyedOnce
      <3>2. keyed[m].age \in Nat /\ mailRow[m].age \in Nat
        BY <1>1 DEF MailRows
      <3>3. Older(keyed[m].age) <= Older(mailRow[m].age)
        BY <1>1, <3>1, <3>2 DEF Older
      <3> QED
        BY <1>2, <1>3, <1>4, <2>2, <3>1, <3>3
    <2> QED
      BY <2>1, <2>2
  <1>7. SentInTime'
    BY <1>2 DEF SentInTime, InFlight
  <1>8. ListedInTime'
    <2>1. \A e \in run.todo : e.mail \in Mails /\ mailRow[e.mail].status # "none"
      BY DEF MailInv, MailTypeOK, ListedInTime, Listed
    <2> QED
      BY <1>2, <1>3, <2>1 DEF ListedInTime
  <1> QED
    BY <1>2, <1>5, <1>6, <1>7, <1>8 DEF MailInv, MailTypeOK

(***************************************************************************)
(* The theorem.                                                            *)
(***************************************************************************)
LEMMA MailInvariant == MailSpec => []MailInv
  <1>1. MailInit => MailInv
    BY MailInitEstablishes
  <1>2. MailInv /\ [MailNext]_mailVars => MailInv'
    <2> SUFFICES ASSUME MailInv, [MailNext]_mailVars PROVE MailInv'
      OBVIOUS
    <2>1. ASSUME NEW m \in Mails,
                 sendOrderConfirmationEmail(m) \/ sendOrderShippedEmail(m) \/ CustomQuote(m)
          PROVE  MailInv'
      BY <2>1, EventKeeps
    <2>2. ASSUME NEW m \in Mails, NEW by \in {"event", "job"},
                 \/ Accepted(m, by) \/ AnswerLost(m, by)
                 \/ Unavailable(m, by) \/ Refused(m, by) \/ Rejected(m, by)
          PROVE  MailInv'
      BY <2>2, AnswerOfResendKeeps DEF Senders
    <2>3. CASE StartRun \/ LookBack
      BY <2>3, ListingKeeps
    <2>4. CASE EndRun \/ MailCrash
      BY <2>4, CrashOrEndKeeps
    <2>5. ASSUME NEW e \in run.todo, Replay(e) \/ Sweep(e) PROVE MailInv'
      BY <2>5, TakeKeeps
    <2>6. CASE MailTick
      BY <2>6, MailTickKeeps
    <2>7. CASE UNCHANGED mailVars
      BY <2>7 DEF mailVars, MailInv, MailTypeOK, KeyedOnce, SentInTime, ListedInTime, InFlight
    <2> QED
      BY <2>1, <2>2, <2>3, <2>4, <2>5, <2>6, <2>7 DEF MailNext
  <1> QED
    BY <1>1, <1>2, PTL DEF MailSpec

\* Whatever answers are lost, whatever dies and however often an event comes or
\* the job replays, Resend sends a mail once, as long as it remembers a key
\* for as long as the job replays (retry-failed-notifications.ts).
THEOREM MailSentOnce == MailSpec => []MailedOnce
  <1>1. MailInv => MailedOnce
    BY DEF MailInv, MailTypeOK, KeyedOnce, MailedOnce
  <1> QED
    BY <1>1, MailInvariant, PTL

-----------------------------------------------------------------------------
(***************************************************************************)
(* Tax.                                                                    *)
(***************************************************************************)
TaxStages == {"idle", "looks", "asks", "records", "nothing", "done", "refused", "failed"}

TaxTypeOK ==
    /\ calculations \in Seq({Input(w) : w \in Works})
    /\ transactions \in [TaxedOrders -> Nat]
    /\ taxWork \in [Works -> [stage : TaxStages, id : Nat]]
    /\ keptCalculations \subseteq
         [key : {TaxCacheKey(Input(w)) : w \in Works}, id : Nat, left : Nat]

\* Calculation id exists and has the key of w's content.
Serves(id, w) ==
    id \in DOMAIN calculations /\ TaxCacheKey(calculations[id]) = TaxCacheKey(Input(w))

(***************************************************************************)
(* What is kept under a key is a calculation with that key; what a handler *)
(* is about to book, and what it has booked, serves its order.             *)
(***************************************************************************)
KeptUnderItsKey ==
    \A e \in keptCalculations :
        e.id \in DOMAIN calculations /\ TaxCacheKey(calculations[e.id]) = e.key

RecordsItsOwn == \A w \in Works : taxWork[w].stage = "records" => Serves(taxWork[w].id, w)

RecordsOnlyOrders == \A w \in Works : taxWork[w].stage = "records" => w \in TaxedOrders

BookedItsOwn == \A o \in TaxedOrders : transactions[o] # 0 => Serves(transactions[o], o)

TaxInv ==
    /\ TaxTypeOK /\ KeptUnderItsKey
    /\ RecordsItsOwn /\ RecordsOnlyOrders /\ BookedItsOwn

(***************************************************************************)
(* A calculation that is made leaves those made before as they are.        *)
(***************************************************************************)
LEMMA Grows ==
    ASSUME TaxTypeOK, NEW input \in {Input(w) : w \in Works},
           calculations' = Append(calculations, input)
    PROVE  /\ calculations' \in Seq({Input(w) : w \in Works})
           /\ Len(calculations) + 1 \in Nat
           /\ Len(calculations) + 1 \in DOMAIN calculations'
           /\ calculations'[Len(calculations) + 1] = input
           /\ \A i \in DOMAIN calculations :
                i \in DOMAIN calculations' /\ calculations'[i] = calculations[i]
  <1> DEFINE S == {Input(w) : w \in Works}
  <1>1. calculations \in Seq(S) /\ input \in S
    BY DEF TaxTypeOK
  <1> HIDE DEF S
  <1>2. /\ calculations' \in Seq(S) /\ Len(calculations) + 1 \in Nat
        /\ Len(calculations) + 1 \in DOMAIN calculations'
        /\ calculations'[Len(calculations) + 1] = input
        /\ \A i \in DOMAIN calculations :
             i \in DOMAIN calculations' /\ calculations'[i] = calculations[i]
    BY <1>1
  <1> QED
    BY <1>2 DEF S

\* One work goes on, to what serves it when it is to be booked.
LEMMA OneWorkMoves ==
    ASSUME TaxInv, NEW w \in Works, NEW work \in [stage : TaxStages, id : Nat],
           taxWork' = [taxWork EXCEPT ![w] = work],
           UNCHANGED <<keptCalculations, calculations>>,
           work.stage = "records" => w \in TaxedOrders /\ Serves(work.id, w),
           \/ UNCHANGED transactions
           \/ w \in TaxedOrders /\ taxWork[w].stage = "records" /\ Book(w)
    PROVE  TaxInv'
  <1>1. /\ taxWork \in [Works -> [stage : TaxStages, id : Nat]]
        /\ transactions \in [TaxedOrders -> Nat]
    BY DEF TaxInv, TaxTypeOK
  <1>2. taxWork'[w] = work /\ \A v \in Works \ {w} : taxWork'[v] = taxWork[v]
    BY <1>1
  <1>3. \A v \in Works, i \in Nat : Serves(i, v) => Serves(i, v)'
    BY DEF Serves
  <1>4. RecordsItsOwn' /\ RecordsOnlyOrders'
    BY <1>1, <1>2, <1>3 DEF TaxInv, RecordsItsOwn, RecordsOnlyOrders
  <1>5. transactions' \in [TaxedOrders -> Nat] /\ BookedItsOwn'
    <2>0. TaxedOrders \subseteq Works
      BY DEF TaxedOrders, Works
    <2>1. CASE UNCHANGED transactions
      BY <1>1, <1>3, <2>0, <2>1 DEF TaxInv, BookedItsOwn
    <2>2. CASE w \in TaxedOrders /\ taxWork[w].stage = "records" /\ Book(w)
      <3> DEFINE booked == IF transactions[w] = 0 THEN taxWork[w].id ELSE transactions[w]
      <3>1. transactions' = [transactions EXCEPT ![w] = booked]
        BY <2>2 DEF Book
      <3>2. booked \in Nat /\ (booked # 0 => Serves(booked, w))
        BY <1>1, <2>2 DEF TaxInv, RecordsItsOwn, BookedItsOwn
      <3> HIDE DEF booked
      <3> QED
        BY <1>1, <1>3, <2>0, <2>2, <3>1, <3>2 DEF TaxInv, BookedItsOwn
    <2> QED
      BY <2>1, <2>2
  <1>6. TaxTypeOK' /\ KeptUnderItsKey'
    BY <1>1, <1>5 DEF TaxInv, TaxTypeOK, KeptUnderItsKey
  <1> QED
    BY <1>4, <1>5, <1>6 DEF TaxInv

(***************************************************************************)
(* The steps.                                                              *)
(***************************************************************************)
LEMMA TaxInitEstablishes == TaxInit => TaxInv
  <1> SUFFICES ASSUME TaxInit PROVE TaxInv
    OBVIOUS
  <1>1. TaxTypeOK
    BY DEF TaxInit, TaxTypeOK, TaxStages
  <1>2. KeptUnderItsKey /\ RecordsItsOwn /\ BookedItsOwn
    BY DEF TaxInit, KeptUnderItsKey, RecordsItsOwn, BookedItsOwn
  <1>3. RecordsOnlyOrders
    BY DEF TaxInit, RecordsOnlyOrders
  <1> QED
    BY <1>1, <1>2, <1>3 DEF TaxInv

LEMMA HaveIsWork ==
    ASSUME TaxInv, NEW w \in Works, NEW id \in Nat
    PROVE  LET work == [taxWork[w] EXCEPT !.id = id,
                                          !.stage = IF w \in TaxedOrders THEN "records" ELSE "done"]
           IN  /\ work \in [stage : TaxStages, id : Nat] /\ work.id = id
               /\ work.stage = "records" => w \in TaxedOrders
               /\ Have(w, id) => taxWork' = [taxWork EXCEPT ![w] = work]
  BY DEF TaxInv, TaxTypeOK, TaxStages, Have

LEMMA NowMoves ==
    ASSUME TaxInv, NEW w \in Works, NEW stage \in TaxStages \ {"records"}, Now(w, stage),
           UNCHANGED <<keptCalculations, calculations>>,
           \/ UNCHANGED transactions
           \/ w \in TaxedOrders /\ taxWork[w].stage = "records" /\ Book(w)
    PROVE  TaxInv'
  <1> DEFINE work == [taxWork[w] EXCEPT !.stage = stage]
  <1>1. work \in [stage : TaxStages, id : Nat] /\ work.stage # "records"
    BY DEF TaxInv, TaxTypeOK
  <1>2. taxWork' = [taxWork EXCEPT ![w] = work]
    BY DEF Now
  <1> HIDE DEF work
  <1> QED
    BY <1>1, <1>2, OneWorkMoves

LEMMA CalculateKeeps ==
    ASSUME TaxInv, NEW w \in Works, CalculateTax(w)
    PROVE  TaxInv'
  <1> DEFINE input == Input(w)
             id    == Len(calculations) + 1
             key   == TaxCacheKey(input)
             fresh == [key |-> key, id |-> id, left |-> CalculationTtl]
  <1>1. CASE ~KeptApart(input.lines)
    <2>1. Now(w, "refused") /\ UNCHANGED <<keptCalculations, calculations, transactions>>
      BY <1>1 DEF CalculateTax
    <2> QED
      BY <2>1, NowMoves DEF TaxStages
  <1>2. CASE KeptApart(input.lines)
    <2>1. /\ calculations' = Append(calculations, input) /\ Have(w, id) /\ UNCHANGED transactions
          /\ keptCalculations' = {e \in keptCalculations : e.key # key} \cup {fresh}
      BY <1>2 DEF CalculateTax
    <2>2. input \in {Input(v) : v \in Works} /\ TaxTypeOK
      BY DEF TaxInv
    <2> HIDE DEF input
    <2>3. /\ calculations' \in Seq({Input(v) : v \in Works}) /\ id \in Nat
          /\ id \in DOMAIN calculations' /\ calculations'[id] = input
          /\ \A i \in DOMAIN calculations :
               i \in DOMAIN calculations' /\ calculations'[i] = calculations[i]
      BY <2>1, <2>2, Grows
    <2> HIDE DEF id
    <2>4. PICK work \in [stage : TaxStages, id : Nat] :
              /\ work.id = id /\ (work.stage = "records" => w \in TaxedOrders)
              /\ taxWork' = [taxWork EXCEPT ![w] = work]
      BY <2>1, <2>3, HaveIsWork
    <2>5. /\ taxWork \in [Works -> [stage : TaxStages, id : Nat]]
          /\ taxWork'[w] = work /\ \A v \in Works \ {w} : taxWork'[v] = taxWork[v]
          /\ taxWork' \in [Works -> [stage : TaxStages, id : Nat]]
      BY <2>2, <2>4 DEF TaxTypeOK
    <2>6. \A v \in Works, i \in Nat : Serves(i, v) => Serves(i, v)'
      BY <2>3 DEF Serves
    <2>7. Serves(work.id, w)'
      BY <2>3, <2>4 DEF Serves, input
    <2>8. key \in {TaxCacheKey(Input(v)) : v \in Works}
      BY DEF input
    <2>9. fresh \in [key : {TaxCacheKey(Input(v)) : v \in Works}, id : Nat, left : Nat]
          /\ fresh.id = id /\ fresh.key = key
      BY <2>3, <2>8, TaxAssumption
    <2> HIDE DEF fresh
    <2>10. KeptUnderItsKey'
      <3>1. TaxCacheKey(calculations'[fresh.id]) = fresh.key /\ fresh.id \in DOMAIN calculations'
        BY <2>3, <2>9
      <3>2. \A e \in keptCalculations :
              e.id \in DOMAIN calculations' /\ TaxCacheKey(calculations'[e.id]) = e.key
        BY <2>3 DEF TaxInv, KeptUnderItsKey
      <3> QED
        BY <2>1, <3>1, <3>2 DEF KeptUnderItsKey
    <2>11. RecordsItsOwn' /\ RecordsOnlyOrders'
      BY <2>4, <2>5, <2>6, <2>7 DEF TaxInv, RecordsItsOwn, RecordsOnlyOrders
    <2>12. BookedItsOwn'
      <3>1. \A o \in TaxedOrders : o \in Works /\ transactions[o] \in Nat
        BY <2>2 DEF TaxTypeOK, TaxedOrders, Works
      <3> QED
        BY <2>1, <2>6, <3>1 DEF TaxInv, BookedItsOwn
    <2>13. keptCalculations' \subseteq
             [key : {TaxCacheKey(Input(v)) : v \in Works}, id : Nat, left : Nat]
      BY <2>1, <2>2, <2>9 DEF TaxTypeOK
    <2>14. TaxTypeOK'
      BY <2>1, <2>2, <2>3, <2>5, <2>13 DEF TaxTypeOK
    <2> QED
      BY <2>10, <2>11, <2>12, <2>14 DEF TaxInv
  <1> QED
    BY <1>1, <1>2

LEMMA LookUpKeeps ==
    ASSUME TaxInv, NEW w \in Works, LookUp(w)
    PROVE  TaxInv'
  <1>1. UNCHANGED <<keptCalculations, calculations, transactions>>
    BY DEF LookUp
  <1>2. CASE Now(w, "asks")
    BY <1>1, <1>2, NowMoves DEF TaxStages
  <1>3. ASSUME NEW e \in keptCalculations, e.key = TaxCacheKey(Input(w)), Have(w, e.id)
        PROVE  TaxInv'
    <2>1. Serves(e.id, w) /\ e.id \in Nat
      BY <1>3 DEF TaxInv, TaxTypeOK, KeptUnderItsKey, Serves
    <2>2. PICK work \in [stage : TaxStages, id : Nat] :
              /\ work.id = e.id /\ (work.stage = "records" => w \in TaxedOrders)
              /\ taxWork' = [taxWork EXCEPT ![w] = work]
      BY <1>3, <2>1, HaveIsWork
    <2>3. Serves(work.id, w)
      BY <2>1, <2>2
    <2> QED
      BY <1>1, <2>2, <2>3, OneWorkMoves
  <1> QED
    BY <1>2, <1>3 DEF LookUp

LEMMA OtherTaxSteps ==
    ASSUME TaxInv, NEW w \in Works, StartTax(w) \/ RecordTransaction(w) \/ StripeFails(w)
    PROVE  TaxInv'
  <1>1. UNCHANGED <<keptCalculations, calculations>>
    BY DEF StartTax, RecordTransaction, StripeFails
  <1>2. At(w, "records") => w \in TaxedOrders /\ taxWork[w].stage = "records"
    <2>1. taxWork[w].stage = "records" => w \in TaxedOrders
      BY DEF TaxInv, RecordsOnlyOrders
    <2> QED
      BY <2>1 DEF At
  <1>3. CASE StartTax(w)
    <2> DEFINE work == [stage |-> IF Input(w).lines = <<>> THEN "nothing" ELSE "looks", id |-> 0]
    <2>1. work \in [stage : TaxStages, id : Nat] /\ work.stage # "records"
      BY DEF TaxStages
    <2>2. taxWork' = [taxWork EXCEPT ![w] = work] /\ UNCHANGED transactions
      BY <1>3 DEF StartTax
    <2> HIDE DEF work
    <2> QED
      BY <1>1, <2>1, <2>2, OneWorkMoves
  <1>4. CASE RecordTransaction(w)
    <2>1. PICK stage \in {"done", "failed"} : Now(w, stage)
      BY <1>4 DEF RecordTransaction
    <2>2. Book(w) /\ At(w, "records")
      BY <1>4 DEF RecordTransaction
    <2>3. stage \in TaxStages \ {"records"}
      BY DEF TaxStages
    <2> QED
      BY <1>1, <1>2, <2>1, <2>2, <2>3, NowMoves
  <1>5. CASE StripeFails(w)
    <2>1. Now(w, "failed") /\ (UNCHANGED transactions \/ (At(w, "records") /\ Book(w)))
      BY <1>5 DEF StripeFails
    <2>2. "failed" \in TaxStages \ {"records"}
      BY DEF TaxStages
    <2> QED
      BY <1>1, <1>2, <2>1, <2>2, NowMoves
  <1> QED
    BY <1>3, <1>4, <1>5

LEMMA TaxTickKeeps ==
    ASSUME TaxInv, TaxTick
    PROVE  TaxInv'
  <1>1. UNCHANGED <<calculations, transactions, taxWork>>
    BY DEF TaxTick
  <1>2. keptCalculations \subseteq
          [key : {TaxCacheKey(Input(v)) : v \in Works}, id : Nat, left : Nat]
    BY DEF TaxInv, TaxTypeOK
  <1>3. \A e \in keptCalculations' :
          /\ e \in [key : {TaxCacheKey(Input(v)) : v \in Works}, id : Nat, left : Nat]
          /\ \E k \in keptCalculations : e.id = k.id /\ e.key = k.key
    <2> SUFFICES ASSUME NEW e \in keptCalculations'
                 PROVE  /\ e \in [key : {TaxCacheKey(Input(v)) : v \in Works}, id : Nat, left : Nat]
                        /\ \E k \in keptCalculations : e.id = k.id /\ e.key = k.key
      OBVIOUS
    <2>1. PICK k \in keptCalculations : k.left > 1 /\ e = [k EXCEPT !.left = @ - 1]
      BY DEF TaxTick
    <2>2. k.left - 1 \in Nat
      BY <1>2, <2>1
    <2> QED
      BY <1>2, <2>1, <2>2
  <1>4. KeptUnderItsKey'
    BY <1>1, <1>3 DEF TaxInv, KeptUnderItsKey
  <1>5. TaxTypeOK'
    BY <1>1, <1>3 DEF TaxInv, TaxTypeOK
  <1>6. RecordsItsOwn' /\ BookedItsOwn' /\ RecordsOnlyOrders'
    BY <1>1 DEF TaxInv, RecordsItsOwn, BookedItsOwn, Serves, RecordsOnlyOrders
  <1> QED
    BY <1>4, <1>5, <1>6 DEF TaxInv

(***************************************************************************)
(* The theorem.                                                            *)
(***************************************************************************)
LEMMA TaxInvariant == TaxSpec => []TaxInv
  <1>1. TaxInit => TaxInv
    BY TaxInitEstablishes
  <1>2. TaxInv /\ [TaxNext]_taxVars => TaxInv'
    <2> SUFFICES ASSUME TaxInv, [TaxNext]_taxVars PROVE TaxInv'
      OBVIOUS
    <2>1. ASSUME NEW w \in Works, StartTax(w) \/ RecordTransaction(w) \/ StripeFails(w)
          PROVE  TaxInv'
      BY <2>1, OtherTaxSteps
    <2>2. ASSUME NEW w \in Works, LookUp(w) PROVE TaxInv'
      BY <2>2, LookUpKeeps
    <2>3. ASSUME NEW w \in Works, CalculateTax(w) PROVE TaxInv'
      BY <2>3, CalculateKeeps
    <2>4. CASE TaxTick
      BY <2>4, TaxTickKeeps
    <2>5. CASE UNCHANGED taxVars
      BY <2>5 DEF taxVars, TaxInv, TaxTypeOK, KeptUnderItsKey, RecordsItsOwn, RecordsOnlyOrders,
                  BookedItsOwn, Serves
    <2> QED
      BY <2>1, <2>2, <2>3, <2>4, <2>5 DEF TaxNext
  <1> QED
    BY <1>1, <1>2, PTL DEF TaxSpec

\* For any orders, whoever asked for the calculation, however long it is kept
\* and however often the event comes: an order's tax is booked with its own
\* lines, address and shipping (service.ts calculateTax, record-tax-transaction.ts).
THEOREM OrdersBookedRight == TaxSpec => []BookedAsOrdered
  <1>1. TaxInv => BookedAsOrdered
    <2> SUFFICES ASSUME TaxInv, NEW o \in TaxedOrders, transactions[o] # 0
                 PROVE  LET booked == calculations[transactions[o]]
                        IN  /\ ToBag(booked.lines) = ToBag(Input(o).lines)
                            /\ booked.to = PlacedOrders[o].to
                            /\ booked.shipping = PlacedOrders[o].shipping
      BY DEF BookedAsOrdered
    <2> DEFINE booked == calculations[transactions[o]]
    <2>1. TaxCacheKey(booked) = TaxCacheKey(Input(o))
      BY DEF TaxInv, BookedItsOwn, Serves
    <2> HIDE DEF booked
    <2>2. /\ ToBag(booked.lines) = ToBag(Input(o).lines)
          /\ booked.to = Input(o).to /\ booked.shipping = Input(o).shipping
      BY <2>1 DEF TaxCacheKey
    <2>3. Input(o) = [PlacedOrders[o] EXCEPT !.lines = TransactionLines(PlacedOrders[o].lines)]
      BY DEF Input
    <2>4. Input(o).to = PlacedOrders[o].to /\ Input(o).shipping = PlacedOrders[o].shipping
      BY <2>3, TaxAssumption DEF TaxedOrders
    <2> QED
      BY <2>2, <2>4 DEF booked
  <1> QED
    BY <1>1, TaxInvariant, PTL
===============================================================================
