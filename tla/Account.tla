-------------------------------- MODULE Account --------------------------------
(***************************************************************************)
(* The addresses a customer keeps, the one that is the default, and the    *)
(* checkout that fills itself in from them.                                *)
(*                                                                         *)
(* The tabs share the session's cookie and the checkout's draft.  A page   *)
(* shows the addresses as they were when it was rendered, and its requests *)
(* run at the server in calls that others get between.  Medusa's store of  *)
(* customers is external: making an address the default may or may not     *)
(* take that from the others, so the route takes it back itself.           *)
(*                                                                         *)
(* Bounds: MaxAddresses saved, MaxAccountSteps requests and pages opened.  *)
(* A tab has one request at the server at a time.                          *)
(***************************************************************************)
EXTENDS Integers, FiniteSets

CONSTANTS
    Tabs,
    Lines,         \* what an address may say
    NoLines,       \* of the fields left blank
    MaxAddresses,
    MaxAccountSteps

\* A list of addresses is never cut at its limit of twenty.
ASSUME AccountAssumption ==
    /\ NoLines \notin Lines
    /\ MaxAddresses \in 1..20 /\ MaxAccountSteps \in Nat

VARIABLES
    hasCustomer,  \* Medusa has the customer
    session,      \* the browser has a cookie of this customer
    saved,        \* Medusa's addresses, by id
    lastAddress,  \* ids follow the order of creation
    defaults,     \* the ids that are the default
    pages,        \* each tab: [place, list, signedIn, refreshing]
    asks,         \* each tab's request: [op, id, lines, previous, alone]
    draft,        \* of the checkout, in local storage: [chosen, lines]
    preferred,    \* what the last request for a default, undisturbed, asked for
    accountSteps

accountVars ==
    <<hasCustomer, session, saved, lastAddress, defaults, pages, asks, draft, preferred,
      accountSteps>>

AddressIds == 1..MaxAddresses

NoAddress == 0   \* of a draft nothing was chosen for

NewAddress == -1 \* NEW_ADDRESS_ID

Kept == {a \in AddressIds : saved[a] # NoLines}

NoAsk == [op |-> "idle", id |-> NoAddress, lines |-> NoLines, previous |-> {}, alone |-> FALSE]

Page(place, list, signedIn) ==
    [place |-> place, list |-> list, signedIn |-> signedIn, refreshing |-> FALSE]

Away == Page("elsewhere", {}, FALSE)

Takes == accountSteps < MaxAccountSteps /\ accountSteps' = accountSteps + 1

(***************************************************************************)
(* Pages.                                                                  *)
(***************************************************************************)
toSavedAddress(a) == [id |-> a, lines |-> saved[a], isDefault |-> a \in defaults]

\* Whether the customer of the cookie can be read.
getCustomer == {FALSE, session /\ hasCustomer}

\* Addresses that cannot be read are none.
fetchCustomerAddresses ==
    {{}} \cup (IF session THEN {{toSavedAddress(a) : a \in Kept}} ELSE {})

\* The default comes first, then the newest.
Newest(list) == CHOOSE e \in list : \A f \in list : f.id <= e.id

First(list) ==
    LET heads == {e \in list : e.isDefault}
    IN  Newest(IF heads = {} THEN list ELSE heads)

\* Without a customer the addresses redirect and the checkout is a guest's.
Pages(place) ==
    {IF place = "checkout" THEN Page(place, {}, FALSE) ELSE Away}
    \cup {Page(place, list, TRUE) : list \in
             IF TRUE \in getCustomer THEN fetchCustomerAddresses ELSE {}}

Open(t, place) ==
    /\ Takes
    /\ \E page \in Pages(place) : pages' = [pages EXCEPT ![t] = page]
    /\ UNCHANGED <<hasCustomer, session, saved, lastAddress, defaults, asks, draft, preferred>>

Refreshed(t) ==
    /\ pages[t].refreshing
    /\ \E page \in Pages(pages[t].place) : pages' = [pages EXCEPT ![t] = page]
    /\ UNCHANGED <<hasCustomer, session, saved, lastAddress, defaults, asks, draft, preferred,
                   accountSteps>>

(***************************************************************************)
(* What the pages ask for.                                                 *)
(***************************************************************************)
\* Each address has a card, with its form and the question before it goes.
Cards(t) == pages[t].list

\* The cards that are not the default offer to become it.
Offered(t) == {e \in Cards(t) : ~e.isDefault}

IdleAt(t, place) == pages[t].place = place /\ asks[t].op = "idle" /\ session

Send(t, ask) == asks' = [asks EXCEPT ![t] = ask]

Request(op, id, lines) == [NoAsk EXCEPT !.op = op, !.id = id, !.lines = lines]

IsDefaultAsk(ask) == ask.op \in {"list", "set", "unset"}

AskDefault(t) ==
    /\ IdleAt(t, "addresses") /\ Takes
    /\ \E e \in Offered(t) :
         LET others == {u \in Tabs : IsDefaultAsk(asks[u])}
         IN  asks' = [u \in Tabs |->
               IF u = t THEN [Request("list", e.id, NoLines) EXCEPT !.alone = others = {}]
               ELSE [asks[u] EXCEPT !.alone = FALSE]]
    /\ preferred' = NoAddress
    /\ UNCHANGED <<hasCustomer, session, saved, lastAddress, defaults, pages, draft>>

validAddressFields(lines) == lines # NoLines

\* The form of a new address, or of the one shown.
AskSave(t) ==
    /\ IdleAt(t, "addresses") /\ Takes
    /\ \E lines \in Lines \cup {NoLines} :
         /\ validAddressFields(lines)
         /\ \/ Send(t, Request("create", NoAddress, lines))
            \/ \E e \in Cards(t) : e.lines # lines /\ Send(t, Request("edit", e.id, lines))
    /\ UNCHANGED <<hasCustomer, session, saved, lastAddress, defaults, pages, draft, preferred>>

AskRemove(t) ==
    /\ IdleAt(t, "addresses") /\ Takes
    /\ \E e \in Cards(t) : Send(t, Request("remove", e.id, NoLines))
    /\ UNCHANGED <<hasCustomer, session, saved, lastAddress, defaults, pages, draft, preferred>>

AskClose(t) ==
    /\ IdleAt(t, "addresses") /\ Takes
    /\ Send(t, Request("close", NoAddress, NoLines))
    /\ UNCHANGED <<hasCustomer, session, saved, lastAddress, defaults, pages, draft, preferred>>

(***************************************************************************)
(* The routes, call by call.                                               *)
(***************************************************************************)
To(t, op) == asks' = [asks EXCEPT ![t].op = op]

Finds(a) == hasCustomer /\ a \in Kept

\* The defaults that would have to give way.
PreviousOfAny(a) == defaults

Previous(a) == defaults \ {a}

ListAddresses(t) ==
    /\ asks[t].op = "list" /\ hasCustomer
    /\ \E found \in SUBSET Previous(asks[t].id) :
         /\ Cardinality(found) = (IF Previous(asks[t].id) = {} THEN 0 ELSE 1)
         /\ asks' = [asks EXCEPT ![t] = [@ EXCEPT
              !.op = "set", !.previous = found,
              !.alone = asks[t].alone /\ Cardinality(defaults) <= 1]]
    /\ UNCHANGED <<hasCustomer, session, saved, lastAddress, defaults, pages, draft, preferred,
                   accountSteps>>

Prefers(t) ==
    preferred' = IF asks[t].alone /\ asks[t].id \in Kept THEN asks[t].id ELSE preferred

\* Medusa may take the default from the others.
SetDefault(t) ==
    /\ asks[t].op = "set" /\ Finds(asks[t].id)
    /\ \E others \in {defaults, {}} : defaults' = others \cup {asks[t].id}
    /\ IF asks[t].previous = {} THEN To(t, "done") /\ Prefers(t)
       ELSE To(t, "unset") /\ UNCHANGED preferred
    /\ UNCHANGED <<hasCustomer, session, saved, lastAddress, pages, draft, accountSteps>>

UnsetDefault(t) ==
    /\ asks[t].op = "unset" /\ \A d \in asks[t].previous : Finds(d)
    /\ defaults' = defaults \ asks[t].previous
    /\ To(t, "done") /\ Prefers(t)
    /\ UNCHANGED <<hasCustomer, session, saved, lastAddress, pages, draft, accountSteps>>

\* A new address is never the default.
CreateAddress(t) ==
    /\ asks[t].op = "create" /\ hasCustomer
    /\ lastAddress < MaxAddresses /\ lastAddress' = lastAddress + 1
    /\ saved' = [saved EXCEPT ![lastAddress'] = asks[t].lines]
    /\ To(t, "done")
    /\ UNCHANGED <<hasCustomer, session, defaults, pages, draft, preferred, accountSteps>>

UpdateAddress(t) ==
    /\ asks[t].op = "edit" /\ Finds(asks[t].id)
    /\ saved' = [saved EXCEPT ![asks[t].id] = asks[t].lines]
    /\ To(t, "done")
    /\ UNCHANGED <<hasCustomer, session, lastAddress, defaults, pages, draft, preferred,
                   accountSteps>>

Forgotten(gone) ==
    /\ saved' = [a \in AddressIds |-> IF a \in gone THEN NoLines ELSE saved[a]]
    /\ defaults' = defaults \ gone
    /\ preferred' = IF preferred \in gone THEN NoAddress ELSE preferred

DeleteAddress(t) ==
    /\ asks[t].op = "remove" /\ Finds(asks[t].id)
    /\ Forgotten({asks[t].id})
    /\ To(t, "done")
    /\ UNCHANGED <<hasCustomer, session, lastAddress, pages, draft, accountSteps>>

\* One transaction deletes the addresses, the identities and the customer.
purgeCustomerIdentity == hasCustomer' = FALSE /\ Forgotten(AddressIds)

\* The cookie and the requests still running are of nobody from then on.
CloseAccount(t) ==
    /\ asks[t].op = "close" /\ hasCustomer
    /\ purgeCustomerIdentity
    /\ session' = FALSE
    /\ asks' = [u \in Tabs |->
         IF u = t THEN [asks[u] EXCEPT !.op = "closed"]
         ELSE IF asks[u].op \in {"idle", "done", "closed"} THEN asks[u]
         ELSE [asks[u] EXCEPT !.op = "failed"]]
    /\ UNCHANGED <<lastAddress, pages, draft, accountSteps>>

\* A call that is refused or lost ends the request.
CallFails(t) ==
    /\ asks[t].op \in {"list", "set", "unset", "create", "edit", "remove", "close"}
    /\ To(t, "failed")
    /\ UNCHANGED <<hasCustomer, session, saved, lastAddress, defaults, pages, draft, preferred,
                   accountSteps>>

Freed(t) == asks' = [asks EXCEPT ![t] = NoAsk]

\* The page of the addresses is rendered again.
Done(t) ==
    /\ asks[t].op = "done"
    /\ Freed(t)
    /\ pages' = [pages EXCEPT ![t].refreshing = pages[t].place = "addresses"]
    /\ UNCHANGED <<hasCustomer, session, saved, lastAddress, defaults, draft, preferred,
                   accountSteps>>

Closed(t) ==
    /\ asks[t].op = "closed"
    /\ Freed(t)
    /\ pages' = [pages EXCEPT ![t] = Away]
    /\ UNCHANGED <<hasCustomer, session, saved, lastAddress, defaults, draft, preferred,
                   accountSteps>>

\* An answer may be lost after all was done.
LosesAnswer(t) ==
    /\ asks[t].op \in {"failed", "done", "closed"}
    /\ Freed(t)
    /\ UNCHANGED <<hasCustomer, session, saved, lastAddress, defaults, pages, draft, preferred,
                   accountSteps>>

(***************************************************************************)
(* Signing out and in.  A customer the provider vouches for is created,    *)
(* and the token asked for again may still not come.                       *)
(***************************************************************************)
Logout(t) ==
    /\ session /\ Takes
    /\ session' = FALSE
    /\ pages' = [pages EXCEPT ![t] = Away]
    /\ UNCHANGED <<hasCustomer, saved, lastAddress, defaults, asks, draft, preferred>>

Callback ==
    /\ ~session /\ Takes
    /\ hasCustomer' = TRUE
    /\ session' \in (IF hasCustomer THEN {TRUE} ELSE BOOLEAN)
    /\ UNCHANGED <<saved, lastAddress, defaults, pages, asks, draft, preferred>>

(***************************************************************************)
(* The checkout.                                                           *)
(***************************************************************************)
OnCheckout(t) == pages[t].place = "checkout"

Selected(t, id) == {e \in pages[t].list : e.id = id}

draftFromSavedAddress(e) == e.lines

Chosen(e) == draft' = [chosen |-> e.id, lines |-> draftFromSavedAddress(e)]

\* A draft whose choice the page does not know is filled in.
FillIn(t) ==
    /\ OnCheckout(t) /\ pages[t].list # {}
    /\ draft.chosen # NewAddress /\ Selected(t, draft.chosen) = {}
    /\ Chosen(First(pages[t].list))
    /\ UNCHANGED <<hasCustomer, session, saved, lastAddress, defaults, pages, asks, preferred,
                   accountSteps>>

Pick(t) ==
    /\ OnCheckout(t) /\ Takes
    /\ \/ \E e \in pages[t].list : e.id # draft.chosen /\ Chosen(e)
       \/ /\ pages[t].list # {} /\ draft.chosen # NewAddress
          /\ draft' = [chosen |-> NewAddress, lines |-> NoLines]
    /\ UNCHANGED <<hasCustomer, session, saved, lastAddress, defaults, pages, asks, preferred>>

\* The choice stays what it was.
Type(t) ==
    /\ OnCheckout(t) /\ Takes
    /\ \E lines \in Lines : lines # draft.lines /\ draft' = [draft EXCEPT !.lines = lines]
    /\ UNCHANGED <<hasCustomer, session, saved, lastAddress, defaults, pages, asks, preferred>>

\* "Save this address to my account".
SaveAddress(t) ==
    /\ IdleAt(t, "checkout") /\ pages[t].signedIn /\ Takes
    /\ Selected(t, draft.chosen) = {} /\ validAddressFields(draft.lines)
    /\ Send(t, Request("create", NoAddress, draft.lines))
    /\ UNCHANGED <<hasCustomer, session, saved, lastAddress, defaults, pages, draft, preferred>>

\* The order is placed and its draft cleared.
ClearDraft(t) ==
    /\ OnCheckout(t) /\ validAddressFields(draft.lines)
    /\ draft' = [chosen |-> NoAddress, lines |-> NoLines]
    /\ pages' = [pages EXCEPT ![t] = Away]
    /\ UNCHANGED <<hasCustomer, session, saved, lastAddress, defaults, asks, preferred,
                   accountSteps>>

(***************************************************************************)
(* The specification.                                                      *)
(***************************************************************************)
AccountInit ==
    /\ hasCustomer = TRUE /\ session = TRUE
    /\ lastAddress \in {0, MaxAddresses - 1}
    /\ saved \in [AddressIds -> Lines \cup {NoLines}]
    /\ \A a \in AddressIds : saved[a] # NoLines <=> a <= lastAddress
    /\ defaults \in {{}} \cup {{a} : a \in Kept}
    /\ pages = [t \in Tabs |-> Page("addresses", {toSavedAddress(a) : a \in Kept}, TRUE)]
    /\ asks = [t \in Tabs |-> NoAsk]
    /\ draft = [chosen |-> NoAddress, lines |-> NoLines]
    /\ preferred = NoAddress /\ accountSteps = 0

AccountNext ==
    \/ Callback
    \/ \E t \in Tabs :
        \/ \E place \in {"addresses", "checkout"} : Open(t, place)
        \/ Logout(t) \/ Refreshed(t) \/ AskDefault(t) \/ AskSave(t) \/ AskRemove(t) \/ AskClose(t)
        \/ ListAddresses(t) \/ SetDefault(t) \/ UnsetDefault(t)
        \/ CreateAddress(t) \/ UpdateAddress(t) \/ DeleteAddress(t) \/ CloseAccount(t)
        \/ CallFails(t) \/ Done(t) \/ Closed(t) \/ LosesAnswer(t)
        \/ FillIn(t) \/ Pick(t) \/ Type(t) \/ SaveAddress(t) \/ ClearDraft(t)

AccountSpec == AccountInit /\ [][AccountNext]_accountVars

(***************************************************************************)
(* Properties.                                                             *)
(***************************************************************************)
\* "Pick a default so checkout fills itself in" (addresses-view.tsx): when the
\* last request for a default ran to its end undisturbed, from however old a
\* page, a checkout opened from then on is headed by its address, until that
\* is removed or another is asked for.
FillsInTheDefault ==
    [][\A t \in Tabs :
          Open(t, "checkout") /\ preferred # NoAddress /\ pages'[t].list # {} =>
              First(pages'[t].list) = toSavedAddress(preferred)]_accountVars

================================================================================
