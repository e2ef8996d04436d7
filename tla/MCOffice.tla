------------------------------- MODULE MCOffice -------------------------------
(***************************************************************************)
(* The small parts that share no state: the product widget, the pages      *)
(* orders are shipped from, the mails, the tax books and the customer's    *)
(* addresses.  A behaviour is one part's, and the others stay as they      *)
(* begin.                                                                  *)
(***************************************************************************)
EXTENDS ProductAdmin, ShippingDesk, Notifications, TaxBooks, Account, TLC

CONSTANTS tab1, tab2, queue, page, p1, p2, m1, s1, q1, o1, o2, o3, b1, v1, v2, here, home, work

VARIABLE part

PageShown == (queue :> "queue") @@ (page :> "order")

Ask(art, text, size) == [artwork |-> art, text |-> text, size |-> size]

Form(ask, bounds, names, price, limit, minimum) ==
    [customizable |-> TRUE, inputs |-> ask, bounds |-> bounds, names |-> names, price |-> price,
     limit |-> limit, minimum |-> minimum]

New ==
    [status |-> "draft", offersCustom |-> TRUE,
     meta |-> [flag |-> "absent", inputs |-> [i \in Inputs |-> "absent"], bounds |-> "blank",
               names |-> "blank", price |-> "blank", limit |-> "blank", minimum |-> "blank",
               other |-> None]]

Sold ==
    [status |-> "published", offersCustom |-> TRUE,
     meta |-> [flag |-> "true", inputs |-> Ask("off", "optional", "optional"), bounds |-> "own",
               names |-> "both", price |-> "both", limit |-> "own", minimum |-> "own",
               other |-> None]]

OwnerProducts == {New, Sold}

OwnerForms ==
    {Form(Ask("off", "off", "required"), "own", "both", "both", "blank", "own"),
     Form(Ask("off", "off", "optional"), "half", "title", "odd", "blank", "odd"),
     Form(Ask("optional", "required", "off"), "blank", "blank", "blank", "odd", "blank"),
     Form(Ask("off", "off", "off"), "blank", "blank", "blank", "blank", "blank")}

Sets(keys, ask, price) ==
    [keys |-> keys, meta |-> [flag |-> "true", inputs |-> ask, price |-> price, limit |-> "own",
                              other |-> "written"]]

EditorBodies ==
    {Sets({"other"}, Ask("off", "off", "off"), "blank"),
     Sets({"flag", "inputs", "limit"}, Ask("off", "required", "off"), "blank")}

TaxLine(variant, quantity) == [variant |-> variant, amount |-> 10, quantity |-> quantity]

Basket(lines, shipping) == [lines |-> lines, to |-> here, shipping |-> shipping]

\* Two orders that differ in the shipping alone, and two lines of one variant.
OwnerOrders ==
    o1 :> Basket(<<TaxLine(v1, 1), TaxLine(v2, 2), TaxLine(NoVariant, 1)>>, 5)
    @@ o2 :> Basket(<<TaxLine(v2, 2), TaxLine(v1, 1)>>, 9)
    @@ o3 :> Basket(<<TaxLine(v1, 1), TaxLine(v1, 2)>>, 5)

OwnerQuotes == b1 :> Basket(<<TaxLine(v1, 1), TaxLine(v1, 2)>>, 5)

\* One order's mail at a time, beside the request for a quote: the job has two
\* mails to do.
MaxOrderMails == 1

OrderMailsInHand == {m \in ConfirmationMails \cup ShippedMails : delivered[m] > 0}

officeVars == <<part, adminVars, deskVars, mailVars, taxVars, accountVars>>

OfficeInit ==
    /\ part \in {"products", "desk", "mails", "tax", "account"}
    /\ AdminInit /\ DeskInit /\ MailInit /\ TaxInit /\ AccountInit
    /\ part # "products" => product = Sold
    /\ part # "desk" => weighed = NoParcel
    /\ lastAddress = 2 /\ \A a \in Kept : saved[a] = home
    /\ part # "account" => defaults = {}

OfficeNext ==
    /\ UNCHANGED part
    /\ \/ /\ part = "products" /\ AdminNext
          /\ UNCHANGED <<deskVars, mailVars, taxVars, accountVars>>
       \/ /\ part = "desk" /\ DeskNext
          /\ UNCHANGED <<adminVars, mailVars, taxVars, accountVars>>
       \/ /\ part = "mails" /\ MailNext /\ Cardinality(OrderMailsInHand') <= MaxOrderMails
          /\ UNCHANGED <<adminVars, deskVars, taxVars, accountVars>>
       \/ /\ part = "tax" /\ TaxNext
          /\ UNCHANGED <<adminVars, deskVars, mailVars, accountVars>>
       \/ /\ part = "account" /\ AccountNext
          /\ UNCHANGED <<adminVars, deskVars, mailVars, taxVars>>

OfficeSpec == OfficeInit /\ [][OfficeNext]_officeVars

================================================================================
