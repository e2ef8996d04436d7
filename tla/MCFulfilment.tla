----------------------------- MODULE MCFulfilment -----------------------------
(***************************************************************************)
(* Fulfilment on small instances: a workload is the sequence of calls that *)
(* may be made, each at most once and in any order.                        *)
(***************************************************************************)
EXTENDS Fulfilment

CONSTANTS o1, o2, m1

Move(o, to)   == [kind |-> "move", order |-> o, arg |-> to]
Record(o, t)  == [kind |-> "record", order |-> o, arg |-> t]
Buy(o)        == [kind |-> "buy", order |-> o, arg |-> None]
Void(o)       == [kind |-> "void", order |-> o, arg |-> None]
Track(event)  == [kind |-> "track", order |-> None, arg |-> event]

Event(t, code, at) == [tracking |-> t, code |-> code, at |-> at]

OneOrder  == {o1}
OneManual == {m1}
Packing   == [o \in Orders |-> "packing"]
Apart     == [o \in Orders |-> o]

\* sequential: two labels, a hand-recorded shipment, two voids, two moves and
\* the carrier's report that the first label is delivered.
SequentialCalls ==
    <<Buy(o1), Buy(o1), Record(o1, m1), Void(o1), Void(o1),
      Move(o1, "cancelled"), Move(o1, "delivered"), Track(Event(1, "DE", 1))>>
SequentialRequests == DOMAIN SequentialCalls
SequentialEvents   == {Event(1, "DE", 1)}
Begun == {r \in Requests : pc[r] # "waiting"}

\* Of two calls that are the same the first begins first.  Not so purchases,
\* whose labels the webhooks tell apart.
SameInOrder ==
    \A r \in Requests, s \in Begun :
        r < s /\ Job[r] = Job[s] /\ Job[r].kind # "buy" => r \in Begun

SequentialSpec == Init /\ [][Next /\ SameInOrder']_vars /\ \A r \in Requests : WF_vars(Work(r))

\* overlapping: either purchases for two orders of one customer and a void, that
\* overlap each other; or one shipment, a delivery report that arrives twice,
\* another that says the same, and a void that overlaps them.
LabelCalls   == <<Buy(o1), Buy(o2), Void(o1)>>
WebhookCalls ==
    <<Record(o1, m1), Track(Event(m1, "DE", 1)), Track(Event(m1, "DE", 1)),
      Track(Event(m1, "SP", 2)), Void(o1)>>
OverlappingCalls    == LabelCalls \o WebhookCalls
OverlappingRequests == DOMAIN OverlappingCalls
OverlappingEvents   == {Event(m1, "DE", 1), Event(m1, "SP", 2)}
TwoOrders           == {o1, o2}
Together            == [o \in Orders |-> o1]
Nothing             == {}

OneWorkload == Begun \subseteq DOMAIN LabelCalls \/ Begun \cap DOMAIN LabelCalls = {}

OverlappingSpec == Init /\ [][Next /\ OneWorkload' /\ SameInOrder']_vars

\* The disagreements with the documents, each on the calls it takes.
FinalCalls      == <<Record(o1, m1), Void(o1), Track(Event(m1, "DE", 1))>>
FinalRequests   == DOMAIN FinalCalls
DoubleCalls     == <<Buy(o1), Buy(o1)>>
DoubleRequests  == DOMAIN DoubleCalls
=============================================================================
