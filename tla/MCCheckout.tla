------------------------------ MODULE MCCheckout ------------------------------
EXTENDS Checkout, TLC

CONSTANTS a1, a2, a3, a4, a5, zip, zipSpace, zap, town, townSpace, city, oak, elm,
          s1, p1, p2, r1, r2, k1

\* a1 with another street, another zip, spaces and a street, a space and a town.
AddressesTyped == {a1, a2, a3, a4, a5}
ZipsTyped      == a1 :> zip @@ a2 :> zip @@ a3 :> zap @@ a4 :> zipSpace @@ a5 :> zipSpace
TownsTyped     == a1 :> town @@ a2 :> town @@ a3 :> town @@ a4 :> townSpace @@ a5 :> city
StreetsTyped   == [a \in AddressesTyped |-> IF a \in {a2, a4} THEN elm ELSE oak]
Trimming       == zip :> zip @@ zipSpace :> zip @@ zap :> zap
                  @@ town :> town @@ townSpace :> town @@ city :> city
OrdinaryLine   == {[qty |-> 1, size |-> None, art |-> p1]}
SizedLine      == {[qty |-> 1, size |-> s1, art |-> p1]}
================================================================================
