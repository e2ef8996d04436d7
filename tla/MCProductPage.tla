---------------------------- MODULE MCProductPage ----------------------------
EXTENDS ProductPage, TLC
CONSTANTS here, there, small, custom, f1, f2, hello, long, s1, s2
Payloads == [art : Files \cup {None}, text : {hello, None}, size : {s1, None}]
OneStored == {[variant |-> custom, custom |-> [art |-> None, text |-> None, size |-> s1]]}
Rule(art, text, size, named) ==
    [inputs |-> [artwork |-> art, text |-> text, size |-> size], named |-> named,
     within |-> {s1}, unfit |-> {long}, coarse |-> {<<f2, s1>>}]
Rules == {Rule("optional", "off", "optional", TRUE), Rule("off", "required", "required", TRUE),
          Rule("off", "off", "optional", FALSE)}
================================================================================
