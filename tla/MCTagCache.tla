------------------------------ MODULE MCTagCache ------------------------------
(* One point of the device and two of the user's devices; the               *)
(* configurations differ from the sound one in one point or the outputs;    *)
(* which of the two points it is makes no difference.                       *)
EXTENDS TagCache

Modbus == [there |-> TRUE, protocol |-> 1, found |-> Queries, com |-> 1, fun |-> 0]

Variants ==
    {[Modbus EXCEPT !.there = FALSE], [Modbus EXCEPT !.protocol = 3], [Modbus EXCEPT !.com = 8],
     [Modbus EXCEPT !.fun = 18], [Modbus EXCEPT !.fun = 259], [Modbus EXCEPT !.found = Queries \ {"protocol"}],
     [Modbus EXCEPT !.found = Queries \ {"point"}], [Modbus EXCEPT !.protocol = 3, !.found = Queries \ {"did"}]}

Odd == CHOOSE p \in User : TRUE
Base == [p \in Points |-> Modbus]
SomeConfigs ==
    {[points |-> Base, outputs |-> b] : b \in BOOLEAN}
    \cup {[points |-> [Base EXCEPT ![Odd] = v], outputs |-> TRUE] : v \in Variants}
    \cup {[points |-> [p \in Points |-> [Modbus EXCEPT !.protocol = 3]], outputs |-> TRUE],
          [points |-> [p \in Points |-> [Modbus EXCEPT !.found = Queries \ {"factor"}]], outputs |-> TRUE]}
=============================================================================
