----------------------------- MODULE MCSelfCheck ------------------------------
(* The list as myself_id.h has it, one with an input missing, the outputs   *)
(* alone, and one in another order.                                         *)
EXTENDS SelfCheck

From(a, b) == [n \in 1..b - a + 1 |-> a + n - 1]

SomeLists == {From(1, 28) \o <<36>>, From(1, 3) \o From(6, 10) \o From(12, 28),
              From(25, 28), <<6, 1>> \o From(7, 28) \o <<2>>}
=============================================================================
