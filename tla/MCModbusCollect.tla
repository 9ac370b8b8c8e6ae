---------------------------- MODULE MCModbusCollect ----------------------------
(* Model-checking instance of ModbusCollect. *)
EXTENDS ModbusCollect

CONSTANT check   \* the thread of the self-check

OneUser == {check}

(* Four devices: two plain ones, one that is averaged (and has two readings *)
(* whose averages are whole numbers), one that is not Modbus as others are. *)
Types     == <<"STANDARD", "STANDARD", "PSD", "RPC3FXC">>
ReadingOf == <<{6}, {3}, {0, 2}, {1}>>
ScalingOf == <<[op |-> 3, K |-> 2], [op |-> 1, K |-> 1], [op |-> 2, K |-> 1]>>
ValuesOf  == [bits \in {1, 8, 16, 32} |-> CASE bits = 1 -> 2 [] bits = 8 -> 4 [] bits = 16 -> 8 [] bits = 32 -> 16]

T(slave, addr, quantity, type) ==
    [slave |-> slave, fun |-> 3, addr |-> addr, quantity |-> quantity, type |-> type]

(* One to three neighbouring registers of a device, in every width that     *)
(* matters, and gaps, repetitions and other devices in between.             *)
Small == {T(1, 0, 1, 3), T(1, 1, 1, 3), T(1, 1, 1, 5), T(1, 0, 2, 3), T(1, 1, 1, 8), T(2, 1, 1, 3)}
Above(s, t) == s.slave < t.slave \/ (s.slave = t.slave /\ s.addr <= t.addr)
Pairs == {<<s, t>> \in Small \X Small : Above(s, t)}
Triples == {<<T(1, 0, 1, 3), T(1, 1, 1, 2), T(1, 2, 1, 3)>>,
            <<T(1, 0, 1, 3), T(1, 1, 1, 3), T(1, 2, 1, 5)>>,
            <<T(1, 0, 1, 3), T(1, 2, 1, 3), T(1, 3, 1, 3)>>,
            <<T(1, 0, 1, 3), T(1, 1, 1, 3), T(2, 2, 1, 3)>>,
            <<T(1, 0, 1, 8), T(1, 1, 1, 8), T(1, 2, 1, 8)>>,
            <<T(1, 0, 1, 3), T(1, 1, 2, 3), T(1, 3, 1, 3)>>,
            <<T(1, 0, 1, 3), [T(1, 1, 1, 3) EXCEPT !.fun = 4], T(2, 1, 1, 3)>>,
            <<[T(1, 0, 1, 3) EXCEPT !.fun = 1], [T(1, 1, 1, 3) EXCEPT !.fun = 1], T(1, 1, 1, 10)>>,
            <<T(1, 0, 1, 3), T(1, 1, 1, 2), T(4, 0, 1, 3)>>}
Averaged == {<<T(3, 0, 1, 2)>>, <<T(3, 0, 1, 3), T(3, 1, 1, 2)>>}
SmallTables == {<<>>} \cup {<<s>> : s \in Small} \cup Pairs \cup Triples \cup Averaged
=============================================================================
