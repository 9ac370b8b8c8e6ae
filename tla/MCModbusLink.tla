------------------------------ MODULE MCModbusLink ------------------------------
(* Model-checking instance of ModbusLink. *)
EXTENDS ModbusLink, Crc16

Via(via, slave, fun, addr, nb, type, values) ==
    [via |-> via, slave |-> slave, fun |-> fun, addr |-> addr, nb |-> nb, type |-> type, values |-> values]
C(slave, fun, addr, nb, type, values) == Via("modbus", slave, fun, addr, nb, type, values)

Sizes == [coil |-> 9, input |-> 1, holding |-> 2, inreg |-> 1]
(* Registers of two devices, read and written one and several at a time.     *)
Registers == {C(1, 3, 0, 2, 3, <<>>), C(1, 16, 0, 2, 3, <<258, 3>>), C(2, 3, 0, 1, 3, <<>>)}
(* Nine coils, so that the last one has a byte of its own.                   *)
Coils == {C(1, 1, 0, 9, 3, <<>>), C(1, 15, 0, 9, 3, <<1, 0, 1, 0, 0, 0, 0, 0, 1>>), C(1, 5, 8, 0, 3, <<0>>)}
(* Beyond the table, and tables nobody writes.                               *)
Beyond == {C(1, 3, 1, 2, 3, <<>>), C(1, 4, 0, 1, 3, <<>>), C(1, 2, 0, 1, 3, <<>>), C(1, 6, 2, 1, 3, <<1>>), C(1, 3, 0, 126, 3, <<>>)}
(* Other data types and the slave's id; every device at once.                *)
Types == {C(1, 3, 0, 1, 1, <<>>), C(1, 3, 0, 1, 5, <<>>), C(1, 3, 0, 2, 8, <<>>), C(1, 17, 0, 0, 3, <<>>)}
Everyone == {C(255, 6, 0, 1, 3, <<1>>), C(1, 3, 0, 1, 3, <<>>), C(2, 3, 0, 2, 3, <<>>)}
(* The outlets of a power distributor, switched and read; the states of a    *)
(* dehumidifier, and a register whose answer is as long as theirs.           *)
Outlets == {Via("RPC3FxC", 2, 1, 0, 3, 3, <<>>), C(2, 5, 1, 65280, 3, <<1>>), Via("RPC3FxC", 2, 1, 0, 126, 3, <<>>)}
Dehumidifier == {Via("LD_B10_220", 3, 1, 0, 5, 3, <<>>), C(1, 3, 0, 1, 3, <<>>)}
AllPrograms == {Registers, Coils, Beyond, Types, Everyone, Outlets, Dehumidifier}
SomeSlaves == {1, 2, 3}
Devices == <<"modbus", "RPC3FxC", "LD_B10_220">>
=============================================================================
