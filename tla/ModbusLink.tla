------------------------------- MODULE ModbusLink -------------------------------
(***************************************************************************)
(* The Modbus library (collect/modbus/modbus.c): a master that reads and   *)
(* writes the tables of its devices over a serial line (RTU) or a TCP      *)
(* connection, and the devices, which are the library's own slaves         *)
(* (modbus_slave_receive, modbus_slave_manage).                            *)
(*                                                                         *)
(* A call writes its query and waits for as many bytes as the answer to    *)
(* that query has.  What arrives meanwhile is a stream of bytes: an answer *)
(* may come too late, be cut or garbled (RTU), or find the connection      *)
(* closed (TCP).  A frame is a record with its length in bytes, and the    *)
(* input buffer is a sequence of pieces of frames.  The CRC finds every    *)
(* message that is not exactly one undamaged frame.  Debug output is left  *)
(* out, and so are the values of the line parameters.                      *)
(*                                                                         *)
(* Two devices are no plain slaves, and have read functions of their own   *)
(* (modbus_RPC3FxC, modbus_LD_B10_220): the power distributor RPC3FxC      *)
(* answers a read of coils with a byte for each, the dehumidifier          *)
(* LD_B10_220 has its states in the low byte of its first input register.  *)
(* A call says by `via' which functions it uses.                           *)
(***************************************************************************)
EXTENDS Integers, Sequences, FiniteSets, SequencesExt

CONSTANTS
    Slaves,      \* the addresses of the devices
    Models,      \* what each of them is: "modbus", "RPC3FxC" or "LD_B10_220"
    States,      \* what an LD_B10_220 has in its first input register
    Programs,    \* for each program the calls it makes; a write with the values it writes
    Coms,        \* type_com: "RTU", "TCP" or both
    TableSize,   \* entries of each table of a device
    MaxPending   \* bound: queries a device, and pieces the input buffer, can hold

ASSUME SlavesAssumption == Slaves \subseteq 1 .. 247 /\ {} \notin Programs
ASSUME ComsAssumption == Coms \subseteq {"RTU", "TCP"}
ASSUME PendingAssumption == MaxPending \in Nat \ {0}
ASSUME MappingAssumption == TableSize \in [{"coil", "input", "holding", "inreg"} -> Nat]

MODBUS_BROADCAST_ADDRESS == 255

VARIABLES
    com,      \* type_com
    calls,    \* the program that runs: the calls it makes
    fd,       \* "open", "closed"; TCP also "shut" (the peer closed), "reset" (written to since)
    waiting,  \* a query is sent and its answer awaited
    call,     \* the query sent last
    inbox,    \* per device: the queries that reach it
    inbuf,    \* the pieces of answers that reached the master
    mapping,  \* per device: its tables (modbus_mapping_t)
    result,   \* what the last call returned
    late,     \* history: a call returned while an answer was still to come
    known     \* history: what confirmed writes left in the registers, or Unknown

linkVars == <<com, calls, fd, waiting, call, inbox, inbuf, mapping, result, late, known>>

-----------------------------------------------------------------------------
(* Functions and lengths (modbus.h)                                          *)

FC_READ_COIL_STATUS == 1
FC_READ_INPUT_STATUS == 2
FC_READ_HOLDING_REGISTERS == 3
FC_READ_INPUT_REGISTERS == 4
FC_FORCE_SINGLE_COIL == 5
FC_PRESET_SINGLE_REGISTER == 6
FC_FORCE_MULTIPLE_COILS == 15
FC_PRESET_MULTIPLE_REGISTERS == 16
FC_REPORT_SLAVE_ID == 17

ModbusFunctions == (1 .. 6) \cup (15 .. 17)

ReadsBits == {FC_READ_COIL_STATUS, FC_READ_INPUT_STATUS}
ReadsRegisters == {FC_READ_HOLDING_REGISTERS, FC_READ_INPUT_REGISTERS}
WritesMany == {FC_FORCE_MULTIPLE_COILS, FC_PRESET_MULTIPLE_REGISTERS}
WritesOne == {FC_FORCE_SINGLE_COIL, FC_PRESET_SINGLE_REGISTER}

BitValues      == {0, 1}
RegisterValues == 0 .. 65535

ASSUME StatesAssumption == States \in RegisterValues

(* The values a write leaves in the device: an nb is their number or, for a  *)
(* write of one entry, its value (a coil is switched on by any but 0).       *)
Carries(c) ==
    CASE c.fun = FC_FORCE_SINGLE_COIL -> c.values = <<IF c.nb = 0 THEN 0 ELSE 1>>
      [] c.fun = FC_PRESET_SINGLE_REGISTER -> c.nb \in RegisterValues /\ c.values = <<c.nb>>
      [] c.fun = FC_FORCE_MULTIPLE_COILS -> c.values \in Seq(BitValues) /\ Len(c.values) = c.nb
      [] c.fun = FC_PRESET_MULTIPLE_REGISTERS -> c.values \in Seq(RegisterValues) /\ Len(c.values) = c.nb
      [] OTHER -> TRUE

(* The calls the library offers.  Of an LD_B10_220 five states are read.     *)
ASSUME CallsAssumption ==
    \A program \in Programs : \A c \in program :
        /\ c.via \in {"modbus", "RPC3FxC", "LD_B10_220"}
        /\ c.fun \in ModbusFunctions /\ c.addr \in Nat /\ c.nb \in Nat /\ c.type \in Nat
        /\ Carries(c)
        /\ c.via = "LD_B10_220" => c.fun = FC_READ_COIL_STATUS /\ c.nb <= 5

HeaderLength == IF com = "RTU" THEN 1 ELSE 7
ChecksumLength == IF com = "RTU" THEN 2 ELSE 0
Around == HeaderLength + ChecksumLength

BytesOf(nb) == (nb + 7) \div 8

(* Bytes of one value of a data type, as the answer is expected to have ... *)
ValueWidth(type) == CASE type \in {0, 1} -> 1 [] type \in {4, 5} -> 4 [] OTHER -> 2

MSG_LENGTH_UNDEFINED == -1

(* The length of the answer of an RPC3FxC: a byte for every coil.            *)
ResponseLengthRPC3FxC(c) == 2 + c.nb + Around

(* The length of the answer to a query.                                      *)
ResponseLength(c) ==
    IF c.via = "LD_B10_220" THEN 7
    ELSE
    CASE c.via = "RPC3FxC" /\ c.fun \in ReadsBits -> ResponseLengthRPC3FxC(c)
      [] c.via # "RPC3FxC" /\ c.fun \in ReadsBits -> 2 + BytesOf(c.nb) + Around
      [] c.fun \in ReadsRegisters -> 2 + ValueWidth(c.type) * c.nb + Around
      [] c.fun = FC_REPORT_SLAVE_ID -> MSG_LENGTH_UNDEFINED
      [] OTHER -> 5 + Around

ExceptionLength == 2 + Around

-----------------------------------------------------------------------------
(* Bits and registers as bytes                                               *)

(* What a bit of a byte stands for; there are eight.                         *)
Weight == [shift \in 0 .. 7 |-> <<1, 2, 4, 8, 16, 32, 64, 128>>[shift + 1]]
BitAt(byte, shift) == IF shift > 7 THEN 0 ELSE (byte \div Weight[shift]) % 2

(* Eight bits to a byte, the first one lowest; the last byte may be short.   *)
PackBits(bits) ==
    LET Bit(n) == IF n > Len(bits) THEN 0 ELSE bits[n]
    IN  [b \in 1 .. BytesOf(Len(bits)) |->
            Bit(8 * b - 7) + 2 * Bit(8 * b - 6) + 4 * Bit(8 * b - 5) + 8 * Bit(8 * b - 4)
            + 16 * Bit(8 * b - 3) + 32 * Bit(8 * b - 2) + 64 * Bit(8 * b - 1) + 128 * Bit(8 * b)]

(* Mutant: the shift goes on after a byte is full. *)
UnpackBitsNoReset(bytes, nb) ==
    [n \in 1 .. nb |-> BitAt(bytes[1 + (n - 1) \div 8], n - 1)]

UnpackBits(bytes, nb) ==
    [n \in 1 .. nb |-> BitAt(bytes[1 + (n - 1) \div 8], (n - 1) % 8)]

(* The five states of an LD_B10_220, from the low byte of its register.      *)
StatesOf(bytes) == [n \in 1 .. 5 |-> BitAt(bytes[2], n - 1)]

(* The high byte of a register comes first.                                  *)
WordBytes(words) ==
    [n \in 1 .. 2 * Len(words) |->
        IF n % 2 = 1 THEN words[(n + 1) \div 2] \div 256 ELSE words[n \div 2] % 256]

BigEndian(bytes) ==
    CASE Len(bytes) = 1 -> bytes[1]
      [] Len(bytes) = 2 -> 256 * bytes[1] + bytes[2]
      [] OTHER          -> 256 * (256 * (256 * bytes[1] + bytes[2]) + bytes[3]) + bytes[4]

-----------------------------------------------------------------------------
(* The devices: modbus_slave_manage                                          *)

TableOf(fun) ==
    CASE fun \in {FC_READ_COIL_STATUS, FC_FORCE_SINGLE_COIL, FC_FORCE_MULTIPLE_COILS} -> "coil"
      [] fun = FC_READ_INPUT_STATUS -> "input"
      [] fun = FC_READ_INPUT_REGISTERS -> "inreg"
      [] OTHER -> "holding"

(* The function's last entry is in the table.                                *)
InTable(q) ==
    IF q.fun \in WritesOne THEN q.addr < TableSize[TableOf(q.fun)]
    ELSE q.addr + q.nb <= TableSize[TableOf(q.fun)]

Frame(q, fun, data, length) ==
    [slave |-> q.slave, fun |-> fun, nb |-> q.nb, data |-> data, length |-> length, fresh |-> q.fresh]

ExceptionFrame(q, code) == Frame(q, q.fun + 128, <<code>>, ExceptionLength)

ILLEGAL_DATA_ADDRESS == 2
ILLEGAL_DATA_VALUE == 3

Entries(s, q) == [n \in 1 .. q.nb |-> mapping[s][TableOf(q.fun)][q.addr + n - 1]]

ReadFrame(s, q) ==
    LET data == CASE q.fun \in ReadsBits /\ Models[s] = "RPC3FxC" -> Entries(s, q)
                  [] q.fun \in ReadsBits /\ Models[s] # "RPC3FxC" -> PackBits(Entries(s, q))
                  [] OTHER -> WordBytes(Entries(s, q))
    IN Frame(q, q.fun, data, 2 + Len(data) + Around)

(* The query comes back (one value), or its header does (several).           *)
EchoFrame(q) == Frame(q, q.fun, <<>>, 5 + Around)

(* A coil is switched by 0xFF00 and 0 only.                                  *)
LegalValue(q) == q.fun = FC_FORCE_SINGLE_COIL => q.nb \in {0, 65280}

(* The values a write carries, as the device finds them in the query.        *)
Written(q) ==
    CASE q.fun = FC_FORCE_SINGLE_COIL -> <<IF q.nb = 0 THEN 0 ELSE 1>>
      [] q.fun = FC_PRESET_SINGLE_REGISTER -> <<q.nb>>
      [] q.fun = FC_FORCE_MULTIPLE_COILS -> UnpackBits(q.data, q.nb)
      [] q.fun = FC_PRESET_MULTIPLE_REGISTERS ->
           [n \in 1 .. q.nb |-> BigEndian(SubSeq(q.data, 2 * n - 1, 2 * n))]
      [] OTHER -> <<>>

Store(table, q) ==
    [a \in DOMAIN table |->
        IF a - q.addr + 1 \in DOMAIN Written(q) THEN Written(q)[a - q.addr + 1] ELSE table[a]]

(* `Not implemented': the checksum of nothing is sent, two bytes 0xFF, which *)
(* TCP leaves out.                                                           *)
EmptyFrame(q) ==
    [Frame(q, 255, <<>>, ChecksumLength) EXCEPT !.slave = 255]

Answer(s, q) ==
    CASE q.fun = FC_REPORT_SLAVE_ID -> EmptyFrame(q)
      [] q.fun # FC_REPORT_SLAVE_ID /\ ~InTable(q) -> ExceptionFrame(q, ILLEGAL_DATA_ADDRESS)
      [] q.fun \in ReadsBits \cup ReadsRegisters /\ InTable(q) -> ReadFrame(s, q)
      [] q.fun \in WritesOne \cup WritesMany /\ InTable(q) ->
           IF LegalValue(q) THEN EchoFrame(q) ELSE ExceptionFrame(q, ILLEGAL_DATA_VALUE)

Writes(q) == q.fun \in WritesOne \cup WritesMany /\ InTable(q) /\ LegalValue(q)

-----------------------------------------------------------------------------
(* The stream of bytes                                                       *)

Piece(f, n, good) == [f |-> f, skip |-> 0, n |-> n, good |-> good]

(* The bytes of the first n pieces.                                          *)
BytesUpto[n \in 0 .. Len(inbuf)] == IF n = 0 THEN 0 ELSE BytesUpto[n - 1] + inbuf[n].n

Total == BytesUpto[Len(inbuf)]

(* The buffer without its first k bytes.                                     *)
Rest(k) ==
    LET gone == Cardinality({n \in DOMAIN inbuf : BytesUpto[n] <= k})
        part == k - BytesUpto[gone]
    IN [n \in 1 .. Len(inbuf) - gone |->
            IF n = 1 THEN [inbuf[gone + 1] EXCEPT !.skip = @ + part, !.n = @ - part]
            ELSE inbuf[gone + n]]

(* The first k bytes are one undamaged frame.                                *)
Whole(k) ==
    /\ inbuf # <<>>
    /\ Head(inbuf).skip = 0
    /\ k = Head(inbuf).n /\ k = Head(inbuf).f.length
    /\ Head(inbuf).good

(* What follows the function in a query, and hence in a message whose length *)
(* is not known.                                                             *)
QueryHeaderLength(fun) ==
    CASE fun <= FC_PRESET_SINGLE_REGISTER -> 4
      [] fun \in WritesMany -> 5
      [] fun = FC_REPORT_SLAVE_ID -> 1
      [] OTHER -> 0

(* And what follows that: the checksum (the byte count of several values is  *)
(* taken up below).                                                          *)
QueryDataLength == ChecksumLength

(* A message of unknown length is read as a query would be: its function     *)
(* says how many bytes follow.  In the middle of a frame there is no function; *)
(* the byte count that an echo of several values lacks asks for too much.    *)
UndefinedLength ==
    LET first == Head(inbuf)
        header == QueryHeaderLength(first.f.fun)
    IN CASE Total < HeaderLength + 1 -> HeaderLength + 1
         [] Total >= HeaderLength + 1 /\ (first.skip # 0 \/ header = 0) -> HeaderLength + 1
         [] Total >= HeaderLength + 1 /\ first.skip = 0 /\ header = 5 -> Total + 1
         [] OTHER -> HeaderLength + 1 + header + QueryDataLength

Awaited == IF ResponseLength(call) = MSG_LENGTH_UNDEFINED THEN UndefinedLength ELSE ResponseLength(call)

-----------------------------------------------------------------------------
(* The program and the library's master                                      *)

NoResult == [ok |-> FALSE, fresh |-> FALSE, whole |-> FALSE, values |-> <<>>]
Garbage == <<"garbage">>
Unknown == -1

Old(f) == [f EXCEPT !.fresh = FALSE]
UnderWay == inbuf # <<>> \/ \E s \in Slaves : inbox[s] # <<>>

(* The states are asked for whatever the call names.                         *)
QueryLD_B10_220(c) ==
    [slave |-> c.slave, fun |-> FC_READ_INPUT_REGISTERS, addr |-> 0, nb |-> 1, data |-> <<>>, fresh |-> TRUE]

(* The values to write follow in bytes.                                      *)
QueryData(c) ==
    CASE c.fun = FC_FORCE_MULTIPLE_COILS -> PackBits(c.values)
      [] c.fun = FC_PRESET_MULTIPLE_REGISTERS -> WordBytes(c.values)
      [] OTHER -> <<>>

Query(c) ==
    IF c.via = "LD_B10_220" THEN QueryLD_B10_220(c)
    ELSE [slave |-> c.slave, fun |-> c.fun, addr |-> c.addr, nb |-> c.nb, data |-> QueryData(c), fresh |-> TRUE]

(* The devices on the line are those that the program calls.                 *)
Line == {c.slave : c \in calls}

(* modbus_slave_manage ignores the queries for other slaves.                 *)
ForMe(s, q) == s \in Line /\ q.slave \in {s, MODBUS_BROADCAST_ADDRESS}

Knowing(c, confirmed) ==
    IF c.fun \in WritesOne \cup WritesMany
    THEN [s \in Slaves |->
            IF ForMe(s, c)
            THEN [known[s] EXCEPT ![TableOf(c.fun)] =
                    [a \in DOMAIN @ |->
                        IF a - c.addr + 1 \notin DOMAIN c.values THEN @[a]
                        ELSE IF confirmed /\ c.slave = s THEN c.values[a - c.addr + 1] ELSE Unknown]]
            ELSE known[s]]
    ELSE known

(* More than a message can carry.                                            *)
MAX_STATUS == 2000
MAX_REGISTERS == 125
TooManyRPC3FxC(c) == c.via = "RPC3FxC" /\ c.nb > MAX_REGISTERS
TooMany(c) ==
    \/ TooManyRPC3FxC(c)
    \/ c.fun \in ReadsBits \cup {FC_FORCE_MULTIPLE_COILS} /\ c.nb > MAX_STATUS
    \/ c.fun \in ReadsRegisters \cup {FC_PRESET_MULTIPLE_REGISTERS} /\ c.nb > MAX_REGISTERS

Refuse(c) ==
    /\ ~waiting /\ TooMany(c)
    /\ call' = c
    /\ result' = NoResult
    /\ UNCHANGED <<com, calls, fd, waiting, inbox, inbuf, mapping, late, known>>

Issue(c) ==
    /\ ~waiting /\ ~TooMany(c)
    /\ call' = c
    /\ late' = (late /\ UnderWay)
    /\ known' = Knowing(c, FALSE)

(* The query is written, whatever is still in the input buffer.  It is lost  *)
(* for a device whose buffer is full.                                        *)
Send(c) ==
    /\ fd \in {"open", "shut"}
    /\ Issue(c)
    /\ waiting' = TRUE
    /\ result' = NoResult
    /\ fd' = IF fd = "shut" THEN "reset" ELSE fd
    /\ inbox' = [s \in Slaves |->
                    LET olds == [n \in DOMAIN inbox[s] |-> Old(inbox[s][n])]
                    IN IF fd = "open" /\ ForMe(s, Query(c)) /\ Len(olds) < MaxPending
                       THEN Append(olds, Query(c)) ELSE olds]
    /\ inbuf' = [n \in DOMAIN inbuf |-> [inbuf[n] EXCEPT !.f = Old(@)]]
    /\ UNCHANGED <<com, calls, mapping>>

(* The device is opened, and its speed set; if that fails, and also if only  *)
(* the settings are refused, it is of no use.                                *)
OpenDevice(connected) == fd' = IF connected THEN "open" ELSE "closed"

(* Raw input, and what the device has received before is dropped.            *)
RawInput == inbuf' = <<>>

ConnectRtu(connected) == OpenDevice(connected) /\ RawInput

(* modbus_connect_tcp: a new socket, which it closes if that fails.          *)
ConnectTcp(connected) ==
    /\ fd' = IF connected THEN "open" ELSE "closed"
    /\ inbuf' = <<>>

(* modbus_close and modbus_connect.                                          *)
Connect(connected) == IF com = "RTU" THEN ConnectRtu(connected) ELSE ConnectTcp(connected)

(* error_treat of SOCKET_FAILURE and SELECT_FAILURE: closed and connected    *)
(* again, and nobody asks whether that succeeded.                            *)
(* Mutant: closed and not opened again. *)
ReconnectForgotten(connected) == fd' = "closed" /\ inbuf' = <<>>

Reconnect(connected) == Connect(connected)

SendFails(c, connected) ==
    /\ com = "TCP" => fd # "open"
    /\ Issue(c)
    /\ result' = NoResult
    /\ Reconnect(connected)
    /\ UNCHANGED <<com, calls, waiting, inbox, mapping>>

(* The bytes of an RPC3FxC are its values.                                   *)
Bytes(f) == f.data

(* The values of an answer that was accepted, for the data type of the call: *)
(* of more than 32 bits, and floats, it takes four bytes each, whatever      *)
(* comes behind the answer.                                                  *)
Decoded(f) ==
    LET w == ValueWidth(call.type)
    IN IF call.via = "LD_B10_220" THEN StatesOf(f.data)
       ELSE
       CASE call.via = "RPC3FxC" /\ f.fun \in ReadsBits -> Bytes(f)
         [] call.via = "modbus" /\ call.fun \in ReadsBits /\ f.fun \in ReadsBits -> UnpackBits(f.data, call.nb)
         [] /\ call.fun \in ReadsRegisters /\ f.fun \in ReadsRegisters
            /\ call.type <= 5 /\ w * call.nb = Len(f.data) ->
              [n \in 1 .. call.nb |-> BigEndian(SubSeq(f.data, w * (n - 1) + 1, w * n))]
         [] call.fun \notin ReadsBits \cup ReadsRegisters -> <<>>
         [] OTHER -> Garbage

Return(r) ==
    /\ waiting' = FALSE
    /\ result' = r
    /\ late' = (late \/ call.slave = MODBUS_BROADCAST_ADDRESS \/ \E s \in Slaves : inbox[s] # <<>>)

Fails == Return(NoResult) /\ UNCHANGED known

(* check_crc16, and modbus_flush after an error of the data.                 *)
CrcFails(k) == com = "RTU" /\ ~Whole(k)
(* Mutant: only what was read is gone. *)
NothingFlushed == Rest(Awaited)

Flushed == <<>>

Accept(fresh, whole, values) ==
    /\ Return([ok |-> TRUE, fresh |-> fresh, whole |-> whole, values |-> values])
    /\ known' = IF late THEN known ELSE Knowing(call, TRUE)

(* An RPC3FxC answers with a byte for each coil, or with no read of coils.   *)
ByteForEach(f) == f.fun \in ReadsBits => Len(f.data) = call.nb

(* An LD_B10_220 answers with one register, by whatever function.            *)
OneRegister(f) == Len(f.data) \div 2 = 1

(* The quantity of the answer, by the function of the answer, against that   *)
(* of the query.  For the other data types it is never assigned.             *)
Quantities(f) ==
    CASE call.via = "LD_B10_220" -> {OneRegister(f)}
      [] call.via = "RPC3FxC" -> {ByteForEach(f)}
      [] call.via = "modbus" /\ f.fun \in ReadsBits -> {Len(f.data) = BytesOf(call.nb)}
      [] call.via = "modbus" /\ f.fun \in ReadsRegisters ->
           IF call.type > 5 THEN BOOLEAN ELSE {Len(f.data) \div ValueWidth(call.type) = call.nb}
      [] call.via = "modbus" /\ f.fun \in WritesMany -> {f.nb = call.nb}
      [] OTHER -> {TRUE}

(* A message of the awaited length: its CRC, and the quantity.  What stands  *)
(* where the function should be, when TCP has left the rest of a frame in    *)
(* front, is any byte.                                                       *)
Received ==
    /\ waiting /\ Total >= Awaited
    /\ LET f == Head(inbuf).f
           glued == Head(inbuf).skip # 0
       IN \E matches \in (IF CrcFails(Awaited) THEN {FALSE}
                          ELSE IF com = "TCP" /\ glued THEN BOOLEAN ELSE Quantities(f)) :
            IF matches
            THEN /\ Accept(f.fresh, Whole(Awaited), IF glued THEN Garbage ELSE Decoded(f))
                 /\ inbuf' = Rest(Awaited)
            ELSE Fails /\ inbuf' = Flushed
    /\ UNCHANGED <<com, calls, fd, call, inbox, mapping>>

(* WAIT_DATA: as many bytes as an exception has, and no more in time.        *)
ExceptionSized == com = "RTU" /\ Total = ExceptionLength

(* The same length by another function: no exception to this query.          *)
OtherException(f) == f.fun # call.fun + 128

(* Fewer bytes than awaited, and no more in time.  As many as an exception   *)
(* has are taken for one; nothing is flushed otherwise, and what is still to *)
(* come stays to come.  An exception to another query passes for an answer:  *)
(* the length that check_crc16 returned is returned.                         *)
TimedOut ==
    /\ waiting /\ Total < Awaited
    /\ LET f == Head(inbuf).f
       IN IF ExceptionSized /\ call.via # "LD_B10_220" /\ ~CrcFails(Total) /\ OtherException(f)
          THEN Accept(f.fresh, Whole(Total), IF call.fun \in ReadsBits \cup ReadsRegisters THEN Garbage ELSE <<>>)
          ELSE Fails
    /\ inbuf' = <<>>
    /\ UNCHANGED <<com, calls, fd, call, inbox, mapping>>

(* recv returns 0: CONNECTION_CLOSED, and nothing is done about it.          *)
FoundClosed ==
    /\ waiting /\ fd \in {"shut", "reset"} /\ Total < Awaited
    /\ Fails
    /\ inbuf' = <<>>
    /\ UNCHANGED <<com, calls, fd, call, inbox, mapping>>

(* recv returns -1: SOCKET_FAILURE.                                          *)
FoundReset(connected) ==
    /\ waiting /\ fd = "reset"
    /\ Fails
    /\ Reconnect(connected)
    /\ UNCHANGED <<com, calls, call, inbox, mapping>>

-----------------------------------------------------------------------------
(* The devices and the line                                                  *)

(* The bytes of an answer that arrive: over a serial line all of them,       *)
(* garbled perhaps, only the first few, or none.                             *)
Arriving(f) ==
    {Piece(f, f.length, TRUE)} \cup
    IF com = "RTU" THEN {Piece(f, f.length, FALSE), Piece(f, ExceptionLength, FALSE), Piece(f, 0, FALSE)}
    ELSE {}

Arrives(p) ==
    inbuf' = IF p.n = 0 \/ p.n > p.f.length \/ Len(inbuf) = MaxPending \/ fd # "open"
             THEN inbuf ELSE Append(inbuf, p)

(* modbus_slave_receive and modbus_slave_manage.                             *)
Serve(s) ==
    /\ inbox[s] # <<>>
    /\ LET q == Head(inbox[s])
       IN /\ mapping' = IF Writes(q) THEN [mapping EXCEPT ![s][TableOf(q.fun)] = Store(@, q)]
                        ELSE mapping
          /\ \E p \in Arriving(Answer(s, q)) : Arrives(p)
    /\ inbox' = [inbox EXCEPT ![s] = Tail(@)]
    /\ UNCHANGED <<com, calls, fd, waiting, call, result, late, known>>

(* A query that is garbled or cut on the serial line: the device flushes it. *)
QueryLost(s) ==
    /\ com = "RTU"
    /\ inbox[s] # <<>>
    /\ inbox' = [inbox EXCEPT ![s] = Tail(@)]
    /\ UNCHANGED <<com, calls, fd, waiting, call, inbuf, mapping, result, late, known>>

(* The device closes its connection.                                         *)
PeerCloses ==
    /\ com = "TCP" /\ fd = "open"
    /\ fd' = "shut"
    /\ inbox' = [s \in Slaves |-> <<>>]
    /\ UNCHANGED <<com, calls, waiting, call, inbuf, mapping, result, late, known>>

-----------------------------------------------------------------------------

(* modbus_mapping_new: every table is zero.                                  *)
MappingNew == [t \in DOMAIN TableSize |-> [a \in 0 .. TableSize[t] - 1 |-> 0]]

TablesOf(s) ==
    IF Models[s] = "LD_B10_220" THEN [MappingNew EXCEPT !["inreg"][0] = States] ELSE MappingNew

(* modbus_init_rtu or modbus_init_tcp, and modbus_connect.  The functions    *)
(* for single devices are made for the serial line.                          *)
LinkInit ==
    /\ com \in Coms
    /\ fd \in {"open", "closed"}
    /\ waiting = FALSE
    /\ calls \in Programs
    /\ com = "TCP" => \A c \in calls : c.via = "modbus"
    /\ call = CHOOSE c \in calls : TRUE
    /\ inbox = [s \in Slaves |-> <<>>]
    /\ inbuf = <<>>
    /\ mapping = [s \in Slaves |-> TablesOf(s)]
    /\ result = NoResult
    /\ late = FALSE
    /\ known = [s \in Slaves |-> TablesOf(s)]

LinkNext ==
    \/ \E c \in calls : Refuse(c) \/ Send(c) \/ SendFails(c, TRUE) \/ SendFails(c, FALSE)
    \/ Received \/ TimedOut \/ FoundClosed
    \/ FoundReset(TRUE) \/ FoundReset(FALSE)
    \/ \E s \in Slaves : Serve(s) \/ QueryLost(s)
    \/ PeerCloses

(* The program calls again and again, a call ends by its timeout, and        *)
(* connecting succeeds now and then.                                         *)
LinkFairness ==
    /\ WF_linkVars(\E c \in calls : Send(c))
    /\ SF_linkVars(\E c \in calls : SendFails(c, TRUE))
    /\ WF_linkVars(Received \/ TimedOut \/ FoundClosed)

LinkSpec == LinkInit /\ [][LinkNext]_linkVars
FairLinkSpec == LinkSpec /\ LinkFairness

-----------------------------------------------------------------------------

LinkTypeOK ==
    /\ com \in Coms
    /\ fd \in {"open", "closed", "shut", "reset"}
    /\ waiting \in BOOLEAN /\ late \in BOOLEAN
    /\ calls \in Programs /\ call \in calls
    /\ \A s \in Slaves : Len(inbox[s]) <= MaxPending
    /\ Len(inbuf) <= MaxPending
    /\ \A p \in Range(inbuf) : p.n \in 1 .. p.f.length /\ p.skip + p.n <= p.f.length

(* Over a serial line a call never succeeds on anything but one undamaged   *)
(* frame of a device: neither parts of two answers that met in the buffer    *)
(* nor a garbled one pass (check_crc16, on every way to a result).           *)
OnlyWholeAccepted == com = "RTU" /\ result.ok => result.whole

(* As long as no call has returned before the answer to its query was there  *)
(* or lost, a call that succeeds has the answer to its own query, whatever   *)
(* else went wrong before: data types the device does not know, exceptions,  *)
(* cut and garbled answers leave nothing behind that passes for the next     *)
(* one.                                                                      *)
InStep == OnlyWholeAccepted /\ (~late /\ result.ok /\ ~waiting => result.fresh)

(* The n-th value of a read, as far as confirmed writes tell.                *)
KnownValue(c, n) ==
    LET tables == known[c.slave]
    IN IF c.via = "LD_B10_220" THEN BitAt(tables["inreg"][0] % 256, n - 1)
       ELSE tables[TableOf(c.fun)][c.addr + n - 1]

(* A call in step that reads returns what the last confirmed write left in   *)
(* the device: packing, addresses and table bounds agree on both sides, for  *)
(* each kind of device and the data types of at most 32 bits.                *)
ReadsWhatWasWritten ==
    /\ ~late /\ result.ok /\ call.slave \in Slaves
    /\ call.fun \in ReadsBits \/ (call.fun \in ReadsRegisters /\ call.type <= 5)
    => \A n \in 1 .. call.nb : KnownValue(call, n) \in {Unknown, result.values[n]}

(* A connection that the device closed, or that could not be opened, is      *)
(* opened again by the calls that fail on it.                                *)
Reconnected == (fd # "open") ~> (fd = "open")
=============================================================================
