----------------------------- MODULE TagOptimizer -----------------------------
(***************************************************************************)
(* The end of LoadTagList (collect.cpp): the tags of one serial line, read *)
(* from the database in the order of their devices, functions and          *)
(* addresses, are turned into a shorter list of requests, one for every    *)
(* run of neighbouring registers.                                          *)
(*                                                                         *)
(* A tag is the part of a TagTp that this code looks at: the device, the   *)
(* function, the first register and the number of registers of its frame,  *)
(* and its type.  CRCs, scaling and pauses are left out; so is ModbusType, *)
(* which is the same for all tags of a device.                             *)
(***************************************************************************)
EXTENDS Integers, Sequences

CONSTANTS
    Tables,       \* the lists of tags the database may hold for the line
    MAX_DATE_LEN  \* a request of that many registers does not grow any more

Byte == 0..255
Word == 0..65535

(* nDataLen is stored in two bytes; no device has that many registers to a  *)
(* tag.                                                                     *)
Quantity == 0..(65535 - MAX_DATE_LEN)

Tag == [slave : Byte, fun : Byte, addr : Word, quantity : Quantity, type : Byte]

ASSUME LenAssumption    == MAX_DATE_LEN \in 1..65535
ASSUME TablesAssumption == Tables \subseteq Seq(Tag)

VARIABLES
    Serial,     \* Serial[i].Tag
    OptSerial,  \* OptSerial[i].Tag
    j,          \* the next tag of Serial
    pre,        \* the fields of the tag before it (the ..._pre variables)
    nDataLen,   \* the length of the last request
    stage       \* "load", "loaded" or "quit"

loadVars == <<Serial, OptSerial, j, pre, nDataLen, stage>>

Nothing == [slave |-> 0, fun |-> 0, addr |-> 0, quantity |-> 0, type |-> 0]

LoadInit ==
    /\ Serial \in Tables
    /\ OptSerial = IF Serial = <<>> THEN <<>> ELSE <<Serial[1]>>
    /\ j = 2
    /\ pre = IF Serial = <<>> THEN Nothing ELSE Serial[1]
    /\ nDataLen = pre.quantity
    /\ stage = "load"

(* The types of the tags: 8, 16, 32 and 64 bits, float and double. *)
Bits(type) ==
    CASE type \in {0, 1} -> 8  [] type \in {2, 3} -> 16 [] type \in {4, 5} -> 32
      [] type \in {6, 7} -> 64 [] type = 8 -> 128       [] type = 9 -> 256
      [] OTHER           -> 0

Known(type) == type \in 0..9

Loading == stage = "load" /\ j <= Len(Serial)

(* Mutant: the width of the values is not compared. *)
MergesAnyWidth(cur) ==
    /\ cur.slave = pre.slave
    /\ cur.fun = pre.fun
    /\ cur.addr = pre.addr + pre.quantity
    /\ nDataLen < MAX_DATE_LEN

(* Mutant: one register too many. *)
MergesTooMany(cur) ==
    /\ cur.slave = pre.slave
    /\ cur.fun = pre.fun
    /\ cur.addr = pre.addr + pre.quantity
    /\ Bits(cur.type) = Bits(pre.type)
    /\ nDataLen <= MAX_DATE_LEN

(* Does the tag continue the last request? *)
Merges(cur) ==
    /\ cur.slave = pre.slave
    /\ cur.fun = pre.fun
    /\ cur.addr = pre.addr + pre.quantity
    /\ Bits(cur.type) = Bits(pre.type)
    /\ nDataLen < MAX_DATE_LEN

(* The last request gets its length, as two bytes. *)
Sized(request, n) == [request EXCEPT !.quantity = n % 65536]
WithLength(requests, n) == [requests EXCEPT ![Len(requests)] = Sized(@, n)]

(* The fields of the tag before, after a tag that continues it. *)
After(p, cur) == [slave |-> p.slave, fun |-> p.fun, type |-> p.type,
                  addr |-> cur.addr, quantity |-> cur.quantity]

(* pthread_quit: the collector ends. *)
UnknownType ==
    /\ Loading
    /\ ~Known(pre.type) \/ ~Known(Serial[j].type)
    /\ stage' = "quit"
    /\ UNCHANGED <<Serial, OptSerial, j, pre, nDataLen>>

(* Mutant: the length is written only when the next request begins. *)
MergeNeverWritten ==
    /\ Loading
    /\ LET cur == Serial[j]
       IN  /\ Known(pre.type) /\ Known(cur.type)
           /\ Merges(cur)
           /\ nDataLen' = nDataLen + cur.quantity
           /\ pre' = After(pre, cur)
    /\ j' = j + 1
    /\ UNCHANGED <<Serial, OptSerial, stage>>

(* The last request grows; its length is written here if no tag follows. *)
Merge ==
    /\ Loading
    /\ LET cur == Serial[j]
       IN  /\ Known(pre.type) /\ Known(cur.type)
           /\ Merges(cur)
           /\ nDataLen' = nDataLen + cur.quantity
           /\ pre' = After(pre, cur)
    /\ OptSerial' = IF j = Len(Serial) THEN WithLength(OptSerial, nDataLen') ELSE OptSerial
    /\ j' = j + 1
    /\ UNCHANGED <<Serial, stage>>

(* The last request is complete: it gets its length, and the tag starts the *)
(* next one.  A request for 64 bits or floats ends the collector here.      *)
Complete ==
    /\ Loading
    /\ Known(pre.type) /\ Known(Serial[j].type)
    /\ ~Merges(Serial[j])

NextRequest ==
    /\ Complete
    /\ OptSerial[Len(OptSerial)].type < 6
    /\ OptSerial' = Append(WithLength(OptSerial, nDataLen), Serial[j])
    /\ pre' = Serial[j]
    /\ nDataLen' = Serial[j].quantity
    /\ j' = j + 1
    /\ UNCHANGED <<Serial, stage>>

WideQuits ==
    /\ Complete
    /\ OptSerial[Len(OptSerial)].type >= 6
    /\ stage' = "quit"
    /\ UNCHANGED <<Serial, OptSerial, j, pre, nDataLen>>

Loaded ==
    /\ stage = "load" /\ j > Len(Serial)
    /\ stage' = "loaded"
    /\ UNCHANGED <<Serial, OptSerial, j, pre, nDataLen>>

LoadNext == UnknownType \/ Merge \/ NextRequest \/ WideQuits \/ Loaded

LoadSpec == LoadInit /\ [][LoadNext]_loadVars

-----------------------------------------------------------------------------
(* The registers of n addresses, and those of the first n tags of a list.   *)
Span(slave, fun, addr, n) == {<<slave, fun, a>> : a \in addr..(addr + n - 1)}
Reg(t) == Span(t.slave, t.fun, t.addr, t.quantity)
RegistersTo(s, n) == UNION {Reg(s[k]) : k \in 1..n}
Registers(s) == RegistersTo(s, Len(s))

Request == [slave : Byte, fun : Byte, addr : Word, quantity : Word, type : Byte]

LoadTypeOK ==
    /\ Serial \in Seq(Tag)
    /\ OptSerial \in Seq(Request)
    /\ j \in 2..(Len(Serial) + 2)
    /\ pre \in Tag
    /\ nDataLen \in Word
    /\ stage \in {"load", "loaded", "quit"}

(* The requests of a loaded table read every register of its tags and no    *)
(* other one: a run that the loop forgets to close would leave registers    *)
(* unread for as long as the collector runs.                                *)
Covered == stage = "loaded" => Registers(OptSerial) = Registers(Serial)

(* "modbus一次采集最大数据长度": the requests made of tags with one register *)
(* have at most MAX_DATE_LEN registers.                                     *)
Single == \A k \in DOMAIN Serial : Serial[k].quantity = 1
ReadBound == Single => \A k \in DOMAIN OptSerial : OptSerial[k].quantity <= MAX_DATE_LEN

(* What LoadTagList makes of the tags. *)
Optimized == Covered /\ ReadBound

(* The loop invariant: the last request, with the length it will get, and   *)
(* the ones before it cover the tags that the loop has passed.              *)
LastRequest ==
    LET n == Len(OptSerial)
        r == OptSerial[n]
    IN  /\ n > 0
        /\ j <= Len(Serial) + 1
        /\ r.slave = pre.slave /\ r.fun = pre.fun
        /\ r.addr + nDataLen = pre.addr + pre.quantity
        /\ RegistersTo(OptSerial, n - 1) \cup Span(r.slave, r.fun, r.addr, nDataLen)
             = RegistersTo(Serial, j - 1)
        /\ j > Len(Serial) => r.quantity = nDataLen
        /\ Single => nDataLen <= MAX_DATE_LEN

LoadInv ==
    /\ LoadTypeOK
    /\ Serial = <<>> => OptSerial = <<>>
    /\ Serial # <<>> => LastRequest
    /\ stage = "loaded" => j > Len(Serial)
    /\ ReadBound
=============================================================================
