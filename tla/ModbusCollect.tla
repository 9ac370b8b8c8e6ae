----------------------------- MODULE ModbusCollect -----------------------------
(***************************************************************************)
(* One serial line of the collector (collect.cpp): main loads its tags     *)
(* (TagOptimizer), creates the thread of the commands, initialises the     *)
(* mutex of the line and creates its collecting thread.  The collecting    *)
(* thread sends the requests in turn and uploads what the devices answer   *)
(* (RealTagQueue goes on from there); the thread of the commands locks and *)
(* frees the line for an operator; other threads take it for one           *)
(* transaction: the self-check of line 0, and the remote control of the    *)
(* IEC 104 slave where it is built in.                                     *)
(*                                                                         *)
(* The frames on the line are an answer or none (ModbusLink is about       *)
(* those); the pauses are left out.  Factors are integers.  The two        *)
(* seconds between pthread_quit and exit are over at any time.             *)
(***************************************************************************)
EXTENDS TagOptimizer

CONSTANTS
    REAL_VAL_TAG_COUNT, \* an answer with more values is thrown away
    N,                  \* the moving average is that of N values
    Users,              \* other threads that use the line
    ModbusType,         \* of each device
    Readings,           \* of each device: what its register 0 may hold
    Scaling,            \* of the n-th tag: Opertion and K
    Values,             \* how many values there are in 1, 8, 16 and 32 bits
    Junk                \* the value of an uninitialised variable

ASSUME UsersAssumption == Users \cap {"none", "collect", "cmd"} = {}

(* Registers hold numbers without sign; all numbers here are whole, and a   *)
(* K that divides is positive.                                              *)
ASSUME FilterAssumption == N \in Nat \ {0} /\ Junk \notin Int
ASSUME ValuesAssumption == \A bits \in {1, 8, 16, 32} : Values[bits] \in Nat \ {0}
ASSUME DevicesAssumption ==
    \A s \in Tables : \A n \in DOMAIN s :
        /\ Readings[s[n].slave] \subseteq Nat
        /\ Scaling[n].K \in Int /\ (Scaling[n].op = 4 => Scaling[n].K > 0)

VARIABLES
    pc,        \* the collecting thread
    i, k,      \* its request, and the value of the answer to upload next (code: j)
    port,      \* who holds OptSerial[sn].mutex
    cmd,       \* thread_read_cmd
    user,      \* where the other users of the line are
    exitFlg,   \* g_thread_exit_flg
    up,        \* the process runs
    alarm,     \* the last value of the alarm tag (sn + 29): an offline device, or 0
    sample,    \* the sample uploaded last: the tag and the request it was read by
    answered,  \* history: did the device answer its last request for holding registers?
    taken,     \* history: the mutex was taken away from its holder
    word,      \* external: what register 0 held when the device answered
    m_value_buf, m_i, \* the values the moving average is taken of, and the next to go
    seen       \* history: the last N values that went into it

filterVars == <<m_value_buf, m_i, seen>>
collectVars == <<pc, i, k>>
lineVars == <<port, taken>>
outVars == <<alarm, sample, answered, word, filterVars>>
vars == <<loadVars, collectVars, lineVars, outVars, cmd, user, exitFlg, up>>

NoSample == [tag |-> 0, request |-> 0, value |-> 0]

Init ==
    /\ LoadInit
    /\ pc = "none" /\ i = 1 /\ k = 0
    /\ port = "none" /\ taken = FALSE
    /\ cmd = "none"
    /\ user = [u \in Users |-> "idle"]
    /\ exitFlg = FALSE /\ up = TRUE
    /\ alarm = 0 /\ sample = NoSample
    /\ answered = [d \in {Serial[n].slave : n \in DOMAIN Serial} |-> TRUE]
    /\ word = 0
    /\ m_value_buf = [n \in 0..N-1 |-> Junk] /\ m_i = 0 /\ seen = <<>>

-----------------------------------------------------------------------------
(* main *)

Load ==
    /\ up
    /\ LoadNext
    /\ UNCHANGED <<collectVars, lineVars, outVars, cmd, user, exitFlg, up>>

LoadQuits ==
    /\ up
    /\ stage = "quit"
    /\ up' = FALSE
    /\ exitFlg' = TRUE
    /\ UNCHANGED <<loadVars, collectVars, lineVars, outVars, cmd, user>>

CreateCmd ==
    /\ up
    /\ stage = "loaded" /\ cmd = "none"
    /\ cmd' = "ready"
    /\ UNCHANGED <<loadVars, collectVars, lineVars, outVars, user, exitFlg, up>>

(* init_collect, when the thread of the commands may have locked already. *)
InitCollect ==
    /\ up
    /\ cmd # "none" /\ pc = "none"
    /\ pc' = "create"
    /\ port' = "none"
    /\ taken' = (port # "none")
    /\ exitFlg' = FALSE
    /\ UNCHANGED <<loadVars, i, k, outVars, cmd, user, up>>

(* A line without tags has no loop to enter, nor has one that cannot be     *)
(* opened (modbus_connect).                                                 *)
CreateCollect ==
    /\ up
    /\ pc = "create"
    /\ pc' \in IF OptSerial = <<>> THEN {"exit"} ELSE {"exit", "top"}
    /\ UNCHANGED <<loadVars, i, k, lineVars, outVars, cmd, user, exitFlg, up>>

(* exit(1) of the collecting thread: /dev/ort3000c_io0 is missing. *)
IoMissing ==
    /\ up
    /\ pc = "create"
    /\ up' = FALSE
    /\ UNCHANGED <<loadVars, collectVars, lineVars, outVars, cmd, user, exitFlg>>

(* exit(1) of the thread that is in pthread_quit. *)
Exit ==
    /\ up
    /\ cmd = "quit"
    /\ up' = FALSE
    /\ UNCHANGED <<loadVars, collectVars, lineVars, outVars, cmd, user, exitFlg>>

-----------------------------------------------------------------------------
(* The mutex of the line.  An unlock by a thread that does not hold it       *)
(* takes it away from the holder.                                            *)
LockPort(t) == port = "none" /\ port' = t /\ UNCHANGED taken

UnlockPort(t) ==
    /\ port' = "none"
    /\ taken' = (taken \/ port \notin {t, "none"})

-----------------------------------------------------------------------------
(* thread_modbus_collect *)

At(place) == up /\ pc = place
Request0 == OptSerial[i]

(* The head of the loop over the requests. *)
Top ==
    /\ At("top")
    /\ pc' = IF exitFlg THEN "exit" ELSE "lock"
    /\ sample' = NoSample
    /\ UNCHANGED <<loadVars, i, k, lineVars, alarm, answered, word, filterVars, cmd, user, exitFlg, up>>

(* The functions that are implemented for a device. *)
FunctionsOf(slave) ==
    CASE ModbusType[slave] = "STANDARD" -> {1, 2, 3}
      [] ModbusType[slave] = "PSD"      -> {2, 3}
      [] ModbusType[slave] \in {"RPC3FXC", "LD_B10_220"} -> {1, 2}

Lock ==
    /\ At("lock")
    /\ LockPort("collect")
    /\ pc' = IF Request0.fun \in FunctionsOf(Request0.slave) THEN "read" ELSE "unlock"
    /\ UNCHANGED <<loadVars, i, k, outVars, cmd, user, exitFlg, up>>

Holding == Request0.fun = 3

Fits == Request0.quantity <= REAL_VAL_TAG_COUNT

(* Too many values, or none.  For holding registers the alarm is raised if  *)
(* the request has not been successful for long enough.                     *)
RaiseAlarm ==
    IF Holding THEN alarm' \in {alarm, Request0.slave} ELSE UNCHANGED alarm

Answered(a) == IF Holding THEN answered' = [answered EXCEPT ![Request0.slave] = a]
               ELSE UNCHANGED answered

ReadFailed ==
    /\ At("read")
    /\ RaiseAlarm
    /\ Answered(FALSE)
    /\ pc' = "unlock"
    /\ UNCHANGED <<loadVars, i, k, lineVars, sample, word, filterVars, cmd, user, exitFlg, up>>

ReadTooMuch ==
    /\ At("read")
    /\ ~Fits
    /\ RaiseAlarm
    /\ Answered(TRUE)
    /\ pc' = "unlock"
    /\ UNCHANGED <<loadVars, i, k, lineVars, sample, word, filterVars, cmd, user, exitFlg, up>>

ReadOk ==
    /\ At("read")
    /\ Fits
    /\ Answered(TRUE)
    /\ k' = 0
    /\ word' \in Readings[Request0.slave]
    /\ pc' = "push"
    /\ UNCHANGED <<loadVars, i, lineVars, alarm, sample, filterVars, cmd, user, exitFlg, up>>

(* cha_biao: the tags whose frame begins at the register of the next value. *)
Matches == {n \in DOMAIN Serial :
                /\ Serial[n].slave = Request0.slave
                /\ Serial[n].fun = Request0.fun
                /\ Serial[n].addr = Request0.addr + k}

Pushing == At("push") /\ k < Request0.quantity

(* What a register holds, as a number without sign (the registers of a      *)
(* device differ), and the number that goes with it in a type.  Of all other *)
(* types the first 32 bits are taken, for a number.                          *)
Width(fun, type) == IF fun # 3 THEN 1 ELSE IF Bits(type) \in {8, 16} THEN Bits(type) ELSE 32
Register(t, addr) == (word + addr) % Values[Width(t.fun, t.type)]
Cast(type, x) ==
    LET n == Values[Width(3, type)]
    IN  IF type \in {0, 2, 4} /\ x % n >= n \div 2 THEN (x % n) - n ELSE x % n

(* Opertion and K of a tag: none, +, -, /, and x for the others. *)
Scaled(n, x) ==
    CASE Scaling[n].op = 0 -> x
      [] Scaling[n].op = 1 -> x + Scaling[n].K
      [] Scaling[n].op = 2 -> x - Scaling[n].K
      [] Scaling[n].op = 4 -> x \div Scaling[n].K
      [] OTHER             -> x * Scaling[n].K

Match == CHOOSE n \in Matches : \A m \in Matches : n <= m

(* Mutant: the type of the request instead of the type of the tag. *)
ValueAsRequested ==
    LET x == Register(Request0, Request0.addr + k)
    IN  IF Holding THEN Scaled(Match, Cast(Request0.type, x)) ELSE x

(* A value of the answer has the request's type (without its sign); that of *)
(* a holding register gets the tag's type and is scaled.                     *)
Value ==
    LET x == Register(Request0, Request0.addr + k)
    IN  IF Holding THEN Scaled(Match, Cast(Serial[Match].type, x)) ELSE x

Averaging(t) == t.fun = 3 /\ ModbusType[t.slave] = "PSD"

(* The values of a sequence, one after the other. *)
SumOf(s) ==
    LET sum[n \in 0..Len(s)] == IF n = 0 THEN 0 ELSE sum[n - 1] + s[n]
    IN  sum[Len(s)]

Average(buf) ==
    IF \E n \in 0..N-1 : buf[n] = Junk THEN Junk
    ELSE SumOf([n \in 1..N |-> buf[n - 1]]) \div N

LastN(s) == SubSeq(s, IF Len(s) > N THEN Len(s) - N + 1 ELSE 1, Len(s))

(* Mutant: the index goes back to 0 one value too early. *)
FilterShort(x) ==
    /\ m_value_buf' = [m_value_buf EXCEPT ![m_i] = x]
    /\ m_i' = (m_i + 1) % (N - 1)
    /\ seen' = LastN(Append(seen, x))

(* The values of a device of type PSD go into the one moving average of the  *)
(* thread.                                                                   *)
Filter(x) ==
    /\ m_value_buf' = [m_value_buf EXCEPT ![m_i] = x]
    /\ m_i' = (m_i + 1) % N
    /\ seen' = LastN(Append(seen, x))

(* The value is uploaded as the first of them. *)
Push ==
    /\ Pushing
    /\ Matches # {}
    /\ IF Averaging(Request0) THEN Filter(Value) ELSE UNCHANGED filterVars
    /\ sample' = [tag |-> Match, request |-> i,
                  value |-> IF Averaging(Request0) THEN Average(m_value_buf') ELSE Value]
    /\ k' = k + 1
    /\ UNCHANGED <<loadVars, pc, i, lineVars, alarm, answered, word, cmd, user, exitFlg, up>>

(* Mutant: after the unlock the loop goes on to the common one. *)
NoTagUnlocksTwice ==
    /\ Pushing
    /\ Matches = {}
    /\ UnlockPort("collect")
    /\ pc' = "unlock"
    /\ UNCHANGED <<loadVars, i, k, outVars, cmd, user, exitFlg, up>>

(* No tag begins there: the thread begins again with the first request. *)
NoTag ==
    /\ Pushing
    /\ Matches = {}
    /\ UnlockPort("collect")
    /\ pc' = "top"
    /\ i' = 1
    /\ UNCHANGED <<loadVars, k, outVars, cmd, user, exitFlg, up>>

(* Mutant: the alarm of the line is never cleared. *)
PushedAlarmStays ==
    /\ At("push") /\ k >= Request0.quantity
    /\ pc' = "unlock"
    /\ UNCHANGED <<loadVars, i, k, lineVars, outVars, cmd, user, exitFlg, up>>

(* All values are uploaded; holding registers clear the alarm of the line. *)
Pushed ==
    /\ At("push") /\ k >= Request0.quantity
    /\ alarm' = IF Holding THEN 0 ELSE alarm
    /\ pc' = "unlock"
    /\ UNCHANGED <<loadVars, i, k, lineVars, sample, answered, word, filterVars, cmd, user, exitFlg, up>>

(* Mutant: the line is not freed. *)
UnlockForgotten ==
    /\ At("unlock")
    /\ pc' = "top"
    /\ i' = (i % Len(OptSerial)) + 1
    /\ UNCHANGED <<loadVars, k, lineVars, outVars, cmd, user, exitFlg, up>>

(* The end of the loop: the next request, after a pause. *)
Unlock ==
    /\ At("unlock")
    /\ UnlockPort("collect")
    /\ pc' = "top"
    /\ i' = (i % Len(OptSerial)) + 1
    /\ UNCHANGED <<loadVars, k, outVars, cmd, user, exitFlg, up>>

Collect ==
    \/ Top \/ Lock \/ ReadFailed \/ ReadTooMuch \/ ReadOk
    \/ Push \/ NoTag \/ Pushed \/ Unlock

-----------------------------------------------------------------------------
(* thread_read_cmd; `lock all' and `free all' do to every line what these    *)
(* do to one.                                                                *)

CmdLock ==
    /\ up
    /\ cmd = "ready"
    /\ cmd' = "lock"
    /\ UNCHANGED <<loadVars, collectVars, lineVars, outVars, user, exitFlg, up>>

CmdLocked ==
    /\ up
    /\ cmd = "lock"
    /\ LockPort("cmd")
    /\ cmd' = "ready"
    /\ UNCHANGED <<loadVars, collectVars, outVars, user, exitFlg, up>>

CmdFree ==
    /\ up
    /\ cmd = "ready"
    /\ UnlockPort("cmd")
    /\ UNCHANGED <<loadVars, collectVars, outVars, cmd, user, exitFlg, up>>

(* The database has changed: the optimized tables are deleted, and          *)
(* pthread_quit ends the process.                                           *)
CmdReload ==
    /\ up
    /\ cmd = "ready"
    /\ cmd' = "quit"
    /\ exitFlg' = TRUE
    /\ UNCHANGED <<loadVars, collectVars, lineVars, outVars, user, up>>

Cmd == CmdLock \/ CmdLocked \/ CmdFree \/ CmdReload

(* Another user of the line. *)
UserStep(u, from, to) ==
    /\ up
    /\ user[u] = from
    /\ user' = [user EXCEPT ![u] = to]
    /\ UNCHANGED <<loadVars, collectVars, outVars, cmd, exitFlg, up>>

UserWants(u)  == pc \notin {"none", "create"} /\ UserStep(u, "idle", "lock") /\ UNCHANGED lineVars
UserLock(u)   == UserStep(u, "lock", "use") /\ LockPort(u)
UserUnlock(u) == UserStep(u, "use", "idle") /\ UnlockPort(u)

Next ==
    \/ Load \/ LoadQuits \/ CreateCmd \/ InitCollect \/ CreateCollect \/ IoMissing \/ Exit
    \/ Collect
    \/ Cmd
    \/ \E u \in Users : UserWants(u) \/ UserLock(u) \/ UserUnlock(u)

(* The thread that can go on does; while it waits for the line it gets it   *)
(* when it is free again and again (the pauses of the others are far longer *)
(* than the time a waiting thread needs to wake up).  Others get the line   *)
(* or do not, and give it back.                                             *)
Fairness ==
    /\ WF_vars(Load \/ LoadQuits \/ CreateCmd \/ InitCollect \/ CreateCollect)
    /\ WF_vars(Exit)
    /\ WF_vars(Collect) /\ SF_vars(Lock)
    /\ \A u \in Users : WF_vars(UserUnlock(u))

Spec == Init /\ [][Next]_vars /\ Fairness

-----------------------------------------------------------------------------
TypeOK ==
    /\ LoadTypeOK
    /\ pc \in {"none", "create", "top", "lock", "read", "push", "unlock", "exit"}
    /\ i \in DOMAIN OptSerial \cup {1}
    /\ k \in 0..REAL_VAL_TAG_COUNT
    /\ port \in {"none", "collect", "cmd"} \cup Users
    /\ cmd \in {"none", "ready", "lock", "quit"}
    /\ user \in [Users -> {"idle", "lock", "use"}]
    /\ exitFlg \in BOOLEAN /\ up \in BOOLEAN /\ taken \in BOOLEAN
    /\ alarm \in Byte
    /\ sample.tag \in 0..Len(Serial) /\ sample.request \in 0..Len(OptSerial)
    /\ sample.value \in Int \cup {Junk}
    /\ m_value_buf \in [0..N-1 -> Int \cup {Junk}] /\ m_i \in 0..N-1 /\ seen \in Seq(Int)
    /\ answered \in [{Serial[n].slave : n \in DOMAIN Serial} -> BOOLEAN]

(* Unless somebody frees a line he has not locked, or locks it before       *)
(* init_collect, the line has one user at a time: "用于遥控操作时暂停modbus  *)
(* 采集动作".                                                               *)
OneOnPort ==
    ~taken => /\ pc \in {"read", "push", "unlock"} => port = "collect"
              /\ \A u \in Users : user[u] = "use" => port = u

(* Every tag has a register, and no two tags have one in common. *)
Disjoint ==
    /\ \A n \in DOMAIN Serial : Serial[n].quantity > 0
    /\ \A n, m \in DOMAIN Serial : n # m => Reg(Serial[n]) \cap Reg(Serial[m]) = {}

(* A value is uploaded for a tag that is as wide as the request's values    *)
(* were decoded: the widths that the optimizer compares, the registers it   *)
(* counts and the addresses cha_biao looks up go together.                  *)
SameWidth ==
    Disjoint /\ sample # NoSample =>
        Bits(Serial[sample.tag].type) = Bits(OptSerial[sample.request].type)

(* Every value of a request belongs to a tag and is uploaded. *)
Regular ==
    /\ stage = "loaded"
    /\ Single /\ Disjoint
    /\ \A n \in DOMAIN OptSerial : OptSerial[n].quantity <= REAL_VAL_TAG_COUNT

(* On such a line the alarm names a device that did not answer when it was  *)
(* asked last.                                                              *)
AlarmOfSilent == alarm # 0 /\ pc \in {"top", "lock"} => ~answered[alarm]

(* A value of an integer type is uploaded as what the register of its tag   *)
(* holds, with the sign of the tag's type, whichever type the request was    *)
(* made.                                                                     *)
ValueOfTag ==
    Disjoint /\ sample # NoSample =>
        LET t == Serial[sample.tag]
        IN  t.fun = 3 /\ t.type < 6 /\ ~Averaging(t) =>
                sample.value = Scaled(sample.tag, Cast(t.type, Register(t, t.addr)))

(* What a line uploads, samples and alarms, is true of its devices. *)
UploadsTrue == SameWidth /\ ValueOfTag /\ (Regular => AlarmOfSilent)

(* The value of the only tag of the line that is averaged is the average of *)
(* what its register held the last N times, once there were N.              *)
OnlyAveraged(n) == \A m \in DOMAIN Serial : Averaging(Serial[m]) <=> m = n
AverageOfTag ==
    sample # NoSample /\ OnlyAveraged(sample.tag) /\ Len(seen) = N =>
        sample.value = SumOf(seen) \div N

(* A device that answers has every tag uploaded again and again,    *)
(* whether the other devices answer or not and whoever else uses the line,  *)
(* unless the operator keeps it.                                            *)
Due(n)    == Regular /\ n \in DOMAIN Serial /\ Serial[n].fun = 3 /\ 3 \in FunctionsOf(Serial[n].slave)
Served(n) == Due(n) => sample.tag = n \/ ~answered[Serial[n].slave]
Collected == []<>(port # "cmd") => \A n \in 1..3 : Due(n) ~> (~up \/ exitFlg \/ pc = "exit" \/ Served(n))
=============================================================================
