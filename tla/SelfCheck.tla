------------------------------ MODULE SelfCheck -------------------------------
(***************************************************************************)
(* What else runs in the collector (collect.cpp): main() starts the        *)
(* threads, the signal handlers end the process, thread_read_cmd() polls   *)
(* the command socket, and thread_myself_check() samples the device        *)
(* itself: supply, temperature, network, battery, 18 inputs and 4 outputs. *)
(*                                                                         *)
(* The temperature sensor shares a bus with serial line 0, so its mutex is *)
(* taken by three threads: this one, the collecting thread of the line     *)
(* (ModbusCollect) and, for an operator, the command thread.               *)
(*                                                                         *)
(* A reading is known by the tag it is a reading of.  The names and the    *)
(* numbers of the tags are those of myself_id.h.  The pauses are left out, *)
(* and with them the commands that only change a pause.                    *)
(***************************************************************************)
EXTENDS Integers, Sequences, FiniteSets

CONSTANTS
    TagLists,       \* the lists the data base may hold: sequences of numbers
    SkippedVisits,  \* visits between two readings of the temperature (code: 300)
    MaxDatagrams    \* bound: commands sent

ASSUME ListsAssumption == TagLists \subseteq Seq(Nat) /\ SkippedVisits \in Nat

POWER_TYPE == 1
TEMPERATURE == 2
NETTYPE == 3
QUALITY == 4
NETSUPPLY == 5
BATTERY_IN == 6
KAIRU_0 == 7
KAICU_0 == 25

Inputs == KAIRU_0..KAIRU_0 + 17
Outputs == KAICU_0..KAICU_0 + 3

VARIABLES
    main,       \* where main() is
    up,         \* the process runs
    exitFlg,    \* g_thread_exit_flg
    quitting,   \* some thread is in pthread_quit()
    line,       \* who holds OptSerial[0].mutex
    cmd,        \* thread_read_cmd
    mail,       \* datagrams at its socket
    sent,       \* datagrams sent
    Tag,        \* myself.Tag: the numbers
    pc, i,      \* thread_myself_check, and the index of its loop (from 1 on)
    temperature_check,
    value,      \* the tag that `value' is a reading of; 0: not yet assigned
    pushed,     \* history: the samples of this pass
    silent      \* history: tags without a reading in this pass

procVars == <<main, up, exitFlg, quitting>>
cmdVars == <<cmd, mail, sent>>
checkVars == <<pc, i, temperature_check, value, pushed, silent>>
vars == <<procVars, line, cmdVars, Tag, checkVars>>

Init ==
    /\ main = "create" /\ up = TRUE /\ exitFlg = FALSE /\ quitting = FALSE
    /\ line = "none"
    /\ cmd = "none" /\ mail = <<>> /\ sent = 0
    /\ Tag \in TagLists
    /\ pc = "none" /\ i = 1 /\ temperature_check = 1 /\ value = 0
    /\ pushed = <<>> /\ silent = {}

-----------------------------------------------------------------------------
(* main() and the end of the process. *)

CreateCmd ==
    /\ up /\ main = "create"
    /\ main' = "init" /\ cmd' = "start"
    /\ UNCHANGED <<up, exitFlg, quitting, line, mail, sent, Tag, checkVars>>

(* init_collect(), when the command thread is already running: the mutex    *)
(* and the flag are set anew.                                               *)
init_collect ==
    /\ up /\ main = "init"
    /\ main' = "threads" /\ exitFlg' = FALSE /\ line' = "none"
    /\ UNCHANGED <<up, quitting, cmdVars, Tag, checkVars>>

pthread_quit == quitting' = TRUE /\ exitFlg' = TRUE

(* Without one of the threads the process ends. *)
CreateThreads ==
    /\ up /\ main = "threads"
    /\ \/ main' = "join" /\ pc' = "pass" /\ UNCHANGED <<exitFlg, quitting>>
       \/ main' = "quit" /\ pthread_quit /\ UNCHANGED pc
    /\ UNCHANGED <<up, line, cmdVars, Tag, i, temperature_check, value, pushed, silent>>

(* SIGPIPE, SIGTERM, SIGSEGV, SIGABRT and SIGINT; the two user signals are  *)
(* only logged.                                                             *)
Signal ==
    /\ up /\ ~quitting
    /\ pthread_quit
    /\ UNCHANGED <<main, up, line, cmdVars, Tag, checkVars>>

(* exit (1), two seconds later. *)
Exit ==
    /\ up /\ quitting
    /\ up' = FALSE
    /\ UNCHANGED <<main, exitFlg, quitting, line, cmdVars, Tag, checkVars>>

-----------------------------------------------------------------------------
(* thread_read_cmd *)

CmdAt(place) == up /\ cmd = place

(* The socket; without it the process ends. *)
OpenSocket ==
    /\ CmdAt("start")
    /\ \/ cmd' = "poll" /\ UNCHANGED <<exitFlg, quitting>>
       \/ cmd' = "quit" /\ pthread_quit
    /\ UNCHANGED <<main, up, line, mail, sent, Tag, checkVars>>

(* A datagram for the thread. *)
Datagram(c) ==
    /\ CmdAt("poll") /\ sent < MaxDatagrams
    /\ sent' = sent + 1
    /\ mail' = Append(mail, c)
    /\ UNCHANGED <<procVars, line, cmd, Tag, checkVars>>

(* cmd.c: the operator chooses to lock or to free a line, this one or       *)
(* another.                                                                 *)
Menu == \E c \in {"lock", "free", "other"} : Datagram(c)

(* The other program that sends: the settings have changed, or the line     *)
(* shall be used less.                                                      *)
Supervisor == \E c \in {"reload", "other"} : Datagram(c)

CmdEnds ==
    /\ CmdAt("poll") /\ exitFlg
    /\ cmd' = "end"
    /\ UNCHANGED <<procVars, line, mail, sent, Tag, checkVars>>

(* The next datagram, if it is this command. *)
Receive(c) ==
    /\ CmdAt("poll") /\ ~exitFlg
    /\ mail # <<>> /\ Head(mail) = c
    /\ mail' = Tail(mail)
    /\ UNCHANGED <<main, up, sent, Tag, checkVars>>

(* The cache is removed (TagCache) and the process quits. *)
Reload == Receive("reload") /\ cmd' = "quit" /\ pthread_quit /\ UNCHANGED line

Lock == Receive("lock") /\ cmd' = "lock" /\ UNCHANGED <<line, exitFlg, quitting>>

(* pthread_mutex_lock() returns: when the thread holds the mutex itself, it *)
(* never does.                                                              *)
Locked ==
    /\ CmdAt("lock")
    /\ line = "none" /\ line' = "cmd"
    /\ cmd' = "poll"
    /\ UNCHANGED <<procVars, mail, sent, Tag, checkVars>>

(* An unlock frees the mutex, whoever has it. *)
Free == Receive("free") /\ line' = "none" /\ UNCHANGED <<cmd, exitFlg, quitting>>

(* A pause between the frames, another line, or a command it does not know. *)
Other == Receive("other") /\ UNCHANGED <<line, cmd, exitFlg, quitting>>

Command == OpenSocket \/ CmdEnds \/ Reload \/ Lock \/ Locked \/ Free \/ Other

-----------------------------------------------------------------------------
(* The collecting thread of line 0 takes the line and gives it back. *)
CollectLock ==
    /\ up /\ main = "join" /\ line = "none" /\ ~exitFlg
    /\ line' = "collect"
    /\ UNCHANGED <<procVars, cmdVars, Tag, checkVars>>

CollectUnlock ==
    /\ up /\ line = "collect"
    /\ line' = "none"
    /\ UNCHANGED <<procVars, cmdVars, Tag, checkVars>>

-----------------------------------------------------------------------------
(* thread_myself_check *)

CheckAt(place) == up /\ pc = place

CheckEnds ==
    /\ CheckAt("pass") \/ (CheckAt("item") /\ i <= Len(Tag))
    /\ exitFlg
    /\ pc' = "end"
    /\ UNCHANGED <<procVars, line, cmdVars, Tag, i, temperature_check, value, pushed, silent>>

PassBegins ==
    /\ CheckAt("pass") /\ ~exitFlg
    /\ pc' = "item" /\ i' = 1 /\ pushed' = <<>> /\ silent' = {}
    /\ UNCHANGED <<procVars, line, cmdVars, Tag, temperature_check, value>>

PassEnds ==
    /\ CheckAt("item") /\ i > Len(Tag)
    /\ pc' = "pass"
    /\ UNCHANGED <<procVars, line, cmdVars, Tag, i, temperature_check, value, pushed, silent>>

(* The cases of the switch: the tags they are for. *)
Visiting(tags) == CheckAt("item") /\ i <= Len(Tag) /\ ~exitFlg /\ Tag[i] \in tags

Sample(tag, of) == [tag |-> tag, of |-> of]

(* The device gave a reading, which is pushed to the write queue. *)
Report(tag) ==
    /\ value' = tag /\ pushed' = Append(pushed, Sample(tag, tag))
    /\ UNCHANGED silent

NoReading(tags) == silent' = silent \cup tags /\ UNCHANGED <<value, pushed>>

(* The supply: both voltages must be read, or the tag is passed over. *)
PowerType ==
    /\ Visiting({POWER_TYPE})
    /\ Report(POWER_TYPE) \/ NoReading({POWER_TYPE})
    /\ i' = i + 1
    /\ UNCHANGED <<procVars, line, cmdVars, Tag, pc, temperature_check>>

(* The temperature is not read at each visit ... *)
TemperatureLater ==
    /\ Visiting({TEMPERATURE}) /\ temperature_check # 1
    /\ temperature_check' = temperature_check + 1
    /\ NoReading({TEMPERATURE})
    /\ i' = i + 1
    /\ UNCHANGED <<procVars, line, cmdVars, Tag, pc>>

TemperatureDue ==
    /\ Visiting({TEMPERATURE}) /\ temperature_check = 1
    /\ temperature_check' = -SkippedVisits
    /\ pc' = "lock"
    /\ UNCHANGED <<procVars, line, cmdVars, Tag, i, value, pushed, silent>>

TemperatureLocked ==
    /\ CheckAt("lock")
    /\ line = "none" /\ line' = "self"
    /\ pc' = "read"
    /\ UNCHANGED <<procVars, cmdVars, Tag, i, temperature_check, value, pushed, silent>>

(* Mutant: the path of the failed read keeps the line. *)
TemperatureReadKeeping ==
    /\ CheckAt("read")
    /\ \/ Report(TEMPERATURE) /\ line' = "none"
       \/ value' = TEMPERATURE /\ silent' = silent \cup {TEMPERATURE} /\ UNCHANGED <<pushed, line>>
    /\ i' = i + 1 /\ pc' = "item"
    /\ UNCHANGED <<procVars, cmdVars, Tag, temperature_check>>

(* ... and the line is given back whether there is a reading or not; if     *)
(* not, `value' is left at 0 degrees.                                       *)
TemperatureRead ==
    /\ CheckAt("read")
    /\ \/ Report(TEMPERATURE)
       \/ value' = TEMPERATURE /\ silent' = silent \cup {TEMPERATURE} /\ UNCHANGED pushed
    /\ line' = "none"
    /\ i' = i + 1 /\ pc' = "item"
    /\ UNCHANGED <<procVars, cmdVars, Tag, temperature_check>>

(* Another program puts the state of the network into shared memory. *)
SharedMemory ==
    \E tag \in {NETTYPE, QUALITY, NETSUPPLY} :
        /\ Visiting({tag})
        /\ Report(tag)
        /\ i' = i + 1
        /\ UNCHANGED <<procVars, line, cmdVars, Tag, pc, temperature_check>>

(* Without a reading the old `value' is pushed. *)
BatteryIn ==
    /\ Visiting({BATTERY_IN})
    /\ \/ Report(BATTERY_IN)
       \/ pushed' = Append(pushed, Sample(BATTERY_IN, value)) /\ UNCHANGED <<value, silent>>
    /\ i' = i + 1
    /\ UNCHANGED <<procVars, line, cmdVars, Tag, pc, temperature_check>>

(* The samples of a run of tags, in one go. *)
Block(first, n) == [k \in 1..n |-> Sample(first + k - 1, first + k - 1)]

(* Mutant: the case of the inputs ends with a break of its own. *)
KairuBreaks ==
    /\ Visiting({KAIRU_0})
    /\ \/ pushed' = pushed \o Block(KAIRU_0, 18) /\ UNCHANGED silent
       \/ silent' = silent \cup Inputs /\ UNCHANGED pushed
    /\ value' = KAICU_0 + 3
    /\ i' = i + 17 + 3 + 1
    /\ UNCHANGED <<procVars, line, cmdVars, Tag, pc, temperature_check>>

(* The inputs are read together, the tags behind the first are skipped, and *)
(* the case runs on into the next one, whose tags are skipped in turn.      *)
Kairu ==
    /\ Visiting({KAIRU_0})
    /\ \/ pushed' = pushed \o Block(KAIRU_0, 18) \o Block(KAICU_0, 4) /\ UNCHANGED silent
       \/ pushed' = pushed \o Block(KAICU_0, 4) /\ silent' = silent \cup Inputs
    /\ value' = KAICU_0 + 3
    /\ i' = i + 17 + 3 + 1
    /\ UNCHANGED <<procVars, line, cmdVars, Tag, pc, temperature_check>>

(* The outputs as kaichu_value has them. *)
Kaichu ==
    /\ Visiting({KAICU_0})
    /\ pushed' = pushed \o Block(KAICU_0, 4)
    /\ value' = KAICU_0 + 3
    /\ i' = i + 3 + 1
    /\ UNCHANGED <<procVars, line, cmdVars, Tag, pc, temperature_check, silent>>

(* Any other tag: half a second's sleep. *)
OtherTag ==
    /\ Visiting(Nat \ ((POWER_TYPE..KAIRU_0) \cup {KAICU_0}))
    /\ i' = i + 1
    /\ UNCHANGED <<procVars, line, cmdVars, Tag, pc, temperature_check, value, pushed, silent>>

thread_myself_check ==
    \/ CheckEnds \/ PassBegins \/ PassEnds
    \/ PowerType \/ TemperatureLater \/ TemperatureDue \/ TemperatureLocked \/ TemperatureRead
    \/ SharedMemory \/ BatteryIn \/ Kairu \/ Kaichu \/ OtherTag

Next ==
    \/ CreateCmd \/ init_collect \/ CreateThreads \/ Signal \/ Exit
    \/ Command \/ Menu \/ Supervisor
    \/ CollectLock \/ CollectUnlock
    \/ thread_myself_check

(* Every thread runs on.  One that waits for the line gets it when it is    *)
(* free again and again: the others pause between two uses.                 *)
Fairness ==
    /\ WF_vars(CreateCmd \/ init_collect \/ CreateThreads)
    /\ WF_vars(Exit) /\ WF_vars(Command) /\ WF_vars(CollectUnlock) /\ WF_vars(thread_myself_check)
    /\ SF_vars(Locked) /\ SF_vars(TemperatureLocked)

Spec == Init /\ [][Next]_vars /\ Fairness

-----------------------------------------------------------------------------
(* The inputs and outputs of the list, if it has any: all of them in their  *)
(* order, the outputs behind the inputs.                                    *)
Whole ==
    \A n \in DOMAIN Tag :
        Tag[n] \in Inputs \cup Outputs =>
            LET first == n - (Tag[n] - KAIRU_0) IN
            /\ first >= 1 /\ first + 21 <= Len(Tag)
            /\ \A k \in 0..21 : Tag[first + k] = KAIRU_0 + k

(* The cache has the tags under a primary key. *)
NoneTwice == \A m, n \in DOMAIN Tag : Tag[m] = Tag[n] => m = n

(* On such a list a pass reports every tag once, unless its device gave no  *)
(* reading, and nothing else: the skips over the block of inputs, the case  *)
(* that runs on into the next and the tags passed over fit together.  Each  *)
(* sample is a reading of its own tag; only the battery's may be an older   *)
(* one of another.                                                          *)
Reported == {pushed[n].tag : n \in DOMAIN pushed}
Listed == {Tag[n] : n \in DOMAIN Tag} \cap (POWER_TYPE..KAICU_0 + 3)

EveryTagOnce ==
    Whole /\ NoneTwice /\ pc = "item" /\ i > Len(Tag) =>
        /\ Reported = Listed \ silent
        /\ Len(pushed) = Cardinality(Reported)
        /\ \A n \in DOMAIN pushed : pushed[n].of = pushed[n].tag \/ pushed[n].tag = BATTERY_IN

(* A reload that has arrived ends the process (for the supervisor to start  *)
(* it again), whatever the other threads do with the line and whatever      *)
(* commands came before it, unless the operator locked a line that he had   *)
(* locked already.                                                          *)
LockedOut == cmd = "lock" /\ line = "cmd"

ReloadObeyed == (\E n \in DOMAIN mail : mail[n] = "reload") ~> (~up \/ LockedOut)
=============================================================================
