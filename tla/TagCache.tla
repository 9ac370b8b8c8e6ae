------------------------------- MODULE TagCache -------------------------------
(***************************************************************************)
(* The list of points and its cache.  The configuration tools write a data *)
(* base; the collector copies it at every start and keeps what it needs in *)
(* a second data base, the "optimized tags", which later starts read       *)
(* instead: LoadTagList() of collect.cpp.  load_taglist() of               *)
(* iec103_master/dev_103.c does the same with the collector's copy, where  *)
(* it lies; each behaviour has one of the two programs, so the copy is not *)
(* replaced while the other one reads it.  A change of the configuration   *)
(* is announced by a datagram, on which the collector removes the cache    *)
(* and ends; rcS has a supervisor start it again.                          *)
(*                                                                         *)
(* The cache is built statement by statement with no transaction, so every *)
(* statement is a step here: the program can end between any two of them,  *)
(* by a crash or by one of its own calls of exit(1).  The rows are told    *)
(* apart by their point and by the version of the configuration they come  *)
(* from; the columns are abstracted to what decides whether loading        *)
(* succeeds (a Kind).                                                      *)
(***************************************************************************)
EXTENDS Integers, FiniteSets

CONSTANTS
    Own,        \* points of the device itself: TID below 1000 in PCSET
    User,       \* points of the user's devices: T_POT_COL
    Configs,    \* the configurations the tools may write
    MaxEdits,   \* bound: changes of the configuration
    MaxCrashes  \* bound: crashes of the program

ASSUME OwnUserAssumption == Own \cap User = {}
ASSUME BoundsAssumption == MaxEdits \in Nat /\ MaxCrashes \in Nat

Points == Own \cup User

(* What the configuration says of a point: whether there is one, the        *)
(* protocol of its device, which of the queries about it find exactly one   *)
(* answer, its serial port and the number of its function.                  *)
Queries == {"protocol", "did", "device", "point", "factor"}
Attributes == [there : BOOLEAN, protocol : {1, 3}, found : SUBSET Queries, com : Nat, fun : Nat]

Config == [points : [Points -> Attributes], outputs : BOOLEAN]

ASSUME ConfigsAssumption == Configs \subseteq Config /\ Configs # {}

Versions == 0..MaxEdits
Row == [point : Points, com : Nat, fun : Nat, version : Versions]

(* No table `ort3000c', or one without a row. *)
NoTable == -2
NoRow == -1

VARIABLES
    program,    \* which program this is: "collect" or "iec103"
    conf,       \* the configuration: its version and its content
    sysdb,      \* the copy of it that both programs read (g_path_db, m_tag_file)
    cache,      \* optimized_tag_modbus.db, OPTIMIZED_TABLE
    pc,         \* where the program is
    todo,       \* points that the loop over dbResult has still to visit
    tags,       \* myself.Tag, Serial[].Tag: the rows in memory
    kaichu,     \* kaichu_value: the version its bits come from
    mail,       \* a reload datagram waits at the command socket
    unfinished, \* history: the build of the cache has not ended
    built,      \* history: the configuration the cache was begun with
    crashes     \* crashes so far

vars == <<program, conf, sysdb, cache, pc, todo, tags, kaichu, mail, unfinished, built, crashes>>

NoCache == [file |-> FALSE, outputs |-> NoTable, table |-> FALSE, rows |-> {}]

Running == {"open", "outputs", "creat", "insert", "table", "own", "user", "close",
            "kaichu", "read", "up", "quit"}

Init ==
    /\ program \in {"collect", "iec103"}
    /\ conf \in [version : {0}, content : Configs]
    /\ sysdb = conf
    /\ cache = NoCache
    /\ pc = "down"
    /\ todo = {}
    /\ tags = {}
    /\ kaichu = NoRow
    /\ mail = FALSE
    /\ unfinished = FALSE
    /\ built = conf
    /\ crashes = 0

-----------------------------------------------------------------------------
(* exit (1): the program ends and its socket with it. *)
Exits == pc' = "down" /\ tags' = {} /\ mail' = FALSE

(* The environment: the tools, the supervisor, the power supply. *)

(* The tools store a new configuration and announce it; the datagram is     *)
(* lost unless the command thread has bound its socket.                     *)
Edit ==
    /\ conf.version < MaxEdits
    /\ \E c \in Configs : conf' = [version |-> conf.version + 1, content |-> c]
    /\ mail' = (mail \/ (program = "collect" /\ pc \in {"up", "quit"}))
    /\ UNCHANGED <<program, sysdb, cache, pc, todo, tags, kaichu, unfinished, built, crashes>>

(* The supervisor or the power supply; a signal handler's exit counts too.  *)
Crash ==
    /\ pc \in Running
    /\ crashes < MaxCrashes
    /\ crashes' = crashes + 1
    /\ Exits
    /\ UNCHANGED <<program, conf, sysdb, cache, todo, kaichu, unfinished, built>>

-----------------------------------------------------------------------------
(* Loading. *)

(* get_config_from_file() of the collector: "cp" of the data base of the    *)
(* tools.                                                                   *)
SysdbCopy == conf

(* Mutant: the test that the cache exists is missing. *)
StartAlwaysBuilding ==
    /\ pc = "down"
    /\ sysdb' = SysdbCopy
    /\ tags' = {}
    /\ pc' = "open"
    /\ UNCHANGED <<program, conf, cache, todo, kaichu, mail, unfinished, built, crashes>>

(* The beginning of LoadTagList(): the list in memory is cleared, and when  *)
(* the cache file can be opened at all it is taken for complete.            *)
Start ==
    /\ pc = "down"
    /\ sysdb' = SysdbCopy
    /\ tags' = {}
    /\ pc' = IF ~cache.file THEN "open" ELSE IF program = "collect" THEN "kaichu" ELSE "read"
    /\ UNCHANGED <<program, conf, cache, todo, kaichu, mail, unfinished, built, crashes>>

(* sqlite3_open() of a file that does not exist creates it. *)
OpenCache ==
    /\ pc = "open"
    /\ cache' = [cache EXCEPT !.file = TRUE]
    /\ unfinished' = TRUE
    /\ built' = sysdb
    /\ pc' = IF program = "collect" THEN "outputs" ELSE "table"
    /\ UNCHANGED <<program, conf, sysdb, todo, tags, kaichu, mail, crashes>>

(* The state the configuration wants an output in, -1 when it is not found. *)
QueryKaiChuAccordingPid == IF sysdb.content.outputs THEN 0 ELSE -1

(* The four outputs of the device: exit (1) when one of them is not found.  *)
ReadOutputs ==
    /\ pc = "outputs"
    /\ \/ /\ QueryKaiChuAccordingPid >= 0
          /\ kaichu' = sysdb.version
          /\ pc' = "creat"
          /\ UNCHANGED <<tags, mail>>
       \/ QueryKaiChuAccordingPid < 0 /\ Exits /\ UNCHANGED kaichu
    /\ UNCHANGED <<program, conf, sysdb, cache, todo, unfinished, built, crashes>>

creat_ort3000c_table ==
    /\ pc = "creat"
    /\ cache' = [cache EXCEPT !.outputs = IF @ = NoTable THEN NoRow ELSE @]
    /\ pc' = "insert"
    /\ UNCHANGED <<program, conf, sysdb, todo, tags, kaichu, mail, unfinished, built, crashes>>

insert_ort3000c_table ==
    /\ pc = "insert"
    /\ cache' = [cache EXCEPT !.outputs = kaichu]
    /\ pc' = "table"
    /\ UNCHANGED <<program, conf, sysdb, todo, tags, kaichu, mail, unfinished, built, crashes>>

(* The points each of the two loops visits. *)
OwnPoints == {p \in Own : sysdb.content.points[p].there}
UserPoints == {p \in User : sysdb.content.points[p].there}

CreateTempModbusTable ==
    /\ program = "collect" /\ pc = "table"
    /\ cache' = [cache EXCEPT !.table = TRUE]
    /\ pc' = "own" /\ todo' = OwnPoints
    /\ UNCHANGED <<program, conf, sysdb, tags, kaichu, mail, unfinished, built, crashes>>

create_optimized_table ==
    /\ program = "iec103" /\ pc = "table"
    /\ cache' = [cache EXCEPT !.table = TRUE]
    /\ pc' = "user" /\ todo' = UserPoints
    /\ UNCHANGED <<program, conf, sysdb, tags, kaichu, mail, unfinished, built, crashes>>

(* The queries about a point; each answers -1 unless it finds one row.      *)
Answer(p, query, a) == IF query \in sysdb.content.points[p].found THEN a ELSE -1

QueryProtocolAccordingPid(p) == Answer(p, "protocol", sysdb.content.points[p].protocol)
Get_DID_From_PID(p) == Answer(p, "did", 0)
QueryAttAccordingDid(p) == Answer(p, "device", 0)
QueryAttAccordingPid(p) == Answer(p, "point", 0)
Get_K_From_PID(p) == Answer(p, "factor", 0)

query_protocol_according_pid(p) == Answer(p, "protocol", sysdb.content.points[p].protocol)
get_did_from_pid(p) == Answer(p, "did", 0)
query_according_did(p) == Answer(p, "device", 0)
query_att_according_pid(p) == Answer(p, "point", 0)
get_factor_from_pid(p) == Answer(p, "factor", 0)

(* The primary key refuses a point that has a row. *)
HasRow(p) == \E r \in cache.rows : r.point = p

RowOf(p) == [point |-> p, com |-> sysdb.content.points[p].com,
             fun |-> sysdb.content.points[p].fun, version |-> sysdb.version]

InsertTempModbusTable(p) ==
    \/ ~HasRow(p) /\ cache' = [cache EXCEPT !.rows = @ \cup {RowOf(p)}] /\ UNCHANGED <<pc, tags, mail>>
    \/ HasRow(p) /\ Exits /\ UNCHANGED cache

insert_optimized_table(p) ==
    \/ ~HasRow(p) /\ cache' = [cache EXCEPT !.rows = @ \cup {RowOf(p)}] /\ UNCHANGED <<pc, tags, mail>>
    \/ HasRow(p) /\ Exits /\ UNCHANGED cache

(* One point of the device: only its factor is looked up. *)
ReadOwnPoint(p) ==
    /\ pc = "own" /\ p \in todo
    /\ todo' = todo \ {p}
    /\ \/ Get_K_From_PID(p) >= 0 /\ InsertTempModbusTable(p)
       \/ Get_K_From_PID(p) < 0 /\ Exits /\ UNCHANGED cache
    /\ UNCHANGED <<program, conf, sysdb, kaichu, unfinished, built, crashes>>

OwnDone ==
    /\ pc = "own" /\ todo = {}
    /\ pc' = "user" /\ todo' = UserPoints
    /\ UNCHANGED <<program, conf, sysdb, cache, tags, kaichu, mail, unfinished, built, crashes>>

Complete(p) == Get_DID_From_PID(p) >= 0 /\ QueryAttAccordingDid(p) >= 0
                 /\ QueryAttAccordingPid(p) >= 0 /\ Get_K_From_PID(p) >= 0

(* Mutant: a point is passed over when an attribute is missing. *)
ReadUserPointLenient(p) ==
    /\ program = "collect" /\ pc = "user" /\ p \in todo
    /\ todo' = todo \ {p}
    /\ \/ QueryProtocolAccordingPid(p) = 1 /\ Complete(p) /\ InsertTempModbusTable(p)
       \/ ~(QueryProtocolAccordingPid(p) = 1 /\ Complete(p)) /\ UNCHANGED <<cache, pc, tags, mail>>
    /\ UNCHANGED <<program, conf, sysdb, kaichu, unfinished, built, crashes>>

(* One point of a user's device: passed over when it is of another          *)
(* protocol, exit (1) when a query about it has no answer.                  *)
ReadUserPoint(p) ==
    /\ program = "collect" /\ pc = "user" /\ p \in todo
    /\ todo' = todo \ {p}
    /\ \/ QueryProtocolAccordingPid(p) < 0 /\ Exits /\ UNCHANGED cache
       \/ QueryProtocolAccordingPid(p) \notin {-1, 1} /\ UNCHANGED <<cache, pc, tags, mail>>
       \/ QueryProtocolAccordingPid(p) = 1 /\ ~Complete(p) /\ Exits /\ UNCHANGED cache
       \/ QueryProtocolAccordingPid(p) = 1 /\ Complete(p) /\ InsertTempModbusTable(p)
    /\ UNCHANGED <<program, conf, sysdb, kaichu, unfinished, built, crashes>>

complete(p) == get_did_from_pid(p) >= 0 /\ query_according_did(p) >= 0
                 /\ query_att_according_pid(p) >= 0 /\ get_factor_from_pid(p) >= 0

(* The same loop of the IEC 103 master, whose protocol is number 3. *)
read_user_tag(p) ==
    /\ program = "iec103" /\ pc = "user" /\ p \in todo
    /\ todo' = todo \ {p}
    /\ \/ query_protocol_according_pid(p) < 0 /\ Exits /\ UNCHANGED cache
       \/ query_protocol_according_pid(p) \notin {-1, 3} /\ UNCHANGED <<cache, pc, tags, mail>>
       \/ query_protocol_according_pid(p) = 3 /\ ~complete(p) /\ Exits /\ UNCHANGED cache
       \/ query_protocol_according_pid(p) = 3 /\ complete(p) /\ insert_optimized_table(p)
    /\ UNCHANGED <<program, conf, sysdb, kaichu, unfinished, built, crashes>>

(* sqlite3_close (db): the cache is complete. *)
UserDone ==
    /\ pc = "user" /\ todo = {}
    /\ unfinished' = FALSE
    /\ pc' = IF program = "collect" THEN "kaichu" ELSE "read"
    /\ UNCHANGED <<program, conf, sysdb, cache, todo, tags, kaichu, mail, built, crashes>>

(* read_db_optimized_tag_modbus: the outputs, which must be one row.        *)
ReadKaichu ==
    /\ pc = "kaichu"
    /\ \/ cache.outputs \in Versions /\ kaichu' = cache.outputs /\ pc' = "read" /\ UNCHANGED <<tags, mail>>
       \/ cache.outputs \notin Versions /\ Exits /\ UNCHANGED kaichu
    /\ UNCHANGED <<program, conf, sysdb, cache, todo, unfinished, built, crashes>>

(* The tests on a row as it is read: COM of 1 to 7, fun_no, a uint8_t, of   *)
(* at most FC_REPORT_SLAVE_ID (although fun[] has eight elements).          *)
FC_REPORT_SLAVE_ID == 17
fun_no(fun) == fun % 256
Accepted(r) == r.com \in 1..7 /\ fun_no(r.fun) <= FC_REPORT_SLAVE_ID
accepted(r) == r.com \in 1..7

(* The collector reads the rows.  Without the table the file is removed and *)
(* pthread_quit() ends the program; a row that is refused ends it too, with *)
(* the file left as it is.                                                  *)
LoadTagList ==
    /\ program = "collect" /\ pc = "read"
    /\ \/ /\ cache.table /\ \A r \in cache.rows : Accepted(r)
          /\ tags' = cache.rows /\ pc' = "up" /\ UNCHANGED <<mail, cache>>
       \/ cache.table /\ (\E r \in cache.rows : ~Accepted(r)) /\ Exits /\ UNCHANGED cache
       \/ ~cache.table /\ cache' = NoCache /\ Exits
    /\ UNCHANGED <<program, conf, sysdb, todo, kaichu, unfinished, built, crashes>>

(* The same of the IEC 103 master. *)
load_taglist ==
    /\ program = "iec103" /\ pc = "read"
    /\ \/ /\ cache.table /\ \A r \in cache.rows : accepted(r)
          /\ tags' = cache.rows /\ pc' = "up" /\ UNCHANGED <<mail, cache>>
       \/ cache.table /\ (\E r \in cache.rows : ~accepted(r)) /\ Exits /\ UNCHANGED cache
       \/ ~cache.table /\ cache' = NoCache /\ Exits
    /\ UNCHANGED <<program, conf, sysdb, todo, kaichu, unfinished, built, crashes>>

-----------------------------------------------------------------------------
(* Mutant: the command thread removes another folder than the cache's. *)
ReloadElsewhere ==
    /\ pc = "up" /\ mail
    /\ mail' = FALSE
    /\ pc' = "quit"
    /\ UNCHANGED <<program, conf, sysdb, cache, todo, tags, kaichu, unfinished, built, crashes>>

(* thread_read_cmd(): on DATABASE_CHANGED_CMD or "reload" everything in     *)
(* g_path_fast_tag is removed and the program quits.                        *)
Reload ==
    /\ pc = "up" /\ mail
    /\ mail' = FALSE
    /\ cache' = NoCache
    /\ unfinished' = FALSE
    /\ pc' = "quit"
    /\ UNCHANGED <<program, conf, sysdb, todo, tags, kaichu, built, crashes>>

(* pthread_quit() after its two seconds. *)
pthread_quit ==
    /\ pc = "quit"
    /\ Exits
    /\ UNCHANGED <<program, conf, sysdb, cache, todo, kaichu, unfinished, built, crashes>>

Program ==
    \/ Start \/ OpenCache \/ ReadOutputs \/ creat_ort3000c_table \/ insert_ort3000c_table
    \/ CreateTempModbusTable \/ create_optimized_table
    \/ \E p \in Points : ReadOwnPoint(p) \/ ReadUserPoint(p) \/ read_user_tag(p)
    \/ OwnDone \/ UserDone \/ ReadKaichu \/ LoadTagList \/ load_taglist
    \/ Reload \/ pthread_quit

Next == Program \/ Edit \/ Crash

(* The program runs on, and the supervisor starts it again. *)
Spec == Init /\ [][Next]_vars /\ WF_vars(Program)

-----------------------------------------------------------------------------
(* The points of a configuration that the program is to poll: its own       *)
(* protocol's, and for the collector those of the device too.               *)
Wanted(c) ==
    IF program = "iec103" THEN {p \in User : c.points[p].there /\ c.points[p].protocol = 3}
    ELSE {p \in Points : c.points[p].there /\ (p \in User => c.points[p].protocol = 1)}

Polled == {r.point : r \in tags}

(* What the program polls, and the position of its outputs, come from one   *)
(* version of the configuration: however often loading was cut short and    *)
(* repeated, rows of two versions never stand side by side, and no point    *)
(* has two rows.                                                            *)
OneVersion ==
    \A r \in tags : /\ program = "collect" => r.version = kaichu
                    /\ \A s \in tags : r.version = s.version /\ (r.point = s.point => r = s)

(* A program in service whose cache was built to the end polls every point  *)
(* of that configuration, and no other: nothing was dropped on the way      *)
(* through the two data bases.                                              *)
CompleteIfFinished == pc = "up" /\ ~unfinished => Polled = Wanted(built.content)

(* An announced change takes effect: once the command thread has taken the  *)
(* datagram, the collector comes back with that configuration or a later    *)
(* one, unless that is not sound or the program dies again while building.  *)
Flawed ==
    \/ ~conf.content.outputs
    \/ \E p \in Points : LET a == conf.content.points[p]
                        IN a.there /\ (a.found # Queries \/ a.com \notin 1..7 \/ fun_no(a.fun) > FC_REPORT_SLAVE_ID)

ReloadTakesEffect ==
    \A v \in Versions :
        pc = "quit" /\ conf.version = v
            ~> \/ pc = "up" /\ kaichu >= v
               \/ Flawed
               \/ pc = "down" /\ unfinished
=============================================================================
