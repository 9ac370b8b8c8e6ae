------------------------------- MODULE ConfigLoad ------------------------------
(***************************************************************************)
(* A program that reads its configuration at the start: the loops of       *)
(* load_config_from_file() in the IEC 104 master, the slave and the client *)
(* library, load_config() of the IEC 103 master and get_config_from_file() *)
(* of the collector.  A setting that is missing gets a default, which the  *)
(* libraries write into the file; without some the program ends.  Writing  *)
(* goes through a temporary file and FileCopy(), which empties the file    *)
(* before it fills it: the program may be killed, or a disk be full, in    *)
(* between.  Nobody else writes the file while a program starts.           *)
(***************************************************************************)
EXTENDS IniFile

CONSTANTS
    Installed, \* pairs of a program (one of Programs) and the file it finds
    MaxFaults, \* bound: crashes and full disks
    MaxStarts  \* bound: starts

VARIABLES
    reader,    \* the program that reads, one of Programs
    file,
    temp,      \* the temporary file
    doing,     \* "get", "set", "copy", "fill", "ready", "ended", "killed"
    at,        \* the setting
    loaded,    \* values, by setting
    faults, starts,
    original   \* history: the file before the first start

configVars == <<reader, file, temp, doing, at, loaded, faults, starts, original>>

(* A value that is taken or that a file gives, and what stands for none.    *)
Given(text) == [said |-> "value", text |-> text]
None(why) == [said |-> why, text |-> <<>>]

Default == <<"default">>
NotLoaded == None("not loaded")
Absent == None("absent")
Unreadable == None("unreadable")
Greatest(S) == CHOOSE i \in S : \A j \in S : j <= i

-----------------------------------------------------------------------------
(* The programs: what they read, in which order, and what happens when it   *)
(* is missing.  The default is "written" to the file, or it is not          *)
(* ("plain"), or the program ends ("must"; "list" when the value is one).   *)
Setting(section, key, how) == [section |-> section, key |-> key, how |-> how]
Each(section, keys, how) == [i \in DOMAIN keys |-> Setting(section, keys[i], how)]

AutoLists ==
    Each("auto", <<"condition_id", "condition_operator", "condition_value", "control_id",
                   "control_value">>, "list")

Collector ==
    <<Setting("Serial:0", "file_node", "plain")>>
    \o Each("log", <<"bootlog", "errlog", "taglistlog">>, "plain")
    \o Each("db", <<"ip", "port">>, "plain")
    \o Each("db", <<"path_fast_tag_db", "path_wyx_db", "path_wcx_db">>, "must")
    \o AutoLists

Slave104 ==
    Each("iec104_slave", <<"port", "max_k", "max_w", "t0", "t1", "t2", "t3", "asdu_addr">>, "written")

Master104 == <<
    Setting("tag_file", "file", "written"), Setting("csv_file_path", "path", "written"),
    Setting("C_IC_NA", "qoi", "written"), Setting("C_CI_NA", "qoi", "written"),
    Setting("DBServer", "rtu_sn", "written"), Setting("DBServer", "ip", "list") >>

Client104 == <<
    Setting("tag_file", "file", "written"), Setting("csv_file_path", "path", "written"),
    Setting("C_IC_NA", "qoi", "written"), Setting("C_CI_NA", "qoi", "written"),
    Setting("DBServer", "rtu_sn", "written"), Setting("DBServer", "ip", "list") >>

Master103 ==
    <<Setting("Serial:0", "file_node", "plain"), Setting("tag_file", "file", "written"),
      Setting("tag_file_optimized", "file", "written")>>
    \o Each("others", <<"step_mode", "write_tag_to_csv_file", "display", "csv_file_path">>, "written")

Programs == {Collector, Slave104, Master104, Client104, Master103}

ASSUME ProgramsAssumption ==
    /\ "default" \in Words
    /\ \A p \in Programs : \A i \in DOMAIN p : p[i].section \in Words /\ p[i].key \in Words

(* A header ends with its bracket: the line behind it does not continue it. *)
ASSUME InstalledAssumption ==
    \A i \in Installed :
        /\ i[1] \in Programs
        /\ \/ i[2] = Missing
           \/ /\ i[2].exists /\ i[2].ended \in BOOLEAN /\ i[2].lines \in Seq(Line)
              /\ \A n \in DOMAIN i[2].lines : i[2].lines[n].t = "section" => ~i[2].lines[n].more

Settings == DOMAIN reader
Slots == UNION {DOMAIN p : p \in Programs}
Get(f, s) == ConfigGetKey(f, reader[s].section, reader[s].key)

(* A list ends each item with a comma; what follows the last is left out.   *)
Items(value) ==
    LET commas == {i \in DOMAIN value : value[i] = ","}
    IN  IF commas = {} THEN <<>>
        ELSE SubSeq(value, 1, Greatest(commas))

Taken(s, value) == IF reader[s].how = "list" THEN Items(value) ELSE value

(* The last line has its newline, and a line that says that another one     *)
(* continues it is not the last, nor is that one a header: the search for a *)
(* section would find that header, the search for a key run past it.        *)
Whole(f) ==
    /\ f.ended
    /\ \A i \in DOMAIN f.lines :
           f.lines[i].more => i < Len(f.lines) /\ f.lines[i + 1].t # "section"

ConfigInit ==
    /\ \E i \in Installed : reader = i[1] /\ file = i[2]
    /\ original = file
    /\ temp = Missing
    /\ doing = "get" /\ at = 1
    /\ loaded = [s \in Slots |-> NotLoaded]
    /\ faults = 0 /\ starts = 1

rest == <<reader, original>>

Advance ==
    /\ at' = IF at < Len(reader) THEN at + 1 ELSE at
    /\ doing' = IF at < Len(reader) THEN "get" ELSE "ready"

-----------------------------------------------------------------------------
(* ConfigGetKey() finds the value. *)
Found ==
    /\ doing = "get" /\ Get(file, at).ret = "CFG_OK"
    /\ loaded' = [loaded EXCEPT ![at] = Given(Taken(at, Get(file, at).value))]
    /\ Advance
    /\ UNCHANGED <<file, temp, faults, starts, rest>>

(* It does not, for whatever reason: the default. *)
UseDefault ==
    /\ doing = "get" /\ Get(file, at).ret # "CFG_OK"
    /\ reader[at].how \in {"written", "plain"}
    /\ loaded' = [loaded EXCEPT ![at] = Given(Default)]
    /\ IF reader[at].how = "written" THEN doing' = "set" /\ UNCHANGED at ELSE Advance
    /\ UNCHANGED <<file, temp, faults, starts, rest>>

(* exit (1) *)
GivesUp ==
    /\ doing = "get" /\ Get(file, at).ret # "CFG_OK"
    /\ reader[at].how \in {"must", "list"}
    /\ doing' = "ended"
    /\ UNCHANGED <<file, temp, at, loaded, faults, starts, rest>>

-----------------------------------------------------------------------------
(* ConfigSetKey() for the default. *)
Outcome(f) == Get(f, at).ret

(* The file cannot be understood, or a file cannot be created. *)
SetRefused ==
    /\ doing = "set"
    /\ \/ ~Appends(Outcome(file)) /\ ~Rewrites(Outcome(file)) /\ UNCHANGED faults
       \/ faults < MaxFaults /\ faults' = faults + 1
    /\ Advance
    /\ UNCHANGED <<file, temp, loaded, starts, rest>>

SetAppends ==
    /\ doing = "set" /\ Appends(Outcome(file))
    /\ file' = Append2(file, reader[at].section, reader[at].key, Default)
    /\ Advance
    /\ UNCHANGED <<temp, loaded, faults, starts, rest>>

(* The temporary file, empty when its disk is full: fclose() is not checked.*)
SetTemp ==
    /\ doing = "set" /\ Rewrites(Outcome(file))
    /\ \/ /\ temp' = Rewritten(file, reader[at].section, reader[at].key, Default)
          /\ UNCHANGED faults
       \/ faults < MaxFaults /\ faults' = faults + 1 /\ temp' = Emptied
    /\ doing' = "copy"
    /\ UNCHANGED <<file, at, loaded, starts, rest>>

(* FileCopy() opens the file for writing, which empties it ... *)
CopyOpens ==
    /\ doing = "copy"
    /\ file' = Emptied
    /\ doing' = "fill"
    /\ UNCHANGED <<temp, at, loaded, faults, starts, rest>>

(* ... and writes what has been read; it stays empty when its disk is full. *)
CopyFills ==
    /\ doing = "fill"
    /\ \/ file' = temp /\ UNCHANGED faults
       \/ faults < MaxFaults /\ faults' = faults + 1 /\ UNCHANGED file
    /\ temp' = Missing
    /\ Advance
    /\ UNCHANGED <<loaded, starts, rest>>

ConfigSetKey == SetRefused \/ SetAppends \/ SetTemp \/ CopyOpens \/ CopyFills

-----------------------------------------------------------------------------
(* The program is killed; the temporary file stays behind, under a name     *)
(* that nobody looks for.                                                   *)
Killed ==
    /\ doing \in {"get", "set", "copy", "fill"} /\ faults < MaxFaults
    /\ faults' = faults + 1
    /\ doing' = "killed"
    /\ temp' = Missing
    /\ loaded' = [s \in Slots |-> NotLoaded]
    /\ UNCHANGED <<file, at, starts, rest>>

(* The program is started again. *)
Restart ==
    /\ doing \in {"ready", "ended", "killed"} /\ starts < MaxStarts
    /\ starts' = starts + 1
    /\ doing' = "get" /\ at' = 1
    /\ loaded' = [s \in Slots |-> NotLoaded]
    /\ UNCHANGED <<file, temp, faults, rest>>

ConfigNext == Found \/ UseDefault \/ GivesUp \/ ConfigSetKey \/ Killed \/ Restart

ConfigSpec == ConfigInit /\ [][ConfigNext]_configVars

-----------------------------------------------------------------------------
(* What the file says of a setting. *)
Says(f, s) ==
    LET g == Get(f, s)
    IN  IF g.ret = "CFG_OK" THEN Given(Taken(s, g.value))
        ELSE IF Appends(g.ret) \/ Rewrites(g.ret) THEN Absent ELSE Unreadable

(* While FileCopy() works, what the file says is what it is going to say.   *)
Current == IF doing = "fill" THEN temp ELSE file

Store == INSTANCE ConfigStore WITH
    Settings <- Slots, Default <- Given(Default),
    store <- [s \in Slots |-> IF s \in Settings THEN Says(Current, s) ELSE Absent],
    whole <- Whole(Current)

(* The programs and INIFileOP keep the promise of ConfigStore: a default is *)
(* put where a setting is missing and nowhere else, the others keep their   *)
(* values, and only a crash or a full disk loses them.                      *)
KeepsStore == Store!Spec

(* Without a fault, and with a file that ends properly, a setting that the  *)
(* file had at first is found at every start, and a program that has        *)
(* started finds the defaults it wrote the next time.                       *)
UserSettingsKept ==
    (faults = 0 /\ Whole(original)) =>
        \A s \in Settings :
            /\ Get(original, s).ret = "CFG_OK" => Says(Current, s) = Says(original, s)
            /\ doing = "ready" /\ reader[s].how = "written" =>
                Says(file, s) \in {loaded[s], Unreadable}
=============================================================================
