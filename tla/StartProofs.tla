------------------------------ MODULE StartProofs -----------------------------
(***************************************************************************)
(* Proofs about what a program does when it starts: it reads its           *)
(* configuration (ConfigLoad) and builds its list of points (TagCache).    *)
(*                                                                         *)
(* TagCache, for any points, any configurations and any number of changes  *)
(* and crashes.  The argument is that a cache, once its file exists, is    *)
(* only added to by the program that created it, which reads one copy of   *)
(* the configuration: every row is of the version the cache was begun with *)
(* (VersionInv), and the loops over the points keep account of those that  *)
(* have a row (RowInv).                                                    *)
(*                                                                         *)
(* ConfigLoad, for any well-formed files and any number of faults and      *)
(* starts.  The argument is about ConfigGetKey() and ConfigSetKey(): both  *)
(* ways of writing a key put a line at a place where no search that asks   *)
(* for something else ends differently (AppendedSays, InsertedSays, from   *)
(* SameSearch, which compares two searches over lines that are the same).  *)
(* Then every step leaves what the file says alone, puts the default, or   *)
(* loses everything after a fault (Moves), and a default is put only while *)
(* the setting is missing (WritingInv).                                    *)
(***************************************************************************)
EXTENDS TagCache, ConfigLoad, WellFoundedInduction, TLAPS


Caches == [file : BOOLEAN, outputs : Versions \cup {NoTable, NoRow}, table : BOOLEAN, rows : SUBSET Row]
Versioned == [version : Versions, content : Configs]

TypeOK ==
    /\ program \in {"collect", "iec103"}
    /\ conf \in Versioned /\ sysdb \in Versioned /\ built \in Versioned
    /\ cache \in Caches
    /\ pc \in Running \cup {"down"}
    /\ tags \subseteq Row

Building == {"outputs", "creat", "insert", "table", "own", "user"}

(* A file that is not there holds nothing, and only the program that       *)
(* created it is building it.                                              *)
FileInv ==
    /\ ~cache.file => cache = NoCache
    /\ pc = "open" => ~cache.file
    /\ pc \in Building => cache.file /\ unfinished /\ built = sysdb
    /\ pc \in {"outputs", "creat", "insert", "own", "kaichu"} => program = "collect"
    /\ pc \in {"outputs", "creat", "insert", "table"} => cache.rows = {}

(* The rows are of one version, one for a point. *)
Uniform(rows) ==
    /\ \A r \in rows : r.version = built.version
    /\ \A r, q \in rows : r.point = q.point => r = q

VersionInv ==
    /\ Uniform(cache.rows) /\ Uniform(tags)
    /\ cache.outputs \in Versions => cache.outputs = built.version
    /\ program = "collect" /\ pc \in {"creat", "insert", "read", "up", "quit"} => kaichu = built.version
    /\ pc \notin {"up", "quit"} => tags = {}

PointsOf(rows) == {r.point : r \in rows}

(* The points that have a row: those visited, and in the end all of them. *)
RowInv ==
    /\ pc = "own" => todo \subseteq OwnPoints /\ PointsOf(cache.rows) = OwnPoints \ todo
    /\ pc = "user" => todo \subseteq UserPoints /\ PointsOf(cache.rows) = Wanted(sysdb.content) \ todo
    /\ cache.file /\ ~unfinished => PointsOf(cache.rows) = Wanted(built.content)
    /\ pc = "up" /\ ~unfinished => PointsOf(tags) = Wanted(built.content)

IInv == TypeOK /\ FileInv /\ VersionInv /\ RowInv
-----------------------------------------------------------------------------
LEMMA InitIInv == Init => IInv
<1> SUFFICES ASSUME Init PROVE IInv
  OBVIOUS
<1>1. 0 \in Versions
  BY BoundsAssumption DEF Versions
<1>2. conf = [version |-> conf.version, content |-> conf.content] /\ conf.version = 0 /\ conf.content \in Configs
  BY DEF Init
<1>3. conf \in Versioned
  BY <1>1, <1>2 DEF Versioned
<1>4. NoCache \in Caches /\ NoCache.rows = {} /\ ~NoCache.file /\ NoCache.outputs = -2
  BY DEF NoCache, Caches, NoTable
<1>5. -2 \notin Versions
  BY DEF Versions
<1>6. QED
  BY <1>3, <1>4, <1>5 DEF Init, IInv, TypeOK, FileInv, VersionInv, Uniform, RowInv, Building

(* The fields of a cache that one field is written of. *)
LEMMA CacheWritten ==
    ASSUME NEW c \in Caches
    PROVE  /\ \A e \in BOOLEAN : LET d == [c EXCEPT !.file = e]
                                 IN d \in Caches /\ d.file = e /\ d.outputs = c.outputs /\ d.rows = c.rows
           /\ \A e \in BOOLEAN : LET d == [c EXCEPT !.table = e]
                                 IN d \in Caches /\ d.file = c.file /\ d.outputs = c.outputs /\ d.rows = c.rows
           /\ \A e \in Versions \cup {NoTable, NoRow} :
                 LET d == [c EXCEPT !.outputs = e]
                 IN d \in Caches /\ d.file = c.file /\ d.outputs = e /\ d.rows = c.rows
           /\ \A e \in SUBSET Row : LET d == [c EXCEPT !.rows = e]
                                    IN d \in Caches /\ d.file = c.file /\ d.outputs = c.outputs /\ d.rows = e
BY DEF Caches

LEMMA NothingBuilt ==
    /\ NoCache \in Caches /\ NoCache.rows = {} /\ ~NoCache.file /\ ~NoCache.table
    /\ NoCache.outputs \notin Versions
BY DEF NoCache, Caches, NoTable, Versions

(* The row of a point of the copy. *)
LEMMA RowTyped ==
    ASSUME TypeOK, NEW p \in Points
    PROVE  RowOf(p) \in Row /\ RowOf(p).point = p /\ RowOf(p).version = sysdb.version
<1>1. sysdb.content \in Config /\ sysdb.version \in Versions
  BY ConfigsAssumption DEF TypeOK, Versioned
<1>2. sysdb.content.points[p].com \in Nat /\ sysdb.content.points[p].fun \in Nat
  BY <1>1 DEF Config, Attributes
<1>3. QED
  BY <1>1, <1>2 DEF RowOf, Row

(* A point is visited. *)
Visit(p) == ReadOwnPoint(p) \/ ReadUserPoint(p) \/ read_user_tag(p)

Passes(p) == pc = "user" /\ p \notin Wanted(sysdb.content) /\ UNCHANGED <<cache, pc, tags>>

Fails == pc' = "down" /\ tags' = {} /\ cache' = cache

Inserts(p) ==
    /\ pc = "user" => p \in Wanted(sysdb.content)
    /\ ~HasRow(p) /\ cache' = [cache EXCEPT !.rows = @ \cup {RowOf(p)}]
    /\ UNCHANGED <<pc, tags>>

(* It is passed over, or the program ends, or it gets a row, and one that    *)
(* is passed over is none of the program's.                                  *)
LEMMA Visited ==
    ASSUME IInv, NEW p \in Points, Visit(p)
    PROVE  /\ pc \in {"own", "user"} /\ p \in todo /\ todo' = todo \ {p}
           /\ UNCHANGED <<program, conf, sysdb, kaichu, unfinished, built>>
           /\ Passes(p) \/ Fails \/ Inserts(p)
<1>1. pc = "user" /\ p \in todo => p \in User /\ sysdb.content.points[p].there
  BY DEF IInv, RowInv, UserPoints
<1>2. CASE ReadOwnPoint(p)
  BY <1>2 DEF ReadOwnPoint, InsertTempModbusTable, Exits, Fails, Inserts
<1>3. CASE ReadUserPoint(p)
  <2>1. pc = "user" /\ program = "collect" /\ p \in todo
    BY <1>3 DEF ReadUserPoint
  <2>2. p \in User /\ sysdb.content.points[p].there
    BY <1>1, <2>1
  <2>3. p \in Wanted(sysdb.content) <=> sysdb.content.points[p].protocol = 1
    BY <2>1, <2>2 DEF Wanted
  <2>4. QueryProtocolAccordingPid(p) = 1 => sysdb.content.points[p].protocol = 1
    BY DEF QueryProtocolAccordingPid, Answer
  <2>5. QueryProtocolAccordingPid(p) \notin {-1, 1} => sysdb.content.points[p].protocol # 1
    BY DEF QueryProtocolAccordingPid, Answer
  <2>6. QED
    BY <1>3, <2>1, <2>3, <2>4, <2>5
       DEF ReadUserPoint, InsertTempModbusTable, Exits, Passes, Fails, Inserts
<1>4. CASE read_user_tag(p)
  <2>1. pc = "user" /\ program = "iec103" /\ p \in todo
    BY <1>4 DEF read_user_tag
  <2>2. p \in User /\ sysdb.content.points[p].there
    BY <1>1, <2>1
  <2>3. p \in Wanted(sysdb.content) <=> sysdb.content.points[p].protocol = 3
    BY <2>1, <2>2 DEF Wanted
  <2>4. query_protocol_according_pid(p) = 3 => sysdb.content.points[p].protocol = 3
    BY DEF query_protocol_according_pid, Answer
  <2>5. query_protocol_according_pid(p) \notin {-1, 3} => sysdb.content.points[p].protocol # 3
    BY DEF query_protocol_according_pid, Answer
  <2>6. QED
    BY <1>4, <2>1, <2>3, <2>4, <2>5
       DEF read_user_tag, insert_optimized_table, Exits, Passes, Fails, Inserts
<1>5. QED
  BY <1>2, <1>3, <1>4 DEF Visit

-----------------------------------------------------------------------------
LEMMA TypeStep == IInv /\ [Next]_vars => TypeOK'
<1> SUFFICES ASSUME IInv, [Next]_vars PROVE TypeOK'
  OBVIOUS
<1>1. TypeOK
  BY DEF IInv
<1> USE DEF Running
<1>2. CASE Start
  BY <1>1, <1>2 DEF TypeOK, Start, SysdbCopy
<1>3. CASE OpenCache
  BY <1>1, <1>3, CacheWritten DEF TypeOK, OpenCache
<1>4. CASE ReadOutputs
  BY <1>1, <1>4 DEF TypeOK, ReadOutputs, Exits
<1>5. CASE creat_ort3000c_table
  BY <1>1, <1>5, CacheWritten DEF TypeOK, creat_ort3000c_table, Caches
<1>6. CASE insert_ort3000c_table
  <2>1. kaichu \in Versions
    BY <1>1, <1>6 DEF insert_ort3000c_table, IInv, FileInv, VersionInv, TypeOK, Versioned
  <2>2. QED
    BY <1>1, <1>6, <2>1, CacheWritten DEF TypeOK, insert_ort3000c_table
<1>7. CASE CreateTempModbusTable \/ create_optimized_table
  <2>1. cache' = [cache EXCEPT !.table = TRUE] /\ pc' \in {"own", "user"}
        /\ UNCHANGED <<program, conf, sysdb, built, tags>>
    BY <1>7 DEF CreateTempModbusTable, create_optimized_table
  <2>2. cache' \in Caches
    BY <1>1, <2>1, CacheWritten DEF TypeOK
  <2>3. QED
    BY <1>1, <2>1, <2>2 DEF TypeOK
<1>8. ASSUME NEW p \in Points, Visit(p) PROVE TypeOK'
  <2>1. CASE Passes(p)
    BY <1>1, <1>8, <2>1, Visited DEF TypeOK, Passes
  <2>2. CASE Fails
    BY <1>1, <1>8, <2>2, Visited DEF TypeOK, Fails
  <2>3. CASE Inserts(p)
    <3>1. cache.rows \cup {RowOf(p)} \in SUBSET Row
      BY <1>1, RowTyped DEF TypeOK, Caches
    <3>2. cache' \in Caches
      BY <1>1, <2>3, <3>1, CacheWritten DEF TypeOK, Inserts
    <3>3. QED
      BY <1>1, <1>8, <2>3, <3>2, Visited DEF TypeOK, Inserts
  <2>4. QED
    BY <1>8, <2>1, <2>2, <2>3, Visited
<1>9. CASE OwnDone \/ UserDone
  BY <1>1, <1>9 DEF TypeOK, OwnDone, UserDone
<1>10. CASE ReadKaichu
  BY <1>1, <1>10 DEF TypeOK, ReadKaichu, Exits
<1>11. CASE LoadTagList \/ load_taglist
  BY <1>1, <1>11, NothingBuilt DEF TypeOK, LoadTagList, load_taglist, Exits, Caches
<1>12. CASE Reload
  BY <1>1, <1>12, NothingBuilt DEF TypeOK, Reload
<1>13. CASE pthread_quit
  BY <1>1, <1>13 DEF TypeOK, pthread_quit, Exits
<1>14. CASE Edit
  <2>1. PICK c \in Configs : conf' = [version |-> conf.version + 1, content |-> c]
    BY <1>14 DEF Edit
  <2>2. conf.version + 1 \in Versions
    BY <1>1, <1>14, BoundsAssumption DEF Edit, TypeOK, Versioned, Versions
  <2>3. conf' \in Versioned
    BY <2>1, <2>2 DEF Versioned
  <2>4. QED
    BY <1>1, <1>14, <2>3 DEF TypeOK, Edit
<1>15. CASE Crash
  BY <1>1, <1>15 DEF TypeOK, Crash, Exits
<1>16. CASE UNCHANGED vars
  BY <1>1, <1>16 DEF TypeOK, vars
<1>17. QED
  BY <1>2, <1>3, <1>4, <1>5, <1>6, <1>7, <1>8, <1>9, <1>10, <1>11, <1>12, <1>13, <1>14, <1>15, <1>16
     DEF Next, Program, Visit
LEMMA FileStep == IInv /\ [Next]_vars => FileInv'
<1> SUFFICES ASSUME IInv, [Next]_vars PROVE FileInv'
  OBVIOUS
<1>1. FileInv /\ cache \in Caches /\ program \in {"collect", "iec103"} /\ TypeOK
  BY DEF IInv, TypeOK
<1> USE DEF Building
<1>2. CASE Start
  BY <1>1, <1>2 DEF FileInv, Start
<1>3. CASE OpenCache
  <2>1. cache'.file /\ cache'.rows = {}
    BY <1>1, <1>3, CacheWritten, NothingBuilt DEF OpenCache, FileInv
  <2>2. QED
    BY <1>1, <1>3, <2>1 DEF FileInv, OpenCache
<1>4. CASE ReadOutputs
  BY <1>1, <1>4 DEF FileInv, ReadOutputs, Exits
<1>5. CASE creat_ort3000c_table
  <2>1. cache'.file /\ cache'.rows = {}
    BY <1>1, <1>5 DEF FileInv, creat_ort3000c_table, Caches
  <2>2. QED
    BY <1>1, <1>5, <2>1 DEF FileInv, creat_ort3000c_table
<1>6. CASE insert_ort3000c_table
  <2>1. cache'.file /\ cache'.rows = {}
    BY <1>1, <1>6 DEF FileInv, insert_ort3000c_table, Caches
  <2>2. QED
    BY <1>1, <1>6, <2>1 DEF FileInv, insert_ort3000c_table
<1>7. CASE CreateTempModbusTable \/ create_optimized_table
  <2>1. cache'.file = cache.file
    <3>1. cache' = [cache EXCEPT !.table = TRUE]
      BY <1>7 DEF CreateTempModbusTable, create_optimized_table
    <3>2. QED
      BY <1>1, <3>1, CacheWritten
  <2>2. QED
    BY <1>1, <1>7, <2>1 DEF FileInv, CreateTempModbusTable, create_optimized_table
<1>8. ASSUME NEW p \in Points, Visit(p) PROVE FileInv'
  <2>1. CASE Passes(p)
    BY <1>1, <1>8, <2>1, Visited DEF FileInv, Passes
  <2>2. CASE Fails
    BY <1>1, <1>8, <2>2, Visited DEF FileInv, Fails
  <2>3. CASE Inserts(p)
    <3>1. cache'.file = cache.file
      BY <1>1, <2>3 DEF Inserts, Caches
    <3>2. QED
      BY <1>1, <1>8, <2>3, <3>1, Visited DEF FileInv, Inserts
  <2>4. QED
    BY <1>8, <2>1, <2>2, <2>3, Visited
<1>9. CASE OwnDone
  BY <1>1, <1>9 DEF FileInv, OwnDone
<1>10. CASE UserDone
  BY <1>1, <1>10 DEF FileInv, UserDone
<1>11. CASE ReadKaichu
  BY <1>1, <1>11 DEF FileInv, ReadKaichu, Exits
<1>12. CASE LoadTagList \/ load_taglist
  BY <1>1, <1>12, NothingBuilt DEF FileInv, LoadTagList, load_taglist, Exits
<1>13. CASE Reload
  BY <1>1, <1>13, NothingBuilt DEF FileInv, Reload
<1>14. CASE pthread_quit
  BY <1>1, <1>14 DEF FileInv, pthread_quit, Exits
<1>15. CASE Edit
  BY <1>1, <1>15 DEF FileInv, Edit
<1>16. CASE Crash
  BY <1>1, <1>16 DEF FileInv, Crash, Exits
<1>17. CASE UNCHANGED vars
  BY <1>1, <1>17 DEF FileInv, vars
<1>18. QED
  BY <1>2, <1>3, <1>4, <1>5, <1>6, <1>7, <1>8, <1>9, <1>10, <1>11, <1>12, <1>13, <1>14, <1>15,
     <1>16, <1>17
     DEF Next, Program, Visit

(* The rows of the cache do not change, nor those in memory, or they are    *)
(* forgotten or read from the cache.                                        *)
LEMMA StillUniform ==
    ASSUME VersionInv, built' = built,
           cache'.rows \in {cache.rows, {}}, tags' \in {tags, cache.rows, {}}
    PROVE  Uniform(cache.rows)' /\ Uniform(tags)'
BY DEF VersionInv, Uniform

LEMMA VersionStep == IInv /\ [Next]_vars => VersionInv'
<1> SUFFICES ASSUME IInv, [Next]_vars PROVE VersionInv'
  OBVIOUS
<1>1. /\ VersionInv /\ FileInv /\ TypeOK
      /\ cache \in Caches /\ program \in {"collect", "iec103"} /\ built.version \in Versions
  BY DEF IInv, TypeOK, Versioned
<1> USE DEF Building
<1>2. CASE Start
  <2>1. cache' = cache /\ built' = built /\ tags' = {} /\ pc' \in {"open", "kaichu", "read"}
        /\ program' = program /\ (pc' = "read" => program = "iec103")
    BY <1>1, <1>2 DEF Start
  <2>2. Uniform(cache.rows)' /\ Uniform(tags)'
    BY <1>1, <2>1, StillUniform
  <2>3. QED
    BY <1>1, <2>1, <2>2 DEF VersionInv
<1>3. CASE OpenCache
  <2>1. cache'.rows = {} /\ cache'.outputs \notin Versions /\ tags' = {} /\ pc' \in {"outputs", "table"}
    BY <1>1, <1>3, CacheWritten, NothingBuilt DEF OpenCache, FileInv, VersionInv
  <2>2. QED
    BY <2>1 DEF VersionInv, Uniform
<1>4. CASE ReadOutputs
  <2>1. /\ cache' = cache /\ built' = built /\ tags' \in {tags, {}} /\ tags = {} /\ built = sysdb
        /\ pc' = "down" \/ (pc' = "creat" /\ kaichu' = sysdb.version)
    BY <1>1, <1>4 DEF ReadOutputs, Exits, VersionInv, FileInv
  <2>2. Uniform(cache.rows)' /\ Uniform(tags)'
    BY <1>1, <2>1, StillUniform
  <2>3. QED
    BY <1>1, <2>1, <2>2 DEF VersionInv
<1>5. CASE creat_ort3000c_table
  <2>1. /\ built' = built /\ tags' = tags /\ kaichu' = kaichu /\ program' = program
        /\ pc = "creat" /\ pc' = "insert"
        /\ cache'.rows = cache.rows /\ (cache'.outputs \in Versions => cache'.outputs = cache.outputs)
    <3>1. cache'.rows = cache.rows /\ cache'.outputs = IF cache.outputs = NoTable THEN NoRow ELSE cache.outputs
      BY <1>1, <1>5 DEF creat_ort3000c_table, Caches
    <3>2. NoRow \notin Versions
      BY DEF NoRow, Versions
    <3>3. QED
      BY <1>5, <3>1, <3>2 DEF creat_ort3000c_table
  <2>2. Uniform(cache.rows)' /\ Uniform(tags)'
    BY <1>1, <2>1, StillUniform
  <2>3. QED
    BY <1>1, <2>1, <2>2 DEF VersionInv
<1>6. CASE insert_ort3000c_table
  <2>1. /\ built' = built /\ tags' = tags /\ pc' = "table" /\ pc = "insert"
        /\ cache'.rows = cache.rows /\ cache'.outputs = kaichu /\ program = "collect"
    BY <1>1, <1>6 DEF insert_ort3000c_table, FileInv, Caches
  <2>2. kaichu = built.version
    BY <1>1, <2>1 DEF VersionInv
  <2>3. Uniform(cache.rows)' /\ Uniform(tags)'
    BY <1>1, <2>1, StillUniform
  <2>4. QED
    BY <1>1, <2>1, <2>2, <2>3 DEF VersionInv
<1>7. CASE CreateTempModbusTable \/ create_optimized_table
  <2>1. /\ built' = built /\ tags' = tags /\ pc' \in {"own", "user"} /\ pc = "table"
        /\ cache' = [cache EXCEPT !.table = TRUE]
    BY <1>7 DEF CreateTempModbusTable, create_optimized_table
  <2>2. cache'.rows = cache.rows /\ cache'.outputs = cache.outputs
    BY <1>1, <2>1, CacheWritten
  <2>3. Uniform(cache.rows)' /\ Uniform(tags)'
    BY <1>1, <2>1, <2>2, StillUniform
  <2>4. QED
    BY <1>1, <2>1, <2>2, <2>3 DEF VersionInv
<1>8. ASSUME NEW p \in Points, Visit(p) PROVE VersionInv'
  <2>1. /\ pc \in {"own", "user"} /\ built' = built /\ program' = program
        /\ tags = {} /\ built = sysdb
    BY <1>1, <1>8, Visited DEF VersionInv, FileInv
  <2>2. CASE Passes(p) \/ Fails
    <3>1. cache' = cache /\ tags' = {} /\ pc' \in {"own", "user", "down"}
      BY <2>1, <2>2 DEF Passes, Fails
    <3>2. Uniform(cache.rows)' /\ Uniform(tags)'
      BY <1>1, <2>1, <3>1, StillUniform
    <3>3. QED
      BY <1>1, <2>1, <3>1, <3>2 DEF VersionInv
  <2>3. CASE Inserts(p)
    <3>1. /\ cache'.rows = cache.rows \cup {RowOf(p)} /\ cache'.outputs = cache.outputs
          /\ tags' = {} /\ pc' = pc
      BY <1>1, <2>1, <2>3 DEF Inserts, Caches
    <3>2. RowOf(p).point = p /\ RowOf(p).version = built.version
      BY <1>1, <2>1, RowTyped
    <3>3. \A r \in cache.rows : r.point # p
      BY <2>3 DEF Inserts, HasRow
    <3>4. Uniform(cache.rows)
      BY <1>1 DEF VersionInv
    <3>5. Uniform(cache.rows)' /\ Uniform(tags)'
      BY <2>1, <3>1, <3>2, <3>3, <3>4 DEF Uniform
    <3>6. QED
      BY <1>1, <2>1, <3>1, <3>5 DEF VersionInv
  <2>4. QED
    BY <1>8, <2>2, <2>3, Visited
<1>9. CASE OwnDone \/ UserDone \/ Edit \/ UNCHANGED vars
  <2>1. /\ cache' = cache /\ built' = built /\ tags' = tags /\ kaichu' = kaichu /\ program' = program
        /\ pc' = pc \/ (pc \in {"own", "user"} /\ pc' \in {"user", "kaichu", "read"}
                           /\ (pc' = "read" => program # "collect"))
    BY <1>9 DEF OwnDone, UserDone, Edit, vars
  <2>2. Uniform(cache.rows)' /\ Uniform(tags)'
    BY <1>1, <2>1, StillUniform
  <2>3. QED
    BY <1>1, <2>1, <2>2 DEF VersionInv
<1>10. CASE ReadKaichu
  <2>1. /\ cache' = cache /\ built' = built /\ tags' \in {tags, {}} /\ tags = {}
        /\ pc' = "down" \/ (pc' = "read" /\ cache.outputs \in Versions /\ kaichu' = cache.outputs)
    BY <1>1, <1>10 DEF ReadKaichu, Exits, VersionInv
  <2>2. Uniform(cache.rows)' /\ Uniform(tags)'
    BY <1>1, <2>1, StillUniform
  <2>3. QED
    BY <1>1, <2>1, <2>2 DEF VersionInv
<1>11. CASE LoadTagList \/ load_taglist
  <2>1. /\ pc = "read" /\ built' = built /\ kaichu' = kaichu /\ program' = program
        /\ \/ cache' = cache /\ tags' = cache.rows /\ pc' = "up"
           \/ cache' \in {cache, NoCache} /\ tags' = {} /\ pc' = "down"
    BY <1>11 DEF LoadTagList, load_taglist, Exits
  <2>2. Uniform(cache.rows)' /\ Uniform(tags)'
    BY <1>1, <2>1, StillUniform, NothingBuilt
  <2>3. cache'.outputs \in Versions => cache'.outputs = built.version
    BY <1>1, <2>1, NothingBuilt DEF VersionInv
  <2>4. QED
    BY <1>1, <2>1, <2>2, <2>3 DEF VersionInv
<1>12. CASE Reload
  <2>1. /\ pc = "up" /\ pc' = "quit" /\ built' = built /\ kaichu' = kaichu /\ program' = program
        /\ cache' = NoCache /\ tags' = tags
    BY <1>12 DEF Reload
  <2>2. Uniform(cache.rows)' /\ Uniform(tags)'
    BY <1>1, <2>1, StillUniform, NothingBuilt
  <2>3. QED
    BY <1>1, <2>1, <2>2, NothingBuilt DEF VersionInv
<1>13. CASE pthread_quit \/ Crash
  <2>1. pc' = "down" /\ built' = built /\ cache' = cache /\ tags' = {}
    BY <1>13 DEF pthread_quit, Crash, Exits
  <2>2. Uniform(cache.rows)' /\ Uniform(tags)'
    BY <1>1, <2>1, StillUniform
  <2>3. QED
    BY <1>1, <2>1, <2>2 DEF VersionInv
<1>14. QED
  BY <1>2, <1>3, <1>4, <1>5, <1>6, <1>7, <1>8, <1>9, <1>10, <1>11, <1>12, <1>13
     DEF Next, Program, Visit
(* A step after which no loop is under way, nor the program in service. *)
LEMMA NoLoop ==
    ASSUME RowInv, pc' \notin {"own", "user", "up"}, built' = built, program' = program,
           \/ cache' = cache /\ unfinished' = unfinished
           \/ unfinished' \/ ~cache'.file
    PROVE  RowInv'
<1>1. Wanted(built.content)' = Wanted(built.content)
  BY DEF Wanted
<1>2. QED
  BY <1>1 DEF RowInv

LEMMA RowStep == IInv /\ [Next]_vars => RowInv'
<1> SUFFICES ASSUME IInv, [Next]_vars PROVE RowInv'
  OBVIOUS
<1>1. /\ RowInv /\ FileInv /\ TypeOK
      /\ cache \in Caches /\ program \in {"collect", "iec103"}
  BY DEF IInv, TypeOK
<1> USE DEF Building
<1>2. CASE Start
  BY <1>1, <1>2, NoLoop DEF Start
<1>3. CASE OpenCache
  <2>1. unfinished' /\ pc' \in {"outputs", "table"}
    BY <1>3 DEF OpenCache
  <2>2. QED
    BY <2>1 DEF RowInv
<1>4. CASE ReadOutputs
  BY <1>1, <1>4, NoLoop DEF ReadOutputs, Exits
<1>5. CASE creat_ort3000c_table \/ insert_ort3000c_table
  <2>1. unfinished' /\ pc' \in {"insert", "table"} /\ built' = built /\ program' = program
    BY <1>1, <1>5 DEF creat_ort3000c_table, insert_ort3000c_table, FileInv
  <2>2. QED
    BY <1>1, <2>1, NoLoop
<1>6. CASE CreateTempModbusTable
  <2>1. cache' = [cache EXCEPT !.table = TRUE]
    BY <1>6 DEF CreateTempModbusTable
  <2>2. cache'.rows = {}
    BY <1>1, <1>6, <2>1, CacheWritten DEF CreateTempModbusTable, FileInv
  <2>3. unfinished' /\ pc' = "own" /\ todo' = OwnPoints /\ sysdb' = sysdb
    BY <1>1, <1>6 DEF CreateTempModbusTable, FileInv
  <2>4. OwnPoints' = OwnPoints
    BY <2>3 DEF OwnPoints
  <2>5. QED
    BY <2>2, <2>3, <2>4 DEF RowInv, PointsOf
<1>7. CASE create_optimized_table
  <2>1. cache' = [cache EXCEPT !.table = TRUE]
    BY <1>7 DEF create_optimized_table
  <2>2. cache'.rows = {}
    BY <1>1, <1>7, <2>1, CacheWritten DEF create_optimized_table, FileInv
  <2>3. /\ unfinished' /\ pc' = "user" /\ todo' = UserPoints /\ sysdb' = sysdb
        /\ program' = program /\ program = "iec103"
    BY <1>1, <1>7 DEF create_optimized_table, FileInv
  <2>4. UserPoints' = UserPoints /\ Wanted(sysdb.content)' \subseteq UserPoints
    BY <2>3 DEF UserPoints, Wanted
  <2>5. QED
    BY <2>2, <2>3, <2>4 DEF RowInv, PointsOf
<1>8. ASSUME NEW p \in Points, Visit(p) PROVE RowInv'
  <2>1. /\ pc \in {"own", "user"} /\ p \in todo /\ todo' = todo \ {p} /\ unfinished' /\ unfinished
        /\ built' = built /\ sysdb' = sysdb /\ program' = program
    BY <1>1, <1>8, Visited DEF FileInv
  <2>2. /\ OwnPoints' = OwnPoints /\ UserPoints' = UserPoints
        /\ Wanted(sysdb.content)' = Wanted(sysdb.content)
    BY <2>1 DEF OwnPoints, UserPoints, Wanted
  <2>3. CASE Passes(p)
    <3>1. cache' = cache /\ pc' = pc /\ pc = "user" /\ p \notin Wanted(sysdb.content)
      BY <2>3 DEF Passes
    <3>2. QED
      BY <1>1, <2>1, <2>2, <3>1 DEF RowInv
  <2>4. CASE Fails
    BY <1>1, <2>1, <2>4, NoLoop DEF Fails
  <2>5. CASE Inserts(p)
    <3>1. /\ cache'.rows = cache.rows \cup {RowOf(p)} /\ pc' = pc
          /\ pc = "user" => p \in Wanted(sysdb.content)
      BY <1>1, <2>5 DEF Inserts, Caches
    <3>2. RowOf(p).point = p
      BY DEF RowOf
    <3>3. PointsOf(cache'.rows) = PointsOf(cache.rows) \cup {p}
      BY <3>1, <3>2 DEF PointsOf
    <3>4. CASE pc = "own"
      BY <1>1, <2>1, <2>2, <3>1, <3>3, <3>4 DEF RowInv
    <3>5. CASE pc = "user"
      BY <1>1, <2>1, <2>2, <3>1, <3>3, <3>5 DEF RowInv
    <3>6. QED
      BY <2>1, <3>4, <3>5
  <2>6. QED
    BY <1>8, <2>3, <2>4, <2>5, Visited
<1>9. CASE OwnDone
  <2>1. /\ pc = "own" /\ todo = {} /\ pc' = "user" /\ todo' = UserPoints /\ unfinished'
        /\ cache' = cache /\ sysdb' = sysdb /\ program' = program /\ program = "collect"
    BY <1>1, <1>9 DEF OwnDone, FileInv
  <2>2. /\ UserPoints' = UserPoints /\ Wanted(sysdb.content)' = Wanted(sysdb.content)
    BY <2>1 DEF UserPoints, Wanted
  <2>3. Wanted(sysdb.content) \ UserPoints = OwnPoints
    BY <2>1, OwnUserAssumption DEF Wanted, UserPoints, OwnPoints, Points
  <2>4. PointsOf(cache.rows) = OwnPoints
    BY <1>1, <2>1 DEF RowInv
  <2>5. QED
    BY <2>1, <2>2, <2>3, <2>4 DEF RowInv
<1>10. CASE UserDone
  <2>1. /\ pc = "user" /\ todo = {} /\ pc' \in {"kaichu", "read"} /\ built = sysdb
        /\ cache' = cache /\ built' = built /\ program' = program
    BY <1>1, <1>10 DEF UserDone, FileInv
  <2>2. PointsOf(cache.rows) = Wanted(built.content)
    BY <1>1, <2>1 DEF RowInv
  <2>3. Wanted(built.content)' = Wanted(built.content)
    BY <2>1 DEF Wanted
  <2>4. QED
    BY <2>1, <2>2, <2>3 DEF RowInv
<1>11. CASE ReadKaichu
  BY <1>1, <1>11, NoLoop DEF ReadKaichu, Exits
<1>12. CASE LoadTagList \/ load_taglist
  <2>1. /\ built' = built /\ program' = program /\ unfinished' = unfinished
        /\ \/ cache' = cache /\ cache.table /\ tags' = cache.rows /\ pc' = "up"
           \/ cache' \in {cache, NoCache} /\ pc' = "down"
    BY <1>12 DEF LoadTagList, load_taglist, Exits
  <2>2. Wanted(built.content)' = Wanted(built.content)
    BY <2>1 DEF Wanted
  <2>3. cache.table => cache.file
    BY <1>1, NothingBuilt DEF FileInv
  <2>4. CASE pc' = "down"
    BY <1>1, <2>1, <2>4, NoLoop, NothingBuilt
  <2>5. CASE cache' = cache /\ cache.table /\ tags' = cache.rows /\ pc' = "up"
    BY <1>1, <2>1, <2>2, <2>3, <2>5 DEF RowInv
  <2>6. QED
    BY <2>1, <2>4, <2>5
<1>13. CASE Reload
  BY <1>1, <1>13, NoLoop, NothingBuilt DEF Reload
<1>14. CASE pthread_quit \/ Crash
  BY <1>1, <1>14, NoLoop DEF pthread_quit, Crash, Exits
<1>15. CASE Edit \/ UNCHANGED vars
  <2>1. UNCHANGED <<program, sysdb, cache, pc, todo, tags, unfinished, built>>
    BY <1>15 DEF Edit, vars
  <2>2. /\ OwnPoints' = OwnPoints /\ UserPoints' = UserPoints
        /\ Wanted(sysdb.content)' = Wanted(sysdb.content) /\ Wanted(built.content)' = Wanted(built.content)
    BY <2>1 DEF OwnPoints, UserPoints, Wanted
  <2>3. QED
    BY <1>1, <2>1, <2>2 DEF RowInv
<1>16. QED
  BY <1>2, <1>3, <1>4, <1>5, <1>6, <1>7, <1>8, <1>9, <1>10, <1>11, <1>12, <1>13, <1>14, <1>15
     DEF Next, Program, Visit

LEMMA Invariance == Spec => []IInv
<1>1. IInv /\ [Next]_vars => IInv'
  BY TypeStep, FileStep, VersionStep, RowStep DEF IInv
<1>2. QED
  BY <1>1, InitIInv, PTL DEF Spec

(* What the program polls, and the position of its outputs, come from one   *)
(* version of the configuration, and no point has two rows: however often   *)
(* building the cache was cut short, and however often the configuration    *)
(* changed meanwhile.                                                       *)
THEOREM RowsOfOneVersion == Spec => []OneVersion
<1>1. ASSUME IInv, NEW r \in tags
      PROVE  /\ program = "collect" => r.version = kaichu
             /\ \A q \in tags : r.version = q.version /\ (r.point = q.point => r = q)
  <2>1. Uniform(tags)
    BY <1>1 DEF IInv, VersionInv
  <2>2. pc \in {"up", "quit"}
    BY <1>1 DEF IInv, VersionInv
  <2>3. program = "collect" => kaichu = built.version
    BY <1>1, <2>2 DEF IInv, VersionInv
  <2>4. QED
    BY <2>1, <2>3 DEF Uniform
<1>2. IInv => OneVersion
  BY <1>1 DEF OneVersion
<1>3. QED
  BY <1>2, Invariance, PTL

(* A program in service whose cache was built to the end polls every point  *)
(* of that configuration that is its own to poll, and no other.             *)
THEOREM FinishedIsComplete == Spec => []CompleteIfFinished
<1>1. IInv => CompleteIfFinished
  BY DEF IInv, RowInv, CompleteIfFinished, Polled, PointsOf
<1>2. QED
  BY <1>1, Invariance, PTL
-----------------------------------------------------------------------------
(* A set of numbers with the first and, with each but the last, the next.    *)
LEMMA Upwards ==
    ASSUME NEW a \in Nat, NEW b \in Nat, NEW S, a \in S, \A n \in a..b : n \in S /\ n < b => n + 1 \in S
    PROVE  \A n \in a..b : n \in S
<1> DEFINE T == {n \in Nat : a + n <= b /\ a + n \notin S}
<1>1. SUFFICES T = {}
  <2>1. ASSUME NEW n \in a..b, T = {} PROVE n \in S
    <3>1. n - a \in Nat /\ a + (n - a) = n /\ n <= b
      OBVIOUS
    <3>2. n - a \notin T
      BY <2>1
    <3>3. QED
      BY <3>1, <3>2
  <2>2. QED
    BY <2>1
<1>2. SUFFICES ASSUME T # {} PROVE FALSE
  OBVIOUS
<1>3. PICK n \in T : \A y \in T : ~(<<y, n>> \in OpToRel(<, Nat))
  <2>1. T \subseteq Nat
    OBVIOUS
  <2>2. QED
    BY <1>2, <2>1, NatLessThanWellFounded, WFMin
<1>4. n # 0
  OBVIOUS
<1>5. n - 1 \in Nat /\ n - 1 < n
  BY <1>4
<1>6. n - 1 \notin T
  BY <1>3, <1>5 DEF OpToRel
<1>7. a + (n - 1) \in S /\ a + (n - 1) \in a..b /\ a + (n - 1) < b
  BY <1>5, <1>6
<1>8. (a + (n - 1)) + 1 = a + n
  OBVIOUS
<1>9. QED
  BY <1>7, <1>8

(* A set of numbers with the last and, with each but the first, the one before. *)
LEMMA Downwards ==
    ASSUME NEW a \in Nat, NEW b \in Nat, NEW S, a <= b => b \in S, \A n \in a..b : n \in S /\ a < n => n - 1 \in S
    PROVE  \A n \in a..b : n \in S
<1> DEFINE T == {n \in Nat : n <= b - a /\ b - n \notin S}
<1>1. SUFFICES T = {}
  <2>1. \A n \in a..b : b - n \in Nat /\ b - (b - n) = n /\ b - n <= b - a
    OBVIOUS
  <2>2. QED
    BY <2>1
<1>2. SUFFICES ASSUME T # {} PROVE FALSE
  OBVIOUS
<1>3. PICK n \in T : \A y \in T : ~(<<y, n>> \in OpToRel(<, Nat))
  <2>1. T \subseteq Nat
    OBVIOUS
  <2>2. QED
    BY <1>2, <2>1, NatLessThanWellFounded, WFMin
<1>4. n # 0
  OBVIOUS
<1>5. n - 1 \in Nat /\ n - 1 < n
  BY <1>4
<1>6. n - 1 \notin T
  BY <1>3, <1>5 DEF OpToRel
<1>7. b - (n - 1) \in S /\ b - (n - 1) \in a..b /\ a < b - (n - 1)
  BY <1>5, <1>6
<1>8. (b - (n - 1)) - 1 = b - n
  OBVIOUS
<1>9. QED
  BY <1>7, <1>8

(* A set of numbers has a least element.                                      *)
LEMMA LeastOf ==
    ASSUME NEW S \in SUBSET Nat, S # {}
    PROVE  Least(S) \in S /\ \A n \in S : Least(S) <= n
<1>1. PICK n \in S : \A y \in S : ~(<<y, n>> \in OpToRel(<, Nat))
  BY NatLessThanWellFounded, WFMin
<1>2. ASSUME NEW y \in S PROVE n <= y
  <2>1. y \in Nat /\ n \in Nat
    OBVIOUS
  <2>2. ~(y < n)
    BY <1>1, <2>1 DEF OpToRel
  <2>3. QED
    BY <2>1, <2>2
<1>3. \A y \in S : n <= y
  BY <1>2
<1>4. QED
  BY <1>3 DEF Least

(* A least element is the only one. *)
LEMMA LeastIs ==
    ASSUME NEW S \in SUBSET Nat, NEW n \in S, \A y \in S : n <= y
    PROVE  Least(S) = n
<1>1. Least(S) \in S /\ Least(S) <= n /\ n <= Least(S)
  BY LeastOf
<1>2. Least(S) \in Nat /\ n \in Nat
  BY <1>1
<1>3. QED
  BY <1>1, <1>2
-----------------------------------------------------------------------------
Lines == Seq(Line)

(* Where the line that begins at i may end. *)
Lasts(lines, i) == {j \in i..Len(lines) : ~lines[j].more \/ j = Len(lines)}

(* A line ends at the first of its lines that is not continued, or at the last. *)
LEMMA LineEnds ==
    ASSUME NEW lines \in Lines, NEW i \in 1..Len(lines)
    PROVE  /\ EndOfLine(lines, i) \in i..Len(lines)
           /\ EndOfLine(lines, i) \in Lasts(lines, i)
           /\ \A j \in Lasts(lines, i) : EndOfLine(lines, i) <= j
<1>1. Len(lines) \in Nat
  BY DEF Lines
<1>2. Lasts(lines, i) \subseteq Nat /\ Len(lines) \in Lasts(lines, i)
  BY <1>1 DEF Lasts
<1>3. EndOfLine(lines, i) = Least(Lasts(lines, i))
  BY DEF EndOfLine, Lasts
<1>4. EndOfLine(lines, i) \in Lasts(lines, i) /\ \A j \in Lasts(lines, i) : EndOfLine(lines, i) <= j
  BY <1>2, <1>3, LeastOf
<1>5. QED
  BY <1>4 DEF Lasts

(* Two files that are the same from p to q, at a distance of d, where line q *)
(* is not continued.                                                         *)
Same(a, b, p, q, d) ==
    /\ \A i \in p..q : b[i + d] = a[i]
    /\ p <= q => ~a[q].more

(* A line ends at the same place in both.                                     *)
LEMMA SameEnd ==
    ASSUME NEW a \in Lines, NEW b \in Lines, NEW p \in Nat \ {0}, NEW q \in 0..Len(a), NEW d \in Nat,
           q + d <= Len(b), Same(a, b, p, q, d), NEW i \in p..q
    PROVE  EndOfLine(b, i + d) = EndOfLine(a, i) + d /\ EndOfLine(a, i) \in i..q
<1>0. Len(a) \in Nat /\ Len(b) \in Nat
  BY DEF Lines
<1> DEFINE e == EndOfLine(a, i)
           g == EndOfLine(b, i + d)
<1>1. i \in 1..Len(a) /\ i + d \in 1..Len(b) /\ i + d \in Nat /\ i \in Nat /\ q \in i..Len(a)
  BY <1>0
<1>2. e \in i..Len(a) /\ e \in Lasts(a, i) /\ (\A j \in Lasts(a, i) : e <= j)
  BY <1>1, LineEnds
<1>3. q \in Lasts(a, i)
  BY <1>1 DEF Same, Lasts
<1>4. e <= q /\ e \in p..q /\ e \in Nat
  BY <1>0, <1>1, <1>2, <1>3
<1>5. g \in (i + d)..Len(b) /\ g \in Lasts(b, i + d) /\ (\A j \in Lasts(b, i + d) : g <= j)
  BY <1>1, LineEnds
<1>6. ~a[e].more \/ e = Len(a)
  BY <1>2 DEF Lasts
<1>7. ~a[e].more
  <2>1. CASE e = Len(a)
    <3>1. e = q
      BY <2>1, <1>0, <1>4
    <3>2. QED
      BY <3>1, <1>1 DEF Same
  <2>2. QED
    BY <2>1, <1>6
<1>8. e + d \in Lasts(b, i + d)
  <2>1. b[e + d] = a[e]
    BY <1>4 DEF Same
  <2>2. e + d \in (i + d)..Len(b)
    BY <1>0, <1>2, <1>4
  <2>3. QED
    BY <1>7, <2>1, <2>2 DEF Lasts
<1>9. g <= e + d
  BY <1>5, <1>8
<1>10. g - d \in i..q /\ (g - d) + d = g
  BY <1>0, <1>4, <1>5, <1>9
<1>11. g - d \in Lasts(a, i)
  <2>1. b[g] = a[g - d]
    BY <1>10 DEF Same
  <2>2. ~b[g].more \/ g = Len(b)
    BY <1>5 DEF Lasts
  <2>3. CASE ~b[g].more
    BY <2>1, <2>3, <1>10, <1>0 DEF Lasts
  <2>4. CASE g = Len(b)
    <3>1. g - d = q
      BY <2>4, <1>10, <1>0
    <3>2. QED
      BY <3>1, <1>3
  <2>5. QED
    BY <2>2, <2>3, <2>4
<1>12. e <= g - d
  BY <1>2, <1>11
<1>13. QED
  BY <1>0, <1>4, <1>5, <1>9, <1>12
-----------------------------------------------------------------------------
(* One turn of the second loop of ConfigGetKey(); f is what follows.        *)
Turn(lines, key, f, i) ==
    IF i > Len(lines) \/ lines[i].t \in {"section", "open"} THEN NotFound("CFG_KEY_NOT_FOUND")
    ELSE IF lines[i].t = "note" THEN f[i + 1]
    ELSE IF Len(Joined(lines, i)) > MaxText THEN NotFound("CFG_ERR_EXCEED_BUF_SIZE")
    ELSE IF lines[i].t = "text" THEN NotFound("CFG_ERR_FILE_FORMAT")
    ELSE IF lines[i].name # key THEN f[EndOfLine(lines, i) + 1]
    ELSE [ret |-> "CFG_OK", line |-> i,
          count |-> EndOfLine(lines, i) - i + 1, value |-> Joined(lines, i)]

(* A turn of the search asks only for the turns from later lines.             *)
LEMMA TurnLooksAhead ==
    ASSUME NEW lines \in Lines, NEW key, NEW f, NEW h, NEW i \in 1..(Len(lines) + 1),
           \A j \in (i + 1)..(Len(lines) + 1) : f[j] = h[j]
    PROVE  Turn(lines, key, f, i) = Turn(lines, key, h, i)
<1>0. Len(lines) \in Nat
  BY DEF Lines
<1>1. CASE i > Len(lines)
  BY <1>1 DEF Turn
<1>2. CASE ~(i > Len(lines))
  <2>1. i \in 1..Len(lines)
    BY <1>0, <1>2
  <2>2. EndOfLine(lines, i) \in i..Len(lines)
    BY <2>1, LineEnds
  <2>3. i + 1 \in (i + 1)..(Len(lines) + 1) /\ EndOfLine(lines, i) + 1 \in (i + 1)..(Len(lines) + 1)
    BY <1>0, <2>1, <2>2
  <2>4. f[i + 1] = h[i + 1] /\ f[EndOfLine(lines, i) + 1] = h[EndOfLine(lines, i) + 1]
    BY <2>3
  <2>5. QED
    BY <2>4 DEF Turn
<1>3. QED
  BY <1>1, <1>2

(* The search is what its turns make it: the recursion has a solution, built *)
(* from the end of the file.                                                 *)
LEMMA Search ==
    ASSUME NEW lines \in Lines, NEW key, NEW first \in 1..(Len(lines) + 1)
    PROVE  \E f : /\ FindKey(lines, key, first) = f[first]
                  /\ \A i \in first..(Len(lines) + 1) : f[i] = Turn(lines, key, f, i)
<1> DEFINE n == Len(lines) + 1
           F(m, g) == [i \in m..n |-> Turn(lines, key, g, i)]
           S == {m \in first..n : \E g : g = F(m, g)}
<1>0. Len(lines) \in Nat /\ n \in Nat /\ first \in Nat /\ first <= n
  BY DEF Lines
<1>1. n \in S
  <2> DEFINE g == [i \in n..n |-> NotFound("CFG_KEY_NOT_FOUND")]
  <2>1. \A i \in n..n : Turn(lines, key, g, i) = NotFound("CFG_KEY_NOT_FOUND")
    <3>1. \A i \in n..n : i > Len(lines)
      BY <1>0
    <3>2. QED
      BY <3>1 DEF Turn
  <2>2. g = F(n, g)
    BY <2>1
  <2>3. n \in first..n
    BY <1>0
  <2> HIDE DEF F, g, n
  <2>4. QED
    BY <2>2, <2>3
<1>2. ASSUME NEW m \in first..n, m \in S /\ first < m PROVE m - 1 \in S
  <2>1. PICK g : g = F(m, g)
    BY <1>2
  <2> DEFINE h == [i \in (m - 1)..n |-> IF i = m - 1 THEN Turn(lines, key, g, m - 1) ELSE g[i]]
  <2>2. m - 1 \in first..n /\ m - 1 \in 1..n
    BY <1>0, <1>2
  <2>3. \A j \in m..n : h[j] = g[j]
    <3>1. \A j \in m..n : j \in (m - 1)..n /\ j # m - 1
      BY <1>0
    <3>2. QED
      BY <3>1
  <2>4. ASSUME NEW i \in (m - 1)..n PROVE h[i] = Turn(lines, key, h, i)
    <3>1. i \in 1..n /\ (i + 1)..n \subseteq m..n
      BY <1>0, <2>2
    <3>2. Turn(lines, key, h, i) = Turn(lines, key, g, i)
      <4>1. \A j \in (i + 1)..n : h[j] = g[j]
        BY <3>1, <2>3
      <4> HIDE DEF h
      <4>2. QED
        BY <3>1, <4>1, TurnLooksAhead
    <3>3. i # m - 1 => i \in m..n
      BY <1>0
    <3>4. i # m - 1 => g[i] = Turn(lines, key, g, i)
      BY <3>3, <2>1
    <3>5. QED
      BY <3>2, <3>4
  <2>5. h = F(m - 1, h)
    BY <2>4
  <2> HIDE DEF h, F
  <2>6. QED
    BY <2>2, <2>5
<1>3. first \in S
  <2> HIDE DEF S
  <2>1. \A i \in first..n : i \in S
    BY <1>0, <1>1, <1>2, Downwards
  <2>2. QED
    BY <1>0, <2>1
<1>4. PICK g : g = F(first, g)
  BY <1>3
<1> DEFINE f == CHOOSE z : z = F(first, z)
<1>5. f = F(first, f)
  <2> HIDE DEF F
  <2>1. QED
    BY <1>4
<1>6. FindKey(lines, key, first) = f[first]
  BY DEF FindKey, Turn
<1>7. \A i \in first..n : f[i] = Turn(lines, key, f, i)
  <2> HIDE DEF f
  <2>1. QED
    BY <1>5
<1> HIDE DEF f
<1>8. QED
  BY <1>6, <1>7
-----------------------------------------------------------------------------
(* A line has the same text in both.                                          *)
LEMMA SameText ==
    ASSUME NEW a \in Lines, NEW b \in Lines, NEW p \in Nat \ {0}, NEW q \in 0..Len(a), NEW d \in Nat,
           q + d <= Len(b), Same(a, b, p, q, d), NEW i \in p..q
    PROVE  Joined(b, i + d) = Joined(a, i)
<1> DEFINE e == EndOfLine(a, i)
           s == SubSeq(a, i, e)
           t == SubSeq(b, i + d, e + d)
<1>0. Len(a) \in Nat /\ Len(b) \in Nat
  BY DEF Lines
<1>1. EndOfLine(b, i + d) = e + d /\ e \in i..q
  BY SameEnd
<1> HIDE DEF e
<1>2. i \in 1..Len(a) /\ e \in i..Len(a) /\ i + d \in 1..Len(b) /\ e + d \in (i + d)..Len(b)
  BY <1>0, <1>1
<1>3. Len(s) = e - i + 1 /\ Len(t) = e - i + 1 /\ s \in Seq(Line) /\ t \in Seq(Line)
  BY <1>0, <1>2 DEF Lines
<1>4. \A n \in 1..(e - i + 1) : s[n] = a[i + n - 1]
  BY <1>0, <1>2 DEF Lines
<1>5. \A n \in 1..(e - i + 1) : t[n] = b[i + d + n - 1]
  BY <1>0, <1>2 DEF Lines
<1>6. \A n \in 1..(e - i + 1) : i + n - 1 \in p..q /\ i + d + n - 1 = (i + n - 1) + d
  BY <1>0, <1>1
<1>7. \A n \in 1..(e - i + 1) : s[n] = t[n]
  BY <1>4, <1>5, <1>6 DEF Same
<1>8. s = t
  <2> HIDE DEF s, t
  <2>1. s = [n \in 1..Len(s) |-> s[n]] /\ t = [n \in 1..Len(t) |-> t[n]]
    BY <1>3
  <2>2. QED
    BY <1>3, <1>7, <2>1
<1> HIDE DEF s, t
<1>9. Joined(a, i) = TextOf(s)
  BY DEF Joined, s, e
<1>10. Joined(b, i + d) = TextOf(t)
  BY <1>1 DEF Joined, t, e
<1>11. QED
  BY <1>8, <1>9, <1>10

(* What a program sees of the answer of ConfigGetKey(). *)
Alike(x, y) == x.ret = y.ret /\ x.value = y.value

(* f and h are searches of a key in the two files. *)
Searches(a, b, p, q, d, key, f, h) ==
    /\ \A i \in p..q : f[i] = Turn(a, key, f, i)
    /\ \A i \in p..q : h[i + d] = Turn(b, key, h, i + d)

(* Where two files are the same up to a place where the searches end alike,  *)
(* the searches of a key end alike from every line before it.                *)
LEMMA SameSearch ==
    ASSUME NEW a \in Lines, NEW b \in Lines, NEW p \in Nat \ {0}, NEW q \in 0..Len(a), NEW d \in Nat,
           q + d <= Len(b), p <= q + 1, Same(a, b, p, q, d), NEW key, NEW f, NEW h,
           Searches(a, b, p, q, d, key, f, h),
           Alike(f[q + 1], h[q + 1 + d])
    PROVE  \A i \in p..(q + 1) : Alike(f[i], h[i + d])
<1> DEFINE S == {i \in p..(q + 1) : Alike(f[i], h[i + d])}
<1>0. Len(a) \in Nat /\ Len(b) \in Nat /\ q + 1 \in Nat /\ p \in Nat
  BY DEF Lines
<1>1. q + 1 \in S
  BY <1>0
<1>a. ASSUME NEW m \in p..q, \A j \in (m + 1)..(q + 1) : Alike(f[j], h[j + d])
      PROVE  Alike(f[m], h[m + d])
  <2>1. f[m] = Turn(a, key, f, m) /\ h[m + d] = Turn(b, key, h, m + d) /\ b[m + d] = a[m]
    BY DEF Same, Searches
  <2>2. EndOfLine(b, m + d) = EndOfLine(a, m) + d /\ EndOfLine(a, m) \in m..q
    BY SameEnd
  <2>3. Joined(b, m + d) = Joined(a, m)
    BY SameText
  <2>4. ~(m > Len(a)) /\ ~(m + d > Len(b))
    BY <1>0
  <2>5. m + 1 \in (m + 1)..(q + 1) /\ EndOfLine(a, m) + 1 \in (m + 1)..(q + 1)
    BY <1>0, <2>2
  <2>6. Alike(f[m + 1], h[m + 1 + d]) /\ Alike(f[EndOfLine(a, m) + 1], h[EndOfLine(a, m) + 1 + d])
    BY <2>5, <1>a
  <2>7. m + 1 + d = m + d + 1 /\ EndOfLine(a, m) + 1 + d = EndOfLine(b, m + d) + 1
    BY <1>0, <2>2
  <2> DEFINE x == h[m + d + 1]
             y == h[EndOfLine(b, m + d) + 1]
             u == f[m + 1]
             v == f[EndOfLine(a, m) + 1]
  <2>8. Alike(u, x) /\ Alike(v, y)
    BY <2>6, <2>7
  <2>9. f[m] = (IF a[m].t \in {"section", "open"} THEN NotFound("CFG_KEY_NOT_FOUND")
                ELSE IF a[m].t = "note" THEN u
                ELSE IF Len(Joined(a, m)) > MaxText THEN NotFound("CFG_ERR_EXCEED_BUF_SIZE")
                ELSE IF a[m].t = "text" THEN NotFound("CFG_ERR_FILE_FORMAT")
                ELSE IF a[m].name # key THEN v
                ELSE [ret |-> "CFG_OK", line |-> m,
                      count |-> EndOfLine(a, m) - m + 1, value |-> Joined(a, m)])
    BY <2>1, <2>4 DEF Turn
  <2>10. h[m + d] = (IF a[m].t \in {"section", "open"} THEN NotFound("CFG_KEY_NOT_FOUND")
                ELSE IF a[m].t = "note" THEN x
                ELSE IF Len(Joined(a, m)) > MaxText THEN NotFound("CFG_ERR_EXCEED_BUF_SIZE")
                ELSE IF a[m].t = "text" THEN NotFound("CFG_ERR_FILE_FORMAT")
                ELSE IF a[m].name # key THEN y
                ELSE [ret |-> "CFG_OK", line |-> m + d,
                      count |-> EndOfLine(b, m + d) - (m + d) + 1, value |-> Joined(a, m)])
    BY <2>1, <2>3, <2>4 DEF Turn
  <2> HIDE DEF x, y, u, v
  <2>11. QED
    BY <2>8, <2>9, <2>10 DEF Alike
<1>b. ASSUME NEW m \in p..(q + 1), \A j \in m..(q + 1) : Alike(f[j], h[j + d]), p < m
      PROVE  \A j \in (m - 1)..(q + 1) : Alike(f[j], h[j + d])
  <2>1. m - 1 \in p..q /\ (m - 1) + 1 = m
    BY <1>0, <1>b
  <2>2. Alike(f[m - 1], h[(m - 1) + d])
    BY <2>1, <1>a, <1>b
  <2>3. \A j \in (m - 1)..(q + 1) : j = m - 1 \/ j \in m..(q + 1)
    BY <1>0
  <2>4. QED
    BY <2>2, <2>3, <1>b
<1> DEFINE T == {m \in p..(q + 1) : \A j \in m..(q + 1) : Alike(f[j], h[j + d])}
<1>2. q + 1 \in T
  <2>1. \A j \in (q + 1)..(q + 1) : j = q + 1
    BY <1>0
  <2>2. QED
    BY <1>0, <2>1
<1>3. \A m \in p..(q + 1) : m \in T /\ p < m => m - 1 \in T
  <2>1. \A m \in p..(q + 1) : p < m => m - 1 \in p..(q + 1)
    BY <1>0
  <2>2. QED
    BY <2>1, <1>b
<1>4. \A m \in p..(q + 1) : m \in T
  <2> HIDE DEF T
  <2>1. QED
    BY <1>0, <1>2, <1>3, Downwards
<1>5. \A m \in p..(q + 1) : m \in m..(q + 1)
  BY <1>0
<1>6. QED
  BY <1>4, <1>5
-----------------------------------------------------------------------------
(* A search that finds no value takes no lines away.                         *)
KeyAnswers == {"CFG_OK", "CFG_KEY_NOT_FOUND", "CFG_ERR_EXCEED_BUF_SIZE", "CFG_ERR_FILE_FORMAT"}

(* What the search for a key can return, and where it finds one.              *)
LEMMA Answers ==
    ASSUME NEW lines \in Lines, NEW key, NEW first \in 1..(Len(lines) + 1)
    PROVE  /\ FindKey(lines, key, first).ret \in KeyAnswers
           /\ FindKey(lines, key, first).ret # "CFG_OK" => FindKey(lines, key, first).count = 0
<1> DEFINE n == Len(lines) + 1
<1>0. Len(lines) \in Nat /\ n \in Nat /\ first \in Nat /\ first <= n
  BY DEF Lines
<1>1. PICK f : /\ FindKey(lines, key, first) = f[first]
              /\ \A i \in first..n : f[i] = Turn(lines, key, f, i)
  BY Search
<1> DEFINE Fair(i) == f[i].ret \in KeyAnswers /\ (f[i].ret # "CFG_OK" => f[i].count = 0)
           T == {m \in first..n : \A i \in m..n : Fair(i)}
<1>2. Fair(n)
  <2>1. n \in first..n /\ n > Len(lines)
    BY <1>0
  <2> HIDE DEF n
  <2>2. f[n] = NotFound("CFG_KEY_NOT_FOUND")
    BY <2>1, <1>1 DEF Turn
  <2>3. QED
    BY <2>2 DEF NotFound, KeyAnswers
<1>3. n \in T
  <2>1. \A i \in n..n : i = n
    BY <1>0
  <2>2. QED
    BY <1>0, <1>2, <2>1
<1>4. ASSUME NEW m \in first..n, m \in T /\ first < m PROVE m - 1 \in T
  <2> DEFINE i == m - 1
  <2>1. i \in first..n /\ i \in 1..Len(lines) /\ \A j \in i..n : j = i \/ j \in m..n
    BY <1>0, <1>4
  <2>2. EndOfLine(lines, i) \in i..Len(lines)
    BY <2>1, LineEnds
  <2>3. i + 1 \in m..n /\ EndOfLine(lines, i) + 1 \in m..n
    BY <1>0, <2>1, <2>2
  <2>4. Fair(i + 1) /\ Fair(EndOfLine(lines, i) + 1)
    BY <2>3, <1>4
  <2>5. f[i] = Turn(lines, key, f, i)
    BY <2>1, <1>1
  <2> HIDE DEF i
  <2>6. Fair(i)
    <3>1. \/ f[i].ret = "CFG_OK" \/ \E r \in KeyAnswers : f[i] = NotFound(r)
          \/ f[i] = f[i + 1] \/ f[i] = f[EndOfLine(lines, i) + 1]
      BY <2>5 DEF Turn, KeyAnswers
    <3>2. \A r : NotFound(r).count = 0 /\ NotFound(r).ret = r
      BY DEF NotFound
    <3>3. QED
      BY <3>1, <3>2, <2>4 DEF KeyAnswers
  <2> HIDE DEF Fair
  <2>7. QED
    BY <2>1, <2>6, <1>4 DEF i
<1>5. \A m \in first..n : m \in T
  <2> HIDE DEF T
  <2>1. QED
    BY <1>0, <1>3, <1>4, Downwards
<1>6. first \in T /\ first \in first..n
  BY <1>0, <1>5
<1>7. QED
  BY <1>1, <1>6

(* The text of a line that nothing continues. *)
LEMMA TextOfOne ==
    ASSUME NEW line \in Line
    PROVE  TextOf(<<line>>) = line.text
<1> DEFINE s == <<line>>
           F(g) == [j \in 1..Len(s) |-> IF j = 1 THEN s[1].text ELSE g[j - 1] \o Raw(s[j])]
           z == [j \in 1..1 |-> line.text]
           f == CHOOSE g : g = F(g)
<1>1. Len(s) = 1 /\ s[1] = line
  OBVIOUS
<1>2. z = F(z)
  <2>1. \A j \in 1..1 : j = 1
    OBVIOUS
  <2> HIDE DEF s
  <2>2. QED
    BY <1>1, <2>1
<1>3. TextOf(s) = f[Len(s)]
  BY DEF TextOf
<1>4. f = F(f)
  <2> HIDE DEF F, z
  <2>1. QED
    BY <1>2
<1> HIDE DEF f, s
<1>5. f[1] = line.text
  BY <1>1, <1>4
<1>6. TextOf(s) = line.text
  BY <1>1, <1>3, <1>5
<1>7. QED
  BY <1>6 DEF s

(* A key with its value on a line of its own. *)
LEMMA OneLine ==
    ASSUME NEW lines \in Lines, NEW i \in 1..Len(lines), ~lines[i].more
    PROVE  EndOfLine(lines, i) = i /\ Joined(lines, i) = lines[i].text
<1>0. Len(lines) \in Nat /\ i \in Nat /\ lines[i] \in Line
  BY DEF Lines
<1>1. i \in Lasts(lines, i) /\ Lasts(lines, i) \subseteq i..Len(lines)
  BY <1>0 DEF Lasts
<1>2. EndOfLine(lines, i) <= i /\ EndOfLine(lines, i) \in i..Len(lines)
  BY <1>1, LineEnds
<1>3. EndOfLine(lines, i) = i
  BY <1>0, <1>2
<1>4. SubSeq(lines, i, i) = <<lines[i]>>
  <2> DEFINE u == SubSeq(lines, i, i)
  <2>1. u \in Seq(Line) /\ Len(u) = 1 /\ u[1] = lines[i]
    BY <1>0 DEF Lines
  <2> HIDE DEF u
  <2>2. u = <<u[1]>>
    BY <2>1
  <2>3. QED
    BY <2>1, <2>2 DEF u
<1>5. QED
  BY <1>0, <1>3, <1>4, TextOfOne DEF Joined
-----------------------------------------------------------------------------
(* Where the search of a section ends. *)
Stops(line, section) == line.t = "open" \/ (line.t = "section" /\ line.name = section)

(* The search for a section, when nothing stops it ...                        *)
LEMMA SectionNone ==
    ASSUME NEW lines \in Lines, NEW section, \A i \in 1..Len(lines) : ~Stops(lines[i], section)
    PROVE  FindSection(lines, section) = [ret |-> "CFG_SECTION_NOT_FOUND", line |-> 0]
<1>1. DOMAIN lines = 1..Len(lines)
  BY DEF Lines
<1>2. {i \in DOMAIN lines : lines[i].t = "open" \/ (lines[i].t = "section" /\ lines[i].name = section)} = {}
  BY <1>1 DEF Stops
<1>3. QED
  BY <1>2 DEF FindSection

(* ... and when line i is the first that does.                                *)
LEMMA SectionStops ==
    ASSUME NEW lines \in Lines, NEW section, NEW i \in 1..Len(lines), Stops(lines[i], section),
           \A j \in 1..(i - 1) : ~Stops(lines[j], section)
    PROVE  FindSection(lines, section) = IF lines[i].t = "open" THEN [ret |-> "CFG_ERR_FILE_FORMAT", line |-> 0]
                                         ELSE [ret |-> "CFG_OK", line |-> i]
<1> DEFINE S == {j \in DOMAIN lines : lines[j].t = "open" \/ (lines[j].t = "section" /\ lines[j].name = section)}
<1>1. DOMAIN lines = 1..Len(lines) /\ Len(lines) \in Nat
  BY DEF Lines
<1>2. S \subseteq Nat /\ i \in S
  BY <1>1 DEF Stops
<1>3. ASSUME NEW j \in S PROVE i <= j
  <2>1. j \in 1..Len(lines) /\ Stops(lines[j], section)
    BY <1>1 DEF Stops
  <2>2. j \notin 1..(i - 1)
    BY <2>1
  <2>3. QED
    BY <1>1, <2>1, <2>2
<1>4. Least(S) = i
  <2> HIDE DEF S
  <2>1. QED
    BY <1>2, <1>3, LeastIs
<1>5. QED
  BY <1>2, <1>4 DEF FindSection

(* One of the two it is.                                                      *)
LEMMA SectionSearch ==
    ASSUME NEW lines \in Lines, NEW section
    PROVE  \/ /\ \A i \in 1..Len(lines) : ~Stops(lines[i], section)
              /\ FindSection(lines, section).ret = "CFG_SECTION_NOT_FOUND"
           \/ \E i \in 1..Len(lines) :
                 /\ Stops(lines[i], section) /\ \A j \in 1..(i - 1) : ~Stops(lines[j], section)
                 /\ FindSection(lines, section) =
                       IF lines[i].t = "open" THEN [ret |-> "CFG_ERR_FILE_FORMAT", line |-> 0]
                       ELSE [ret |-> "CFG_OK", line |-> i]
<1> DEFINE S == {j \in 1..Len(lines) : Stops(lines[j], section)}
<1>0. Len(lines) \in Nat
  BY DEF Lines
<1>1. CASE S = {}
  BY <1>1, SectionNone
<1>2. CASE S # {}
  <2>1. S \subseteq Nat
    OBVIOUS
  <2>2. Least(S) \in S /\ \A n \in S : Least(S) <= n
    BY <1>2, <2>1, LeastOf
  <2>3. PICK i \in S : \A n \in S : i <= n
    BY <2>2
  <2>4. i \in 1..Len(lines) /\ Stops(lines[i], section)
    OBVIOUS
  <2>5. \A j \in 1..(i - 1) : ~Stops(lines[j], section)
    <3>1. ASSUME NEW j \in 1..(i - 1), Stops(lines[j], section) PROVE FALSE
      <4>1. j \in 1..Len(lines) /\ ~(i <= j)
        BY <1>0, <2>4
      <4>2. QED
        BY <2>3, <3>1, <4>1
    <3>2. QED
      BY <3>1
  <2>6. QED
    BY <2>4, <2>5, SectionStops
<1>3. QED
  BY <1>1, <1>2
-----------------------------------------------------------------------------
(* Where the lines of a section end. *)
Over(lines, i) == i > Len(lines) \/ lines[i].t = "section"

(* The same lines, with a header or nothing behind them, give the same answer. *)
LEMMA SameAnswer ==
    ASSUME NEW a \in Lines, NEW b \in Lines, NEW p \in Nat \ {0}, NEW q \in 0..Len(a), NEW d \in Nat,
           q + d <= Len(b), p <= q + 1, Same(a, b, p, q, d), NEW key,
           Over(a, q + 1), Over(b, q + 1 + d)
    PROVE  Alike(FindKey(a, key, p), FindKey(b, key, p + d))
<1>0. /\ Len(a) \in Nat /\ Len(b) \in Nat
      /\ p \in 1..(Len(a) + 1) /\ p + d \in 1..(Len(b) + 1)
      /\ p \in p..(q + 1)
  BY DEF Lines
<1>1. PICK f : /\ FindKey(a, key, p) = f[p]
              /\ \A i \in p..(Len(a) + 1) : f[i] = Turn(a, key, f, i)
  BY <1>0, Search
<1>2. PICK h : /\ FindKey(b, key, p + d) = h[p + d]
              /\ \A i \in (p + d)..(Len(b) + 1) : h[i] = Turn(b, key, h, i)
  BY <1>0, Search
<1>3. \A i \in p..(q + 1) : i \in p..(Len(a) + 1) /\ i + d \in (p + d)..(Len(b) + 1)
  BY <1>0
<1>4. \A i \in p..(q + 1) : f[i] = Turn(a, key, f, i) /\ h[i + d] = Turn(b, key, h, i + d)
  BY <1>1, <1>2, <1>3
<1>5. q + 1 \in p..(q + 1) /\ \A i \in p..q : i \in p..(q + 1)
  BY <1>0
<1>6. f[q + 1] = NotFound("CFG_KEY_NOT_FOUND") /\ h[q + 1 + d] = NotFound("CFG_KEY_NOT_FOUND")
  <2>1. f[q + 1] = Turn(a, key, f, q + 1) /\ h[q + 1 + d] = Turn(b, key, h, q + 1 + d)
    BY <1>4, <1>5
  <2>2. QED
    BY <2>1 DEF Over, Turn
<1>7. Alike(f[q + 1], h[q + 1 + d])
  BY <1>6 DEF Alike
<1>8. \A i \in p..(q + 1) : Alike(f[i], h[i + d])
  <2>1. \A i \in p..q : f[i] = Turn(a, key, f, i)
    BY <1>4, <1>5
  <2>2. \A i \in p..q : h[i + d] = Turn(b, key, h, i + d)
    BY <1>4, <1>5
  <2>3. Searches(a, b, p, q, d, key, f, h)
    BY <2>1, <2>2 DEF Searches
  <2>4. QED
    BY <1>7, <2>3, SameSearch
<1>9. QED
  BY <1>0, <1>1, <1>2, <1>8

(* A key that is not asked for is passed over. *)
LEMMA PassedOver ==
    ASSUME NEW b \in Lines, NEW i \in 1..Len(b), NEW key, b[i].t = "key", b[i].name # key, ~b[i].more,
           Len(b[i].text) <= MaxText, ~b[Len(b)].more
    PROVE  Alike(FindKey(b, key, i), FindKey(b, key, i + 1))
<1>0. Len(b) \in Nat /\ i \in Nat /\ i + 1 \in 1..(Len(b) + 1) /\ i \in 1..(Len(b) + 1) /\ i + 1 \in Nat \ {0}
  BY DEF Lines
<1>1. PICK f : /\ FindKey(b, key, i) = f[i]
              /\ \A j \in i..(Len(b) + 1) : f[j] = Turn(b, key, f, j)
  BY <1>0, Search
<1>2. PICK h : /\ FindKey(b, key, i + 1) = h[i + 1]
              /\ \A j \in (i + 1)..(Len(b) + 1) : h[j] = Turn(b, key, h, j)
  BY <1>0, Search
<1>3. f[i] = f[i + 1]
  <2>1. EndOfLine(b, i) = i /\ Joined(b, i) = b[i].text
    BY OneLine
  <2>2. f[i] = Turn(b, key, f, i) /\ ~(i > Len(b))
    BY <1>0, <1>1
  <2>3. ~(Len(Joined(b, i)) > MaxText)
    <3>1. Len(b[i].text) \in Nat /\ MaxText \in Nat
      <4>1. b[i] \in Line
        BY DEF Lines
      <4>2. QED
        BY <4>1, MaxTextAssumption DEF Line
    <3>2. QED
      BY <2>1, <3>1
  <2>4. QED
    BY <2>1, <2>2, <2>3 DEF Turn
<1>4. \A j \in (i + 1)..(Len(b) + 1) : f[j] = Turn(b, key, f, j) /\ h[j] = Turn(b, key, h, j)
  BY <1>0, <1>1, <1>2
<1>5. f[Len(b) + 1] = h[Len(b) + 1]
  <2>1. Len(b) + 1 \in (i + 1)..(Len(b) + 1) /\ Len(b) + 1 > Len(b)
    BY <1>0
  <2>2. QED
    BY <1>4, <2>1 DEF Turn
<1>6. \A j \in (i + 1)..(Len(b) + 1) : Alike(f[j], h[j + 0])
  <2>1. Same(b, b, i + 1, Len(b), 0)
    <3>1. \A j \in (i + 1)..Len(b) : j + 0 = j
      BY <1>0
    <3>2. QED
      BY <3>1 DEF Same
  <2>a. \A j \in (i + 1)..Len(b) : j \in (i + 1)..(Len(b) + 1) /\ j + 0 = j
    BY <1>0
  <2>b. \A j \in (i + 1)..Len(b) : f[j] = Turn(b, key, f, j)
    BY <2>a, <1>4
  <2>2. \A j \in (i + 1)..Len(b) : h[j + 0] = Turn(b, key, h, j + 0)
    BY <2>a, <1>4
  <2>3. Alike(f[Len(b) + 1], h[Len(b) + 1 + 0])
    BY <1>0, <1>5 DEF Alike
  <2>4. Len(b) \in 0..Len(b) /\ Len(b) + 0 <= Len(b) /\ i + 1 <= Len(b) + 1 /\ 0 \in Nat
    BY <1>0
  <2>5. Searches(b, b, i + 1, Len(b), 0, key, f, h)
    BY <2>b, <2>2 DEF Searches
  <2>6. QED
    BY <1>0, <2>1, <2>3, <2>4, <2>5, SameSearch
<1>7. i + 1 \in (i + 1)..(Len(b) + 1) /\ i + 1 + 0 = i + 1
  BY <1>0
<1>8. QED
  BY <1>1, <1>2, <1>3, <1>6, <1>7 DEF Alike

(* The search begins at the key.                                              *)
LEMMA KeyFound ==
    ASSUME NEW b \in Lines, NEW i \in 1..Len(b), NEW key, b[i].t = "key", b[i].name = key, ~b[i].more,
           Len(b[i].text) <= MaxText
    PROVE  FindKey(b, key, i).ret = "CFG_OK" /\ FindKey(b, key, i).value = b[i].text
<1>0. Len(b) \in Nat /\ i \in Nat /\ i \in 1..(Len(b) + 1) /\ i \in i..(Len(b) + 1)
  BY DEF Lines
<1>1. PICK f : /\ FindKey(b, key, i) = f[i]
              /\ \A j \in i..(Len(b) + 1) : f[j] = Turn(b, key, f, j)
  BY <1>0, Search
<1>2. EndOfLine(b, i) = i /\ Joined(b, i) = b[i].text
  BY OneLine
<1>3. f[i] = Turn(b, key, f, i) /\ ~(i > Len(b))
  BY <1>0, <1>1
<1>4. ~(Len(Joined(b, i)) > MaxText)
  <2>1. b[i] \in Line
    BY DEF Lines
  <2>2. Len(b[i].text) \in Nat /\ MaxText \in Nat
    BY <2>1, MaxTextAssumption DEF Line
  <2>3. QED
    BY <1>2, <2>2
<1>5. QED
  BY <1>1, <1>2, <1>3, <1>4 DEF Turn
-----------------------------------------------------------------------------
(* The answer for a file that can be opened. *)
Asked(lines, section, key) ==
    LET s == FindSection(lines, section)
    IN  IF s.ret # "CFG_OK" THEN NotFound(s.ret) ELSE FindKey(lines, key, s.line + 1)

Lacks(ret) == Appends(ret) \/ Rewrites(ret)

(* Two answers that say the same: a value, or nothing, or that the file      *)
(* cannot be understood.                                                     *)
SaysSame(g, h) ==
    /\ g.ret = "CFG_OK" <=> h.ret = "CFG_OK"
    /\ g.ret = "CFG_OK" => g.value = h.value
    /\ Lacks(g.ret) <=> Lacks(h.ret)

(* No line of a section is torn. *)
Untorn(lines) ==
    \A i \in 1..Len(lines) : lines[i].more => i < Len(lines) /\ lines[i + 1].t # "section"

(* Equal answers say the same.                                                *)
LEMMA AlikeSays == \A g, h : Alike(g, h) => SaysSame(g, h)
BY DEF Alike, SaysSame

(* The search begins at a header or behind the last line.                     *)
LEMMA NoKeyHere ==
    ASSUME NEW b \in Lines, NEW key, NEW i \in 1..(Len(b) + 1), Over(b, i)
    PROVE  FindKey(b, key, i).ret = "CFG_KEY_NOT_FOUND"
<1>0. i \in i..(Len(b) + 1)
  BY DEF Lines
<1>1. PICK f : /\ FindKey(b, key, i) = f[i]
              /\ \A j \in i..(Len(b) + 1) : f[j] = Turn(b, key, f, j)
  BY Search
<1>2. f[i] = Turn(b, key, f, i)
  BY <1>0, <1>1
<1>3. QED
  BY <1>1, <1>2 DEF Over, Turn, NotFound

(* Append2() on a file that ends properly. *)
LEMMA Appended ==
    ASSUME NEW a \in Lines, NEW section \in Words, NEW key \in Words, NEW value \in Seq(Words)
    PROVE  LET b == a \o <<Section(section)>> \o <<KeyLine(key, value)>>
               n == Len(a)
           IN  /\ b \in Lines /\ Len(b) = n + 2
               /\ \A i \in 1..n : b[i] = a[i]
               /\ b[n + 1] = Section(section) /\ b[n + 2] = KeyLine(key, value)
<1>1. Section(section) \in Line /\ KeyLine(key, value) \in Line
  <2>1. <<>> \in Seq(Words)
    OBVIOUS
  <2>2. QED
    BY <2>1 DEF Section, KeyLine, Line
<1> DEFINE x == Section(section)
           y == KeyLine(key, value)
<1>2. x \in Line /\ y \in Line
  BY <1>1
<1> HIDE DEF x, y
<1>3. LET b == a \o <<x>> \o <<y>>
          n == Len(a)
      IN  /\ b \in Lines /\ Len(b) = n + 2
          /\ \A i \in 1..n : b[i] = a[i]
          /\ b[n + 1] = x /\ b[n + 2] = y
  BY <1>2 DEF Lines
<1>4. QED
  BY <1>3 DEF x, y

(* A section and its key behind the last line: what ConfigGetKey() answers then, *)
(* for this key and for every other.                                             *)
LEMMA AppendedSays ==
    ASSUME NEW a \in Lines, NEW section \in Words, NEW key \in Words, NEW value \in Seq(Words),
           Untorn(a), \A i \in 1..Len(a) : ~Stops(a[i], section), Len(value) <= MaxText
    PROVE  LET b == a \o <<Section(section)>> \o <<KeyLine(key, value)>>
           IN  /\ Untorn(b)
               /\ Asked(b, section, key).ret = "CFG_OK" /\ Asked(b, section, key).value = value
               /\ \A other, name : other # section \/ name # key =>
                     SaysSame(Asked(a, other, name), Asked(b, other, name))
<1> DEFINE b == a \o <<Section(section)>> \o <<KeyLine(key, value)>>
           n == Len(a)
<1>1. /\ b \in Lines /\ Len(b) = n + 2
      /\ \A i \in 1..n : b[i] = a[i]
      /\ b[n + 1] = Section(section) /\ b[n + 2] = KeyLine(key, value)
  BY Appended
<1> HIDE DEF b
<1>2. n \in Nat /\ n + 1 \in 1..Len(b) /\ n + 2 \in 1..Len(b) /\ n + 3 = Len(b) + 1
  BY <1>1 DEF Lines
<1>3. b[n + 1].t = "section" /\ b[n + 1].name = section /\ ~b[n + 1].more
  BY <1>1 DEF Section
<1>4. b[n + 2].t = "key" /\ b[n + 2].name = key /\ ~b[n + 2].more /\ b[n + 2].text = value
  BY <1>1 DEF KeyLine
<1>5. \A i \in 1..Len(b) : i \in 1..n \/ i = n + 1 \/ i = n + 2
  BY <1>1, <1>2
<1>6. Untorn(b)
  <2>1. ASSUME NEW i \in 1..n, b[i].more PROVE i < n + 2 /\ b[i + 1].t # "section"
    <3>1. i < n /\ a[i + 1].t # "section"
      BY <2>1, <1>1 DEF Untorn
    <3>2. i + 1 \in 1..n
      BY <3>1, <1>2
    <3>3. QED
      BY <3>1, <3>2, <1>1
  <2>2. QED
    BY <2>1, <1>1, <1>3, <1>4, <1>5 DEF Untorn
<1>7. FindSection(b, section) = [ret |-> "CFG_OK", line |-> n + 1]
  <2>1. \A j \in 1..(n + 1 - 1) : ~Stops(b[j], section)
    <3>1. n + 1 - 1 = n
      BY <1>2
    <3>2. QED
      BY <1>1, <3>1
  <2>2. Stops(b[n + 1], section)
    BY <1>3 DEF Stops
  <2>3. QED
    BY <1>1, <1>2, <1>3, <2>1, <2>2, SectionStops
<1>8. Asked(b, section, key).ret = "CFG_OK" /\ Asked(b, section, key).value = value
  <2>1. FindKey(b, key, n + 2).ret = "CFG_OK" /\ FindKey(b, key, n + 2).value = value
    BY <1>1, <1>2, <1>4, KeyFound
  <2>2. Asked(b, section, key) = FindKey(b, key, n + 2)
    BY <1>2, <1>7 DEF Asked
  <2>3. QED
    BY <2>1, <2>2
<1>9. ASSUME NEW other, NEW name, other # section \/ name # key
      PROVE  SaysSame(Asked(a, other, name), Asked(b, other, name))
  <2>1. CASE \A i \in 1..n : ~Stops(a[i], other)
    <3>1. FindSection(a, other) = [ret |-> "CFG_SECTION_NOT_FOUND", line |-> 0]
      BY <2>1, SectionNone
    <3>2. Asked(a, other, name).ret = "CFG_SECTION_NOT_FOUND"
      BY <3>1 DEF Asked, NotFound
    <3>3. CASE other = section
      <4>1. Asked(b, other, name) = FindKey(b, name, n + 2)
        BY <1>2, <1>7, <3>3 DEF Asked
      <4>2. Alike(FindKey(b, name, n + 2), FindKey(b, name, n + 3))
        <5>1. b[n + 2].name # name
          BY <1>4, <3>3, <1>9
        <5>2. Len(b[n + 2].text) <= MaxText /\ Len(b) = n + 2 /\ n + 2 + 1 = n + 3
          BY <1>1, <1>2, <1>4
        <5>3. ~b[Len(b)].more
          BY <1>1, <1>4
        <5>4. Alike(FindKey(b, name, n + 2), FindKey(b, name, n + 2 + 1))
          BY <5>1, <5>2, <5>3, <1>1, <1>2, <1>4, PassedOver
        <5>5. QED
          BY <5>2, <5>4
      <4>3. FindKey(b, name, n + 3).ret = "CFG_KEY_NOT_FOUND"
        <5>1. Over(b, n + 3) /\ n + 3 \in 1..(Len(b) + 1)
          BY <1>1, <1>2 DEF Over
        <5>2. QED
          BY <5>1, <1>1, NoKeyHere
      <4>4. QED
        BY <3>2, <4>1, <4>2, <4>3 DEF SaysSame, Alike, Lacks, Appends, Rewrites
    <3>4. CASE other # section
      <4>1. \A i \in 1..Len(b) : ~Stops(b[i], other)
        <5>1. ~Stops(b[n + 1], other) /\ ~Stops(b[n + 2], other)
          BY <1>3, <1>4, <3>4 DEF Stops
        <5>2. QED
          BY <5>1, <2>1, <1>1, <1>5
      <4>2. FindSection(b, other) = [ret |-> "CFG_SECTION_NOT_FOUND", line |-> 0]
        BY <1>1, <4>1, SectionNone
      <4>3. Asked(b, other, name).ret = "CFG_SECTION_NOT_FOUND"
        BY <4>2 DEF Asked, NotFound
      <4>4. QED
        BY <3>2, <4>3 DEF SaysSame
    <3>5. QED
      BY <3>3, <3>4
  <2>2. CASE \E i \in 1..n :
                 /\ Stops(a[i], other) /\ \A j \in 1..(i - 1) : ~Stops(a[j], other)
                 /\ FindSection(a, other) =
                       IF a[i].t = "open" THEN [ret |-> "CFG_ERR_FILE_FORMAT", line |-> 0]
                       ELSE [ret |-> "CFG_OK", line |-> i]
    <3>1. PICK i \in 1..n :
                 /\ Stops(a[i], other) /\ \A j \in 1..(i - 1) : ~Stops(a[j], other)
                 /\ FindSection(a, other) =
                       IF a[i].t = "open" THEN [ret |-> "CFG_ERR_FILE_FORMAT", line |-> 0]
                       ELSE [ret |-> "CFG_OK", line |-> i]
      BY <2>2
    <3>2. i \in 1..Len(b) /\ i \in Nat /\ b[i] = a[i] /\ \A j \in 1..(i - 1) : j \in 1..n
      BY <1>1, <1>2
    <3>3. FindSection(b, other) = FindSection(a, other)
      <4>1. \A j \in 1..(i - 1) : ~Stops(b[j], other)
        BY <1>1, <3>1, <3>2
      <4>2. QED
        BY <1>1, <3>1, <3>2, <4>1, SectionStops
    <3>4. CASE a[i].t = "open"
      <4>1. Asked(a, other, name) = Asked(b, other, name)
        BY <3>1, <3>3, <3>4 DEF Asked
      <4>2. QED
        BY <4>1 DEF SaysSame
    <3>5. CASE a[i].t # "open"
      <4>1. Asked(a, other, name) = FindKey(a, name, i + 1) /\ Asked(b, other, name) = FindKey(b, name, i + 1)
        BY <3>1, <3>3, <3>5 DEF Asked
      <4>2. Same(a, b, i + 1, n, 0)
        <5>1. \A m \in (i + 1)..n : m \in 1..n /\ m + 0 = m
          BY <1>2, <3>2
        <5>2. i + 1 <= n => ~a[n].more
          <6>1. n >= 1 => n \in 1..Len(a) /\ ~(n < Len(a))
            BY <1>2
          <6>2. i + 1 <= n => n >= 1
            BY <1>2, <3>2
          <6>3. QED
            BY <6>1, <6>2 DEF Untorn
        <5>3. QED
          BY <1>1, <5>1, <5>2 DEF Same
      <4>3. Over(a, n + 1) /\ Over(b, n + 1 + 0)
        <5>1. n + 1 > Len(a) /\ n + 1 + 0 = n + 1
          BY <1>2
        <5>2. QED
          BY <5>1, <1>3 DEF Over
      <4>4. i + 1 \in Nat \ {0} /\ n \in 0..Len(a) /\ n + 0 <= Len(b) /\ i + 1 <= n + 1 /\ 0 \in Nat /\ i + 1 + 0 = i + 1
        BY <1>1, <1>2, <3>2
      <4>5. Alike(FindKey(a, name, i + 1), FindKey(b, name, i + 1 + 0))
        BY <1>1, <4>2, <4>3, <4>4, SameAnswer
      <4>6. QED
        BY <4>1, <4>4, <4>5, AlikeSays
    <3>6. QED
      BY <3>4, <3>5
  <2>3. QED
    BY <2>1, <2>2, SectionSearch
<1>10. QED
  BY <1>6, <1>8, <1>9 DEF b

(* A line put behind a header. *)
LEMMA Inserted ==
    ASSUME NEW a \in Lines, NEW h \in 1..Len(a), NEW key \in Words, NEW value \in Seq(Words)
    PROVE  LET b == SubSeq(a, 1, h) \o <<KeyLine(key, value)>> \o SubSeq(a, h + 1, Len(a))
           IN  /\ b \in Lines /\ Len(b) = Len(a) + 1
               /\ \A i \in 1..h : b[i] = a[i]
               /\ b[h + 1] = KeyLine(key, value)
               /\ \A i \in (h + 1)..Len(a) : b[i + 1] = a[i]
<1> DEFINE y == KeyLine(key, value)
           n == Len(a)
           u == SubSeq(a, 1, h)
           v == SubSeq(a, h + 1, n)
           b == u \o <<y>> \o v
<1>1. y \in Line
  BY DEF KeyLine, Line
<1>2. n \in Nat /\ h \in Nat /\ h <= n
  BY DEF Lines
<1>3. u \in Seq(Line) /\ Len(u) = h /\ \A i \in 1..h : u[i] = a[i]
  BY <1>2 DEF Lines
<1>4. v \in Seq(Line) /\ Len(v) = n - h /\ \A i \in 1..(n - h) : v[i] = a[h + i]
  BY <1>2 DEF Lines
<1> HIDE DEF y, u, v
<1> DEFINE w == u \o <<y>>
<1>5. w \in Seq(Line) /\ Len(w) = Len(u) + 1 /\ (\A i \in 1..Len(u) : w[i] = u[i]) /\ w[Len(u) + 1] = y
  BY <1>1, <1>3
<1> HIDE DEF w
<1>6. /\ w \o v \in Seq(Line) /\ Len(w \o v) = Len(w) + Len(v)
      /\ \A i \in 1..Len(w) : (w \o v)[i] = w[i]
      /\ \A i \in 1..Len(v) : (w \o v)[Len(w) + i] = v[i]
  <2>1. w \in Seq(Line) /\ v \in Seq(Line)
    BY <1>4, <1>5
  <2>2. w \o v \in Seq(Line) /\ Len(w \o v) = Len(w) + Len(v)
    BY <2>1
  <2>3. \A i \in 1..Len(w) : (w \o v)[i] = w[i]
    BY <2>1
  <2>4. \A i \in 1..Len(v) : (w \o v)[Len(w) + i] = v[i]
    BY <2>1
  <2>5. QED
    BY <2>2, <2>3, <2>4
<1>7. b = w \o v
  BY DEF w
<1> HIDE DEF b
<1>8. /\ b \in Seq(Line) /\ Len(b) = h + 1 + (n - h) /\ \A i \in 1..h : b[i] = u[i]
      /\ b[h + 1] = y
      /\ \A i \in (h + 1)..n : b[i + 1] = v[i - h]
  <2>1. Len(w) = h + 1 /\ h + 1 \in 1..Len(w) /\ \A i \in 1..h : i \in 1..Len(w) /\ i \in 1..Len(u)
    BY <1>2, <1>3, <1>5
  <2>2. ASSUME NEW i \in (h + 1)..n PROVE i - h \in 1..Len(v) /\ Len(w) + (i - h) = i + 1
    <3>1. h \in Nat /\ n \in Nat /\ h <= n /\ Len(v) = n - h
      BY <1>2, <1>4
    <3>2. i - h \in 1..(n - h)
      BY <3>1
    <3>3. (h + 1) + (i - h) = i + 1
      BY <3>1
    <3>4. QED
      BY <2>1, <3>1, <3>2, <3>3
  <2>3. \A i \in (h + 1)..n : b[i + 1] = v[i - h]
    BY <1>6, <1>7, <2>2
  <2>4. \A i \in 1..h : b[i] = u[i]
    BY <1>5, <1>6, <1>7, <2>1
  <2>5. b[h + 1] = y
    BY <1>3, <1>5, <1>6, <1>7, <2>1
  <2>6. Len(b) = h + 1 + (n - h)
    BY <1>4, <1>6, <1>7, <2>1
  <2>7. QED
    BY <1>6, <1>7, <2>3, <2>4, <2>5, <2>6
<1>9. \A i \in (h + 1)..n : i - h \in 1..(n - h) /\ h + (i - h) = i
  BY <1>2
<1>10. \A i \in (h + 1)..n : b[i + 1] = a[i]
  BY <1>4, <1>8, <1>9
<1>11. Len(b) = n + 1
  BY <1>2, <1>8
<1>12. \A i \in 1..h : b[i] = a[i]
  BY <1>3, <1>8
<1>13. QED
  BY <1>8, <1>10, <1>11, <1>12 DEF b, u, v, y, Lines

(* A key behind the header of its section: the same.                          *)
LEMMA InsertedSays ==
    ASSUME NEW a \in Lines, NEW h \in 1..Len(a), NEW section \in Words, NEW key \in Words, NEW value \in Seq(Words),
           Untorn(a), a[h].t = "section", a[h].name = section, ~a[h].more,
           \A i \in 1..(h - 1) : ~Stops(a[i], section), Len(value) <= MaxText
    PROVE  LET b == SubSeq(a, 1, h) \o <<KeyLine(key, value)>> \o SubSeq(a, h + 1, Len(a))
           IN  /\ Untorn(b)
               /\ Asked(b, section, key).ret = "CFG_OK" /\ Asked(b, section, key).value = value
               /\ \A other, name : other # section \/ name # key =>
                     SaysSame(Asked(a, other, name), Asked(b, other, name))
<1> DEFINE b == SubSeq(a, 1, h) \o <<KeyLine(key, value)>> \o SubSeq(a, h + 1, Len(a))
           n == Len(a)
<1>1. /\ b \in Lines /\ Len(b) = n + 1
      /\ \A i \in 1..h : b[i] = a[i]
      /\ b[h + 1] = KeyLine(key, value)
      /\ \A i \in (h + 1)..n : b[i + 1] = a[i]
  BY Inserted
<1> HIDE DEF b
<1>2. n \in Nat /\ h \in Nat /\ h \in 1..n /\ h \in 1..h /\ h \in 1..Len(b) /\ h + 1 \in 1..Len(b) /\ n + 2 = Len(b) + 1
  BY <1>1 DEF Lines
<1>3. b[h] = a[h]
  BY <1>1, <1>2
<1>4. b[h + 1].t = "key" /\ b[h + 1].name = key /\ ~b[h + 1].more /\ b[h + 1].text = value
  BY <1>1 DEF KeyLine
<1>5. \A i \in 1..Len(b) : i \in 1..h \/ i = h + 1 \/ (i - 1 \in (h + 1)..n /\ (i - 1) + 1 = i)
  BY <1>1, <1>2
<1>6. Untorn(b)
  <2>1. ASSUME NEW i \in 1..h, b[i].more PROVE i < n + 1 /\ b[i + 1].t # "section"
    <3>1. i # h /\ a[i].more /\ i \in 1..n
      BY <2>1, <1>1, <1>2, <1>3
    <3>2. i < n /\ a[i + 1].t # "section" /\ i + 1 \in 1..h
      BY <3>1, <1>2 DEF Untorn
    <3>3. QED
      BY <3>2, <1>1, <1>2
  <2>2. ASSUME NEW i \in (h + 1)..n, b[i + 1].more PROVE i + 1 < n + 1 /\ b[(i + 1) + 1].t # "section"
    <3>1. a[i].more /\ i \in 1..n
      BY <2>2, <1>1, <1>2
    <3>2. i < n /\ a[i + 1].t # "section" /\ i + 1 \in (h + 1)..n
      BY <3>1, <1>2 DEF Untorn
    <3>3. QED
      BY <3>2, <1>1, <1>2
  <2>3. ASSUME NEW i \in 1..Len(b), b[i].more PROVE i < Len(b) /\ b[i + 1].t # "section"
    <3>1. CASE i \in 1..h
      BY <3>1, <2>1, <2>3, <1>1
    <3>2. CASE i = h + 1
      BY <3>2, <2>3, <1>4
    <3>3. CASE i - 1 \in (h + 1)..n /\ (i - 1) + 1 = i
      <4> DEFINE m == i - 1
      <4>1. m \in (h + 1)..n /\ m + 1 = i
        BY <3>3
      <4> HIDE DEF m
      <4>2. m + 1 < n + 1 /\ b[(m + 1) + 1].t # "section"
        BY <4>1, <2>2, <2>3
      <4>3. QED
        BY <4>1, <4>2, <1>1
    <3>4. QED
      BY <3>1, <3>2, <3>3, <1>5
  <2>4. QED
    BY <2>3 DEF Untorn
<1>7. FindSection(b, section) = [ret |-> "CFG_OK", line |-> h]
  <2>1. \A j \in 1..(h - 1) : ~Stops(b[j], section)
    <3>1. \A j \in 1..(h - 1) : j \in 1..h
      BY <1>2
    <3>2. QED
      BY <1>1, <3>1
  <2>2. Stops(b[h], section) /\ b[h].t = "section"
    BY <1>3 DEF Stops
  <2>3. QED
    BY <1>1, <1>2, <2>1, <2>2, SectionStops
<1>8. Asked(b, section, key).ret = "CFG_OK" /\ Asked(b, section, key).value = value
  <2>1. FindKey(b, key, h + 1).ret = "CFG_OK" /\ FindKey(b, key, h + 1).value = value
    BY <1>1, <1>2, <1>4, KeyFound
  <2>2. Asked(b, section, key) = FindKey(b, key, h + 1)
    BY <1>2, <1>7 DEF Asked
  <2>3. QED
    BY <2>1, <2>2
<1>9. FindSection(a, section) = [ret |-> "CFG_OK", line |-> h]
  <2>1. Stops(a[h], section)
    BY DEF Stops
  <2>2. QED
    BY <2>1, <1>2, SectionStops
<1>10. ~a[n].more
  <2>1. n \in 1..Len(a) /\ ~(n < Len(a))
    BY <1>2
  <2>2. QED
    BY <2>1 DEF Untorn
<1>11. ASSUME NEW p \in (h + 1)..(n + 1), NEW name PROVE Alike(FindKey(a, name, p), FindKey(b, name, p + 1))
  <2>1. Same(a, b, p, n, 1)
    <3>1. \A i \in p..n : i \in (h + 1)..n
      BY <1>2
    <3>2. QED
      BY <1>1, <1>10, <3>1 DEF Same
  <2>2. Over(a, n + 1) /\ Over(b, n + 1 + 1)
    BY <1>1, <1>2 DEF Over
  <2>3. p \in Nat \ {0} /\ n \in 0..Len(a) /\ n + 1 <= Len(b) /\ p <= n + 1 /\ 1 \in Nat
    BY <1>1, <1>2
  <2>4. QED
    BY <1>1, <2>1, <2>2, <2>3, SameAnswer
<1>12. ASSUME NEW other, NEW name, other # section \/ name # key
       PROVE  SaysSame(Asked(a, other, name), Asked(b, other, name))
  <2>1. CASE \A i \in 1..n : ~Stops(a[i], other)
    <3>1. ASSUME NEW i \in 1..Len(b) PROVE ~Stops(b[i], other)
      <4>1. CASE i \in 1..h
        <5>1. i \in 1..n /\ b[i] = a[i]
          BY <4>1, <1>1, <1>2
        <5>2. QED
          BY <5>1, <2>1
      <4>2. CASE i = h + 1
        BY <4>2, <1>4 DEF Stops
      <4>3. CASE i - 1 \in (h + 1)..n /\ (i - 1) + 1 = i
        <5>1. i - 1 \in 1..n /\ b[i] = a[i - 1]
          BY <4>3, <1>1, <1>2
        <5>2. QED
          BY <5>1, <2>1
      <4>4. QED
        BY <4>1, <4>2, <4>3, <1>5
    <3>2. FindSection(a, other) = FindSection(b, other)
      BY <1>1, <2>1, <3>1, SectionNone
    <3>3. FindSection(a, other).ret = "CFG_SECTION_NOT_FOUND"
      BY <2>1, SectionNone
    <3>4. Asked(a, other, name) = Asked(b, other, name)
      BY <3>2, <3>3 DEF Asked
    <3>5. QED
      BY <3>4 DEF SaysSame
  <2>2. CASE \E i \in 1..n :
                 /\ Stops(a[i], other) /\ \A j \in 1..(i - 1) : ~Stops(a[j], other)
                 /\ FindSection(a, other) =
                       IF a[i].t = "open" THEN [ret |-> "CFG_ERR_FILE_FORMAT", line |-> 0]
                       ELSE [ret |-> "CFG_OK", line |-> i]
    <3>1. PICK i \in 1..n :
                 /\ Stops(a[i], other) /\ \A j \in 1..(i - 1) : ~Stops(a[j], other)
                 /\ FindSection(a, other) =
                       IF a[i].t = "open" THEN [ret |-> "CFG_ERR_FILE_FORMAT", line |-> 0]
                       ELSE [ret |-> "CFG_OK", line |-> i]
      BY <2>2
    <3>2. CASE i \in 1..h
      <4>1. b[i] = a[i] /\ i \in 1..Len(b) /\ i \in Nat /\ i <= h
        BY <3>2, <1>1, <1>2
      <4>2. \A j \in 1..(i - 1) : ~Stops(b[j], other)
        <5>1. \A j \in 1..(i - 1) : j \in 1..h
          BY <3>2, <1>2
        <5>2. QED
          BY <5>1, <3>1, <1>1
      <4>3. FindSection(b, other) = FindSection(a, other)
        BY <1>1, <3>1, <4>1, <4>2, SectionStops
      <4>4. CASE a[i].t = "open"
        <5>1. Asked(a, other, name) = Asked(b, other, name)
          BY <3>1, <4>3, <4>4 DEF Asked
        <5>2. QED
          BY <5>1 DEF SaysSame
      <4>5. CASE a[i].t # "open"
        <5>1. Asked(a, other, name) = FindKey(a, name, i + 1) /\ Asked(b, other, name) = FindKey(b, name, i + 1)
          BY <3>1, <4>3, <4>5 DEF Asked
        <5>2. CASE i = h
          <6>1. other = section
            BY <3>1, <4>5, <5>2 DEF Stops
          <6>2. Alike(FindKey(b, name, h + 1), FindKey(b, name, h + 1 + 1))
            <7>1. b[h + 1].name # name
              BY <1>4, <1>12, <6>1
            <7>2. Len(b[h + 1].text) <= MaxText
              BY <1>4
            <7>3. ~b[Len(b)].more
              <8>1. CASE n = h
                BY <8>1, <1>1, <1>4
              <8>2. CASE n # h
                <9>1. n \in (h + 1)..n
                  BY <8>2, <1>2
                <9>2. b[n + 1] = a[n]
                  BY <9>1, <1>1
                <9>3. QED
                  BY <9>2, <1>1, <1>10
              <8>3. QED
                BY <8>1, <8>2
            <7>4. QED
              BY <7>1, <7>2, <7>3, <1>1, <1>2, <1>4, PassedOver
          <6>3. Alike(FindKey(a, name, h + 1), FindKey(b, name, h + 1 + 1))
            <7>1. h + 1 \in (h + 1)..(n + 1)
              BY <1>2
            <7>2. QED
              BY <7>1, <1>11
          <6>4. QED
            BY <5>1, <5>2, <6>2, <6>3 DEF Alike, SaysSame
        <5>3. CASE i # h
          <6>1. i + 1 \in Nat \ {0} /\ h - 1 \in 0..Len(a) /\ (h - 1) + 0 <= Len(b) /\ i + 1 <= (h - 1) + 1
                /\ 0 \in Nat /\ i + 1 + 0 = i + 1 /\ (h - 1) + 1 = h /\ (h - 1) + 1 + 0 = h
            BY <5>3, <4>1, <1>1, <1>2
          <6>2. Same(a, b, i + 1, h - 1, 0)
            <7>1. \A m \in (i + 1)..(h - 1) : m \in 1..h /\ m + 0 = m
              BY <4>1, <1>2
            <7>2. i + 1 <= h - 1 => ~a[h - 1].more
              <8>1. i + 1 <= h - 1 => h - 1 \in 1..Len(a)
                BY <4>1, <1>2
              <8>2. QED
                BY <8>1, <6>1 DEF Untorn
            <7>3. QED
              BY <1>1, <7>1, <7>2 DEF Same
          <6>3. Over(a, (h - 1) + 1) /\ Over(b, (h - 1) + 1 + 0)
            BY <6>1, <1>3 DEF Over
          <6>4. Alike(FindKey(a, name, i + 1), FindKey(b, name, i + 1 + 0))
            BY <1>1, <6>1, <6>2, <6>3, SameAnswer
          <6>5. QED
            BY <5>1, <6>1, <6>4, AlikeSays
        <5>4. QED
          BY <5>2, <5>3
      <4>6. QED
        BY <4>4, <4>5
    <3>3. CASE i \notin 1..h
      <4>1. i \in (h + 1)..n /\ i \in Nat
        BY <3>3, <1>2
      <4>2. b[i + 1] = a[i] /\ i + 1 \in 1..Len(b) /\ (i + 1) - 1 = i
        BY <4>1, <1>1, <1>2
      <4>3. ASSUME NEW j \in 1..i PROVE ~Stops(b[j], other)
        <5>1. CASE j \in 1..h
          <6>1. b[j] = a[j] /\ j \in 1..(i - 1)
            BY <5>1, <4>1, <1>1, <1>2
          <6>2. QED
            BY <6>1, <3>1
        <5>2. CASE j = h + 1
          BY <5>2, <1>4 DEF Stops
        <5>3. CASE j \notin 1..h /\ j # h + 1
          <6>1. j - 1 \in (h + 1)..n /\ j - 1 \in 1..(i - 1) /\ (j - 1) + 1 = j
            BY <5>3, <4>1, <1>2
          <6>2. b[j] = a[j - 1]
            BY <6>1, <1>1
          <6>3. QED
            BY <6>1, <6>2, <3>1
        <5>4. QED
          BY <5>1, <5>2, <5>3
      <4>4. FindSection(b, other) = IF a[i].t = "open" THEN [ret |-> "CFG_ERR_FILE_FORMAT", line |-> 0]
                                    ELSE [ret |-> "CFG_OK", line |-> i + 1]
        <5>1. \A j \in 1..((i + 1) - 1) : ~Stops(b[j], other)
          BY <4>2, <4>3
        <5>2. Stops(b[i + 1], other)
          BY <4>2, <3>1
        <5>3. QED
          BY <1>1, <4>2, <5>1, <5>2, SectionStops
      <4>5. CASE a[i].t = "open"
        <5>1. Asked(a, other, name) = Asked(b, other, name)
          BY <3>1, <4>4, <4>5 DEF Asked
        <5>2. QED
          BY <5>1 DEF SaysSame
      <4>6. CASE a[i].t # "open"
        <5>1. Asked(a, other, name) = FindKey(a, name, i + 1) /\ Asked(b, other, name) = FindKey(b, name, i + 1 + 1)
          BY <3>1, <4>4, <4>6 DEF Asked
        <5>2. i + 1 \in (h + 1)..(n + 1)
          BY <4>1, <1>2
        <5>3. Alike(FindKey(a, name, i + 1), FindKey(b, name, i + 1 + 1))
          BY <5>2, <1>11
        <5>4. QED
          BY <5>1, <5>3, AlikeSays
      <4>7. QED
        BY <4>5, <4>6
    <3>4. QED
      BY <3>2, <3>3
  <2>3. QED
    BY <2>1, <2>2, SectionSearch
<1>13. QED
  BY <1>6, <1>8, <1>12 DEF b
-----------------------------------------------------------------------------
(* A file as FileGetLine() returns it: a header is not continued. *)
Understood(f) ==
    \/ f = Missing
    \/ /\ f.exists /\ f.ended \in BOOLEAN /\ f.lines \in Lines
       /\ \A n \in 1..Len(f.lines) : f.lines[n].t = "section" => ~f.lines[n].more

(* The lines of a file that is there or not.                                  *)
LEMMA LinesOf ==
    ASSUME NEW f, Understood(f)
    PROVE  /\ f.lines \in Lines
           /\ \A n \in 1..Len(f.lines) : f.lines[n].t = "section" => ~f.lines[n].more
           /\ Whole(f) <=> f.ended /\ Untorn(f.lines)
           /\ f.exists \in BOOLEAN /\ (f.exists = FALSE => f = Missing)
           /\ Whole(f) \in BOOLEAN
<1>1. CASE f = Missing
  <2>1. f.lines = <<>> /\ f.ended /\ f.exists = FALSE
    BY <1>1 DEF Missing
  <2>2. f.lines \in Lines /\ DOMAIN f.lines = {} /\ 1..Len(f.lines) = {}
    BY <2>1 DEF Lines
  <2>3. QED
    BY <1>1, <2>1, <2>2 DEF Whole, Untorn
<1>2. CASE f # Missing
  <2>1. f.lines \in Lines /\ f.exists /\ f.ended \in BOOLEAN
    BY <1>2 DEF Understood
  <2>2. DOMAIN f.lines = 1..Len(f.lines)
    BY <2>1 DEF Lines
  <2>3. QED
    BY <1>2, <2>1, <2>2 DEF Understood, Whole, Untorn
<1>3. QED
  BY <1>1, <1>2

(* ConfigGetKey() of a file that is there; of one that is not, it is as if   *)
(* the file were empty.                                                      *)
LEMMA GetAsks ==
    ASSUME NEW f, Understood(f), NEW section, NEW key
    PROVE  /\ f.exists => ConfigGetKey(f, section, key) = Asked(f.lines, section, key)
           /\ SaysSame(ConfigGetKey(f, section, key), Asked(f.lines, section, key))
           /\ ~f.exists => Asked(f.lines, section, key).ret = "CFG_SECTION_NOT_FOUND"
<1>1. f.exists => ConfigGetKey(f, section, key) = Asked(f.lines, section, key)
  BY DEF ConfigGetKey, Asked
<1>2. ASSUME ~f.exists PROVE Asked(f.lines, section, key).ret = "CFG_SECTION_NOT_FOUND"
  <2>0. f = Missing
    BY <1>2, LinesOf
  <2>1. f.lines = <<>>
    BY <2>0 DEF Missing
  <2>2. <<>> \in Lines /\ 1..Len(<<>>) = {}
    BY DEF Lines
  <2>3. FindSection(f.lines, section) = [ret |-> "CFG_SECTION_NOT_FOUND", line |-> 0]
    BY <2>1, <2>2, SectionNone
  <2>4. QED
    BY <2>3 DEF Asked, NotFound
<1>3. ~f.exists => ConfigGetKey(f, section, key).ret = "CFG_ERR_OPEN_FILE"
  BY DEF ConfigGetKey, NotFound
<1>4. QED
  BY <1>1, <1>2, <1>3 DEF SaysSame, Lacks, Appends, Rewrites

(* To say the same is an equivalence.                                         *)
LEMMA SaysSameEquiv ==
    /\ \A g, h : SaysSame(g, h) => SaysSame(h, g)
    /\ \A g, h, i : SaysSame(g, h) /\ SaysSame(h, i) => SaysSame(g, i)
BY DEF SaysSame

(* What a new value makes of a file. *)
Puts(f, new, section, key, value) ==
    /\ Understood(new) /\ new.exists
    /\ Whole(f) =>
        /\ Whole(new)
        /\ ConfigGetKey(new, section, key).ret = "CFG_OK" /\ ConfigGetKey(new, section, key).value = value
        /\ \A other, name : other # section \/ name # key =>
              SaysSame(ConfigGetKey(f, other, name), ConfigGetKey(new, other, name))

(* Enough for that: the lines. *)
LEMMA PutsLines ==
    ASSUME NEW f, Understood(f), NEW new, Understood(new), new.exists, new.ended, NEW section, NEW key, NEW value,
           Whole(f) =>
             /\ Untorn(new.lines)
             /\ Asked(new.lines, section, key).ret = "CFG_OK" /\ Asked(new.lines, section, key).value = value
             /\ \A other, name : other # section \/ name # key =>
                   SaysSame(Asked(f.lines, other, name), Asked(new.lines, other, name))
    PROVE  Puts(f, new, section, key, value)
<1>1. \A other, name : ConfigGetKey(new, other, name) = Asked(new.lines, other, name)
  BY GetAsks
<1>2. ASSUME Whole(f), NEW other, NEW name, other # section \/ name # key
      PROVE  SaysSame(ConfigGetKey(f, other, name), ConfigGetKey(new, other, name))
  <2>1. SaysSame(ConfigGetKey(f, other, name), Asked(f.lines, other, name))
    BY GetAsks
  <2>2. SaysSame(Asked(f.lines, other, name), Asked(new.lines, other, name))
    BY <1>2
  <2>3. QED
    BY <1>1, <2>1, <2>2, SaysSameEquiv
<1>3. Untorn(new.lines) => Whole(new)
  BY LinesOf
<1>4. QED
  BY <1>1, <1>2, <1>3 DEF Puts

(* ConfigSetKey() that appends puts the value and touches nothing else ...    *)
LEMMA AppendPuts ==
    ASSUME NEW f, Understood(f), NEW section \in Words, NEW key \in Words, NEW value \in Seq(Words),
           Len(value) <= MaxText, Appends(ConfigGetKey(f, section, key).ret)
    PROVE  Puts(f, Append2(f, section, key, value), section, key, value)
<1> DEFINE a == f.lines
           n == Len(a)
           new == Append2(f, section, key, value)
           b == a \o <<Section(section)>> \o <<KeyLine(key, value)>>
<1>1. a \in Lines /\ n \in Nat /\ \A m \in 1..n : a[m].t = "section" => ~a[m].more
  <2>1. a \in Lines /\ \A m \in 1..n : a[m].t = "section" => ~a[m].more
    BY LinesOf
  <2>2. n \in Nat
    BY <2>1 DEF Lines
  <2>3. QED
    BY <2>1, <2>2
<1>2. new.exists /\ new.ended
  BY DEF Append2
<1>3. CASE f.ended \/ n = 0
  <2>1. new.lines = b
    BY <1>3 DEF Append2
  <2>2. /\ b \in Lines /\ Len(b) = n + 2 /\ (\A i \in 1..n : b[i] = a[i])
        /\ b[n + 1] = Section(section) /\ b[n + 2] = KeyLine(key, value)
    BY <1>1, Appended
  <2> HIDE DEF b
  <2>3. \A m \in 1..Len(b) : b[m].t = "section" => ~b[m].more
    <3>1. \A m \in 1..Len(b) : m \in 1..n \/ m = n + 1 \/ m = n + 2
      BY <1>1, <2>2
    <3>2. ~Section(section).more /\ ~KeyLine(key, value).more
      BY DEF Section, KeyLine
    <3>3. QED
      BY <1>1, <2>2, <3>1, <3>2
  <2>4. Understood(new)
    BY <1>2, <2>1, <2>2, <2>3 DEF Understood, Append2
  <2>5. \A i \in 1..n : ~Stops(a[i], section)
    <3>1. FindSection(a, section).ret = "CFG_SECTION_NOT_FOUND"
      <4>1. CASE f.exists
        <5>1. Appends(Asked(a, section, key).ret)
          BY <4>1, GetAsks
        <5>2. FindSection(a, section).ret # "CFG_OK"
          <6>1. SUFFICES ASSUME FindSection(a, section).ret = "CFG_OK" PROVE FALSE
            OBVIOUS
          <6>2. PICK i \in 1..n : FindSection(a, section) =
                       IF a[i].t = "open" THEN [ret |-> "CFG_ERR_FILE_FORMAT", line |-> 0]
                       ELSE [ret |-> "CFG_OK", line |-> i]
            BY <1>1, <6>1, SectionSearch
          <6>3. FindSection(a, section).line = i
            BY <6>1, <6>2
          <6>4. i + 1 \in 1..(n + 1)
            BY <1>1
          <6>5. Asked(a, section, key) = FindKey(a, key, i + 1)
            BY <6>1, <6>3 DEF Asked
          <6>6. FindKey(a, key, i + 1).ret \notin {"CFG_ERR_OPEN_FILE", "CFG_SECTION_NOT_FOUND"}
            BY <1>1, <6>4, Answers DEF KeyAnswers
          <6>7. QED
            BY <5>1, <6>5, <6>6 DEF Appends
        <5>3. Appends(FindSection(a, section).ret)
          BY <5>1, <5>2 DEF Asked, NotFound
        <5>4. QED
          BY <1>1, <5>2, <5>3, SectionSearch DEF Appends
      <4>2. CASE ~f.exists
        <5>1. f = Missing
          BY <4>2, LinesOf
        <5>2. a = <<>> /\ <<>> \in Lines /\ 1..Len(<<>>) = {}
          BY <5>1 DEF Missing, Lines
        <5>3. QED
          BY <5>2, SectionNone
      <4>3. QED
        BY <4>1, <4>2
    <3>2. QED
      BY <1>1, <3>1, SectionSearch
  <2>6. Whole(f) =>
             /\ Untorn(b)
             /\ Asked(b, section, key).ret = "CFG_OK" /\ Asked(b, section, key).value = value
             /\ \A other, name : other # section \/ name # key =>
                   SaysSame(Asked(a, other, name), Asked(b, other, name))
    <3>1. Whole(f) => Untorn(a)
      BY LinesOf
    <3>2. QED
      BY <1>1, <2>5, <3>1, AppendedSays DEF b
  <2>7. Whole(f) =>
             /\ Untorn(new.lines)
             /\ Asked(new.lines, section, key).ret = "CFG_OK" /\ Asked(new.lines, section, key).value = value
             /\ \A other, name : other # section \/ name # key =>
                   SaysSame(Asked(f.lines, other, name), Asked(new.lines, other, name))
    BY <2>1, <2>6
  <2> HIDE DEF new
  <2>8. Puts(f, new, section, key, value)
    BY <1>2, <2>4, <2>7, PutsLines
  <2>9. QED
    BY <2>8 DEF new
<1>4. CASE ~(f.ended \/ n = 0)
  <2>1. ~Whole(f)
    BY <1>4 DEF Whole
  <2> DEFINE last == a[n]
             x == [last EXCEPT !.text = @ \o <<section>>,
                               !.name = IF last.t = "section" THEN "joined" ELSE @,
                               !.more = FALSE]
             c == SubSeq(a, 1, n - 1)
             y == KeyLine(key, value)
             d == c \o <<x>> \o <<y>>
  <2>2. last \in Line /\ n \in 1..n
    BY <1>1, <1>4 DEF Lines
  <2>3. x \in Line /\ ~x.more
    <3> HIDE DEF last
    <3>1. last.text \o <<section>> \in Seq(Words)
      BY <2>2 DEF Line
    <3> DEFINE name == IF last.t = "section" THEN "joined" ELSE last.name
               text == last.text \o <<section>>
    <3>2. x = [last EXCEPT !.text = text, !.name = name, !.more = FALSE]
      OBVIOUS
    <3>3. name \in Words /\ text \in Seq(Words)
      <4>1. last.name \in Words /\ "joined" \in Words
        BY <2>2, WordsAssumption DEF Line
      <4>2. name \in Words
        BY <4>1
      <4>3. text \in Seq(Words)
        BY <3>1
      <4>4. QED
        BY <4>2, <4>3
    <3> HIDE DEF name, text, x
    <3>4. QED
      BY <2>2, <3>2, <3>3 DEF Line
  <2>4. y \in Line /\ ~y.more
    BY DEF KeyLine, Line
  <2>5. c \in Seq(Line) /\ Len(c) = n - 1 /\ \A i \in 1..(n - 1) : c[i] = a[i]
    BY <1>1, <1>4 DEF Lines
  <2>6. new.lines = d
    BY <1>4 DEF Append2
  <2> HIDE DEF x, y, c, new
  <2>7. /\ d \in Seq(Line) /\ Len(d) = Len(c) + 2 /\ (\A i \in 1..Len(c) : d[i] = c[i])
        /\ d[Len(c) + 1] = x /\ d[Len(c) + 2] = y
    <3> DEFINE e == c \o <<x>>
    <3>1. c \in Seq(Line) /\ x \in Line /\ y \in Line
      BY <2>3, <2>4, <2>5
    <3>2. e \in Seq(Line) /\ Len(e) = Len(c) + 1
      BY <3>1
    <3>3. \A i \in 1..Len(c) : e[i] = c[i]
      BY <3>1
    <3>4. e[Len(c) + 1] = x
      BY <3>1
    <3>5. d = e \o <<y>> /\ Len(c) \in Nat
      BY <3>1
    <3> HIDE DEF e, d
    <3>6. d \in Seq(Line) /\ Len(d) = Len(e) + 1
      BY <3>1, <3>2, <3>5
    <3>7. \A i \in 1..Len(e) : d[i] = e[i]
      BY <3>1, <3>2, <3>5
    <3>8. d[Len(e) + 1] = y
      BY <3>1, <3>2, <3>5
    <3>9. /\ Len(c) + 1 \in 1..Len(e) /\ (Len(c) + 1) + 1 = Len(c) + 2
          /\ \A i \in 1..Len(c) : i \in 1..Len(e)
      BY <3>2, <3>5
    <3>10. QED
      BY <3>2, <3>3, <3>4, <3>6, <3>7, <3>8, <3>9
  <2> HIDE DEF d
  <2>8. \A m \in 1..Len(d) : d[m].t = "section" => ~d[m].more
    <3>1. \A m \in 1..Len(d) : m \in 1..(n - 1) \/ m = Len(c) + 1 \/ m = Len(c) + 2
      BY <1>1, <2>5, <2>7
    <3>2. \A m \in 1..(n - 1) : d[m] = a[m] /\ m \in 1..n
      BY <1>1, <2>5, <2>7
    <3>3. QED
      BY <1>1, <2>3, <2>4, <2>7, <3>1, <3>2
  <2>9. Understood(new)
    <3>1. new.ended \in BOOLEAN
      BY DEF new, Append2
    <3>2. QED
      BY <1>2, <2>6, <2>7, <2>8, <3>1 DEF Understood, Lines, new
  <2>10. QED
    BY <1>2, <2>1, <2>9 DEF Puts, new
<1>5. QED
  BY <1>3, <1>4

(* ... and so does the one that rewrites the file.                            *)
LEMMA RewritePuts ==
    ASSUME NEW f, Understood(f), NEW section \in Words, NEW key \in Words, NEW value \in Seq(Words),
           Len(value) <= MaxText, ConfigGetKey(f, section, key).ret = "CFG_KEY_NOT_FOUND"
    PROVE  Puts(f, Rewritten(f, section, key, value), section, key, value)
<1> DEFINE a == f.lines
           n == Len(a)
           new == Rewritten(f, section, key, value)
<1>1. a \in Lines /\ \A m \in 1..n : a[m].t = "section" => ~a[m].more
  BY LinesOf
<1>2. n \in Nat
  BY <1>1 DEF Lines
<1>3. f.exists /\ ConfigGetKey(f, section, key) = Asked(a, section, key)
  <2>1. ~f.exists => ConfigGetKey(f, section, key).ret = "CFG_ERR_OPEN_FILE"
    BY DEF ConfigGetKey, NotFound
  <2>2. QED
    BY <2>1, GetAsks
<1>4. FindSection(a, section).ret = "CFG_OK"
  <2>1. FindSection(a, section).ret # "CFG_OK" => Asked(a, section, key).ret = FindSection(a, section).ret
    BY DEF Asked, NotFound
  <2>2. FindSection(a, section).ret # "CFG_KEY_NOT_FOUND"
    BY <1>1, SectionSearch
  <2>3. QED
    BY <1>3, <2>1, <2>2
<1>5. PICK h \in 1..n : /\ Stops(a[h], section) /\ \A j \in 1..(h - 1) : ~Stops(a[j], section)
                        /\ FindSection(a, section) =
                              IF a[h].t = "open" THEN [ret |-> "CFG_ERR_FILE_FORMAT", line |-> 0]
                              ELSE [ret |-> "CFG_OK", line |-> h]
  BY <1>1, <1>4, SectionSearch
<1>6. a[h].t = "section" /\ a[h].name = section /\ ~a[h].more /\ FindSection(a, section).line = h
  <2>1. a[h].t # "open"
    BY <1>4, <1>5
  <2>2. QED
    BY <2>1, <1>1, <1>5 DEF Stops
<1>7. ConfigGetKey(f, section, key).count = 0
  <2>1. ConfigGetKey(f, section, key) = FindKey(a, key, h + 1)
    BY <1>3, <1>4, <1>6 DEF Asked
  <2>2. h + 1 \in 1..(n + 1)
    BY <1>2
  <2>3. QED
    BY <2>1, <2>2, <1>1, Answers
<1> DEFINE b == SubSeq(a, 1, h) \o <<KeyLine(key, value)>> \o SubSeq(a, h + 1, n)
<1>8. new.lines = b /\ new.exists /\ new.ended
  <2>1. h + 0 + 1 = h + 1
    BY <1>2
  <2>2. QED
    BY <1>6, <1>7, <2>1 DEF Rewritten
<1>9. /\ b \in Lines /\ Len(b) = n + 1
      /\ \A i \in 1..h : b[i] = a[i]
      /\ b[h + 1] = KeyLine(key, value)
      /\ \A i \in (h + 1)..n : b[i + 1] = a[i]
  BY <1>1, Inserted
<1>10. Whole(f) =>
          /\ Untorn(b)
          /\ Asked(b, section, key).ret = "CFG_OK" /\ Asked(b, section, key).value = value
          /\ \A other, name : other # section \/ name # key =>
                SaysSame(Asked(a, other, name), Asked(b, other, name))
  <2>1. Whole(f) => Untorn(a)
    BY LinesOf
  <2>2. QED
    BY <1>1, <1>5, <1>6, <2>1, InsertedSays
<1> HIDE DEF b
<1>11. \A m \in 1..Len(b) : b[m].t = "section" => ~b[m].more
  <2>1. ASSUME NEW m \in 1..Len(b), b[m].t = "section" PROVE ~b[m].more
    <3>1. CASE m \in 1..h
      <4>1. m \in 1..n
        BY <3>1, <1>2
      <4>2. QED
        BY <3>1, <4>1, <2>1, <1>1, <1>9
    <3>2. CASE m = h + 1
      BY <3>2, <1>9 DEF KeyLine
    <3>3. CASE m \notin 1..h /\ m # h + 1
      <4>1. m - 1 \in (h + 1)..n /\ m - 1 \in 1..n /\ (m - 1) + 1 = m
        BY <3>3, <1>2, <1>9
      <4>2. b[m] = a[m - 1]
        BY <4>1, <1>9
      <4>3. QED
        BY <4>1, <4>2, <2>1, <1>1
    <3>4. QED
      BY <3>1, <3>2, <3>3
  <2>2. QED
    BY <2>1
<1>12. Understood(new)
  <2>1. new.ended \in BOOLEAN
    BY DEF Rewritten
  <2>2. QED
    BY <1>8, <1>9, <1>11, <2>1 DEF Understood
<1>13. Whole(f) =>
          /\ Untorn(new.lines)
          /\ Asked(new.lines, section, key).ret = "CFG_OK" /\ Asked(new.lines, section, key).value = value
          /\ \A other, name : other # section \/ name # key =>
                SaysSame(Asked(f.lines, other, name), Asked(new.lines, other, name))
  BY <1>8, <1>10
<1> HIDE DEF new
<1>14. Puts(f, new, section, key, value)
  BY <1>8, <1>12, <1>13, PutsLines
<1>15. QED
  BY <1>14 DEF new
-----------------------------------------------------------------------------
(* What the programs read. *)
SettingsIn(S, K, H) == [section : S, key : K, how : H]

(* The settings of one section.                                               *)
LEMMA EachSetting ==
    ASSUME NEW S, NEW K, NEW H, NEW section \in S, NEW keys \in Seq(K), NEW how \in H
    PROVE  /\ Each(section, keys, how) \in Seq(SettingsIn(S, K, H))
           /\ Len(Each(section, keys, how)) = Len(keys)
           /\ \A i \in 1..Len(keys) : Each(section, keys, how)[i] = Setting(section, keys[i], how)
<1> DEFINE e == Each(section, keys, how)
<1>1. e = [i \in 1..Len(keys) |-> Setting(section, keys[i], how)] /\ Len(keys) \in Nat
  BY DEF Each
<1>2. \A i \in 1..Len(keys) : Setting(section, keys[i], how) \in SettingsIn(S, K, H)
  BY DEF Setting, SettingsIn
<1> HIDE DEF e
<1>3. e \in [1..Len(keys) -> SettingsIn(S, K, H)]
  BY <1>1, <1>2
<1>4. e \in Seq(SettingsIn(S, K, H))
  BY <1>1, <1>3
<1>5. Len(e) = Len(keys)
  BY <1>1
<1>6. QED
  BY <1>1, <1>4, <1>5 DEF e

(* No program asks again for a setting that it would write. *)
Distinct(p) ==
    \A i, j \in 1..Len(p) :
        i # j /\ p[i].how = "written" => p[j].section # p[i].section \/ p[j].key # p[i].key

Reads(p) == (\E S : p \in Seq(S)) /\ Len(p) > 0 /\ Distinct(p)

(* No program reads a setting twice.                                          *)
LEMMA CollectorReads == Reads(Collector)
<1> DEFINE S == {"Serial:0", "log", "db", "auto"}
           K == {"file_node", "bootlog", "errlog", "taglistlog", "ip", "port", "path_fast_tag_db", "path_wyx_db",
                 "path_wcx_db", "condition_id", "condition_operator", "condition_value", "control_id", "control_value"}
           P == SettingsIn(S, K, {"plain", "must", "list"})
           first == <<Setting("Serial:0", "file_node", "plain")>>
           s1 == Each("log", <<"bootlog", "errlog", "taglistlog">>, "plain")
           s2 == Each("db", <<"ip", "port">>, "plain")
           s3 == Each("db", <<"path_fast_tag_db", "path_wyx_db", "path_wcx_db">>, "must")
<1>1. <<"bootlog", "errlog", "taglistlog">> \in Seq(K) /\ <<"ip", "port">> \in Seq(K)
  OBVIOUS
<1>2. <<"path_fast_tag_db", "path_wyx_db", "path_wcx_db">> \in Seq(K)
  OBVIOUS
<1>3. <<"condition_id", "condition_operator", "condition_value", "control_id", "control_value">> \in Seq(K)
  OBVIOUS
<1>4. first \in Seq(P) /\ Len(first) = 1
  <2>1. Setting("Serial:0", "file_node", "plain") \in P
    BY DEF Setting, SettingsIn
  <2> HIDE DEF P
  <2>2. QED
    BY <2>1
<1>5. {"log", "db", "auto"} \subseteq S /\ {"plain", "must", "list"} \subseteq {"plain", "must", "list"}
  OBVIOUS
<1>6. \A i \in 1..1, p \in P : p.how # "written"
  BY DEF SettingsIn
<1> HIDE DEF S, K
<1>7. s1 \in Seq(P)
  BY <1>1, <1>5, EachSetting
<1>8. s2 \in Seq(P)
  BY <1>1, <1>5, EachSetting
<1>9. s3 \in Seq(P)
  BY <1>2, <1>5, EachSetting
<1>10. AutoLists \in Seq(P)
  BY <1>3, <1>5, EachSetting DEF AutoLists
<1>11. Collector = first \o s1 \o s2 \o s3 \o AutoLists
  BY DEF Collector
<1> HIDE DEF P, s1, s2, s3, first
<1>12. Collector \in Seq(P) /\ Len(Collector) > 0
  BY <1>4, <1>7, <1>8, <1>9, <1>10, <1>11
<1>13. \A i \in 1..Len(Collector) : Collector[i].how # "written"
  BY <1>6, <1>12
<1>14. QED
  BY <1>12, <1>13 DEF Reads, Distinct

LEMMA Slave104Reads == Reads(Slave104)
<1> DEFINE keys == <<"port", "max_k", "max_w", "t0", "t1", "t2", "t3", "asdu_addr">>
           K == {"port", "max_k", "max_w", "t0", "t1", "t2", "t3", "asdu_addr"}
<1>1. keys \in Seq(K) /\ Len(keys) = 8
  OBVIOUS
<1>2. \A i, j \in 1..8 : i # j => keys[i] # keys[j]
  OBVIOUS
<1>3. Slave104 = Each("iec104_slave", keys, "written")
  BY DEF Slave104
<1>4. "iec104_slave" \in {"iec104_slave"} /\ "written" \in {"written"}
  OBVIOUS
<1> HIDE DEF keys, K
<1> DEFINE e == Each("iec104_slave", keys, "written")
           One == {"iec104_slave"}
           Written == {"written"}
<1>a. "iec104_slave" \in One /\ "written" \in Written
  BY <1>4
<1> HIDE DEF One, Written
<1>c. keys \in Seq(K)
  BY <1>1
<1>b. /\ e \in Seq(SettingsIn(One, K, Written))
      /\ Len(e) = Len(keys)
      /\ \A i \in 1..Len(keys) : e[i] = Setting("iec104_slave", keys[i], "written")
  BY <1>a, <1>c, EachSetting
<1>5. /\ Slave104 \in Seq(SettingsIn(One, K, Written))
      /\ Len(Slave104) = Len(keys)
      /\ \A i \in 1..Len(keys) : Slave104[i] = Setting("iec104_slave", keys[i], "written")
  BY <1>3, <1>b
<1>6. Len(Slave104) = 8 /\ \A i \in 1..8 : Slave104[i] = Setting("iec104_slave", keys[i], "written")
  BY <1>1, <1>5
<1>7. \A i \in 1..8 : Slave104[i].key = keys[i]
  BY <1>6 DEF Setting
<1>8. Distinct(Slave104)
  BY <1>2, <1>6, <1>7 DEF Distinct
<1>9. QED
  BY <1>5, <1>6, <1>8 DEF Reads

LEMMA Master104Reads == Reads(Master104)
<1> DEFINE P == {Setting("tag_file", "file", "written"), Setting("csv_file_path", "path", "written"),
                 Setting("C_IC_NA", "qoi", "written"), Setting("C_CI_NA", "qoi", "written"),
                 Setting("DBServer", "rtu_sn", "written"), Setting("DBServer", "ip", "list")}
<1>1. Master104 \in Seq(P) /\ Len(Master104) = 6
  BY DEF Master104
<1>2. /\ Master104[1].section = "tag_file" /\ Master104[2].section = "csv_file_path"
      /\ Master104[3].section = "C_IC_NA" /\ Master104[4].section = "C_CI_NA"
      /\ Master104[5].section = "DBServer" /\ Master104[6].section = "DBServer"
      /\ Master104[5].key = "rtu_sn" /\ Master104[6].key = "ip"
  BY DEF Master104, Setting
<1>3. \A i \in 1..6 : i = 1 \/ i = 2 \/ i = 3 \/ i = 4 \/ i = 5 \/ i = 6
  OBVIOUS
<1>4. \A i, j \in 1..6 : i # j => Master104[j].section # Master104[i].section \/ Master104[j].key # Master104[i].key
  BY <1>2, <1>3
<1>5. QED
  BY <1>1, <1>4 DEF Reads, Distinct

LEMMA Client104Reads == Reads(Client104)
<1>1. Client104 = Master104
  BY DEF Master104, Client104
<1>2. QED
  BY <1>1, Master104Reads

(* Two sequences, one behind the other.                                       *)
LEMMA Concatenated ==
    ASSUME NEW S, NEW s \in Seq(S), NEW t \in Seq(S)
    PROVE  /\ s \o t \in Seq(S) /\ Len(s \o t) = Len(s) + Len(t)
           /\ \A i \in 1..Len(s) : (s \o t)[i] = s[i]
           /\ \A i \in (Len(s) + 1)..(Len(s) + Len(t)) : (s \o t)[i] = t[i - Len(s)]
<1>1. s \o t \in Seq(S) /\ Len(s \o t) = Len(s) + Len(t)
  OBVIOUS
<1>2. \A i \in 1..Len(s) : (s \o t)[i] = s[i]
  OBVIOUS
<1>3. \A i \in (Len(s) + 1)..(Len(s) + Len(t)) : (s \o t)[i] = t[i - Len(s)]
  OBVIOUS
<1>4. QED
  BY <1>1, <1>2, <1>3

LEMMA Master103Reads == Reads(Master103)
<1> DEFINE keys == <<"step_mode", "write_tag_to_csv_file", "display", "csv_file_path">>
           K == {"step_mode", "write_tag_to_csv_file", "display", "csv_file_path", "file_node", "file"}
           S == {"Serial:0", "tag_file", "tag_file_optimized", "others"}
           P == SettingsIn(S, K, {"plain", "written"})
           u == <<Setting("Serial:0", "file_node", "plain"), Setting("tag_file", "file", "written"),
                  Setting("tag_file_optimized", "file", "written")>>
           v == Each("others", keys, "written")
<1>1. keys \in Seq(K) /\ Len(keys) = 4
  OBVIOUS
<1>2. \A i, j \in 1..4 : i # j => keys[i] # keys[j]
  OBVIOUS
<1>3. u \in Seq(P) /\ Len(u) = 3
  <2> DEFINE x == Setting("Serial:0", "file_node", "plain")
             y == Setting("tag_file", "file", "written")
             z == Setting("tag_file_optimized", "file", "written")
  <2>1. x \in P /\ y \in P /\ z \in P
    BY DEF Setting, SettingsIn
  <2> HIDE DEF P, x, y, z
  <2>2. <<x, y, z>> \in Seq(P) /\ Len(<<x, y, z>>) = 3
    BY <2>1
  <2>3. QED
    BY <2>2 DEF x, y, z
<1>4. /\ u[1].how = "plain" /\ u[1].section = "Serial:0"
      /\ u[2].section = "tag_file" /\ u[3].section = "tag_file_optimized"
  BY DEF Setting
<1>5. "others" \in S /\ "written" \in {"plain", "written"}
  OBVIOUS
<1>6. Master103 = u \o v
  BY DEF Master103
<1> HIDE DEF keys, K, S, u
<1>7. v \in Seq(P) /\ Len(v) = 4 /\ \A i \in 1..4 : v[i] = Setting("others", keys[i], "written")
  BY <1>1, <1>5, EachSetting
<1> HIDE DEF P, v
<1>a. /\ u \o v \in Seq(P) /\ Len(u \o v) = Len(u) + Len(v)
      /\ \A i \in 1..Len(u) : (u \o v)[i] = u[i]
      /\ \A i \in (Len(u) + 1)..(Len(u) + Len(v)) : (u \o v)[i] = v[i - Len(u)]
  BY <1>3, <1>7, Concatenated
<1>8. Master103 \in Seq(P) /\ Len(Master103) = 7
  BY <1>3, <1>6, <1>7, <1>a
<1>9. Master103[1] = u[1] /\ Master103[2] = u[2] /\ Master103[3] = u[3]
  <2>1. \A i \in 1..3 : Master103[i] = u[i]
    BY <1>3, <1>6, <1>a
  <2>2. QED
    BY <2>1
<1>10. \A i \in 4..7 : Master103[i] = v[i - 3] /\ i - 3 \in 1..4
  <2>1. Len(u) + 1 = 4 /\ Len(u) + Len(v) = 7
    BY <1>3, <1>7
  <2>2. \A i \in 4..7 : Master103[i] = v[i - 3]
    BY <1>3, <1>6, <1>a, <2>1
  <2>3. \A i \in 4..7 : i - 3 \in 1..4
    OBVIOUS
  <2>4. QED
    BY <2>2, <2>3
<1>11. \A i \in 4..7 : Master103[i].section = "others" /\ Master103[i].key = keys[i - 3]
  BY <1>7, <1>10 DEF Setting
<1>12. \A i, j \in 4..7 : i # j => Master103[i].key # Master103[j].key
  <2>1. \A i, j \in 4..7 : i # j => i - 3 # j - 3
    OBVIOUS
  <2>2. QED
    BY <1>2, <1>10, <1>11, <2>1
<1>13. \A i \in 1..7 : i = 1 \/ i = 2 \/ i = 3 \/ i \in 4..7
  OBVIOUS
<1>14. ASSUME NEW i \in 1..7, NEW j \in 1..7, i # j, Master103[i].how = "written"
       PROVE  Master103[j].section # Master103[i].section \/ Master103[j].key # Master103[i].key
  BY <1>14, <1>4, <1>9, <1>11, <1>12, <1>13
<1>15. QED
  BY <1>8, <1>14 DEF Reads, Distinct

(* What the steps need of the programs.                                       *)
LEMMA ProgramsRead ==
    ASSUME NEW p \in Programs
    PROVE  /\ Reads(p) /\ DOMAIN p = 1..Len(p) /\ Len(p) \in Nat /\ 1 \in 1..Len(p)
           /\ DOMAIN p \subseteq Slots
           /\ \A i \in 1..Len(p) : p[i].section \in Words /\ p[i].key \in Words
<1>1. Reads(p)
  BY CollectorReads, Slave104Reads, Master104Reads, Client104Reads, Master103Reads DEF Programs
<1>2. PICK S : p \in Seq(S)
  BY <1>1 DEF Reads
<1>3. DOMAIN p = 1..Len(p) /\ Len(p) \in Nat
  BY <1>2
<1>4. Len(p) > 0
  BY <1>1 DEF Reads
<1>5. \A i \in DOMAIN p : p[i].section \in Words /\ p[i].key \in Words
  BY ProgramsAssumption
<1>6. DOMAIN p \subseteq Slots
  BY DEF Slots
<1>7. 1 \in 1..Len(p)
  BY <1>3, <1>4
<1>8. QED
  BY <1>1, <1>3, <1>5, <1>6, <1>7

(* What a file says of a setting, and of all, to a program. *)
SaysTo(p, f, s) ==
    LET g == ConfigGetKey(f, p[s].section, p[s].key)
        taken == IF p[s].how = "list" THEN Items(g.value) ELSE g.value
    IN  IF g.ret = "CFG_OK" THEN Given(taken) ELSE IF Lacks(g.ret) THEN Absent ELSE Unreadable

StoreOf(p, f) == [s \in Slots |-> IF s \in DOMAIN p THEN SaysTo(p, f, s) ELSE Absent]

(* A value, none and an unreadable one are told apart.                        *)
LEMMA Distinguished ==
    /\ \A text : Given(text) # Absent /\ Given(text) # Unreadable
    /\ Absent # Unreadable
    /\ Default \in Seq(Words) /\ Len(Default) <= MaxText
<1>1. Default \in Seq(Words) /\ Len(Default) = 1
  <2> DEFINE w == "default"
  <2>1. w \in Words
    BY ProgramsAssumption
  <2> HIDE DEF w
  <2>2. <<w>> \in Seq(Words) /\ Len(<<w>>) = 1
    BY <2>1
  <2>3. QED
    BY <2>2 DEF Default, w
<1>2. QED
  BY <1>1, MaxTextAssumption DEF Given, Absent, Unreadable, None

(* A default that is put where the setting is missing. *)
LEMMA PutSays ==
    ASSUME NEW p \in Programs, NEW i \in 1..Len(p), p[i].how = "written",
           NEW f, Understood(f), NEW new, Puts(f, new, p[i].section, p[i].key, Default),
           LET ret == ConfigGetKey(f, p[i].section, p[i].key).ret IN ret # "CFG_OK" /\ Lacks(ret)
    PROVE  /\ SaysTo(p, f, i) = Absent
           /\ Whole(f) => /\ Whole(new) /\ SaysTo(p, new, i) = Given(Default)
                          /\ \A s \in 1..Len(p) : s # i => SaysTo(p, new, s) = SaysTo(p, f, s)
                          /\ StoreOf(p, new) = [StoreOf(p, f) EXCEPT ![i] = Given(Default)]
<1>1. SaysTo(p, f, i) = Absent
  BY DEF SaysTo
<1>2. ASSUME Whole(f)
      PROVE  /\ Whole(new) /\ SaysTo(p, new, i) = Given(Default)
             /\ \A s \in 1..Len(p) : s # i => SaysTo(p, new, s) = SaysTo(p, f, s)
  <2>1. /\ Whole(new)
        /\ ConfigGetKey(new, p[i].section, p[i].key).ret = "CFG_OK"
        /\ ConfigGetKey(new, p[i].section, p[i].key).value = Default
        /\ \A other, name : other # p[i].section \/ name # p[i].key =>
              SaysSame(ConfigGetKey(f, other, name), ConfigGetKey(new, other, name))
    BY <1>2 DEF Puts
  <2>2. SaysTo(p, new, i) = Given(Default)
    BY <2>1 DEF SaysTo
  <2>3. ASSUME NEW s \in 1..Len(p), s # i PROVE SaysTo(p, new, s) = SaysTo(p, f, s)
    <3>1. p[s].section # p[i].section \/ p[s].key # p[i].key
      BY <2>3, ProgramsRead DEF Reads, Distinct
    <3>2. SaysSame(ConfigGetKey(f, p[s].section, p[s].key), ConfigGetKey(new, p[s].section, p[s].key))
      BY <2>1, <3>1
    <3>3. QED
      BY <3>2 DEF SaysSame, SaysTo
  <2>4. QED
    BY <2>1, <2>2, <2>3
<1>3. ASSUME Whole(f) PROVE StoreOf(p, new) = [StoreOf(p, f) EXCEPT ![i] = Given(Default)]
  <2>1. DOMAIN p = 1..Len(p) /\ i \in Slots
    BY ProgramsRead
  <2>2. QED
    BY <1>2, <1>3, <2>1 DEF StoreOf
<1>4. QED
  BY <1>1, <1>2, <1>3

(* An emptied file has no setting.                                            *)
LEMMA EmptiedSays ==
    ASSUME NEW p \in Programs
    PROVE  StoreOf(p, Emptied) = [s \in Slots |-> Absent] /\ Whole(Emptied)
<1>1. Emptied.lines = <<>> /\ Emptied.exists /\ Emptied.ended
  BY DEF Emptied
<1>2. <<>> \in Lines /\ 1..Len(<<>>) = {} /\ DOMAIN <<>> = {}
  BY DEF Lines
<1>3. Whole(Emptied)
  BY <1>1, <1>2 DEF Whole
<1>4. \A section : FindSection(<<>>, section) = [ret |-> "CFG_SECTION_NOT_FOUND", line |-> 0]
  BY <1>2, SectionNone
<1>5. \A section, key : ConfigGetKey(Emptied, section, key).ret = "CFG_SECTION_NOT_FOUND"
  BY <1>1, <1>4 DEF ConfigGetKey, NotFound
<1>6. \A s : SaysTo(p, Emptied, s) = Absent
  BY <1>5 DEF SaysTo, Lacks, Appends
<1>7. QED
  BY <1>3, <1>6 DEF StoreOf
-----------------------------------------------------------------------------
(* Where the program is. *)
Reading ==
    /\ reader \in Programs /\ at \in 1..Len(reader)
    /\ doing \in {"get", "set", "copy", "fill", "ready", "ended", "killed"}
    /\ faults \in Nat
    /\ loaded = [s \in Slots |-> loaded[s]]
    /\ doing = "ready" => at = Len(reader)

(* While a default is written, the setting is missing from the file; the     *)
(* temporary file is the file with the default, or empty after a fault.      *)
WritingInv ==
    /\ Understood(file) /\ Understood(original)
    /\ doing \in {"set", "copy", "fill"} => reader[at].how = "written" /\ loaded[at] = Given(Default)
    /\ doing \in {"set", "copy"} => Outcome(file) # "CFG_OK"
    /\ doing = "copy" =>
        /\ Rewrites(Outcome(file))
        /\ \/ temp = Rewritten(file, reader[at].section, reader[at].key, Default)
           \/ temp = Emptied /\ faults > 0
    /\ doing = "fill" => file = Emptied /\ Understood(temp)

(* The settings behind the program; those it has not come to may be read in  *)
(* the same way as at first.                                                 *)
KeptInv ==
    faults = 0 /\ Whole(original) =>
        /\ Whole(Current)
        /\ \A s \in 1..Len(reader) :
            /\ SaysTo(reader, original, s) \notin {Absent, Unreadable} =>
                  SaysTo(reader, Current, s) = SaysTo(reader, original, s)
            /\ reader[s].how = "written" /\ (s < at \/ (s = at /\ doing \in {"fill", "ready"})) =>
                  SaysTo(reader, Current, s) \in {loaded[s], Unreadable}

(* The inductive invariant. *)
LoadInv == Reading /\ WritingInv /\ KeptInv

(* An emptied file is well-formed.                                            *)
LEMMA EmptiedUnderstood == Understood(Emptied)
<1>1. Emptied.lines = <<>> /\ Emptied.exists /\ Emptied.ended = TRUE
  BY DEF Emptied
<1>2. <<>> \in Lines /\ 1..Len(<<>>) = {}
  BY DEF Lines
<1>3. QED
  BY <1>1, <1>2 DEF Understood

(* The first start.                                                           *)
LEMMA ConfigStarts == ConfigInit => LoadInv
<1> SUFFICES ASSUME ConfigInit PROVE LoadInv
  OBVIOUS
<1>1. PICK i \in Installed : reader = i[1] /\ file = i[2]
  BY DEF ConfigInit
<1>2. reader \in Programs
  BY <1>1, InstalledAssumption
<1>3. Understood(file)
  <2>1. CASE file = Missing
    BY <2>1 DEF Understood
  <2>2. CASE file # Missing
    <3>1. /\ file.exists /\ file.ended \in BOOLEAN /\ file.lines \in Seq(Line)
          /\ \A n \in DOMAIN file.lines : file.lines[n].t = "section" => ~file.lines[n].more
      BY <1>1, <2>2, InstalledAssumption
    <3>2. DOMAIN file.lines = 1..Len(file.lines)
      BY <3>1
    <3>3. QED
      BY <3>1, <3>2 DEF Understood, Lines
  <2>3. QED
    BY <2>1, <2>2
<1>4. Reading
  <2>1. at \in 1..Len(reader)
    BY <1>2, ProgramsRead DEF ConfigInit
  <2>2. loaded = [s \in Slots |-> loaded[s]]
    BY DEF ConfigInit
  <2>3. QED
    BY <1>2, <2>1, <2>2 DEF ConfigInit, Reading
<1>5. WritingInv
  BY <1>3 DEF ConfigInit, WritingInv
<1>6. KeptInv
  <2>1. Current = original
    BY DEF ConfigInit, Current
  <2>2. \A s \in 1..Len(reader) : ~(s < 1)
    BY <1>2, ProgramsRead
  <2>3. at = 1 /\ doing = "get"
    BY DEF ConfigInit
  <2>4. QED
    BY <2>1, <2>2, <2>3 DEF KeptInv
<1>7. QED
  BY <1>4, <1>5, <1>6 DEF LoadInv

(* What the file says next, or will say when it is full again: the same, or  *)
(* the default in addition, or after a fault nothing.                        *)
Moves ==
    \/ Current' = Current
    \/ /\ doing \in {"set", "copy"} /\ doing' # "set" /\ Lacks(Outcome(Current)) /\ Outcome(Current) # "CFG_OK"
       /\ Puts(Current, Current', reader[at].section, reader[at].key, Default)
       /\ UNCHANGED <<loaded, faults>>
    \/ Current' = Emptied /\ faults' > 0

(* On to the next setting, or ready.                                          *)
LEMMA Advances ==
    ASSUME Reading, Advance, reader' = reader
    PROVE  /\ at' \in 1..Len(reader') /\ doing' \in {"get", "ready"}
           /\ doing' = "ready" => at' = Len(reader') /\ at' = at
           /\ doing' = "get" => at' = at + 1
<1>1. at \in 1..Len(reader) /\ Len(reader) \in Nat
  BY ProgramsRead DEF Reading
<1>2. QED
  BY <1>1 DEF Advance

(* Every step keeps the first two parts, and changes what the file says in one *)
(* of the ways of Moves only.                                                  *)
LEMMA ConfigStep ==
    ASSUME Reading, WritingInv, ConfigNext
    PROVE  /\ Reading' /\ WritingInv' /\ Moves
           /\ reader' = reader /\ original' = original
<1> USE DEF Current
<1>0. /\ reader \in Programs /\ at \in 1..Len(reader) /\ Len(reader) \in Nat /\ at \in Slots
      /\ reader[at].section \in Words /\ reader[at].key \in Words
      /\ Default \in Seq(Words) /\ Len(Default) <= MaxText
  BY ProgramsRead, Distinguished DEF Reading
<1>1. reader' = reader /\ original' = original
  BY DEF ConfigNext, Found, UseDefault, GivesUp, ConfigSetKey, SetRefused, SetAppends, SetTemp, CopyOpens, CopyFills,
         Killed, Restart, rest
<1>2. CASE Found
  <2>1. Advance /\ doing = "get" /\ UNCHANGED <<file, faults>> /\ loaded' = [loaded EXCEPT ![at] = Given(Taken(at, Get(file, at).value))]
    BY <1>2 DEF Found
  <2>2. loaded' = [s \in Slots |-> loaded'[s]]
    BY <2>1, <1>0 DEF Reading
  <2>3. Reading'
    BY <1>0, <1>1, <2>1, <2>2, Advances DEF Reading
  <2>4. WritingInv'
    BY <1>1, <2>1, Advances DEF WritingInv
  <2>5. Moves
    BY <1>1, <2>1, Advances DEF Moves
  <2>6. QED
    BY <1>1, <2>3, <2>4, <2>5
<1>3. CASE UseDefault
  <2>1. /\ doing = "get" /\ UNCHANGED <<file, faults>> /\ loaded' = [loaded EXCEPT ![at] = Given(Default)]
        /\ Get(file, at).ret # "CFG_OK"
        /\ \/ reader[at].how = "written" /\ doing' = "set" /\ at' = at
           \/ Advance
    BY <1>3 DEF UseDefault
  <2>2. loaded' = [s \in Slots |-> loaded'[s]] /\ loaded'[at] = Given(Default)
    BY <2>1, <1>0 DEF Reading
  <2>3. CASE reader[at].how = "written" /\ doing' = "set" /\ at' = at
    <3>1. Reading'
      BY <1>0, <1>1, <2>1, <2>2, <2>3 DEF Reading
    <3>2. WritingInv'
      BY <1>1, <2>1, <2>2, <2>3 DEF WritingInv, Outcome, Get
    <3>3. Moves
      BY <2>1, <2>3 DEF Moves
    <3>4. QED
      BY <1>1, <3>1, <3>2, <3>3
  <2>4. CASE Advance
    <3>1. Reading'
      BY <1>0, <1>1, <2>1, <2>2, <2>4, Advances DEF Reading
    <3>2. WritingInv'
      BY <1>1, <2>1, <2>4, Advances DEF WritingInv
    <3>3. Moves
      BY <1>1, <2>1, <2>4, Advances DEF Moves
    <3>4. QED
      BY <1>1, <3>1, <3>2, <3>3
  <2>5. QED
    BY <2>1, <2>3, <2>4
<1>4. CASE GivesUp
  <2>1. doing = "get" /\ doing' = "ended" /\ UNCHANGED <<file, temp, at, loaded, faults>>
    BY <1>4 DEF GivesUp
  <2>2. QED
    BY <1>1, <2>1 DEF Reading, WritingInv, Moves
<1>5. CASE SetRefused
  <2>1. doing = "set" /\ Advance /\ UNCHANGED <<file, loaded>> /\ faults' \in Nat
    BY <1>5 DEF SetRefused, Reading
  <2>2. Reading'
    BY <1>1, <2>1, Advances DEF Reading
  <2>3. WritingInv'
    BY <1>1, <2>1, Advances DEF WritingInv
  <2>4. Moves
    BY <1>1, <2>1, Advances DEF Moves
  <2>5. QED
    BY <1>1, <2>2, <2>3, <2>4
<1>6. CASE SetAppends
  <2>1. /\ doing = "set" /\ Appends(Outcome(file)) /\ Advance /\ UNCHANGED <<loaded, faults>>
        /\ file' = Append2(file, reader[at].section, reader[at].key, Default)
    BY <1>6 DEF SetAppends
  <2>2. Puts(file, file', reader[at].section, reader[at].key, Default)
    BY <1>0, <2>1, AppendPuts DEF WritingInv, Outcome, Get
  <2>3. Reading'
    BY <1>1, <2>1, Advances DEF Reading
  <2>4. WritingInv'
    BY <1>1, <2>1, <2>2, Advances DEF WritingInv, Puts
  <2>5. Moves
    BY <1>1, <2>1, <2>2, Advances DEF Moves, WritingInv, Lacks
  <2>6. QED
    BY <1>1, <2>3, <2>4, <2>5
<1>7. CASE SetTemp
  <2>1. /\ doing = "set" /\ Rewrites(Outcome(file)) /\ doing' = "copy" /\ UNCHANGED <<file, at, loaded>>
        /\ \/ /\ temp' = Rewritten(file, reader[at].section, reader[at].key, Default)
              /\ UNCHANGED faults
           \/ faults' = faults + 1 /\ temp' = Emptied
    BY <1>7 DEF SetTemp
  <2>2. faults' \in Nat /\ (faults' = faults + 1 => faults' > 0)
    BY <2>1 DEF Reading
  <2>3. Reading'
    BY <1>1, <2>1, <2>2 DEF Reading
  <2>4. WritingInv'
    BY <1>1, <2>1, <2>2 DEF WritingInv, Outcome, Get
  <2>5. Moves
    BY <2>1 DEF Moves
  <2>6. QED
    BY <1>1, <2>3, <2>4, <2>5
<1>8. CASE CopyOpens
  <2>1. doing = "copy" /\ doing' = "fill" /\ file' = Emptied /\ UNCHANGED <<temp, at, loaded, faults>>
    BY <1>8 DEF CopyOpens
  <2>2. Reading'
    BY <1>1, <2>1 DEF Reading
  <2>3. CASE temp = Rewritten(file, reader[at].section, reader[at].key, Default)
    <3>1. ConfigGetKey(file, reader[at].section, reader[at].key).ret = "CFG_KEY_NOT_FOUND"
      BY <2>1 DEF WritingInv, Outcome, Get, Rewrites
    <3>2. Puts(file, temp, reader[at].section, reader[at].key, Default)
      BY <1>0, <2>3, <3>1, RewritePuts DEF WritingInv
    <3>3. WritingInv'
      BY <1>1, <2>1, <3>2, EmptiedUnderstood DEF WritingInv, Puts
    <3>4. Moves
      BY <2>1, <3>2 DEF Moves, WritingInv, Lacks
    <3>5. QED
      BY <1>1, <2>2, <3>3, <3>4
  <2>4. CASE temp = Emptied /\ faults > 0
    <3>1. WritingInv'
      BY <1>1, <2>1, <2>4, EmptiedUnderstood DEF WritingInv
    <3>2. Moves
      BY <2>1, <2>4 DEF Moves
    <3>3. QED
      BY <1>1, <2>2, <3>1, <3>2
  <2>5. QED
    BY <2>1, <2>3, <2>4 DEF WritingInv
<1>9. CASE CopyFills
  <2>1. /\ doing = "fill" /\ Advance /\ UNCHANGED loaded
        /\ (file' = temp /\ faults' = faults) \/ (faults' = faults + 1 /\ file' = file)
    BY <1>9 DEF CopyFills
  <2>2. faults' \in Nat /\ (faults' = faults + 1 => faults' > 0)
    BY <2>1 DEF Reading
  <2>3. Reading'
    BY <1>1, <2>1, <2>2, Advances DEF Reading
  <2>4. WritingInv'
    BY <1>1, <2>1, Advances DEF WritingInv
  <2>5. Moves
    BY <1>1, <2>1, <2>2, Advances DEF Moves, WritingInv
  <2>6. QED
    BY <1>1, <2>3, <2>4, <2>5
<1>10. CASE Killed
  <2>1. /\ doing \in {"get", "set", "copy", "fill"} /\ doing' = "killed" /\ UNCHANGED <<file, at>>
        /\ faults' = faults + 1 /\ loaded' = [s \in Slots |-> NotLoaded]
    BY <1>10 DEF Killed
  <2>2. faults' \in Nat /\ faults' > 0 /\ loaded' = [s \in Slots |-> loaded'[s]]
    BY <2>1 DEF Reading
  <2>3. Reading'
    BY <1>1, <2>1, <2>2 DEF Reading
  <2>4. WritingInv'
    BY <1>1, <2>1 DEF WritingInv
  <2>5. Moves
    BY <2>1, <2>2 DEF Moves, WritingInv
  <2>6. QED
    BY <1>1, <2>3, <2>4, <2>5
<1>11. CASE Restart
  <2>1. /\ doing \in {"ready", "ended", "killed"} /\ doing' = "get" /\ at' = 1 /\ UNCHANGED <<file, faults>>
        /\ loaded' = [s \in Slots |-> NotLoaded]
    BY <1>11 DEF Restart
  <2>2. loaded' = [s \in Slots |-> loaded'[s]] /\ at' \in 1..Len(reader')
    BY <1>0, <1>1, <2>1, ProgramsRead
  <2>3. Reading'
    BY <1>1, <2>1, <2>2 DEF Reading
  <2>4. WritingInv'
    BY <1>1, <2>1 DEF WritingInv
  <2>5. Moves
    BY <2>1 DEF Moves
  <2>6. QED
    BY <1>1, <2>3, <2>4, <2>5
<1>12. QED
  BY <1>2, <1>3, <1>4, <1>5, <1>6, <1>7, <1>8, <1>9, <1>10, <1>11 DEF ConfigNext, ConfigSetKey

(* The settings the program has come past. *)
Past(s) == s < at \/ (s = at /\ doing \in {"fill", "ready"})

(* A setting that the program passes keeps what was taken for it, or the     *)
(* file says just that, or its default is put.                               *)
LEMMA ConfigPasses ==
    ASSUME Reading, WritingInv, ConfigNext, NEW s \in 1..Len(reader), reader[s].how = "written", Past(s)', faults' = 0
    PROVE  \/ Past(s) /\ loaded'[s] = loaded[s]
           \/ s = at /\ Current' = Current /\ SaysTo(reader, Current, s) \in {loaded'[s], Unreadable}
           \/ /\ s = at /\ doing \in {"set", "copy"} /\ loaded'[s] = Given(Default)
              /\ Puts(Current, Current', reader[at].section, reader[at].key, Default)
<1> USE DEF Current
<1>0. /\ reader \in Programs /\ at \in 1..Len(reader) /\ Len(reader) \in Nat /\ at \in Slots /\ s \in Nat
      /\ reader[at].section \in Words /\ reader[at].key \in Words
      /\ Default \in Seq(Words) /\ Len(Default) <= MaxText /\ faults \in Nat /\ s \in Slots
  BY ProgramsRead, Distinguished DEF Reading
<1>1. reader' = reader
  BY ConfigStep
<1>a. Advance => s < at \/ s = at
  <2>1. SUFFICES ASSUME Advance PROVE s < at \/ s = at
    OBVIOUS
  <2>2. (at' = at + 1 /\ doing' = "get") \/ (at' = at /\ doing' = "ready")
    BY <2>1, <1>1, Advances
  <2>3. QED
    BY <2>2, <1>0 DEF Past
<1>2. CASE Found
  <2>1. Advance /\ doing = "get" /\ UNCHANGED <<file, faults>> /\ loaded' = [loaded EXCEPT ![at] = Given(Taken(at, Get(file, at).value))]
        /\ Get(file, at).ret = "CFG_OK"
    BY <1>2 DEF Found
  <2>2. CASE s < at
    <3>1. s # at
      BY <2>2, <1>0
    <3>2. loaded'[s] = loaded[s]
      BY <2>1, <1>0, <3>1 DEF Reading
    <3>3. QED
      BY <2>2, <3>2 DEF Past
  <2>3. CASE s = at
    <3>1. loaded'[s] = Given(Taken(s, Get(file, s).value))
      BY <2>1, <2>3, <1>0 DEF Reading
    <3>2. SaysTo(reader, Current, s) = loaded'[s] /\ Current' = Current
      <4>1. Current = file /\ Current' = file
        BY <1>1, <2>1, Advances
      <4>2. SaysTo(reader, file, s) = loaded'[s]
        BY <2>1, <2>3, <3>1 DEF SaysTo, Get, Taken
      <4>3. QED
        BY <4>1, <4>2
    <3>3. QED
      BY <2>3, <3>2
  <2>4. QED
    BY <2>1, <2>2, <2>3, <1>a
<1>3. CASE UseDefault
  <2>1. /\ doing = "get" /\ loaded' = [loaded EXCEPT ![at] = Given(Default)]
        /\ \/ reader[at].how = "written" /\ doing' = "set" /\ at' = at
           \/ reader[at].how # "written" /\ Advance
    BY <1>3 DEF UseDefault
  <2>2. s < at
    BY <2>1, <1>a DEF Past
  <2>3. s # at
    BY <2>2, <1>0
  <2>4. loaded'[s] = loaded[s]
    BY <2>1, <1>0, <2>3 DEF Reading
  <2>5. QED
    BY <2>2, <2>4 DEF Past
<1>4. CASE GivesUp
  BY <1>4 DEF GivesUp, Past
<1>5. CASE SetRefused
  <2>1. /\ doing = "set" /\ Advance /\ UNCHANGED <<file, loaded>>
        /\ (~Appends(Outcome(file)) /\ ~Rewrites(Outcome(file))) \/ faults' = faults + 1
    BY <1>5 DEF SetRefused
  <2>2. ~Lacks(Outcome(file)) /\ Outcome(file) # "CFG_OK"
    BY <2>1, <1>0 DEF Lacks, WritingInv
  <2>3. CASE s = at
    <3>1. Current' = Current /\ Current = file
      BY <1>1, <2>1, Advances
    <3>2. SaysTo(reader, file, s) = Unreadable
      BY <2>2, <2>3 DEF SaysTo, Outcome, Get
    <3>3. QED
      BY <2>3, <3>1, <3>2
  <2>4. QED
    BY <2>1, <2>3, <1>a DEF Past
<1>6. CASE SetAppends
  <2>1. /\ doing = "set" /\ Appends(Outcome(file)) /\ Advance /\ UNCHANGED <<loaded, faults>>
        /\ file' = Append2(file, reader[at].section, reader[at].key, Default)
    BY <1>6 DEF SetAppends
  <2>2. Puts(file, file', reader[at].section, reader[at].key, Default)
    BY <1>0, <2>1, AppendPuts DEF WritingInv, Outcome, Get
  <2>3. Current = file /\ Current' = file'
    BY <1>1, <2>1, Advances
  <2>4. loaded[at] = Given(Default)
    BY <2>1 DEF WritingInv
  <2>5. QED
    BY <2>1, <2>2, <2>3, <2>4, <1>a DEF Past
<1>7. CASE SetTemp
  BY <1>7 DEF SetTemp, Past
<1>8. CASE CopyOpens
  <2>1. doing = "copy" /\ doing' = "fill" /\ UNCHANGED <<temp, at, loaded, faults>>
    BY <1>8 DEF CopyOpens
  <2>2. temp = Rewritten(file, reader[at].section, reader[at].key, Default)
    BY <2>1, <1>0 DEF WritingInv
  <2>3. ConfigGetKey(file, reader[at].section, reader[at].key).ret = "CFG_KEY_NOT_FOUND"
    BY <2>1 DEF WritingInv, Outcome, Get, Rewrites
  <2>4. Puts(file, temp, reader[at].section, reader[at].key, Default)
    BY <1>0, <2>2, <2>3, RewritePuts DEF WritingInv
  <2>5. Current = file /\ Current' = temp /\ loaded[at] = Given(Default)
    BY <2>1 DEF WritingInv
  <2>6. QED
    BY <2>1, <2>4, <2>5 DEF Past
<1>9. CASE CopyFills
  BY <1>9, <1>a DEF CopyFills, Past
<1>10. CASE Killed
  BY <1>10, <1>0 DEF Killed
<1>11. CASE Restart
  BY <1>11, <1>0 DEF Restart, Past
<1>12. QED
  BY <1>2, <1>3, <1>4, <1>5, <1>6, <1>7, <1>8, <1>9, <1>10, <1>11 DEF ConfigNext, ConfigSetKey

(* So the settings keep what they had.                                        *)
LEMMA ConfigKeeps ==
    ASSUME LoadInv, ConfigNext
    PROVE  KeptInv'
<1>1. /\ Reading /\ WritingInv /\ KeptInv /\ reader' = reader /\ original' = original
      /\ Reading' /\ Moves /\ reader \in Programs /\ at \in 1..Len(reader)
  BY ConfigStep DEF LoadInv, Reading
<1>2. SUFFICES ASSUME faults' = 0, Whole(original)
               PROVE  /\ Whole(Current')
                      /\ \A s \in 1..Len(reader) :
                          /\ SaysTo(reader, original, s) \notin {Absent, Unreadable} =>
                                SaysTo(reader, Current', s) = SaysTo(reader, original, s)
                          /\ reader[s].how = "written" /\ Past(s)' =>
                                SaysTo(reader, Current', s) \in {loaded'[s], Unreadable}
  BY <1>1 DEF KeptInv, Past
<1>3. faults = 0
  <2>1. faults' = faults \/ faults' = faults + 1
    BY DEF ConfigNext, Found, UseDefault, GivesUp, ConfigSetKey, SetRefused, SetAppends, SetTemp, CopyOpens, CopyFills,
           Killed, Restart
  <2>2. QED
    BY <1>1, <1>2, <2>1 DEF Reading
<1>4. /\ Whole(Current)
      /\ \A s \in 1..Len(reader) :
          /\ SaysTo(reader, original, s) \notin {Absent, Unreadable} =>
                SaysTo(reader, Current, s) = SaysTo(reader, original, s)
          /\ reader[s].how = "written" /\ Past(s) => SaysTo(reader, Current, s) \in {loaded[s], Unreadable}
  BY <1>1, <1>2, <1>3 DEF KeptInv, Past
<1>5. Understood(Current)
  BY <1>1 DEF WritingInv, Current
<1>6. CASE Current' = Current
  <2>1. ASSUME NEW s \in 1..Len(reader), reader[s].how = "written", Past(s)'
        PROVE  SaysTo(reader, Current', s) \in {loaded'[s], Unreadable}
    <3>1. \/ Past(s) /\ loaded'[s] = loaded[s]
          \/ s = at /\ SaysTo(reader, Current, s) \in {loaded'[s], Unreadable}
          \/ /\ s = at /\ doing \in {"set", "copy"} /\ loaded'[s] = Given(Default)
             /\ Puts(Current, Current', reader[at].section, reader[at].key, Default)
      BY <1>1, <1>2, <2>1, ConfigPasses
    <3>2. ~(Puts(Current, Current', reader[at].section, reader[at].key, Default) /\ doing \in {"set", "copy"})
      <4>1. SUFFICES ASSUME Puts(Current, Current', reader[at].section, reader[at].key, Default), doing \in {"set", "copy"}
                     PROVE  FALSE
        OBVIOUS
      <4>2. ConfigGetKey(Current, reader[at].section, reader[at].key).ret = "CFG_OK"
        BY <1>4, <1>6, <4>1 DEF Puts
      <4>3. QED
        BY <1>1, <4>1, <4>2 DEF WritingInv, Current, Outcome, Get
    <3>3. QED
      BY <1>4, <1>6, <2>1, <3>1, <3>2
  <2>2. QED
    BY <1>4, <1>6, <2>1
<1>7. CASE /\ doing \in {"set", "copy"} /\ Lacks(Outcome(Current)) /\ Outcome(Current) # "CFG_OK"
           /\ Puts(Current, Current', reader[at].section, reader[at].key, Default)
           /\ UNCHANGED <<loaded, faults>>
  <2>1. reader[at].how = "written" /\ loaded[at] = Given(Default)
    BY <1>1, <1>7 DEF WritingInv
  <2>2. /\ SaysTo(reader, Current, at) = Absent
        /\ Whole(Current') /\ SaysTo(reader, Current', at) = Given(Default)
        /\ \A s \in 1..Len(reader) : s # at => SaysTo(reader, Current', s) = SaysTo(reader, Current, s)
    <3>1. reader \in Programs /\ at \in 1..Len(reader)
      BY <1>1 DEF Reading
    <3>2. LET ret == ConfigGetKey(Current, reader[at].section, reader[at].key).ret
          IN  ret # "CFG_OK" /\ Lacks(ret)
      BY <1>7 DEF Outcome, Get
    <3>3. Whole(Current)
      BY <1>4
    <3>4. Puts(Current, Current', reader[at].section, reader[at].key, Default)
      BY <1>7
    <3> DEFINE now == Current
               next == Current'
    <3> HIDE DEF now, next
    <3>5. /\ Understood(now) /\ Puts(now, next, reader[at].section, reader[at].key, Default) /\ Whole(now)
          /\ LET ret == ConfigGetKey(now, reader[at].section, reader[at].key).ret
             IN  ret # "CFG_OK" /\ Lacks(ret)
      BY <1>5, <3>2, <3>3, <3>4 DEF now, next
    <3>6. /\ SaysTo(reader, now, at) = Absent
          /\ Whole(next) /\ SaysTo(reader, next, at) = Given(Default)
          /\ \A s \in 1..Len(reader) : s # at => SaysTo(reader, next, s) = SaysTo(reader, now, s)
      BY <2>1, <3>1, <3>5, PutSays
    <3>7. QED
      BY <3>6 DEF now, next
  <2>3. ASSUME NEW s \in 1..Len(reader), SaysTo(reader, original, s) \notin {Absent, Unreadable}
        PROVE  SaysTo(reader, Current', s) = SaysTo(reader, original, s)
    <3>1. s # at
      BY <1>4, <2>2, <2>3
    <3>2. QED
      BY <1>4, <2>2, <2>3, <3>1
  <2>4. ASSUME NEW s \in 1..Len(reader), reader[s].how = "written", Past(s)'
        PROVE  SaysTo(reader, Current', s) \in {loaded'[s], Unreadable}
    <3>1. CASE s = at
      BY <1>7, <2>1, <2>2, <3>1
    <3>2. CASE s # at
      <4>1. Past(s)
        BY <1>1, <1>2, <2>4, <3>2, ConfigPasses
      <4>2. QED
        BY <1>4, <1>7, <2>2, <2>4, <3>2, <4>1
    <3>3. QED
      BY <3>1, <3>2
  <2>5. QED
    BY <2>2, <2>3, <2>4
<1>8. CASE Current' = Emptied /\ faults' > 0
  BY <1>2, <1>8
<1>9. QED
  BY <1>1, <1>6, <1>7, <1>8 DEF Moves

(* All parts together.                                                        *)
LEMMA ConfigInvariance == ConfigSpec => []LoadInv
<1>1. LoadInv /\ [ConfigNext]_configVars => LoadInv'
  <2>1. CASE ConfigNext
    BY <2>1, ConfigStep, ConfigKeeps DEF LoadInv
  <2>2. CASE UNCHANGED configVars
    BY <2>2 DEF configVars, LoadInv, Reading, WritingInv, KeptInv, Current, Outcome, Get
  <2>3. QED
    BY <2>1, <2>2
<1>2. QED
  BY ConfigStarts, <1>1, PTL DEF ConfigSpec

(* Without a fault, and with a file whose last line is ended and whose continued *)
(* lines are not followed by nothing or by a header, whatever the number of      *)
(* starts: a setting the file had is found at every start with its value, and a  *)
(* program that is ready finds the defaults it wrote the next time.              *)
THEOREM ConfigKept == ConfigSpec => []UserSettingsKept
<1>1. LoadInv => UserSettingsKept
  <2>1. SUFFICES ASSUME LoadInv, faults = 0, Whole(original), NEW s \in Settings
                 PROVE  /\ Get(original, s).ret = "CFG_OK" => Says(Current, s) = Says(original, s)
                        /\ doing = "ready" /\ reader[s].how = "written" => Says(file, s) \in {loaded[s], Unreadable}
    BY DEF UserSettingsKept
  <2>2. s \in 1..Len(reader) /\ Len(reader) \in Nat /\ at \in 1..Len(reader)
    BY <2>1, ProgramsRead DEF LoadInv, Reading, Settings
  <2>3. \A f : Says(f, s) = SaysTo(reader, f, s)
    BY DEF Says, SaysTo, Get, Taken, Lacks
  <2>4. Get(original, s).ret = "CFG_OK" => SaysTo(reader, original, s) \notin {Absent, Unreadable}
    BY Distinguished DEF SaysTo, Get
  <2>5. doing = "ready" => s < at \/ s = at
    BY <2>1, <2>2 DEF LoadInv, Reading
  <2>6. doing = "ready" => Current = file
    BY DEF Current
  <2>7. QED
    BY <2>1, <2>2, <2>3, <2>4, <2>5, <2>6 DEF LoadInv, KeptInv
<1>2. QED
  BY <1>1, ConfigInvariance, PTL
-----------------------------------------------------------------------------
(* The store of ConfigStore, before a step and after it. *)
LEMMA StoreIs ==
    /\ [s \in Slots |-> IF s \in Settings THEN Says(Current, s) ELSE Absent] = StoreOf(reader, Current)
    /\ reader' = reader =>
         [s \in Slots |-> IF s \in Settings THEN Says(Current, s) ELSE Absent]' = StoreOf(reader, Current')
BY DEF StoreOf, Settings, Says, SaysTo, Get, Taken, Lacks

(* What a step does to the store of ConfigStore: nothing ...                  *)
LEMMA StoreStays ==
    ASSUME reader' = reader, Current' = Current, UNCHANGED <<loaded, faults>>
    PROVE  UNCHANGED Store!vars
BY StoreIs DEF Store!vars

(* ... a setting is loaded ...                                                *)
LEMMA StoreLoads ==
    ASSUME reader' = reader, Current' = Current, UNCHANGED faults, NEW s \in Slots,
           LET v == StoreOf(reader, Current)[s]
           IN  loaded' = [loaded EXCEPT ![s] = IF v \in {Absent, Unreadable} THEN Given(Default) ELSE v]
    PROVE  Store!Load(s)
BY StoreIs DEF Store!Load, Store!Value

(* ... a fault that loses nothing ...                                         *)
LEMMA StoreFaults ==
    ASSUME reader' = reader, Current' = Current, UNCHANGED loaded, faults' = faults + 1
    PROVE  Store!Fault
BY StoreIs DEF Store!Fault

(* ... a default is put ...                                                   *)
LEMMA StorePuts ==
    ASSUME Reading, WritingInv, reader' = reader, UNCHANGED <<loaded, faults>>, doing \in {"set", "copy"},
           Lacks(Outcome(Current)), Outcome(Current) # "CFG_OK",
           Puts(Current, Current', reader[at].section, reader[at].key, Default)
    PROVE  Store!Next
<1> DEFINE old == StoreOf(reader, Current)
           new == StoreOf(reader, Current')
<1>1. /\ reader \in Programs /\ at \in 1..Len(reader) /\ at \in Slots /\ at \in DOMAIN reader
      /\ reader[at].how = "written" /\ Understood(Current)
  BY ProgramsRead DEF Reading, WritingInv, Current
<1>a. PICK i \in Slots : i = at
  BY <1>1
<1>2. old[i] = Absent
  <2>1. SaysTo(reader, Current, at) = Absent
    BY <1>1, PutSays DEF Outcome, Get
  <2>2. QED
    BY <1>1, <1>a, <2>1 DEF StoreOf
<1>3. Whole(Current) \in BOOLEAN /\ Whole(Current') \in BOOLEAN
  BY <1>1, LinesOf DEF Puts
<1>4. CASE Whole(Current)
  <2>1. Whole(Current') /\ new = [old EXCEPT ![i] = Given(Default)]
    BY <1>1, <1>a, <1>4, PutSays DEF Outcome, Get
  <2>2. Whole(Current') = Whole(Current)
    BY <1>3, <1>4, <2>1
  <2> HIDE DEF old, new
  <2>3. [s \in Slots |-> IF s \in Settings THEN Says(Current, s) ELSE Absent] = old
    BY StoreIs DEF old
  <2>4. [s \in Slots |-> IF s \in Settings THEN Says(Current, s) ELSE Absent]' = new
    BY StoreIs DEF new
  <2>5. Store!Put(i)
    BY <1>2, <1>4, <2>1, <2>2, <2>3, <2>4 DEF Store!Put
  <2>6. QED
    BY <2>5 DEF Store!Next
<1>5. CASE ~Whole(Current)
  <2>1. Store!PutTorn(i)
    BY <1>2, <1>3, <1>5, StoreIs DEF Store!PutTorn
  <2>2. QED
    BY <2>1 DEF Store!Next
<1>6. QED
  BY <1>4, <1>5

(* ... a fault loses everything ...                                           *)
LEMMA StoreLoses ==
    ASSUME reader \in Programs, reader' = reader, Current' = Emptied, faults' > 0, faults' \in {faults, faults + 1},
           loaded' \in {loaded, [s \in Slots |-> NotLoaded]}
    PROVE  Store!Lose
<1>1. [s \in Slots |-> IF s \in Settings THEN Says(Current, s) ELSE Absent]' = [s \in Slots |-> Absent]
  <2>1. StoreOf(reader, Current') = [s \in Slots |-> Absent]
    BY EmptiedSays
  <2>2. QED
    BY <2>1, StoreIs
<1>2. Whole(Current') = TRUE
  <2>1. Whole(Current')
    BY EmptiedSays
  <2>2. Whole(Current') \in BOOLEAN
    BY EmptiedUnderstood, LinesOf
  <2>3. QED
    BY <2>1, <2>2
<1>3. QED
  BY <1>1, <1>2 DEF Store!Lose

(* ... a program starts again.                                                *)
LEMMA StoreStarts ==
    ASSUME reader' = reader, Current' = Current, faults' \in {faults, faults + 1},
           loaded' = [s \in Slots |-> NotLoaded]
    PROVE  Store!Start
BY StoreIs DEF Store!Start

(* Every step of a program is one of the store, or none.                      *)
LEMMA ConfigStepRefines ==
    ASSUME Reading, WritingInv, ConfigNext
    PROVE  Store!Next \/ UNCHANGED Store!vars
<1>0. /\ reader \in Programs /\ at \in 1..Len(reader) /\ at \in Slots /\ at \in DOMAIN reader
      /\ faults \in Nat /\ reader' = reader /\ Moves
  BY ConfigStep, ProgramsRead DEF Reading
<1>1. \A s \in Slots : Store!Load(s) \/ Store!Put(s) \/ Store!PutTorn(s) => Store!Next
  BY DEF Store!Next
<1>2. Store!Fault \/ Store!Lose \/ Store!Start => Store!Next
  BY DEF Store!Next
<1>3. StoreOf(reader, Current)[at] = SaysTo(reader, Current, at)
  BY <1>0 DEF StoreOf
<1>4. CASE Found
  <2>1. /\ Advance /\ doing = "get" /\ UNCHANGED <<file, faults>> /\ Get(file, at).ret = "CFG_OK"
        /\ loaded' = [loaded EXCEPT ![at] = Given(Taken(at, Get(file, at).value))]
    BY <1>4 DEF Found
  <2>2. Current = file /\ Current' = Current
    BY <1>0, <2>1, Advances DEF Current
  <2>3. SaysTo(reader, file, at) = Given(Taken(at, Get(file, at).value))
    BY <2>1 DEF SaysTo, Get, Taken
  <2>4. SaysTo(reader, file, at) \notin {Absent, Unreadable}
    BY <2>3, Distinguished
  <2>5. Store!Load(at)
    BY <1>0, <1>3, <2>1, <2>2, <2>3, <2>4, StoreLoads
  <2>6. QED
    BY <1>0, <1>1, <2>5
<1>5. CASE UseDefault
  <2>1. /\ doing = "get" /\ UNCHANGED <<file, faults>> /\ Get(file, at).ret # "CFG_OK"
        /\ loaded' = [loaded EXCEPT ![at] = Given(Default)]
        /\ doing' = "set" \/ Advance
    BY <1>5 DEF UseDefault
  <2>2. Current = file /\ Current' = Current
    BY <1>0, <2>1, Advances DEF Current
  <2>3. SaysTo(reader, file, at) \in {Absent, Unreadable}
    BY <2>1 DEF SaysTo, Get
  <2>4. Store!Load(at)
    BY <1>0, <1>3, <2>1, <2>2, <2>3, StoreLoads
  <2>5. QED
    BY <1>0, <1>1, <2>4
<1>6. CASE GivesUp
  <2>1. Current' = Current /\ UNCHANGED <<loaded, faults>>
    BY <1>6 DEF GivesUp, Current
  <2>2. QED
    BY <1>0, <2>1, StoreStays
<1>7. CASE SetRefused
  <2>1. doing = "set" /\ Advance /\ UNCHANGED <<file, loaded>> /\ faults' \in {faults, faults + 1}
    BY <1>7 DEF SetRefused
  <2>2. Current' = Current
    BY <1>0, <2>1, Advances DEF Current
  <2>3. QED
    BY <1>0, <1>2, <2>1, <2>2, StoreStays, StoreFaults
<1>8. CASE SetAppends
  <2>1. /\ doing = "set" /\ Appends(Outcome(file)) /\ Advance /\ UNCHANGED <<loaded, faults>>
        /\ file' = Append2(file, reader[at].section, reader[at].key, Default)
    BY <1>8 DEF SetAppends
  <2>2. /\ reader[at].section \in Words /\ reader[at].key \in Words
        /\ Default \in Seq(Words) /\ Len(Default) <= MaxText
    BY <1>0, ProgramsRead, Distinguished
  <2>3. Puts(file, file', reader[at].section, reader[at].key, Default)
    BY <2>1, <2>2, AppendPuts DEF WritingInv, Outcome, Get
  <2>4. Current = file /\ Current' = file'
    BY <1>0, <2>1, Advances DEF Current
  <2>5. QED
    BY <1>0, <2>1, <2>3, <2>4, StorePuts DEF WritingInv, Lacks
<1>9. CASE SetTemp
  <2>1. doing = "set" /\ doing' = "copy" /\ UNCHANGED <<file, loaded>> /\ faults' \in {faults, faults + 1}
    BY <1>9 DEF SetTemp
  <2>2. Current' = Current
    BY <2>1 DEF Current
  <2>3. QED
    BY <1>0, <1>2, <2>1, <2>2, StoreStays, StoreFaults
<1>10. CASE CopyOpens
  <2>1. doing = "copy" /\ doing' = "fill" /\ UNCHANGED <<temp, loaded, faults>>
    BY <1>10 DEF CopyOpens
  <2>2. Current = file /\ Current' = temp
    BY <2>1 DEF Current
  <2>3. CASE temp = Rewritten(file, reader[at].section, reader[at].key, Default)
    <3>1. /\ reader[at].section \in Words /\ reader[at].key \in Words
          /\ Default \in Seq(Words) /\ Len(Default) <= MaxText
      BY <1>0, ProgramsRead, Distinguished
    <3>2. ConfigGetKey(file, reader[at].section, reader[at].key).ret = "CFG_KEY_NOT_FOUND"
      BY <2>1 DEF WritingInv, Outcome, Get, Rewrites
    <3>3. Puts(file, temp, reader[at].section, reader[at].key, Default)
      BY <2>3, <3>1, <3>2, RewritePuts DEF WritingInv
    <3>4. QED
      BY <1>0, <2>1, <2>2, <3>3, StorePuts DEF WritingInv, Lacks
  <2>4. CASE temp = Emptied /\ faults > 0
    BY <1>0, <1>2, <2>1, <2>2, <2>4, StoreLoses
  <2>5. QED
    BY <2>1, <2>3, <2>4 DEF WritingInv
<1>11. CASE CopyFills
  <2>1. /\ doing = "fill" /\ Advance /\ UNCHANGED loaded
        /\ (file' = temp /\ faults' = faults) \/ (faults' = faults + 1 /\ file' = file)
    BY <1>11 DEF CopyFills
  <2>2. Current = temp /\ Current' = file' /\ file = Emptied
    BY <1>0, <2>1, Advances DEF Current, WritingInv
  <2>3. CASE file' = temp /\ faults' = faults
    BY <1>0, <2>1, <2>2, <2>3, StoreStays
  <2>4. CASE faults' = faults + 1 /\ file' = file
    <3>1. faults' > 0 /\ Current' = Emptied
      BY <1>0, <2>2, <2>4
    <3>2. QED
      BY <1>0, <1>2, <2>1, <2>4, <3>1, StoreLoses
  <2>5. QED
    BY <2>1, <2>3, <2>4
<1>12. CASE Killed
  <2>1. /\ doing \in {"get", "set", "copy", "fill"} /\ doing' = "killed" /\ UNCHANGED file
        /\ faults' = faults + 1 /\ loaded' = [s \in Slots |-> NotLoaded]
    BY <1>12 DEF Killed
  <2>2. CASE doing = "fill"
    <3>1. Current' = Emptied /\ faults' > 0
      BY <1>0, <2>1, <2>2 DEF Current, WritingInv
    <3>2. QED
      BY <1>0, <1>2, <2>1, <3>1, StoreLoses
  <2>3. CASE doing # "fill"
    <3>1. Current' = Current
      BY <2>1, <2>3 DEF Current
    <3>2. QED
      BY <1>0, <1>2, <2>1, <3>1, StoreStarts
  <2>4. QED
    BY <2>2, <2>3
<1>13. CASE Restart
  <2>1. /\ doing \in {"ready", "ended", "killed"} /\ doing' = "get" /\ UNCHANGED <<file, faults>>
        /\ loaded' = [s \in Slots |-> NotLoaded]
    BY <1>13 DEF Restart
  <2>2. Current' = Current
    BY <2>1 DEF Current
  <2>3. QED
    BY <1>0, <1>2, <2>1, <2>2, StoreStarts
<1>14. QED
  BY <1>4, <1>5, <1>6, <1>7, <1>8, <1>9, <1>10, <1>11, <1>12, <1>13 DEF ConfigNext, ConfigSetKey

(* The programs, with INIFileOP, keep the promise of ConfigStore: they put a     *)
(* default where a setting is missing and nowhere else, and what is lost is lost *)
(* by a crash or a full disk.                                                    *)
THEOREM ConfigRefinesStore == ConfigSpec => KeepsStore
<1>1. ConfigInit => Store!Init
  <2>1. SUFFICES ASSUME ConfigInit PROVE Store!Init
    OBVIOUS
  <2>2. Whole(Current) \in BOOLEAN
    BY <2>1, ConfigStarts, LinesOf DEF LoadInv, WritingInv, Current, ConfigInit
  <2>3. QED
    BY <2>1, <2>2 DEF ConfigInit, Store!Init
<1>2. LoadInv /\ [ConfigNext]_configVars => [Store!Next]_Store!vars
  <2>1. CASE LoadInv /\ ConfigNext
    BY <2>1, ConfigStepRefines DEF LoadInv
  <2>2. CASE UNCHANGED configVars
    <3>1. reader' = reader /\ Current' = Current /\ UNCHANGED <<loaded, faults>>
      BY <2>2 DEF configVars, Current
    <3>2. QED
      BY <3>1, StoreStays
  <2>3. QED
    BY <2>1, <2>2
<1>3. QED
  BY <1>1, <1>2, ConfigInvariance, PTL DEF ConfigSpec, KeepsStore, Store!Spec
=============================================================================
