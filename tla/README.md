# A TLA+ model of the wcx_trans data collector

`wcx_trans` collects measurements from devices on serial lines (Modbus over RTU
and TCP, IEC 60870-5-103) and reports them over TCP with IEC 60870-5-104.  This
directory holds TLA+ modules translated from its C and C++ source, the TLC
configurations that model-check them on small instances, and proofs that TLAPS
checks for every value of the constants.

Paths below are relative to `src/wcx_trans/`; `PROJECT.json` maps every
definition to the lines it stands for.

## 1. The system

```
 devices --- serial line --- collecting thread --\                      /-- client
             (Modbus)         (one per line)      > WRITE_REAL_VAL_TAG  |
 self-check ------------------------------------ /    (one queue)       |
                                                        | pop()         |
 operator -- thread_read_cmd (lock, free, reload)       v               |
                                                 IEC 104 master --> transfer server <-- client
                                                 (event loop)         (trans)          library
                                                 IEC 104 slave <-- any IEC 104 master
                                                   | remote control of the devices on the lines
 devices --- serial line --- iec103_master        data base -> cache of points -> both collectors
                             (a process of its own)
 modem --- pppd --- gsm_online                    *.ini files: read and completed at every start
```

The collector (`collect/collect.cpp`) is one process.  `main` loads the tags of
every serial line from SQLite, creates the thread of the commands, initialises
the mutex of each line, and creates one collecting thread per line, the
self-check thread, and the thread of the libevent loop of the IEC 104 master
and slave.  The IEC 103 master, the GSM dialler and, on the server, the transfer
server (`trans/`) are processes of their own; the transfer server relays between
the RTUs (collectors) and the clients that watch them.

### Inventory

| Component | Source | State | Operations | What is hard | What makes it correct |
|---|---|---|---|---|---|
| Write queue | `collect/IEC104_MASTER/v0.2.0/iec104_master.cpp` `WRITE_REAL_VAL_TAG` | `queue`, `pos`, `mutex` | `push`, `pop`, by every collecting thread | `pos` is tested before the mutex is taken, in both | no stored sample is lost or invented; push returns |
| IEC 104 master | same file | per server `fd`, `is_connect`, `is_idlesse`, `w`, `SendBuf`, `SendLen`, four events | connect timer, `on_read`, test and S-frame timers, builders, `iec104_send_msg`, upload, commands | the loop and the collecting threads share the struct without a lock; every write may fail in the middle | no connection that nobody reads and nobody reconnects; whole frames; I frames acknowledged in time |
| IEC 104 slave | `collect/IEC104_SLAVE/iec104_slave.cpp` | per client the struct: numbers, `w`, flags, events | accept, `on_read`, `on_write`, timers | `on_write` frees the struct inside a callback; `unsigned char w`; a timer without an event base | numbers without gaps; bounded unacknowledged frames |
| Remote control | same file, `get_comno_slave_addr` of `collect.cpp` | the object under way, the outputs, the mutex and device address of the line | single commands, double commands, set points; tries; pulses | the line is shared with its collecting thread; objects, tries and pulses share variables | the request goes to the device of the point; a confirmation means it was done; a control ends |
| Transfer server | `trans/trans.cpp`, `trans/iop_queue.cpp` | `m_rtu`, `m_client`: vectors of connection and serial number | `rtu_process`, `client_process`, `push`, `erase` | two pools of ten threads use the vectors without a lock; erasure while walking by index | frames reach the subscribers and only them; only dead connections are erased |
| Tag list and optimizer | `collect/collect.cpp` `LoadTagList` | tags, requests, the fields of the tag before | one pass over the tags | the last run needs its own branch; limits | every register is read, none twice or in vain; requests bounded |
| Cache of points | `LoadTagList`, `load_taglist` of `dev_103.c` | a table in SQLite | built row by row, read back, removed by `reload` | no transaction: any statement may be the last | rows of two versions never mix; a finished list is complete; reload takes effect |
| Collecting threads | `collect/collect.cpp` `thread_modbus_collect` | request index, mutex of the line, alarm tag | lock, read, look up, upload, unlock | many ways out of the loop body, each must unlock | one user of a line; every tag of a device that answers is uploaded |
| Command thread | `collect/collect.cpp` `thread_read_cmd` | which lines it has locked | lock, free, reload | a lock held before the mutexes are initialised | as above; a reload is obeyed |
| Start, signals, exit | `collect/collect.cpp` | `g_thread_exit_flg` | `main`, `pthread_quit`, handlers | the thread in `pthread_quit` sleeps two seconds while the others go on | a reload ends the process |
| Self-check thread | `collect/collect.cpp` | index of its tag, `value` | reads the board, uses line 0, pushes samples | shares line 0; one variable for every reading | each tag once per pass, and as itself |
| Modbus library, RPC3FxC, LD_B10_220 | `collect/modbus*` | a descriptor, the input buffer of the driver | framed request and answer over RTU and TCP, reconnection | late, cut and garbled answers; nothing ties an answer to its request | an answer is to the request just sent; what was written is read |
| IEC 103 master | `collect/iec103_master` | frame count bit and flag per device, the receive buffer | link reset, requests of class 1 and 2 | a lost or late answer; a receive buffer that is not flushed | the bits stay in step; a device comes back on line; the thread ends |
| Client library | `collect/clienet/v0.1.0` | as the master, one send buffer | as the master, written by `on_write` | a frame waits in the buffer while other callbacks overwrite it | only what was received is acknowledged, and that in the end |
| GSM dialler | `gsm_online/v0.1.0` | dials so far, a log file | test, kill, dial, wait | pppd may hang; the log of the one before | one pppd on the modem; the link comes back |
| Configuration | `wcx_utils/INIFileOP.cpp` and its users | a text file | `ConfigGetKey`, `ConfigSetKey` | rewriting in place; a file whose last line is torn; continued lines | the settings of the user stay |
| Operator tool | `cmd/cmd.c` | - | a menu that sends `lock` and `free` | - | see the command thread |
| Loggers, utilities, tests, scripts, drawing converter, third-party code | see `PROJECT.json` | - | sequential | - | - |

## 2. Modules

| Module | Models | Instance | Proofs |
|---|---|---|---|
| `RealTagQueue` | the write queue, thread by thread | `MCRealTagQueue` | `RealTagQueueProofs` |
| `Iec104Master` | one server of the master: the event loop, the threads that upload and those that send commands | `MCIec104Master` | `Iec104MasterProofs` |
| `Iec104Slave` | one connection of the slave | by `MCRemoteControl` | `RemoteControlProofs` |
| `RemoteControl` (EXTENDS `Iec104Slave`) | commands and set points, with the line they share with its collecting thread | `MCRemoteControl` | `RemoteControlProofs` |
| `TransServer` | both ports of the transfer server | `MCTransServer` | `TransServerProofs` |
| `TagOptimizer` | the optimizing loop of `LoadTagList` | by `MCModbusCollect` | `ModbusCollectProofs` |
| `ModbusCollect` (EXTENDS `TagOptimizer`) | one serial line from `main` to the upload of a value: collecting thread, command thread, other users of the line | `MCModbusCollect` | `ModbusCollectProofs` |
| `ModbusLink` | the Modbus library and its devices, RTU and TCP | `MCModbusLink` | `ModbusCollectProofs` |
| `Crc16` | the checksum tables and loop, against the polynomial | assumptions of `MCModbusLink` | - |
| `Iec103Master` | one line of IEC 103 devices | `MCIec103Master` | `Iec103MasterProofs` |
| `TagCache` | the list of points and its cache, through starts, crashes and reloads | `MCTagCache` | `StartProofs` |
| `SelfCheck` | `main`, signals, the command thread and the self-check thread | `MCSelfCheck` | `StandaloneProofs` |
| `WcxClient` | one server of the client library | `MCWcxClient` | `StandaloneProofs` |
| `GsmDialler` | the dialler and the pppds it starts | `MCGsmDialler` | `StandaloneProofs` |
| `IniFile` | `ConfigGetKey`, `ConfigSetKey` on files | by `MCConfigLoad` | `StartProofs` |
| `ConfigStore` | abstract: settings with values, an update of one of them | - | - |
| `ConfigLoad` (EXTENDS `IniFile`) | five programs at their start; implements `ConfigStore` | `MCConfigLoad` | `StartProofs` |

How they fit: `ModbusCollect` uploads a value in one step, which is a call of
`push()` in `RealTagQueue`; its reads, and the requests of `RemoteControl`, are
calls of `ModbusLink`; the tables it begins with are what `TagCache` loads; the
loop over the servers at the end of `pop()`, one step `Send` in `RealTagQueue`,
is refined to `Fill`, `BatchLen`, `TestConnect` and `Sending` in `Iec104Master`;
what the master sends is a frame of an RTU in `TransServer`, and what a client
gets from there is read by `WcxClient`.  `RemoteControl` and `SelfCheck` compose
the threads that share a line; otherwise the parts share no state beyond these
calls.

Every module marks the definitions that are deliberately wrong with `Mutant:`.
They stand beside the definition they alter, no specification uses them, and
`PROJECT.json` names the property each one breaks when it takes the place of
the original.

### RealTagQueue

A thread is a program counter.  `push()` is `Check` (the test of `pos`, no
lock), `Lock`, `Store` or `Overrun`, `Unlock`; `pop()` is `PopCheck` (no lock),
`PopLock`, one `Drain` per iteration of its loop, `DrainDone`, `PopUnlock`,
`Send`.  `Overrun` is `queue.at()` throwing: `pos` is already incremented, the
mutex stays locked, and the thread stays in `"abort"` (the process is ending).
A sample is its maker and its number.  `accepted`, `dropped` and `uploaded` are
history variables; everything else is a variable of the code.

### Iec104Master

Steps are single accesses to the struct, because the loop and the collecting
threads may interleave anywhere.  `SendBuf` is kept as three parts (head,
control field, body), enough to tell which builder wrote which bytes; `SendLen`
is named by the kind of frame.  `Deleted` and the steps `Del`, `CloseSock`,
`Down` are the error path, in the order of the code: events, descriptor,
`is_connect` last.  `Quit` is the SIGPIPE handler of the collector.

A command of the library (`IEC104_MASTER_sC_*`) builds and sends like an upload,
in the thread of its caller.  The collector sends them only when built with
`IEC104_MASTER_CMD_RCV`, which is commented out at `collect.cpp:68`.

`SendNum` is not there because no reachable code changes it: only `on_write`
advances it, and `ev_write` is never added, so every I frame has number 0.

### Iec104Slave

A callback of a single-threaded loop is one action.  The frames it sends are
threaded through a pair of the struct and what the peer has seen, with an
arbitrary outcome of `write()` for each.  `Freed` is what is left of a struct
that `on_write` has freed: the accesses behind the `free` are taken to find the
flags FALSE (section 5).  `ev_timer_sframe` has no event base (line 368), so
`on_timer_sframe` never runs and is not an action.

### RemoteControl

The slave as it runs in the field, linked into the collector: the parts that a
build without `TEST` contains (line 38 of `iec104_slave.cpp` defines `TEST`; the
functions the collector supplies are called only where it is undefined).  A
control takes several steps (`Lock`, one `Operate` for each request, `Confirm`,
`NextObject`)
because the collecting thread of the line runs beside it; the other callbacks of
`Iec104Slave` run between controls, since the event loop stands still in one.
`addr` is `mb_param.slave`, which both threads write.  The loop over the tries
uses the variable of the loop over the objects, and is modelled so: `Stale`
bounds how many objects an older frame has left behind the end.  `ret_modbus` has no
initialiser: `"junk"` is either outcome.

### TransServer

Each connection is a process: libiop hands a connection to one thread of a
pool.  The `protocol_parse` callbacks return `len`, whatever has arrived, so a
frame travels as its parts (`Parts`) and `Receive` takes any number of the next
ones: several frames, of which the handler looks at the first only, or a piece of
one.  `Whole` tells the two apart.  `TakenFor` and `Addresses` are the type and
the ASDU address that the handler reads; where there is none of its own, in a
piece or behind a short frame, the bytes may say anything (the bound `Guises`
limits the types).  A piece is relayed like a frame, and a piece that looks like a
login registers the connection (`NumbersRead`).  `Lookup`, `Scan`, `Send` and `Erase` each read one element of a vector.
`cell` is the storage of a vector and `size` the used part, so an index that has
become stale reads the old element, as it does in the program.  A `push_back`
while another thread reads the same vector may end the process (`Crash`).
`raced` is a history variable: the frames whose handler another one overtook, by
an erasure in the list of that handler between the test of an element and its
last use.  `OnlySubscribersServed` and `OnlyFailedErased` are action properties
about the handlers that were not.  `OnlySubscribersServed` covers pieces: they go
to clients of the number that was read in them, and that number is the RTU's own
only when the message begins with a whole data frame.  `Return` is the end of a
handler, with its locals and the history of the call; `MissedAtMostErased` is
therefore stated just before, at the end of the loop (`AtEnd`).

### TagOptimizer and ModbusCollect

`LoadNext` is one iteration of the loop; `pre` holds the `..._pre` variables,
which, as in the code, keep the address and quantity of the tag before but the
device, function and type of the first tag of the run.  In `ModbusCollect` the
collecting thread goes `Top`, `Lock`, `ReadFailed`/`ReadTooMuch`/`ReadOk`,
`Push` or `NoTag`, `Pushed`, `Unlock`; the mutex of the line is `port`, and
`taken` records that somebody unlocked or re-initialised it under its holder.

A value takes the way it takes in the code: the register (`word` and the address
make its contents), the width of the request's type (`Register`), the type of the
tag that is found at the address (`Cast`), the operation of that tag (`Scaled`),
and for devices of type PSD the moving average (`Filter`).  The optimizer joins
tags of one width, whatever their signs, so `ValueOfTag` is about all of these
together.  The ranges of the types are scaled down (`Values`), factors are whole
numbers, and 64-bit and floating types are what the code makes of them, their first
32 bits as a number.

### ModbusLink and Crc16

A call writes its query (`Send`) and then waits; `Serve` is the device, with
the slave functions of the same library as its code; `Received`, `TimedOut`,
`FoundClosed` and `FoundReset` are the ways out of `receive_msg`.  The input buffer is a
sequence of pieces of frames, because an answer may come late, be cut, or be
followed by another, and the library decides by length, address, function and
checksum.  Flushing happens where the code flushes: after some errors only, so a
late answer may meet the next call.  `late` is the history variable for that, and
`InStep` is stated for the time before.  Over TCP no transaction identifier is
compared (`modbus.c:902`), so the same holds there.  `Crc16` justifies the
abstraction "the checksum tells a damaged frame": `MCModbusLink` assumes, and TLC
evaluates, that the two tables are those of the polynomial, that the loop over
the bytes is the division, and that errors of one and two bits are found.

### Iec103Master

The line buffer is a sequence of bytes here, since `com.c` flushes it only when it
opens the port and resynchronises byte by byte; the device repeats its last answer when the frame
count bit has not changed.  `While`, `Poll` and `ForEnds` are the loops of the
thread, `Send` and `Receive` an exchange, `SendFails` closes the port and
`Connect` opens it.  The loop over the
retries of a request ends after the first one, and only the first device of a
line is ever polled; the module says so by what it does.

### TagCache

Every SQL statement that builds the cached table is a step, because there is no
transaction around them, and the process may end at each (`Crash`, or one of the
code's `exit(1)`).  A row carries the version of the configuration it comes
from.  The statements themselves are external.  A table with rows is taken as it
is at the next start: a list that a crash has cut short stays so until the next
reload, which is why `CompleteIfFinished` speaks of lists that were built to the
end.

### SelfCheck

`main` starts the threads one by one; the signal handlers, `exit()` and
`pthread_quit` end the process; the command thread takes datagrams in any order,
from the operator's menu (`cmd/cmd.c`) and from the program that changes the
settings;
the self-check thread walks its list of tags, takes the mutex of line 0 for the
temperature in every 300th visit (`SkippedVisits`), and pushes.

### WcxClient

As `Iec104Master`, but all work happens in callbacks of the loop, each one step.
A frame is built into the one `SendBuf` and written by `on_write` later;
`overwritten` and `late` record what happened to it between.

### GsmDialler

Time passes in the program's waits, second by second.  A pppd has a number of
seconds still to dial, is connected (-1) or hangs (-2).  The shell that starts
pppd in the background empties the log itself (`StartPppd`), possibly after the
program has looked into it, so the address of the pppd before may be read.

### IniFile, ConfigLoad, ConfigStore

A file is a list of lines with a flag for a last line without a newline; reading
and writing are operators on it.  `ConfigSetKey` writes a temporary file and
`FileCopy` empties the file before filling it: `CopyOpens` and `CopyFills` are
two steps, with crashes and full disks between.  `ConfigStore` knows settings
only.  The refinement mapping reads every setting of the file with
`ConfigGetKey`, so `KeepsStore` says that whatever the lines, sections,
comments and continuations are, an update changes one setting and no other.
`Words`, the names and pieces of text, are any set in the proofs and the strings
in the run.

## 3. Runs

Every run is a `.cfg` of the same name; all of them end without an error.

| Run | Bounds | States | What it shows |
|---|---|---|---|
| `RealTagQueue_threads` | 3 threads, a queue of 2, 2 samples each | 25 000 | Three threads push and pop concurrently: whatever the interleaving of the unlocked tests of pos, no stored sample is overwritten before it is copied out, no slot is uploaded that no push filled, and every push returns unless the process has ended; until two threads meet in push each stored sample is uploaded once, nothing is stored past the end, and each pop loses exactly the sample push was called with: `AcceptedNeverLost`, `OnlyAcceptedUploaded`, `ExactUntilRaced`, `PushReturns`. |
| `TransServer_relay` | 2 connections of an RTU, 2 clients, one of each may leave; 1 frame each, that of one connection of the RTU in 2 parts | 1 610 000 | Two connections of one RTU and two clients, with logins, a wrong login and a STARTDT, whose handlers erase from the list another one is walking: the loop passes over at most one client per erasure, a client is only sent what an RTU sent, and only under the number the handler has read in it, also in a piece of a frame that TCP has cut; a connection that is up keeps its registration unless a handler was overtaken, and every handler returns: `MissedAtMostErased`, `OnlySubscribersServed`, `OnlyFailedErased`, `HandlerReturns`. |
| `RemoteControl_line` | MAX_W 2, `w` mod 3, numbers mod 8, at most 2 objects, 2 tries, 1 stale object | 800 000 | The slave and its remote control beside the collecting thread of the line: whatever write() returns, while the socket takes every frame the I frames are numbered without a gap and at most MAX_W received ones are unacknowledged; a control asks the device of its point, confirms only what was done, and ends: `AckedBetweenControls`, `Consecutive`, `RightDevice`, `AckMeansDone`, `ControlEnds`. |
| `Iec104Master_pass` | 1 thread uploading and commanding, Max_w 3 | 788 000 | The event loop and one thread that uploads and sends commands, on one connection, every write may fail: no connection is left that nobody reads and nobody reconnects, however they interleave; as long as they do not overlap every frame is whole, no pending event is set again, and every I frame is acknowledged in time and in the end: `NoZombie`, `FramesWhole`, `OrderlyUntilRaced`, `AcknowledgedInTheEnd`. |
| `ModbusCollect_lines` | 43 tables of up to 3 tags, N = 2, MAX_DATE_LEN = REAL_VAL_TAG_COUNT = 2, 1 other user of the line | 158 000 | Every small table of tags of one serial line: the optimized requests read exactly the registers of the tags, no request outgrows the limit, the line has one user at a time, what is uploaded is what the register of the tag holds, in the type of the tag, the offline alarm names a silent device, and a device that answers has every tag uploaded again and again: `Optimized`, `OneOnPort`, `UploadsTrue`, `AverageOfTag`, `Collected`. |
| `ModbusLink_calls` | 3 devices, 7 programs, RTU and TCP, at most 2 answers pending | 254 000 | Programs that call two plain slaves, a power distributor and a dehumidifier over a serial line that loses, cuts and garbles and over TCP connections that the devices close: only whole frames are accepted, as long as no call ran out of time before its answer every call has its own, what was written is read, and a closed connection is opened again: `InStep`, `ReadsWhatWasWritten`, `Reconnected`. |
| `Iec103Master_line` | lines of 0, 1 and 2 devices, 1 event, 2 faults | 112 000 | One line of IEC 103 devices that lose, cut and delay frames and whose port fails: the frame count bits stay in step while nothing is late or cut, the device comes back on line after any faults, and the thread ends when it is told to: `InStep`, `Recovered`, `Stops`. |
| `TagCache_starts` | 1 point of the device, 2 of the user, 12 configurations, 2 edits, 1 crash | 196 000 | The list of points through starts, crashes, changes of the configuration and reloads: rows of two versions never mix, a list built to the end is complete, and a reload that is received takes effect: `OneVersion`, `CompleteIfFinished`, `ReloadTakesEffect`. |
| `WcxClient_server` | Max_w 2, 4 frames, 2 connections | 55 000 | One server of the client library in the event loop, with its one send buffer: what it acknowledges it has received on the same connection, also with commands of the user in between, and received frames are acknowledged in the end: `AckTruthful`, `AcknowledgedInTheEnd`. |
| `ConfigLoad_starts` | the five programs' files, MaxText 6, 1 fault, 2 starts | 7 300 | The five programs loading their settings and writing defaults into the file, with kills and full disks in the middle of a rewriting: ConfigSetKey implements the update of one setting (refinement of ConfigStore), and without a fault the settings of the user stay: `UserSettingsKept`, `KeepsStore`. |
| `SelfCheck_passes` | 4 lists, 1 skipped visit, 2 datagrams | 434 000 | The start of the collector, its signals, the command thread with its commands in any order and the self-check thread over four lists: each pass reports every tag once and as itself, and a reload ends the process whoever holds the line that two threads and the operator share: `EveryTagOnce`, `ReloadObeyed`. |
| `GsmDialler_link` | dial times 0, 3, 9 and 20 s, 6 faults | 10 900 | The dialler against pppds that dial for a while, fail, drop or hang, with the log of the one before: never two on the modem, and once nothing fails any more the link comes up and stays: `OnePppd`, `StaysOnline`. |

`TypeOK` of each module was checked with its run's bounds where it is not proved;
the configurations name only properties that can fail for a reason.

### Why the bounds are enough

* Queue.  What can go wrong needs a thread that has seen the queue full or not
  full, a second that changes that, and a third that overtakes both.  Two slots
  are the least where a drain goes through a slot that is not slot 0.  The
  proofs cover every number of threads, every capacity and every number of
  samples.
* Transfer server.  An erasure shifts the list, so the interesting clients are
  the one erased and the one behind it; both clients first watch another RTU,
  and so are the ones that must not get the frame.  Two connections of one RTU
  are the least where one handler erases from the list that another one walks
  (`raced`), while the clients' handlers push.  One of them logs in; the other
  sends a data frame that TCP may cut in two, and with the address read in a piece
  the frame of RTU 1 goes to clients of RTU 2.  The pieces look like data, not
  like a login; the proofs leave the looks, the number of parts and frames open.
* Slave and remote control.  The moduli are those of an `unsigned char` and an
  `unsigned short` scaled down, with MAX_W < W_MOD and NUM_MOD > 2 (MAX_W + 1)
  as in the program (the default MAX_W is 8): `w` and the numbers wrap within a
  few frames.  Two objects in a frame and two tries are the least where the
  shared loop variable skips an object, and one stale object where it passes the
  end.
* Master.  One thread that uploads and commands is enough for each race with the
  loop, and `raced` is true from then on; two of them only matter to `NoZombie`,
  which is proved for any number.
* Collector.  Two registers suffice to start, extend and cut a run; three tags
  make a run in the middle, a run at the end and a gap between.  MAX_DATE_LEN
  and REAL_VAL_TAG_COUNT are equal (as long as the requests fit into an answer);
  in the program they are 100 and 17 (section 5).  The tables also hold tags of
  two registers, of every width that the code treats differently, of an unknown
  type, of other functions and of four devices: two plain ones, one whose values
  are averaged over N = 2 readings (N is 100 in the program; only the initial
  filling and one turn of the ring matter), and one whose registers are never read.
* Modbus link.  Two queries at a device and two pieces in the buffer are the
  least where a late answer meets the wrong call.  The programs contain reads
  and writes of each table, of one and of several entries, and each special
  device.
* IEC 103.  A line without tags, with one device and with two; one event, and
  two faults, so that a fault may hit the recovery from another.  One of them may
  leave a late or cut answer in the buffer.
* List of points.  One point of the device and two of the user: the least where
  a crash leaves some rows of each kind, with two edits so that three versions
  may meet, and one crash in each behaviour.
* Client library.  Max_w is 2, so that both the timer and the count send S
  frames; 4 frames pass the count twice; the second connection meets what is
  left of the first.
* Configuration.  The files a program may find: none, an empty one, the one that
  is shipped for the master, and others with sections in other orders or twice,
  comments, continued lines and brackets that are not closed, each with and
  without a newline at the end.  A second start reads what the first has written.
* Self-check.  The full list, one with a gap, one of outputs alone and one in
  another order; the skipping counter is 1 instead of 300.  Two datagrams make every
  pair of commands.
* Dialler.  Times of 0, 3, 9 and 20 seconds fall before, between and behind the
  looks into the log (5 s of test, 10 and 15 s of log); six faults are more than
  the five dials of one attempt.

### Deadlock

Deadlock is checked for `RemoteControl`, `ModbusLink` and `GsmDialler`, which
never stop.  `CHECK_DEADLOCK FALSE` is set where the system may: the samples of
the bound are used up (`RealTagQueue`), the peers have sent what they may send
(`TransServer`, `WcxClient`), the thread has ended (`Iec103Master`), the process
has ended (`Iec104Master`, `ModbusCollect`, `SelfCheck`, `TransServer` after
`Crash`), or the starts are used up (`TagCache`, `ConfigLoad`).

### Fairness, and why the code justifies it

* `RealTagQueue`: a thread inside `push()` goes on.  Weak fairness of each
  thread's steps; making a new sample is not fair.
* `TransServer`: a handler that was called goes on.  What peers and libiop do is
  not fair.
* `Iec104Master`: a thread in a call goes on with it.  Frames need not arrive
  and connections need not succeed.  That the timer of the S frames runs is a
  hypothesis of `AcknowledgedInTheEnd`, not part of the specification: each
  further I frame re-adds the event and so postpones it.
* `ModbusCollect`, `RemoteControl`: the threads go on when they can, and main
  gets through its start.  Strong fairness of `Lock`, the thread waiting for the
  line: a POSIX mutex promises no order, but the others pause between two uses
  for far longer than a waiting thread needs to wake up.  Nothing is assumed of
  the others' waiting, only that a user who has the line gives it back.  The
  operator is not fair at all: `Collected` has the hypothesis that the line is
  not kept by the operator.
* `SelfCheck`: the same, for the two threads that wait for line 0.
* `ModbusLink`: the program goes on calling, and a call ends by its answer, its
  timeout or a closed connection.  Strong fairness of a failing `send` only for
  a connection the device has closed for good: a write after the reset fails,
  and every call comes to a write.  Devices owe no answer.
* `Iec103Master`: the thread goes on (`Thread`: its waits have timeouts), and
  the device handles the requests that reach it.
* `TagCache`: a program that runs goes on; crashes and edits need not happen.
* `WcxClient`: libevent calls a callback whose event is pending: `on_write` and
  the two timers.
* `GsmDialler`: the program and the shell it started go on, and a pppd that has
  finished dialling gets its address.  Faults are bounded, which is the
  hypothesis of `StaysOnline`.
* `ConfigLoad`: no liveness property, no fairness.

## 4. Proofs

`tlapm` checks every leaf; nothing is assumed but the named assumptions on the
constants.  `Spec => []P` is left out of the table where the theorem states it of
the property in brackets.

| Module | Theorems | For every |
|---|---|---|
| `RealTagQueueProofs` | `QueueInvariant`, `TypeCorrect`; `NoAcceptedSampleLost` (`AcceptedNeverLost`), `OnlyRealSamplesUploaded` (`OnlyAcceptedUploaded`), `ExactWithoutRace` (`ExactUntilRaced`) | set of threads, capacity > 0, number of samples |
| `Iec104MasterProofs` | `MasterInvariant`, `TypeCorrect`; `NoZombieConnection` (`NoZombie`), `WholeFrames` (`FramesWhole`), `OrderlyWithoutRace` (`OrderlyUntilRaced`) | set of threads that upload and that send commands, `Max_w` in 1..255 |
| `RemoteControlProofs` | `NumbersConsecutive` (`Consecutive`), `AckedInTime` (`AckedBetweenControls`), `ControlsRightDevice` (`RightDevice`), `ConfirmedIsDone` (`AckMeansDone`) | width of `w` and of the numbers, outputs, devices, objects, tries |
| `TransServerProofs` | `Invariance`; `PassedOverBounded` (`MissedAtMostErased`), and the action properties `SubscribersOnly` (`OnlySubscribersServed`), `FailedOnly` (`OnlyFailedErased`) | sets of connections, numbers, frames |
| `ModbusCollectProofs` | of the optimizer: `OptimizerInvariant`, `EveryRegisterCovered`, `RequestsBounded`, `TableOptimized`, `WidthsAgree`; of the line: `OneUserPerLine` (`OneOnPort`), `CollectorTables` (`Optimized`), `UploadsAreTrue` (`UploadsTrue`), `AveragesAreTrue` (`AverageOfTag`); of the library: `LinkInStep` (`InStep`), `WrittenIsRead` (`ReadsWhatWasWritten`) | tables, MAX_DATE_LEN in 1..65535, users of the line, devices, readings, N > 0; programs of calls, table sizes, kinds of devices, RTU and TCP |
| `StartProofs` | of the list of points: `RowsOfOneVersion` (`OneVersion`), `FinishedIsComplete` (`CompleteIfFinished`); of the configuration: `ConfigKept` (`UserSettingsKept`), `ConfigRefinesStore` (`KeepsStore`) | points, configurations, number of edits and crashes; files, texts, number of starts and faults |
| `Iec103MasterProofs` | `StaysInStep` (`InStep`) | lines of devices, reports of 8 bytes, number of faults |
| `StandaloneProofs` | `OnePppdEver` (`OnePppd`), `ClientAcksTruthfully` (`AckTruthful`), `EachTagOnce` (`EveryTagOnce`) | dial times, faults; windows, frames, connections; lists of tags, skipped visits, datagrams |

### Write queue

`AcceptedNeverLost` is not inductive: a `Drain` could copy slot `pos - 1` while
another thread stores there, or count `pos` down past a slot it has not copied.
The strengthening says

* `MutexInv`: who is between a lock and the unlock owns the mutex, so drains and
  stores do not mix;
* `PosInv`: `pos` passes the capacity only in a thread that aborts, and that one
  keeps the mutex for ever, so nobody drains from a position outside;
* `SlotInv`: every slot below `pos` holds a stored sample, and from the moment a
  thread has seen the queue full every slot does, for ever.  This is what makes
  the clamp of `pos` at 0 harmless: it repeats slot 0, which holds a sample.

Each conjunct has a lemma `...Step`, with one step per action.
`ExactUntilRaced` needs a second invariant, of the states before two threads
have met: at most one is between its test and its unlock, and what is in the
queue, what a drain has copied and what it has still to copy are disjoint.

### Master

`NoZombie` says that a connected struct has its events with libevent.  It holds
although two threads may run the error path for two different connections on
the same struct, and the argument is not about locks: an event can only vanish
by `Del`, and a thread that does a `Del` will do a `Down`, which resets
`is_connect`.  `ZombieInv` says it per event, and also covers the thread that is
still adding the events.  The mutant that resets `is_connect` first breaks it.
`WholeInv` is about the states without an overlap: at most one thread is busy,
and the bytes it has written so far are those of its frame (`Ready`).
`WantInv` supplies the kind of frame that `Copy` writes.  `OrderlyUntilRaced`
adds, for the same states, how many I frames wait while the loop is inside a
callback: as many as `w` says, or one more until `w` is counted.

### Slave and remote control

A callback of the slave passes a pair, the struct and what the peer has seen,
through the frames it sends.  `PairInv` is what every such pass keeps, whatever
`write()` returned for each frame; between two callbacks the pair is `Settled`
too.  The lemmas
about numbers that wrap (`Wrapped` and those behind it) show that `SendNum` and
`w` taken modulo any width still count as the peer does, which the run sees for
the widths 3 and 8 only.  A control is followed by `PointInv` from the choice of
its point to the confirmation; `RightDevice` is inductive because both threads
write `addr` only as holders of the line.

### Transfer server

The handlers keep an index into a vector that others extend and shorten.  A push
changes no element below the size; an erasure passes over one element and moves
those behind it down by one.  So a handler that was not overtaken still finds,
when it uses an element, the one it tested (`Held`), which gives the two action
properties; and one erasure puts at most one client that is still owed the frame
below the index (`LostBounded`), which gives `MissedAtMostErased` although
erasures of several handlers mix.  `Lost` generalises `Missed` to a handler that
is still walking: the clients it will not reach; at the end of the loop it will
reach nobody, and the two agree.  `OwnNumber` ties the number a
handler searches for to the message it was called with, whole or in pieces.  Of
the constants the proofs assume that a frame has at least one part.

### Optimizer

`LoadInv` is the invariant of the loop: the requests before the last one, with
the span from the start of the last one over `nDataLen` registers, are exactly
the registers of the tags passed so far; the last request ends where the tag
before ends; and when no tag is left the length has been written.  `pre` keeps
the device and function of the run, which is what makes the span meaningful.
The bound of `ReadBound` needs that tags have one register: a tag of two may
take a run from 99 to 101.  `WidthInv` says the same of the widths: the tags of a
run have values as wide as the request's type.

### Collector

`OneOnPort` holds because nobody uses the line before its mutex is initialised,
and from then on only an unlock by a thread that does not hold it (`taken`) lets
a second one in (`LineInv`).  `UploadsTrue` joins the optimizer to the loop that
uses its result: the tables a collecting thread reads are `Optimized` and backed
by tags of the right width (`TablesInv`), so the tag that `cha_biao` finds for an
address is the one that the value belongs to (`SampleInv`), and an answer always
reaches its last value, which clears the alarm (`AlarmInv`).

`AverageOfTag` compares the buffer of the moving average, a ring, with the
history of the values that went in.  `FilterInv`: the last N values, in their
order, are the buffer read from `m_i` on and around its end (`FilterStep`, with
the case that `m_i` goes back to 0).  That a sequence and the same sequence turned
have one sum (`SameSum`) is a comparison of the partial sums of the two; the sum
is a recursive function, which `SumIs` unfolds.  The proof assumes of the constants
that readings and K are whole numbers and that a K that divides is positive
(`DevicesAssumption`); K is a float in the code.

### Modbus library

`InStep` is about a call that succeeds; the invariant behind it (`StepOrder`) is
about what is under way.  As long as no call has returned too early, nothing is
under way between two calls, and during a call only its own query or the one
answer to it (`AloneUnderWay`).  So what a call accepts begins with its own answer,
and what is left to prove is that it takes all of it.  Over a serial line the CRC
says so.  Over TCP nothing looks at the end of a frame, and it follows from the
quantity check alone: `AcceptedFits` shows for every function and data type, also
those the device does not know, that an answer of at least the awaited length with
the right quantity is exactly as long as awaited.  A query to all devices is
excluded by `late`, which its return sets: their answers may still come.

`ReadsWhatWasWritten` rests on it, and on three facts about the tables
(`ValuesInv`).

* `KnownInv`: what `known` says of an entry is in the device, or is `Unknown`.  It
  is inductive because a call makes the entries it will write `Unknown` when it
  sends, before the device can change them, and known again only when its own
  answer came.  A query that is still in front of a device writes unknown entries
  only (`PendingInv`), so one that comes late belies nothing.
* `DoneInv`: the answer under way is the one the device would give now, and what
  the call wrote is in the tables; nothing is served between.
* The library undoes what it does on the other side: `UnpackedIsPacked` and
  `PackedBit` for bits, eight to a byte, `RegisterBytes` for the two bytes of a
  register, and `BitsInBytes` for a read that a device answers with a byte for each
  coil where the call expects them packed: what passes the quantity check has the
  same values either way.

Of the constants the proof assumes that a write carries values that fit its table
(`Carries`), that an LD_B10_220 is read through `read_coil_status_LD_B10_220`, five
states at most (`CallsAssumption`), and that the register of such a device is one
(`StatesAssumption`).  Kinds of devices, table sizes and programs are arbitrary:
a call may also name a device by functions that are made for another kind.

### List of points

A cache whose file exists is only added to by the program that created it, and
that one works from one copy of the configuration (see section 6 for the IEC 103
master): `VersionInv` says that every
row is of the version the cache was begun with, wherever a crash has cut it off;
`RowInv` that the loops account for the points with a row, so a list that was
built to its end has all of them.

### Configuration

`KeepsStore` is a refinement: every step of a program is a step of `ConfigStore`
or none.  Three things make it true.

* The search for a key is a recursive function over the lines of the file, and
  two searches over the same lines give the same answer (`SameSearch`), also at a
  distance, if the lines end in the same way.  The comparison runs from the last
  line to the first (`Downwards`, an instance of well-founded induction on the
  lines, which the provers can do where they cannot instantiate an induction
  theorem).
* Each way of writing a key puts one line: a section with its key behind the last
  line (`AppendedSays`), or the key behind the header of its section
  (`InsertedSays`).  All other searches run over the same lines as before, or
  begin or end at the new ones.
* A program writes a default only for a setting that the file does not have, and
  nobody else writes meanwhile (`WritingInv`); so a step puts one value, changes
  nothing that the file says, or comes after a fault (`Moves`).

Trying to prove it showed what a file must be like (`Whole`): a line that says it
is continued must not be the last one, and must not be followed by a header
(section 5).  Without the second condition a default may hide a setting.

### IEC 103

As long as no answer came late or cut, there is one request on its way, or one
whole answer in the buffer, or neither, and only while the thread waits
(`StepInv`: `Lost`, `Asked`, `Answered`).  The frame count bits agree whenever the
device is on line: a request or answer that was lost takes it off line, and what
is off line is reset before it is polled.  The proof follows the bytes of an
answer through the checks of `com.c`, and shows that exactly the frame is taken
off the buffer.

### Self-check, dialler, client

* `EveryTagOnce` is the end of a loop invariant (`PassInv`): what has been
  reported or was silent are the tags behind the index, and the index never stands
  within the block of inputs and outputs, except on its last tag, where the
  fall-through from the inputs to the outputs leaves it.  `Whole` and `NoneTwice`
  are what the code needs of the list: the names are a primary key of the table,
  and the rows of the block are inserted in their order.
* `OnePppd` counts the shell that has not yet started its pppd as one; every
  pppd is gone when the shell is called, and no second passes until it has
  started.
* `AckTruthful`: no number the client keeps, has written or has in its buffer is
  larger than the number of frames received; a new connection resets them
  together.

These three programs share nothing; their proofs are in one module, which extends
all three, so their specifications have names of their own (`DialSpec`,
`ClientSpec`).

### What only TLC checks

* Liveness (`PushReturns`, `HandlerReturns`, `AcknowledgedInTheEnd`, `Collected`,
  `ControlEnds`, `Reconnected`, `Recovered`, `Stops`, `ReloadTakesEffect`,
  `ReloadObeyed`, `StaysOnline`): the prover has no fairness and no ENABLED.
* That `Crc16` is the polynomial and finds errors of one and two bits: its loop
  over the bits needs bitwise operators and recursion.

Every invariant and every safety property of the steps that a run checks is a
theorem.


## 5. Disagreements

No property states these: each needs a decision of the authors.  Where one
limits a property of a run, the property says so by its hypothesis (`raced`,
`late`, `clean`, `missed`) or the run by its bounds.

Races between threads:

* two threads that both see one free slot both store; the second throws out of
  `queue.at()` with the mutex locked (`iec104_master.cpp:1550`; the header, line
  254, calls the queue safe to use).  `ExactUntilRaced` holds until then;
* an upload during a frame of the loop mixes the two (`iec104_master.cpp:1632`);
* two RTU threads of the transfer server may find the same dead client; the
  second erases its neighbour, and a thread that was overtaken between its test
  of an element and the send gives the frame to another client (`trans.cpp:191`).
  The properties hold for handlers that were not overtaken (`raced`).  After an erasure the loop goes on with the next
  index and passes over a client (`MissedAtMostErased` bounds the damage);
* the frames of an RTU that has reconnected are handled by another thread and
  may overtake older ones;
* `lock` sent twice makes the command thread wait for itself; a line locked
  before `init_collect` loses the lock (`taken`).

In one thread:

* `on_write` of the slave frees the struct and then writes to it
  (`iec104_slave.cpp:1471`);
* a request of up to 100 registers is sent, an answer of more than 17 is thrown
  away (`collect.cpp:884`, `iec104_master.h:222`);
* the queue is emptied from its end: samples leave in reverse order;
* a frame that `write()` refuses with EAGAIN has used up its number and is
  overwritten by the next one (`Consecutive` is stated with `missed`);
* the slave's S-frame timer cannot be added, so a single I frame is not
  acknowledged by an S frame until MAX_W of them have come; an I frame of the
  slave acknowledges it too;
* remote control: the tries use the index of the objects (lines 731, 964, 1210),
  so a frame of several objects skips some or runs past its end; a point that is
  not known returns without an S frame; a pulse is confirmed if only its second
  step succeeded, and an uninitialised `ret_modbus` may confirm nothing done.
  `AckMeansDone` and `RightDevice` say what remains true;
* a login that arrives behind another frame is not seen;
* a frame that TCP cuts is handled in pieces: both `protocol_parse` callbacks of
  the transfer server return `len` (`trans.cpp:107`, `:238`), where libiop expects
  the length of a complete message, or that there is none yet
  (`trans/libiop/ubuntu/include/iop_def.h:252`).  A piece of six
  bytes is taken for a short frame (`:138`); in another the type (`:157`) and the
  address (`:181`) are whatever stands there, so the piece may register the
  connection or go to the clients of another RTU.  `OnlySubscribersServed` promises
  the RTU's own number for messages that begin with a whole data frame;
* a tag of more than one register makes the collecting thread begin again with
  the first request, so the requests behind it are never sent; a table with a
  float or 64-bit run that is not the last ends the collector;
* the offline alarm belongs to a line, so a device that answers clears the alarm
  of one that does not;
* a thread has one moving average, so the values of two averaged registers of a
  line are mixed, and the first 99 averages contain uninitialised values
  (`collect.cpp:595`, `:1094`); `AverageOfTag` states the rest;
* a 64-bit or floating tag is uploaded as its first 32 bits, read as a number
  (`modbus.c:1503`, `collect.cpp:945`).  The library expects two bytes for each
  value of such a type (`modbus.c:290`) and decodes four, which it takes from
  behind the answer; `ReadsWhatWasWritten` is about the other types;
* the command thread does not clear its buffer: what a short datagram leaves of a
  longer one before still counts, so `0free` after `lock all` frees every line
  (`collect.cpp:393`);
* no transaction identifier is compared in Modbus TCP: a late answer to an equal
  request is taken for that of the next (`modbus.c:902` writes it, `:367` reads
  the answer);
* `com.c:323` assigns where it means to compare, so that no frame of variable
  length passes that check; the retry loop of `dev_103.c` ends after the first
  pass, and only the first device of a line is polled;
* the search for a section does not join continued lines, the search for a key
  does (`INIFileOP.cpp:384`, `:420`): a header behind a line that ends with `+` is
  found by one and is text for the other, so a key behind it may be hidden by a
  default (`Whole` excludes it);
* a crash between two rows leaves a part of a list of points, and the next start
  takes it for the list (`collect.cpp:1812`, `:2291`);
* a dial that needs 20 to 25 seconds succeeds only because the fifth try waits
  longer than the others.

## 6. What is not modelled, and why

* Inside libiop and libevent, SQLite and pppd: what the code needs of them is
  modelled and marked external.
* Single operations of a `std::vector` that race (`TransServer`): the outcome is
  nondeterministic, the model takes "works as if atomic" and "ends the process".
* The contents of frames beyond what the modules name, pauses and the watchdog
  byte: no property distinguishes them.  Rounding: K is a float, so a scaled 32-bit
  value keeps 24 bits.
* Bytes of a connection in the transfer server: a part of a frame is one piece
  whose type and address are any that `Guises` and `Sns` allow, independent of the
  bytes of the frame.
* The IEC 103 master opens the collector's copy of the data base where it lies.
  `TagCache` has one of the two programs in a behaviour, so a collector that starts
  anew and replaces the file under it is left out.
* A partial write on a full disk: `IniFile` writes all of a file or nothing.
* That the servers of the client library may be given each other's descriptor
  numbers: `WcxClient` follows one server.
* The slave after `on_write` has freed its struct (section 5): the tests behind
  the `free` find the flags FALSE, and another owner of the memory is left out.
* Code that is compiled out (`#if 0`: the generic services of IEC 103, a general
  interrogation there) or that nothing calls (listening and accepting over
  Modbus TCP, the analysis of disturbance data that no frame reaches).
* What only prints: `Display` functions, the commands `id` and `debug`, traces.
* Loggers (`liblogger`, `wcx_log`), memwatch, the queue macros, string and byte
  utilities, the menu of the master (`IEC104_MASTER/.../cmd`), test programs, installation scripts, the drawing
  converter: sequential, or not part of the system.

## 7. Plan

Done: every module of section 2; every safety property of the runs is proved.
Left, in order of importance:

1. `RealTagQueue` as an implementation of an abstract channel (samples go in,
   each comes out at least once or is dropped by the pop that its push became).
2. The rotation of `liblogger`'s files and the buffer of `vslprintf`.

## 8. Running

```
tlc -workers 2 -config RealTagQueue_threads.cfg MCRealTagQueue
tlapm RealTagQueueProofs.tla
```
