----------------------------- MODULE Iec104Master -----------------------------
(***************************************************************************)
(* One server of the IEC 104 master (IEC104_MASTER/v0.2.0/                 *)
(* iec104_master.cpp): one struct IEC104_MASTER, used by the thread of the *)
(* event loop and, without a lock, by every collector thread that finds    *)
(* the queue of samples full and uploads it (the loop at the end of        *)
(* WRITE_REAL_VAL_TAG::pop; RealTagQueue models the queue), and by every   *)
(* thread that sends one of the commands of the library.  The servers      *)
(* share nothing but the loop, so the module follows one of them.          *)
(*                                                                         *)
(* A thread is modelled at the granularity of its accesses to the struct:  *)
(* an assignment of SendLen, a copy into SendBuf, the write, an event_add  *)
(* or event_del, the close and the change of is_connect are steps of their *)
(* own.  What only the loop uses (is_idlesse, w) changes together with the *)
(* step before it.                                                         *)
(*                                                                         *)
(* Not modelled because no reachable code changes it: SendNum, which only  *)
(* on_write advances (and ev_write is never added), and is_send_sframe,    *)
(* which is set before each test.  RecvNum appears as `unacked', the I     *)
(* frames received and not yet acknowledged.                               *)
(***************************************************************************)
EXTENDS Integers, Sequences, FiniteSets

CONSTANTS
    Uploaders,  \* collector threads
    Commanders, \* threads that send commands (IEC104_Master_sC_...)
    loop,       \* the thread of the event loop
    Max_w,      \* after that many I frames an S frame is sent at once
    Outcomes    \* what write() may do: "ok", "fail" (an error or a part), "pipe"

ASSUME LoopAssumption    == loop \notin Uploaders \cup Commanders
ASSUME MaxWAssumption    == Max_w \in 1..255
ASSUME OutcomeAssumption == Outcomes \subseteq {"ok", "fail", "pipe"}

VARIABLES
    sock,        \* fd: "none", "open" or "closed"
    is_connect,
    is_idlesse,
    w,
    pending,     \* the events of the struct that libevent has
    SendLen,     \* a length, named for the kind of frame that has it
    SendBuf,     \* head: start and length bytes; ctl: control field; body: ASDU
    pc,          \* where each thread is
    want,        \* the frame each thread is sending
    todo,        \* events the thread has still to add or to delete
    up,          \* the process runs
    unacked,     \* I frames received since the last acknowledgement (until raced)
    raced,       \* history: two threads have been busy with the struct at once
    mixed,       \* history: a thread has written something else than its frame
    reset        \* history: event_set was called on a pending event

shared == <<sock, is_connect, pending, SendLen, SendBuf>>
local  == <<is_idlesse, w>>
control == <<pc, want, todo, up>>
history == <<unacked, raced, mixed, reset>>
vars == <<shared, local, control, history>>

Threads == Uploaders \cup Commanders \cup {loop}

Short  == {"startcon", "testact", "testcon", "S"}   \* frames of six bytes
Built  == {"login", "command"}                      \* I frames made in one piece
Long   == Built \cup {"batch"}                      \* I frames

(* The events of a connection, in the order they are added; the last one is *)
(* set and not added.                                                       *)
Added   == <<"read", "tframe", "WriteDB", "sframe">>
(* Mutant: the timer of the S frames is forgotten. *)
DeletedKeepsSframe == <<"read", "tframe", "WriteDB">>

(* In the order both error paths delete them (on_read's ends with WriteDB   *)
(* and sframe the other way round, which nothing tells apart).              *)
Deleted == <<"read", "tframe", "sframe", "WriteDB">>
Standing == {"read", "tframe", "WriteDB"}           \* added by every connect
Events   == Standing \cup {"sframe"}

LenOf(kind) == IF kind \in Short THEN "short" ELSE kind

Init ==
    /\ sock = "none"
    /\ is_connect = FALSE /\ is_idlesse = FALSE
    /\ w = 0
    /\ pending = {}
    /\ SendLen = "zero"
    /\ SendBuf = [head |-> "none", ctl |-> "none", body |-> "none"]
    /\ pc = [t \in Threads |-> "idle"]
    /\ want = [t \in Threads |-> "none"]
    /\ todo = [t \in Threads |-> <<>>]
    /\ up = TRUE
    /\ unacked = 0
    /\ raced = FALSE /\ mixed = FALSE /\ reset = FALSE

(* Thread t goes from one place to another. *)
Go(t, from, to) ==
    /\ up
    /\ pc[t] = from
    /\ pc' = [pc EXCEPT ![t] = to]
    /\ raced' = (raced \/ \E q \in Threads \ {t} : pc[q] # "idle")
    /\ UNCHANGED up

-----------------------------------------------------------------------------
(* Sending (the builders and iec104_send_msg), by any thread.               *)

(* A builder: nothing happens without a connection. *)
BuildBy(t, kind, from) ==
    /\ Go(t, from, IF is_connect THEN "len" ELSE "idle")
    /\ want' = [want EXCEPT ![t] = IF is_connect THEN kind ELSE "none"]

Build(kind, from) == BuildBy(loop, kind, from)

(* Mutant: a builder that relies on the length being right. *)
SetLenForgotten(t) ==
    /\ Go(t, "len", "copy")
    /\ UNCHANGED <<shared, local, want, todo, unacked, mixed, reset>>

SetLen(t) ==
    /\ Go(t, "len", "copy")
    /\ SendLen' = LenOf(want[t])
    /\ UNCHANGED <<sock, is_connect, pending, SendBuf, local, want, todo, unacked, mixed, reset>>

(* memcpy into SendBuf: a short frame leaves the bytes behind it alone, the *)
(* login frame brings a control field that was never initialised.           *)
Copy(t) ==
    /\ Go(t, "copy", "stamp")
    /\ SendBuf' = IF want[t] \in Built
                  THEN [head |-> want[t], ctl |-> IF want[t] = "login" THEN "none" ELSE "I", body |-> want[t]]
                  ELSE [SendBuf EXCEPT !.head = "short", !.ctl = want[t]]
    /\ UNCHANGED <<sock, is_connect, pending, SendLen, local, want, todo, unacked, mixed, reset>>

(* The numbers of an I or S frame; nothing is sent if SendLen is zero. *)
Stamp(t) ==
    /\ Go(t, "stamp", IF SendLen = "zero" THEN "idle" ELSE "write")
    /\ want' = IF SendLen = "zero" THEN [want EXCEPT ![t] = "none"] ELSE want
    /\ SendBuf' = IF SendLen \in Long THEN [SendBuf EXCEPT !.ctl = "I"] ELSE SendBuf
    /\ UNCHANGED <<sock, is_connect, pending, SendLen, local, todo, unacked, mixed, reset>>

(* What write() sends is the frame the thread wants to send. *)
Whole(kind) ==
    /\ SendLen = LenOf(kind)
    /\ SendBuf.head = LenOf(kind)
    /\ IF kind \in Short THEN SendBuf.ctl = kind
       ELSE SendBuf.ctl = "I" /\ SendBuf.body = kind

(* A descriptor that another thread has closed makes write() fail.          *)
Write(t) ==
    /\ \E o \in IF sock = "open" THEN Outcomes ELSE {"fail"} :
        /\ Go(t, "write", CASE o = "ok" -> "clear" [] o = "fail" -> "del" [] o = "pipe" -> "quit")
        /\ todo' = [todo EXCEPT ![t] = IF o = "fail" THEN Deleted ELSE <<>>]
        /\ mixed' = (mixed \/ (o = "ok" /\ ~Whole(want[t])))
        /\ unacked' = IF o = "ok" /\ SendBuf.ctl \in {"I", "S"} THEN 0 ELSE unacked
    /\ UNCHANGED <<shared, local, want, reset>>

(* Mutant: is_connect first, then the events and the descriptor. *)
DelDown(t) ==
    /\ todo[t] # <<>>
    /\ Go(t, "del", IF Len(todo[t]) > 1 THEN "del" ELSE IF want[t] = "none" THEN "idle" ELSE "clear")
    /\ is_connect' = (is_connect /\ todo[t] # Deleted)
    /\ pending' = pending \ {Head(todo[t])}
    /\ sock' = IF Len(todo[t]) = 1 THEN "closed" ELSE sock
    /\ todo' = [todo EXCEPT ![t] = Tail(todo[t])]
    /\ UNCHANGED <<SendLen, SendBuf, local, want, unacked, mixed, reset>>

(* The error paths of iec104_send_msg and iec104_master_error_treat: all    *)
(* events, then the descriptor, and is_connect last.                        *)
Del(t) ==
    /\ todo[t] # <<>>
    /\ Go(t, "del", IF Len(todo[t]) = 1 THEN "close" ELSE "del")
    /\ pending' = pending \ {Head(todo[t])}
    /\ todo' = [todo EXCEPT ![t] = Tail(todo[t])]
    /\ UNCHANGED <<sock, is_connect, SendLen, SendBuf, local, want, unacked, mixed, reset>>

CloseSock(t) ==
    /\ Go(t, "close", "down")
    /\ sock' = "closed"
    /\ UNCHANGED <<is_connect, pending, SendLen, SendBuf, local, want, todo, unacked, mixed, reset>>

(* error_treat was called with nothing to send: SendLen is left alone. *)
Down(t) ==
    /\ Go(t, "down", IF want[t] = "none" THEN "idle" ELSE "clear")
    /\ is_connect' = FALSE
    /\ UNCHANGED <<sock, pending, SendLen, SendBuf, local, want, todo, unacked, mixed, reset>>

Clear(t) ==
    /\ Go(t, "clear", "idle")
    /\ SendLen' = "zero"
    /\ want' = [want EXCEPT ![t] = "none"]
    /\ UNCHANGED <<sock, is_connect, pending, SendBuf, local, todo, unacked, mixed, reset>>

Sending(t) ==
    \/ SetLen(t) \/ Copy(t) \/ Stamp(t) \/ Write(t)
    \/ Del(t) \/ CloseSock(t) \/ Down(t) \/ Clear(t)

-----------------------------------------------------------------------------
(* The event loop.                                                          *)

(* A callback runs when the last one has returned. *)
Callback(to) == Go(loop, "idle", to)

(* iec104_master_connect, every five seconds: a socket is made and connect  *)
(* waits for it, two seconds at most.                                       *)
OnTimerConnect ==
    /\ ~is_connect
    /\ Callback("connect")
    /\ sock' = "open"
    /\ UNCHANGED <<is_connect, pending, SendLen, SendBuf, local, want, todo, unacked, mixed, reset>>

(* Connect closes the descriptor, its caller closes it again. *)
ConnectFailed ==
    /\ Go(loop, "connect", "idle")
    /\ sock' = "closed"
    /\ UNCHANGED <<is_connect, pending, SendLen, SendBuf, local, want, todo, unacked, mixed, reset>>

Connected ==
    /\ Go(loop, "connect", "add")
    /\ is_connect' = TRUE
    /\ is_idlesse' = FALSE
    /\ w' = 0
    /\ unacked' = 0
    /\ todo' = [todo EXCEPT ![loop] = Added]
    /\ UNCHANGED <<sock, pending, SendLen, SendBuf, want, mixed, reset>>

(* event_set and event_add of the next event; the event of the S frames is  *)
(* only set.                                                                *)
AddEvent ==
    /\ todo[loop] # <<>>
    /\ Go(loop, "add", IF Len(todo[loop]) = 1 THEN "login" ELSE "add")
    /\ LET e == Head(todo[loop])
       IN  /\ reset' = (reset \/ e \in pending)
           /\ pending' = IF e \in Standing THEN pending \cup {e} ELSE pending
    /\ todo' = [todo EXCEPT ![loop] = Tail(todo[loop])]
    /\ UNCHANGED <<sock, is_connect, SendLen, SendBuf, local, want, unacked, mixed>>

Login ==
    /\ Build("login", "login")
    /\ UNCHANGED <<shared, local, todo, unacked, mixed, reset>>

(* on_read. *)
Reading == "read" \in pending /\ is_idlesse' = FALSE

(* End of stream, an error, or a frame that has not arrived as a whole: the *)
(* connection is closed (iec104_master_error_treat).                        *)
ReadFailed ==
    /\ Reading
    /\ Callback("del")
    /\ todo' = [todo EXCEPT ![loop] = Deleted]
    /\ UNCHANGED <<shared, w, want, unacked, mixed, reset>>

(* Frames that have no effect: S frames, test confirmations, unknown ones.  *)
ReadIgnored ==
    /\ sock = "open"
    /\ Reading
    /\ Callback("idle")
    /\ UNCHANGED <<shared, w, want, todo, unacked, mixed, reset>>

(* The confirmation of a STARTDT resets the numbers. *)
ReadStartDtCon ==
    /\ sock = "open"
    /\ Reading
    /\ Callback("idle")
    /\ unacked' = 0
    /\ UNCHANGED <<shared, w, want, todo, mixed, reset>>

(* A STARTDT is confirmed and resets the numbers. *)
ReadStartDtAct ==
    /\ sock = "open"
    /\ Reading
    /\ Build("startcon", "idle")
    /\ unacked' = 0
    /\ UNCHANGED <<shared, w, todo, mixed, reset>>

ReadTestAct ==
    /\ sock = "open"
    /\ Reading
    /\ Build("testcon", "idle")
    /\ UNCHANGED <<shared, w, todo, unacked, mixed, reset>>

AckDue == w + 1 >= Max_w

(* An I frame is counted; the S frame is sent now, or by the timer. *)
Counted ==
    /\ sock = "open"
    /\ Reading
    /\ unacked' = IF raced THEN 0 ELSE unacked + 1

ReadIAck ==
    /\ Counted
    /\ AckDue
    /\ Build("S", "idle")
    /\ w' = 0
    /\ UNCHANGED <<shared, todo, mixed, reset>>

ReadILater ==
    /\ Counted
    /\ ~AckDue
    /\ Callback("arm")
    /\ w' = w + 1
    /\ UNCHANGED <<shared, want, todo, mixed, reset>>

(* Mutant: the event is not added. *)
ArmForgotten == Go(loop, "arm", "idle") /\ UNCHANGED <<shared, local, want, todo, unacked, mixed, reset>>

(* event_add of the timer of the S frames, which may be pending already. *)
Arm ==
    /\ Go(loop, "arm", "idle")
    /\ pending' = pending \cup {"sframe"}
    /\ UNCHANGED <<sock, is_connect, SendLen, SendBuf, local, want, todo, unacked, mixed, reset>>

(* The timer of the S frames runs once. *)
OnTimerSframe ==
    /\ "sframe" \in pending
    /\ Build("S", "idle")
    /\ pending' = pending \ {"sframe"}
    /\ UNCHANGED <<sock, is_connect, SendLen, SendBuf, local, todo, unacked, mixed, reset>>

(* A test frame when nothing was read since the last tick. *)
OnTimerTframe ==
    /\ "tframe" \in pending
    /\ \/ is_idlesse /\ Build("testact", "idle") /\ UNCHANGED is_idlesse
       \/ ~is_idlesse /\ Callback("idle") /\ is_idlesse' = TRUE /\ UNCHANGED want
    /\ UNCHANGED <<shared, w, todo, unacked, mixed, reset>>

LoopStep ==
    \/ ConnectFailed \/ Connected \/ AddEvent \/ Login \/ Arm \/ Sending(loop)

Read ==
    \/ ReadFailed \/ ReadIgnored \/ ReadStartDtCon \/ ReadStartDtAct \/ ReadTestAct
    \/ ReadIAck \/ ReadILater

-----------------------------------------------------------------------------
(* The upload of a full queue, by a collector thread.                       *)

(* The samples are copied into SendBuf, whether there is a connection or not. *)
Fill(t) ==
    /\ Go(t, "idle", "batchlen")
    /\ SendBuf' = [SendBuf EXCEPT !.head = "batch", !.body = "batch"]
    /\ want' = [want EXCEPT ![t] = "batch"]
    /\ UNCHANGED <<sock, is_connect, pending, SendLen, local, todo, unacked, mixed, reset>>

BatchLen(t) ==
    /\ Go(t, "batchlen", "test")
    /\ SendLen' = "batch"
    /\ UNCHANGED <<sock, is_connect, pending, SendBuf, local, want, todo, unacked, mixed, reset>>

(* Without a connection SendLen stays as it is. *)
TestConnect(t) ==
    /\ Go(t, "test", IF is_connect THEN "stamp" ELSE "idle")
    /\ want' = IF is_connect THEN want ELSE [want EXCEPT ![t] = "none"]
    /\ UNCHANGED <<shared, local, todo, unacked, mixed, reset>>

Upload(t) == Fill(t) \/ BatchLen(t) \/ TestConnect(t) \/ Sending(t)

-----------------------------------------------------------------------------
(* The commands: interrogation, counters, clock, read and double command.   *)
(* The collector sends some of them for its operator where it is built with *)
(* IEC104_MASTER_CMD_RCV.                                                   *)
Command(t) ==
    /\ BuildBy(t, "command", "idle")
    /\ UNCHANGED <<shared, local, todo, unacked, mixed, reset>>

(* A write to a connection that the peer has reset: handle_pipe of the      *)
(* collector (collect.cpp) calls pthread_quit in the thread that wrote, and *)
(* the process exits two seconds later.                                     *)
Quit ==
    /\ up
    /\ \E t \in Threads : pc[t] = "quit"
    /\ up' = FALSE
    /\ UNCHANGED <<shared, local, pc, want, todo, history>>

Next ==
    \/ OnTimerConnect \/ OnTimerSframe \/ OnTimerTframe
    \/ LoopStep
    \/ Read
    \/ \E t \in Uploaders : Upload(t)
    \/ \E t \in Commanders : Command(t) \/ Sending(t)
    \/ Quit

(* A thread that is in a call goes on with it; libevent runs the timer of   *)
(* the S frames when it is due, which every further I frame may postpone    *)
(* (AcknowledgedInTheEnd says how).                                         *)
Fairness ==
    /\ WF_vars(LoopStep) /\ WF_vars(Quit)
    /\ \A t \in Uploaders : WF_vars(BatchLen(t) \/ TestConnect(t) \/ Sending(t))
    /\ \A t \in Commanders : WF_vars(Sending(t))

Spec == Init /\ [][Next]_vars /\ Fairness

-----------------------------------------------------------------------------
PC == {"idle", "len", "copy", "stamp", "write", "clear", "quit", "del", "close", "down",
       "connect", "add", "login", "arm", "batchlen", "test"}

TypeOK ==
    /\ sock \in {"none", "open", "closed"}
    /\ is_connect \in BOOLEAN /\ is_idlesse \in BOOLEAN
    /\ w \in 0..(Max_w - 1)
    /\ pending \subseteq Events
    /\ SendLen \in {"zero", "short"} \cup Long
    /\ SendBuf \in [head : {"none", "short"} \cup Long,
                    ctl : {"none", "I"} \cup Short, body : {"none"} \cup Long]
    /\ pc \in [Threads -> PC]
    /\ want \in [Threads -> {"none"} \cup Short \cup Long]
    /\ todo \in [Threads -> Seq(Events)]
    /\ up \in BOOLEAN
    /\ unacked \in Nat
    /\ raced \in BOOLEAN /\ mixed \in BOOLEAN /\ reset \in BOOLEAN

(* A connection that counts as connected is one the loop looks after: its   *)
(* read event and its timers are with libevent, unless a thread is just     *)
(* connecting or closing it.  It holds however the threads interleave, and  *)
(* without it a connection would be dead for good: nobody reads it, and     *)
(* nobody connects it again.                                                *)
NoZombie ==
    is_connect /\ pc[loop] # "add" /\ (\A t \in Threads : pc[t] \notin {"del", "close", "down"})
        => Standing \subseteq pending

(* Its inductive form: an event that is missing is still to be added by the *)
(* thread that connects, or some thread will yet reset is_connect.          *)
ZombieInv ==
    is_connect => \A e \in Standing :
        \/ e \in pending
        \/ pc[loop] = "add" /\ \E k \in DOMAIN todo[loop] : todo[loop][k] = e
        \/ \E t \in Threads : pc[t] \in {"del", "close", "down"}

(* As long as no two threads are busy with the struct at once, every write  *)
(* sends the frame that was built, and all of it.                           *)
FramesWhole == ~raced => ~mixed

(* Its inductive form: one thread at most is busy, and what it has built so *)
(* far is part of its frame.                                                *)
Ready(t) ==
    LET kind == want[t]
    IN  CASE pc[t] = "len"      -> kind \in Short \cup Built
          [] pc[t] = "copy"     -> kind \in Short \cup Built /\ SendLen = LenOf(kind)
          [] pc[t] = "batchlen" -> kind = "batch" /\ SendBuf.head = kind /\ SendBuf.body = kind
          [] pc[t] \in {"test", "stamp"} ->
                /\ kind \in Short \cup Long
                /\ SendLen = LenOf(kind) /\ SendBuf.head = LenOf(kind)
                /\ IF kind \in Short THEN SendBuf.ctl = kind ELSE SendBuf.body = kind
          [] pc[t] = "write"    -> kind \in Short \cup Long /\ Whole(kind)
          [] OTHER -> TRUE

WholeInv ==
    ~raced => /\ ~mixed
              /\ \A t, q \in Threads : t # q => pc[t] = "idle" \/ pc[q] = "idle"
              /\ \A t \in Threads : Ready(t)

(* A thread that is about to copy a frame knows which. *)
WantInv == \A t \in Threads : pc[t] \in {"len", "copy"} => want[t] \in Short \cup Built

IInv == TypeOK /\ WantInv /\ ZombieInv /\ WholeInv

(* An event is set only when libevent does not have it: every way out of a *)
(* connection has deleted all of them.                                      *)
NoResetOfPending == ~reset

(* Between two callbacks fewer than Max_w I frames are not acknowledged,    *)
(* although an upload acknowledges and leaves `w' alone.                    *)
AckBound == is_connect /\ (\A t \in Threads : pc[t] = "idle") => unacked < Max_w

(* Both hold as long as no two threads are busy with the struct at once.    *)
OrderlyUntilRaced == ~raced => NoResetOfPending /\ AckBound

(* An I frame is acknowledged in the end, if the connection stays.  The     *)
(* timer is assumed to run if no I frame comes to postpone it.              *)
TimerRuns == SF_vars(OnTimerSframe) \/ []<><<ReadIAck \/ ReadILater>>_vars

AcknowledgedInTheEnd ==
    TimerRuns => ((is_connect /\ unacked > 0) ~> (unacked = 0 \/ ~is_connect \/ raced \/ ~up))
=============================================================================
