------------------------------- MODULE WcxClient -------------------------------
(***************************************************************************)
(* One server of the client library (collect/clienet/v0.1.0/               *)
(* wcx_client.cpp), the form of the IEC 104 master that does all of its    *)
(* work in the event loop.  A frame is built in SendBuf and written later, *)
(* when libevent finds the socket writable (on_write), so that between the *)
(* two every other callback may run.  A callback is one step here.  The    *)
(* servers share nothing but the loop: the module follows one of them.     *)
(*                                                                         *)
(* The commands are the library's interface to its user: they are taken to *)
(* be called from the loop, between two callbacks (the repository has no   *)
(* user of them; nothing in them excludes the loop's thread, so that a     *)
(* call from another thread may be cut in two by a callback).              *)
(* Not modelled: what only prints (IEC104MASTER_Display, the values of an  *)
(* M_ME_TE frame).                                                         *)
(* RecvNum counts frames (the code adds 2 in an unsigned short, which      *)
(* wraps where the number in the frame does; its test for 0x7fff is never  *)
(* true).                                                                  *)
(***************************************************************************)
EXTENDS Integers

CONSTANTS
    Max_w,      \* after that many I frames an S frame is sent at once
    MaxRecv,    \* bound: I frames of the server on one connection
    MaxConnects \* bound: connections

ASSUME MaxAssumption == Max_w \in 1..255 /\ MaxRecv \in Nat /\ MaxConnects \in Nat

VARIABLES
    running,     \* the process runs
    sock,        \* fd: "none", "open", "unconnected" or "closed"
    is_connect,
    is_idlesse,
    w,
    RecvNum,
    pending,     \* the events of the struct that libevent has
    SendLen,     \* TRUE: there is something in SendBuf to send
    SendBuf,     \* the kind of the frame and the number it acknowledges
    connects,    \* connections so far
    got,         \* history: I frames received on this connection
    said,        \* history: the highest number acknowledged on it
    unacked,     \* history: I frames that no written frame acknowledges
    late,        \* history: I frames received after SendBuf was stamped
    overwritten  \* history: a frame was built over one of another kind

link == <<running, sock, is_connect, is_idlesse, connects>>
frame == <<SendLen, SendBuf, late, overwritten>>
numbers == <<w, RecvNum, got, said, unacked>>
clientVars == <<link, pending, frame, numbers>>

Short == {"startcon", "testact", "testcon", "S"}
Commands == {"C_IC_NA", "C_CI_NA", "C_CS_NA", "C_RD_NA"}
Controls == {"C_DC_NA_PreSet", "C_DC_NA_Execute", "C_DC_NA_Term"}

(* The kinds that carry the number of the next frame expected. *)
Numbered == {"login", "S"} \cup Commands \cup Controls

Events == {"read", "write", "tframe", "sframe"}

ClientInit ==
    /\ running = TRUE
    /\ sock = "none"
    /\ is_connect = FALSE /\ is_idlesse = FALSE
    /\ w = 0 /\ RecvNum = 0
    /\ pending = {}
    /\ SendLen = FALSE
    /\ SendBuf = [kind |-> "S", nr |-> 0]
    /\ connects = 0
    /\ got = 0 /\ said = 0 /\ unacked = 0 /\ late = 0
    /\ overwritten = FALSE

-----------------------------------------------------------------------------
(* iec104_send_msg(): an I or S frame gets its number, the write event is   *)
(* added.  `number' is RecvNum as the callback leaves it.                   *)
Stamped(kind, number) ==
    /\ SendLen' = TRUE
    /\ SendBuf' = [kind |-> kind, nr |-> IF kind \in Numbered THEN number ELSE 0]
    /\ late' = IF kind \in Numbered THEN 0 ELSE late
    /\ overwritten' = (overwritten \/ (SendLen /\ SendBuf.kind # kind))

(* A builder, called while there is a connection. *)
Build(kind, events) ==
    /\ Stamped(kind, RecvNum)
    /\ pending' = events \cup {"write"}

(* iec104_master_error_treat() for the codes that close a connection: the   *)
(* write event is left with libevent.                                       *)
Closed ==
    /\ sock' = "closed"
    /\ is_connect' = FALSE
    /\ pending' = pending \ {"read", "tframe", "sframe"}

-----------------------------------------------------------------------------
(* The timer of the connections, every five seconds.                        *)

(* Socket() ends the process when there is no socket to be had; so does     *)
(* connect_nonb() when select() fails.                                      *)
SocketFails ==
    /\ running /\ ~is_connect
    /\ running' = FALSE
    /\ UNCHANGED <<sock, is_connect, is_idlesse, connects, pending, frame, numbers>>

(* connect_nonb() is refused or waits two seconds in vain: Connect() closes *)
(* the descriptor and its caller closes it again.                           *)
ConnectFails ==
    /\ running /\ ~is_connect
    /\ sock' = "closed"
    /\ UNCHANGED <<running, is_connect, is_idlesse, connects, pending, frame, numbers>>

(* Mutant: RecvNum keeps counting. *)
ConnectedKeepsCounting(s) ==
    /\ running /\ ~is_connect /\ connects < MaxConnects
    /\ connects' = connects + 1
    /\ sock' = s
    /\ is_connect' = TRUE
    /\ is_idlesse' = FALSE
    /\ w' = 0 /\ RecvNum' = RecvNum
    /\ got' = 0 /\ said' = 0 /\ unacked' = 0
    /\ Stamped("login", RecvNum)
    /\ pending' = {"read", "write", "tframe"}
    /\ UNCHANGED running

(* A connection: the numbers start again, event_set() forgets what libevent *)
(* may still have of the events, and the login frame is built.  When the    *)
(* name cannot be resolved Connect() returns 0, too.                        *)
Connected(s) ==
    /\ running /\ ~is_connect /\ connects < MaxConnects
    /\ connects' = connects + 1
    /\ sock' = s
    /\ is_connect' = TRUE
    /\ is_idlesse' = FALSE
    /\ w' = 0 /\ RecvNum' = 0
    /\ got' = 0 /\ said' = 0 /\ unacked' = 0
    /\ Stamped("login", 0)
    /\ pending' = {"read", "write", "tframe"}
    /\ UNCHANGED running

OnTimerConnect == SocketFails \/ ConnectFails \/ Connected("open") \/ Connected("unconnected")

-----------------------------------------------------------------------------
(* on_read.                                                                 *)
Reading == running /\ "read" \in pending /\ is_idlesse' = FALSE

(* End of stream, an error, a frame without its start byte, or one of which *)
(* a part has arrived.                                                      *)
ReadFailed ==
    /\ Reading
    /\ Closed
    /\ UNCHANGED <<running, connects, frame, numbers>>

Received == Reading /\ sock = "open"

(* Frames without effect: too short, S frames, confirmations of a test.     *)
ReadIgnored ==
    /\ Received
    /\ UNCHANGED <<running, sock, is_connect, connects, pending, frame, numbers>>

ReadStartDtAct ==
    /\ Received
    /\ Build("startcon", pending)
    /\ RecvNum' = 0
    /\ UNCHANGED <<running, sock, is_connect, connects, w, got, said, unacked>>

ReadStartDtCon ==
    /\ Received
    /\ RecvNum' = 0
    /\ UNCHANGED <<running, sock, is_connect, connects, pending, frame, w, got, said, unacked>>

ReadTestAct ==
    /\ Received
    /\ Build("testcon", pending)
    /\ UNCHANGED <<running, sock, is_connect, connects, numbers>>

AckDue == w + 1 >= Max_w

(* An I frame is counted. *)
Counted ==
    /\ Received /\ got < MaxRecv
    /\ got' = got + 1
    /\ RecvNum' = RecvNum + 1
    /\ unacked' = unacked + 1
    /\ UNCHANGED <<running, sock, is_connect, connects, said>>

(* The S frame is built at once ... *)
ReadIAck ==
    /\ Counted /\ AckDue
    /\ Stamped("S", RecvNum + 1)
    /\ pending' = pending \cup {"write"}
    /\ w' = 0

(* Mutant: the timer is not added. *)
ReadILaterNoTimer ==
    /\ Counted /\ ~AckDue
    /\ UNCHANGED <<pending, SendLen, SendBuf, overwritten>>
    /\ late' = late + 1
    /\ w' = w + 1

(* ... or when its timer runs, which is added again for every I frame.      *)
ReadILater ==
    /\ Counted /\ ~AckDue
    /\ pending' = pending \cup {"sframe"}
    /\ UNCHANGED <<SendLen, SendBuf, overwritten>>
    /\ late' = late + 1
    /\ w' = w + 1

OnRead ==
    \/ ReadFailed \/ ReadIgnored \/ ReadStartDtAct \/ ReadStartDtCon \/ ReadTestAct
    \/ ReadIAck \/ ReadILater

-----------------------------------------------------------------------------
(* on_write.                                                                *)
Writing == running /\ "write" \in pending /\ is_idlesse' = FALSE

(* EAGAIN: the event is added again. *)
WriteAgain ==
    /\ Writing /\ sock = "open"
    /\ UNCHANGED <<running, sock, is_connect, connects, pending, frame, numbers>>

(* Written, or a part of it, which the code does not look at.               *)
WriteDone ==
    /\ Writing /\ sock = "open"
    /\ pending' = pending \ {"write"}
    /\ SendLen' = FALSE
    /\ IF SendLen /\ SendBuf.kind \in Numbered
       THEN unacked' = late /\ said' = IF SendBuf.nr > said THEN SendBuf.nr ELSE said
       ELSE UNCHANGED <<unacked, said>>
    /\ UNCHANGED <<running, sock, is_connect, connects, SendBuf, late, overwritten, w, RecvNum, got>>

(* Any other error closes the connection, once more if it is closed.        *)
WriteFails ==
    /\ Writing
    /\ sock' = "closed"
    /\ is_connect' = FALSE
    /\ pending' = pending \ Events
    /\ SendLen' = FALSE
    /\ UNCHANGED <<running, connects, SendBuf, late, overwritten, numbers>>

(* The peer has reset the connection: nobody handles SIGPIPE. *)
WritePipe ==
    /\ Writing /\ sock \in {"open", "unconnected"}
    /\ running' = FALSE
    /\ UNCHANGED <<sock, is_connect, connects, pending, frame, numbers>>

OnWrite == WriteDone \/ WriteFails \/ WritePipe

-----------------------------------------------------------------------------
(* The timers of a connection.                                              *)

(* A test frame when nothing was read or written since the last tick.       *)
OnTimerTframe ==
    /\ running /\ "tframe" \in pending
    /\ \/ is_idlesse /\ Build("testact", pending) /\ UNCHANGED is_idlesse
       \/ ~is_idlesse /\ is_idlesse' = TRUE /\ UNCHANGED <<pending, frame>>
    /\ UNCHANGED <<running, sock, is_connect, connects, numbers>>

(* The timer of the S frames runs once; `w' goes on counting. *)
OnTimerSframe ==
    /\ running /\ "sframe" \in pending
    /\ Build("S", pending \ {"sframe"})
    /\ UNCHANGED <<running, sock, is_connect, is_idlesse, connects, numbers>>

-----------------------------------------------------------------------------
(* The commands: an I frame over whatever is in SendBuf. *)
UserBuilds(kinds) ==
    /\ running /\ is_connect
    /\ \E kind \in kinds : Build(kind, pending)
    /\ UNCHANGED <<running, sock, is_connect, is_idlesse, connects, numbers>>

(* Interrogations, the clock and the read command. *)
UserCommand == UserBuilds(Commands)

(* The three steps of a control. *)
Control == UserBuilds(Controls)

ClientNext ==
    \/ OnTimerConnect \/ OnRead \/ OnWrite \/ WriteAgain \/ OnTimerTframe \/ OnTimerSframe
    \/ UserCommand \/ Control

(* The loop runs what is due: a socket is writable in the end or broken,    *)
(* and a timer expires.                                                     *)
ClientFairness == WF_clientVars(OnWrite) /\ WF_clientVars(OnTimerTframe) /\ WF_clientVars(OnTimerSframe)

ClientSpec == ClientInit /\ [][ClientNext]_clientVars /\ ClientFairness

-----------------------------------------------------------------------------
(* The client never acknowledges a frame it has not received on this        *)
(* connection: neither a frame that was built for the last connection nor a *)
(* counter that outlived it is ever written to the next.                    *)
AckTruthful == said <= got

(* An I frame is acknowledged in the end, by a frame that is written to the *)
(* same connection, unless the one send buffer has been used for another    *)
(* frame before it was written.                                             *)
AcknowledgedInTheEnd ==
    (is_connect /\ unacked > 0) ~> (unacked = 0 \/ ~is_connect \/ overwritten \/ ~running)
=============================================================================
