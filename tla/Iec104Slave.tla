------------------------------ MODULE Iec104Slave ------------------------------
(***************************************************************************)
(* The IEC 104 slave (IEC104_SLAVE/iec104_slave.cpp, built with TEST       *)
(* defined, as its line 38 does): one libevent loop, one struct            *)
(* IEC104_SLAVE per accepted connection.  The connections share nothing    *)
(* but the loop, so the module follows one of them.  A callback runs to    *)
(* its end before the next one starts: it is one action here, with every   *)
(* frame it sends and the outcome of every write as its inputs.            *)
(*                                                                         *)
(* The peer is modelled by what it can observe: the number it expects in   *)
(* the next I frame, the last acknowledgement it got, and what it found    *)
(* wrong.                                                                  *)
(*                                                                         *)
(* ev_write and ev_timer_sframe are never bound to the event base of the   *)
(* slave (lines 362 to 368 bind neither; only ev_read and ev_timer_tframe  *)
(* are given IEC104SLAVE_event_base), and libevent 2.0 refuses to add an   *)
(* event that has no base: their event_add changes nothing, and            *)
(* on_timer_sframe is never called.                                        *)
(***************************************************************************)
EXTENDS Integers, Sequences

CONSTANTS
    MAX_W,      \* after that many I frames an S frame is sent at once
    W_MOD,      \* `w' is an unsigned char: 256
    NUM_MOD,    \* SendNum and RecvNum are unsigned shorts: 65536
    MaxItems,   \* bound: information objects in one command frame
    Outcomes    \* what write() may do: "ok", "again", "short", "error"

ASSUME MaxWAssumption    == MAX_W \in Nat \ {0} /\ W_MOD \in Nat /\ MAX_W < W_MOD
ASSUME NumAssumption     == NUM_MOD \in Nat /\ NUM_MOD % 4 = 0 /\ NUM_MOD > 2 * (MAX_W + 1)
ASSUME ItemsAssumption   == MaxItems \in Nat
ASSUME OutcomeAssumption == "ok" \in Outcomes /\ Outcomes \subseteq {"ok", "again", "short", "error"}

VARIABLES
    s,       \* the struct IEC104_SLAVE
    peer     \* what the peer has observed on this connection

vars == <<s, peer>>

(* A record that calloc has just filled, before on_accept sets it up. *)
Fresh ==
    [mem |-> "none",              \* none, live or freed
     is_connect |-> FALSE, is_idlesse |-> FALSE, is_send_sframe |-> FALSE,
     SendNum |-> 0, RecvNum |-> 0, w |-> 0,
     ev_read |-> FALSE, ev_timer_tframe |-> FALSE]     \* pending in the loop

(* gap: an I frame did not carry the number expected; missed: a frame, or   *)
(* the rest of one, was not written, and what the peer observes is followed *)
(* no further.                                                              *)
NewPeer == [expects |-> 0, ack |-> 0, gap |-> FALSE, missed |-> FALSE]
Missing == [NewPeer EXCEPT !.missed = TRUE]

Init ==
    /\ s = Fresh
    /\ peer = NewPeer

-----------------------------------------------------------------------------
(* Sending: a pair of the struct and the peer is threaded through the       *)
(* frames one callback sends.                                               *)

(* What the peer learns from a whole frame. *)
Observed(p, kind, st) ==
    IF p.missed THEN p
    ELSE CASE kind = "startcon" -> [p EXCEPT !.expects = 0, !.ack = 0]
           [] kind = "I" -> [p EXCEPT !.expects = (st.SendNum + 2) % NUM_MOD,
                                      !.ack = st.RecvNum,
                                      !.gap = @ \/ st.SendNum # p.expects]
           [] kind = "S" -> [p EXCEPT !.ack = st.RecvNum]
           [] OTHER -> p

(* The close paths of on_write and on_read delete both events, close the    *)
(* socket and free the struct.                                              *)
Freed == [Fresh EXCEPT !.mem = "freed"]

(* Mutant: SendNum is not advanced. *)
OnWriteSameNumber(x, kind, outcome) ==
    CASE outcome = "ok"    -> [x EXCEPT !.p = Observed(x.p, kind, x.st)]
      [] outcome = "error" -> [x EXCEPT !.st = Freed]
      [] OTHER             -> [x EXCEPT !.p = Missing]

(* on_write: an I frame takes its numbers, then it is written.  After        *)
(* EAGAIN the frame stays in SendBuf, where the next builder overwrites it; *)
(* after another error the struct is freed (and SendLen is still set in it).*)
OnWrite(x, kind, outcome) ==
    LET st == x.st
        numbered == IF kind = "I" THEN [st EXCEPT !.SendNum = (@ + 2) % NUM_MOD] ELSE st
    IN  CASE outcome = "ok"    -> [st |-> numbered, p |-> Observed(x.p, kind, st)]
          [] outcome \in {"again", "short"} -> [st |-> numbered, p |-> Missing]
          [] outcome = "error" -> [x EXCEPT !.st = Freed]

(* Every builder tests is_connect, also in a struct that is gone: the model *)
(* takes the freed field to read FALSE still.                               *)
Build(x, kind, outcome) == IF x.st.is_connect THEN OnWrite(x, kind, outcome) ELSE x

(* The builders of I frames (M_EI_NA and the six acknowledgements): the     *)
(* frame acknowledges what was received, so no S frame is needed.           *)
BuildI(x, outcome) ==
    IF x.st.is_connect THEN OnWrite([x EXCEPT !.st.is_send_sframe = FALSE], "I", outcome) ELSE x

Do(x) == s' = x.st /\ peer' = x.p

Here == [st |-> s, p |-> peer]

-----------------------------------------------------------------------------
(* on_accept; a failed setsockopt closes the socket and changes nothing. *)
Accept ==
    /\ s.mem \in {"none", "freed"}
    /\ s' = [Fresh EXCEPT !.mem = "live", !.is_connect = TRUE,
                          !.ev_read = TRUE, !.ev_timer_tframe = TRUE]
    /\ peer' = NewPeer

(* on_read may be called; it notes that the channel is not idle. *)
Reading == s.ev_read

Awake == [Here EXCEPT !.st.is_idlesse = FALSE]

(* End of stream, a read error, a wrong start byte, or a frame that has not *)
(* arrived as a whole.                                                      *)
ReadClosed ==
    /\ Reading
    /\ Do([Awake EXCEPT !.st = Freed])

(* An S frame, a test confirmation, an unknown short frame, or a frame      *)
(* shorter than six bytes: nothing is done.                                 *)
ReadIgnored ==
    /\ Reading
    /\ Do(Awake)

(* STARTDT: the confirmation, a second's sleep, the end of initialisation.  *)
ReadStartDt ==
    /\ Reading
    /\ \E o1, o2 \in Outcomes :
        LET reset == [Awake EXCEPT !.st.SendNum = 0, !.st.RecvNum = 0]
        IN  Do(BuildI(Build(reset, "startcon", o1), o2))

ReadTestAct ==
    /\ Reading
    /\ \E o \in Outcomes : Do(Build(Awake, "testcon", o))

(* Mutant: the number is wider than its two bytes in the frame. *)
CountedRecvNumWide == s.RecvNum + 2

(* RecvNum is even, so its test for 0x7fff never holds: the number wraps    *)
(* with the unsigned short.                                                 *)
CountedRecvNum == IF s.RecvNum = NUM_MOD \div 2 - 1 THEN 0 ELSE (s.RecvNum + 2) % NUM_MOD

Counted ==
    [Awake EXCEPT !.st.is_send_sframe = TRUE,
                  !.st.RecvNum = CountedRecvNum,
                  !.st.w = (@ + 1) % W_MOD]

(* Mutant: the comparison with MAX_W is strict. *)
AcknowledgeLate(x, outcome) ==
    IF x.st.is_send_sframe /\ x.st.w > MAX_W
    THEN [Build(x, "S", outcome) EXCEPT !.st.w = 0]
    ELSE x

(* Lines 1314 to 1329: an S frame now, or the timer that never runs. *)
Acknowledge(x, outcome) ==
    IF x.st.is_send_sframe /\ x.st.w >= MAX_W
    THEN [Build(x, "S", outcome) EXCEPT !.st.w = 0]
    ELSE x

(* An I frame of a type that is not answered, or a command with a cause     *)
(* that is neither 6 nor 8.                                                 *)
ReadReport ==
    /\ Reading
    /\ \E o \in Outcomes : Do(Acknowledge(Counted, o))

(* What the objects of a command leave behind, one after the other: each is  *)
(* answered with an I frame, whatever became of the one before.              *)
Answered(os) ==
    LET after[i \in 0..Len(os)] == IF i = 0 THEN Counted ELSE BuildI(after[i - 1], os[i])
    IN  after[Len(os)]

(* A command that is answered object by object: a selection or its end,     *)
(* and, as the file is built (TEST), an execution too.                      *)
ReadCommand ==
    /\ Reading
    /\ \E n \in 1..MaxItems : \E os \in [1..n -> Outcomes] : \E o \in Outcomes :
        Do(Acknowledge(Answered(os), o))

(* on_timer_tframe: a test frame if nothing was read since the last tick. *)
OnTimerTframe ==
    /\ s.ev_timer_tframe
    /\ \/ /\ s.is_idlesse
          /\ \E o \in Outcomes : Do(Build(Here, "testact", o))
       \/ /\ ~s.is_idlesse
          /\ Do([Here EXCEPT !.st.is_idlesse = TRUE])

Next ==
    \/ Accept
    \/ ReadClosed \/ ReadIgnored \/ ReadStartDt \/ ReadTestAct
    \/ ReadReport \/ ReadCommand
    \/ OnTimerTframe

Spec == Init /\ [][Next]_vars

-----------------------------------------------------------------------------
TypeOK ==
    /\ s \in [mem : {"none", "live", "freed"},
              is_connect : BOOLEAN, is_idlesse : BOOLEAN, is_send_sframe : BOOLEAN,
              SendNum : 0..(NUM_MOD - 1), RecvNum : 0..(NUM_MOD - 1), w : 0..(W_MOD - 1),
              ev_read : BOOLEAN, ev_timer_tframe : BOOLEAN]
    /\ peer \in [expects : 0..(NUM_MOD - 1), ack : 0..(NUM_MOD - 1),
                 gap : BOOLEAN, missed : BOOLEAN]

(* I frames received and not acknowledged to the peer. *)
Unacknowledged == ((s.RecvNum - peer.ack) % NUM_MOD) \div 2

(* Between two callbacks at most MAX_W I frames wait for an acknowledgement, *)
(* although the I frames that acknowledge do not reset `w'.  There are MAX_W *)
(* when the first of them made `w' wrap to zero.  The socket has taken every *)
(* frame: one that it refuses is dropped, an acknowledgement too.            *)
UnackedBound == s.mem = "live" /\ ~peer.missed => Unacknowledged <= MAX_W

(* The peer sees the I frames of a connection numbered without a gap, from  *)
(* each STARTDT on, as long as the socket takes every frame (on_write gives *)
(* a number also to a frame that it then drops).                            *)
Consecutive == ~peer.gap
=============================================================================
