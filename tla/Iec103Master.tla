------------------------------ MODULE Iec103Master ------------------------------
(***************************************************************************)
(* One serial line of the IEC 60870-5-103 master (collect/iec103_master,   *)
(* dev_103.c and com.c): the thread that polls the devices of the line,    *)
(* its exchange of one frame for one answer, and the first device of the   *)
(* line, which repeats its last answer when the frame count bit (FCB) of a *)
(* request has not changed and otherwise forgets what it sent last.        *)
(*                                                                         *)
(* The input buffer is a sequence of bytes, since com.c never flushes it   *)
(* after an error and reads a wrong frame byte by byte.  The return values *)
(* of the requests are left out: the thread does not use them.  The mutex  *)
(* of the line has no other user.  Pauses, the step mode and printing are  *)
(* left out.                                                               *)
(***************************************************************************)
EXTENDS Integers, Sequences, SequencesExt

CONSTANTS
    Lines,      \* the lines: for each the addresses of its tags, in the order of the list
    Asdus,      \* what a device may have to report: <<type, vsq, cot, addr, fun, inf, data, data>>
    MaxEvents,  \* bound: events of the device
    MaxFaults   \* bound: frames lost, cut or late, and failed writes; one of them cut or late

ASSUME LinesAssumption == Lines \subseteq Seq(Nat)
ASSUME AsdusAssumption == \A a \in Asdus : a \in Seq(Nat) /\ Len(a) = 8
ASSUME BoundsAssumption == MaxEvents \in Nat /\ MaxFaults \in Nat

VARIABLES
    line,      \* the addresses of the tags of this line
    fcb,       \* per tag: its frame count bit, 0 or 0x20
    dev_flag,  \* per tag: "ONLINE" or "OFFLINE"
    pc,        \* the thread: "Start", "While", "For", "Await", "Ended"
    i,         \* its loop variable
    call,      \* the request it waits for: "reset", "first" or "second"
    fd,        \* the port is open
    rx_buf,    \* m_com[sn].rx_buf; byte n of the code is at place n + 1
    exit_flg,  \* m_exit_flg
    input,     \* the bytes in the driver's buffer
    wire,      \* the requests on their way to the device: control bytes
    device,    \* [fcb, last, events]: the bit it saw last, its last answer, what it has to report
    faults, happened,  \* counters for the bounds
    clean,     \* history: no answer was late or cut
    mistaken,  \* history: the device took a new request for a repeated one
    analysed   \* the events that were evaluated

thread == <<fcb, dev_flag, pc, i, call, rx_buf, analysed>>
vars == <<thread, line, fd, exit_flg, input, wire, device, faults, happened, clean, mistaken>>

-----------------------------------------------------------------------------
(* Frames (x103.h, dev_103.h)                                                *)

FRAME_T_CON == 16
FRAME_T_VOL == 104
EndByte == 22
FcbBit == 32                        \* also ACD, of an answer
RequestFirst == 90
RequestSecond == 91
ResetCu == 64

HasBit(c, b) == (c \div b) % 2 = 1
Toggle(c) == IF c = 0 THEN FcbBit ELSE 0
(* contral | fcb: none of the requests has the bit itself.                   *)
Control(request) == [reset |-> ResetCu, first |-> RequestFirst, second |-> RequestSecond][request]

CheckSum(bytes) ==
    LET sum[k \in 0 .. Len(bytes)] == IF k = 0 THEN 0 ELSE (sum[k - 1] + bytes[k]) % 256
    IN sum[Len(bytes)]

Fixed(c, a) == <<FRAME_T_CON, c, a, CheckSum(<<c, a>>), EndByte>>
Variable(c, a, asdu) ==
    LET body == <<c, a>> \o asdu
    IN <<FRAME_T_VOL, Len(body), Len(body), FRAME_T_VOL>> \o body \o <<CheckSum(body), EndByte>>

-----------------------------------------------------------------------------
(* com.c: receiving a frame                                                  *)

BufSize == 16                       \* as much of rx_buf as the frames here fill
EmptyBuf == [k \in 1 .. BufSize |-> 0]

(* What iec103_receive tests behind 0x68: the second length byte and the     *)
(* second start byte; the first length byte is assigned the result.          *)
HeaderOk(s) == s[3] # 0 /\ s[4] = FRAME_T_VOL

(* The bytes it reads of the input s if they come: the first tells the rest. *)
Wanted(s) ==
    CASE s = <<>> -> 1
      [] s # <<>> /\ s[1] = FRAME_T_CON -> 5
      [] s # <<>> /\ s[1] = FRAME_T_VOL -> IF Len(s) >= 6 /\ HeaderOk(s) THEN 6 + s[3] ELSE 6
      [] OTHER -> 1

(* receive_msg runs out of time, with what there is in the buffer all the    *)
(* same.                                                                     *)
Short(s) == Len(s) < Wanted(s)

(* Its return value.  Whether the rest of a variable frame came is not       *)
(* looked at.                                                                *)
iec103_receive(s) ==
    CASE s # <<>> /\ s[1] = FRAME_T_CON /\ Len(s) >= 5 -> IF s[5] = EndByte THEN 5 ELSE -1
      [] s # <<>> /\ s[1] = FRAME_T_VOL /\ Len(s) >= 6 -> IF HeaderOk(s) THEN 6 + s[3] ELSE -1
      [] OTHER -> -1

(* The buffer after it.                                                      *)
Into(rx, s) ==
    LET n == IF Short(s) THEN Len(s) ELSE Wanted(s)
        t == SubSeq(s, 1, n) \o SubSeq(rx, n + 1, BufSize)
    IN IF n >= 6 THEN [t EXCEPT ![2] = IF HeaderOk(s) THEN 1 ELSE 0] ELSE t

Rest(s) == SubSeq(s, Wanted(s) + 1, Len(s))

-----------------------------------------------------------------------------
(* dev_103.c: one frame and its answer                                       *)

(* find_next_device assigns i in its first test, and the step of its loop    *)
(* stands where the condition should.                                        *)
find_next_device(k) ==
    LET j == Len(line) - 1
    IN IF j # 0 THEN 0 ELSE j

(* c103_serial_com behind the wait: the frame type, the control byte, and    *)
(* whether checksum and address agree.  Of a variable frame the length is    *)
(* read from rx_buf[1].                                                      *)
Checked(rx, address) ==
    IF rx[1] = FRAME_T_CON
    THEN [ok |-> rx[4] = CheckSum(<<rx[2], rx[3]>>) /\ rx[3] = address,
          type |-> FRAME_T_CON, contral |-> rx[2]]
    ELSE LET len == rx[2]
         IN [ok |-> rx[len + 5] = CheckSum(SubSeq(rx, 5, len + 4)) /\ rx[6] = address,
             type |-> FRAME_T_VOL, contral |-> rx[5]]

(* What is behind a fixed frame is cleared.                                  *)
Cleared(rx) == SubSeq(rx, 1, 5) \o SubSeq(EmptyBuf, 6, BufSize)

AsduOf(rx) == SubSeq(rx, 7, 14)

(* The switch of c103_request_first: the answers after which it looks        *)
(* whether there is more to fetch.                                           *)
LooksForMore(a) ==
    LET cot == a[3]
        fun == a[5]
    IN CASE a[1] = 5 -> cot \in {3, 4, 5}
         [] a[1] = 8 -> cot # 9 \/ a[6] # 0
         [] a[1] \in {2, 40, 41} -> TRUE
         [] a[1] = 1 -> cot = 1
         [] a[1] = 44 -> cot = 9 /\ fun = 1
         [] OTHER -> FALSE

(* A self-check report (ASDU 1) is the one whose data are evaluated.         *)
Evaluated(a) == IF a[1] = 1 /\ a[3] = 1 THEN {a} ELSE {}

(* The request that follows an answer in c103_reset_cu, c103_request_second  *)
(* and c103_request_first; "none" ends the poll.                             *)
Following(answer, asdu) ==
    LET acd == HasBit(answer.contral, FcbBit)
    IN IF ~answer.ok THEN "none"
       ELSE CASE call = "reset" ->
                   IF answer.contral % 16 # 0 THEN "none" ELSE IF acd THEN "first" ELSE "second"
              [] call = "second" ->
                   IF answer.type = FRAME_T_CON /\ acd THEN "first" ELSE "none"
              [] call = "first" ->
                   IF LooksForMore(asdu) /\ acd THEN "first" ELSE "none"

-----------------------------------------------------------------------------
(* The thread: thread_iec103_collect                                         *)

Still == UNCHANGED <<line, exit_flg, device, happened, mistaken>>

(* The port gives what it has received as it is and at once, and what it had *)
(* received before is thrown away; a closed one has received nothing.        *)
RawInput == input' = <<>>

(* Opened with the line parameters, which are left out, or not. *)
iec103_connect_rtu(opened) == fd' = opened /\ RawInput

(* iec103_init_rtu and iec103_connect.                                       *)
Connect ==
    /\ pc = "Start"
    /\ \E opened \in BOOLEAN :
          /\ iec103_connect_rtu(opened)
          /\ pc' = IF ~opened \/ Len(line) = 0 THEN "Ended" ELSE "While"
    /\ UNCHANGED <<fcb, dev_flag, i, call, rx_buf, analysed, wire, faults, clean>>
    /\ Still

(* while (true): the test at its head.                                       *)
While ==
    /\ pc = "While"
    /\ IF exit_flg THEN pc' = "Ended" /\ UNCHANGED i ELSE pc' = "For" /\ i' = 0
    /\ UNCHANGED <<fcb, dev_flag, call, rx_buf, analysed, fd, input, wire, faults, clean>>
    /\ Still

(* Mutant: the flag is tested at the head of the outer loop only.            *)
ForEndsLate ==
    /\ pc = "For"
    /\ i >= Len(line)
    /\ pc' = "While"
    /\ UNCHANGED <<fcb, dev_flag, i, call, rx_buf, analysed, fd, input, wire, faults, clean>>
    /\ Still

(* The end of the loop over the tags, and the test inside it.                *)
ForEnds ==
    /\ pc = "For"
    /\ i >= Len(line) \/ exit_flg
    /\ pc' = IF i >= Len(line) THEN "While" ELSE "Ended"
    /\ UNCHANGED <<fcb, dev_flag, i, call, rx_buf, analysed, fd, input, wire, faults, clean>>
    /\ Still

(* Mutant: the bit is left as it is.                                         *)
ResetBitNot(tag) == fcb

(* c103_device_initialize: c103_reset_cu sets the bit, so that the frame,    *)
(* for which it changes, has it 0.                                           *)
ResetBit(tag) == [fcb EXCEPT ![tag] = FcbBit]

(* The body of the loop: the request a poll begins with.                     *)
Poll ==
    /\ pc = "For"
    /\ i < Len(line) /\ ~exit_flg
    /\ LET k == find_next_device(i)
       IN /\ i' = k
          /\ call' = IF dev_flag[k + 1] = "ONLINE" THEN "second" ELSE "reset"
          /\ fcb' = IF dev_flag[k + 1] = "ONLINE" THEN fcb ELSE ResetBit(k + 1)
    /\ pc' = "Send"
    /\ UNCHANGED <<dev_flag, rx_buf, analysed, fd, input, wire, faults, clean>>
    /\ Still

(* c103_serial_com up to the wait for the answer: the bit changes with every *)
(* frame.                                                                    *)
Sends ==
    /\ pc = "Send"
    /\ fcb' = [fcb EXCEPT ![i + 1] = Toggle(@)]
    /\ pc' = "Await"
    /\ UNCHANGED <<dev_flag, i, call, rx_buf, analysed, clean>>
    /\ Still

Send ==
    /\ Sends
    /\ fd
    /\ wire' = Append(wire, Control(call) + Toggle(fcb[i + 1]))
    /\ UNCHANGED <<fd, input, faults>>

(* Mutant: the port is closed only.                                          *)
ReopenedNot(opened) == iec103_connect_rtu(FALSE)

(* error_treat after a write that failed: the port is closed and opened.     *)
(* c103_serial_com waits all the same.                                       *)
Reopened(opened) == iec103_connect_rtu(opened)

SendFails(opened) ==
    /\ Sends
    /\ LET n == faults + (IF fd THEN 1 ELSE 0) + (IF opened THEN 0 ELSE 1)
       IN n <= MaxFaults /\ faults' = n
    /\ Reopened(opened)
    /\ UNCHANGED wire

(* c103_serial_com from the wait on.  iec103_receive returns with a frame or *)
(* because it has waited long enough; since that is -1 or more than 0, never *)
(* 0, the loop of three attempts ends after the first.                       *)
Receive ==
    /\ pc = "Await"
    /\ LET tag == i + 1
           ret == iec103_receive(input)
           tooLate == Short(input) /\ wire # <<>>
           read == Into(rx_buf, input)
           answer == Checked(read, line[tag])
           passes == ret > 0 /\ answer.ok
           rx == IF passes /\ answer.type = FRAME_T_CON THEN Cleared(read) ELSE read
           next == IF passes THEN Following(answer, AsduOf(rx)) ELSE "none"
       IN /\ tooLate => faults < MaxFaults /\ clean
          /\ faults' = IF tooLate THEN faults + 1 ELSE faults
          /\ clean' = (clean /\ ~tooLate)
          /\ input' = Rest(input)
          /\ dev_flag' = [dev_flag EXCEPT ![tag] = IF ret > 0 THEN "ONLINE" ELSE "OFFLINE"]
          /\ rx_buf' = rx
          /\ analysed' = IF passes /\ call = "first" THEN analysed \cup Evaluated(AsduOf(rx))
                         ELSE analysed
          /\ IF next = "none" THEN pc' = "For" /\ i' = i + 1 /\ UNCHANGED call
             ELSE pc' = "Send" /\ call' = next /\ UNCHANGED i
    /\ UNCHANGED <<fcb, fd, wire>>
    /\ Still

(* iec103_master_exit, from another thread.                                  *)
iec103_master_exit ==
    /\ ~exit_flg
    /\ exit_flg' = TRUE
    /\ UNCHANGED <<thread, line, fd, input, wire, device, faults, happened, clean, mistaken>>

-----------------------------------------------------------------------------
(* The first device of the line, and the line                                *)

Address == line[1]

(* What it answers to a new request: a reset is confirmed; first class data  *)
(* are what happened, in order; of the second class it has none.             *)
Answer(c, events) ==
    LET acd(n) == IF n > 0 THEN FcbBit ELSE 0
    IN CASE c % 16 = 0 -> Fixed(acd(Len(events)), Address)
         [] c % 16 = 10 /\ events # <<>> -> Variable(8 + acd(Len(events) - 1), Address, Head(events))
         [] OTHER -> Fixed(9 + acd(Len(events)), Address)

(* A request reaches the device, which repeats its answer or drops the event *)
(* that it sent in it.  The answer arrives whole, not at all, or cut.        *)
Handle ==
    /\ wire # <<>>
    /\ LET c == Head(wire)
           bit == HasBit(c, FcbBit)
           reset == c % 16 = 0
           repeated == ~reset /\ bit = device.bit
           fetched == ~reset /\ ~repeated /\ device.sent
           events == IF fetched THEN Tail(device.events) ELSE device.events
           answer == IF repeated THEN device.last ELSE Answer(c, events)
       IN /\ device' = [bit |-> bit /\ ~reset, last |-> answer, events |-> events,
                        sent |-> IF repeated THEN device.sent ELSE c % 16 = 10 /\ events # <<>>]
          /\ mistaken' = (mistaken \/ repeated)
          /\ \E bytes \in {answer, <<>>, Tail(answer), Front(answer)} :
                /\ bytes # answer => faults < MaxFaults /\ (clean \/ bytes = <<>>)
                /\ faults' = IF bytes = answer THEN faults ELSE faults + 1
                /\ clean' = (clean /\ bytes \in {answer, <<>>})
                /\ input' = IF fd THEN input \o bytes ELSE input
    /\ wire' = Tail(wire)
    /\ UNCHANGED <<thread, line, fd, exit_flg, happened>>

(* A request is lost.                                                        *)
RequestLost ==
    /\ wire # <<>> /\ faults < MaxFaults
    /\ wire' = Tail(wire)
    /\ faults' = faults + 1
    /\ UNCHANGED <<thread, line, fd, exit_flg, input, device, happened, clean, mistaken>>

(* Something happens that the device has to report.                          *)
Happens(asdu) ==
    /\ happened < MaxEvents
    /\ happened' = happened + 1
    /\ device' = [device EXCEPT !.events = Append(@, asdu)]
    /\ UNCHANGED <<thread, line, fd, exit_flg, input, wire, faults, clean, mistaken>>

-----------------------------------------------------------------------------

(* iec103_init, and a device that may have been polled before.               *)
Init ==
    /\ line \in Lines
    /\ fcb = [t \in DOMAIN line |-> 0]
    /\ dev_flag = [t \in DOMAIN line |-> "OFFLINE"]
    /\ pc = "Start" /\ i = 0 /\ call = "reset"
    /\ rx_buf = EmptyBuf
    /\ fd = FALSE /\ exit_flg = FALSE
    /\ input = <<>> /\ wire = <<>>
    /\ \E b \in BOOLEAN : device = [bit |-> b, last |-> <<0>>, events |-> <<>>, sent |-> FALSE]
    /\ faults = 0 /\ happened = 0
    /\ clean = TRUE /\ mistaken = FALSE
    /\ analysed = {}

Thread == Connect \/ While \/ ForEnds \/ Poll \/ Send \/ SendFails(TRUE) \/ SendFails(FALSE) \/ Receive

Next ==
    \/ Thread
    \/ iec103_master_exit
    \/ Handle \/ RequestLost
    \/ \E a \in Asdus : Happens(a)

(* The scheduler runs the thread, a select ends by its timeout, and the      *)
(* device is there.                                                          *)
Fairness == WF_vars(Thread) /\ WF_vars(Handle)

Spec == Init /\ [][Next]_vars
FairSpec == Spec /\ Fairness

-----------------------------------------------------------------------------

TypeOK ==
    /\ line \in Lines
    /\ fcb \in [DOMAIN line -> {0, FcbBit}]
    /\ dev_flag \in [DOMAIN line -> {"ONLINE", "OFFLINE"}]
    /\ pc \in {"Start", "While", "For", "Send", "Await", "Ended"}
    /\ i \in 0 .. Len(line)
    /\ call \in {"reset", "first", "second"}
    /\ \A k \in DOMAIN rx_buf : rx_buf[k] \in 0 .. 255
    /\ faults \in 0 .. MaxFaults
    /\ analysed \subseteq Asdus

(* Requests and answers may get lost: as long as no answer came late or cut, *)
(* the frame count bits of the two ends agree, and the device never takes a  *)
(* new request for the repetition of an old one (c103_serial_com changes the *)
(* bit even when the frame before was lost, and relies on the reset that     *)
(* follows), and no byte of an answer is left for the next exchange,         *)
(* whatever kind of frame it was and whether or not it passed the checks.    *)
InStep == clean => ~mistaken /\ (pc \in {"While", "For"} => input = <<>>)

(* A device that answers is found on line again and again, after any faults: *)
(* bytes that were left over are read up, a port that failed is opened.      *)
Recovered == []<>(pc = "Ended" \/ (line # <<>> /\ dev_flag[1] = "ONLINE"))

(* After iec103_master_exit the thread ends (iec103_master_run joins it).    *)
Stops == exit_flg ~> pc = "Ended"
=============================================================================
