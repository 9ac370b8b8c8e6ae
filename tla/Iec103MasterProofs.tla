--------------------------- MODULE Iec103MasterProofs ---------------------------
(***************************************************************************)
(* Proofs about Iec103Master, for any lines, any reports of the devices    *)
(* and any number of faults.  That the two ends stay in step is an         *)
(* invariant of the exchange: as long as no answer came late or cut, there *)
(* is at any time one request on its way, or one whole answer in the       *)
(* buffer, or neither, and only while the thread waits.  A request that    *)
(* was lost, or its answer, takes the device off line, and a device that   *)
(* is off line is reset before it is polled.                               *)
(***************************************************************************)
EXTENDS Iec103Master, TLAPS

Requests == {"reset", "first", "second"}

Types ==
    /\ line \in Seq(Nat)
    /\ fcb \in [DOMAIN line -> {0, FcbBit}]
    /\ dev_flag \in [DOMAIN line -> {"ONLINE", "OFFLINE"}]
    /\ pc \in {"Start", "While", "For", "Send", "Await", "Ended"}
    /\ i \in Nat
    /\ call \in Requests
    /\ wire \in Seq(Nat)
    /\ clean \in BOOLEAN
    /\ DOMAIN device = {"bit", "last", "events", "sent"}
    /\ device.bit \in BOOLEAN /\ device.sent \in BOOLEAN
    /\ device.events \in Seq(Asdus)
    /\ device.sent => device.events # <<>>
    /\ pc \in {"While", "For"} => line # <<>>
    /\ pc \in {"Send", "Await"} => line # <<>> /\ i = 0

(* The device has seen the bit that the thread sent last.                   *)
Agree == device.bit = (fcb[1] = FcbBit)

(* A frame that iec103_receive reads whole and accepts.                     *)
Complete(s) ==
    /\ s # <<>> /\ <<>> \o s = s
    /\ Len(s) = Wanted(s) /\ iec103_receive(s) > 0 /\ Rest(s) = <<>>

(* What there is between the thread and the device while it waits: nothing  *)
(* any more, the request, or the answer.                                    *)
Lost == wire = <<>> /\ input = <<>>
Asked ==
    /\ wire = <<Control(call) + fcb[1]>> /\ input = <<>>
    /\ IF call = "reset" THEN fcb[1] = 0 ELSE ~Agree
Answered == wire = <<>> /\ Complete(input) /\ Agree

StepInv ==
    /\ ~mistaken
    /\ pc # "Await" => wire = <<>> /\ input = <<>>
    /\ pc = "Start" => \A t \in DOMAIN line : dev_flag[t] = "OFFLINE"
    /\ pc \in {"While", "For"} => (dev_flag[1] = "ONLINE" => Agree)
    /\ pc = "Send" => IF call = "reset" THEN fcb[1] = FcbBit ELSE Agree
    /\ pc = "Await" => Lost \/ Asked \/ Answered

IInv == Types /\ (clean => StepInv)

-----------------------------------------------------------------------------
(* The frames.                                                              *)

LEMMA FrameParts ==
    ASSUME NEW S, NEW start \in Seq(S), NEW head \in Seq(S), NEW asdu \in Seq(S), NEW end \in Seq(S)
    PROVE  LET s == start \o (head \o asdu) \o end IN
           /\ Len(head \o asdu) = Len(head) + Len(asdu)
           /\ s \in Seq(S)
           /\ Len(s) = Len(start) + (Len(head) + Len(asdu)) + Len(end)
           /\ \A n \in 1 .. Len(start) : s[n] = start[n]
<1> DEFINE body == head \o asdu
           front == start \o body
<1>1. body \in Seq(S)
  OBVIOUS
<1>2. Len(body) = Len(head) + Len(asdu)
  OBVIOUS
<1> HIDE DEF body
<1>3. front \in Seq(S)
  BY <1>1
<1>4. Len(front) = Len(start) + Len(body)
  BY <1>1
<1>5. \A n \in 1 .. Len(start) : front[n] = start[n] /\ n \in 1 .. Len(front)
  BY <1>1
<1> HIDE DEF front
<1>6. front \o end \in Seq(S)
  BY <1>3
<1>7. Len(front \o end) = Len(front) + Len(end)
  BY <1>3
<1>8. \A n \in 1 .. Len(front) : (front \o end)[n] = front[n]
  BY <1>3
<1>9. \A n \in 1 .. Len(start) : (front \o end)[n] = start[n]
  BY <1>5, <1>8
<1>10. QED
  BY <1>2, <1>4, <1>6, <1>7, <1>9 DEF front, body

LEMMA HasFirst ==
    ASSUME NEW S, NEW s \in Seq(S), s # <<>>
    PROVE  1 \in DOMAIN s
<1>1. DOMAIN s = 1 .. Len(s) /\ Len(s) \in Nat /\ Len(s) # 0
  OBVIOUS
<1>2. QED
  BY <1>1

(* A frame of fixed length is read whole.                                   *)
LEMMA FixedComplete ==
    ASSUME NEW c, NEW a
    PROVE  Complete(Fixed(c, a))
<1> DEFINE x == CheckSum(<<c, a>>)
           s == <<16, c, a, x, 22>>
<1> HIDE DEF x
<1>1. Fixed(c, a) = s
  BY DEF Fixed, FRAME_T_CON, EndByte, x
<1>2. s \in Seq({16, c, a, x, 22}) /\ Len(s) = 5 /\ s # <<>> /\ s[1] = 16 /\ s[5] = 22
  OBVIOUS
<1> HIDE DEF s
<1>3. Wanted(s) = 5
  BY <1>2 DEF Wanted, FRAME_T_CON, FRAME_T_VOL
<1>4. iec103_receive(s) = 5
  BY <1>2 DEF iec103_receive, FRAME_T_CON, FRAME_T_VOL, EndByte
<1>5. Rest(s) = <<>> /\ <<>> \o s = s
  BY <1>2, <1>3 DEF Rest
<1>6. QED
  BY <1>1, <1>2, <1>3, <1>4, <1>5 DEF Complete

(* So is one of variable length with a report in it.                        *)
LEMMA VariableComplete ==
    ASSUME NEW c, NEW a, NEW asdu \in Asdus
    PROVE  Complete(Variable(c, a, asdu))
<1> DEFINE head == <<c, a>>
           body == head \o asdu
           x == CheckSum(body)
           S == Nat \cup {c, a, x}
           start == <<104, 10, 10, 104>>
           end == <<x, 22>>
           s == start \o body \o end
<1>1. asdu \in Seq(Nat) /\ Len(asdu) = 8
  BY AsdusAssumption
<1> HIDE DEF x
<1>2. /\ head \in Seq(S) /\ Len(head) = 2
      /\ asdu \in Seq(S)
      /\ start \in Seq(S) /\ Len(start) = 4 /\ start[1] = 104 /\ start[3] = 10 /\ start[4] = 104
      /\ end \in Seq(S) /\ Len(end) = 2
  BY <1>1
<1> HIDE DEF head, start, end, S
<1>3. /\ Len(body) = Len(head) + Len(asdu)
      /\ s \in Seq(S)
      /\ Len(s) = Len(start) + (Len(head) + Len(asdu)) + Len(end)
      /\ \A n \in 1 .. Len(start) : s[n] = start[n]
  <2>1. asdu \in Seq(S) /\ start \in Seq(S) /\ head \in Seq(S) /\ end \in Seq(S)
    BY <1>2
  <2>2. QED
    BY <2>1, FrameParts
<1> HIDE DEF body, s
<1>4. Len(body) = 10 /\ Len(s) = 16
  BY <1>1, <1>2, <1>3
<1>5. Variable(c, a, asdu) = s
  BY <1>4 DEF Variable, FRAME_T_VOL, EndByte, start, body, head, end, x, s
<1>6. s[1] = 104 /\ s[3] = 10 /\ s[4] = 104
  BY <1>2, <1>3
<1>7. s # <<>> /\ HeaderOk(s)
  <2>1. s # <<>>
    <3>1. Len(<<>>) # 16
      OBVIOUS
    <3>2. QED
      BY <1>4, <3>1
  <2>2. HeaderOk(s)
    BY <1>6 DEF HeaderOk, FRAME_T_VOL
  <2>3. QED
    BY <2>1, <2>2
<1>8. Wanted(s) = 16
  BY <1>4, <1>6, <1>7 DEF Wanted, FRAME_T_CON, FRAME_T_VOL
<1>9. iec103_receive(s) = 16
  BY <1>4, <1>6, <1>7 DEF iec103_receive, FRAME_T_CON, FRAME_T_VOL
<1>10. Rest(s) = <<>> /\ <<>> \o s = s
  <2>1. s \in Seq(S)
    BY <1>3
  <2>2. Rest(s) = SubSeq(s, Len(s) + 1, Len(s))
    BY <1>4, <1>8 DEF Rest
  <2>3. SubSeq(s, Len(s) + 1, Len(s)) = <<>> /\ <<>> \o s = s
    BY <2>1
  <2>4. QED
    BY <2>2, <2>3
<1>11. QED
  BY <1>4, <1>5, <1>7, <1>8, <1>9, <1>10 DEF Complete

(* Whatever the device answers to a request, it is a whole frame.           *)
LEMMA AnswerComplete ==
    ASSUME NEW c \in Nat, NEW events \in Seq(Asdus)
    PROVE  Complete(Answer(c, events))
<1>1. CASE c % 16 = 0
  BY <1>1, FixedComplete DEF Answer
<1>2. CASE c % 16 = 10 /\ events # <<>>
  <2>1. Head(events) \in Asdus
    BY <1>2
  <2>2. QED
    BY <1>2, <2>1, VariableComplete DEF Answer
<1>3. CASE c % 16 # 0 /\ ~(c % 16 = 10 /\ events # <<>>)
  BY <1>3, FixedComplete DEF Answer
<1>4. QED
  BY <1>1, <1>2, <1>3

(* The control bytes: the function of a request, and its bit.               *)
LEMMA ControlBytes ==
    ASSUME NEW r \in Requests, NEW b \in {0, FcbBit}, r = "reset" => b = 0
    PROVE  LET c == Control(r) + b IN
           /\ c \in Nat
           /\ c % 16 = 0 <=> r = "reset"
           /\ HasBit(c, FcbBit) <=> b = FcbBit
<1>1. Control("reset") = 64 /\ Control("first") = 90 /\ Control("second") = 91
  BY DEF Control, ResetCu, RequestFirst, RequestSecond
<1>2. CASE r = "reset"
  <2>1. b = 0 /\ Control(r) + b = 64
    BY <1>1, <1>2
  <2>2. 64 % 16 = 0 /\ (64 \div 32) % 2 # 1
    OBVIOUS
  <2>3. QED
    BY <1>2, <2>1, <2>2 DEF HasBit, FcbBit
<1>3. CASE r = "first"
  BY <1>1, <1>3 DEF HasBit, FcbBit
<1>4. CASE r = "second"
  BY <1>1, <1>4 DEF HasBit, FcbBit
<1>5. QED
  BY <1>2, <1>3, <1>4 DEF Requests

LEMMA Toggles == \A c \in {0, FcbBit} : Toggle(c) \in {0, FcbBit} /\ Toggle(c) # c
BY DEF Toggle, FcbBit

(* What may follow an answer.                                               *)
LEMMA Followers ==
    ASSUME call \in Requests, NEW answer, NEW asdu
    PROVE  Following(answer, asdu) \in {"none", "first", "second"}
<1>1. CASE ~answer.ok
  BY <1>1 DEF Following
<1>2. CASE answer.ok /\ call = "reset"
  BY <1>2 DEF Following
<1>3. CASE answer.ok /\ call = "second"
  BY <1>3 DEF Following
<1>4. CASE answer.ok /\ call = "first"
  BY <1>4 DEF Following
<1>5. QED
  BY <1>1, <1>2, <1>3, <1>4 DEF Requests

-----------------------------------------------------------------------------
(* The invariant.                                                           *)

LEMMA InitIInv == Init => IInv
<1> SUFFICES ASSUME Init PROVE IInv
  OBVIOUS
<1>1. line \in Seq(Nat)
  BY LinesAssumption DEF Init
<1>2. PICK b \in BOOLEAN : device = [bit |-> b, last |-> <<0>>, events |-> <<>>, sent |-> FALSE]
  BY DEF Init
<1>3. device.events \in Seq(Asdus)
  BY <1>2
<1>4. Types
  BY <1>1, <1>2, <1>3 DEF Init, Types, Requests, FcbBit
<1>5. StepInv
  BY DEF Init, StepInv
<1>6. QED
  BY <1>4, <1>5 DEF IInv

(* The port is opened, the loops begin and end.                             *)
LEMMA LoopStep ==
    ASSUME IInv, Connect \/ While \/ ForEnds
    PROVE  IInv'
<1>1. /\ UNCHANGED <<line, fcb, dev_flag, call, wire, clean, device, mistaken>>
      /\ i' \in {i, 0}
      /\ pc \in {"Start", "While", "For"} /\ pc' \in {"While", "For", "Ended"}
      /\ pc' \in {"While", "For"} => line # <<>>
      /\ input' \in {input, <<>>}
      /\ pc = "Start" => pc' \in {"While", "Ended"}
  BY DEF Connect, While, ForEnds, Still, iec103_connect_rtu, RawInput, IInv, Types
<1>2. Types'
  BY <1>1 DEF IInv, Types
<1>3. ASSUME clean PROVE StepInv'
  <2>1. StepInv
    BY <1>3 DEF IInv
  <2>2. wire' = <<>> /\ input' = <<>> /\ ~mistaken'
    BY <1>1, <2>1 DEF StepInv
  <2>3. pc' \in {"While", "For"} => (dev_flag'[1] = "ONLINE" => Agree')
    <3>1. ASSUME pc' \in {"While", "For"}, dev_flag[1] = "ONLINE" PROVE Agree
      <4>1. pc # "Start"
        BY <1>1, <2>1, <3>1 DEF IInv, Types, StepInv
      <4>2. QED
        BY <1>1, <2>1, <3>1, <4>1 DEF StepInv
    <3>2. Agree' = Agree
      BY <1>1 DEF Agree
    <3>3. QED
      BY <1>1, <3>1, <3>2
  <2>4. QED
    BY <1>1, <2>2, <2>3 DEF StepInv
<1>4. QED
  BY <1>1, <1>2, <1>3 DEF IInv

(* A poll begins: a device off line is reset.                               *)
LEMMA PollStep ==
    ASSUME IInv, Poll
    PROVE  IInv'
<1>1. pc = "For" /\ pc' = "Send" /\ line \in Seq(Nat) /\ line # <<>>
      /\ UNCHANGED <<line, dev_flag, wire, input, clean, device, mistaken>>
  BY DEF Poll, Still, IInv, Types
<1>2. find_next_device(i) = 0 /\ 1 \in DOMAIN line
  BY <1>1 DEF find_next_device
<1>3. /\ i' = 0
      /\ call' = IF dev_flag[1] = "ONLINE" THEN "second" ELSE "reset"
      /\ fcb' = IF dev_flag[1] = "ONLINE" THEN fcb ELSE [fcb EXCEPT ![1] = FcbBit]
  BY <1>2 DEF Poll, ResetBit
<1>4. Types'
  BY <1>1, <1>3 DEF IInv, Types, Requests
<1>5. ASSUME clean PROVE StepInv'
  <2>1. StepInv
    BY <1>5 DEF IInv
  <2>2. wire' = <<>> /\ input' = <<>> /\ ~mistaken'
    BY <1>1, <2>1 DEF StepInv
  <2>3. IF call' = "reset" THEN fcb'[1] = FcbBit ELSE Agree'
    <3>1. CASE dev_flag[1] = "ONLINE"
      BY <1>1, <1>3, <2>1, <3>1 DEF StepInv, Agree
    <3>2. CASE dev_flag[1] # "ONLINE"
      BY <1>1, <1>2, <1>3, <3>2 DEF IInv, Types
    <3>3. QED
      BY <3>1, <3>2
  <2>4. QED
    BY <1>1, <2>2, <2>3 DEF StepInv
<1>6. QED
  BY <1>1, <1>4, <1>5 DEF IInv

(* The request is written, or fails to be.                                  *)
LEMMA SendStep ==
    ASSUME IInv, Send \/ SendFails(TRUE) \/ SendFails(FALSE)
    PROVE  IInv'
<1>1. /\ pc = "Send" /\ pc' = "Await" /\ i = 0 /\ line # <<>> /\ Types
      /\ UNCHANGED <<line, dev_flag, i, call, clean, device, mistaken>>
      /\ fcb' = [fcb EXCEPT ![1] = Toggle(@)]
      /\ \/ wire' = Append(wire, Control(call) + Toggle(fcb[1])) /\ input' = input
         \/ wire' = wire /\ input' = <<>>
  BY DEF Send, SendFails, Sends, Still, Reopened, iec103_connect_rtu, RawInput, IInv, Types
<1>2. 1 \in DOMAIN line /\ fcb[1] \in {0, FcbBit}
  BY <1>1, HasFirst DEF Types
<1>3. /\ fcb' \in [DOMAIN line -> {0, FcbBit}] /\ fcb'[1] = Toggle(fcb[1])
      /\ fcb'[1] \in {0, FcbBit} /\ fcb'[1] # fcb[1]
  BY <1>1, <1>2, Toggles DEF Types
<1>4. Control(call) + fcb'[1] \in Nat
  <2>1. Control(call) \in Nat
    BY <1>1 DEF Types, Requests, Control, ResetCu, RequestFirst, RequestSecond
  <2>2. QED
    BY <2>1, <1>3 DEF FcbBit
<1>5. Types'
  <2>1. wire \in Seq(Nat) /\ wire' \in {wire, Append(wire, Control(call) + fcb'[1])}
    BY <1>1, <1>3 DEF Types
  <2>2. wire' \in Seq(Nat)
    BY <1>4, <2>1
  <2>3. QED
    BY <1>1, <1>3, <2>2 DEF Types
<1>6. ASSUME clean PROVE StepInv'
  <2>1. StepInv
    BY <1>6 DEF IInv
  <2>2. wire = <<>> /\ input = <<>> /\ ~mistaken
    BY <1>1, <2>1 DEF StepInv
  <2>3. IF call' = "reset" THEN fcb'[1] = 0 ELSE ~Agree'
    BY <1>1, <1>2, <1>3, <2>1 DEF StepInv, Agree, Types
  <2>4. Asked' \/ Lost'
    BY <1>1, <1>3, <2>2, <2>3 DEF Asked, Lost
  <2>5. QED
    BY <1>1, <2>2, <2>4 DEF StepInv
<1>7. QED
  BY <1>1, <1>5, <1>6 DEF IInv

(* The wait ends: with a whole answer, or with none.                        *)
LEMMA ReceiveStep ==
    ASSUME IInv, Receive
    PROVE  IInv'
<1> DEFINE tooLate == Short(input) /\ wire # <<>>
           ret == iec103_receive(input)
<1>1. /\ pc = "Await" /\ i = 0 /\ line # <<>> /\ Types
      /\ UNCHANGED <<line, fcb, wire, device, mistaken>>
      /\ clean' = (clean /\ ~tooLate)
      /\ input' = Rest(input)
      /\ dev_flag' = [dev_flag EXCEPT ![1] = IF ret > 0 THEN "ONLINE" ELSE "OFFLINE"]
  BY DEF Receive, Still, IInv, Types
<1>2. \/ pc' = "For" /\ i' = i + 1 /\ call' = call
      \/ pc' = "Send" /\ call' \in {"first", "second"} /\ i' = i /\ ret > 0
  <2>1. \A answer, asdu : Following(answer, asdu) \in {"none", "first", "second"}
    BY <1>1, Followers DEF Types
  <2>2. QED
    BY <2>1 DEF Receive
<1>3. 1 \in DOMAIN line
  BY <1>1, HasFirst DEF Types
<1>4. Types'
  <2>1. dev_flag' \in [DOMAIN line -> {"ONLINE", "OFFLINE"}]
    BY <1>1 DEF Types
  <2>2. i' \in Nat /\ (pc' \in {"Send", "Await"} => i' = 0) /\ call' \in Requests
    BY <1>1, <1>2 DEF Types, Requests
  <2>3. clean' \in BOOLEAN
    BY <1>1 DEF Types
  <2>4. QED
    BY <1>1, <1>2, <2>1, <2>2, <2>3 DEF Types
<1>5. ASSUME clean' PROVE StepInv'
  <2>1. StepInv /\ ~tooLate
    BY <1>1, <1>5 DEF IInv
  <2>2. Short(<<>>)
    BY DEF Short, Wanted
  <2>3. Lost \/ Answered
    BY <1>1, <2>1, <2>2 DEF StepInv, Asked
  <2>4. Rest(<<>>) = <<>> /\ iec103_receive(<<>>) = -1
    BY DEF Rest, Wanted, iec103_receive
  <2>5. wire' = <<>> /\ input' = <<>>
    BY <1>1, <2>3, <2>4 DEF Lost, Answered, Complete
  <2>6. ret > 0 => Agree
    BY <2>3, <2>4 DEF Lost, Answered
  <2>7. Agree' = Agree
    BY <1>1 DEF Agree
  <2>8. dev_flag'[1] = "ONLINE" => Agree'
    BY <1>1, <1>3, <2>6, <2>7 DEF Types
  <2>9. ~mistaken'
    BY <1>1, <2>1 DEF StepInv
  <2>10. QED
    BY <1>2, <2>5, <2>6, <2>7, <2>8, <2>9 DEF StepInv
<1>6. QED
  BY <1>4, <1>5 DEF IInv

(* The device handles a request.                                            *)
LEMMA HandleStep ==
    ASSUME IInv, Handle
    PROVE  IInv'
<1> DEFINE c == Head(wire)
           bit == HasBit(c, FcbBit)
           reset == c % 16 = 0
           repeated == ~reset /\ bit = device.bit
           fetched == ~reset /\ ~repeated /\ device.sent
           events == IF fetched THEN Tail(device.events) ELSE device.events
           answer == IF repeated THEN device.last ELSE Answer(c, events)
<1>1. Types /\ wire # <<>> /\ c \in Nat /\ wire' = Tail(wire) /\ wire' \in Seq(Nat)
  BY DEF Handle, IInv, Types
<1>2. /\ UNCHANGED <<fcb, dev_flag, pc, i, call, line>>
      /\ device' = [bit |-> bit /\ ~reset, last |-> answer, events |-> events,
                    sent |-> IF repeated THEN device.sent ELSE c % 16 = 10 /\ events # <<>>]
      /\ mistaken' = (mistaken \/ repeated)
  BY DEF Handle, thread
<1>3. PICK bytes : /\ clean' = (clean /\ bytes \in {answer, <<>>})
                   /\ input' = IF fd THEN input \o bytes ELSE input
  BY DEF Handle
<1>4. events \in Seq(Asdus) /\ bit \in BOOLEAN
  BY <1>1 DEF Types, HasBit
<1>5. Types'
  <2>1. device'.sent \in BOOLEAN /\ (device'.sent => device'.events # <<>>)
    BY <1>1, <1>2 DEF Types
  <2>2. /\ DOMAIN device' = {"bit", "last", "events", "sent"}
        /\ device'.bit \in BOOLEAN /\ device'.events \in Seq(Asdus)
    BY <1>2, <1>4
  <2>3. clean' \in BOOLEAN
    BY <1>1, <1>3 DEF Types
  <2>4. QED
    BY <1>1, <1>2, <2>1, <2>2, <2>3 DEF Types
<1>6. ASSUME clean' PROVE StepInv'
  <2>1. StepInv /\ bytes \in {answer, <<>>}
    BY <1>1, <1>3, <1>6 DEF IInv, Types
  <2>2. pc = "Await" /\ Asked
    BY <1>1, <2>1 DEF StepInv, Lost, Answered
  <2>3. fcb[1] \in {0, FcbBit} /\ call \in Requests
    BY <1>1, <2>2 DEF Types
  <2>4. c = Control(call) + fcb[1] /\ wire' = <<>> /\ input = <<>>
    BY <1>1, <2>2 DEF Asked
  <2>5. (reset <=> call = "reset") /\ (bit <=> fcb[1] = FcbBit)
    BY <2>2, <2>3, <2>4, ControlBytes DEF Asked
  <2>6. ~repeated
    BY <2>2, <2>5, <1>1 DEF Asked, Agree, Types
  <2>7. Agree'
    <3>1. device'.bit = (bit /\ ~reset) /\ fcb' = fcb
      BY <1>2
    <3>2. reset => fcb[1] = 0
      BY <2>2, <2>5 DEF Asked
    <3>3. QED
      BY <3>1, <3>2, <2>5, <1>4 DEF Agree, FcbBit
  <2>8. Complete(answer)
    BY <1>1, <1>4, <2>6, AnswerComplete
  <2>9. input' = <<>> \/ input' = answer
    <3>1. CASE bytes = <<>> \/ ~fd
      BY <1>3, <2>4, <3>1
    <3>2. CASE bytes = answer /\ fd
      BY <1>3, <2>4, <2>8, <3>2 DEF Complete
    <3>3. QED
      BY <2>1, <3>1, <3>2
  <2>10. Lost' \/ Answered'
    BY <2>4, <2>7, <2>8, <2>9 DEF Lost, Answered
  <2>11. ~mistaken' /\ pc' = "Await"
    BY <1>2, <2>1, <2>2, <2>6 DEF StepInv
  <2>12. QED
    BY <2>10, <2>11 DEF StepInv
<1>7. QED
  BY <1>5, <1>6 DEF IInv

(* A request is lost, something happens, the thread is told to end.         *)
LEMMA OtherStep ==
    ASSUME IInv, RequestLost \/ iec103_master_exit \/ \E a \in Asdus : Happens(a)
    PROVE  IInv'
<1>1. CASE RequestLost
  <2>1. /\ UNCHANGED <<line, fcb, dev_flag, pc, i, call, input, device, clean, mistaken>>
        /\ wire # <<>> /\ wire' = Tail(wire)
    BY <1>1 DEF RequestLost, thread
  <2>2. Types'
    BY <2>1 DEF IInv, Types
  <2>3. ASSUME clean PROVE StepInv'
    <3>1. StepInv
      BY <2>3 DEF IInv
    <3>2. pc = "Await" /\ Asked
      BY <2>1, <3>1 DEF StepInv, Lost, Answered
    <3>3. Lost'
      BY <2>1, <3>2 DEF Asked, Lost
    <3>4. QED
      BY <2>1, <3>1, <3>2, <3>3 DEF StepInv
  <2>4. QED
    BY <2>1, <2>2, <2>3 DEF IInv
<1>2. CASE iec103_master_exit
  <2>1. UNCHANGED <<line, fcb, dev_flag, pc, i, call, input, wire, device, clean, mistaken>>
    BY <1>2 DEF iec103_master_exit, thread
  <2>2. QED
    BY <2>1 DEF IInv, Types, StepInv, Agree, Lost, Asked, Answered
<1>3. ASSUME NEW a \in Asdus, Happens(a) PROVE IInv'
  <2>1. /\ UNCHANGED <<line, fcb, dev_flag, pc, i, call, input, wire, clean, mistaken>>
        /\ device' = [device EXCEPT !.events = Append(@, a)]
    BY <1>3 DEF Happens, thread
  <2>2. /\ DOMAIN device' = DOMAIN device
        /\ device'.bit = device.bit /\ device'.sent = device.sent
        /\ device'.events = Append(device.events, a)
    BY <2>1 DEF IInv, Types
  <2>3. device'.events \in Seq(Asdus) /\ device'.events # <<>>
    <3>1. device.events \in Seq(Asdus)
      BY DEF IInv, Types
    <3>2. Append(device.events, a) \in Seq(Asdus) /\ Append(device.events, a) # <<>>
      BY <3>1, <1>3
    <3>3. QED
      BY <2>2, <3>2
  <2>4. Types'
    BY <2>1, <2>2, <2>3 DEF IInv, Types
  <2>5. QED
    BY <2>1, <2>2, <2>4 DEF IInv, StepInv, Agree, Lost, Asked, Answered
<1>4. QED
  BY <1>1, <1>2, <1>3

LEMMA StepIInv == IInv /\ [Next]_vars => IInv'
<1> SUFFICES ASSUME IInv, [Next]_vars PROVE IInv'
  OBVIOUS
<1>1. CASE UNCHANGED vars
  BY <1>1 DEF vars, thread, IInv, Types, StepInv, Agree, Lost, Asked, Answered
<1>2. CASE Next
  BY <1>2, LoopStep, PollStep, SendStep, ReceiveStep, HandleStep, OtherStep DEF Next, Thread
<1>3. QED
  BY <1>1, <1>2

(* The frame count bits of c103_serial_com and of the device agree, and no  *)
(* byte is left over between two exchanges, until an answer comes late or   *)
(* cut: for every line, whatever the devices report and whichever requests  *)
(* and answers are lost.                                                    *)
THEOREM StaysInStep == Spec => []InStep
<1>1. IInv => InStep
  BY DEF IInv, Types, StepInv, InStep
<1>2. QED
  BY <1>1, InitIInv, StepIInv, PTL DEF Spec
=============================================================================
