-------------------------- MODULE Iec104MasterProofs --------------------------
(***************************************************************************)
(* Proofs about Iec104Master for any number of collector threads.  IInv is *)
(* inductive: ZombieInv is kept because both error paths delete every event *)
(* before they reset is_connect, and iec104_master_connect sets is_connect *)
(* before it adds the first event; WholeInv follows one frame through its  *)
(* builder, under the hypothesis that the threads have not overlapped.     *)
(***************************************************************************)
EXTENDS Iec104Master, TLAPS

(* The loop is one of the threads. *)
LEMMA LoopIsThread == loop \in Threads
BY DEF Threads

(* The two lists of events are sequences of events. *)
LEMMA ListsOfEvents == Added \in Seq(Events) /\ Deleted \in Seq(Events)
BY DEF Added, Deleted, Events, Standing

(* The tail of a list of events is one. *)
LEMMA TailOfEvents ==
    ASSUME NEW s \in Seq(Events), s # <<>>
    PROVE  Tail(s) \in Seq(Events) /\ Head(s) \in Events
OBVIOUS

(* What a list holds is its head or in its tail. *)
LEMMA HeadOrTail ==
    ASSUME NEW s \in Seq(Events), s # <<>>, NEW k \in DOMAIN s
    PROVE  \/ s[k] = Head(s)
           \/ Len(s) # 1 /\ \E j \in DOMAIN Tail(s) : Tail(s)[j] = s[k]
<1>1. CASE k = 1
  BY <1>1
<1>2. CASE k # 1
  <2>1. k - 1 \in DOMAIN Tail(s) /\ Tail(s)[k - 1] = s[k]
    BY <1>2
  <2>2. Len(s) # 1
    BY <1>2
  <2>3. QED
    BY <2>1, <2>2
<1>3. QED
  BY <1>1, <1>2

(* A connection adds every standing event. *)
LEMMA StandingAdded == \A e \in Standing : \E k \in DOMAIN Added : Added[k] = e
<1>1. Added[1] = "read" /\ Added[2] = "tframe" /\ Added[3] = "WriteDB" /\ {1, 2, 3} \subseteq DOMAIN Added
  BY DEF Added
<1>2. QED
  BY <1>1 DEF Standing

LEMMA InitIInv == Init => IInv
<1> SUFFICES ASSUME Init PROVE IInv
  OBVIOUS
<1> USE DEF Init
<1>1. TypeOK
  <2>1. pc \in [Threads -> PC] /\ want \in [Threads -> {"none"} \cup Short \cup Long]
    BY DEF PC
  <2>2. todo \in [Threads -> Seq(Events)] /\ pending \subseteq Events
    OBVIOUS
  <2>3. w \in 0..(Max_w - 1)
    BY MaxWAssumption
  <2>4. QED
    BY <2>1, <2>2, <2>3 DEF TypeOK, Short, Long, Built
<1>2. ZombieInv
  BY DEF ZombieInv
<1>3. WholeInv
  BY DEF WholeInv, Ready
<1>4. WantInv
  BY DEF WantInv
<1>5. QED
  BY <1>1, <1>2, <1>3, <1>4 DEF IInv

-----------------------------------------------------------------------------
(* Every step keeps the types. *)
LEMMA TypeSending ==
    ASSUME TypeOK, WantInv, NEW t \in Threads, Sending(t)
    PROVE  TypeOK'
<1> USE DEF TypeOK, Go, shared, local, PC
<1>1. CASE SetLen(t)
  <2>1. want[t] \in Short \cup Built
    BY <1>1 DEF SetLen, WantInv
  <2>2. SendLen' \in {"zero", "short"} \cup Long
    BY <1>1, <2>1 DEF SetLen, LenOf, Long
  <2>3. QED
    BY <1>1, <2>2 DEF SetLen
<1>2. CASE Copy(t)
  <2>1. want[t] \in Short \cup Built
    BY <1>2 DEF Copy, WantInv
  <2>2. SendBuf' \in [head : {"none", "short"} \cup Long,
                      ctl : {"none", "I"} \cup Short, body : {"none"} \cup Long]
    BY <1>2, <2>1 DEF Copy, Long
  <2>3. QED
    BY <1>2, <2>2 DEF Copy
<1>3. CASE Stamp(t)
  BY <1>3 DEF Stamp
<1>4. CASE Write(t)
  <2>1. pc' \in [Threads -> PC] /\ unacked' \in Nat /\ mixed' \in BOOLEAN /\ raced' \in BOOLEAN
    BY <1>4, OutcomeAssumption DEF Write, PC, Whole
  <2>2. todo' \in [Threads -> Seq(Events)]
    BY <1>4, ListsOfEvents DEF Write
  <2>3. QED
    BY <1>4, <2>1, <2>2 DEF Write, PC
<1>5. CASE Del(t)
  BY <1>5, TailOfEvents DEF Del
<1>6. CASE CloseSock(t)
  BY <1>6 DEF CloseSock
<1>7. CASE Down(t)
  BY <1>7 DEF Down
<1>8. CASE Clear(t)
  BY <1>8 DEF Clear
<1>9. QED
  BY <1>1, <1>2, <1>3, <1>4, <1>5, <1>6, <1>7, <1>8 DEF Sending

LEMMA TypeStep == TypeOK /\ WantInv /\ [Next]_vars => TypeOK'
<1> SUFFICES ASSUME TypeOK, WantInv, [Next]_vars PROVE TypeOK'
  OBVIOUS
<1> USE LoopIsThread DEF TypeOK, Go, Callback, Build, BuildBy, shared, local, PC
<1>1. CASE OnTimerConnect
  BY <1>1 DEF OnTimerConnect
<1>2. CASE OnTimerSframe
  BY <1>2 DEF OnTimerSframe, Short
<1>3. CASE OnTimerTframe
  <2>1. CASE is_idlesse /\ Build("testact", "idle") /\ UNCHANGED is_idlesse
    BY <1>3, <2>1 DEF OnTimerTframe, Short
  <2>2. CASE ~is_idlesse /\ Callback("idle") /\ is_idlesse' = TRUE /\ UNCHANGED want
    BY <1>3, <2>2 DEF OnTimerTframe
  <2>3. QED
    BY <1>3, <2>1, <2>2 DEF OnTimerTframe
<1>4. CASE LoopStep
  <2>1. CASE ConnectFailed
    BY <2>1 DEF ConnectFailed
  <2>2. CASE Connected
    <3>1. w' \in 0..(Max_w - 1) /\ unacked' \in Nat
      BY <2>2, MaxWAssumption DEF Connected
    <3>2. todo' \in [Threads -> Seq(Events)]
      BY <2>2, ListsOfEvents DEF Connected
    <3>3. QED
      BY <2>2, <3>1, <3>2 DEF Connected
  <2>3. CASE AddEvent
    BY <2>3, TailOfEvents DEF AddEvent
  <2>4. CASE Login
    BY <2>4 DEF Login, Long, Built
  <2>5. CASE Arm
    BY <2>5 DEF Arm, Events
  <2>6. QED
    BY <1>4, <2>1, <2>2, <2>3, <2>4, <2>5, TypeSending DEF LoopStep
<1>5. CASE Read
  <2>1. CASE ReadFailed
    BY <2>1, ListsOfEvents DEF ReadFailed, Reading
  <2>2. CASE ReadIAck
    <3>1. w' \in 0..(Max_w - 1) /\ unacked' \in Nat
      BY <2>2, MaxWAssumption DEF ReadIAck, Counted
    <3>2. want' \in [Threads -> {"none"} \cup Short \cup Long]
      BY <2>2 DEF ReadIAck, Short
    <3>3. QED
      BY <2>2, <3>1, <3>2 DEF ReadIAck, Counted, Reading
  <2>3. CASE ReadILater
    <3>1. w' \in 0..(Max_w - 1) /\ unacked' \in Nat
      BY <2>3, MaxWAssumption DEF ReadILater, Counted, AckDue
    <3>2. QED
      BY <2>3, <3>1 DEF ReadILater, Counted, Reading
  <2>4. CASE ReadIgnored
    BY <2>4 DEF ReadIgnored, Reading
  <2>5. CASE ReadStartDtCon
    BY <2>5 DEF ReadStartDtCon, Reading
  <2>6. CASE ReadStartDtAct
    BY <2>6 DEF ReadStartDtAct, Reading, Short
  <2>7. CASE ReadTestAct
    BY <2>7 DEF ReadTestAct, Reading, Short
  <2>8. QED
    BY <1>5, <2>1, <2>2, <2>3, <2>4, <2>5, <2>6, <2>7 DEF Read
<1>6. ASSUME NEW t \in Uploaders, Upload(t) PROVE TypeOK'
  <2>1. t \in Threads
    BY DEF Threads
  <2>2. CASE Fill(t)
    BY <2>1, <2>2 DEF Fill, Long, Built
  <2>3. CASE BatchLen(t)
    BY <2>1, <2>3 DEF BatchLen, Long, Built
  <2>4. CASE TestConnect(t)
    BY <2>1, <2>4 DEF TestConnect
  <2>5. QED
    BY <1>6, <2>1, <2>2, <2>3, <2>4, TypeSending DEF Upload
<1>7. ASSUME NEW t \in Commanders, Command(t) \/ Sending(t) PROVE TypeOK'
  <2>1. t \in Threads
    BY DEF Threads
  <2>2. CASE Command(t)
    BY <2>1, <2>2 DEF Command, Long, Built
  <2>3. QED
    BY <1>7, <2>1, <2>2, TypeSending
<1>8. CASE Quit
  <2>1. UNCHANGED shared /\ UNCHANGED local
    BY <1>8 DEF Quit
  <2>2. UNCHANGED history /\ pc' = pc /\ want' = want /\ todo' = todo /\ up' \in BOOLEAN
    BY <1>8 DEF Quit
  <2>3. QED
    BY <2>1, <2>2 DEF history
<1>9. CASE UNCHANGED vars
  BY <1>9 DEF vars, control, history
<1>10. QED
  BY <1>1, <1>2, <1>3, <1>4, <1>5, <1>6, <1>7, <1>8, <1>9 DEF Next

-----------------------------------------------------------------------------
(* A step of thread t alone: the other threads stay where they are.          *)
Solo(t) ==
    /\ \A q \in Threads \ {t} : pc'[q] = pc[q] /\ want'[q] = want[q] /\ todo'[q] = todo[q]
    /\ raced' = (raced \/ \E q \in Threads \ {t} : pc[q] # "idle")

(* Every step but the end of the process is one of a single thread. *)
LEMMA SendingSolo ==
    ASSUME TypeOK, NEW t \in Threads, Sending(t)
    PROVE  Solo(t)
<1> USE DEF TypeOK, Go, Solo
<1>1. CASE SetLen(t)
  BY <1>1 DEF SetLen
<1>2. CASE Copy(t)
  BY <1>2 DEF Copy
<1>3. CASE Stamp(t)
  BY <1>3 DEF Stamp
<1>4. CASE Write(t)
  BY <1>4 DEF Write
<1>5. CASE Del(t)
  BY <1>5 DEF Del
<1>6. CASE CloseSock(t)
  BY <1>6 DEF CloseSock
<1>7. CASE Down(t)
  BY <1>7 DEF Down
<1>8. CASE Clear(t)
  BY <1>8 DEF Clear
<1>9. QED
  BY <1>1, <1>2, <1>3, <1>4, <1>5, <1>6, <1>7, <1>8 DEF Sending

LEMMA LoopSolo ==
    ASSUME TypeOK, OnTimerConnect \/ OnTimerSframe \/ OnTimerTframe \/ LoopStep \/ Read
    PROVE  Solo(loop)
<1> USE LoopIsThread DEF TypeOK, Go, Callback, Build, BuildBy, Solo
<1>1. CASE OnTimerConnect
  BY <1>1 DEF OnTimerConnect
<1>2. CASE OnTimerSframe
  BY <1>2 DEF OnTimerSframe
<1>3. CASE OnTimerTframe
  BY <1>3 DEF OnTimerTframe
<1>4. CASE LoopStep
  BY <1>4, SendingSolo DEF LoopStep, ConnectFailed, Connected, AddEvent, Login, Arm
<1>5. CASE Read
  BY <1>5 DEF Read, ReadFailed, ReadIgnored, ReadStartDtCon, ReadStartDtAct, ReadTestAct,
              ReadIAck, ReadILater
<1>6. QED
  BY <1>1, <1>2, <1>3, <1>4, <1>5

LEMMA UploadSolo ==
    ASSUME TypeOK, NEW t \in Uploaders, Upload(t)
    PROVE  t \in Threads /\ t # loop /\ Solo(t)
<1>1. t \in Threads /\ t # loop
  BY LoopAssumption DEF Threads
<1>2. CASE Sending(t)
  BY <1>1, <1>2, SendingSolo
<1>3. CASE ~Sending(t)
  BY <1>1, <1>3 DEF Upload, Fill, BatchLen, TestConnect, Solo, Go, TypeOK
<1>4. QED
  BY <1>1, <1>2, <1>3

LEMMA CommandSolo ==
    ASSUME TypeOK, NEW t \in Commanders, Command(t) \/ Sending(t)
    PROVE  t \in Threads /\ Solo(t)
<1>1. t \in Threads
  BY DEF Threads
<1>2. CASE Command(t)
  BY <1>1, <1>2 DEF Command, BuildBy, Solo, Go, TypeOK
<1>3. QED
  BY <1>1, <1>2, SendingSolo

(* A command begins when its thread is idle, and is known before it is copied. *)
LEMMA CommandBegins ==
    ASSUME TypeOK, NEW t \in Threads, Command(t)
    PROVE  /\ pc[t] = "idle"
           /\ pc'[t] = "idle" \/ (pc'[t] = "len" /\ want'[t] \in Short \cup Built)
           /\ is_connect' = is_connect /\ pending' = pending /\ mixed' = mixed
BY DEF Command, BuildBy, Go, TypeOK, Built, shared

-----------------------------------------------------------------------------
(* A thread knows its frame before it copies it. *)
LEMMA WantSending ==
    ASSUME TypeOK, WantInv, NEW t \in Threads, Sending(t)
    PROVE  pc'[t] \in {"len", "copy"} => want'[t] \in Short \cup Built
<1> USE DEF TypeOK, Go
<1>1. CASE SetLen(t)
  BY <1>1 DEF SetLen, WantInv
<1>2. CASE Write(t)
  BY <1>2, OutcomeAssumption DEF Write
<1>3. CASE ~SetLen(t) /\ ~Write(t)
  BY <1>3 DEF Sending, Copy, Stamp, Del, CloseSock, Down, Clear
<1>4. QED
  BY <1>1, <1>2, <1>3

LEMMA WantStep == TypeOK /\ WantInv /\ [Next]_vars => WantInv'
<1> SUFFICES ASSUME TypeOK, WantInv, [Next]_vars PROVE WantInv'
  OBVIOUS
<1>1. ASSUME NEW t \in Threads, Solo(t),
             pc'[t] \in {"len", "copy"} => want'[t] \in Short \cup Built
      PROVE  WantInv'
  BY <1>1 DEF Solo, WantInv
<1>2. CASE OnTimerConnect \/ OnTimerSframe \/ OnTimerTframe \/ Read
  <2> USE LoopIsThread DEF TypeOK, Go, Callback, Build, BuildBy, Short
  <2>1. pc'[loop] \in {"len", "copy"} => want'[loop] \in Short \cup Built
    <3>1. CASE OnTimerConnect \/ OnTimerSframe \/ OnTimerTframe
      BY <3>1 DEF OnTimerConnect, OnTimerSframe, OnTimerTframe
    <3>2. CASE Read
      BY <3>2 DEF Read, ReadFailed, ReadIgnored, ReadStartDtCon, ReadStartDtAct, ReadTestAct,
                  ReadIAck, ReadILater
    <3>3. QED
      BY <1>2, <3>1, <3>2
  <2>2. QED
    BY <1>1, <1>2, <2>1, LoopSolo
<1>3. CASE LoopStep
  <2>1. pc'[loop] \in {"len", "copy"} => want'[loop] \in Short \cup Built
    BY <1>3, WantSending, LoopIsThread
       DEF LoopStep, ConnectFailed, Connected, AddEvent, Login, Arm, Build, BuildBy, Built, Go, TypeOK
  <2>2. QED
    BY <1>1, <1>3, <2>1, LoopSolo, LoopIsThread
<1>4. ASSUME NEW t \in Uploaders, Upload(t) PROVE WantInv'
  <2>1. t \in Threads /\ Solo(t)
    BY <1>4, UploadSolo
  <2>2. pc'[t] \in {"len", "copy"} => want'[t] \in Short \cup Built
    BY <1>4, <2>1, WantSending DEF Upload, Fill, BatchLen, TestConnect, Go, TypeOK
  <2>3. QED
    BY <1>1, <2>1, <2>2
<1>5. ASSUME NEW t \in Commanders, Command(t) \/ Sending(t) PROVE WantInv'
  <2>1. t \in Threads /\ Solo(t)
    BY <1>5, CommandSolo
  <2>2. pc'[t] \in {"len", "copy"} => want'[t] \in Short \cup Built
    BY <1>5, <2>1, WantSending, CommandBegins
  <2>3. QED
    BY <1>1, <2>1, <2>2
<1>6. CASE Quit \/ UNCHANGED vars
  BY <1>6 DEF Quit, vars, control, WantInv
<1>7. QED
  BY <1>2, <1>3, <1>4, <1>5, <1>6 DEF Next

-----------------------------------------------------------------------------
(* No connection is lost.                                                    *)
Closing == {"del", "close", "down"}

(* A step that neither connects nor closes. *)
LEMMA QuietStep ==
    ASSUME ZombieInv, NEW t \in Threads, Solo(t), pc[t] \notin Closing \cup {"add"},
           is_connect' => is_connect, pending \cap Standing \subseteq pending'
    PROVE  ZombieInv'
<1> SUFFICES ASSUME is_connect', NEW e \in Standing
             PROVE  \/ e \in pending'
                    \/ pc'[loop] = "add" /\ \E k \in DOMAIN todo'[loop] : todo'[loop][k] = e
                    \/ \E q \in Threads : pc'[q] \in {"del", "close", "down"}
  BY DEF ZombieInv
<1>1. CASE e \in pending
  BY <1>1
<1>2. CASE pc[loop] = "add" /\ \E k \in DOMAIN todo[loop] : todo[loop][k] = e
  <2>1. loop \in Threads \ {t}
    BY <1>2, LoopIsThread
  <2>2. QED
    BY <1>2, <2>1 DEF Solo
<1>3. CASE \E q \in Threads : pc[q] \in {"del", "close", "down"}
  BY <1>3 DEF Solo, Closing
<1>4. QED
  BY <1>1, <1>2, <1>3 DEF ZombieInv

(* A thread that is closing resets is_connect last. *)
LEMMA ZombieSending ==
    ASSUME TypeOK, ZombieInv, NEW t \in Threads, Sending(t)
    PROVE  ZombieInv'
<1>1. Solo(t)
  BY SendingSolo
<1>2. CASE SetLen(t) \/ Copy(t) \/ Stamp(t) \/ Write(t) \/ Clear(t)
  <2>1. pc[t] \notin Closing \cup {"add"}
    BY <1>2 DEF SetLen, Copy, Stamp, Write, Clear, Go, Closing
  <2>2. is_connect' = is_connect /\ pending' = pending
    BY <1>2 DEF SetLen, Copy, Stamp, Write, Clear, shared
  <2>3. QED
    BY <1>1, <2>1, <2>2, QuietStep
<1>3. CASE Del(t)
  <2>1. pc'[t] \in {"del", "close", "down"}
    BY <1>3 DEF Del, Go, TypeOK
  <2>2. QED
    BY <2>1 DEF ZombieInv
<1>4. CASE CloseSock(t)
  <2>1. pc'[t] \in {"del", "close", "down"}
    BY <1>4 DEF CloseSock, Go, TypeOK
  <2>2. QED
    BY <2>1 DEF ZombieInv
<1>5. CASE Down(t)
  BY <1>5 DEF Down, ZombieInv
<1>6. QED
  BY <1>2, <1>3, <1>4, <1>5 DEF Sending

LEMMA ZombieStep == TypeOK /\ ZombieInv /\ [Next]_vars => ZombieInv'
<1> SUFFICES ASSUME TypeOK, ZombieInv, [Next]_vars PROVE ZombieInv'
  OBVIOUS
<1> USE LoopIsThread
<1>1. CASE OnTimerConnect \/ OnTimerSframe \/ OnTimerTframe \/ ConnectFailed \/ Login \/ Arm
           \/ (Read /\ ~ReadFailed)
  <2>1. Solo(loop)
    BY <1>1, LoopSolo DEF LoopStep
  <2>2. pc[loop] \notin Closing \cup {"add"}
    BY <1>1 DEF OnTimerConnect, OnTimerSframe, OnTimerTframe, ConnectFailed, Login, Arm, Read,
                ReadIgnored, ReadStartDtCon, ReadStartDtAct, ReadTestAct, ReadIAck, ReadILater,
                Build, BuildBy, Callback, Go, Closing
  <2>3. is_connect' = is_connect
    BY <1>1 DEF OnTimerConnect, OnTimerSframe, OnTimerTframe, ConnectFailed, Login, Arm, Read,
                ReadIgnored, ReadStartDtCon, ReadStartDtAct, ReadTestAct, ReadIAck, ReadILater,
                shared
  <2>4. pending \cap Standing \subseteq pending'
    BY <1>1 DEF OnTimerConnect, OnTimerSframe, OnTimerTframe, ConnectFailed, Login, Arm, Read,
                ReadIgnored, ReadStartDtCon, ReadStartDtAct, ReadTestAct, ReadIAck, ReadILater,
                shared, Standing
  <2>5. QED
    BY <2>1, <2>2, <2>3, <2>4, QuietStep
<1>2. CASE Connected
  <2>1. pc'[loop] = "add" /\ todo'[loop] = Added
    BY <1>2 DEF Connected, Go, TypeOK
  <2>2. QED
    BY <2>1, StandingAdded DEF ZombieInv
<1>3. CASE AddEvent
  <2> SUFFICES ASSUME is_connect', NEW e \in Standing
               PROVE  \/ e \in pending'
                      \/ pc'[loop] = "add" /\ \E k \in DOMAIN todo'[loop] : todo'[loop][k] = e
                      \/ \E q \in Threads : pc'[q] \in {"del", "close", "down"}
    BY DEF ZombieInv
  <2>1. CASE e \in pending
    BY <1>3, <2>1 DEF AddEvent
  <2>2. CASE \E k \in DOMAIN todo[loop] : todo[loop][k] = e
    <3>1. PICK k \in DOMAIN todo[loop] : todo[loop][k] = e
      BY <2>2
    <3>2. todo[loop] \in Seq(Events) /\ todo[loop] # <<>>
      BY <1>3 DEF AddEvent, TypeOK
    <3>3. CASE e = Head(todo[loop])
      BY <1>3, <3>3 DEF AddEvent
    <3>4. CASE Len(todo[loop]) # 1 /\ \E j \in DOMAIN Tail(todo[loop]) : Tail(todo[loop])[j] = e
      <4>1. pc'[loop] = "add" /\ todo'[loop] = Tail(todo[loop])
        BY <1>3, <3>4 DEF AddEvent, Go, TypeOK
      <4>2. QED
        BY <3>4, <4>1
    <3>5. QED
      BY <3>1, <3>2, <3>3, <3>4, HeadOrTail
  <2>3. CASE \E q \in Threads : pc[q] \in {"del", "close", "down"}
    <3>1. PICK q \in Threads : pc[q] \in {"del", "close", "down"}
      BY <2>3
    <3>2. q # loop
      BY <1>3, <3>1 DEF AddEvent, Go
    <3>3. pc'[q] = pc[q]
      BY <1>3, <3>2, LoopSolo DEF LoopStep, Solo
    <3>4. QED
      BY <3>1, <3>3
  <2>4. is_connect
    BY <1>3 DEF AddEvent
  <2>5. QED
    BY <2>1, <2>2, <2>3, <2>4 DEF ZombieInv
<1>4. CASE ReadFailed
  <2>1. pc'[loop] \in {"del", "close", "down"}
    BY <1>4 DEF ReadFailed, Callback, Go, TypeOK
  <2>2. QED
    BY <2>1 DEF ZombieInv
<1>5. ASSUME NEW t \in Uploaders, Upload(t) PROVE ZombieInv'
  <2>1. t \in Threads /\ Solo(t)
    BY <1>5, UploadSolo
  <2>2. CASE Sending(t)
    BY <2>1, <2>2, ZombieSending
  <2>3. CASE Fill(t) \/ BatchLen(t) \/ TestConnect(t)
    <3>1. pc[t] \notin Closing \cup {"add"} /\ is_connect' = is_connect /\ pending' = pending
      BY <2>3 DEF Fill, BatchLen, TestConnect, Go, Closing, shared
    <3>2. QED
      BY <2>1, <3>1, QuietStep
  <2>4. QED
    BY <1>5, <2>2, <2>3 DEF Upload
<1>6. ASSUME NEW t \in Commanders, Command(t) \/ Sending(t) PROVE ZombieInv'
  <2>1. t \in Threads /\ Solo(t)
    BY <1>6, CommandSolo
  <2>2. CASE Sending(t)
    BY <2>1, <2>2, ZombieSending
  <2>3. CASE Command(t)
    <3>1. pc[t] \notin Closing \cup {"add"} /\ is_connect' = is_connect /\ pending' = pending
      BY <2>1, <2>3, CommandBegins DEF Closing
    <3>2. QED
      BY <2>1, <3>1, QuietStep
  <2>4. QED
    BY <1>6, <2>2, <2>3
<1>7. CASE Quit \/ UNCHANGED vars
  BY <1>7 DEF Quit, vars, control, shared, ZombieInv
<1>8. CASE Sending(loop)
  BY <1>8, ZombieSending
<1>9. QED
  BY <1>1, <1>2, <1>3, <1>4, <1>5, <1>6, <1>7, <1>8 DEF Next, LoopStep, Read

-----------------------------------------------------------------------------
(* Frames.                                                                   *)

(* Without an overlap only the thread that steps has anything to keep. *)
LEMMA AloneStep ==
    ASSUME WholeInv, NEW t \in Threads, Solo(t), ~raced' => ~mixed' /\ Ready(t)'
    PROVE  WholeInv'
<1> SUFFICES ASSUME ~raced' PROVE WholeInv'
  BY DEF WholeInv
<1>1. \A q \in Threads \ {t} : pc'[q] = "idle"
  BY DEF Solo
<1>2. \A q \in Threads \ {t} : Ready(q)'
  BY <1>1 DEF Ready
<1>3. ~mixed' /\ Ready(t)'
  OBVIOUS
<1>4. QED
  BY <1>1, <1>2, <1>3 DEF WholeInv

(* The frame of a thread grows along its way to write(). *)
LEMMA ReadySending ==
    ASSUME TypeOK, WantInv, NEW t \in Threads, Sending(t), ~mixed, Ready(t)
    PROVE  ~mixed' /\ Ready(t)'
<1>1. CASE SetLen(t)
  <2>1. pc[t] = "len" /\ pc'[t] = "copy" /\ SendLen' = LenOf(want[t]) /\ want' = want /\ mixed' = mixed
    BY <1>1 DEF SetLen, Go, TypeOK
  <2>2. want[t] \in Short \cup Built
    BY <2>1 DEF WantInv
  <2>3. QED
    BY <2>1, <2>2 DEF Ready, LenOf
<1>2. CASE Copy(t)
  <2>1. pc[t] = "copy" /\ pc'[t] = "stamp" /\ want' = want /\ mixed' = mixed /\ SendLen' = SendLen
    BY <1>2 DEF Copy, Go, TypeOK
  <2>2. want[t] \in Short \cup Built /\ SendLen = LenOf(want[t])
    BY <2>1 DEF Ready
  <2>3. CASE want[t] \in Built
    <3>1. SendBuf'.head = want[t] /\ SendBuf'.body = want[t]
      BY <1>2, <2>3 DEF Copy, Built
    <3>2. QED
      BY <2>1, <2>2, <2>3, <3>1 DEF Ready, LenOf, Short, Long, Built
  <2>4. CASE want[t] \in Short
    <3>1. SendBuf'.head = "short" /\ SendBuf'.ctl = want[t]
      BY <1>2, <2>4 DEF Copy, Short, Built, TypeOK
    <3>2. QED
      BY <2>1, <2>2, <2>4, <3>1 DEF Ready, LenOf
  <2>5. QED
    BY <2>2, <2>3, <2>4
<1>3. CASE Stamp(t)
  <2>1. pc[t] = "stamp" /\ mixed' = mixed /\ SendLen' = SendLen
    BY <1>3 DEF Stamp, Go
  <2>2. /\ want[t] \in Short \cup Long
        /\ SendLen = LenOf(want[t]) /\ SendBuf.head = LenOf(want[t])
        /\ IF want[t] \in Short THEN SendBuf.ctl = want[t] ELSE SendBuf.body = want[t]
    BY <2>1 DEF Ready
  <2>3. pc'[t] = "write" /\ want' = want
    BY <1>3, <2>2 DEF Stamp, Go, TypeOK, LenOf, Short, Long, Built
  <2>4. CASE want[t] \in Short
    <3>1. SendBuf' = SendBuf
      BY <1>3, <2>2, <2>4 DEF Stamp, LenOf, Long, Built
    <3>2. QED
      BY <2>1, <2>2, <2>3, <2>4, <3>1 DEF Ready, Whole, LenOf
  <2>5. CASE want[t] \in Long
    <3>1. want[t] \notin Short /\ SendLen \in Long
      BY <2>2, <2>5 DEF LenOf, Short, Long, Built
    <3>2. SendBuf'.ctl = "I" /\ SendBuf'.head = SendBuf.head /\ SendBuf'.body = SendBuf.body
      BY <1>3, <3>1 DEF Stamp, TypeOK
    <3>3. QED
      BY <2>1, <2>2, <2>3, <2>5, <3>1, <3>2 DEF Ready, Whole, LenOf
  <2>6. QED
    BY <2>2, <2>4, <2>5
<1>4. CASE Write(t)
  <2>1. Whole(want[t])
    BY <1>4 DEF Write, Go, Ready
  <2>2. ~mixed'
    BY <1>4, <2>1 DEF Write
  <2>3. pc'[t] \in {"clear", "del", "quit"}
    BY <1>4, OutcomeAssumption DEF Write, Go, TypeOK
  <2>4. QED
    BY <2>2, <2>3 DEF Ready
<1>5. CASE Del(t) \/ CloseSock(t) \/ Down(t) \/ Clear(t)
  <2>1. mixed' = mixed
    BY <1>5 DEF Del, CloseSock, Down, Clear
  <2>2. pc'[t] \in {"del", "close", "down", "clear", "idle"}
    BY <1>5 DEF Del, CloseSock, Down, Clear, Go, TypeOK
  <2>3. QED
    BY <2>1, <2>2 DEF Ready
<1>6. QED
  BY <1>1, <1>2, <1>3, <1>4, <1>5 DEF Sending

LEMMA WholeStep == TypeOK /\ WantInv /\ WholeInv /\ [Next]_vars => WholeInv'
<1> SUFFICES ASSUME TypeOK, WantInv, WholeInv, [Next]_vars PROVE WholeInv'
  OBVIOUS
<1>1. ASSUME NEW t \in Threads, Sending(t) PROVE WholeInv'
  <2>1. Solo(t)
    BY <1>1, SendingSolo
  <2>2. ~raced' => ~mixed /\ Ready(t)
    BY <2>1 DEF Solo, WholeInv
  <2>3. QED
    BY <1>1, <2>1, <2>2, ReadySending, AloneStep
<1>2. ASSUME NEW t \in Threads, Solo(t), mixed' = mixed,
             \/ pc'[t] \notin {"len", "copy", "batchlen", "test", "stamp", "write"}
             \/ pc'[t] = "len" /\ want'[t] \in Short \cup Built
      PROVE  WholeInv'
  <2>1. Ready(t)'
    BY <1>2 DEF Ready
  <2>2. ~raced' => ~mixed'
    BY <1>2 DEF Solo, WholeInv
  <2>3. QED
    BY <1>2, <2>1, <2>2, AloneStep
<1>3. CASE OnTimerConnect \/ OnTimerSframe \/ OnTimerTframe \/ Read
           \/ ConnectFailed \/ Connected \/ AddEvent \/ Login \/ Arm
  <2>1. Solo(loop)
    BY <1>3, LoopSolo DEF LoopStep
  <2>2. mixed' = mixed
    BY <1>3 DEF OnTimerConnect, OnTimerSframe, OnTimerTframe, ConnectFailed, Connected, AddEvent,
                Login, Arm, Read, ReadFailed, ReadIgnored, ReadStartDtCon, ReadStartDtAct,
                ReadTestAct, ReadIAck, ReadILater
  <2>3. \/ pc'[loop] \notin {"len", "copy", "batchlen", "test", "stamp", "write"}
        \/ pc'[loop] = "len" /\ want'[loop] \in Short \cup Built
    <3> USE LoopIsThread DEF TypeOK, Go, Callback, Build, BuildBy, Short
    <3>1. CASE OnTimerConnect \/ OnTimerSframe \/ OnTimerTframe
      BY <3>1 DEF OnTimerConnect, OnTimerSframe, OnTimerTframe
    <3>2. CASE Read
      BY <3>2 DEF Read, ReadFailed, ReadIgnored, ReadStartDtCon, ReadStartDtAct, ReadTestAct,
                  ReadIAck, ReadILater
    <3>3. CASE ConnectFailed \/ Connected \/ AddEvent \/ Login \/ Arm
      BY <3>3 DEF ConnectFailed, Connected, AddEvent, Login, Arm, Built
    <3>4. QED
      BY <1>3, <3>1, <3>2, <3>3
  <2>4. QED
    BY <1>2, <2>1, <2>2, <2>3, LoopIsThread
<1>4. ASSUME NEW t \in Uploaders, Upload(t), ~Sending(t) PROVE WholeInv'
  <2>1. t \in Threads /\ Solo(t)
    BY <1>4, UploadSolo
  <2>2. ~raced' => ~mixed /\ Ready(t)
    BY <2>1 DEF Solo, WholeInv
  <2>3. CASE Fill(t)
    <3>1. pc'[t] = "batchlen" /\ want'[t] = "batch" /\ mixed' = mixed
      BY <2>1, <2>3 DEF Fill, Go, TypeOK
    <3>2. SendBuf'.head = "batch" /\ SendBuf'.body = "batch"
      BY <2>3 DEF Fill, TypeOK
    <3>3. Ready(t)'
      BY <3>1, <3>2 DEF Ready
    <3>4. QED
      BY <2>1, <2>2, <3>1, <3>3, AloneStep
  <2>4. CASE BatchLen(t)
    <3>1. /\ pc[t] = "batchlen" /\ pc'[t] = "test" /\ want' = want /\ mixed' = mixed
          /\ SendBuf' = SendBuf /\ SendLen' = "batch"
      BY <2>1, <2>4 DEF BatchLen, Go, TypeOK
    <3>2. Ready(t) => Ready(t)'
      BY <3>1 DEF Ready, LenOf, Short, Long, Built
    <3>3. QED
      BY <2>1, <2>2, <3>1, <3>2, AloneStep
  <2>5. CASE TestConnect(t)
    <3>1. /\ pc[t] = "test" /\ mixed' = mixed /\ SendBuf' = SendBuf /\ SendLen' = SendLen
          /\ \/ pc'[t] = "stamp" /\ want' = want
             \/ pc'[t] = "idle"
      BY <2>1, <2>5 DEF TestConnect, Go, TypeOK, shared
    <3>2. Ready(t) => Ready(t)'
      BY <3>1 DEF Ready
    <3>3. QED
      BY <2>1, <2>2, <3>1, <3>2, AloneStep
  <2>6. QED
    BY <1>4, <2>3, <2>4, <2>5 DEF Upload
<1>5. CASE Quit \/ UNCHANGED vars
  <2>1. /\ pc' = pc /\ want' = want /\ SendLen' = SendLen /\ SendBuf' = SendBuf
        /\ raced' = raced /\ mixed' = mixed
    BY <1>5 DEF Quit, vars, control, shared, history
  <2>2. QED
    BY <2>1 DEF WholeInv, Ready, Whole
<1>6. ASSUME NEW t \in Uploaders, Upload(t) PROVE WholeInv'
  BY <1>1, <1>4, <1>6, UploadSolo
<1>7. ASSUME NEW t \in Commanders, Command(t) \/ Sending(t) PROVE WholeInv'
  <2>1. t \in Threads /\ Solo(t)
    BY <1>7, CommandSolo
  <2>2. CASE Command(t)
    BY <1>2, <2>1, <2>2, CommandBegins
  <2>3. QED
    BY <1>1, <1>7, <2>1, <2>2
<1>8. QED
  BY <1>1, <1>3, <1>5, <1>6, <1>7, LoopIsThread DEF Next, LoopStep

-----------------------------------------------------------------------------
(* Order: as long as the threads do not overlap, a connection is set up     *)
(* with no event left of the last one, and fewer than Max_w I frames wait   *)
(* for an acknowledgement that is not being sent.                           *)

(* What thread t knows of the events while it connects or closes. *)
EventAt(t) ==
    /\ pc[t] = "del" => \A e \in pending : \E k \in DOMAIN todo[t] : todo[t][k] = e
    /\ pc[t] \in {"close", "down"} => pending = {}
    /\ t = loop =>
        /\ pc[t] = "connect" => ~is_connect
        /\ pc[t] \in {"add", "arm"} => is_connect
        /\ pc[t] = "add" =>
            /\ \A k \in DOMAIN todo[t] : todo[t][k] \notin pending
            /\ \A j, k \in DOMAIN todo[t] : j # k => todo[t][j] # todo[t][k]

EventInv ==
    ~raced => /\ ~reset
              /\ ~is_connect => pending = {}
              /\ \A t \in Threads : EventAt(t)

(* Thread t acknowledges what was received, or ends the connection. *)
AckBy(t) ==
    \/ pc[t] \in {"len", "copy", "stamp", "write"} /\ want[t] = "S"
    \/ pc[t] \in {"del", "close", "down", "quit"}

AckInv == ~raced /\ is_connect => unacked <= w \/ \E t \in Threads : AckBy(t)

(* Without an overlap only the thread that steps has anything to keep. *)
LEMMA EventAlone ==
    ASSUME EventInv, NEW t \in Threads, Solo(t),
           ~raced' /\ ~raced /\ EventAt(t) =>
                ~reset' /\ (~is_connect' => pending' = {}) /\ EventAt(t)'
    PROVE  EventInv'
<1> SUFFICES ASSUME ~raced' PROVE EventInv'
  BY DEF EventInv
<1>1. ~raced /\ \A q \in Threads \ {t} : pc'[q] = "idle"
  BY DEF Solo
<1>2. \A q \in Threads \ {t} : EventAt(q)'
  BY <1>1 DEF EventAt
<1>3. ~reset' /\ (~is_connect' => pending' = {}) /\ EventAt(t)'
  BY <1>1 DEF EventInv
<1>4. QED
  BY <1>2, <1>3 DEF EventInv

LEMMA AckAlone ==
    ASSUME AckInv, NEW t \in Threads, Solo(t),
           ~raced' /\ is_connect' =>
                /\ is_connect
                /\ (unacked <= w \/ AckBy(t)) => (unacked' <= w' \/ AckBy(t)')
    PROVE  AckInv'
<1> SUFFICES ASSUME ~raced', is_connect' PROVE unacked' <= w' \/ AckBy(t)'
  BY DEF AckInv
<1>1. ~raced /\ \A q \in Threads \ {t} : pc[q] = "idle"
  BY DEF Solo
<1>2. unacked <= w \/ \E q \in Threads : AckBy(q)
  BY <1>1 DEF AckInv
<1>3. unacked <= w \/ AckBy(t)
  BY <1>1, <1>2 DEF AckBy
<1>4. QED
  BY <1>3

(* Both error paths delete every event there may be. *)
LEMMA AllDeleted == \A e \in Events : \E k \in DOMAIN Deleted : Deleted[k] = e
<1>1. /\ Deleted[1] = "read" /\ Deleted[2] = "tframe" /\ Deleted[3] = "sframe"
      /\ Deleted[4] = "WriteDB" /\ {1, 2, 3, 4} \subseteq DOMAIN Deleted
  BY DEF Deleted
<1>2. QED
  BY <1>1 DEF Events, Standing

(* A connection adds each event once. *)
LEMMA AddedOnce == \A j, k \in DOMAIN Added : j # k => Added[j] # Added[k]
<1>1. /\ Added[1] = "read" /\ Added[2] = "tframe" /\ Added[3] = "WriteDB" /\ Added[4] = "sframe"
      /\ DOMAIN Added = {1, 2, 3, 4}
  BY DEF Added
<1>2. QED
  BY <1>1

LEMMA EventSending ==
    ASSUME TypeOK, NEW t \in Threads, Sending(t), ~reset, ~is_connect => pending = {}, EventAt(t)
    PROVE  ~reset' /\ (~is_connect' => pending' = {}) /\ EventAt(t)'
<1>1. CASE SetLen(t) \/ Copy(t) \/ Stamp(t) \/ Clear(t)
  <2>1. pc'[t] \in {"copy", "stamp", "write", "idle"}
    BY <1>1 DEF SetLen, Copy, Stamp, Clear, Go, TypeOK
  <2>2. UNCHANGED <<reset, is_connect, pending>>
    BY <1>1 DEF SetLen, Copy, Stamp, Clear
  <2>3. QED
    BY <2>1, <2>2 DEF EventAt
<1>2. CASE Write(t)
  <2>1. UNCHANGED <<reset, is_connect, pending>>
    BY <1>2 DEF Write, shared
  <2>2. pc'[t] \in {"clear", "quit"} \/ (pc'[t] = "del" /\ todo'[t] = Deleted)
    BY <1>2, OutcomeAssumption DEF Write, Go, TypeOK
  <2>3. QED
    BY <2>1, <2>2, AllDeleted DEF EventAt, TypeOK
<1>3. CASE Del(t)
  <2>1. /\ todo[t] \in Seq(Events) /\ todo[t] # <<>> /\ pending' = pending \ {Head(todo[t])}
        /\ todo'[t] = Tail(todo[t]) /\ pc[t] = "del"
        /\ pc'[t] = IF Len(todo[t]) = 1 THEN "close" ELSE "del"
        /\ UNCHANGED <<reset, is_connect>>
    BY <1>3 DEF Del, Go, TypeOK
  <2>2. ASSUME NEW e \in pending'
        PROVE  Len(todo[t]) # 1 /\ \E j \in DOMAIN todo'[t] : todo'[t][j] = e
    <3>1. PICK k \in DOMAIN todo[t] : todo[t][k] = e
      BY <2>1 DEF EventAt
    <3>2. e # Head(todo[t])
      BY <2>1
    <3>3. QED
      BY <2>1, <3>1, <3>2, HeadOrTail
  <2>3. QED
    BY <2>1, <2>2 DEF EventAt
<1>4. CASE CloseSock(t) \/ Down(t)
  <2>1. pc[t] \in {"close", "down"} /\ pc'[t] \in {"down", "idle", "clear"}
    BY <1>4 DEF CloseSock, Down, Go, TypeOK
  <2>2. UNCHANGED <<reset, pending>>
    BY <1>4 DEF CloseSock, Down
  <2>3. QED
    BY <2>1, <2>2 DEF EventAt
<1>5. QED
  BY <1>1, <1>2, <1>3, <1>4 DEF Sending

LEMMA EventStep == TypeOK /\ EventInv /\ [Next]_vars => EventInv'
<1> SUFFICES ASSUME TypeOK, EventInv, [Next]_vars PROVE EventInv'
  OBVIOUS
<1> USE LoopIsThread
<1>1. ASSUME NEW t \in Threads, Sending(t) PROVE EventInv'
  BY <1>1, SendingSolo, EventSending, EventAlone DEF EventInv
<1>2. ASSUME NEW t \in Threads, Solo(t), UNCHANGED <<reset, is_connect, pending>>,
             pc'[t] \in {"idle", "len", "batchlen", "test", "stamp", "connect", "arm", "login"},
             pc'[t] = "connect" => ~is_connect, pc'[t] = "arm" /\ ~raced => is_connect
      PROVE  EventInv'
  BY <1>2, EventAlone DEF EventAt, EventInv
<1>3. CASE OnTimerConnect
  <2>1. Solo(loop) /\ pc'[loop] = "connect" /\ ~is_connect
    BY <1>3, LoopSolo DEF OnTimerConnect, Callback, Go, TypeOK
  <2>2. QED
    BY <1>2, <1>3, <2>1 DEF OnTimerConnect
<1>4. CASE OnTimerSframe
  <2>1. /\ Solo(loop) /\ pc'[loop] \in {"idle", "len"} /\ UNCHANGED <<reset, is_connect>>
        /\ pending' = pending \ {"sframe"}
    BY <1>4, LoopSolo DEF OnTimerSframe, Build, BuildBy, Go, TypeOK
  <2>2. QED
    BY <2>1, EventAlone DEF EventAt, EventInv
<1>5. CASE OnTimerTframe \/ ConnectFailed \/ Login
  <2>1. Solo(loop) /\ pc'[loop] \in {"idle", "len"} /\ UNCHANGED <<reset, is_connect, pending>>
    BY <1>5, LoopSolo DEF OnTimerTframe, ConnectFailed, Login, LoopStep, Callback, Build, BuildBy,
                          Go, TypeOK, shared
  <2>2. QED
    BY <1>2, <2>1
<1>6. CASE Connected
  <2>1. /\ Solo(loop) /\ pc[loop] = "connect" /\ pc'[loop] = "add" /\ is_connect'
        /\ todo'[loop] = Added /\ UNCHANGED <<reset, pending>>
    BY <1>6, LoopSolo DEF LoopStep, Connected, Go, TypeOK
  <2>2. ~raced => pending = {}
    BY <2>1 DEF EventInv, EventAt
  <2>3. QED
    BY <2>1, <2>2, AddedOnce, EventAlone DEF EventAt, EventInv
<1>7. CASE AddEvent
  <2> DEFINE s == todo[loop]
  <2>1. /\ Solo(loop) /\ pc[loop] = "add" /\ pc'[loop] \in {"add", "login"} /\ UNCHANGED is_connect
        /\ s \in Seq(Events) /\ s # <<>> /\ todo'[loop] = Tail(s)
        /\ pending' \subseteq pending \cup {Head(s)}
        /\ (Head(s) \notin pending => reset' = reset)
    BY <1>7, LoopSolo DEF LoopStep, AddEvent, Go, TypeOK
  <2> HIDE DEF s
  <2>2. 1 \in DOMAIN s /\ s[1] = Head(s)
    BY <2>1
  <2>3. \A k \in DOMAIN Tail(s) : k + 1 \in DOMAIN s /\ k + 1 # 1 /\ Tail(s)[k] = s[k + 1]
    BY <2>1
  <2>4. ASSUME ~raced, EventAt(loop)
        PROVE  ~reset' /\ (~is_connect' => pending' = {}) /\ EventAt(loop)'
    <3>1. is_connect /\ (\A k \in DOMAIN s : s[k] \notin pending)
          /\ (\A j, k \in DOMAIN s : j # k => s[j] # s[k])
      BY <2>1, <2>4 DEF EventAt, s
    <3>2. Head(s) \notin pending /\ ~reset'
      BY <2>1, <2>2, <2>4, <3>1 DEF EventInv
    <3>3. \A k \in DOMAIN Tail(s) : Tail(s)[k] \notin pending'
      <4>1. \A k \in DOMAIN Tail(s) : Tail(s)[k] \notin pending /\ Tail(s)[k] # Head(s)
        BY <2>2, <2>3, <3>1
      <4>2. QED
        BY <2>1, <4>1
    <3>4. \A j, k \in DOMAIN Tail(s) : j # k => Tail(s)[j] # Tail(s)[k]
      <4>1. DOMAIN Tail(s) \subseteq Nat
        BY <2>1
      <4>2. QED
        BY <2>3, <3>1, <4>1
    <3>5. QED
      BY <2>1, <3>1, <3>2, <3>3, <3>4 DEF EventAt
  <2>5. QED
    BY <2>1, <2>4, EventAlone
<1>8. CASE Arm
  <2>1. Solo(loop) /\ pc[loop] = "arm" /\ pc'[loop] = "idle" /\ UNCHANGED <<reset, is_connect>>
    BY <1>8, LoopSolo DEF LoopStep, Arm, Go, TypeOK
  <2>2. ~raced => is_connect
    BY <2>1 DEF EventInv, EventAt
  <2>3. QED
    BY <2>1, <2>2, EventAlone DEF EventAt, EventInv
<1>9. CASE ReadFailed
  <2>1. Solo(loop) /\ pc'[loop] = "del" /\ todo'[loop] = Deleted
        /\ UNCHANGED <<reset, is_connect, pending>>
    BY <1>9, LoopSolo DEF Read, ReadFailed, Callback, Go, TypeOK, shared
  <2>2. QED
    BY <2>1, AllDeleted, EventAlone DEF EventAt, EventInv, TypeOK
<1>10. CASE Read /\ ~ReadFailed
  <2>1. Solo(loop) /\ pc'[loop] \in {"idle", "len", "arm"} /\ UNCHANGED <<reset, is_connect, pending>>
    BY <1>10, LoopSolo DEF Read, ReadIgnored, ReadStartDtCon, ReadStartDtAct, ReadTestAct,
        ReadIAck, ReadILater, Counted, Build, BuildBy, Callback, Go, TypeOK, shared
  <2>2. "read" \in pending
    BY <1>10 DEF Read, ReadIgnored, ReadStartDtCon, ReadStartDtAct, ReadTestAct,
        ReadIAck, ReadILater, Counted, Reading
  <2>3. ~raced => is_connect
    BY <2>2 DEF EventInv
  <2>4. QED
    BY <1>2, <2>1, <2>3
<1>11. ASSUME NEW t \in Uploaders, Upload(t) PROVE EventInv'
  <2>1. t \in Threads /\ t # loop /\ Solo(t)
    BY <1>11, UploadSolo
  <2>2. CASE Sending(t)
    BY <1>1, <2>1, <2>2
  <2>3. CASE Fill(t) \/ BatchLen(t) \/ TestConnect(t)
    <3>1. pc'[t] \in {"batchlen", "test", "stamp", "idle"} /\ UNCHANGED <<reset, is_connect, pending>>
      BY <2>1, <2>3 DEF Fill, BatchLen, TestConnect, Go, TypeOK, shared
    <3>2. QED
      BY <1>2, <2>1, <3>1
  <2>4. QED
    BY <1>11, <2>2, <2>3 DEF Upload
<1>12. ASSUME NEW t \in Commanders, Command(t) \/ Sending(t) PROVE EventInv'
  <2>1. t \in Threads /\ Solo(t)
    BY <1>12, CommandSolo
  <2>2. CASE Sending(t)
    BY <1>1, <2>1, <2>2
  <2>3. CASE Command(t)
    <3>1. pc'[t] \in {"len", "idle"} /\ UNCHANGED <<reset, is_connect, pending>>
      BY <2>1, <2>3 DEF Command, BuildBy, Go, TypeOK, shared
    <3>2. QED
      BY <1>2, <2>1, <3>1
  <2>4. QED
    BY <1>12, <2>2, <2>3
<1>13. CASE Quit \/ UNCHANGED vars
  BY <1>13 DEF Quit, vars, shared, local, control, history, EventInv, EventAt
<1>14. QED
  BY <1>1, <1>3, <1>4, <1>5, <1>6, <1>7, <1>8, <1>9, <1>10, <1>11, <1>12, <1>13 DEF Next, LoopStep

(* A thread that acknowledges does so, or the connection ends. *)
LEMMA AckSending ==
    ASSUME TypeOK, NEW t \in Threads, Sending(t), Ready(t), is_connect',
           unacked <= w \/ AckBy(t)
    PROVE  is_connect /\ (unacked' <= w' \/ AckBy(t)')
<1>1. is_connect /\ w' = w /\ w \in Nat /\ unacked \in Nat
  <2>1. is_connect
    BY DEF Sending, SetLen, Copy, Stamp, Write, Del, CloseSock, Down, Clear, shared
  <2>2. w' = w
    BY DEF Sending, SetLen, Copy, Stamp, Write, Del, CloseSock, Down, Clear, local
  <2>3. w \in Nat /\ unacked \in Nat
    BY MaxWAssumption DEF TypeOK
  <2>4. QED
    BY <2>1, <2>2, <2>3
<1>2. CASE SetLen(t) \/ Copy(t)
  <2>1. /\ pc[t] \in {"len", "copy"} /\ pc'[t] \in {"copy", "stamp"}
        /\ want' = want /\ unacked' = unacked
    BY <1>2 DEF SetLen, Copy, Go, TypeOK
  <2>2. QED
    BY <1>1, <2>1 DEF AckBy
<1>3. CASE Stamp(t)
  <2>1. pc[t] = "stamp" /\ unacked' = unacked
    BY <1>3 DEF Stamp, Go
  <2>2. SendLen = LenOf(want[t]) /\ want[t] \in Short \cup Long
    BY <2>1 DEF Ready
  <2>3. pc'[t] = "write" /\ want' = want
    BY <1>3, <2>2 DEF Stamp, Go, TypeOK, LenOf, Short, Long, Built
  <2>4. QED
    BY <1>1, <2>1, <2>3 DEF AckBy
<1>4. CASE Write(t)
  <2>1. PICK o \in {"ok", "fail", "pipe"} :
          /\ Go(t, "write", CASE o = "ok" -> "clear" [] o = "fail" -> "del" [] o = "pipe" -> "quit")
          /\ unacked' = IF o = "ok" /\ SendBuf.ctl \in {"I", "S"} THEN 0 ELSE unacked
    BY <1>4, OutcomeAssumption DEF Write
  <2>2. CASE o \in {"fail", "pipe"}
    <3>1. pc'[t] \in {"del", "quit"}
      BY <2>1, <2>2 DEF Go, TypeOK
    <3>2. QED
      BY <1>1, <3>1 DEF AckBy
  <2>3. CASE o = "ok"
    <3>1. pc[t] = "write" /\ Whole(want[t])
      BY <2>1 DEF Go, Ready
    <3>2. want[t] = "S" => unacked' = 0
      BY <2>1, <2>3, <3>1 DEF Whole, Short
    <3>3. AckBy(t) => want[t] = "S"
      BY <3>1 DEF AckBy
    <3>4. unacked' <= w
      BY <1>1, <2>1, <3>2, <3>3
    <3>5. QED
      BY <1>1, <3>4
  <2>4. QED
    BY <2>2, <2>3
<1>5. CASE Del(t) \/ CloseSock(t)
  <2>1. pc'[t] \in {"del", "close", "down"}
    BY <1>5 DEF Del, CloseSock, Go, TypeOK
  <2>2. QED
    BY <1>1, <2>1 DEF AckBy
<1>6. CASE Down(t)
  BY <1>6 DEF Down
<1>7. CASE Clear(t)
  <2>1. pc[t] = "clear" /\ unacked' = unacked
    BY <1>7 DEF Clear, Go
  <2>2. QED
    BY <1>1, <2>1 DEF AckBy
<1>8. QED
  BY <1>2, <1>3, <1>4, <1>5, <1>6, <1>7 DEF Sending

LEMMA AckStep == TypeOK /\ WholeInv /\ AckInv /\ [Next]_vars => AckInv'
<1> SUFFICES ASSUME TypeOK, WholeInv, AckInv, [Next]_vars PROVE AckInv'
  OBVIOUS
<1> USE LoopIsThread
<1>1. ASSUME NEW t \in Threads, Sending(t) PROVE AckInv'
  <2>1. Solo(t)
    BY <1>1, SendingSolo
  <2>2. is_connect' => is_connect
    BY <1>1 DEF Sending, SetLen, Copy, Stamp, Write, Del, CloseSock, Down, Clear, shared
  <2>3. ~raced' => Ready(t)
    BY <2>1 DEF Solo, WholeInv
  <2>4. QED
    BY <1>1, <2>1, <2>2, <2>3, AckSending, AckAlone
<1>2. ASSUME NEW t \in Threads, Solo(t), UNCHANGED <<unacked, is_connect, w>>, ~AckBy(t)
      PROVE  AckInv'
  BY <1>2, AckAlone
<1>3. CASE \/ OnTimerConnect \/ OnTimerSframe \/ OnTimerTframe \/ ConnectFailed \/ AddEvent
           \/ Login \/ Arm \/ ReadFailed \/ ReadIgnored \/ ReadTestAct
  <2>1. Solo(loop)
    BY <1>3, LoopSolo DEF LoopStep, Read
  <2>2. pc[loop] \in {"idle", "connect", "add", "login", "arm"}
    BY <1>3 DEF OnTimerConnect, OnTimerSframe, OnTimerTframe, ConnectFailed, AddEvent, Login, Arm,
        ReadFailed, ReadIgnored, ReadTestAct, Build, BuildBy, Callback, Go
  <2>3. UNCHANGED <<unacked, is_connect, w>>
    BY <1>3 DEF OnTimerConnect, OnTimerSframe, OnTimerTframe, ConnectFailed, AddEvent, Login, Arm,
        ReadFailed, ReadIgnored, ReadTestAct, shared, local
  <2>4. ~AckBy(loop)
    BY <2>2 DEF AckBy
  <2>5. QED
    BY <1>2, <2>1, <2>3, <2>4
<1>4. CASE Connected \/ ReadStartDtCon \/ ReadStartDtAct
  <2>1. unacked' = 0 /\ w' \in Nat
    BY <1>4 DEF Connected, ReadStartDtCon, ReadStartDtAct, TypeOK
  <2>2. unacked' <= w'
    BY <2>1
  <2>3. QED
    BY <2>2 DEF AckInv
<1>5. CASE ReadIAck
  <2>1. pc'[loop] = IF is_connect THEN "len" ELSE "idle"
    BY <1>5 DEF ReadIAck, Build, BuildBy, Go, TypeOK
  <2>2. is_connect' = is_connect /\ (is_connect => want'[loop] = "S")
    BY <1>5 DEF ReadIAck, Build, BuildBy, Go, TypeOK, shared
  <2>3. is_connect' => AckBy(loop)'
    BY <2>1, <2>2 DEF AckBy
  <2>4. QED
    BY <2>3 DEF AckInv
<1>6. CASE ReadILater
  <2>1. /\ pc[loop] = "idle" /\ w' = w + 1 /\ w \in Nat /\ unacked \in Nat /\ is_connect' = is_connect
        /\ unacked' = IF raced THEN 0 ELSE unacked + 1
    BY <1>6 DEF ReadILater, Counted, Callback, Go, TypeOK, shared
  <2>2. unacked <= w \/ AckBy(loop) => unacked' <= w'
    BY <2>1 DEF AckBy
  <2>3. Solo(loop)
    BY <1>6, LoopSolo DEF Read
  <2>4. QED
    BY <2>1, <2>2, <2>3, AckAlone
<1>7. ASSUME NEW t \in Uploaders, Upload(t) PROVE AckInv'
  <2>1. t \in Threads /\ t # loop /\ Solo(t)
    BY <1>7, UploadSolo
  <2>2. CASE Sending(t)
    BY <1>1, <2>1, <2>2
  <2>3. CASE Fill(t) \/ BatchLen(t) \/ TestConnect(t)
    <3>1. pc[t] \in {"idle", "batchlen", "test"} /\ UNCHANGED <<unacked, is_connect, w>>
      BY <2>1, <2>3 DEF Fill, BatchLen, TestConnect, Go, TypeOK, shared, local
    <3>2. QED
      BY <1>2, <2>1, <3>1 DEF AckBy
  <2>4. QED
    BY <1>7, <2>2, <2>3 DEF Upload
<1>8. ASSUME NEW t \in Commanders, Command(t) \/ Sending(t) PROVE AckInv'
  <2>1. t \in Threads /\ Solo(t)
    BY <1>8, CommandSolo
  <2>2. CASE Sending(t)
    BY <1>1, <2>1, <2>2
  <2>3. CASE Command(t)
    <3>1. pc[t] = "idle" /\ UNCHANGED <<unacked, is_connect, w>>
      BY <2>1, <2>3 DEF Command, BuildBy, Go, TypeOK, shared, local
    <3>2. QED
      BY <1>2, <2>1, <3>1 DEF AckBy
  <2>4. QED
    BY <1>8, <2>2, <2>3
<1>9. CASE Quit \/ UNCHANGED vars
  BY <1>9 DEF Quit, vars, shared, local, control, history, AckInv, AckBy
<1>10. QED
  BY <1>1, <1>3, <1>4, <1>5, <1>6, <1>7, <1>8, <1>9 DEF Next, LoopStep, Read

-----------------------------------------------------------------------------
(* The whole invariant holds for any number of threads that upload or send  *)
(* commands, whatever write() does.                                         *)
THEOREM MasterInvariant == Spec => []IInv
<1>1. IInv /\ [Next]_vars => IInv'
  BY TypeStep, WantStep, ZombieStep, WholeStep DEF IInv
<1>2. QED
  BY InitIInv, <1>1, PTL DEF Spec

(* The state of iec104_master.cpp's struct keeps its types; in particular   *)
(* the count of I frames stays below MAX_W.                                 *)
THEOREM TypeCorrect == Spec => []TypeOK
<1>1. IInv => TypeOK
  BY DEF IInv
<1>2. QED
  BY MasterInvariant, <1>1, PTL

(* However the loop and the collector threads interleave in                 *)
(* iec104_master_connect and in the two error paths, a connection that      *)
(* counts as connected has its read event and its timers with libevent.     *)
THEOREM NoZombieConnection == Spec => []NoZombie
<1>1. IInv => NoZombie
  BY DEF IInv, ZombieInv, NoZombie
<1>2. QED
  BY MasterInvariant, <1>1, PTL

(* As long as the threads have not overlapped in SendBuf and SendLen, what  *)
(* iec104_send_msg wrote is the frame that was built.                       *)
THEOREM WholeFrames == Spec => []FramesWhole
<1>1. IInv => FramesWhole
  BY DEF IInv, WholeInv, FramesWhole
<1>2. QED
  BY MasterInvariant, <1>1, PTL

(* As long as the threads do not overlap, iec104_master_connect sets up no   *)
(* event that is still pending, and between two callbacks fewer than MAX_W  *)
(* I frames wait for an acknowledgement.                                    *)
THEOREM OrderlyWithoutRace == Spec => []OrderlyUntilRaced
<1>1. Init => IInv /\ EventInv /\ AckInv
  BY InitIInv DEF Init, EventInv, EventAt, AckInv
<1>2. IInv /\ EventInv /\ AckInv /\ [Next]_vars => (IInv /\ EventInv /\ AckInv)'
  BY TypeStep, WantStep, ZombieStep, WholeStep, EventStep, AckStep DEF IInv
<1>3. IInv /\ EventInv /\ AckInv => OrderlyUntilRaced
  <2> SUFFICES ASSUME IInv, EventInv, AckInv, ~raced PROVE NoResetOfPending /\ AckBound
    BY DEF OrderlyUntilRaced
  <2>1. NoResetOfPending
    BY DEF EventInv, NoResetOfPending
  <2>2. ASSUME is_connect, \A t \in Threads : pc[t] = "idle" PROVE unacked < Max_w
    <3>1. unacked <= w
      BY <2>2 DEF AckInv, AckBy
    <3>2. QED
      BY <3>1, MaxWAssumption DEF IInv, TypeOK
  <2>3. QED
    BY <2>1, <2>2 DEF AckBound
<1>4. QED
  BY <1>1, <1>2, <1>3, PTL DEF Spec
=============================================================================
