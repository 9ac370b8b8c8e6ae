-------------------------- MODULE RemoteControlProofs --------------------------
(***************************************************************************)
(* Proofs about RemoteControl and Iec104Slave, for any widths of the        *)
(* counters, any outcomes of write(), and any outputs and devices.          *)
(*                                                                          *)
(* PairInv is about one pair of the struct and the peer: every frame a      *)
(* callback builds keeps it.  Between two callbacks the pair is Settled     *)
(* too.  PointInv follows a control from the choice of its point to the     *)
(* confirmation.                                                            *)
(***************************************************************************)
EXTENDS RemoteControl, WellFoundedInduction, TLAPS

Slaves ==
    [mem : {"none", "live", "freed"},
     is_connect : BOOLEAN, is_idlesse : BOOLEAN, is_send_sframe : BOOLEAN,
     SendNum : 0..(NUM_MOD - 1), RecvNum : 0..(NUM_MOD - 1), w : 0..(W_MOD - 1),
     ev_read : BOOLEAN, ev_timer_tframe : BOOLEAN]

Peers ==
    [expects : 0..(NUM_MOD - 1), ack : 0..(NUM_MOD - 1), gap : BOOLEAN, missed : BOOLEAN]

Pairs == [st : Slaves, p : Peers]

(* Twice the number of I frames that wait for an acknowledgement. *)
Waiting(st, p) == (st.RecvNum - p.ack) % NUM_MOD

(* Nobody uses a struct that is not live. *)
Unused(st) ==
    st.mem # "live" => ~st.is_connect /\ ~st.is_send_sframe /\ ~st.ev_read /\ ~st.ev_timer_tframe

(* What a peer that has got every frame knows of a live struct: the number  *)
(* of the next I frame, and, as long as no S frame is due, the last number  *)
(* received; otherwise `w' has counted all but one of the frames that wait. *)
Known(st, p) ==
    /\ p.expects = st.SendNum
    /\ st.RecvNum % 2 = 0 /\ p.ack % 2 = 0
    /\ IF st.is_send_sframe THEN Waiting(st, p) <= 2 * (st.w + 1) ELSE p.ack = st.RecvNum

PairInv(x) ==
    /\ x \in Pairs
    /\ Unused(x.st)
    /\ x.st.mem = "live" => x.st.is_connect
    /\ ~x.p.gap
    /\ x.st.mem = "live" /\ ~x.p.missed => Known(x.st, x.p)

(* No S frame is overdue. *)
Settled(x) ==
    x.st.mem = "live" /\ ~x.p.missed /\ x.st.is_send_sframe => x.st.w < MAX_W

(* The fields of a control. *)
Controls ==
    [pc : {"idle", "object", "own", "pulse", "lock", "operate", "confirm", "next"},
     kind : {"none", "C_SE_NA", "C_SC_NA", "C_DC_NA"},
     n : Int, i : Int, item : Int, id : DOMAIN Attr \cup DOMAIN DevOf \cup {NoId},
     want : {"none", "value", "on", "off", "neither"},
     ret : {"junk", "ok", "bad"}, coil : {"?", "value", "on", "off", "neither"},
     before : SUBSET Own]

ControlType ==
    /\ rc \in Controls
    /\ line \in {"slave", "collect", "free"}
    /\ out \subseteq Own

ToggledIn(open, id) == IF id \in open THEN open \ {id} ELSE open \cup {id}

(* The point of a control: an output of the box, not touched yet or in the   *)
(* middle of its pulse, or a point of a device.                              *)
PointInv ==
    /\ rc.pc # "idle" => rc.kind # "none"
    /\ rc.pc \in {"own", "pulse", "lock", "operate"} =>
          IF rc.kind = "C_SE_NA" THEN rc.want = "value" ELSE rc.want \in {"on", "off", "neither"}
    /\ rc.pc \in {"own", "pulse"} => rc.kind # "C_SE_NA" /\ rc.id \in Own
    /\ rc.pc = "own" => out = rc.before
    /\ rc.pc = "pulse" => SwitchAttr(rc.id) = "pulse" /\ out = ToggledIn(rc.before, rc.id)
    /\ rc.pc \in {"lock", "operate"} => rc.kind = "C_SE_NA" \/ rc.id \notin Own
    /\ AckMeansDone

IInv ==
    /\ PairInv(Here)
    /\ Idle => Settled(Here)
    /\ ~Idle => s.mem = "live"
    /\ ControlType
    /\ PointInv
    /\ RightDevice
-----------------------------------------------------------------------------
(* Numbers that wrap. *)

(* The remainder, within one turn on either side. *)
LEMMA Wrapped ==
    ASSUME NEW m \in Nat, m > 0, NEW n \in Int
    PROVE  /\ n % m \in 0..(m - 1)
           /\ 0 <= n /\ n < m => n % m = n
           /\ -m <= n /\ n < 0 => n % m = n + m
           /\ m <= n /\ n < 2 * m => n % m = n - m
OBVIOUS

LEMMA WrappedDifference ==
    ASSUME NEW m \in Nat, m > 0, NEW n \in 0..(m - 1), NEW a \in 0..(m - 1)
    PROVE  (n - a) % m = (IF a <= n THEN n - a ELSE n - a + m)
<1> DEFINE d == n - a
<1>1. d \in Int /\ (a <= n => 0 <= d /\ d < m) /\ (~(a <= n) => -m <= d /\ d < 0)
  OBVIOUS
<1> HIDE DEF d
<1>2. d % m = (IF a <= n THEN d ELSE d + m)
  BY <1>1, Wrapped
<1>3. QED
  BY <1>2 DEF d

LEMMA Modulus ==
    /\ NUM_MOD \in Nat /\ NUM_MOD % 2 = 0 /\ NUM_MOD > 2 * (MAX_W + 1)
    /\ MAX_W \in Nat /\ MAX_W > 0 /\ W_MOD \in Nat /\ MAX_W < W_MOD
BY NumAssumption, MaxWAssumption

(* One more frame received: the number goes up by two, and one more waits,  *)
(* unless they are so many that they fill the numbers.                      *)
LEMMA OneMoreWaits ==
    ASSUME NEW st \in Slaves, NEW p \in Peers, NEW r \in Int,
           st.RecvNum % 2 = 0, p.ack % 2 = 0,
           Waiting(st, p) <= 2 * MAX_W,
           r = IF st.RecvNum = NUM_MOD \div 2 - 1 THEN 0 ELSE (st.RecvNum + 2) % NUM_MOD
    PROVE  /\ r \in 0..(NUM_MOD - 1) /\ r % 2 = 0
           /\ (r - p.ack) % NUM_MOD = Waiting(st, p) + 2
<1> DEFINE a == p.ack  n == st.RecvNum
<1>1. a \in 0..(NUM_MOD - 1) /\ n \in 0..(NUM_MOD - 1)
  BY DEF Slaves, Peers
<1>0. NUM_MOD \in Nat /\ NUM_MOD > 0
  BY Modulus
<1>2. n # NUM_MOD \div 2 - 1
  BY <1>1, NumAssumption
<1>3. r = (n + 2) % NUM_MOD
  BY <1>2
<1>4. r = (IF n + 2 < NUM_MOD THEN n + 2 ELSE n + 2 - NUM_MOD)
  BY <1>1, <1>3, Wrapped, Modulus
<1>5. Waiting(st, p) = (IF a <= n THEN n - a ELSE n - a + NUM_MOD)
  BY <1>0, <1>1, WrappedDifference DEF Waiting
<1>6. r \in 0..(NUM_MOD - 1) /\ r % 2 = 0
  BY <1>1, <1>4, Modulus
<1>7. (r - a) % NUM_MOD = (IF a <= r THEN r - a ELSE r - a + NUM_MOD)
  BY <1>0, <1>1, <1>6, WrappedDifference
<1>8. Waiting(st, p) + 2 < NUM_MOD
  BY <1>1, <1>5, Modulus
<1> HIDE DEF a, n
<1>9. (r - a) % NUM_MOD = Waiting(st, p) + 2
  BY <1>1, <1>4, <1>5, <1>7, <1>8, Modulus
<1>10. QED
  BY <1>6, <1>9 DEF a, n

(* At most MAX_W frames wait when their numbers are at most that far apart. *)
LEMMA WaitBound ==
    ASSUME NEW d \in Nat, d <= 2 * MAX_W
    PROVE  d \div 2 <= MAX_W
BY Modulus
-----------------------------------------------------------------------------
(* The frames of a callback. *)

(* The structs and peers that the builders leave behind. *)
LEMMA Emptied ==
    /\ Freed \in Slaves /\ Freed.mem = "freed" /\ ~Freed.is_connect /\ ~Freed.is_send_sframe
    /\ ~Freed.ev_read /\ ~Freed.ev_timer_tframe
    /\ Missing \in Peers /\ Missing.missed /\ ~Missing.gap
    /\ NewPeer \in Peers /\ NewPeer.expects = 0 /\ NewPeer.ack = 0 /\ ~NewPeer.gap
<1>1. 0 \in 0..(NUM_MOD - 1) /\ 0 \in 0..(W_MOD - 1)
  BY Modulus
<1>2. Fresh \in Slaves
  BY <1>1 DEF Fresh, Slaves
<1>3. Freed \in Slaves
  BY <1>2 DEF Freed, Slaves
<1>4. NewPeer \in Peers
  BY <1>1 DEF NewPeer, Peers
<1>5. Missing \in Peers
  BY <1>4 DEF Missing, Peers
<1>6. /\ Freed.mem = "freed" /\ ~Freed.is_connect /\ ~Freed.is_send_sframe
      /\ ~Freed.ev_read /\ ~Freed.ev_timer_tframe
  BY DEF Freed, Fresh
<1>7. Missing.missed /\ ~Missing.gap /\ NewPeer.expects = 0 /\ NewPeer.ack = 0 /\ ~NewPeer.gap
  BY DEF Missing, NewPeer
<1>8. QED
  BY <1>3, <1>4, <1>5, <1>6, <1>7

(* The parts of a pair in order. *)
LEMMA Parts ==
    ASSUME NEW x, PairInv(x)
    PROVE  /\ x = [st |-> x.st, p |-> x.p] /\ x.st \in Slaves /\ x.p \in Peers
           /\ Unused(x.st) /\ (x.st.mem = "live" => x.st.is_connect) /\ ~x.p.gap
           /\ x.st.mem = "live" /\ ~x.p.missed => Known(x.st, x.p)
BY DEF PairInv, Pairs

LEMMA Paired ==
    ASSUME NEW st \in Slaves, NEW p \in Peers,
           Unused(st), st.mem = "live" => st.is_connect, ~p.gap,
           st.mem = "live" /\ ~p.missed => Known(st, p)
    PROVE  PairInv([st |-> st, p |-> p])
BY DEF PairInv, Pairs

LEMMA ConnectIsLive ==
    ASSUME NEW st \in Slaves, Unused(st), st.mem = "live" => st.is_connect
    PROVE  st.is_connect <=> st.mem = "live"
BY DEF Unused

(* Assigning a field of the struct, or all of it. *)
LEMMA StructAssigned ==
    ASSUME NEW st, NEW p, NEW e
    PROVE  [[st |-> st, p |-> p] EXCEPT !.st = e] = [st |-> e, p |-> p]
OBVIOUS

(* A freed struct keeps the pair in order, whatever the peer. *)
LEMMA FreedPair ==
    ASSUME NEW p \in Peers, ~p.gap
    PROVE  PairInv([st |-> Freed, p |-> p])
BY Emptied DEF PairInv, Pairs, Unused

(* So does a frame that is not written. *)
LEMMA MissingPair ==
    ASSUME NEW st \in Slaves, Unused(st), st.mem = "live" => st.is_connect
    PROVE  PairInv([st |-> st, p |-> Missing])
BY Emptied DEF PairInv, Pairs

LEMMA OutcomeKinds == \A o \in Outcomes : o \in {"ok", "again", "short", "error"}
BY OutcomeAssumption

LEMMA SframeAssigned ==
    ASSUME NEW x, x = [st |-> x.st, p |-> x.p]
    PROVE  [x EXCEPT !.st.is_send_sframe = FALSE]
             = [st |-> [x.st EXCEPT !.is_send_sframe = FALSE], p |-> x.p]
<1> DEFINE a == x.st  b == x.p  no == FALSE
<1>1. x = [st |-> a, p |-> b]
  OBVIOUS
<1> HIDE DEF a, b, no
<1>2. [x EXCEPT !.st.is_send_sframe = no] = [st |-> [a EXCEPT !.is_send_sframe = no], p |-> b]
  BY <1>1
<1>3. QED
  BY <1>2 DEF a, b, no

LEMMA NumbersAssigned ==
    ASSUME NEW st, NEW p, NEW x, x = [st |-> st, p |-> p]
    PROVE  [x EXCEPT !.st.SendNum = 0, !.st.RecvNum = 0]
             = [st |-> [st EXCEPT !.SendNum = 0, !.RecvNum = 0], p |-> p]
<1> DEFINE y == [x EXCEPT !.st.SendNum = 0]
           a == [st EXCEPT !.SendNum = 0]
<1>1. y = [st |-> a, p |-> p]
  OBVIOUS
<1> HIDE DEF y, a
<1>2. [y EXCEPT !.st.RecvNum = 0] = [st |-> [a EXCEPT !.RecvNum = 0], p |-> p]
  BY <1>1
<1>3. QED
  BY <1>2 DEF y, a

(* An I frame acknowledges everything, and no S frame is due any more. *)
LEMMA BuildIPair ==
    ASSUME NEW x, PairInv(x), NEW o \in Outcomes
    PROVE  PairInv(BuildI(x, o)) /\ Settled(BuildI(x, o))
<1> DEFINE st == x.st  p == x.p
           y == [st EXCEPT !.is_send_sframe = FALSE]
           n == [y EXCEPT !.SendNum = (@ + 2) % NUM_MOD]
<1>1. /\ x = [st |-> st, p |-> p] /\ st \in Slaves /\ p \in Peers
      /\ Unused(st) /\ (st.mem = "live" => st.is_connect) /\ ~p.gap
      /\ st.mem = "live" /\ ~p.missed => Known(st, p)
  BY Parts
<1>2. CASE ~st.is_connect
  <2>1. BuildI(x, o) = x
    BY <1>2 DEF BuildI
  <2>2. st.mem # "live"
    BY <1>1, <1>2
  <2>3. QED
    BY <2>1, <2>2 DEF Settled
<1>3. CASE st.is_connect
  <2>1. st.mem = "live"
    BY <1>1, <1>3, ConnectIsLive
  <2>2. [x EXCEPT !.st.is_send_sframe = FALSE] = [st |-> y, p |-> p]
    BY <1>1, SframeAssigned
  <2>3. y \in Slaves /\ y.is_connect /\ y.SendNum = st.SendNum /\ y.RecvNum = st.RecvNum
    BY <1>1, <1>3 DEF Slaves
  <2>4. BuildI(x, o) = OnWrite([st |-> y, p |-> p], "I", o)
    BY <1>3, <2>2 DEF BuildI
  <2>5. (st.SendNum + 2) % NUM_MOD \in 0..(NUM_MOD - 1)
    <3>1. st.SendNum + 2 \in Int
      BY <1>1 DEF Slaves
    <3>2. QED
      BY <3>1, Wrapped, Modulus
  <2>6. /\ n \in Slaves /\ n.mem = "live" /\ n.is_connect /\ ~n.is_send_sframe
        /\ n.SendNum = (st.SendNum + 2) % NUM_MOD /\ n.RecvNum = st.RecvNum
    BY <1>1, <1>3, <2>1, <2>5 DEF Slaves
  <2>7. OnWrite([st |-> y, p |-> p], "I", o) =
          CASE o = "ok" -> [st |-> n, p |-> Observed(p, "I", y)]
            [] o \in {"again", "short"} -> [st |-> n, p |-> Missing]
            [] o = "error" -> [st |-> Freed, p |-> p]
    BY StructAssigned DEF OnWrite
  <2>8. Unused(n)
    BY <2>6 DEF Unused
  <2> HIDE DEF n, y, st, p
  <2>9. CASE o = "error"
    <3>1. BuildI(x, o) = [st |-> Freed, p |-> p]
      BY <2>4, <2>7, <2>9
    <3>2. QED
      BY <3>1, <1>1, FreedPair, Emptied DEF Settled
  <2>10. CASE o \in {"again", "short"}
    <3>1. BuildI(x, o) = [st |-> n, p |-> Missing]
      BY <2>4, <2>7, <2>10
    <3>2. QED
      BY <3>1, <2>6, <2>8, MissingPair DEF Settled
  <2>11. CASE o = "ok"
    <3> DEFINE q == Observed(p, "I", y)
    <3>1. BuildI(x, o) = [st |-> n, p |-> q]
      BY <2>4, <2>7, <2>11
    <3>2. q \in Peers /\ ~q.gap /\ (~q.missed => Known(n, q))
      <4>1. CASE p.missed
        BY <1>1, <4>1 DEF Observed
      <4>2. CASE ~p.missed
        <5>1. Known(st, p)
          BY <1>1, <2>1, <4>2
        <5>2. q = [p EXCEPT !.expects = (y.SendNum + 2) % NUM_MOD, !.ack = y.RecvNum,
                            !.gap = @ \/ y.SendNum # p.expects]
          BY <4>2 DEF Observed
        <5>3. y.SendNum = p.expects
          BY <5>1, <2>3 DEF Known
        <5>4. q \in Peers /\ ~q.gap /\ q.expects = n.SendNum /\ q.ack = n.RecvNum
          <6>1. /\ (y.SendNum + 2) % NUM_MOD \in 0..(NUM_MOD - 1) /\ y.RecvNum \in 0..(NUM_MOD - 1)
                /\ n.SendNum = (y.SendNum + 2) % NUM_MOD /\ n.RecvNum = y.RecvNum
            BY <2>3, <2>5, <2>6, <1>1 DEF Slaves
          <6>2. p \in Peers /\ ~p.gap
            BY <1>1
          <6> HIDE DEF q
          <6>3. q \in Peers
            BY <5>2, <5>3, <6>1, <6>2 DEF Peers
          <6>4. ~q.gap /\ q.expects = n.SendNum /\ q.ack = n.RecvNum
            BY <5>2, <5>3, <6>1, <6>2 DEF Peers
          <6>5. QED
            BY <6>3, <6>4
        <5>5. Known(n, q)
          BY <5>1, <5>4, <2>6 DEF Known
        <5>6. QED
          BY <5>4, <5>5
      <4>3. QED
        BY <4>1, <4>2
    <3> HIDE DEF q
    <3>3. QED
      BY <3>1, <3>2, <2>6, <2>8, Paired DEF Settled
  <2>12. QED
    BY <2>9, <2>10, <2>11, OutcomeKinds
<1>4. QED
  BY <1>2, <1>3

(* A test frame changes nothing, unless it is not written. *)
LEMMA BuildTest ==
    ASSUME NEW x, PairInv(x), NEW o \in Outcomes, NEW kind \in {"testcon", "testact"}
    PROVE  PairInv(Build(x, kind, o)) /\ (Settled(x) => Settled(Build(x, kind, o)))
<1>1. x \in Pairs /\ x.st \in Slaves /\ x.p \in Peers /\ x = [st |-> x.st, p |-> x.p]
  BY DEF PairInv, Pairs
<1>2. CASE ~x.st.is_connect
  BY <1>2 DEF Build
<1>3. CASE x.st.is_connect /\ o = "error"
  <2>1. Build(x, kind, o) = [st |-> Freed, p |-> x.p] /\ ~x.p.gap
    BY <1>1, <1>3 DEF Build, OnWrite, PairInv
  <2>2. QED
    BY <1>1, <2>1, FreedPair, Emptied DEF Settled
<1>4. CASE x.st.is_connect /\ o \in {"again", "short"}
  <2>1. Build(x, kind, o) = [st |-> x.st, p |-> Missing]
    BY <1>4 DEF Build, OnWrite
  <2>2. QED
    BY <1>1, <2>1, MissingPair, Emptied DEF Settled, PairInv
<1>5. CASE x.st.is_connect /\ o = "ok"
  <2>1. Observed(x.p, kind, x.st) = x.p
    BY DEF Observed
  <2>2. Build(x, kind, o) = x
    BY <1>1, <1>5, <2>1 DEF Build, OnWrite
  <2>3. QED
    BY <2>2
<1>6. QED
  BY <1>2, <1>3, <1>4, <1>5, OutcomeKinds

(* STARTDT sets the numbers of both ends to zero. *)
LEMMA BuildStart ==
    ASSUME NEW x, PairInv(x), NEW o \in Outcomes
    PROVE  PairInv(Build([x EXCEPT !.st.SendNum = 0, !.st.RecvNum = 0], "startcon", o))
<1> DEFINE st == x.st  p == x.p
           z == [st EXCEPT !.SendNum = 0, !.RecvNum = 0]
           y == Build([st |-> z, p |-> p], "startcon", o)
<1>1. /\ x = [st |-> st, p |-> p] /\ st \in Slaves /\ p \in Peers
      /\ Unused(st) /\ (st.mem = "live" => st.is_connect) /\ ~p.gap
      /\ st.mem = "live" /\ ~p.missed => Known(st, p)
  BY Parts
<1>2. 0 \in 0..(NUM_MOD - 1)
  BY Modulus
<1>3. /\ z \in Slaves /\ z.mem = st.mem /\ z.is_connect = st.is_connect
      /\ z.is_send_sframe = st.is_send_sframe /\ z.SendNum = 0 /\ z.RecvNum = 0
      /\ z.ev_read = st.ev_read /\ z.ev_timer_tframe = st.ev_timer_tframe
  BY <1>1, <1>2 DEF Slaves
<1>4. [x EXCEPT !.st.SendNum = 0, !.st.RecvNum = 0] = [st |-> z, p |-> p]
  <2>1. x = [st |-> st, p |-> p]
    BY <1>1
  <2> HIDE DEF st, p
  <2>2. QED
    BY <2>1, NumbersAssigned
<1> HIDE DEF z, st, p
<1>5. Unused(z) /\ (z.mem = "live" <=> z.is_connect)
  BY <1>1, <1>3, ConnectIsLive DEF Unused
<1>6. CASE ~z.is_connect
  <2>1. y = [st |-> z, p |-> p]
    BY <1>6 DEF Build
  <2>2. QED
    BY <1>1, <1>3, <1>4, <1>5, <1>6, <2>1, Paired
<1>7. CASE z.is_connect /\ o = "error"
  <2>1. y = [st |-> Freed, p |-> p]
    BY <1>7, StructAssigned DEF Build, OnWrite
  <2>2. QED
    BY <1>1, <1>4, <2>1, FreedPair
<1>8. CASE z.is_connect /\ o \in {"again", "short"}
  <2>1. y = [st |-> z, p |-> Missing]
    BY <1>8 DEF Build, OnWrite
  <2>2. QED
    BY <1>3, <1>4, <1>5, <1>8, <2>1, MissingPair
<1>9. CASE z.is_connect /\ o = "ok"
  <2> DEFINE q == Observed(p, "startcon", z)
  <2>1. y = [st |-> z, p |-> q]
    BY <1>9 DEF Build, OnWrite
  <2>2. q \in Peers /\ ~q.gap /\ (~q.missed => Known(z, q))
    <3>1. CASE p.missed
      BY <1>1, <3>1 DEF Observed
    <3>2. CASE ~p.missed
      <4>1. q = [p EXCEPT !.expects = 0, !.ack = 0]
        BY <3>2 DEF Observed
      <4>2. q \in Peers /\ ~q.gap /\ q.expects = 0 /\ q.ack = 0
        BY <1>1, <1>2, <4>1 DEF Peers
      <4>3. Waiting(z, q) = 0
        BY <1>3, <4>2, WrappedDifference, <1>2, Modulus DEF Waiting
      <4>4. z.w \in Int /\ z.w >= 0
        BY <1>3 DEF Slaves
      <4>5. QED
        BY <1>3, <4>2, <4>3, <4>4 DEF Known
    <3>3. QED
      BY <3>1, <3>2
  <2> HIDE DEF q
  <2>3. QED
    BY <1>3, <1>4, <1>5, <2>1, <2>2, Paired
<1>10. QED
  BY <1>4, <1>6, <1>7, <1>8, <1>9, OutcomeKinds
(* An S frame acknowledges everything, and `w' counts from zero again. *)
LEMMA AcknowledgePair ==
    ASSUME NEW x, PairInv(x), NEW o \in Outcomes
    PROVE  PairInv(Acknowledge(x, o)) /\ Settled(Acknowledge(x, o))
<1> DEFINE st == x.st  p == x.p  z == [st EXCEPT !.w = 0]
<1>1. /\ x = [st |-> st, p |-> p] /\ st \in Slaves /\ p \in Peers
      /\ Unused(st) /\ (st.mem = "live" => st.is_connect) /\ ~p.gap
      /\ st.mem = "live" /\ ~p.missed => Known(st, p)
  BY Parts
<1>2. CASE ~(st.is_send_sframe /\ st.w >= MAX_W)
  <2>1. Acknowledge(x, o) = x
    BY <1>2 DEF Acknowledge
  <2>2. st.w \in Int
    BY <1>1 DEF Slaves
  <2>3. QED
    BY <1>2, <2>1, <2>2, Modulus DEF Settled
<1>3. CASE st.is_send_sframe /\ st.w >= MAX_W
  <2>1. st.mem = "live" /\ st.is_connect
    BY <1>1, <1>3 DEF Unused
  <2>2. Acknowledge(x, o) = [OnWrite(x, "S", o) EXCEPT !.st.w = 0]
    BY <1>3, <2>1 DEF Acknowledge, Build
  <2>3. \A f, q : [[st |-> f, p |-> q] EXCEPT !.st.w = 0] = [st |-> [f EXCEPT !.w = 0], p |-> q]
    OBVIOUS
  <2>4. /\ z \in Slaves /\ z.mem = "live" /\ z.is_connect /\ Unused(z) /\ z.w = 0
        /\ z.SendNum = st.SendNum /\ z.RecvNum = st.RecvNum
    BY <1>1, <2>1, Modulus DEF Slaves, Unused
  <2>5. CASE o = "error"
    <3>1. OnWrite(x, "S", o) = [st |-> Freed, p |-> p]
      BY <1>1, <2>5 DEF OnWrite
    <3> DEFINE f == [Freed EXCEPT !.w = 0]
    <3>2. Acknowledge(x, o) = [st |-> f, p |-> p]
      BY <2>2, <2>3, <3>1
    <3>3. f \in Slaves /\ f.mem = "freed" /\ Unused(f)
      BY Emptied, Modulus DEF Slaves, Unused
    <3> HIDE DEF f
    <3>4. QED
      BY <1>1, <3>2, <3>3, Paired DEF Settled
  <2>6. CASE o \in {"again", "short"}
    <3>1. OnWrite(x, "S", o) = [st |-> st, p |-> Missing]
      BY <2>6 DEF OnWrite
    <3>2. Acknowledge(x, o) = [st |-> z, p |-> Missing]
      BY <2>2, <2>3, <3>1
    <3> HIDE DEF z
    <3>3. QED
      BY <2>4, <3>2, MissingPair, Modulus DEF Settled
  <2>7. CASE o = "ok"
    <3> DEFINE q == Observed(p, "S", st)
    <3>1. OnWrite(x, "S", o) = [st |-> st, p |-> q]
      BY <2>7 DEF OnWrite
    <3>2. Acknowledge(x, o) = [st |-> z, p |-> q]
      BY <2>2, <2>3, <3>1
    <3>3. q \in Peers /\ ~q.gap /\ (~q.missed => Known(z, q))
      <4>1. CASE p.missed
        BY <1>1, <4>1 DEF Observed
      <4>2. CASE ~p.missed
        <5> HIDE DEF z, st, p
        <5>1. q = [p EXCEPT !.ack = st.RecvNum]
          BY <4>2 DEF Observed
        <5>2. Known(st, p)
          BY <1>1, <2>1, <4>2
        <5>3. st.RecvNum \in 0..(NUM_MOD - 1)
          BY <1>1 DEF Slaves
        <5>4. q \in Peers /\ ~q.gap /\ q.expects = p.expects /\ q.ack = st.RecvNum
          BY <1>1, <5>1, <5>3 DEF Peers
        <5>5. Waiting(z, q) = 0
          BY <2>4, <5>3, <5>4, WrappedDifference, Modulus DEF Waiting
        <5> HIDE DEF q
        <5>6. Waiting(z, q) <= 2 * (z.w + 1)
          BY <2>4, <5>5
        <5>7. Known(z, q)
          BY <2>4, <5>2, <5>4, <5>6 DEF Known
        <5>8. QED
          BY <5>4, <5>7
      <4>3. QED
        BY <4>1, <4>2
    <3> HIDE DEF z, q
    <3>4. QED
      BY <2>4, <3>2, <3>3, Paired, Modulus DEF Settled
  <2>8. QED
    BY <2>5, <2>6, <2>7, OutcomeKinds
<1>4. QED
  BY <1>2, <1>3

(* The loop calls on_read with a struct that is live. *)
LEMMA ReadingIsLive ==
    ASSUME PairInv(Here), Reading
    PROVE  s.mem = "live" /\ s.is_connect
BY DEF PairInv, Here, Unused, Reading, Pairs, Slaves

(* on_read notes that the channel is not idle, and nothing else. *)
LEMMA AwakePair ==
    ASSUME PairInv(Here)
    PROVE  /\ PairInv(Awake) /\ (Settled(Here) => Settled(Awake))
           /\ Awake = [st |-> [s EXCEPT !.is_idlesse = FALSE], p |-> peer]
<1> DEFINE no == FALSE
           z == [s EXCEPT !.is_idlesse = no]
<1>1. /\ s \in Slaves /\ peer \in Peers
      /\ Unused(s) /\ (s.mem = "live" => s.is_connect) /\ ~peer.gap
      /\ s.mem = "live" /\ ~peer.missed => Known(s, peer)
  BY Parts DEF Here
<1>2. no \in BOOLEAN
  OBVIOUS
<1> HIDE DEF no
<1>3. [Here EXCEPT !.st.is_idlesse = no] = [st |-> z, p |-> peer]
  BY DEF Here
<1>4. Awake = [st |-> z, p |-> peer]
  BY <1>3 DEF Awake, no
<1>5. /\ z \in Slaves /\ z.mem = s.mem /\ z.is_connect = s.is_connect
      /\ z.is_send_sframe = s.is_send_sframe /\ z.w = s.w
      /\ z.SendNum = s.SendNum /\ z.RecvNum = s.RecvNum
      /\ z.ev_read = s.ev_read /\ z.ev_timer_tframe = s.ev_timer_tframe
  BY <1>1, <1>2 DEF Slaves
<1> HIDE DEF z
<1>6. Unused(z) /\ (Known(s, peer) => Known(z, peer))
  BY <1>1, <1>5 DEF Unused, Known, Waiting
<1>7. PairInv(Awake)
  BY <1>1, <1>4, <1>5, <1>6, Paired
<1>8. Settled(Here) => Settled(Awake)
  BY <1>4, <1>5 DEF Settled, Here
<1>9. QED
  BY <1>4, <1>7, <1>8 DEF z, no
(* An I frame received: one more may wait, and `w' counts it, or wraps with *)
(* the first that waits.                                                    *)
LEMMA CountedPair ==
    ASSUME PairInv(Here), Settled(Here), Reading
    PROVE  PairInv(Counted) /\ Counted.st.mem = "live"
<1> DEFINE yes == TRUE  r == CountedRecvNum  v == (s.w + 1) % W_MOD
           b == Awake.st
           c == [b EXCEPT !.is_send_sframe = yes, !.RecvNum = r, !.w = v]
<1>1. /\ s \in Slaves /\ peer \in Peers /\ s.mem = "live" /\ s.is_connect /\ ~peer.gap
      /\ ~peer.missed => Known(s, peer)
  BY Parts, ReadingIsLive DEF Here
<1>2. b = [s EXCEPT !.is_idlesse = FALSE] /\ Awake = [st |-> b, p |-> peer]
  BY AwakePair
<1>3. /\ b \in Slaves /\ b.mem = "live" /\ b.is_connect /\ b.SendNum = s.SendNum /\ b.w = s.w
  BY <1>1, <1>2 DEF Slaves
<1>4. yes \in BOOLEAN /\ yes
  OBVIOUS
<1> HIDE DEF yes, r, v, b
<1>5. [Awake EXCEPT !.st.is_send_sframe = yes, !.st.RecvNum = r, !.st.w = v] = [st |-> c, p |-> peer]
  <2> DEFINE c1 == [b EXCEPT !.is_send_sframe = yes]
             c2 == [c1 EXCEPT !.RecvNum = r]
  <2>1. [Awake EXCEPT !.st.is_send_sframe = yes] = [st |-> c1, p |-> peer]
    BY <1>2
  <2> HIDE DEF c1
  <2>2. [[st |-> c1, p |-> peer] EXCEPT !.st.RecvNum = r] = [st |-> c2, p |-> peer]
    OBVIOUS
  <2> HIDE DEF c2
  <2>3. [[st |-> c2, p |-> peer] EXCEPT !.st.w = v] = [st |-> [c2 EXCEPT !.w = v], p |-> peer]
    OBVIOUS
  <2>4. QED
    BY <2>1, <2>2, <2>3 DEF c1, c2
<1>6. Counted = [st |-> c, p |-> peer]
  <2>1. Awake.st.w = s.w
    BY <1>3 DEF b
  <2>2. QED
    BY <1>5, <2>1 DEF Counted, yes, r, v
<1>7. v \in 0..(W_MOD - 1) /\ (s.w + 1 < W_MOD => v = s.w + 1)
  BY <1>1, Wrapped, Modulus DEF v, Slaves
<1>8. r \in 0..(NUM_MOD - 1)
  <2>1. s.RecvNum \in 0..(NUM_MOD - 1)
    BY <1>1 DEF Slaves
  <2>2. (s.RecvNum + 2) % NUM_MOD \in 0..(NUM_MOD - 1)
    BY <2>1, Wrapped, Modulus
  <2>3. QED
    BY <2>2, Modulus DEF r, CountedRecvNum
<1>9. /\ c \in Slaves /\ c.mem = "live" /\ c.is_connect /\ c.SendNum = s.SendNum
      /\ c.is_send_sframe = yes /\ c.RecvNum = r /\ c.w = v
  BY <1>3, <1>4, <1>7, <1>8 DEF Slaves
<1> HIDE DEF c
<1>10. Unused(c)
  BY <1>9 DEF Unused
<1>11. ASSUME ~peer.missed PROVE Known(c, peer)
  <2>1. Known(s, peer)
    BY <1>1, <1>11
  <2>2. s.is_send_sframe => s.w < MAX_W
    BY <1>1, <1>11 DEF Settled, Here
  <2>3. s.w \in Nat /\ s.RecvNum \in 0..(NUM_MOD - 1) /\ peer.ack \in 0..(NUM_MOD - 1)
    BY <1>1, Modulus DEF Slaves, Peers
  <2>4. ~s.is_send_sframe => Waiting(s, peer) = 0
    BY <2>1, <2>3, WrappedDifference, Modulus DEF Known, Waiting
  <2>5. Waiting(s, peer) \in Nat
    BY <2>3, Wrapped, Modulus DEF Waiting
  <2>6. Waiting(s, peer) <= 2 * MAX_W
    BY <2>1, <2>2, <2>3, <2>4, <2>5, Modulus DEF Known
  <2>7. r \in Int /\ r = IF s.RecvNum = NUM_MOD \div 2 - 1 THEN 0 ELSE (s.RecvNum + 2) % NUM_MOD
    BY <1>8 DEF r, CountedRecvNum
  <2>8. s.RecvNum % 2 = 0 /\ peer.ack % 2 = 0
    BY <2>1 DEF Known
  <2>9. r % 2 = 0 /\ (r - peer.ack) % NUM_MOD = Waiting(s, peer) + 2
    BY <1>1, <2>6, <2>7, <2>8, OneMoreWaits
  <2>10. Waiting(c, peer) = Waiting(s, peer) + 2
    BY <1>9, <2>9 DEF Waiting
  <2>11. Waiting(s, peer) + 2 <= 2 * (v + 1)
    <3>1. CASE s.is_send_sframe
      BY <3>1, <1>7, <2>1, <2>2, <2>3, <2>5, Modulus DEF Known
    <3>2. CASE ~s.is_send_sframe
      BY <3>2, <1>7, <2>4
    <3>3. QED
      BY <3>1, <3>2
  <2>12. c.is_send_sframe
    BY <1>4, <1>9
  <2>13. peer.expects = c.SendNum
    BY <1>9, <2>1 DEF Known
  <2>14. QED
    BY <1>9, <2>8, <2>9, <2>10, <2>11, <2>12, <2>13 DEF Known
<1>12. QED
  BY <1>1, <1>6, <1>9, <1>10, <1>11, Paired

(* A set of naturals that is not empty has a least one. *)
LEMMA LeastOf ==
    ASSUME NEW T, T \subseteq Nat, T # {}
    PROVE  \E x \in T : \A y \in T : x <= y
<1>1. PICK x \in T : \A y \in T : ~ (<<y, x>> \in OpToRel(<, Nat))
  BY NatLessThanWellFounded, WFMin
<1>2. ASSUME NEW y \in T PROVE x <= y
  <2>1. y \in Nat /\ x \in Nat
    OBVIOUS
  <2>2. ~ (y < x)
    BY <1>1, <2>1 DEF OpToRel
  <2>3. QED
    BY <2>1, <2>2
<1>3. QED
  BY <1>2
(* The recursive definition of Answered has a solution, which keeps the pair *)
(* in order from one object to the next.                                     *)
LEMMA AnsweredPair ==
    ASSUME PairInv(Counted), NEW n \in Nat, NEW os \in [1..n -> Outcomes]
    PROVE  PairInv(Answered(os))
<1> DEFINE After(g, m) == g = [i \in 0..m |-> IF i = 0 THEN Counted ELSE BuildI(g[i - 1], os[i])]
           after == CHOOSE g : After(g, Len(os))
<1>1. Len(os) = n
  OBVIOUS
<1>2. Answered(os) = after[n]
  BY <1>1 DEF Answered
<1>3. \E g : After(g, n)
  <2> DEFINE T == {m \in 0..n : ~ \E g : After(g, m)}
  <2>1. SUFFICES ASSUME T # {} PROVE FALSE
    OBVIOUS
  <2>2. PICK m \in T : \A k \in T : m <= k
    <3>1. T \subseteq Nat
      OBVIOUS
    <3> HIDE DEF T
    <3>2. QED
      BY <2>1, <3>1, LeastOf
  <2>3. CASE m = 0
    <3>1. After([i \in 0..0 |-> Counted], 0)
      OBVIOUS
    <3>2. QED
      BY <2>3, <3>1
  <2>4. CASE m # 0
    <3>1. m - 1 \in 0..n /\ m - 1 \notin T
      <4>1. m \in 0..n
        OBVIOUS
      <4> HIDE DEF T
      <4>2. QED
        BY <2>2, <2>4, <4>1
    <3>2. PICK g : After(g, m - 1)
      BY <3>1
    <3> DEFINE h == [i \in 0..m |-> IF i = m THEN BuildI(g[m - 1], os[m]) ELSE g[i]]
    <3>3. \A i \in 0..m : h[i] = IF i = 0 THEN Counted ELSE BuildI(h[i - 1], os[i])
      BY <3>2, <2>4
    <3>4. After(h, m)
      <4> HIDE DEF h
      <4>1. h = [i \in 0..m |-> h[i]]
        BY DEF h
      <4>2. QED
        BY <3>3, <4>1
    <3>5. QED
      BY <3>4
  <2>5. QED
    BY <2>3, <2>4
<1>4. After(after, n)
  <2>1. after = CHOOSE g : After(g, n)
    BY <1>1
  <2> HIDE DEF After, after
  <2>2. QED
    BY <1>3, <2>1
<1> HIDE DEF after
<1>5. after[0] = Counted /\ \A i \in 1..n : after[i] = BuildI(after[i - 1], os[i])
  BY <1>4
<1> HIDE DEF After
<1>6. \A m \in 0..n : PairInv(after[m])
  <2> DEFINE T == {m \in 0..n : ~PairInv(after[m])}
  <2>1. SUFFICES ASSUME T # {} PROVE FALSE
    OBVIOUS
  <2>2. PICK m \in T : \A k \in T : m <= k
    <3>1. T \subseteq Nat
      OBVIOUS
    <3> HIDE DEF T
    <3>2. QED
      BY <2>1, <3>1, LeastOf
  <2>3. m # 0
    BY <1>5
  <2>4. m - 1 \in 0..n /\ m - 1 \notin T /\ m \in 1..n
    BY <2>2, <2>3
  <2>5. PairInv(after[m - 1]) /\ os[m] \in Outcomes /\ after[m] = BuildI(after[m - 1], os[m])
    BY <2>4, <1>5
  <2>6. QED
    BY <2>5, BuildIPair
<1>7. QED
  BY <1>2, <1>6
-----------------------------------------------------------------------------
(* Requests. *)

(* What the tries of one request leave: the same control; and when they are *)
(* not given up, the point is where it was asked to be.                     *)
LEMMA TriedControl ==
    ASSUME NEW c \in Controls, NEW want \in {"value", "on", "off", "neither"}, NEW x \in Tried(c, want)
    PROVE  /\ x \in Controls
           /\ x.pc = c.pc /\ x.kind = c.kind /\ x.n = c.n /\ x.item = c.item /\ x.id = c.id
           /\ x.want = c.want /\ x.before = c.before
           /\ x.ret = "bad" \/ (x.ret = "ok" /\ x.coil = want)
<1>1. PICK k \in Int, r \in {"ok", "bad"}, d \in {"?", "value", "on", "off", "neither"} :
        x = [c EXCEPT !.i = k, !.ret = r, !.coil = d] /\ (r = "ok" => d = want)
  <2>1. CASE \E k \in 0..(Tries - 1) : x = [c EXCEPT !.i = k, !.ret = "ok", !.coil = want]
    <3>1. PICK k \in 0..(Tries - 1) : x = [c EXCEPT !.i = k, !.ret = "ok", !.coil = want]
      BY <2>1
    <3>2. k \in Int /\ want \in {"?", "value", "on", "off", "neither"}
      OBVIOUS
    <3>3. QED
      BY <3>1, <3>2
  <2>2. CASE \E d \in {want, c.coil} : x = [c EXCEPT !.i = Tries, !.ret = "bad", !.coil = d]
    <3>1. c.coil \in {"?", "value", "on", "off", "neither"} /\ Tries \in Int
      BY TriesAssumption DEF Controls
    <3>2. QED
      BY <2>2, <3>1
  <2>3. QED
    BY <2>1, <2>2 DEF Tried
<1>2. x \in Controls
  BY <1>1 DEF Controls
<1>3. /\ x.pc = c.pc /\ x.kind = c.kind /\ x.n = c.n /\ x.item = c.item /\ x.id = c.id
      /\ x.want = c.want /\ x.before = c.before /\ x.ret = r /\ x.coil = d
  BY <1>1 DEF Controls
<1>4. QED
  BY <1>1, <1>2, <1>3

(* What the requests of a control leave. *)
LEMMA OutcomeControl ==
    ASSUME rc \in Controls, PointInv, rc.pc = "operate", NEW x \in Outcome(rc)
    PROVE  /\ x \in Controls
           /\ x.pc = rc.pc /\ x.kind = rc.kind /\ x.id = rc.id
           /\ x.want = rc.want /\ x.before = rc.before
           /\ Definite => x.ret = "bad" \/ (x.ret = "ok" /\ x.coil = Rest)
<1>1. CASE rc.kind = "C_SE_NA"
  <2>1. rc.want = "value" /\ x \in Tried(rc, "value")
    BY <1>1 DEF PointInv, Outcome
  <2>2. QED
    BY <1>1, <2>1, TriedControl DEF Rest
<1>2. CASE rc.kind # "C_SE_NA"
  <2> DEFINE want == rc.want
  <2>1. want \in {"on", "off", "neither"}
    BY <1>2 DEF PointInv
  <2>2. CASE SwitchAttr(rc.id) = "switch"
    <3>1. x \in SwitchTried(rc)
      BY <1>2, <2>2 DEF Outcome
    <3>2. CASE want = "neither"
      <4>1. x \in Untried(rc)
        BY <3>1, <3>2 DEF SwitchTried
      <4>2. x = [rc EXCEPT !.i = 0, !.ret = "ok"] \/ x = [rc EXCEPT !.i = Tries, !.ret = "bad"]
        BY <4>1 DEF Untried
      <4>3. ~Definite
        BY <1>2, <3>2 DEF Definite
      <4>4. CASE x = [rc EXCEPT !.i = 0, !.ret = "ok"]
        <5>0. PICK zero \in Int : zero = 0
          OBVIOUS
        <5>1. x \in Controls
          <6>1. x = [rc EXCEPT !.i = zero, !.ret = "ok"]
            BY <4>4, <5>0
          <6>2. QED
            BY <6>1 DEF Controls
        <5>2. x.pc = rc.pc /\ x.kind = rc.kind /\ x.id = rc.id /\ x.want = rc.want /\ x.before = rc.before
          BY <4>4 DEF Controls
        <5>3. QED
          BY <4>3, <5>1, <5>2
      <4>5. CASE x = [rc EXCEPT !.i = Tries, !.ret = "bad"]
        <5>1. Tries \in Int
          BY TriesAssumption
        <5>2. QED
          BY <4>3, <4>5, <5>1 DEF Controls
      <4>6. QED
        BY <4>2, <4>4, <4>5
    <3>3. CASE want # "neither"
      <4>1. x \in Tried(rc, rc.want)
        BY <3>1, <3>3 DEF SwitchTried
      <4>2. Rest = rc.want
        BY <2>2 DEF Rest
      <4>3. QED
        BY <2>1, <4>1, <4>2, TriedControl
    <3>4. QED
      BY <3>2, <3>3
  <2>3. CASE SwitchAttr(rc.id) = "pulse"
    <3>1. x \in Pulsed(rc)
      BY <1>2, <2>3 DEF Outcome
    <3>2. CASE want = "neither"
      <4>1. x = [rc EXCEPT !.i = 0]
        BY <3>1, <3>2 DEF Pulsed
      <4>2. ~Definite
        BY <1>2, <3>2 DEF Definite
      <4>3. QED
        BY <4>1, <4>2 DEF Controls
    <3>3. CASE want # "neither"
      <4>1. PICK z \in Tried(rc, rc.want) : \E y \in Tried(z, Opposite(rc.want)) : x = [y EXCEPT !.i = 0]
        BY <3>1, <3>3 DEF Pulsed
      <4>2. PICK y \in Tried(z, Opposite(rc.want)) : x = [y EXCEPT !.i = 0]
        BY <4>1
      <4>3. Opposite(rc.want) \in {"on", "off"}
        BY DEF Opposite
      <4>4. z \in Controls /\ z.pc = rc.pc /\ z.kind = rc.kind /\ z.id = rc.id /\ z.want = rc.want /\ z.before = rc.before
        BY <2>1, TriedControl
      <4>5. /\ y \in Controls /\ y.pc = z.pc /\ y.kind = z.kind /\ y.id = z.id /\ y.want = z.want
            /\ y.before = z.before /\ (y.ret = "bad" \/ (y.ret = "ok" /\ y.coil = Opposite(rc.want)))
        BY <4>3, <4>4, TriedControl
      <4>6. Rest = Opposite(rc.want)
        BY <1>2, <2>3 DEF Rest
      <4>7. QED
        BY <4>2, <4>4, <4>5, <4>6 DEF Controls
    <3>4. QED
      BY <3>2, <3>3
  <2>4. CASE SwitchAttr(rc.id) \notin {"switch", "pulse"}
    <3>1. x = [rc EXCEPT !.i = Tries]
      BY <1>2, <2>4 DEF Outcome
    <3>2. ~Definite
      BY <1>2, <2>4 DEF Definite
    <3>3. QED
      BY <3>1, <3>2, TriesAssumption DEF Controls
  <2>5. QED
    BY <2>2, <2>3, <2>4
<1>3. QED
  BY <1>1, <1>2

-----------------------------------------------------------------------------
(* What a callback leaves behind. *)

LEMMA DoPair ==
    ASSUME NEW x, PairInv(x), Do(x)
    PROVE  Here' = x
BY Parts DEF Do, Here

LEMMA AcceptPair ==
    ASSUME Accept
    PROVE  PairInv(Here)' /\ Settled(Here)'
<1> DEFINE yes == TRUE
           t == [Fresh EXCEPT !.mem = "live", !.is_connect = yes, !.ev_read = yes, !.ev_timer_tframe = yes]
<1>1. yes \in BOOLEAN /\ yes
  OBVIOUS
<1>2. s' = t /\ peer' = NewPeer
  BY DEF Accept
<1>3. Fresh \in Slaves /\ ~Fresh.is_send_sframe /\ Fresh.SendNum = 0 /\ Fresh.RecvNum = 0
  BY Modulus DEF Fresh, Slaves
<1> HIDE DEF yes
<1>4. /\ t \in Slaves /\ t.mem = "live" /\ t.is_connect = yes
      /\ t.is_send_sframe = Fresh.is_send_sframe /\ t.SendNum = Fresh.SendNum /\ t.RecvNum = Fresh.RecvNum
  BY <1>1, <1>3 DEF Slaves
<1> HIDE DEF t
<1>5. Unused(t) /\ Known(t, NewPeer) /\ NewPeer \in Peers /\ ~NewPeer.gap
  BY <1>3, <1>4, Emptied DEF Unused, Known
<1>6. PairInv([st |-> t, p |-> NewPeer]) /\ Settled([st |-> t, p |-> NewPeer])
  BY <1>1, <1>3, <1>4, <1>5, Paired DEF Settled
<1>7. QED
  BY <1>2, <1>6 DEF Here

(* Every other callback than a control. *)
LEMMA ElsewherePair ==
    ASSUME PairInv(Here), Settled(Here), Elsewhere
    PROVE  PairInv(Here)' /\ Settled(Here)'
<1>1. SUFFICES ASSUME ~Accept
               PROVE  \E x : PairInv(x) /\ Settled(x) /\ Do(x)
  BY AcceptPair, DoPair
<1>2. CASE ReadClosed
  <2>1. Do([st |-> Freed, p |-> peer])
    <3>1. [Awake EXCEPT !.st = Freed] = [st |-> Freed, p |-> peer]
      BY AwakePair
    <3>2. QED
      BY <1>2, <3>1 DEF ReadClosed
  <2>2. PairInv([st |-> Freed, p |-> peer])
    BY Parts, FreedPair DEF Here
  <2>3. QED
    BY <2>1, <2>2, Emptied DEF Settled
<1>3. CASE ReadIgnored
  BY <1>3, AwakePair DEF ReadIgnored
<1>4. CASE ReadStartDt
  <2>1. PICK o1, o2 \in Outcomes :
          Do(BuildI(Build([Awake EXCEPT !.st.SendNum = 0, !.st.RecvNum = 0], "startcon", o1), o2))
    BY <1>4 DEF ReadStartDt
  <2>2. QED
    BY <2>1, AwakePair, BuildStart, BuildIPair
<1>5. CASE ReadTestAct
  <2>1. PICK o \in Outcomes : Do(Build(Awake, "testcon", o))
    BY <1>5 DEF ReadTestAct
  <2>2. QED
    BY <2>1, AwakePair, BuildTest
<1>6. CASE ReadReport
  <2>1. PICK o \in Outcomes : Do(Acknowledge(Counted, o))
    BY <1>6 DEF ReadReport
  <2>2. QED
    BY <1>6, <2>1, CountedPair, AcknowledgePair DEF ReadReport
<1>7. CASE ReadCommand
  <2>0. PICK n \in 1..MaxItems : \E os \in [1..n -> Outcomes] : \E o \in Outcomes :
          Do(Acknowledge(Answered(os), o))
    BY <1>7 DEF ReadCommand
  <2>1. PICK os \in [1..n -> Outcomes], o \in Outcomes : Do(Acknowledge(Answered(os), o))
    BY <2>0
  <2>2. n \in Nat
    OBVIOUS
  <2>3. PairInv(Answered(os))
    BY <1>7, <2>2, CountedPair, AnsweredPair DEF ReadCommand
  <2>4. QED
    BY <2>1, <2>3, AcknowledgePair
<1>8. CASE OnTimerTframe
  <2>1. CASE s.is_idlesse
    <3>1. PICK o \in Outcomes : Do(Build(Here, "testact", o))
      BY <1>8, <2>1 DEF OnTimerTframe
    <3>2. QED
      BY <3>1, BuildTest
  <2>2. CASE ~s.is_idlesse
    <3> DEFINE yes == TRUE
               z == [s EXCEPT !.is_idlesse = yes]
    <3>1. /\ s \in Slaves /\ peer \in Peers
          /\ Unused(s) /\ (s.mem = "live" => s.is_connect) /\ ~peer.gap
          /\ s.mem = "live" /\ ~peer.missed => Known(s, peer)
      BY Parts DEF Here
    <3>2. yes \in BOOLEAN
      OBVIOUS
    <3>3. Do([Here EXCEPT !.st.is_idlesse = yes])
      BY <1>8, <2>2 DEF OnTimerTframe
    <3> HIDE DEF yes
    <3>4. [Here EXCEPT !.st.is_idlesse = yes] = [st |-> z, p |-> peer]
      BY DEF Here
    <3>5. /\ z \in Slaves /\ z.mem = s.mem /\ z.is_connect = s.is_connect
          /\ z.is_send_sframe = s.is_send_sframe /\ z.w = s.w
          /\ z.SendNum = s.SendNum /\ z.RecvNum = s.RecvNum
          /\ z.ev_read = s.ev_read /\ z.ev_timer_tframe = s.ev_timer_tframe
      BY <3>1, <3>2 DEF Slaves
    <3> HIDE DEF z
    <3>6. Unused(z) /\ (Known(s, peer) => Known(z, peer))
      BY <3>1, <3>5 DEF Unused, Known, Waiting
    <3>7. PairInv([st |-> z, p |-> peer])
      BY <3>1, <3>5, <3>6, Paired
    <3>8. Settled([st |-> z, p |-> peer])
      BY <3>5 DEF Settled, Here
    <3>9. QED
      BY <3>3, <3>4, <3>7, <3>8
  <2>3. QED
    BY <2>1, <2>2
<1>9. QED
  BY <1>1, <1>2, <1>3, <1>4, <1>5, <1>6, <1>7, <1>8 DEF Elsewhere

(* The part of IInv about the struct and the peer. *)
SlaveInv ==
    /\ PairInv(Here)
    /\ Idle => Settled(Here)
    /\ ~Idle => s.mem = "live"

LEMMA EndedPair ==
    ASSUME NEW x, PairInv(x), Ended(x)
    PROVE  SlaveInv'
<1>1. CASE x.st.mem = "live" /\ Do(x) /\ rc'.pc = "object"
  BY <1>1, DoPair DEF SlaveInv, Idle, Here
<1>2. CASE (\E o \in Outcomes : Do(Acknowledge(x, o))) /\ rc' = NoControl
  <2>1. PICK o \in Outcomes : Do(Acknowledge(x, o))
    BY <1>2
  <2>2. PairInv(Acknowledge(x, o)) /\ Settled(Acknowledge(x, o))
    BY AcknowledgePair
  <2>3. Here' = Acknowledge(x, o)
    BY <2>1, <2>2, DoPair
  <2>4. Idle'
    BY <1>2 DEF NoControl, Idle
  <2>5. QED
    BY <2>2, <2>3, <2>4 DEF SlaveInv
<1>3. QED
  BY <1>1, <1>2 DEF Ended, NoControl

LEMMA SlaveStep ==
    ASSUME SlaveInv, ControlType, PointInv, [ControlNext]_allVars
    PROVE  SlaveInv'
<1>1. CASE Elsewhere
  <2>1. Idle /\ rc' = rc
    BY <1>1 DEF Elsewhere, rcVars
  <2>2. QED
    BY <1>1, <2>1, ElsewherePair DEF SlaveInv, Idle
<1>2. ASSUME NEW kind, ReadExecution(kind) PROVE SlaveInv'
  <2>1. Idle /\ Reading /\ Do(Counted) /\ \E k \in 1..MaxItems : rc'.pc = "object"
    BY <1>2 DEF ReadExecution, NoControl
  <2>2. PairInv(Counted) /\ Counted.st.mem = "live"
    BY <2>1, CountedPair DEF SlaveInv
  <2>3. Here' = Counted /\ s' = Counted.st
    BY <2>1, <2>2, DoPair DEF Do
  <2>4. QED
    BY <2>1, <2>2, <2>3 DEF SlaveInv, Idle
<1>3. CASE Return
  <2>1. s' = s /\ peer' = Missing /\ Idle'
    BY <1>3 DEF Return, NoControl, Idle
  <2>2. PairInv([st |-> s, p |-> Missing])
    BY Parts, MissingPair DEF SlaveInv, Here
  <2>3. Settled([st |-> s, p |-> Missing])
    BY Emptied DEF Settled
  <2>4. QED
    BY <2>1, <2>2, <2>3 DEF SlaveInv, Here
<1>4. CASE UNCHANGED <<s, peer>> /\ (Idle' <=> Idle)
  BY <1>4 DEF SlaveInv, Here
<1>5. CASE Confirm
  <2>1. PICK o \in Outcomes : Ended(BuildI(Here, o))
    BY <1>5 DEF Confirm
  <2>2. QED
    BY <2>1, BuildIPair, EndedPair DEF SlaveInv
<1>6. CASE NextObject
  BY <1>6, EndedPair DEF NextObject, SlaveInv
<1>7. CASE ObjectExecutes
  <2>1. CASE Return
    BY <2>1, <1>3
  <2>2. CASE ~Return
    <3>1. rc.pc = "object" /\ UNCHANGED <<s, peer>> /\ rc'.pc \in {"own", "lock"}
      BY <1>7, <2>2 DEF ObjectExecutes, ControlType, Controls
    <3>2. QED
      BY <3>1, <1>4 DEF Idle
  <2>3. QED
    BY <2>1, <2>2
<1>8. CASE ObjectSelects \/ OwnSwitch \/ OwnPulse \/ OwnOther \/ Lock \/ Operate
  <2>1. UNCHANGED <<s, peer>> /\ ~Idle
    BY <1>8 DEF ObjectSelects, OwnSwitch, OwnPulse, OwnOther, Lock, Operate, Idle
  <2>2. ~Idle'
    <3>1. CASE Operate
      <4>1. PICK x \in Outcome(rc) : \/ rc' = [x EXCEPT !.pc = "confirm"]
                                     \/ rc' = Failed(x)
        BY <3>1 DEF Operate
      <4>2. x \in Controls
        BY <3>1, OutcomeControl DEF Operate, ControlType
      <4>3. QED
        BY <4>1, <4>2 DEF Failed, NoControl, Controls, Idle
    <3>2. QED
      BY <1>8, <3>1 DEF ObjectSelects, OwnSwitch, OwnPulse, OwnOther, Lock, Idle, ControlType,
                        Controls, Failed, NoControl
  <2>3. QED
    BY <2>1, <2>2, <1>4
<1>9. CASE CollectTake \/ CollectSetAddress \/ CollectGive \/ UNCHANGED allVars
  <2>1. UNCHANGED <<s, peer, rc>>
    BY <1>9 DEF CollectTake, CollectSetAddress, CollectGive, allVars
  <2>2. QED
    BY <2>1, <1>4 DEF Idle
<1>10. QED
  BY <1>1, <1>2, <1>5, <1>6, <1>7, <1>8, <1>9
     DEF ControlNext, OnRead, ReadSetPoint, ReadSingle, ReadDouble
-----------------------------------------------------------------------------
(* What a step does to the control, to the line and to the outputs. *)

LEMMA NoControlType == NoControl \in Controls /\ NoControl.pc = "idle"
BY DEF NoControl, Controls

(* A control that is not confirmed goes on with the next object. *)
LEMMA FailedControl ==
    ASSUME NEW x \in Controls
    PROVE  Failed(x) \in Controls /\ Failed(x).pc = "next" /\ Failed(x).kind = x.kind
<1>1. /\ x.kind \in {"none", "C_SE_NA", "C_SC_NA", "C_DC_NA"} /\ x.ret \in {"junk", "ok", "bad"}
      /\ x.n \in Int /\ x.i \in Int /\ x.item \in Int
  BY DEF Controls
<1> DEFINE a == [NoControl EXCEPT !.pc = "next", !.kind = x.kind, !.n = x.n]
<1>2. a \in Controls /\ a.pc = "next" /\ a.kind = x.kind
  <2>1. a.pc = "next" /\ a.kind = x.kind
    BY DEF NoControl
  <2>2. a \in Controls
    <3> DEFINE b == [NoControl EXCEPT !.pc = "next"]
               c == [b EXCEPT !.kind = x.kind]
    <3>1. b \in Controls
      BY NoControlType DEF Controls
    <3> HIDE DEF b
    <3>2. c \in Controls
      BY <1>1, <3>1 DEF Controls
    <3> HIDE DEF c
    <3>3. [c EXCEPT !.n = x.n] \in Controls
      BY <1>1, <3>2 DEF Controls
    <3>4. QED
      BY <3>3 DEF b, c
  <2>3. QED
    BY <2>1, <2>2
<1>3. Failed(x) = [a EXCEPT !.i = x.i, !.item = x.item, !.ret = x.ret]
  BY DEF Failed
<1> HIDE DEF a
<1>4. QED
  BY <1>1, <1>2, <1>3 DEF Controls

ControlInv == ControlType /\ PointInv /\ RightDevice

(* The control waits, or its frame is done. *)
LEMMA Resting ==
    ASSUME ControlType', rc'.pc \in {"idle", "object", "next"}, rc'.pc # "idle" => rc'.kind # "none"
    PROVE  PointInv' /\ RightDevice'
BY DEF PointInv, RightDevice, AckMeansDone, Executed

LEMMA ObjectControl ==
    ASSUME ControlInv, ObjectExecutes
    PROVE  ControlInv'
<1>1. line' = line /\ addr' = addr /\ out' = out /\ rc.pc = "object" /\ rc.kind # "none"
  BY DEF ObjectExecutes, ControlInv, PointInv
<1>2. PICK id \in DOMAIN Attr \cup DOMAIN DevOf \cup {NoId}, v \in 0..3 :
        LET known == rc.kind = "C_SE_NA" \/ SwitchAttr(id) # "error"
            own   == rc.kind # "C_SE_NA" /\ id \in Own
            now   == [rc EXCEPT !.id = id, !.want = Want(rc.kind, v), !.coil = "?", !.before = out]
        IN  \/ own /\ rc' = [now EXCEPT !.pc = "own"]
            \/ ~own /\ Addressed(id) /\ rc' = [now EXCEPT !.pc = "lock"]
            \/ rc' = NoControl
  BY DEF ObjectExecutes, Return
<1>3. rc.kind \in {"C_SE_NA", "C_SC_NA", "C_DC_NA"} /\ rc \in Controls /\ out \subseteq Own
  BY <1>1 DEF ControlInv, ControlType, Controls
<1> DEFINE want == Want(rc.kind, v)
           now == [rc EXCEPT !.id = id, !.want = want, !.coil = "?", !.before = out]
<1>4. IF rc.kind = "C_SE_NA" THEN want = "value" ELSE want \in {"on", "off", "neither"}
  BY <1>3 DEF Want, SingleWant, DoubleWant
<1> HIDE DEF want
<1>5. /\ now \in Controls /\ now.kind = rc.kind /\ now.id = id /\ now.want = want /\ now.before = out
  BY <1>3, <1>4 DEF Controls
<1>6. CASE rc' = NoControl
  <2>1. ControlType'
    BY <1>1, <1>6, NoControlType DEF ControlInv, ControlType
  <2>2. QED
    BY <2>1, <1>6, NoControlType, Resting DEF ControlInv
<1>7. CASE rc.kind # "C_SE_NA" /\ id \in Own /\ rc' = [now EXCEPT !.pc = "own"]
  <2>1. /\ rc' \in Controls /\ rc'.pc = "own" /\ rc'.kind = rc.kind /\ rc'.id = id
        /\ rc'.want = want /\ rc'.before = out
    <3> HIDE DEF now
    <3>1. QED
      BY <1>5, <1>7 DEF Controls
  <2>2. QED
    BY <1>1, <1>4, <1>7, <2>1 DEF ControlInv, ControlType, PointInv, RightDevice, AckMeansDone, Executed
<1>8. CASE ~(rc.kind # "C_SE_NA" /\ id \in Own) /\ rc' = [now EXCEPT !.pc = "lock"]
  <2>1. /\ rc' \in Controls /\ rc'.pc = "lock" /\ rc'.kind = rc.kind /\ rc'.id = id
        /\ rc'.want = want /\ rc'.before = out
    <3> HIDE DEF now
    <3>1. QED
      BY <1>5, <1>8 DEF Controls
  <2>2. QED
    BY <1>1, <1>4, <1>8, <2>1 DEF ControlInv, ControlType, PointInv, RightDevice, AckMeansDone, Executed
<1>9. QED
  BY <1>2, <1>6, <1>7, <1>8 DEF want

LEMMA OwnControl ==
    ASSUME ControlInv, OwnSwitch \/ OwnPulse \/ OwnOther
    PROVE  ControlInv'
<1>1. rc \in Controls /\ out \subseteq Own /\ line' = line /\ addr' = addr
  BY DEF ControlInv, ControlType, OwnSwitch, OwnPulse, OwnOther
<1>2. CASE OwnSwitch
  <2>1. /\ rc.kind # "C_SE_NA" /\ rc.id \in Own /\ out = rc.before
        /\ rc.want \in {"on", "off", "neither"} /\ SwitchAttr(rc.id) = "switch"
    BY <1>2 DEF OwnSwitch, ControlInv, PointInv
  <2>2. /\ rc' \in Controls /\ rc'.pc = "confirm" /\ rc'.kind = rc.kind /\ rc'.id = rc.id
        /\ rc'.want = rc.want /\ rc'.before = rc.before
    BY <1>1, <1>2 DEF OwnSwitch, Controls
  <2>3. /\ rc.want = "off" => out' = out \cup {rc.id}
        /\ rc.want = "on" => out' = out \ {rc.id}
        /\ rc.want = "neither" => out' = out
    BY <1>2 DEF OwnSwitch
  <2>4. out' \subseteq Own
    BY <1>1, <2>1, <2>3
  <2>5. AckMeansDone'
    BY <2>1, <2>2, <2>3 DEF AckMeansDone, Executed, Definite, OwnRest
  <2>6. rc'.kind # "none"
    BY <1>2, <2>2 DEF OwnSwitch, ControlInv, PointInv
  <2>7. QED
    BY <1>1, <2>2, <2>4, <2>5, <2>6 DEF ControlInv, ControlType, PointInv, RightDevice
<1>3. CASE OwnPulse
  <2>1. /\ rc.kind # "C_SE_NA" /\ rc.id \in Own /\ SwitchAttr(rc.id) = "pulse"
        /\ rc.want \in {"on", "off", "neither"} /\ rc.kind # "none"
    BY <1>3 DEF OwnPulse, ControlInv, PointInv
  <2>2. out' = ToggledIn(out, rc.id)
    BY <1>3 DEF OwnPulse, Toggled, ToggledIn
  <2>3. out' \subseteq Own
    BY <1>1, <2>1, <2>2 DEF ToggledIn
  <2>4. CASE rc.pc = "own"
    <3>1. /\ rc' \in Controls /\ rc'.pc = "pulse" /\ rc'.kind = rc.kind /\ rc'.id = rc.id
          /\ rc'.want = rc.want /\ rc'.before = rc.before
      BY <1>1, <1>3, <2>4 DEF OwnPulse, Controls
    <3>2. out = rc.before
      BY <2>4 DEF ControlInv, PointInv
    <3>3. SwitchAttr(rc'.id) = "pulse"
      BY <2>1, <3>1
    <3>4. QED
      BY <1>1, <2>1, <2>2, <2>3, <3>1, <3>2, <3>3
         DEF ControlInv, ControlType, PointInv, RightDevice, AckMeansDone, Executed
  <2>5. CASE rc.pc = "pulse"
    <3>1. /\ rc' \in Controls /\ rc'.pc = "confirm" /\ rc'.kind = rc.kind /\ rc'.id = rc.id
          /\ rc'.want = rc.want /\ rc'.before = rc.before
      BY <1>1, <1>3, <2>5 DEF OwnPulse, Controls
    <3>2. out = ToggledIn(rc.before, rc.id)
      BY <2>5 DEF ControlInv, PointInv
    <3>3. out' = rc.before
      BY <2>2, <3>2 DEF ToggledIn
    <3>4. AckMeansDone'
      BY <2>1, <3>1, <3>3 DEF AckMeansDone, Executed, Definite, OwnRest
    <3>5. QED
      BY <1>1, <2>1, <2>3, <3>1, <3>4 DEF ControlInv, ControlType, PointInv, RightDevice
  <2>6. QED
    BY <1>3, <2>4, <2>5 DEF OwnPulse
<1>4. CASE OwnOther
  <2>1. rc' = Failed(rc) /\ out' = out /\ rc.kind # "none"
    BY <1>4 DEF OwnOther, ControlInv, PointInv
  <2>2. ControlType'
    BY <1>1, <2>1, FailedControl DEF ControlInv, ControlType
  <2>3. QED
    BY <1>1, <2>1, <2>2, FailedControl, Resting DEF ControlInv
<1>5. QED
  BY <1>2, <1>3, <1>4

LEMMA OperateControl ==
    ASSUME ControlInv, Operate
    PROVE  ControlInv'
<1>1. rc \in Controls /\ PointInv /\ rc.pc = "operate" /\ line' = "free" /\ addr' = addr /\ out' = out
  BY DEF ControlInv, ControlType, Operate
<1>2. PICK x \in Outcome(rc) : \E verdict \in Verdicts(x) :
        rc' = IF verdict = "ok" THEN [x EXCEPT !.pc = "confirm"] ELSE Failed(x)
  BY DEF Operate
<1>3. PICK verdict \in Verdicts(x) :
        rc' = IF verdict = "ok" THEN [x EXCEPT !.pc = "confirm"] ELSE Failed(x)
  BY <1>2
<1>4. /\ x \in Controls /\ x.kind = rc.kind /\ x.id = rc.id /\ x.want = rc.want
      /\ Definite => x.ret = "bad" \/ (x.ret = "ok" /\ x.coil = Rest)
  BY <1>1, OutcomeControl
<1>5. rc.kind # "none" /\ (rc.kind = "C_SE_NA" \/ rc.id \notin Own)
  BY <1>1 DEF PointInv
<1>6. CASE verdict # "ok"
  <2>1. rc' = Failed(x)
    BY <1>3, <1>6
  <2>2. ControlType'
    BY <1>1, <1>4, <2>1, FailedControl DEF ControlInv, ControlType
  <2>3. QED
    BY <1>4, <1>5, <2>1, <2>2, FailedControl, Resting DEF ControlInv
<1>7. CASE verdict = "ok"
  <2>1. rc' = [x EXCEPT !.pc = "confirm"]
    BY <1>3, <1>7
  <2>2. /\ rc' \in Controls /\ rc'.pc = "confirm" /\ rc'.kind = rc.kind /\ rc'.id = rc.id
        /\ rc'.want = rc.want /\ rc'.coil = x.coil
    BY <1>4, <2>1 DEF Controls
  <2>3. x.ret # "bad"
    BY <1>3, <1>7 DEF Verdicts
  <2>4. Definite' => Definite
    BY <2>2 DEF Definite
  <2>5. Definite => Rest' = Rest
    BY <2>2 DEF Rest
  <2>6. Definite' => rc'.coil = Rest'
    BY <1>4, <2>2, <2>3, <2>4, <2>5
  <2>7. AckMeansDone'
    BY <1>5, <2>2, <2>6 DEF AckMeansDone, Executed
  <2>8. QED
    BY <1>1, <1>5, <2>2, <2>7 DEF ControlInv, ControlType, PointInv, RightDevice
<1>8. QED
  BY <1>6, <1>7

LEMMA LockControl ==
    ASSUME ControlInv, Lock
    PROVE  ControlInv'
<1>1. rc \in Controls /\ rc.pc = "lock" /\ rc' = [rc EXCEPT !.pc = "operate"]
  BY DEF ControlInv, ControlType, Lock
<1>2. rc' \in Controls /\ rc'.pc = "operate" /\ rc'.kind = rc.kind /\ rc'.id = rc.id /\ rc'.want = rc.want
  BY <1>1 DEF Controls
<1>3. line' = "slave" /\ addr' = DevOf[rc.id] /\ out' = out
  BY DEF Lock
<1>4. QED
  BY <1>1, <1>2, <1>3 DEF ControlInv, ControlType, PointInv, RightDevice, AckMeansDone, Executed

LEMMA EndedControl ==
    ASSUME ControlInv, ~Idle, NEW x, Ended(x), UNCHANGED <<line, addr, out>>
    PROVE  ControlInv'
<1>1. rc \in Controls /\ rc.kind # "none"
  BY DEF ControlInv, ControlType, PointInv, Idle
<1>2. CASE rc' = NoControl
  <2>1. ControlType'
    BY <1>2, NoControlType DEF ControlInv, ControlType
  <2>2. QED
    BY <1>2, <2>1, NoControlType, Resting DEF ControlInv
<1>3. CASE rc' = [NoControl EXCEPT !.pc = "object", !.kind = rc.kind, !.n = rc.n, !.ret = rc.ret,
                                   !.i = rc.i + 1, !.item = rc.item + 1]
  <2>1. rc' \in Controls /\ rc'.pc = "object" /\ rc'.kind = rc.kind
    <3> DEFINE a == [NoControl EXCEPT !.pc = "object", !.kind = rc.kind, !.n = rc.n]
    <3>1. rc.ret \in {"junk", "ok", "bad"} /\ rc.n \in Int /\ rc.i + 1 \in Int /\ rc.item + 1 \in Int
      BY <1>1 DEF Controls
    <3>2. a \in Controls /\ a.pc = "object" /\ a.kind = rc.kind
      BY <1>1, <3>1, NoControlType DEF Controls
    <3>3. rc' = [a EXCEPT !.ret = rc.ret, !.i = rc.i + 1, !.item = rc.item + 1]
      BY <1>3
    <3> HIDE DEF a
    <3>4. QED
      BY <3>1, <3>2, <3>3 DEF Controls
  <2>2. ControlType'
    BY <2>1 DEF ControlInv, ControlType
  <2>3. QED
    BY <1>1, <2>1, <2>2, Resting DEF ControlInv
<1>4. QED
  BY <1>2, <1>3 DEF Ended

LEMMA ControlStep ==
    ASSUME ControlInv, [ControlNext]_allVars
    PROVE  ControlInv'
<1>1. CASE Elsewhere \/ UNCHANGED allVars
  <2>1. UNCHANGED rcVars
    BY <1>1 DEF Elsewhere, allVars, rcVars
  <2>2. rc' = rc /\ line' = line /\ addr' = addr /\ out' = out
    BY <2>1 DEF rcVars
  <2>3. AckMeansDone' <=> AckMeansDone
    BY <2>2 DEF AckMeansDone, Executed, Definite, Rest, OwnRest
  <2>4. QED
    BY <2>2, <2>3 DEF ControlInv, ControlType, PointInv, RightDevice
<1>2. ASSUME NEW kind \in {"C_SE_NA", "C_SC_NA", "C_DC_NA"}, ReadExecution(kind) PROVE ControlInv'
  <2>1. PICK n \in 1..MaxItems :
          rc' = [NoControl EXCEPT !.pc = "object", !.kind = kind, !.n = n, !.item = 1]
    BY <1>2 DEF ReadExecution
  <2>2. rc' \in Controls /\ rc'.pc = "object" /\ rc'.kind = kind
    <3>1. n \in Int
      OBVIOUS
    <3>2. rc'.pc = "object" /\ rc'.kind = kind
      BY <2>1 DEF NoControl
    <3> DEFINE b == [NoControl EXCEPT !.pc = "object"]
               c == [b EXCEPT !.kind = kind]
    <3>3. b \in Controls
      BY NoControlType DEF Controls
    <3> HIDE DEF b
    <3>4. c \in Controls
      BY <1>2, <3>3 DEF Controls
    <3> HIDE DEF c
    <3>5. rc' \in Controls
      <4>1. PICK one \in Int : one = 1
        OBVIOUS
      <4>2. [c EXCEPT !.n = n, !.item = one] \in Controls
        BY <3>1, <3>4 DEF Controls
      <4>3. [c EXCEPT !.n = n, !.item = 1] \in Controls
        BY <4>1, <4>2
      <4>4. QED
        BY <2>1, <4>3 DEF b, c
    <3>6. QED
      BY <3>2, <3>5
  <2>3. ControlType'
    BY <1>2, <2>2 DEF ReadExecution, ControlInv, ControlType
  <2>4. QED
    BY <2>2, <2>3, Resting DEF ControlInv
<1>3. CASE ObjectSelects
  <2>1. rc.pc = "object" /\ rc' = [rc EXCEPT !.pc = "confirm", !.id = NoId] /\ UNCHANGED <<line, addr, out>>
    BY <1>3 DEF ObjectSelects
  <2>2. rc' \in Controls /\ rc'.pc = "confirm" /\ rc'.id = NoId /\ rc'.kind = rc.kind
    BY <2>1 DEF ControlInv, ControlType, Controls
  <2>3. QED
    BY <2>1, <2>2 DEF ControlInv, ControlType, PointInv, RightDevice, AckMeansDone, Executed
<1>4. CASE Confirm \/ NextObject
  <2>1. ~Idle /\ UNCHANGED <<line, addr, out>> /\ \E x : Ended(x)
    BY <1>4 DEF Confirm, NextObject, Idle
  <2>2. QED
    BY <2>1, EndedControl
<1>5. CASE CollectTake \/ CollectSetAddress \/ CollectGive
  <2>1. /\ rc' = rc /\ out' = out /\ line # "slave" /\ line' \in {"collect", "free"}
    BY <1>5 DEF CollectTake, CollectSetAddress, CollectGive
  <2>2. rc.pc # "operate"
    BY <2>1 DEF ControlInv, RightDevice
  <2>3. QED
    BY <2>1, <2>2 DEF ControlInv, ControlType, PointInv, RightDevice, AckMeansDone, Executed,
                      Definite, Rest, OwnRest
<1>6. QED
  BY <1>1, <1>2, <1>3, <1>4, <1>5, ObjectControl, OwnControl, OperateControl, LockControl
     DEF ControlNext, OnRead, ReadSetPoint, ReadSingle, ReadDouble

-----------------------------------------------------------------------------
LEMMA InitIInv == ControlInit => IInv
<1> SUFFICES ASSUME ControlInit PROVE IInv
  OBVIOUS
<1>1. s = Fresh /\ peer = NewPeer /\ rc = NoControl /\ line = "free" /\ out = Own
  BY DEF ControlInit, Init
<1>2. /\ Fresh \in Slaves /\ Fresh.mem = "none" /\ Unused(Fresh)
  BY Modulus DEF Fresh, Slaves, Unused
<1>3. PairInv([st |-> Fresh, p |-> NewPeer]) /\ Settled([st |-> Fresh, p |-> NewPeer])
  BY <1>2, Emptied, Paired DEF Settled
<1>4. PairInv(Here) /\ Settled(Here)
  BY <1>1, <1>3 DEF Here
<1>5. ControlType /\ rc.pc = "idle"
  BY <1>1, NoControlType DEF ControlType
<1>6. PointInv /\ RightDevice
  BY <1>5 DEF PointInv, RightDevice, AckMeansDone, Executed
<1>7. QED
  BY <1>4, <1>5, <1>6 DEF IInv, Idle

LEMMA IInvStep == IInv /\ [ControlNext]_allVars => IInv'
<1> SUFFICES ASSUME IInv, [ControlNext]_allVars PROVE IInv'
  OBVIOUS
<1>1. SlaveInv /\ ControlInv
  BY DEF IInv, SlaveInv, ControlInv
<1>2. SlaveInv'
  BY <1>1, SlaveStep DEF ControlInv
<1>3. ControlInv'
  BY <1>1, ControlStep
<1>4. QED
  BY <1>2, <1>3 DEF IInv, SlaveInv, ControlInv

LEMMA Invariance == ControlSpec => []IInv
BY InitIInv, IInvStep, PTL DEF ControlSpec

(* The peer never finds a gap in the numbers of the I frames: on_write and  *)
(* STARTDT are the only ones that change SendNum, whatever they interleave  *)
(* with.                                                                    *)
THEOREM NumbersConsecutive == ControlSpec => []Consecutive
<1>1. IInv => Consecutive
  BY DEF IInv, PairInv, Here, Consecutive
<1>2. QED
  BY <1>1, Invariance, PTL

(* Between two controls at most MAX_W I frames wait for an acknowledgement, *)
(* for every width of `w' and of the numbers, although `w' wraps.           *)
THEOREM AckedInTime == ControlSpec => []AckedBetweenControls
<1>1. ASSUME IInv, Idle, s.mem = "live", ~peer.missed PROVE Unacknowledged <= MAX_W
  <2>1. s \in Slaves /\ peer \in Peers /\ Known(s, peer) /\ (s.is_send_sframe => s.w < MAX_W)
    BY <1>1, Parts DEF IInv, Here, Settled
  <2>2. /\ s.w \in Int /\ s.RecvNum \in 0..(NUM_MOD - 1) /\ peer.ack \in 0..(NUM_MOD - 1)
        /\ NUM_MOD \in Nat /\ NUM_MOD > 0 /\ MAX_W \in Nat
    BY <2>1, Modulus DEF Slaves, Peers
  <2>3. Waiting(s, peer) \in Nat
    BY <2>2, Wrapped DEF Waiting
  <2>4. CASE s.is_send_sframe
    BY <2>1, <2>2, <2>3, <2>4, WaitBound DEF Known, Unacknowledged, Waiting
  <2>5. CASE ~s.is_send_sframe
    <3>1. Waiting(s, peer) = 0
      BY <2>1, <2>2, <2>5, WrappedDifference DEF Known, Waiting
    <3>2. QED
      BY <2>2, <3>1, WaitBound DEF Unacknowledged, Waiting
  <2>6. QED
    BY <2>4, <2>5
<1>2. IInv => AckedBetweenControls
  BY <1>1 DEF AckedBetweenControls, UnackedBound
<1>3. QED
  BY <1>2, Invariance, PTL

(* The requests of a control go to the device of its point: the address is  *)
(* written under the mutex, and the collecting thread writes its own only   *)
(* while it holds it.                                                       *)
THEOREM ControlsRightDevice == ControlSpec => []RightDevice
<1>1. IInv => RightDevice
  BY DEF IInv
<1>2. QED
  BY <1>1, Invariance, PTL

(* "Execution confirmed" is only sent for a command that was carried out,   *)
(* for every set of outputs, of devices and of TYPEs, and every number of   *)
(* tries.                                                                   *)
THEOREM ConfirmedIsDone == ControlSpec => []AckMeansDone
<1>1. IInv => AckMeansDone
  BY DEF IInv, PointInv
<1>2. QED
  BY <1>1, Invariance, PTL
=============================================================================
