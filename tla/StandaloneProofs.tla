--------------------------- MODULE StandaloneProofs ---------------------------
(***************************************************************************)
(* Proofs about three programs that stand alone: the self-check thread of  *)
(* the collector (SelfCheck), the GSM dialler (GsmDialler) and the client  *)
(* library (WcxClient), for all values of their constants.                 *)
(*                                                                         *)
(* GsmDialler: that two pppds never run at once rests on the second look:  *)
(* killall asks them to end, and when the shell is called for another,     *)
(* every pppd has been found gone or killed.  The shell that has not       *)
(* started its pppd yet counts as one; until it has, no second of the      *)
(* program's wait passes, so the next look cannot come before.             *)
(*                                                                         *)
(* WcxClient: no number the client keeps or sends for its acknowledgements *)
(* ever exceeds what it has received, on this connection or on the one a   *)
(* frame was built for.                                                    *)
(*                                                                         *)
(* SelfCheck: that a pass reports each tag once is an invariant of the     *)
(* loop over the tags: what has been reported or was silent are the tags   *)
(* behind the index, and the index never stands within the block of inputs *)
(* and outputs, except on its last tag, where the fall-through from the    *)
(* inputs to the outputs leaves it.                                        *)
(***************************************************************************)
EXTENDS SelfCheck, GsmDialler, WcxClient, FiniteSetTheorems, TLAPS

-----------------------------------------------------------------------------
(* The dialler. *)

(* At most one pppd; none while the shell is about to start one, or when it *)
(* is called.                                                              *)
AtMostOne == \A p, q \in pppds : p = q

DialInv ==
    /\ shell \in BOOLEAN
    /\ AtMostOne
    /\ shell => /\ pppds = {}
                /\ \/ at = "log" /\ left = LogWait
                   \/ at = "last" /\ left = LastWait
    /\ at = "kill" => found \/ pppds = {}
    /\ at = "call" => pppds = {}

(* At first no pppd runs. *)
LEMMA InitDialInv == DialInit => DialInv
BY DEF DialInit, DialInv, AtMostOne

(* A pppd that changes remains the only one. *)
LEMMA StillOne ==
    ASSUME DialInv, NEW p \in pppds, NEW dial, Becomes(p, dial)
    PROVE  AtMostOne' /\ pppds # {}
BY DEF DialInv, AtMostOne, Becomes

(* What pppd and the shell do. *)
LEMMA PppdStep ==
    ASSUME DialInv, StartPppd \/ PppdConnected \/ Drop \/ Exits
    PROVE  DialInv'
<1> USE DEF DialInv
<1>1. CASE StartPppd
  <2>1. shell /\ pppds = {} /\ shell' = FALSE /\ UNCHANGED <<at, left, found>>
    BY <1>1 DEF StartPppd
  <2>2. \E dial : NewPppd(dial)
    BY <1>1 DEF StartPppd
  <2>3. AtMostOne'
    BY <2>1, <2>2 DEF NewPppd, AtMostOne
  <2>4. at \in {"log", "last"}
    BY <2>1
  <2>5. QED
    BY <2>1, <2>3, <2>4
<1>2. CASE PppdConnected \/ Drop \/ Exits
  <2>1. UNCHANGED <<at, left, found, shell>>
    BY <1>2 DEF PppdConnected, Drop, Exits
  <2>2. pppds # {} /\ AtMostOne'
    <3>1. CASE PppdConnected
      BY <3>1, StillOne DEF PppdConnected
    <3>2. CASE Drop
      BY <3>2, StillOne DEF Drop, AtMostOne
    <3>3. CASE Exits
      BY <3>3 DEF Exits, AtMostOne
    <3>4. QED
      BY <1>2, <3>1, <3>2, <3>3
  <2>3. pppds' = {} \/ at # "kill" \/ found
    BY <2>2
  <2>4. QED
    BY <2>1, <2>2, <2>3
<1>3. QED
  BY <1>1, <1>2

(* What the program does. *)
LEMMA ProgramStep ==
    ASSUME DialInv, Program
    PROVE  DialInv'
<1> USE DEF DialInv, At, Goto, LogWait, LastWait
<1>1. CASE Tick
  <2>1. ~shell /\ UNCHANGED <<at, found, shell>>
        /\ pppds' = {[p EXCEPT !.dial = IF @ > 0 THEN @ - 1 ELSE @] : p \in pppds}
    BY <1>1 DEF Tick
  <2>2. AtMostOne'
    BY <2>1 DEF AtMostOne
  <2>3. pppds = {} => pppds' = {}
    BY <2>1
  <2>4. QED
    BY <2>1, <2>2, <2>3
<1>2. CASE is_online
  BY <1>2 DEF is_online, AtMostOne, Online
<1>3. CASE Killall
  <2>1. /\ at = "dial" /\ at' = "term" /\ shell' = shell
        /\ pppds' = {[p EXCEPT !.term = TRUE] : p \in pppds}
    BY <1>3 DEF Killall
  <2>2. AtMostOne'
    BY <2>1 DEF AtMostOne
  <2>3. QED
    BY <2>1, <2>2
<1>4. CASE Pidof
  BY <1>4 DEF Pidof, AtMostOne
<1>5. CASE Kill
  BY <1>5 DEF Kill, AtMostOne
<1>6. CASE Call
  BY <1>6 DEF Call, AtMostOne
<1>7. CASE AddressFound \/ NoAddress \/ GivesUp
  BY <1>7 DEF AddressFound, NoAddress, GivesUp, AtMostOne
<1>8. CASE LastTest \/ Again
  BY <1>8 DEF LastTest, Again, AtMostOne, Online
<1>9. QED
  BY <1>1, <1>2, <1>3, <1>4, <1>5, <1>6, <1>7, <1>8 DEF Program

LEMMA DialStep == DialInv /\ [DialNext]_dialVars => DialInv'
<1>1. ASSUME DialInv, UNCHANGED dialVars PROVE DialInv'
  BY <1>1 DEF dialVars, DialInv, AtMostOne
<1>2. QED
  BY <1>1, PppdStep, ProgramStep DEF DialNext

(* At most one element means at most one in number. *)
LEMMA OneAtMost == DialInv => OnePppd
<1> SUFFICES ASSUME DialInv PROVE OnePppd
  OBVIOUS
<1>1. CASE pppds = {}
  <2>1. Cardinality(pppds) = 0
    BY <1>1, FS_EmptySet
  <2>2. QED
    BY <1>1, <2>1 DEF OnePppd, DialInv
<1>2. CASE pppds # {}
  <2>1. PICK p \in pppds : pppds = {p}
    BY <1>2 DEF DialInv, AtMostOne
  <2>2. Cardinality(pppds) = 1
    BY <2>1, FS_Singleton
  <2>3. ~shell
    BY <1>2 DEF DialInv
  <2>4. QED
    BY <2>2, <2>3 DEF OnePppd
<1>3. QED
  BY <1>1, <1>2

(* Two pppds never have the modem at once (gsm_connect's killall, pidof and *)
(* kill -9), whatever a pppd does and however long it takes.                *)
THEOREM OnePppdEver == DialSpec => []OnePppd
BY InitDialInv, DialStep, OneAtMost, PTL DEF DialSpec

-----------------------------------------------------------------------------
(* The client. *)

(* What the client keeps, sends and is about to send for its                *)
(* acknowledgements is never more than it has received.                     *)
(* What the client keeps, sends and is about to send for its                *)
(* acknowledgements is never more than it has received.                     *)
NumbersTrue ==
    /\ got \in Nat /\ said \in Nat /\ RecvNum \in Nat /\ SendBuf.nr \in Nat
    /\ said <= got /\ RecvNum <= got /\ SendBuf.nr <= got

LEMMA InitNumbers == ClientInit => NumbersTrue
BY DEF ClientInit, NumbersTrue

(* A new connection starts both counts anew, and its login frame takes the  *)
(* place of whatever was built before.                                      *)
LEMMA ClientStep == NumbersTrue /\ [ClientNext]_clientVars => NumbersTrue'
<1> SUFFICES ASSUME NumbersTrue, [ClientNext]_clientVars PROVE NumbersTrue'
  OBVIOUS
<1> USE DEF NumbersTrue, frame, numbers
<1>1. CASE UNCHANGED clientVars
  BY <1>1 DEF clientVars
<1>2. CASE OnTimerConnect
  BY <1>2 DEF OnTimerConnect, SocketFails, ConnectFails, Connected,
     Stamped
<1>3. CASE OnRead
  BY <1>3 DEF OnRead, Reading, Received, Counted, ReadFailed,
     ReadIgnored, ReadStartDtAct, ReadStartDtCon, ReadTestAct,
     ReadIAck, ReadILater, Build, Stamped
<1>4. CASE OnWrite \/ WriteAgain
  BY <1>4 DEF OnWrite, WriteAgain, WriteDone, WriteFails, WritePipe
<1>5. CASE OnTimerTframe \/ OnTimerSframe
  BY <1>5 DEF OnTimerTframe, OnTimerSframe, Build, Stamped
<1>6. CASE UserCommand \/ Control
  BY <1>6 DEF UserCommand, Control, UserBuilds, Build, Stamped
<1>7. QED
  BY <1>1, <1>2, <1>3, <1>4, <1>5, <1>6 DEF ClientNext

(* The client never acknowledges a frame it has not received on this        *)
(* connection (the S frame and the number of every I frame it sends),       *)
(* whatever the server sends, the calls of the user and the socket do.      *)
THEOREM ClientAcksTruthfully == ClientSpec => []AckTruthful
<1>1. NumbersTrue => AckTruthful
  BY DEF NumbersTrue, AckTruthful
<1>2. QED
  BY <1>1, InitNumbers, ClientStep, PTL DEF ClientSpec

-----------------------------------------------------------------------------
(* The self-check. *)

Last == KAICU_0 + 3
Samples == [tag : Nat, of : Nat]

Types ==
    /\ Tag \in Seq(Nat)
    /\ pc \in {"none", "pass", "item", "lock", "read", "end"}
    /\ i \in Nat \ {0}
    /\ value \in Nat
    /\ pushed \in Seq(Samples)
    /\ silent \subseteq Nat

(* The tags of some samples; none has two; each is a reading of its own.    *)
TagsOf(s) == {s[n].tag : n \in 1..Len(s)}
Once(s) == \A m, n \in 1..Len(s) : s[m].tag = s[n].tag => m = n
Own(s) == \A n \in 1..Len(s) : s[n].of = s[n].tag \/ s[n].tag = BATTERY_IN

(* The tags that this pass is done with: those behind the index, and the    *)
(* last output when the index was left on it.                               *)
Done == {n \in 1..Len(Tag) : n < i \/ (n = i /\ Tag[n] = Last)}
Seen == {Tag[n] : n \in Done}

PassInv ==
    /\ i <= Len(Tag) => Tag[i] \notin KAIRU_0 + 1..Last - 1
    /\ Once(pushed) /\ Own(pushed)
    /\ silent \subseteq Seen
    /\ TagsOf(pushed) = (Seen \cap (POWER_TYPE..Last)) \ silent
    /\ pc # "item" => i <= Len(Tag) /\ Tag[i] = TEMPERATURE

Regular == Whole /\ NoneTwice
InPass == pc \in {"item", "lock", "read"}

IInv == Types /\ (Regular /\ InPass => PassInv)

(* The numbers of the tags are what matters of their names.                 *)
USE DEF POWER_TYPE, TEMPERATURE, NETTYPE, QUALITY, NETSUPPLY, BATTERY_IN, KAIRU_0, KAICU_0, Last,
        Inputs, Outputs

-----------------------------------------------------------------------------
(* Sequences of samples.                                                    *)

(* One more sample, of a tag that has none yet.                             *)
LEMMA SampleAdded ==
    ASSUME NEW s \in Seq(Samples), Once(s), Own(s), NEW t \in Nat, NEW o \in Nat,
           t \notin TagsOf(s), o = t \/ t = BATTERY_IN
    PROVE  LET r == Append(s, Sample(t, o)) IN
           r \in Seq(Samples) /\ Once(r) /\ Own(r) /\ TagsOf(r) = TagsOf(s) \cup {t}
<1> DEFINE r == Append(s, Sample(t, o))
<1>1. Sample(t, o) \in Samples /\ Sample(t, o).tag = t /\ Sample(t, o).of = o
  BY DEF Sample, Samples
<1>2. /\ r \in Seq(Samples) /\ Len(r) = Len(s) + 1 /\ Len(s) \in Nat
      /\ \A n \in 1..Len(s) : r[n] = s[n]
      /\ r[Len(s) + 1] = Sample(t, o)
  BY <1>1
<1> HIDE DEF r
<1>3. Once(r)
  BY <1>1, <1>2 DEF Once, TagsOf
<1>4. Own(r)
  BY <1>1, <1>2 DEF Own
<1>5. TagsOf(r) = TagsOf(s) \cup {t}
  BY <1>1, <1>2 DEF TagsOf
<1>6. QED
  BY <1>2, <1>3, <1>4, <1>5 DEF r

(* A block of them.                                                         *)
LEMMA BlockAdded ==
    ASSUME NEW s \in Seq(Samples), Once(s), Own(s), NEW first \in Nat, NEW k \in Nat,
           TagsOf(s) \cap (first..first + k - 1) = {}
    PROVE  LET r == s \o Block(first, k) IN
           r \in Seq(Samples) /\ Once(r) /\ Own(r) /\ TagsOf(r) = TagsOf(s) \cup (first..first + k - 1)
<1> DEFINE b == Block(first, k)
           r == s \o b
           l == Len(s)
<1>1. /\ b \in Seq(Samples) /\ Len(b) = k
      /\ \A n \in 1..k : b[n].tag = first + n - 1 /\ b[n].of = first + n - 1
  <2>1. b = [n \in 1..k |-> Sample(first + n - 1, first + n - 1)]
    BY DEF Block
  <2>2. \A n \in 1..k : Sample(first + n - 1, first + n - 1) \in Samples
    BY DEF Sample, Samples
  <2> HIDE DEF b
  <2>3. b \in [1..k -> Samples]
    BY <2>1, <2>2
  <2>4. \A n \in 1..k : b[n].tag = first + n - 1 /\ b[n].of = first + n - 1
    BY <2>1 DEF Sample
  <2>5. QED
    BY <2>3, <2>4
<1>2. r \in Seq(Samples) /\ Len(r) = l + Len(b) /\ l \in Nat
  <2> HIDE DEF b
  <2>1. b \in Seq(Samples)
    BY <1>1
  <2>2. QED
    BY <2>1
<1>3. \A n \in 1..l : r[n] = s[n]
  <2> HIDE DEF b
  <2>1. b \in Seq(Samples)
    BY <1>1
  <2>2. QED
    BY <2>1
<1>4. \A n \in 1..Len(b) : r[l + n] = b[n]
  <2> HIDE DEF b
  <2>1. b \in Seq(Samples)
    BY <1>1
  <2>2. QED
    BY <2>1
<1> HIDE DEF r, b, l
<1>5. Len(r) = l + k /\ \A n \in 1..k : r[l + n].tag = first + n - 1 /\ r[l + n].of = first + n - 1
  BY <1>1, <1>2, <1>4
<1>6. \A n \in l + 1..l + k : r[n].tag = first + (n - l) - 1 /\ r[n].of = r[n].tag
  <2> SUFFICES ASSUME NEW n \in l + 1..l + k
               PROVE  r[n].tag = first + (n - l) - 1 /\ r[n].of = r[n].tag
    OBVIOUS
  <2>1. n - l \in 1..k /\ l + (n - l) = n
    BY <1>2
  <2>2. QED
    BY <1>5, <2>1
<1>7. \A n \in 1..l : r[n].tag \notin first..first + k - 1
  BY <1>3 DEF TagsOf, l
<1>8. \A n \in l + 1..l + k : r[n].tag \in first..first + k - 1
  BY <1>2, <1>6
<1>9. Once(r)
  <2> SUFFICES ASSUME NEW m \in 1..l + k, NEW n \in 1..l + k, r[m].tag = r[n].tag PROVE m = n
    BY <1>5 DEF Once
  <2>1. CASE m <= l /\ n <= l
    <3>1. m \in 1..l /\ n \in 1..l
      BY <2>1, <1>2
    <3>2. s[m].tag = s[n].tag
      BY <3>1, <1>3
    <3>3. QED
      BY <3>1, <3>2 DEF Once, l
  <2>2. CASE (m <= l) # (n <= l)
    <3>1. (m \in 1..l /\ n \in l + 1..l + k) \/ (n \in 1..l /\ m \in l + 1..l + k)
      BY <2>2, <1>2
    <3>2. QED
      BY <3>1, <1>7, <1>8
  <2>3. CASE m > l /\ n > l
    <3>1. m \in l + 1..l + k /\ n \in l + 1..l + k
      BY <2>3, <1>2
    <3>2. first + (m - l) - 1 = first + (n - l) - 1
      BY <3>1, <1>6
    <3>3. QED
      BY <3>2, <1>2
  <2>4. QED
    BY <2>1, <2>2, <2>3, <1>2
<1>10. Own(r)
  <2> SUFFICES ASSUME NEW n \in 1..l + k PROVE r[n].of = r[n].tag \/ r[n].tag = BATTERY_IN
    BY <1>5 DEF Own
  <2>1. CASE n <= l
    <3>1. n \in 1..l
      BY <2>1, <1>2
    <3>2. QED
      BY <3>1, <1>3 DEF Own, l
  <2>2. CASE n > l
    <3>1. n \in l + 1..l + k
      BY <2>2, <1>2
    <3>2. QED
      BY <3>1, <1>6
  <2>3. QED
    BY <2>1, <2>2, <1>2
<1>11. TagsOf(r) = TagsOf(s) \cup (first..first + k - 1)
  <2>1. ASSUME NEW t \in TagsOf(r) PROVE t \in TagsOf(s) \cup (first..first + k - 1)
    <3>1. PICK n \in 1..l + k : t = r[n].tag
      BY <1>5 DEF TagsOf
    <3>2. n \in 1..l \/ n \in l + 1..l + k
      BY <1>2
    <3>3. CASE n \in 1..l
      BY <3>1, <3>3, <1>3 DEF TagsOf, l
    <3>4. CASE n \in l + 1..l + k
      BY <3>1, <3>4, <1>8
    <3>5. QED
      BY <3>2, <3>3, <3>4
  <2>2. ASSUME NEW t \in TagsOf(s) PROVE t \in TagsOf(r)
    <3>1. PICK n \in 1..l : t = s[n].tag
      BY DEF TagsOf, l
    <3>2. n \in 1..l + k /\ t = r[n].tag
      BY <3>1, <1>2, <1>3
    <3>3. QED
      BY <3>2, <1>5 DEF TagsOf
  <2>3. ASSUME NEW t \in first..first + k - 1 PROVE t \in TagsOf(r)
    <3>1. t - first + 1 \in 1..k /\ first + (t - first + 1) - 1 = t /\ l + (t - first + 1) \in 1..l + k
      BY <1>2
    <3>2. r[l + (t - first + 1)].tag = t
      BY <3>1, <1>5
    <3>3. QED
      BY <3>1, <3>2, <1>5 DEF TagsOf
  <2>4. QED
    BY <2>1, <2>2, <2>3
<1>12. QED
  BY <1>2, <1>9, <1>10, <1>11 DEF r, b

(* As many samples as tags.                                                 *)
LEMMA OnceCounts ==
    ASSUME NEW s \in Seq(Samples), Once(s)
    PROVE  Len(s) = Cardinality(TagsOf(s))
<1> DEFINE f == [n \in 1..Len(s) |-> s[n].tag]
<1>1. Len(s) \in Nat
  OBVIOUS
<1>2. f \in Bijection(1..Len(s), TagsOf(s))
  BY DEF Once, TagsOf, Bijection, Injection, Surjection, IsInjective
<1>3. ExistsBijection(1..Len(s), TagsOf(s))
  BY <1>2 DEF ExistsBijection
<1>4. IsFiniteSet(1..Len(s)) /\ Cardinality(1..Len(s)) = Len(s)
  BY <1>1, FS_Interval
<1>5. QED
  BY <1>3, <1>4, FS_Bijection

-----------------------------------------------------------------------------
(* Moving along the list.                                                   *)

(* What Whole says, without the names.                                      *)
LEMMA WholeList ==
    ASSUME Types, Whole, NEW n \in 1..Len(Tag), Tag[n] \in 7..28
    PROVE  LET first == n - (Tag[n] - 7) IN
           first >= 1 /\ first + 21 <= Len(Tag) /\ \A k \in 0..21 : Tag[first + k] = 7 + k
<1>1. n \in DOMAIN Tag
  BY DEF Types
<1>2. Tag[n] \in Inputs \cup Outputs
  <2>1. 7 + 17 = 24 /\ 25 + 3 = 28
    OBVIOUS
  <2>2. QED
    BY <2>1
<1>3. QED
  BY <1>1, <1>2 DEF Whole

(* In a regular list a tag inside the block has its neighbour before it.    *)
LEMMA Neighbour ==
    ASSUME Types, Whole, NEW n \in 1..Len(Tag), Tag[n] \in 8..28
    PROVE  n - 1 \in 1..Len(Tag) /\ Tag[n - 1] = Tag[n] - 1
<1> DEFINE t == Tag[n]
           first == n - (t - 7)
           l == Len(Tag)
<1>1. t \in 8..28 /\ n \in 1..l /\ l \in Nat
  BY DEF Types
<1>2. first >= 1 /\ first + 21 <= l /\ \A k \in 0..21 : Tag[first + k] = 7 + k
  <2>1. Tag[n] \in 7..28
    OBVIOUS
  <2>2. QED
    BY <2>1, WholeList
<1> HIDE DEF t, l
<1>3. t - 8 \in 0..21 /\ first + (t - 8) = n - 1 /\ 7 + (t - 8) = t - 1
  BY <1>1
<1>4. n - 1 \in 1..l
  <2>1. n - (t - 7) >= 1
    BY <1>2
  <2>2. QED
    BY <1>1, <2>1
<1> HIDE DEF first
<1>5. Tag[n - 1] = t - 1
  <2>1. Tag[first + (t - 8)] = 7 + (t - 8)
    BY <1>2, <1>3
  <2>2. QED
    BY <2>1, <1>3
<1>6. QED
  BY <1>4, <1>5 DEF t, l

(* To the next tag.                                                         *)
LEMMA NextTag ==
    ASSUME Types, Regular, PassInv, i <= Len(Tag), Tag[i] # KAIRU_0,
           Tag' = Tag, i' = i + 1
    PROVE  /\ i' <= Len(Tag') => Tag'[i'] \notin KAIRU_0 + 1..Last - 1
           /\ Seen' = Seen \cup {Tag[i]}
           /\ Tag[i] # Last => Tag[i] \notin Seen
<1> DEFINE l == Len(Tag)
<1>1. i \in Nat /\ i >= 1 /\ i <= l /\ l \in Nat
  BY DEF Types
<1>2. Tag[i] \notin 7..27
  <2>1. Tag[i] \notin 8..27
    BY DEF PassInv
  <2>2. QED
    BY <2>1
<1>3. i + 1 <= l => Tag[i + 1] \notin 8..28
  <2> SUFFICES ASSUME i + 1 <= l, Tag[i + 1] \in 8..28 PROVE FALSE
    OBVIOUS
  <2>1. i + 1 \in 1..l /\ (i + 1) - 1 = i
    BY <1>1
  <2>2. Tag[i] = Tag[i + 1] - 1
    BY <2>1, Neighbour DEF Regular
  <2>3. Tag[i] \in 7..27
    BY <2>2
  <2>4. QED
    BY <2>3, <1>2
<1>4. Done' = Done \cup {i}
  BY <1>1, <1>3 DEF Done
<1>5. Seen' = Seen \cup {Tag[i]}
  BY <1>4 DEF Seen
<1>6. Tag[i] # Last => Tag[i] \notin Seen
  <2> SUFFICES ASSUME Tag[i] # 28, NEW n \in Done, Tag[n] = Tag[i] PROVE FALSE
    BY DEF Seen
  <2>1. n \in 1..l /\ n < i
    BY <1>1 DEF Done
  <2>2. n \in DOMAIN Tag /\ i \in DOMAIN Tag
    BY <1>1, <2>1 DEF Types
  <2>3. n = i
    BY <2>2 DEF Regular, NoneTwice
  <2>4. QED
    BY <2>1, <2>3, <1>1
<1>7. i' <= Len(Tag') => Tag'[i'] \notin KAIRU_0 + 1..Last - 1
  BY <1>3
<1>8. QED
  BY <1>5, <1>6, <1>7

(* Over the block, to its last tag.                                         *)
LEMMA OverBlock ==
    ASSUME Types, Regular, i <= Len(Tag), Tag[i] = KAIRU_0,
           Tag' = Tag, i' = i + 21
    PROVE  /\ Tag'[i'] = Last
           /\ Seen' = Seen \cup (KAIRU_0..Last)
           /\ Seen \cap (KAIRU_0..Last) = {}
<1> DEFINE l == Len(Tag)
<1>1. i \in Nat /\ i >= 1 /\ i <= l /\ l \in Nat
  BY DEF Types
<1>2. i + 21 <= l /\ \A k \in 0..21 : Tag[i + k] = 7 + k
  <2>1. i \in 1..l /\ Tag[i] \in 7..28
    BY <1>1
  <2>2. i - (Tag[i] - 7) = i
    BY <1>1
  <2>3. QED
    BY <2>1, <2>2, WholeList DEF Regular
<1>3. ASSUME NEW n \in i..i + 21 PROVE n \in 1..l /\ Tag[n] = 7 + (n - i)
  <2>1. i + 21 <= l
    BY <1>2
  <2>2. n - i \in 0..21 /\ i + (n - i) = n /\ n \in 1..l
    <3> HIDE DEF l
    <3>1. QED
      BY <1>1, <2>1
  <2>3. Tag[i + (n - i)] = 7 + (n - i)
    BY <1>2, <2>2
  <2>4. QED
    BY <2>2, <2>3
<1>4. Tag[i + 21] = 28
  BY <1>2
<1>5. Done' = Done \cup (i..i + 21)
  <2> DEFINE j == i + 21
  <2>1. /\ Done = {n \in 1..l : n < i \/ (n = i /\ Tag[n] = 28)}
        /\ Done' = {n \in 1..l : n < j \/ (n = j /\ Tag[n] = 28)}
    BY DEF Done
  <2>2. j <= l /\ j = i + 21 /\ Tag[j] = 28
    BY <1>2, <1>4
  <2> HIDE DEF l, j
  <2>3. QED
    BY <1>1, <2>1, <2>2
<1>6. {Tag[n] : n \in i..i + 21} = 7..28
  <2>1. ASSUME NEW n \in i..i + 21 PROVE Tag[n] \in 7..28
    <3>1. n - i \in 0..21
      BY <1>1
    <3>2. Tag[n] = 7 + (n - i)
      BY <1>3
    <3>3. 7 + (n - i) \in 7..28
      <4> DEFINE d == n - i
      <4>1. d \in 0..21
        BY <3>1
      <4> HIDE DEF d
      <4>2. 7 + d \in 7..28
        BY <4>1
      <4>3. QED
        BY <4>2 DEF d
    <3>4. QED
      BY <3>2, <3>3
  <2>2. ASSUME NEW t \in 7..28 PROVE \E n \in i..i + 21 : Tag[n] = t
    <3>1. i + (t - 7) \in i..i + 21 /\ t - 7 \in 0..21 /\ 7 + (t - 7) = t
      BY <1>1
    <3>2. Tag[i + (t - 7)] = t
      BY <1>2, <3>1
    <3>3. QED
      BY <3>1, <3>2
  <2>3. QED
    BY <2>1, <2>2
<1>7. Seen' = Seen \cup (7..28)
  BY <1>5, <1>6 DEF Seen
<1>8. Seen \cap (7..28) = {}
  <2> SUFFICES ASSUME NEW n \in Done, Tag[n] \in 7..28 PROVE FALSE
    BY DEF Seen
  <2>1. n \in 1..l /\ n < i
    BY <1>1 DEF Done
  <2>2. PICK m \in i..i + 21 : Tag[m] = Tag[n]
    BY <1>6
  <2>3. m \in DOMAIN Tag /\ n \in DOMAIN Tag
    BY <1>3, <2>1 DEF Types
  <2>4. m = n
    BY <2>2, <2>3 DEF Regular, NoneTwice
  <2>5. QED
    BY <2>1, <2>4, <1>1
<1>9. QED
  BY <1>4, <1>7, <1>8

(* What is reported, of the tags seen in a range and not silent, when more  *)
(* is seen: one tag, or the inputs I silent and the outputs O.              *)
LEMMA ReportedToo ==
    ASSUME NEW A, NEW B, NEW R, NEW S, NEW t, A = (B \cap R) \ S, t \in R, t \notin S
    PROVE  A \cup {t} = ((B \cup {t}) \cap R) \ S
OBVIOUS

LEMMA OutputsReported ==
    ASSUME NEW A, NEW B, NEW R, NEW S, NEW I, NEW O, A = (B \cap R) \ S,
           I \subseteq R, O \subseteq R, I \cap O = {}, B \cap I = {}, S \cap O = {}
    PROVE  A \cup O = ((B \cup (I \cup O)) \cap R) \ (S \cup I)
OBVIOUS

(* One tag below the block is reported, or passed over as silent.           *)
LEMMA OneTag ==
    ASSUME Types, Regular, PassInv, Tag' = Tag, i <= Len(Tag), Tag[i] \in POWER_TYPE..BATTERY_IN,
           i' = i + 1, pc' = "item",
           \/ /\ silent' = silent
              /\ \E o \in Nat : /\ o = Tag[i] \/ Tag[i] = BATTERY_IN
                                /\ pushed' = Append(pushed, Sample(Tag[i], o))
           \/ silent' = silent \cup {Tag[i]} /\ pushed' = pushed
    PROVE  PassInv' /\ pushed' \in Seq(Samples)
<1>1. /\ i' <= Len(Tag') => Tag'[i'] \notin KAIRU_0 + 1..Last - 1
      /\ Seen' = Seen \cup {Tag[i]}
      /\ Tag[i] \notin Seen
  BY NextTag
<1>2. Tag[i] \notin silent /\ Tag[i] \notin TagsOf(pushed)
  BY <1>1 DEF PassInv
<1>3. CASE silent' = silent \cup {Tag[i]} /\ pushed' = pushed
  <2>1. pushed' \in Seq(Samples)
    BY <1>3 DEF Types
  <2>2. silent' \subseteq Seen'
    BY <1>1, <1>3 DEF PassInv
  <2>3. TagsOf(pushed') = (Seen' \cap (POWER_TYPE..Last)) \ silent'
    BY <1>1, <1>2, <1>3 DEF PassInv
  <2>4. QED
    BY <1>1, <1>3, <2>1, <2>2, <2>3 DEF PassInv
<1>4. ASSUME NEW o \in Nat, silent' = silent, o = Tag[i] \/ Tag[i] = BATTERY_IN,
             pushed' = Append(pushed, Sample(Tag[i], o))
      PROVE  PassInv' /\ pushed' \in Seq(Samples)
  <2>1. Once(pushed) /\ Own(pushed)
    BY DEF PassInv
  <2>2. pushed \in Seq(Samples)
    BY DEF Types
  <2>3. Tag[i] \in Nat /\ Tag[i] \in 1..28
    OBVIOUS
  <2>4. /\ pushed' \in Seq(Samples) /\ Once(pushed') /\ Own(pushed')
        /\ TagsOf(pushed') = TagsOf(pushed) \cup {Tag[i]}
    BY <1>2, <1>4, <2>1, <2>2, <2>3, SampleAdded
  <2>5. TagsOf(pushed') = (Seen' \cap (POWER_TYPE..Last)) \ silent'
    <3>1. TagsOf(pushed) = (Seen \cap (1..28)) \ silent
      BY DEF PassInv
    <3>2. TagsOf(pushed') = TagsOf(pushed) \cup {Tag[i]}
      BY <2>4
    <3>3. TagsOf(pushed) \cup {Tag[i]} = ((Seen \cup {Tag[i]}) \cap (1..28)) \ silent
      BY <1>2, <2>3, <3>1, ReportedToo
    <3>4. QED
      BY <1>1, <1>4, <3>2, <3>3
  <2>6. silent' \subseteq Seen'
    BY <1>1, <1>4 DEF PassInv
  <2>7. QED
    BY <1>1, <2>4, <2>5, <2>6 DEF PassInv
<1>5. QED
  BY <1>3, <1>4

-----------------------------------------------------------------------------
(* The invariant.                                                           *)

LEMMA InitIInv == Init => IInv
<1> SUFFICES ASSUME Init PROVE IInv
  OBVIOUS
<1>1. Tag \in Seq(Nat)
  BY ListsAssumption DEF Init
<1>2. QED
  BY <1>1 DEF Init, IInv, Types, InPass

(* The steps that leave the list and the pass alone.                        *)
LEMMA OtherStep ==
    ASSUME IInv, UNCHANGED <<Tag, checkVars>>
    PROVE  IInv'
<1> USE DEF checkVars
<1>1. Types'
  BY DEF IInv, Types
<1>2. Regular' = Regular /\ InPass' = InPass
  BY DEF Regular, Whole, NoneTwice, InPass
<1>3. PassInv' = PassInv
  BY DEF PassInv, Seen, Done
<1>4. QED
  BY <1>1, <1>2, <1>3 DEF IInv

(* A pass begins.                                                           *)
LEMMA BeginStep ==
    ASSUME IInv, PassBegins
    PROVE  IInv'
<1>1. /\ pc' = "item" /\ i' = 1 /\ pushed' = <<>> /\ silent' = {} /\ UNCHANGED <<Tag, value>>
  BY DEF PassBegins
<1>2. Types'
  BY <1>1 DEF IInv, Types
<1>3. ASSUME Regular PROVE PassInv'
  <2>1. Len(Tag) \in Nat /\ Types
    BY DEF IInv, Types
  <2>2. ASSUME 1 <= Len(Tag) PROVE Tag[1] \notin 8..28
    <3>1. 1 \in 1..Len(Tag) /\ ~ (1 - 1 \in 1..Len(Tag))
      BY <2>1, <2>2
    <3>2. QED
      BY <2>1, <3>1, <1>3, Neighbour DEF Regular
  <2>3. Done' = {}
    <3> DEFINE l == Len(Tag)
    <3>1. Done' = {n \in 1..l : n < 1 \/ (n = 1 /\ Tag[n] = 28)}
      BY <1>1 DEF Done
    <3>2. l \in Nat /\ (1 <= l => Tag[1] # 28)
      BY <2>1, <2>2
    <3> HIDE DEF l
    <3>3. QED
      BY <3>1, <3>2
  <2>4. Seen' = {} /\ TagsOf(pushed') = {}
    BY <1>1, <2>3 DEF Seen, TagsOf
  <2>5. Once(pushed') /\ Own(pushed')
    BY <1>1 DEF Once, Own
  <2>6. QED
    BY <1>1, <2>1, <2>2, <2>4, <2>5 DEF PassInv
<1>4. Regular' = Regular
  BY <1>1 DEF Regular, Whole, NoneTwice
<1>5. QED
  BY <1>2, <1>3, <1>4 DEF IInv

(* The block of inputs, with or without a reading, and the outputs.         *)
LEMMA KairuStep ==
    ASSUME IInv, Kairu
    PROVE  IInv'
<1>1. /\ pc = "item" /\ i <= Len(Tag) /\ Tag[i] = 7
      /\ pc' = pc /\ Tag' = Tag /\ value' = 28 /\ i' = i + 21
      /\ \/ pushed' = pushed \o Block(7, 18) \o Block(25, 4) /\ silent' = silent
         \/ pushed' = pushed \o Block(25, 4) /\ silent' = silent \cup (7..24)
  <2>1. i \in Nat
    BY DEF IInv, Types
  <2>2. i + 17 + 3 + 1 = i + 21 /\ 7 + 17 = 24 /\ 25 + 3 = 28
    BY <2>1
  <2>3. QED
    BY <2>2 DEF Kairu, Visiting, CheckAt
<1>2. Types /\ pushed \in Seq(Samples)
  BY DEF IInv, Types
<1>3. ASSUME Regular PROVE PassInv'
  <2>1. PassInv
    BY <1>1, <1>3 DEF IInv, InPass
  <2>2. /\ Tag'[i'] = 28
        /\ Seen' = Seen \cup (7..28)
        /\ Seen \cap (7..28) = {}
    BY <1>1, <1>2, <1>3, OverBlock
  <2>3. TagsOf(pushed) \cap (7..28) = {} /\ silent \cap (7..28) = {}
    BY <2>1, <2>2 DEF PassInv
  <2>4. CASE pushed' = pushed \o Block(7, 18) \o Block(25, 4) /\ silent' = silent
    <3> DEFINE r == pushed \o Block(7, 18)
    <3>1. r \in Seq(Samples) /\ Once(r) /\ Own(r) /\ TagsOf(r) = TagsOf(pushed) \cup (7..24)
      <4>1. TagsOf(pushed) \cap (7..7 + 18 - 1) = {} /\ 7 + 18 - 1 = 24
        BY <2>3
      <4>2. Once(pushed) /\ Own(pushed)
        BY <2>1 DEF PassInv
      <4>3. LET q == pushed \o Block(7, 18) IN
            q \in Seq(Samples) /\ Once(q) /\ Own(q) /\ TagsOf(q) = TagsOf(pushed) \cup (7..7 + 18 - 1)
        <5>1. 7 \in Nat /\ 18 \in Nat
          OBVIOUS
        <5>2. TagsOf(pushed) \cap (7..7 + 18 - 1) = {}
          BY <4>1
        <5>3. QED
          BY <5>1, <5>2, <4>2, <1>2, BlockAdded
      <4>4. QED
        BY <4>1, <4>3
    <3> HIDE DEF r
    <3>2. TagsOf(r) \cap (25..25 + 4 - 1) = {}
      <4>1. TagsOf(r) = TagsOf(pushed) \cup (7..24)
        BY <3>1
      <4>2. QED
        BY <4>1, <2>3
    <3>3. LET q == r \o Block(25, 4) IN
          q \in Seq(Samples) /\ Once(q) /\ Own(q) /\ TagsOf(q) = TagsOf(r) \cup (25..25 + 4 - 1)
      BY <3>1, <3>2, BlockAdded
    <3>4. Once(pushed') /\ Own(pushed') /\ TagsOf(pushed') = TagsOf(pushed) \cup (7..28)
      BY <3>1, <3>3, <2>4 DEF r
    <3>5. TagsOf(pushed') = (Seen' \cap (1..28)) \ silent'
      BY <3>4, <2>1, <2>2, <2>3, <2>4 DEF PassInv
    <3>6. silent' \subseteq Seen'
      BY <2>1, <2>2, <2>4 DEF PassInv
    <3>7. QED
      <4>1. pc' = "item"
        BY <1>1
      <4>2. QED
        BY <4>1, <2>2, <3>4, <3>5, <3>6 DEF PassInv
  <2>5. CASE pushed' = pushed \o Block(25, 4) /\ silent' = silent \cup (7..24)
    <3>1. TagsOf(pushed) \cap (25..25 + 4 - 1) = {}
      BY <2>3
    <3>2. LET q == pushed \o Block(25, 4) IN
          q \in Seq(Samples) /\ Once(q) /\ Own(q) /\ TagsOf(q) = TagsOf(pushed) \cup (25..25 + 4 - 1)
      BY <3>1, <1>2, <2>1, BlockAdded DEF PassInv
    <3>3. Once(pushed') /\ Own(pushed') /\ TagsOf(pushed') = TagsOf(pushed) \cup (25..28)
      BY <3>2, <2>5
    <3>4. TagsOf(pushed') = (Seen' \cap (1..28)) \ silent'
      <4>1. TagsOf(pushed) = (Seen \cap (1..28)) \ silent
        BY <2>1 DEF PassInv
      <4>2. TagsOf(pushed') = TagsOf(pushed) \cup (25..28)
        BY <3>3
      <4>3. /\ 7..28 = (7..24) \cup (25..28) /\ (7..24) \cap (25..28) = {}
            /\ 7..24 \subseteq 1..28 /\ 25..28 \subseteq 1..28
        OBVIOUS
      <4>4. Seen \cap (7..24) = {} /\ silent \cap (25..28) = {}
        BY <2>2, <2>3, <4>3
      <4>5. TagsOf(pushed) \cup (25..28)
              = ((Seen \cup ((7..24) \cup (25..28))) \cap (1..28)) \ (silent \cup (7..24))
        BY <4>1, <4>3, <4>4, OutputsReported
      <4>6. QED
        BY <4>2, <4>3, <4>5, <2>2, <2>5
    <3>5. silent' \subseteq Seen'
      BY <2>1, <2>2, <2>5 DEF PassInv
    <3>6. QED
      <4>1. pc' = "item"
        BY <1>1
      <4>2. QED
        BY <4>1, <2>2, <3>3, <3>4, <3>5 DEF PassInv
  <2>6. QED
    BY <1>1, <2>4, <2>5
<1>4. Types'
  <2>1. Block(7, 18) \in Seq(Samples) /\ Block(25, 4) \in Seq(Samples)
    BY DEF Block, Sample, Samples
  <2> DEFINE b == Block(7, 18)
             c == Block(25, 4)
  <2>2. pushed \o b \o c \in Seq(Samples) /\ pushed \o c \in Seq(Samples)
    <3>1. b \in Seq(Samples) /\ c \in Seq(Samples)
      BY <2>1
    <3> HIDE DEF b, c
    <3>2. QED
      BY <1>2, <3>1
  <2>3. pushed' \in Seq(Samples)
    BY <1>1, <2>2
  <2>4. silent' \subseteq Nat
    <3>1. silent \subseteq Nat /\ 7..24 \subseteq Nat
      BY DEF IInv, Types
    <3>2. silent' = silent \/ silent' = silent \cup (7..24)
      BY <1>1
    <3>3. QED
      BY <3>1, <3>2
  <2>5. i' \in Nat \ {0} /\ value' \in Nat
    <3>1. i \in Nat
      BY DEF IInv, Types
    <3>2. QED
      BY <1>1, <3>1
  <2>6. Tag' \in Seq(Nat) /\ pc' = "item"
    BY <1>1 DEF IInv, Types
  <2>7. QED
    BY <2>3, <2>4, <2>5, <2>6 DEF Types
<1>5. Regular' = Regular
  BY <1>1 DEF Regular, Whole, NoneTwice
<1>6. QED
  BY <1>3, <1>4, <1>5 DEF IInv

(* A tag below the block.                                                   *)
LEMMA SmallStep ==
    ASSUME IInv,
           PowerType \/ TemperatureLater \/ TemperatureRead \/ SharedMemory \/ BatteryIn
    PROVE  IInv'
<1> DEFINE Moves(t) ==
             \/ /\ silent' = silent
                /\ \E o \in Nat : (o = t \/ t = BATTERY_IN) /\ pushed' = Append(pushed, Sample(t, o))
             \/ silent' = silent \cup {t} /\ pushed' = pushed
<1>1. PICK t \in 1..6 : /\ \/ pc = "read" /\ t = TEMPERATURE
                           \/ pc = "item" /\ i <= Len(Tag) /\ Tag[i] = t
                        /\ Moves(t)
                        /\ i' = i + 1 /\ pc' = "item" /\ Tag' = Tag /\ value' \in {value, t}
  <2>1. value \in Nat
    BY DEF IInv, Types
  <2>2. CASE PowerType
    BY <2>2 DEF PowerType, Visiting, CheckAt, Report, NoReading
  <2>3. CASE TemperatureLater
    BY <2>3 DEF TemperatureLater, Visiting, CheckAt, NoReading
  <2>4. CASE TemperatureRead
    BY <2>4 DEF TemperatureRead, CheckAt, Report
  <2>5. CASE SharedMemory
    BY <2>5 DEF SharedMemory, Visiting, CheckAt, Report
  <2>6. CASE BatteryIn
    BY <2>1, <2>6 DEF BatteryIn, Visiting, CheckAt, Report
  <2>7. QED
    BY <2>2, <2>3, <2>4, <2>5, <2>6
<1>2. ASSUME Regular PROVE PassInv'
  <2>1. PassInv
    BY <1>1, <1>2 DEF IInv, InPass
  <2>2. i <= Len(Tag) /\ Tag[i] = t
    BY <1>1, <2>1 DEF PassInv
  <2>3. Types
    BY DEF IInv
  <2>4. QED
    BY <1>1, <1>2, <2>1, <2>2, <2>3, OneTag
<1>3. Types'
  <2>1. \A o \in Nat : Sample(t, o) \in Samples
    BY DEF Sample, Samples
  <2>2. pushed' \in Seq(Samples)
    <3>1. pushed \in Seq(Samples)
      BY DEF IInv, Types
    <3>2. pushed' = pushed \/ \E o \in Nat : pushed' = Append(pushed, Sample(t, o))
      BY <1>1
    <3>3. QED
      BY <2>1, <3>1, <3>2
  <2>3. silent' \subseteq Nat
    <3>1. silent \subseteq Nat /\ t \in Nat
      BY DEF IInv, Types
    <3>2. silent' = silent \/ silent' = silent \cup {t}
      BY <1>1
    <3>3. QED
      BY <3>1, <3>2
  <2>4. i' \in Nat \ {0}
    <3>1. i \in Nat /\ i' = i + 1
      BY <1>1 DEF IInv, Types
    <3>2. QED
      BY <3>1
  <2>5. value' \in Nat /\ Tag' \in Seq(Nat) /\ pc' = "item"
    BY <1>1 DEF IInv, Types
  <2>6. QED
    BY <2>2, <2>3, <2>4, <2>5 DEF Types
<1>4. Regular' = Regular
  BY <1>1 DEF Regular, Whole, NoneTwice
<1>5. QED
  BY <1>2, <1>3, <1>4 DEF IInv

(* The outputs alone: in a regular list the inputs come before them, and    *)
(* the loop does not get there.                                             *)
LEMMA KaichuStep ==
    ASSUME IInv, Kaichu
    PROVE  IInv'
<1>1. /\ pc = "item" /\ i <= Len(Tag) /\ Tag[i] = 25 /\ pc' = pc /\ Tag' = Tag
      /\ value' = 28 /\ i' = i + 4 /\ silent' = silent /\ pushed' = pushed \o Block(25, 4)
  BY DEF Kaichu, Visiting, CheckAt, IInv, Types
<1>2. Block(25, 4) \in Seq(Samples)
  BY DEF Block, Sample, Samples
<1>3. Types'
  BY <1>1, <1>2 DEF IInv, Types
<1>4. ~Regular
  BY <1>1 DEF IInv, InPass, PassInv
<1>5. Regular' = Regular
  BY <1>1 DEF Regular, Whole, NoneTwice
<1>6. QED
  BY <1>3, <1>4, <1>5 DEF IInv

(* Tags nothing is reported for: not of the device, or the last output.     *)
LEMMA PassedOver ==
    ASSUME IInv, OtherTag
    PROVE  IInv'
<1>1. /\ pc = "item" /\ i <= Len(Tag) /\ Tag[i] \notin 1..7 /\ pc' = pc /\ Tag' = Tag
      /\ i' = i + 1 /\ UNCHANGED <<value, pushed, silent>>
  BY DEF OtherTag, Visiting, CheckAt
<1>2. Types'
  BY <1>1 DEF IInv, Types
<1>3. ASSUME Regular PROVE PassInv'
  <2>1. PassInv /\ Types
    BY <1>1, <1>3 DEF IInv, InPass
  <2>2. /\ i' <= Len(Tag') => Tag'[i'] \notin KAIRU_0 + 1..Last - 1
        /\ Seen' = Seen \cup {Tag[i]}
    BY <1>1, <1>3, <2>1, NextTag
  <2>3. Tag[i] = 28 => Tag[i] \in Seen
    BY <1>1, <2>1 DEF Types, Seen, Done
  <2>4. Tag[i] \notin 1..27
    BY <1>1, <2>1 DEF PassInv
  <2>5. Seen' \cap (1..28) = Seen \cap (1..28)
    BY <2>2, <2>3, <2>4
  <2>6. /\ Once(pushed') /\ Own(pushed') /\ silent' \subseteq Seen'
        /\ TagsOf(pushed') = (Seen' \cap (1..28)) \ silent'
    <3>1. pushed' = pushed /\ silent' = silent
      BY <1>1
    <3>2. /\ Once(pushed) /\ Own(pushed) /\ silent \subseteq Seen
          /\ TagsOf(pushed) = (Seen \cap (1..28)) \ silent
      BY <2>1 DEF PassInv
    <3>3. QED
      BY <2>2, <2>5, <3>1, <3>2
  <2>7. pc' = "item"
    BY <1>1
  <2>8. QED
    BY <2>2, <2>6, <2>7 DEF PassInv
<1>4. Regular' = Regular
  BY <1>1 DEF Regular, Whole, NoneTwice
<1>5. QED
  BY <1>2, <1>3, <1>4 DEF IInv

(* The steps of the pass that visit no tag, or wait for the line.           *)
LEMMA PauseStep ==
    ASSUME IInv,
           CheckEnds \/ PassEnds \/ TemperatureDue \/ TemperatureLocked
    PROVE  IInv'
<1>1. UNCHANGED <<Tag, i, value, pushed, silent>>
  BY DEF CheckEnds, PassEnds, TemperatureDue, TemperatureLocked
<1>2. \/ pc' \in {"end", "pass"}
      \/ pc = "item" /\ pc' = "lock" /\ i <= Len(Tag) /\ Tag[i] = TEMPERATURE
      \/ pc = "lock" /\ pc' = "read"
  BY DEF CheckEnds, PassEnds, TemperatureDue, TemperatureLocked, CheckAt, Visiting
<1>3. Types'
  BY <1>1, <1>2 DEF IInv, Types
<1>4. Regular' = Regular
  BY <1>1 DEF Regular, Whole, NoneTwice
<1>5. Seen' = Seen
  BY <1>1 DEF Seen, Done
<1>6. ASSUME Regular, InPass' PROVE PassInv'
  <2>1. PassInv
    BY <1>2, <1>6 DEF IInv, InPass
  <2>2. i <= Len(Tag) /\ Tag[i] = TEMPERATURE
    BY <1>2, <1>6, <2>1 DEF PassInv, InPass
  <2>3. QED
    BY <1>1, <1>5, <2>1, <2>2 DEF PassInv
<1>7. QED
  BY <1>3, <1>4, <1>6 DEF IInv

LEMMA StepIInv == IInv /\ [Next]_vars => IInv'
<1> SUFFICES ASSUME IInv, [Next]_vars PROVE IInv'
  OBVIOUS
<1>1. CASE UNCHANGED vars
  BY <1>1, OtherStep DEF vars
<1>2. CASE CreateCmd \/ init_collect \/ Signal \/ Exit \/ Command \/ Menu \/ Supervisor \/ CollectLock \/ CollectUnlock
  <2>1. UNCHANGED <<Tag, checkVars>>
    BY <1>2 DEF CreateCmd, init_collect, Signal, Exit, Command, OpenSocket, CmdEnds, Reload, Lock, Locked,
       Free, Other, Receive, Menu, Supervisor, Datagram, CollectLock, CollectUnlock
  <2>2. QED
    BY <2>1, OtherStep
<1>3. CASE CreateThreads
  <2>1. UNCHANGED <<Tag, i, value, pushed, silent>> /\ pc' \in {pc, "pass"}
    BY <1>3 DEF CreateThreads
  <2>2. CASE pc' = pc
    BY <2>1, <2>2, <1>3, OtherStep DEF CreateThreads, checkVars
  <2>3. CASE pc' = "pass"
    BY <2>1, <2>3 DEF IInv, Types, InPass
  <2>4. QED
    BY <2>1, <2>2, <2>3
<1>4. CASE thread_myself_check
  BY <1>4, BeginStep, KairuStep, SmallStep, KaichuStep, PassedOver, PauseStep DEF thread_myself_check
<1>5. QED
  BY <1>1, <1>2, <1>3, <1>4 DEF Next

(* When the index has passed the list, everything is done.                  *)
LEMMA AtTheEnd == IInv => EveryTagOnce
<1> SUFFICES ASSUME IInv, Whole, NoneTwice, pc = "item", i > Len(Tag)
             PROVE  /\ Reported = Listed \ silent
                    /\ Len(pushed) = Cardinality(Reported)
                    /\ \A n \in DOMAIN pushed : pushed[n].of = pushed[n].tag \/ pushed[n].tag = BATTERY_IN
  BY DEF EveryTagOnce
<1>1. PassInv /\ Types
  BY DEF IInv, Regular, InPass
<1>2. /\ DOMAIN Tag = 1..Len(Tag) /\ Len(Tag) \in Nat
      /\ DOMAIN pushed = 1..Len(pushed) /\ i \in Nat
  BY <1>1 DEF Types
<1>3. Listed = Seen \cap (1..28) /\ Reported = TagsOf(pushed)
  <2>1. Done = 1..Len(Tag)
    <3> DEFINE l == Len(Tag)
    <3>1. l \in Nat /\ \A n \in 1..l : n < i
      BY <1>2
    <3>2. QED
      BY <3>1 DEF Done
  <2>2. Listed = Seen \cap (1..28)
    <3>1. Listed = {Tag[n] : n \in Done} \cap (1..25 + 3) /\ 25 + 3 = 28
      BY <1>2, <2>1 DEF Listed
    <3>2. QED
      BY <3>1 DEF Seen
  <2>3. Reported = TagsOf(pushed)
    BY <1>2 DEF Reported, TagsOf
  <2>4. QED
    BY <2>2, <2>3
<1>4. Reported = Listed \ silent
  BY <1>1, <1>3 DEF PassInv
<1>5. Len(pushed) = Cardinality(Reported)
  BY <1>1, <1>3, OnceCounts DEF PassInv, Types
<1>6. QED
  BY <1>1, <1>2, <1>4, <1>5 DEF PassInv, Own

(* thread_myself_check reports every tag of a regular list once in a pass,  *)
(* or finds it silent, and each with its own reading: for every such list,  *)
(* whatever the devices, the line and the other threads do.                 *)
THEOREM EachTagOnce == Spec => []EveryTagOnce
<1>1. Spec => []IInv
  BY InitIInv, StepIInv, PTL DEF Spec
<1>2. QED
  BY <1>1, AtTheEnd, PTL
=============================================================================
