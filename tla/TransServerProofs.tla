---------------------------- MODULE TransServerProofs ----------------------------
(***************************************************************************)
(* Proofs about TransServer, for any connections, numbers and frames.      *)
(*                                                                         *)
(* The handlers keep an index into a vector that other handlers extend and *)
(* shorten.  A push changes no element below its size; an erasure passes   *)
(* over one element and moves the next ones down by one.  So a handler     *)
(* that was not overtaken still finds, when it uses an element, the one it *)
(* tested (Held); and of the clients it has still to reach, one erasure    *)
(* moves at most one below its index (Lost).                               *)
(***************************************************************************)
EXTENDS TransServer, FiniteSetTheorems, SequenceTheorems, WellFoundedInduction, TLAPS

ListType == [cell : Seq(Entry), size : Nat]

Links == {"new", "up", "hungup", "closed"}

Places == {"idle", "register", "lookup", "scan", "send", "erase"}

TypeOK ==
    /\ link \in [Conn -> Links]
    /\ net \in [Conn -> Seq(Frame)]
    /\ sent \in [Conn -> Nat]
    /\ list \in [{"rtu", "client"} -> ListType]
    /\ pc \in [Conn -> Places]
    /\ msg \in [Conn -> Seq(Frame)]
    /\ sn \in [Conn -> Sns]
    /\ i \in [Conn -> Nat \ {0}]
    /\ got \in [Conn -> Seq(Frame)]
    /\ due \in [Conn -> SUBSET Conn]
    /\ erased \in [Conn -> Nat]

(* The handler of an RTU never looks its number up. *)
NoLookup == \A r \in RtuConns : pc[r] # "lookup"

(* A used part of a vector is in its storage; so is an element in use. *)
InCells ==
    /\ \A s \in {"rtu", "client"} : list[s].size <= Len(list[s].cell)
    /\ \A c \in Conn : pc[c] \in {"send", "erase"} => i[c] <= Len(list[Peer(c)].cell)

(* Every frame comes from the peer of the connection it is read from. *)
OwnFrames ==
    \A c \in Conn :
        /\ \A k \in 1..Len(net[c]) : net[c][k].from = c
        /\ msg[c] # <<>> => msg[c][1].from = c
        /\ pc[c] # "idle" => msg[c] # <<>>

(* Connections that were used have been up; each list has those of its side. *)
Opened ==
    /\ \A c \in Conn : link[c] = "new" => net[c] = <<>> /\ pc[c] = "idle"
    /\ \A s \in {"rtu", "client"} : \A k \in 1..Len(list[s].cell) :
            link[list[s].cell[k].iop] # "new" /\ Side(list[s].cell[k].iop) = s
    /\ \A c \in Conn : \A t \in due[c] : link[t] # "new"

(* An RTU's handler relays for the number it has read in its message. *)
OwnNumber == \A r \in RtuConns : pc[r] # "idle" => sn[r] \in Addresses(msg[r])

Used(c) == list[Peer(c)].cell[i[c]]

(* What a handler that was not overtaken knows of the element in use. *)
Held ==
    \A c \in Conn : msg[c] # <<>> /\ msg[c][1] \notin raced =>
        /\ pc[c] \in {"send", "erase"} => i[c] <= list[Peer(c)].size
        /\ pc[c] = "send" => Used(c).sn = sn[c]
        /\ pc[c] = "erase" => link[Used(c).iop] # "up"

(* The first index the handler has still to look at. *)
Position(c) == IF pc[c] = "erase" THEN i[c] + 1 ELSE i[c]

Ahead(r, t) ==
    \E k \in 1..list["client"].size :
        k >= Position(r) /\ list["client"].cell[k] = [iop |-> t, sn |-> sn[r]]

(* The clients that an RTU's handler owes the message and will not reach. *)
Lost(r) == IF pc[r] = "idle" THEN {} ELSE {t \in Missed(r) : ~ Ahead(r, t)}

LostBounded ==
    \A r \in RtuConns : IsFiniteSet(Lost(r)) /\ Cardinality(Lost(r)) <= erased[r]

BaseInv == TypeOK /\ NoLookup /\ InCells /\ OwnFrames /\ Opened /\ OwnNumber

Inv == BaseInv /\ Held /\ LostBounded

-----------------------------------------------------------------------------
(* Vectors. *)

(* A set of indices that is not empty has a least one. *)
LEMMA LeastHit ==
    ASSUME NEW T, T \subseteq Nat, T # {}
    PROVE  Min(T) \in T /\ \A y \in T : Min(T) <= y
<1>1. PICK x \in T : \A y \in T : ~ (<<y, x>> \in OpToRel(<, Nat))
  BY NatLessThanWellFounded, WFMin
<1>2. ASSUME NEW y \in T PROVE x <= y
  <2>1. y \in Nat /\ x \in Nat
    OBVIOUS
  <2>2. ~ (y < x)
    BY <1>1, <2>1 DEF OpToRel
  <2>3. QED
    BY <2>1, <2>2
<1>3. QED
  BY <1>2 DEF Min

(* push_back adds one element and moves none. *)
LEMMA PushedList ==
    ASSUME NEW l \in ListType, l.size <= Len(l.cell), NEW e \in Entry
    PROVE  /\ Pushed(l, e) \in ListType
           /\ Pushed(l, e).size = l.size + 1
           /\ Pushed(l, e).size <= Len(Pushed(l, e).cell)
           /\ Len(l.cell) <= Len(Pushed(l, e).cell)
           /\ \A k \in 1..l.size : Pushed(l, e).cell[k] = l.cell[k]
           /\ \A k \in 1..Len(Pushed(l, e).cell) :
                \/ Pushed(l, e).cell[k] = e
                \/ k \in 1..Len(l.cell) /\ Pushed(l, e).cell[k] = l.cell[k]
<1>1. l.cell \in Seq(Entry) /\ l.size \in Nat /\ Len(l.cell) \in Nat
  BY DEF ListType
<1>2. CASE l.size < Len(l.cell)
  <2>1. Pushed(l, e) = [cell |-> [l.cell EXCEPT ![l.size + 1] = e], size |-> l.size + 1]
    BY <1>2 DEF Pushed
  <2>2. [l.cell EXCEPT ![l.size + 1] = e] \in Seq(Entry)
        /\ Len([l.cell EXCEPT ![l.size + 1] = e]) = Len(l.cell)
    BY <1>1, <1>2
  <2>3. \A k \in 1..Len(l.cell) : [l.cell EXCEPT ![l.size + 1] = e][k] =
            IF k = l.size + 1 THEN e ELSE l.cell[k]
    BY <1>1
  <2>4. QED
    BY <1>1, <1>2, <2>1, <2>2, <2>3 DEF ListType
<1>3. CASE l.size = Len(l.cell)
  <2>1. ~ (l.size < Len(l.cell))
    BY <1>1, <1>3
  <2>2. Pushed(l, e) = [cell |-> Append(l.cell, e), size |-> l.size + 1]
    BY <2>1 DEF Pushed
  <2>3. QED
    BY <1>1, <1>3, <2>2 DEF ListType
<1>4. QED
  BY <1>1, <1>2, <1>3

(* erase() leaves the storage as long as it was, with elements it had. *)
LEMMA WithoutList ==
    ASSUME NEW l \in ListType, l.size <= Len(l.cell), NEW e
    PROVE  /\ Without(l, e) \in ListType
           /\ Without(l, e).size <= Len(Without(l, e).cell)
           /\ Len(Without(l, e).cell) = Len(l.cell)
           /\ \A k \in 1..Len(l.cell) : \E m \in 1..Len(l.cell) :
                Without(l, e).cell[k] = l.cell[m]
<1> DEFINE hits == {k \in 1..l.size : l.cell[k] = e}
           h == Min(hits)
           moved == [k \in 1..Len(l.cell) |->
                        IF h <= k /\ k < l.size THEN l.cell[k + 1] ELSE l.cell[k]]
<1>1. l.cell \in Seq(Entry) /\ l.size \in Nat /\ Len(l.cell) \in Nat
  BY DEF ListType
<1>2. CASE hits = {}
  BY <1>1, <1>2 DEF Without
<1>3. CASE hits # {}
  <2>1. Without(l, e) = [cell |-> moved, size |-> l.size - 1]
    BY <1>3 DEF Without
  <2>2. l.size >= 1
    BY <1>1, <1>3
  <2>3. ASSUME NEW k \in 1..Len(l.cell)
        PROVE  \E m \in 1..Len(l.cell) : moved[k] = l.cell[m]
    <3>1. CASE h <= k /\ k < l.size
      <4>1. k + 1 \in 1..Len(l.cell) /\ moved[k] = l.cell[k + 1]
        BY <1>1, <3>1
      <4>2. QED
        BY <4>1
    <3>2. CASE ~ (h <= k /\ k < l.size)
      <4>1. moved[k] = l.cell[k]
        BY <3>2
      <4>2. QED
        BY <4>1
    <3>3. QED
      BY <3>1, <3>2
  <2>4. \A k \in 1..Len(l.cell) : moved[k] \in Entry
    BY <1>1, <2>3
  <2>5. moved \in Seq(Entry) /\ Len(moved) = Len(l.cell)
    <3> HIDE DEF h
    <3>1. moved \in [1..Len(l.cell) -> Entry]
      BY <2>4
    <3>2. QED
      BY <1>1, <3>1
  <2> HIDE DEF moved
  <2>6. QED
    BY <1>1, <2>1, <2>2, <2>3, <2>5 DEF ListType
<1>4. QED
  BY <1>2, <1>3

(* erase() removes no other entry than the one it is given. *)
LEMMA WithoutRemoves ==
    ASSUME NEW l \in ListType, l.size <= Len(l.cell), NEW e
    PROVE  Entries(l) \ Entries(Without(l, e)) \subseteq {e}
<1> DEFINE hits == {k \in 1..l.size : l.cell[k] = e}
           h == Min(hits)
<1>1. l.cell \in Seq(Entry) /\ l.size \in Nat /\ Len(l.cell) \in Nat
  BY DEF ListType
<1>2. CASE hits = {}
  BY <1>2 DEF Without
<1>3. CASE hits # {}
  <2>1. h \in hits
    <3>1. hits \subseteq Nat
      BY <1>1
    <3> HIDE DEF hits
    <3>2. QED
      BY <1>3, <3>1, LeastHit
  <2> HIDE DEF h
  <2>2. Without(l, e).size = l.size - 1
        /\ \A k \in 1..Len(l.cell) : Without(l, e).cell[k] =
              IF h <= k /\ k < l.size THEN l.cell[k + 1] ELSE l.cell[k]
    BY <1>3 DEF Without, h
  <2>3. ASSUME NEW k \in 1..l.size, k # h
        PROVE  \E m \in 1..(l.size - 1) : Without(l, e).cell[m] = l.cell[k]
    <3>1. CASE k < h
      <4>1. k \in 1..(l.size - 1) /\ Without(l, e).cell[k] = l.cell[k]
        BY <1>1, <2>1, <2>2, <3>1
      <4>2. QED
        BY <4>1
    <3>2. CASE k > h
      <4>1. k - 1 \in 1..(l.size - 1) /\ Without(l, e).cell[k - 1] = l.cell[k]
        BY <1>1, <2>1, <2>2, <3>2
      <4>2. QED
        BY <4>1
    <3>3. QED
      BY <1>1, <2>1, <2>3, <3>1, <3>2
  <2>4. QED
    BY <2>1, <2>2, <2>3 DEF Entries
<1>4. QED
  BY <1>2, <1>3

(* All elements of l from index p on, but one, are in n from index p on. *)
AllButOne(l, n, p) ==
    \E j \in Nat : \A k \in 1..l.size : k >= p /\ k # j =>
        \E m \in 1..n.size : m >= p /\ n.cell[m] = l.cell[k]

(* erase() moves at most one element from index p on below it, or out. *)
LEMMA WithoutShift ==
    ASSUME NEW l \in ListType, l.size <= Len(l.cell), NEW e, NEW p \in Nat \ {0}
    PROVE  AllButOne(l, Without(l, e), p)
<1> DEFINE hits == {k \in 1..l.size : l.cell[k] = e}
           h == Min(hits)
<1>1. l.cell \in Seq(Entry) /\ l.size \in Nat /\ Len(l.cell) \in Nat
  BY DEF ListType
<1>2. CASE hits = {}
  <2>1. Without(l, e) = l
    BY <1>2 DEF Without
  <2>2. QED
    BY <1>1, <2>1 DEF AllButOne
<1>3. CASE hits # {}
  <2>1. h \in hits
    <3>1. hits \subseteq Nat
      BY <1>1
    <3> HIDE DEF hits
    <3>2. QED
      BY <1>3, <3>1, LeastHit
  <2> HIDE DEF h
  <2>2. Without(l, e).size = l.size - 1
        /\ \A k \in 1..Len(l.cell) : Without(l, e).cell[k] =
              IF h <= k /\ k < l.size THEN l.cell[k + 1] ELSE l.cell[k]
    BY <1>3 DEF Without, h
  <2> DEFINE j == IF h < p THEN p ELSE h
  <2>3. ASSUME NEW k \in 1..l.size, k >= p, k # j
        PROVE  \E m \in 1..(l.size - 1) : m >= p /\ Without(l, e).cell[m] = l.cell[k]
    <3>1. CASE k < h
      <4>1. k \in 1..(l.size - 1) /\ Without(l, e).cell[k] = l.cell[k]
        BY <1>1, <2>1, <2>2, <3>1
      <4>2. QED
        BY <4>1, <2>3
    <3>2. CASE k > h
      <4>1. k - 1 \in 1..(l.size - 1) /\ Without(l, e).cell[k - 1] = l.cell[k]
        BY <1>1, <2>1, <2>2, <3>2
      <4>2. k - 1 >= p
        BY <2>1, <2>3, <3>2
      <4>3. QED
        BY <4>1, <4>2
    <3>3. QED
      BY <1>1, <2>1, <2>3, <3>1, <3>2
  <2>4. j \in Nat
    BY <2>1
  <2> HIDE DEF j
  <2>5. QED
    BY <2>2, <2>3, <2>4 DEF AllButOne
<1>4. QED
  BY <1>2, <1>3
-----------------------------------------------------------------------------
(* The types and the simple facts. *)

LEMMA Sides ==
    ASSUME NEW c \in Conn
    PROVE  Side(c) \in {"rtu", "client"} /\ Peer(c) \in {"rtu", "client"}
           /\ (c \in RtuConns <=> Peer(c) = "client")
BY DEF Side, Peer

LEMMA CellEntry ==
    ASSUME TypeOK, NEW s \in {"rtu", "client"}
    PROVE  /\ list[s] \in ListType
           /\ list[s].size \in Nat /\ Len(list[s].cell) \in Nat
           /\ \A k \in 1..Len(list[s].cell) :
                /\ list[s].cell[k] \in Entry
                /\ list[s].cell[k].iop \in Conn /\ list[s].cell[k].sn \in Sns
<1>1. list[s] \in ListType
  BY DEF TypeOK
<1>2. list[s].cell \in Seq(Entry) /\ list[s].size \in Nat
  BY <1>1 DEF ListType
<1>3. \A k \in 1..Len(list[s].cell) : list[s].cell[k] \in Entry
  BY <1>2
<1>4. \A e \in Entry : e.iop \in Conn /\ e.sn \in Sns
  BY DEF Entry
<1>5. QED
  BY <1>1, <1>2, <1>3, <1>4

LEMMA InitBase == Init => BaseInv /\ Held /\ LostBounded
<1> SUFFICES ASSUME Init PROVE BaseInv /\ Held /\ LostBounded
  OBVIOUS
<1>1. TypeOK
  BY SnAssumption DEF Init, TypeOK, Links, Places, ListType
<1>2. NoLookup /\ InCells /\ OwnFrames /\ Opened /\ OwnNumber
  BY Sides DEF Init, NoLookup, InCells, OwnFrames, Opened, OwnNumber, Conn
<1>3. Held
  BY DEF Init, Held
<1>4. \A r \in RtuConns : Lost(r) = {} /\ erased[r] = 0
  BY DEF Init, Lost, Missed, Conn
<1>5. LostBounded
  BY <1>4, FS_EmptySet DEF LostBounded
<1>6. QED
  BY <1>1, <1>2, <1>3, <1>5 DEF BaseInv

(* What the peers, main() and a failing process do. *)
LEMMA OutsideBase ==
    ASSUME BaseInv, NEW c \in Conn,
           StartFails \/ (\E s \in {"rtu", "client"} : StartServer(s)) \/ Crash(c) \/ Environment(c)
    PROVE  BaseInv'
<1> USE DEF BaseInv
<1>1. CASE StartFails \/ (\E s \in {"rtu", "client"} : StartServer(s)) \/ Crash(c)
  <2>1. UNCHANGED <<link, net, sent, list, pc, msg, sn, i, got, due, erased>>
    BY <1>1 DEF StartFails, StartServer, Crash
  <2>2. QED
    BY <2>1 DEF TypeOK, NoLookup, InCells, OwnFrames, Opened, OwnNumber
<1>2. CASE Connect(c) \/ HangUp(c) \/ Close(c)
  <2>1. UNCHANGED <<net, sent, list, pc, msg, sn, i, got, due, erased>>
    BY <1>2 DEF Connect, HangUp, Close
  <2>2. PICK l \in Links \ {"new"} : link' = [link EXCEPT ![c] = l]
    BY <1>2 DEF Connect, HangUp, Close, Links
  <2>3. TypeOK'
    BY <2>1, <2>2 DEF TypeOK
  <2>4. \A d \in Conn : link'[d] = "new" => link[d] = "new"
    BY <2>2 DEF TypeOK
  <2>5. Opened'
    <3>1. \A s \in {"rtu", "client"} : \A k \in 1..Len(list[s].cell) : list[s].cell[k].iop \in Conn
      BY CellEntry
    <3>2. QED
      BY <2>1, <2>4, <3>1 DEF Opened, TypeOK
  <2>6. QED
    BY <2>1, <2>3, <2>5 DEF NoLookup, InCells, OwnFrames, OwnNumber
<1>3. ASSUME NEW kind \in Kinds[c], Transmit(c, kind) PROVE BaseInv'
  <2> DEFINE cut == [p \in 1..Parts[c] |->
                        [kind |-> kind, from |-> c, n |-> sent[c] + 1, part |-> p]]
             queue == net[c] \o cut
  <2>1. UNCHANGED <<link, list, pc, msg, sn, i, got, due, erased>>
        /\ net' = [net EXCEPT ![c] = queue] /\ link[c] = "up"
        /\ sent' = [sent EXCEPT ![c] = sent[c] + 1]
    BY <1>3 DEF Transmit
  <2>2. cut \in Seq(Frame) /\ Len(cut) = Parts[c] /\ \A p \in 1..Len(cut) : cut[p].from = c
    <3>1. Parts[c] \in Nat /\ sent[c] + 1 \in Nat /\ kind \in AllKinds
      BY PartsAssumption, KindsAssumption DEF TypeOK
    <3>2. \A p \in 1..Parts[c] :
            [kind |-> kind, from |-> c, n |-> sent[c] + 1, part |-> p] \in Frame
      BY <3>1 DEF Frame
    <3>3. cut \in [1..Parts[c] -> Frame]
      BY <3>2
    <3>4. QED
      BY <3>1, <3>3
  <2> HIDE DEF cut
  <2>3. queue \in Seq(Frame) /\ \A x \in 1..Len(queue) : queue[x].from = c
    <3>1. net[c] \in Seq(Frame) /\ \A x \in 1..Len(net[c]) : net[c][x].from = c
      BY DEF TypeOK, OwnFrames
    <3>2. queue \in Seq(Frame) /\ Len(queue) = Len(net[c]) + Len(cut)
      BY <2>2, <3>1, ConcatProperties
    <3>3. ASSUME NEW x \in 1..Len(queue) PROVE queue[x].from = c
      <4>1. CASE x <= Len(net[c])
        BY <2>2, <3>1, <3>2, <4>1
      <4>2. CASE x > Len(net[c])
        <5>1. queue[x] = cut[x - Len(net[c])] /\ x - Len(net[c]) \in 1..Len(cut)
          BY <2>2, <3>1, <3>2, <4>2
        <5>2. QED
          BY <2>2, <5>1
      <4>3. QED
        BY <3>1, <4>1, <4>2
    <3>4. QED
      BY <3>2, <3>3
  <2> HIDE DEF queue
  <2>4. TypeOK'
    BY <2>1, <2>3 DEF TypeOK
  <2>5. \A d \in Conn : \A k \in 1..Len(net'[d]) : net'[d][k].from = d
    BY <2>1, <2>3 DEF TypeOK, OwnFrames
  <2>6. Opened'
    BY <2>1 DEF Opened, TypeOK
  <2>7. QED
    BY <2>1, <2>4, <2>5, <2>6 DEF NoLookup, InCells, OwnFrames, OwnNumber
<1>4. QED
  BY <1>1, <1>2, <1>3 DEF Environment

LEMMA ReceiveBase ==
    ASSUME BaseInv, NEW c \in Conn, NEW k \in 1..Len(net[c]), Receive(c, k)
    PROVE  BaseInv'
<1> USE DEF BaseInv
<1> DEFINE m == SubSeq(net[c], 1, k)
<1>1. PICK a \in Addresses(m) :
        /\ sn' = [sn EXCEPT ![c] = a]
        /\ due' = [due EXCEPT ![c] = IF c \in RtuConns THEN Subscribers(a) ELSE {}]
  BY DEF Receive
<1>2. /\ pc[c] = "idle" /\ msg' = [msg EXCEPT ![c] = m]
      /\ \E kind \in TakenFor(m) :
            pc' = [pc EXCEPT ![c] = IF Registers(c, kind) THEN "register" ELSE AfterRegister(c)]
      /\ net' = [net EXCEPT ![c] = SubSeq(net[c], k + 1, Len(net[c]))]
      /\ i' = [i EXCEPT ![c] = 1] /\ erased' = [erased EXCEPT ![c] = 0]
      /\ UNCHANGED <<link, sent, list, got>>
  BY DEF Receive
<1>3. net[c] \in Seq(Frame) /\ Len(net[c]) \in Nat /\ net[c] # <<>>
  BY DEF TypeOK
<1>4. m \in Seq(Frame) /\ Len(m) = k /\ m # <<>> /\ m[1] = net[c][1] /\ m[1] \in Frame /\ m[1].from = c
  BY <1>3 DEF OwnFrames
<1>5. SubSeq(net[c], k + 1, Len(net[c])) \in Seq(Frame)
      /\ \A x \in 1..Len(SubSeq(net[c], k + 1, Len(net[c]))) :
            SubSeq(net[c], k + 1, Len(net[c]))[x] = net[c][x + k]
            /\ x + k \in 1..Len(net[c])
  BY <1>3
<1>6. a \in Sns /\ a \in Addresses(m)
  BY <1>4, SnAssumption DEF Addresses
<1>7. Subscribers(a) \subseteq Conn /\ \A t \in Subscribers(a) : link[t] # "new"
  <2>1. \A t \in Subscribers(a) : \E x \in 1..Len(list["client"].cell) : t = list["client"].cell[x].iop
    BY DEF Subscribers, Entries, TypeOK, ListType, InCells
  <2>2. QED
    BY <2>1, CellEntry DEF Opened
<1> HIDE DEF m
<1>8. pc'[c] \in Places \ {"idle"} /\ (c \in RtuConns => pc'[c] # "lookup")
      /\ pc'[c] \notin {"send", "erase"}
  BY <1>2 DEF AfterRegister, Places, TypeOK
<1>9. TypeOK'
  <2>1. pc' \in [Conn -> Places]
    BY <1>2, <1>8 DEF TypeOK
  <2>2. due' \in [Conn -> SUBSET Conn]
    BY <1>1, <1>7 DEF TypeOK
  <2>3. net' \in [Conn -> Seq(Frame)] /\ msg' \in [Conn -> Seq(Frame)]
    BY <1>2, <1>4, <1>5 DEF TypeOK
  <2>4. sn' \in [Conn -> Sns] /\ i' \in [Conn -> Nat \ {0}] /\ erased' \in [Conn -> Nat]
    BY <1>1, <1>2, <1>6 DEF TypeOK
  <2>5. QED
    BY <1>2, <2>1, <2>2, <2>3, <2>4 DEF TypeOK
<1>10. NoLookup' /\ InCells'
  BY <1>2, <1>8 DEF TypeOK, NoLookup, InCells
<1>11. OwnFrames'
  <2>1. ASSUME NEW d \in Conn PROVE \A x \in 1..Len(net'[d]) : net'[d][x].from = d
    BY <1>2, <1>3, <1>5 DEF OwnFrames, TypeOK
  <2>2. ASSUME NEW d \in Conn
        PROVE (msg'[d] # <<>> => msg'[d][1].from = d) /\ (pc'[d] # "idle" => msg'[d] # <<>>)
    BY <1>2, <1>4 DEF OwnFrames, TypeOK
  <2>3. QED
    BY <2>1, <2>2 DEF OwnFrames
<1>12. Opened'
  <2>1. \A d \in Conn : link[d] = "new" => d # c
    BY <1>3 DEF Opened
  <2>2. \A d \in Conn : link'[d] = "new" => net'[d] = <<>> /\ pc'[d] = "idle"
    BY <1>2, <2>1 DEF Opened, TypeOK
  <2>3. \A d \in Conn : \A t \in due'[d] : link'[t] # "new"
    BY <1>1, <1>2, <1>7 DEF Opened, TypeOK
  <2>4. QED
    BY <1>2, <2>2, <2>3 DEF Opened
<1>13. OwnNumber'
  BY <1>1, <1>2, <1>6 DEF OwnNumber, TypeOK, Conn
<1>14. QED
  BY <1>9, <1>10, <1>11, <1>12, <1>13

LEMMA RegisterBase ==
    ASSUME BaseInv, NEW c \in Conn, Register(c)
    PROVE  /\ BaseInv'
           /\ \E e \in Entry : list' = [list EXCEPT ![Side(c)] = Pushed(list[Side(c)], e)]
<1> USE DEF BaseInv
<1>0. PICK number \in NumbersRead(c, msg[c]) :
        list' = [list EXCEPT ![Side(c)] = Pushed(list[Side(c)], [iop |-> c, sn |-> number])]
  BY DEF Register
<1> DEFINE e == [iop |-> c, sn |-> number]
<1>1. /\ pc[c] = "register" /\ pc' = [pc EXCEPT ![c] = AfterRegister(c)]
      /\ list' = [list EXCEPT ![Side(c)] = Pushed(list[Side(c)], e)]
      /\ UNCHANGED <<link, net, sent, msg, sn, i, got, due, erased>>
  BY <1>0 DEF Register
<1>2. e \in Entry /\ e.iop = c
  <2>1. number \in Sns
    BY SnAssumption DEF NumbersRead
  <2>2. QED
    BY <2>1 DEF Entry
<1> HIDE DEF e
<1>3. list[Side(c)] \in ListType /\ list[Side(c)].size <= Len(list[Side(c)].cell)
  BY Sides, CellEntry DEF InCells
<1> DEFINE new == Pushed(list[Side(c)], e)
<1>4. /\ new \in ListType /\ new.size <= Len(new.cell)
      /\ Len(list[Side(c)].cell) <= Len(new.cell)
      /\ \A k \in 1..Len(new.cell) :
            \/ new.cell[k] = e
            \/ k \in 1..Len(list[Side(c)].cell) /\ new.cell[k] = list[Side(c)].cell[k]
  BY <1>2, <1>3, PushedList
<1> HIDE DEF new
<1>5. list' = [list EXCEPT ![Side(c)] = new]
  BY <1>1 DEF new
<1>6. pc'[c] \in {"scan", "lookup"} /\ (c \in RtuConns => pc'[c] = "scan")
  BY <1>1 DEF AfterRegister, TypeOK
<1>7. TypeOK'
  BY <1>1, <1>4, <1>5, <1>6 DEF TypeOK, Places
<1>8. NoLookup'
  BY <1>1, <1>6 DEF NoLookup, TypeOK
<1>9. \A s \in {"rtu", "client"} : list'[s] = IF s = Side(c) THEN new ELSE list[s]
  BY <1>5, Sides DEF TypeOK
<1>10. InCells'
  <2>1. \A s \in {"rtu", "client"} : list'[s].size <= Len(list'[s].cell)
    BY <1>4, <1>9 DEF InCells
  <2>2. ASSUME NEW d \in Conn, pc'[d] \in {"send", "erase"}
        PROVE  i'[d] <= Len(list'[Peer(d)].cell)
    <3>1. pc[d] \in {"send", "erase"} /\ i'[d] = i[d] /\ i[d] \in Nat
      BY <1>1, <1>6, <2>2 DEF TypeOK
    <3>2. i[d] <= Len(list[Peer(d)].cell)
      BY <3>1 DEF InCells
    <3>3. Len(list[Peer(d)].cell) \in Nat /\ Len(list'[Peer(d)].cell) \in Nat
      BY Sides, CellEntry, <1>7, <1>9, <1>4 DEF ListType
    <3>4. QED
      BY <1>4, <1>9, <3>1, <3>2, <3>3, Sides
  <2>3. QED
    BY <2>1, <2>2 DEF InCells
<1>11. OwnFrames' /\ OwnNumber'
  BY <1>1, <1>6 DEF OwnFrames, OwnNumber, TypeOK, Conn
<1>12. Opened'
  <2>1. link[c] # "new"
    BY <1>1 DEF Opened
  <2>2. \A d \in Conn : link[d] = "new" => pc'[d] = "idle"
    BY <1>1, <2>1 DEF Opened, TypeOK
  <2>3. \A s \in {"rtu", "client"} : \A k \in 1..Len(list'[s].cell) :
            link[list'[s].cell[k].iop] # "new" /\ Side(list'[s].cell[k].iop) = s
    BY <1>2, <1>4, <1>9, <2>1, Sides DEF Opened
  <2>4. QED
    BY <1>1, <2>2, <2>3 DEF Opened
<1>13. QED
  BY <1>1, <1>2, <1>7, <1>8, <1>10, <1>11, <1>12

(* A handler that returns leaves its connection as if it had not been called. *)
LEMMA ReturnBase ==
    ASSUME BaseInv, NEW c \in Conn, pc[c] # "idle", Return(c),
           UNCHANGED <<link, net, sent, list, got>>
    PROVE  BaseInv'
<1> USE DEF BaseInv
<1>1. /\ pc' = [pc EXCEPT ![c] = "idle"] /\ msg' = [msg EXCEPT ![c] = <<>>]
      /\ sn' = [sn EXCEPT ![c] = StartSn] /\ i' = [i EXCEPT ![c] = 1]
      /\ due' = [due EXCEPT ![c] = {}] /\ erased' = [erased EXCEPT ![c] = 0]
  BY DEF Return
<1>2. TypeOK'
  BY <1>1, SnAssumption DEF TypeOK, Places
<1>3. NoLookup' /\ InCells'
  BY <1>1 DEF NoLookup, InCells, TypeOK
<1>4. OwnFrames' /\ OwnNumber'
  BY <1>1 DEF OwnFrames, OwnNumber, TypeOK, Conn
<1>5. Opened'
  BY <1>1 DEF Opened, TypeOK
<1>6. QED
  BY <1>2, <1>3, <1>4, <1>5

LEMMA LookupBase ==
    ASSUME BaseInv, NEW c \in Conn, Lookup(c)
    PROVE  BaseInv'
<1> USE DEF BaseInv
<1>1. /\ pc[c] = "lookup" /\ c \notin RtuConns
      /\ UNCHANGED <<link, net, sent, list, got>>
  BY DEF Lookup, NoLookup
<1>2. /\ \A k \in 1..Len(list["client"].cell) : list["client"].cell[k].sn \in Sns
      /\ list["client"].size <= Len(list["client"].cell)
      /\ list["client"].size \in Nat /\ Len(list["client"].cell) \in Nat
  BY CellEntry DEF InCells
<1>3. CASE Return(c)
  BY <1>1, <1>3, ReturnBase
<1>4. CASE /\ i[c] <= list["client"].size
           /\ sn' = [sn EXCEPT ![c] = list["client"].cell[i[c]].sn]
           /\ i' = [i EXCEPT ![c] = 1] /\ pc' = [pc EXCEPT ![c] = "scan"]
           /\ UNCHANGED <<msg, due, erased>>
  <2>1. list["client"].cell[i[c]].sn \in Sns
    BY <1>2, <1>4 DEF TypeOK
  <2>2. TypeOK'
    BY <1>1, <1>4, <2>1 DEF TypeOK, Places
  <2>3. NoLookup' /\ InCells'
    BY <1>1, <1>4 DEF NoLookup, InCells, TypeOK
  <2>4. OwnFrames' /\ OwnNumber'
    BY <1>1, <1>4 DEF OwnFrames, OwnNumber, TypeOK, Conn
  <2>5. Opened'
    BY <1>1, <1>4 DEF Opened, TypeOK
  <2>6. QED
    BY <2>2, <2>3, <2>4, <2>5
<1>5. CASE i' = [i EXCEPT ![c] = i[c] + 1] /\ UNCHANGED <<pc, msg, sn, due, erased>>
  <2>1. TypeOK'
    BY <1>1, <1>5 DEF TypeOK
  <2>2. NoLookup' /\ InCells'
    BY <1>1, <1>5 DEF NoLookup, InCells, TypeOK
  <2>3. OwnFrames' /\ OwnNumber' /\ Opened'
    BY <1>1, <1>5 DEF OwnFrames, OwnNumber, Opened
  <2>4. QED
    BY <2>1, <2>2, <2>3
<1>6. QED
  BY <1>3, <1>4, <1>5 DEF Lookup

LEMMA ScanBase ==
    ASSUME BaseInv, NEW c \in Conn, Scan(c)
    PROVE  BaseInv'
<1> USE DEF BaseInv
<1>1. pc[c] = "scan" /\ UNCHANGED <<link, net, sent, list, got>>
  BY DEF Scan
<1>2. /\ list[Peer(c)].size <= Len(list[Peer(c)].cell)
      /\ list[Peer(c)].size \in Nat /\ Len(list[Peer(c)].cell) \in Nat
  BY Sides, CellEntry DEF InCells
<1>3. CASE Return(c)
  BY <1>1, <1>3, ReturnBase
<1>4. CASE /\ i[c] <= list[Peer(c)].size /\ pc' = [pc EXCEPT ![c] = "send"]
           /\ UNCHANGED <<msg, sn, i, due, erased>>
  <2>1. TypeOK'
    BY <1>1, <1>4 DEF TypeOK, Places
  <2>2. NoLookup' /\ InCells'
    BY <1>1, <1>2, <1>4 DEF NoLookup, InCells, TypeOK
  <2>3. OwnFrames' /\ OwnNumber'
    BY <1>1, <1>4 DEF OwnFrames, OwnNumber, TypeOK, Conn
  <2>4. Opened'
    BY <1>1, <1>4 DEF Opened, TypeOK
  <2>5. QED
    BY <2>1, <2>2, <2>3, <2>4
<1>5. CASE i' = [i EXCEPT ![c] = i[c] + 1] /\ UNCHANGED <<pc, msg, sn, due, erased>>
  <2>1. TypeOK'
    BY <1>1, <1>5 DEF TypeOK
  <2>2. NoLookup' /\ InCells'
    BY <1>1, <1>5 DEF NoLookup, InCells, TypeOK
  <2>3. OwnFrames' /\ OwnNumber' /\ Opened'
    BY <1>1, <1>5 DEF OwnFrames, OwnNumber, Opened
  <2>4. QED
    BY <2>1, <2>2, <2>3
<1>6. QED
  BY <1>3, <1>4, <1>5 DEF Scan

(* The client that an element in use names. *)
LEMMA UsedEntry ==
    ASSUME BaseInv, NEW c \in Conn, pc[c] \in {"send", "erase"}
    PROVE  Used(c) \in Entry /\ Used(c).iop \in Conn /\ Used(c).sn \in Sns
           /\ i[c] \in 1..Len(list[Peer(c)].cell)
<1>1. i[c] \in 1..Len(list[Peer(c)].cell)
  BY Sides, CellEntry DEF BaseInv, InCells, TypeOK
<1>2. QED
  BY <1>1, Sides, CellEntry DEF BaseInv, Used

LEMMA SendBase ==
    ASSUME BaseInv, NEW c \in Conn, Send(c)
    PROVE  BaseInv'
<1> USE DEF BaseInv
<1>1. /\ pc[c] = "send" /\ msg[c] # <<>> /\ msg[c][1] \in Frame
      /\ UNCHANGED <<link, net, sent, list, msg, sn, due, erased>>
  <2>1. pc[c] = "send" /\ UNCHANGED <<link, net, sent, list, msg, sn, due, erased>>
    BY DEF Send
  <2>2. msg[c] # <<>> /\ msg[c] \in Seq(Frame)
    BY <2>1 DEF OwnFrames, TypeOK
  <2>3. msg[c][1] \in Frame
    BY <2>2
  <2>4. QED
    BY <2>1, <2>2, <2>3
<1>2. Used(c).iop \in Conn
  BY <1>1, UsedEntry
<1>3. \/ /\ got' = [got EXCEPT ![Used(c).iop] = Append(got[Used(c).iop], msg[c][1])]
         /\ i' = [i EXCEPT ![c] = i[c] + 1] /\ pc' = [pc EXCEPT ![c] = "scan"]
      \/ got' = got /\ i' = i /\ pc' = [pc EXCEPT ![c] = "erase"]
  BY DEF Send, Used
<1>4. got' \in [Conn -> Seq(Frame)]
  <2>1. CASE got' = got
    BY <2>1 DEF TypeOK
  <2>2. CASE got' = [got EXCEPT ![Used(c).iop] = Append(got[Used(c).iop], msg[c][1])]
    <3>1. Append(got[Used(c).iop], msg[c][1]) \in Seq(Frame)
      BY <1>1, <1>2 DEF TypeOK
    <3>2. QED
      BY <1>2, <2>2, <3>1 DEF TypeOK
  <2>3. QED
    BY <1>3, <2>1, <2>2
<1>5. PICK p \in {"scan", "erase"}, x \in {i[c], i[c] + 1} :
        /\ pc' = [pc EXCEPT ![c] = p] /\ i' = [i EXCEPT ![c] = x]
        /\ p = "erase" => x = i[c]
  <2>1. i = [i EXCEPT ![c] = i[c]]
    BY DEF TypeOK
  <2>2. QED
    BY <1>3, <2>1
<1>6. x \in Nat \ {0}
  BY DEF TypeOK
<1>7. TypeOK'
  BY <1>1, <1>4, <1>5, <1>6 DEF TypeOK, Places
<1>8. NoLookup'
  BY <1>1, <1>5 DEF NoLookup, TypeOK
<1>9. InCells'
  BY <1>1, <1>5 DEF InCells, TypeOK
<1>10. OwnFrames' /\ OwnNumber'
  BY <1>1, <1>5 DEF OwnFrames, OwnNumber, TypeOK, Conn
<1>11. Opened'
  BY <1>1, <1>5 DEF Opened, TypeOK
<1>12. QED
  BY <1>7, <1>8, <1>9, <1>10, <1>11

LEMMA EraseBase ==
    ASSUME BaseInv, NEW c \in Conn, Erase(c)
    PROVE  BaseInv'
<1> USE DEF BaseInv
<1> DEFINE new == Without(list[Peer(c)], Used(c))
<1>1. /\ pc[c] = "erase" /\ pc' = [pc EXCEPT ![c] = "scan"]
      /\ i' = [i EXCEPT ![c] = i[c] + 1]
      /\ list' = [list EXCEPT ![Peer(c)] = new]
      /\ erased' = [d \in Conn |-> IF Peer(d) = Peer(c) /\ pc[d] # "idle"
                                   THEN erased[d] + 1 ELSE erased[d]]
      /\ UNCHANGED <<link, net, sent, msg, sn, got, due>>
  BY DEF Erase, Used
<1>2. list[Peer(c)] \in ListType /\ list[Peer(c)].size <= Len(list[Peer(c)].cell)
  BY Sides, CellEntry DEF InCells
<1>3. /\ new \in ListType /\ new.size <= Len(new.cell)
      /\ Len(new.cell) = Len(list[Peer(c)].cell)
      /\ \A k \in 1..Len(list[Peer(c)].cell) : \E m \in 1..Len(list[Peer(c)].cell) :
            new.cell[k] = list[Peer(c)].cell[m]
  BY <1>2, WithoutList
<1> HIDE DEF new
<1>4. \A s \in {"rtu", "client"} : list'[s] = IF s = Peer(c) THEN new ELSE list[s]
  BY <1>1, Sides DEF TypeOK
<1>5. TypeOK'
  BY <1>1, <1>3, Sides DEF TypeOK, Places
<1>6. NoLookup'
  BY <1>1 DEF NoLookup, TypeOK
<1>7. InCells'
  <2>1. \A s \in {"rtu", "client"} : list'[s].size <= Len(list'[s].cell)
    BY <1>3, <1>4 DEF InCells
  <2>2. \A s \in {"rtu", "client"} : Len(list'[s].cell) = Len(list[s].cell)
    BY <1>3, <1>4
  <2>3. \A d \in Conn : pc'[d] \in {"send", "erase"} => pc[d] \in {"send", "erase"} /\ i'[d] = i[d]
    BY <1>1 DEF TypeOK
  <2>4. QED
    BY <2>1, <2>2, <2>3, Sides DEF InCells
<1>8. OwnFrames' /\ OwnNumber'
  BY <1>1 DEF OwnFrames, OwnNumber, TypeOK, Conn
<1>9. Opened'
  <2>1. \A s \in {"rtu", "client"} : \A k \in 1..Len(list'[s].cell) :
            link[list'[s].cell[k].iop] # "new" /\ Side(list'[s].cell[k].iop) = s
    <3>1. ASSUME NEW k \in 1..Len(new.cell)
          PROVE  link[new.cell[k].iop] # "new" /\ Side(new.cell[k].iop) = Peer(c)
      <4>1. PICK m \in 1..Len(list[Peer(c)].cell) : new.cell[k] = list[Peer(c)].cell[m]
        BY <1>3
      <4>2. QED
        BY <4>1, Sides DEF Opened
    <3>2. QED
      BY <1>4, <3>1 DEF Opened
  <2>2. QED
    BY <1>1, <2>1 DEF Opened, TypeOK
<1>10. QED
  BY <1>5, <1>6, <1>7, <1>8, <1>9
-----------------------------------------------------------------------------
(* What a handler knows of the element it uses. *)

(* A handler keeps what it holds while its place, its index and its list    *)
(* are left alone.                                                          *)
LEMMA StillHeld ==
    ASSUME BaseInv, BaseInv', Held, NEW d \in Conn,
           pc'[d] = pc[d], msg'[d] = msg[d], i'[d] = i[d], sn'[d] = sn[d],
           raced \subseteq raced',
           \A t \in Conn : link'[t] = "up" => link[t] \in {"up", "new"},
           list'[Peer(d)].size >= list[Peer(d)].size,
           \A k \in 1..list[Peer(d)].size : list'[Peer(d)].cell[k] = list[Peer(d)].cell[k],
           msg'[d] # <<>>, msg'[d][1] \notin raced'
    PROVE  /\ pc'[d] \in {"send", "erase"} => i'[d] <= list'[Peer(d)].size
           /\ pc'[d] = "send" => Used(d)'.sn = sn'[d]
           /\ pc'[d] = "erase" => link'[Used(d)'.iop] # "up"
<1>1. msg[d] # <<>> /\ msg[d][1] \notin raced
  OBVIOUS
<1>2. CASE pc[d] \notin {"send", "erase"}
  BY <1>2
<1>3. CASE pc[d] \in {"send", "erase"}
  <2>1. i[d] \in 1..list[Peer(d)].size
    BY <1>1, <1>3, Sides, CellEntry DEF Held, BaseInv, TypeOK
  <2>2. Used(d)' = Used(d)
    BY <2>1 DEF Used, Peer
  <2>3. Used(d).iop \in Conn /\ link[Used(d).iop] # "new"
    BY <1>3, UsedEntry, Sides DEF BaseInv, Opened, Used
  <2>4. i'[d] <= list'[Peer(d)].size
    <3>1. list[Peer(d)].size \in Nat /\ list'[Peer(d)].size \in Nat
      BY Sides, CellEntry DEF BaseInv, TypeOK, ListType
    <3>2. QED
      BY <2>1, <3>1
  <2>5. QED
    BY <1>1, <1>3, <2>2, <2>3, <2>4 DEF Held
<1>4. QED
  BY <1>2, <1>3

LEMMA HeldStep ==
    ASSUME BaseInv, BaseInv', Held, NEW c \in Conn,
           \/ StartFails \/ (\E s \in {"rtu", "client"} : StartServer(s)) \/ Crash(c)
              \/ Environment(c)
           \/ \E k \in 1..Len(net[c]) : Receive(c, k)
           \/ Process(c)
    PROVE  Held'
<1> SUFFICES ASSUME NEW d \in Conn, msg'[d] # <<>>, msg'[d][1] \notin raced'
             PROVE  /\ pc'[d] \in {"send", "erase"} => i'[d] <= list'[Peer(d)].size
                    /\ pc'[d] = "send" => Used(d)'.sn = sn'[d]
                    /\ pc'[d] = "erase" => link'[Used(d)'.iop] # "up"
  BY DEF Held, Peer
<1>1. CASE StartFails \/ (\E s \in {"rtu", "client"} : StartServer(s)) \/ Crash(c) \/ Environment(c)
  <2>1. UNCHANGED <<list, pc, msg, sn, i, raced>>
    BY <1>1 DEF StartFails, StartServer, Crash, Environment, Connect, HangUp, Close, Transmit
  <2>2. \A t \in Conn : link'[t] = "up" => link[t] \in {"up", "new"}
    BY <1>1 DEF StartFails, StartServer, Crash, Environment, Connect, HangUp, Close, Transmit,
                BaseInv, TypeOK
  <2>3. list'[Peer(d)].size >= list[Peer(d)].size
    BY <2>1, Sides, CellEntry DEF BaseInv
  <2>4. QED
    BY <2>1, <2>2, <2>3, StillHeld
<1>2. ASSUME NEW k \in 1..Len(net[c]), Receive(c, k)
      PROVE  \/ pc'[d] \notin {"send", "erase"}
             \/ d # c /\ UNCHANGED <<list, link, raced>> /\ pc'[d] = pc[d] /\ msg'[d] = msg[d]
                /\ i'[d] = i[d] /\ sn'[d] = sn[d]
  BY <1>2 DEF Receive, AfterRegister, BaseInv, TypeOK
<1>3. CASE Lookup(c) \/ Scan(c)
  <2>1. UNCHANGED <<list, link, raced>> /\ pc[c] \in {"lookup", "scan"}
    BY <1>3 DEF Lookup, Scan
  <2>2. CASE d = c
    <3>1. CASE Return(c)
      BY <2>2, <3>1 DEF Return, BaseInv, TypeOK
    <3>2. CASE Lookup(c) /\ ~Return(c)
      BY <2>2, <3>2 DEF Lookup, BaseInv, TypeOK
    <3>3. CASE Scan(c) /\ ~Return(c)
      <4>1. pc'[c] \in {"send", "erase"} =>
               /\ pc'[c] = "send" /\ i' = i /\ sn' = sn
               /\ i[c] <= list[Peer(c)].size /\ list[Peer(c)].cell[i[c]].sn = sn[c]
        BY <3>3 DEF Scan, BaseInv, TypeOK
      <4>2. QED
        BY <2>1, <2>2, <4>1 DEF Used, Peer
    <3>4. QED
      BY <1>3, <3>1, <3>2, <3>3
  <2>3. CASE d # c
    <3>1. pc'[d] = pc[d] /\ msg'[d] = msg[d] /\ i'[d] = i[d] /\ sn'[d] = sn[d]
      BY <1>3, <2>3 DEF Lookup, Scan, Return, BaseInv, TypeOK
    <3>2. list'[Peer(d)].size >= list[Peer(d)].size
      BY <2>1, Sides, CellEntry DEF BaseInv
    <3>3. QED
      BY <2>1, <3>1, <3>2, StillHeld
  <2>4. QED
    BY <2>2, <2>3
<1>5. CASE Send(c)
  <2>1. UNCHANGED <<list, link, raced, msg, sn>> /\ pc[c] = "send"
    BY <1>5 DEF Send
  <2>2. d # c => pc'[d] = pc[d] /\ i'[d] = i[d]
    BY <1>5 DEF Send, BaseInv, TypeOK
  <2>3. CASE d = c
    <3>1. pc'[c] \in {"send", "erase"} =>
             pc'[c] = "erase" /\ i' = i /\ link[Used(c).iop] # "up"
      BY <1>5 DEF Send, BaseInv, TypeOK, Used
    <3>2. i[c] <= list[Peer(c)].size
      BY <2>1, <2>3 DEF Held
    <3>3. QED
      BY <2>1, <2>3, <3>1, <3>2 DEF Used, Peer
  <2>4. CASE d # c
    <3>1. list'[Peer(d)].size >= list[Peer(d)].size
      BY <2>1, Sides, CellEntry DEF BaseInv
    <3>2. QED
      BY <2>1, <2>2, <2>4, <3>1, StillHeld
  <2>5. QED
    BY <2>3, <2>4
<1>6. CASE Register(c)
  <2>1. UNCHANGED <<link, raced, msg, sn, i>> /\ pc[c] = "register"
    BY <1>6 DEF Register
  <2>2. CASE d = c
    BY <1>6, <2>2 DEF Register, AfterRegister, BaseInv, TypeOK
  <2>3. CASE d # c
    <3>1. pc'[d] = pc[d]
      BY <1>6, <2>3 DEF Register, BaseInv, TypeOK
    <3>2. PICK e \in Entry : list' = [list EXCEPT ![Side(c)] = Pushed(list[Side(c)], e)]
      BY <1>6, RegisterBase
    <3>3. /\ Pushed(list[Side(c)], e).size = list[Side(c)].size + 1
          /\ \A k \in 1..list[Side(c)].size :
                Pushed(list[Side(c)], e).cell[k] = list[Side(c)].cell[k]
      BY Sides, CellEntry, PushedList DEF BaseInv, InCells
    <3>4. \A s \in {"rtu", "client"} :
             list'[s] = IF s = Side(c) THEN Pushed(list[Side(c)], e) ELSE list[s]
      BY <3>2, Sides DEF BaseInv, TypeOK
    <3>5. /\ list'[Peer(d)].size >= list[Peer(d)].size
          /\ \A k \in 1..list[Peer(d)].size : list'[Peer(d)].cell[k] = list[Peer(d)].cell[k]
      BY <3>3, <3>4, Sides, CellEntry DEF BaseInv
    <3>6. QED
      BY <2>1, <3>1, <3>5, StillHeld
  <2>4. QED
    BY <2>2, <2>3
<1>7. CASE Erase(c)
  <2>1. UNCHANGED <<link, msg, sn>> /\ pc' = [pc EXCEPT ![c] = "scan"]
        /\ i' = [i EXCEPT ![c] = i[c] + 1]
        /\ raced' = raced \cup {msg[x][1] : x \in Overtaken(c)}
    BY <1>7 DEF Erase
  <2>2. CASE d = c \/ pc[d] \notin {"send", "erase"}
    BY <2>1, <2>2 DEF BaseInv, TypeOK
  <2>3. CASE d # c /\ pc[d] \in {"send", "erase"}
    <3>1. Peer(d) # Peer(c)
      BY <2>1, <2>3 DEF Overtaken
    <3>2. list'[Peer(d)] = list[Peer(d)]
      BY <1>7, <3>1, Sides DEF Erase, BaseInv, TypeOK
    <3>3. list'[Peer(d)].size >= list[Peer(d)].size
      BY <3>2, Sides, CellEntry DEF BaseInv
    <3>4. pc'[d] = pc[d] /\ i'[d] = i[d]
      BY <2>1, <2>3 DEF BaseInv, TypeOK
    <3>5. QED
      BY <2>1, <3>2, <3>3, <3>4, StillHeld
  <2>4. QED
    BY <2>2, <2>3
<1>8. CASE \E k \in 1..Len(net[c]) : Receive(c, k)
  <2>1. CASE pc'[d] \notin {"send", "erase"}
    BY <2>1
  <2>2. CASE pc'[d] \in {"send", "erase"}
    <3>1. UNCHANGED <<list, link, raced>> /\ pc'[d] = pc[d] /\ msg'[d] = msg[d]
          /\ i'[d] = i[d] /\ sn'[d] = sn[d]
      BY <1>2, <1>8, <2>2
    <3>2. list'[Peer(d)].size >= list[Peer(d)].size
      BY <3>1, Sides, CellEntry DEF BaseInv
    <3>3. QED
      BY <3>1, <3>2, StillHeld
  <2>3. QED
    BY <2>1, <2>2
<1>9. QED
  BY <1>1, <1>3, <1>5, <1>6, <1>7, <1>8 DEF Process
-----------------------------------------------------------------------------
(* The clients a handler passes over. *)

(* A handler that is left alone loses no more clients. *)
LEMMA NoMoreLost ==
    ASSUME BaseInv, NEW r \in RtuConns,
           msg'[r] = msg[r], sn'[r] = sn[r], due'[r] = due[r],
           pc'[r] = "idle" <=> pc[r] = "idle", Position(r)' = Position(r),
           \A t \in Conn : link'[t] = "up" => link[t] \in {"up", "new"},
           \A t \in Conn : ToSet(got[t]) \subseteq ToSet(got'[t]),
           \A t : Ahead(r, t) => Ahead(r, t)'
    PROVE  Lost(r)' \subseteq Lost(r)
<1>1. r \in Conn
  BY DEF Conn
<1>2. \A t \in due[r] : t \in Conn /\ (link'[t] = "up" => link[t] = "up")
  BY <1>1 DEF BaseInv, TypeOK, Opened
<1>3. QED
  BY <1>1, <1>2 DEF Lost, Missed

(* A list that only grew has what it had before. *)
LEMMA StillAhead ==
    ASSUME BaseInv, BaseInv', NEW r \in RtuConns, sn'[r] = sn[r], Position(r)' = Position(r),
           list'["client"].size >= list["client"].size,
           \A k \in 1..list["client"].size : list'["client"].cell[k] = list["client"].cell[k]
    PROVE  \A t : Ahead(r, t) => Ahead(r, t)'
<1>1. list["client"].size \in Nat /\ list'["client"].size \in Nat
  BY CellEntry DEF BaseInv, TypeOK, ListType
<1>2. 1..list["client"].size \subseteq 1..list'["client"].size
  BY <1>1
<1>3. QED
  BY <1>2 DEF Ahead

(* What a step does to the clients lost to one RTU's handler. *)
Kept(r) == Lost(r)' \subseteq Lost(r) /\ erased'[r] = erased[r]
Restarted(r) == Lost(r)' = {} /\ erased'[r] = 0
OneMore(r) == (\E x : Lost(r)' \subseteq Lost(r) \cup {x}) /\ erased'[r] = erased[r] + 1

LEMMA OutsideLost ==
    ASSUME BaseInv, BaseInv', NEW c \in Conn, NEW r \in RtuConns,
           StartFails \/ (\E s \in {"rtu", "client"} : StartServer(s)) \/ Crash(c) \/ Environment(c)
    PROVE  Kept(r)
<1>1. UNCHANGED <<list, pc, msg, sn, i, got, due, erased>>
  BY DEF StartFails, StartServer, Crash, Environment, Connect, HangUp, Close, Transmit
<1>2. \A t \in Conn : link'[t] = "up" => link[t] \in {"up", "new"}
  BY DEF StartFails, StartServer, Crash, Environment, Connect, HangUp, Close, Transmit,
         BaseInv, TypeOK
<1>3. Position(r)' = Position(r) /\ got' = got
      /\ \A t : Ahead(r, t)' <=> Ahead(r, t)
  BY <1>1 DEF Position, Ahead
<1>4. QED
  BY <1>1, <1>2, <1>3, NoMoreLost DEF Kept

LEMMA ReceiveLost ==
    ASSUME BaseInv, BaseInv', NEW c \in Conn, NEW r \in RtuConns,
           NEW k \in 1..Len(net[c]), Receive(c, k)
    PROVE  Kept(r) \/ Restarted(r)
<1>1. r \in Conn /\ UNCHANGED <<list, link, got>>
  BY DEF Receive, Conn
<1>2. CASE r # c
  <2>1. /\ msg'[r] = msg[r] /\ sn'[r] = sn[r] /\ due'[r] = due[r] /\ pc'[r] = pc[r]
        /\ i'[r] = i[r] /\ erased'[r] = erased[r]
    BY <1>1, <1>2 DEF Receive, BaseInv, TypeOK
  <2>2. Position(r)' = Position(r) /\ got' = got
        /\ \A t : Ahead(r, t)' <=> Ahead(r, t)
    BY <1>1, <2>1 DEF Position, Ahead
  <2>3. QED
    BY <1>1, <2>1, <2>2, NoMoreLost DEF Kept
<1>3. CASE r = c
  <2>1. PICK a \in Addresses(SubSeq(net[c], 1, k)) : sn'[c] = a /\ due'[c] = Subscribers(a)
    BY <1>3 DEF Receive, BaseInv, TypeOK
  <2>2. i'[c] = 1 /\ erased'[c] = 0 /\ pc'[c] \notin {"idle", "erase"}
    BY <1>1, <1>3 DEF Receive, AfterRegister, BaseInv, TypeOK
  <2>3. Position(c)' = 1
    BY <2>2 DEF Position
  <2>4. ASSUME NEW t \in Subscribers(a) PROVE Ahead(c, t)'
    <3>1. PICK x \in 1..list["client"].size :
             list["client"].cell[x].sn = a /\ list["client"].cell[x].iop = t
      BY DEF Subscribers, Entries
    <3>2. list["client"].size \in Nat /\ x \in 1..Len(list["client"].cell)
      BY CellEntry DEF BaseInv, InCells
    <3>3. list["client"].cell[x] \in Entry
      BY <3>2, CellEntry DEF BaseInv
    <3>4. list["client"].cell[x] = [iop |-> t, sn |-> a]
      BY <3>1, <3>3 DEF Entry
    <3>5. x >= 1 /\ list' = list
      BY <1>1, <3>2
    <3>6. QED
      BY <2>1, <2>3, <3>4, <3>5 DEF Ahead
  <2>5. Lost(c)' = {}
    BY <2>1, <2>2, <2>4 DEF Lost, Missed
  <2>6. QED
    BY <1>3, <2>2, <2>5 DEF Restarted
<1>4. QED
  BY <1>2, <1>3

LEMMA RegisterLost ==
    ASSUME BaseInv, BaseInv', NEW c \in Conn, NEW r \in RtuConns, Register(c)
    PROVE  Kept(r)
<1>1. r \in Conn /\ UNCHANGED <<link, msg, sn, i, got, due, erased>>
  BY DEF Register, Conn
<1>2. /\ pc'[r] = "idle" <=> pc[r] = "idle"
      /\ pc'[r] = "erase" <=> pc[r] = "erase"
  BY <1>1 DEF Register, AfterRegister, BaseInv, TypeOK
<1>3. Position(r)' = Position(r) /\ got' = got
  BY <1>1, <1>2 DEF Position
<1>4. PICK e \in Entry : list' = [list EXCEPT ![Side(c)] = Pushed(list[Side(c)], e)]
  BY RegisterBase
<1>5. /\ Pushed(list[Side(c)], e).size = list[Side(c)].size + 1
      /\ \A k \in 1..list[Side(c)].size :
            Pushed(list[Side(c)], e).cell[k] = list[Side(c)].cell[k]
  BY Sides, CellEntry, PushedList DEF BaseInv, InCells
<1>6. list'["client"] = IF Side(c) = "client" THEN Pushed(list[Side(c)], e) ELSE list["client"]
  BY <1>4, Sides DEF BaseInv, TypeOK
<1>7. /\ list'["client"].size >= list["client"].size
      /\ \A k \in 1..list["client"].size : list'["client"].cell[k] = list["client"].cell[k]
  BY <1>5, <1>6, CellEntry DEF BaseInv
<1>8. \A t : Ahead(r, t) => Ahead(r, t)'
  BY <1>1, <1>3, <1>7, StillAhead
<1>9. QED
  BY <1>1, <1>2, <1>3, <1>8, NoMoreLost DEF Kept

(* A handler that has returned has lost no one. *)
LEMMA ReturnLost ==
    ASSUME BaseInv, NEW c \in Conn, NEW r \in RtuConns, Return(c), UNCHANGED <<link, list, got>>
    PROVE  Kept(r) \/ Restarted(r)
<1>1. r \in Conn
  BY DEF Conn
<1>2. CASE r = c
  BY <1>1, <1>2 DEF Return, Restarted, Lost, BaseInv, TypeOK
<1>3. CASE r # c
  <2>1. /\ pc'[r] = pc[r] /\ msg'[r] = msg[r] /\ sn'[r] = sn[r] /\ i'[r] = i[r]
        /\ due'[r] = due[r] /\ erased'[r] = erased[r]
    BY <1>1, <1>3 DEF Return, BaseInv, TypeOK
  <2>2. Position(r)' = Position(r) /\ \A t : Ahead(r, t)' <=> Ahead(r, t)
    BY <2>1 DEF Position, Ahead
  <2>3. QED
    BY <2>1, <2>2, NoMoreLost DEF Kept
<1>4. QED
  BY <1>2, <1>3

LEMMA LookupLost ==
    ASSUME BaseInv, BaseInv', NEW c \in Conn, NEW r \in RtuConns, Lookup(c)
    PROVE  Kept(r) \/ Restarted(r)
<1>1. r \in Conn /\ r # c /\ UNCHANGED <<list, link, got>>
  BY DEF Lookup, BaseInv, NoLookup, Conn
<1>2. CASE Return(c)
  BY <1>1, <1>2, ReturnLost
<1>3. CASE ~ Return(c)
  <2>1. pc'[r] = pc[r] /\ i'[r] = i[r] /\ sn'[r] = sn[r] /\ UNCHANGED <<msg, due, erased>>
    BY <1>1, <1>3 DEF Lookup, BaseInv, TypeOK
  <2>2. Position(r)' = Position(r) /\ \A t : Ahead(r, t)' <=> Ahead(r, t)
    BY <1>1, <2>1 DEF Position, Ahead
  <2>3. QED
    BY <1>1, <2>1, <2>2, NoMoreLost DEF Kept
<1>4. QED
  BY <1>2, <1>3

LEMMA ScanLost ==
    ASSUME BaseInv, BaseInv', NEW c \in Conn, NEW r \in RtuConns, Scan(c)
    PROVE  Kept(r) \/ Restarted(r)
<1>1. r \in Conn /\ pc[c] = "scan" /\ UNCHANGED <<list, link, got>>
  BY DEF Scan, Conn
<1>2. CASE Return(c)
  BY <1>1, <1>2, ReturnLost
<1>3. CASE ~ Return(c) /\ r # c
  <2>1. pc'[r] = pc[r] /\ i'[r] = i[r] /\ UNCHANGED <<msg, sn, due, erased>>
    BY <1>1, <1>3 DEF Scan, BaseInv, TypeOK
  <2>2. Position(r)' = Position(r) /\ \A t : Ahead(r, t)' <=> Ahead(r, t)
    BY <1>1, <2>1 DEF Position, Ahead
  <2>3. QED
    BY <1>1, <2>1, <2>2, NoMoreLost DEF Kept
<1>4. CASE ~ Return(c) /\ r = c
  <2> DEFINE l == list["client"]
  <2>1. Peer(r) = "client" /\ l.size \in Nat /\ i[r] \in Nat \ {0} /\ msg[r] # <<>>
    BY <1>1, <1>4, CellEntry DEF Peer, BaseInv, TypeOK, OwnFrames
  <2>2. UNCHANGED <<msg, sn, due, erased>>
    BY <1>4 DEF Scan
  <2>3. CASE pc' = [pc EXCEPT ![c] = "send"] /\ i' = i
    <3>1. pc'[r] = "send" /\ i' = i
      BY <1>1, <1>4, <2>3 DEF BaseInv, TypeOK
    <3>2. Position(r)' = Position(r) /\ \A t : Ahead(r, t)' <=> Ahead(r, t)
      BY <1>1, <1>4, <2>2, <3>1 DEF Position, Ahead
    <3>3. QED
      BY <1>1, <1>4, <2>2, <3>1, <3>2, NoMoreLost DEF Kept
  <2>4. CASE l.cell[i[r]].sn # sn[r] /\ pc' = pc /\ i' = [i EXCEPT ![r] = i[r] + 1]
    <3>1. Position(r) = i[r] /\ Position(r)' = i[r] + 1
      BY <1>1, <1>4, <2>4 DEF Position, BaseInv, TypeOK
    <3>2. ASSUME NEW t, Ahead(r, t) PROVE Ahead(r, t)'
      <4>1. PICK k \in 1..l.size : k >= i[r] /\ l.cell[k] = [iop |-> t, sn |-> sn[r]]
        BY <3>1, <3>2 DEF Ahead
      <4>2. k # i[r]
        BY <2>4, <4>1
      <4>3. k >= i[r] + 1
        BY <2>1, <4>1, <4>2
      <4>4. QED
        BY <1>1, <2>2, <3>1, <4>1, <4>3 DEF Ahead
    <3>3. due[r] \subseteq Conn
      BY <1>1 DEF BaseInv, TypeOK
    <3>4. QED
      BY <1>1, <1>4, <2>2, <2>4, <3>2, <3>3 DEF Kept, Lost, Missed
  <2>5. QED
    BY <1>4, <2>1, <2>3, <2>4 DEF Scan
<1>5. QED
  BY <1>2, <1>3, <1>4

LEMMA SendLost ==
    ASSUME BaseInv, BaseInv', NEW c \in Conn, NEW r \in RtuConns, Send(c)
    PROVE  Kept(r)
<1>1. r \in Conn /\ pc[c] = "send" /\ UNCHANGED <<list, link, msg, sn, due, erased>>
  BY DEF Send, Conn
<1>2. Used(c).iop \in Conn /\ msg[c] # <<>> /\ msg[c][1].from = c
  BY <1>1, UsedEntry DEF BaseInv, OwnFrames
<1>3. \A t \in Conn : ToSet(got[t]) \subseteq ToSet(got'[t])
  <2>1. \A t \in Conn : got[t] \in Seq(Frame)
    BY DEF BaseInv, TypeOK
  <2>2. ASSUME NEW t \in Conn, NEW f PROVE ToSet(got[t]) \subseteq ToSet(Append(got[t], f))
    BY <2>1 DEF ToSet
  <2>3. got' = got \/ \E f : got' = [got EXCEPT ![Used(c).iop] = Append(got[Used(c).iop], f)]
    BY DEF Send, Used
  <2>4. \A t \in Conn : got'[t] = got[t] \/ \E f : got'[t] = Append(got[t], f)
    BY <2>3 DEF BaseInv, TypeOK
  <2>5. QED
    BY <2>2, <2>4
<1>4. CASE r # c
  <2>1. pc'[r] = pc[r] /\ i'[r] = i[r]
    BY <1>1, <1>4 DEF Send, BaseInv, TypeOK
  <2>2. Position(r)' = Position(r) /\ \A t : Ahead(r, t)' <=> Ahead(r, t)
    BY <1>1, <2>1 DEF Position, Ahead
  <2>3. QED
    BY <1>1, <1>3, <2>1, <2>2, NoMoreLost DEF Kept
<1>5. CASE r = c
  <2> DEFINE x == Used(r).iop
  <2>1. Peer(r) = "client" /\ i[r] \in Nat \ {0} /\ list["client"].size \in Nat
        /\ Used(r) = list["client"].cell[i[r]]
    BY <1>1, CellEntry DEF Peer, BaseInv, TypeOK, Used
  <2> DEFINE f == msg[r][1]
  <2>2. /\ pc'[r] \in {"scan", "erase"} /\ Position(r) = i[r] /\ Position(r)' = i[r] + 1
        /\ (link[x] # "up" \/ got'[x] = Append(got[x], f))
    <3>1. Position(r) = i[r]
      BY <1>1, <1>5 DEF Position
    <3>2. \/ /\ got' = [got EXCEPT ![x] = Append(got[x], f)]
             /\ i' = [i EXCEPT ![r] = i[r] + 1] /\ pc' = [pc EXCEPT ![r] = "scan"]
          \/ link[x] # "up" /\ i' = i /\ pc' = [pc EXCEPT ![r] = "erase"]
      BY <1>5 DEF Send, Used
    <3> HIDE DEF x, f
    <3>3. CASE /\ got' = [got EXCEPT ![x] = Append(got[x], f)]
               /\ i' = [i EXCEPT ![r] = i[r] + 1] /\ pc' = [pc EXCEPT ![r] = "scan"]
      <4>1. i'[r] = i[r] + 1 /\ pc'[r] = "scan"
        BY <1>1, <3>3 DEF BaseInv, TypeOK
      <4>2. got'[x] = Append(got[x], f)
        BY <1>2, <1>5, <3>3 DEF BaseInv, TypeOK, x
      <4>3. QED
        BY <3>1, <4>1, <4>2 DEF Position
    <3>4. CASE link[x] # "up" /\ i' = i /\ pc' = [pc EXCEPT ![r] = "erase"]
      BY <1>1, <3>1, <3>4 DEF BaseInv, TypeOK, Position
    <3>5. QED
      BY <3>2, <3>3, <3>4
  <2>3. ASSUME NEW t \in Lost(r)' PROVE t \in Lost(r)
    <3>1. t \in due[r] /\ link[t] = "up" /\ msg[r][1] \notin ToSet(got'[t])
          /\ ~ Ahead(r, t)' /\ t \in Conn
      BY <1>1, <2>2 DEF Lost, Missed, BaseInv, TypeOK
    <3>2. msg[r][1] \notin ToSet(got[t])
      BY <1>3, <3>1
    <3>3. ASSUME Ahead(r, t) PROVE FALSE
      <4>1. PICK k \in 1..list["client"].size :
               k >= i[r] /\ list["client"].cell[k] = [iop |-> t, sn |-> sn[r]]
        BY <2>2, <3>3 DEF Ahead
      <4>2. ~ (k >= i[r] + 1)
        BY <1>1, <2>2, <3>1, <4>1 DEF Ahead
      <4>3. k = i[r]
        BY <2>1, <4>1, <4>2
      <4>4. x = t
        BY <2>1, <4>1, <4>3
      <4>5. got'[t] = Append(got[t], msg[r][1])
        BY <2>2, <3>1, <4>4
      <4>6. msg[r][1] \in ToSet(got'[t])
        <5>1. got[t] \in Seq(Frame)
          BY <3>1 DEF BaseInv, TypeOK
        <5>2. Len(got[t]) + 1 \in DOMAIN got'[t] /\ got'[t][Len(got[t]) + 1] = msg[r][1]
          BY <4>5, <5>1
        <5>3. QED
          BY <5>2 DEF ToSet
      <4>7. QED
        BY <1>2, <1>5, <3>1, <4>6
    <3>4. QED
      BY <1>1, <1>5, <3>1, <3>2, <3>3 DEF Lost, Missed
  <2>4. QED
    BY <1>1, <2>3 DEF Kept
<1>6. QED
  BY <1>4, <1>5

LEMMA EraseLost ==
    ASSUME BaseInv, BaseInv', NEW c \in Conn, NEW r \in RtuConns, Erase(c)
    PROVE  Kept(r) \/ OneMore(r)
<1> DEFINE l == list["client"]
           new == Without(l, Used(c))
<1>1. /\ r \in Conn /\ pc[c] = "erase" /\ UNCHANGED <<link, msg, sn, got, due>>
      /\ pc' = [pc EXCEPT ![c] = "scan"] /\ i' = [i EXCEPT ![c] = i[c] + 1]
      /\ list' = [list EXCEPT ![Peer(c)] = Without(list[Peer(c)], Used(c))]
      /\ erased' = [d \in Conn |-> IF Peer(d) = Peer(c) /\ pc[d] # "idle"
                                   THEN erased[d] + 1 ELSE erased[d]]
  BY DEF Erase, Used, Conn
<1>2. Peer(r) = "client"
  BY DEF Peer
<1>3. Position(r)' = Position(r) /\ Position(r) \in Nat \ {0}
      /\ (pc'[r] = "idle" <=> pc[r] = "idle")
  <2>1. i[r] \in Nat \ {0}
    BY <1>1 DEF BaseInv, TypeOK
  <2>2. CASE r = c
    <3>1. pc'[r] = "scan" /\ i'[r] = i[r] + 1 /\ pc[r] = "erase"
      BY <1>1, <2>2 DEF BaseInv, TypeOK
    <3>2. QED
      BY <2>1, <3>1 DEF Position
  <2>3. CASE r # c
    <3>1. pc'[r] = pc[r] /\ i'[r] = i[r]
      BY <1>1, <2>3 DEF BaseInv, TypeOK
    <3>2. QED
      BY <2>1, <3>1 DEF Position
  <2>4. QED
    BY <2>2, <2>3
<1>4. got' = got
  BY <1>1
<1>5. CASE pc[r] = "idle"
  BY <1>1, <1>3, <1>5 DEF Kept, Lost, BaseInv, TypeOK
<1>6. CASE Peer(c) # "client"
  <2>1. list'["client"] = l /\ erased'[r] = erased[r]
    BY <1>1, <1>2, <1>6 DEF BaseInv, TypeOK
  <2>2. \A t : Ahead(r, t)' <=> Ahead(r, t)
    BY <1>1, <1>3, <2>1 DEF Ahead
  <2>3. QED
    BY <1>1, <1>3, <1>4, <2>1, <2>2, NoMoreLost DEF Kept
<1>7. CASE Peer(c) = "client" /\ pc[r] # "idle"
  <2>1. list'["client"] = new /\ erased'[r] = erased[r] + 1
    BY <1>1, <1>2, <1>7 DEF BaseInv, TypeOK
  <2>2. PICK j \in Nat : \A k \in 1..l.size : k >= Position(r) /\ k # j =>
            \E m \in 1..new.size : m >= Position(r) /\ new.cell[m] = l.cell[k]
    <3>1. l \in ListType /\ l.size <= Len(l.cell)
      BY CellEntry DEF BaseInv, InCells
    <3>2. AllButOne(l, new, Position(r))
      BY <1>3, <3>1, WithoutShift
    <3>3. QED
      BY <3>2 DEF AllButOne
  <2> HIDE DEF new
  <2>3. ASSUME NEW t, Ahead(r, t), t # l.cell[j].iop PROVE Ahead(r, t)'
    <3>1. PICK k \in 1..l.size : k >= Position(r) /\ l.cell[k] = [iop |-> t, sn |-> sn[r]]
      BY <2>3 DEF Ahead
    <3>2. k # j
      BY <2>3, <3>1
    <3>3. PICK m \in 1..new.size : m >= Position(r) /\ new.cell[m] = l.cell[k]
      BY <2>2, <3>1, <3>2
    <3>4. QED
      BY <1>1, <1>3, <2>1, <3>1, <3>3 DEF Ahead
  <2>4. due[r] \subseteq Conn
    BY <1>1 DEF BaseInv, TypeOK
  <2>5. Lost(r)' \subseteq Lost(r) \cup {l.cell[j].iop}
    BY <1>1, <1>3, <1>4, <2>3, <2>4 DEF Lost, Missed
  <2>6. QED
    BY <2>1, <2>5 DEF OneMore
<1>8. QED
  BY <1>5, <1>6, <1>7

(* Whichever of the three it is, the bound holds again. *)
LEMMA BoundKept ==
    ASSUME BaseInv, LostBounded, NEW r \in RtuConns, Kept(r) \/ Restarted(r) \/ OneMore(r)
    PROVE  IsFiniteSet(Lost(r)') /\ Cardinality(Lost(r)') <= erased'[r]
<1>1. IsFiniteSet(Lost(r)) /\ Cardinality(Lost(r)) <= erased[r] /\ erased[r] \in Nat
      /\ Cardinality(Lost(r)) \in Nat
  BY FS_CardinalityType DEF LostBounded, BaseInv, TypeOK, Conn
<1>2. CASE Kept(r)
  <2>1. IsFiniteSet(Lost(r)') /\ Cardinality(Lost(r)') <= Cardinality(Lost(r))
    BY <1>1, <1>2, FS_Subset DEF Kept
  <2>2. Cardinality(Lost(r)') \in Nat
    BY <2>1, FS_CardinalityType
  <2>3. QED
    BY <1>1, <1>2, <2>1, <2>2 DEF Kept
<1>3. CASE Restarted(r)
  BY <1>3, FS_EmptySet DEF Restarted
<1>4. CASE OneMore(r)
  <2>1. PICK x : Lost(r)' \subseteq Lost(r) \cup {x}
    BY <1>4 DEF OneMore
  <2>2. IsFiniteSet(Lost(r) \cup {x}) /\ Cardinality(Lost(r) \cup {x}) <= Cardinality(Lost(r)) + 1
        /\ Cardinality(Lost(r) \cup {x}) \in Nat
    <3>1. IsFiniteSet(Lost(r) \cup {x})
          /\ Cardinality(Lost(r) \cup {x}) =
                IF x \in Lost(r) THEN Cardinality(Lost(r)) ELSE Cardinality(Lost(r)) + 1
      BY <1>1, FS_AddElement
    <3>2. QED
      BY <1>1, <3>1
  <2>3. IsFiniteSet(Lost(r)') /\ Cardinality(Lost(r)') <= Cardinality(Lost(r) \cup {x})
    BY <2>1, <2>2, FS_Subset
  <2>4. Cardinality(Lost(r)') \in Nat
    BY <2>3, FS_CardinalityType
  <2>5. QED
    BY <1>1, <1>4, <2>2, <2>3, <2>4 DEF OneMore
<1>5. QED
  BY <1>2, <1>3, <1>4
-----------------------------------------------------------------------------
(* The theorems. *)

LEMMA InvStep == Inv /\ [Next]_vars => Inv'
<1> SUFFICES ASSUME Inv, [Next]_vars PROVE Inv'
  OBVIOUS
<1> USE DEF Inv
<1>1. ASSUME NEW c \in Conn,
             StartFails \/ (\E s \in {"rtu", "client"} : StartServer(s)) \/ Crash(c)
             \/ Environment(c)
      PROVE  Inv'
  <2>1. BaseInv'
    BY <1>1, OutsideBase
  <2>2. Held'
    BY <1>1, <2>1, HeldStep
  <2>3. \A r \in RtuConns : Kept(r)
    BY <1>1, <2>1, OutsideLost
  <2>4. QED
    BY <2>1, <2>2, <2>3, BoundKept DEF LostBounded
<1>2. ASSUME NEW c \in Conn, NEW k \in 1..Len(net[c]), Receive(c, k) PROVE Inv'
  <2>1. BaseInv'
    BY <1>2, ReceiveBase
  <2>2. Held'
    BY <1>2, <2>1, HeldStep
  <2>3. \A r \in RtuConns : Kept(r) \/ Restarted(r)
    BY <1>2, <2>1, ReceiveLost
  <2>4. QED
    BY <2>1, <2>2, <2>3, BoundKept DEF LostBounded
<1>3. ASSUME NEW c \in Conn, Process(c) PROVE Inv'
  <2>1. BaseInv'
    BY <1>3, RegisterBase, LookupBase, ScanBase, SendBase, EraseBase DEF Process
  <2>2. Held'
    BY <1>3, <2>1, HeldStep
  <2>3. \A r \in RtuConns : Kept(r) \/ Restarted(r) \/ OneMore(r)
    BY <1>3, <2>1, RegisterLost, LookupLost, ScanLost, SendLost, EraseLost DEF Process
  <2>4. QED
    BY <2>1, <2>2, <2>3, BoundKept DEF LostBounded
<1>4. CASE StartFails \/ \E s \in {"rtu", "client"} : StartServer(s)
  <2>1. UNCHANGED <<link, net, sent, list, pc, msg, sn, i, got, due, erased, raced>>
    BY <1>4 DEF StartFails, StartServer
  <2>2. BaseInv'
    BY <2>1 DEF BaseInv, TypeOK, NoLookup, InCells, OwnFrames, Opened, OwnNumber
  <2>3. Held' /\ LostBounded'
    BY <2>1 DEF Held, LostBounded, Used, Lost, Missed, Ahead, Position
  <2>4. QED
    BY <2>2, <2>3
<1>5. CASE UNCHANGED vars
  <2>1. BaseInv'
    BY <1>5 DEF vars, BaseInv, TypeOK, NoLookup, InCells, OwnFrames, Opened, OwnNumber
  <2>2. Held' /\ LostBounded'
    BY <1>5 DEF vars, Held, LostBounded, Used, Lost, Missed, Ahead, Position
  <2>3. QED
    BY <2>1, <2>2
<1>6. QED
  BY <1>1, <1>2, <1>3, <1>4, <1>5 DEF Next

THEOREM Invariance == Spec => []Inv
<1>1. Init => Inv
  BY InitBase DEF Inv
<1>2. QED
  BY <1>1, InvStep, PTL DEF Spec

(* A handler passes over no more registered, connected clients than         *)
(* connections were erased from the list while it walked it.                *)
THEOREM PassedOverBounded == Spec => []MissedAtMostErased
<1>1. Inv => MissedAtMostErased
  <2> SUFFICES ASSUME Inv, NEW r \in RtuConns, AtEnd(r)
               PROVE  Cardinality(Missed(r)) <= erased[r]
    BY DEF MissedAtMostErased
  <2>1. list["client"].size \in Nat /\ i[r] \in Nat /\ due[r] \subseteq Conn
    BY CellEntry DEF Inv, BaseInv, TypeOK, Conn
  <2>2. \A t : ~ Ahead(r, t)
    BY <2>1 DEF AtEnd, Ahead, Position
  <2>3. Lost(r) = Missed(r)
    BY <2>2 DEF AtEnd, Lost, Missed
  <2>4. QED
    BY <2>3 DEF Inv, LostBounded
<1>2. QED
  BY <1>1, Invariance, PTL

(* What a client is sent: only the step of a handler sends. *)
LEMMA OnlySends ==
    ASSUME BaseInv, [Next]_vars, got' # got
    PROVE  \E c \in Conn : Send(c) /\ got' = [got EXCEPT ![Used(c).iop] =
                                                Append(got[Used(c).iop], msg[c][1])]
<1>1. PICK c \in Conn : Send(c)
  BY DEF Next, vars, StartFails, StartServer, Environment, Connect, HangUp, Close, Transmit,
         Receive, Crash, Process, Register, Lookup, Scan, Erase
<1>2. got' = [got EXCEPT ![Used(c).iop] = Append(got[Used(c).iop], msg[c][1])]
  BY <1>1 DEF Send, Used
<1>3. QED
  BY <1>1, <1>2

(* What an RTU sends, a whole frame or a part of one, goes only to a client *)
(* that is registered at that moment for the number its handler has read    *)
(* there, unless the handler was overtaken.                                 *)
THEOREM SubscribersOnly == Spec => OnlySubscribersServed
<1> DEFINE Served == \A t \in ClientConns :
        got'[t] # got[t]
            => LET f == Last(got'[t]) IN
               f \notin raced
                   => /\ f.from \in RtuConns
                      /\ [iop |-> t, sn |-> sn[f.from]] \in Entries(list["client"])
                      /\ sn[f.from] \in Addresses(msg[f.from])
<1>1. Inv /\ [Next]_vars => Served
  <2> SUFFICES ASSUME Inv, [Next]_vars, NEW t \in ClientConns, got'[t] # got[t],
                      Last(got'[t]) \notin raced
               PROVE  LET f == Last(got'[t])
                      IN  /\ f.from \in RtuConns
                          /\ [iop |-> t, sn |-> sn[f.from]] \in Entries(list["client"])
                          /\ sn[f.from] \in Addresses(msg[f.from])
    OBVIOUS
  <2> USE DEF Inv
  <2>1. PICK c \in Conn : /\ Send(c)
                          /\ got' = [got EXCEPT ![Used(c).iop] = Append(got[Used(c).iop], msg[c][1])]
    BY OnlySends
  <2>2. t \in Conn /\ got[t] \in Seq(Frame) /\ got \in [Conn -> Seq(Frame)]
    BY DEF Conn, BaseInv, TypeOK
  <2>3. t = Used(c).iop /\ got'[t] = Append(got[t], msg[c][1])
    BY <2>1, <2>2
  <2>4. Last(got'[t]) = msg[c][1]
    BY <2>2, <2>3 DEF Last
  <2>5. pc[c] = "send" /\ msg[c] # <<>> /\ msg[c][1].from = c
    BY <2>1 DEF Send, BaseInv, OwnFrames
  <2>6. c \in RtuConns /\ Peer(c) = "client"
    <3>1. i[c] \in 1..Len(list[Peer(c)].cell) /\ Peer(c) \in {"rtu", "client"}
      BY <2>5, UsedEntry, Sides
    <3>2. Side(t) = Peer(c)
      BY <2>3, <3>1 DEF BaseInv, Opened, Used
    <3>3. Side(t) = "client"
      BY ConnAssumption DEF Side
    <3>4. QED
      BY <3>2, <3>3, Sides
  <2>7. i[c] <= list["client"].size /\ Used(c).sn = sn[c]
    BY <2>4, <2>5, <2>6 DEF Held
  <2>8. Used(c) = [iop |-> t, sn |-> sn[c]]
    BY <2>3, <2>5, <2>7, UsedEntry DEF Entry
  <2>9. i[c] \in 1..list["client"].size
    BY <2>7, CellEntry DEF BaseInv, TypeOK
  <2>10. sn[c] \in Addresses(msg[c])
    BY <2>5, <2>6 DEF BaseInv, OwnNumber
  <2>11. QED
    BY <2>4, <2>5, <2>6, <2>8, <2>9, <2>10 DEF Entries, Used
<1>2. [][Served]_vars <=> OnlySubscribersServed
  BY DEF OnlySubscribersServed
<1>3. QED
  BY <1>1, <1>2, Invariance, PTL DEF Spec

(* A registration is lost only with its connection, or to a handler that    *)
(* was overtaken.                                                           *)
THEOREM FailedOnly == Spec => OnlyFailedErased
<1> DEFINE Fair == \A s \in {"rtu", "client"} :
        \A e \in Entries(list[s]) \ Entries(list'[s]) :
            link[e.iop] # "up"
            \/ \E c \in Conn : pc[c] = "erase" /\ pc'[c] = "scan" /\ msg[c][1] \in raced
<1>1. Inv /\ [Next]_vars => Fair
  <2> SUFFICES ASSUME Inv, [Next]_vars, NEW s \in {"rtu", "client"},
                      NEW e \in Entries(list[s]) \ Entries(list'[s])
               PROVE  link[e.iop] # "up"
                      \/ \E c \in Conn : pc[c] = "erase" /\ pc'[c] = "scan" /\ msg[c][1] \in raced
    OBVIOUS
  <2> USE DEF Inv
  <2>1. list' # list
    OBVIOUS
  <2>2. PICK c \in Conn : Register(c) \/ Erase(c)
    BY <2>1 DEF Next, vars, StartFails, StartServer, Environment, Connect, HangUp, Close, Transmit,
       Receive, Crash, Process, Lookup, Scan, Send
  <2>3. list[s].size \in Nat /\ list[s] \in ListType /\ list[s].size <= Len(list[s].cell)
    BY CellEntry DEF BaseInv, InCells
  <2>4. CASE Register(c)
    <3>1. PICK n \in Entry : list' = [list EXCEPT ![Side(c)] = Pushed(list[Side(c)], n)]
      BY <2>4, RegisterBase
    <3>2. s = Side(c) /\ list'[s] = Pushed(list[s], n)
      BY <2>3, <3>1, Sides DEF BaseInv, TypeOK
    <3>3. /\ Pushed(list[s], n).size = list[s].size + 1
          /\ \A k \in 1..list[s].size : Pushed(list[s], n).cell[k] = list[s].cell[k]
      BY <2>3, PushedList
    <3>4. Entries(list[s]) \subseteq Entries(list'[s])
      BY <2>3, <3>2, <3>3 DEF Entries
    <3>5. QED
      BY <3>4
  <2>5. CASE Erase(c)
    <3>1. /\ pc[c] = "erase" /\ pc' = [pc EXCEPT ![c] = "scan"]
          /\ list' = [list EXCEPT ![Peer(c)] = Without(list[Peer(c)], Used(c))]
      BY <2>5 DEF Erase, Used
    <3>2. s = Peer(c) /\ list'[s] = Without(list[s], Used(c))
      BY <3>1, Sides DEF BaseInv, TypeOK
    <3>3. e = Used(c)
      BY <2>3, <3>2, WithoutRemoves
    <3>4. msg[c] # <<>> /\ pc'[c] = "scan"
      BY <3>1 DEF BaseInv, OwnFrames, TypeOK
    <3>5. QED
      BY <3>1, <3>3, <3>4 DEF Held
  <2>6. QED
    BY <2>2, <2>4, <2>5
<1>2. [][Fair]_vars <=> OnlyFailedErased
  BY DEF OnlyFailedErased
<1>3. QED
  BY <1>1, <1>2, Invariance, PTL DEF Spec
=============================================================================
