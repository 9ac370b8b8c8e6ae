------------------------------ MODULE TransServer ------------------------------
(***************************************************************************)
(* The transfer server (trans/trans.cpp, trans/iop_queue.cpp).  RTUs       *)
(* connect to one port and clients to another; a frame of an RTU goes to   *)
(* every client registered for its serial number, a frame of a client to   *)
(* every RTU registered under the serial number of the client.  Each port  *)
(* is served by a pool of ten threads of libiop (a binary library): a      *)
(* connection belongs to one thread, so every connection is modelled as a  *)
(* process of its own that handles its messages one after the other.       *)
(*                                                                         *)
(* The two lists of connections, m_client and m_rtu, are vectors that all  *)
(* threads use without the mutex iop_queue declares.  One operation of a   *)
(* vector (push_back, erase, the test of size(), the read of an element)   *)
(* is a step; a push_back that may move the vector while another thread    *)
(* uses it may also end the process (Crash).                               *)
(*                                                                         *)
(* The connections carry bytes, and nothing puts them together to frames   *)
(* again: a handler is called with whatever has arrived.  So a frame is    *)
(* sent here as its parts, and a message is any number of the next parts:  *)
(* a frame and the beginning of another, or the rest of one.               *)
(***************************************************************************)
EXTENDS Integers, SequencesExt

CONSTANTS
    RtuConns,     \* connections to RTU_PORT, at most one per RTU at a time
    ClientConns,  \* connections to CLIENT_PORT
    Sns,          \* serial numbers of RTUs
    StartSn,      \* the number a client gets for a STARTDT frame: 1
    Sn,           \* the number of an RTU, or of the user of a client
    Kinds,        \* bound: the kinds of frames each peer sends
    MaxFrames,    \* bound: how many frames each peer sends
    Parts,        \* bound: in how many parts a frame of each peer may arrive
    Guises,       \* bound: what a part of a frame of each peer may look like
    MayHangUp     \* bound: the connections whose peer may go away

(* "wrong": a login of a client with a name or password that the data base  *)
(* does not have.                                                           *)
AllKinds == {"login", "wrong", "data", "short", "startdt"}

Conn == RtuConns \cup ClientConns

ASSUME SnAssumption   == StartSn \in Sns /\ Sn \in [Conn -> Sns]
ASSUME ConnAssumption == RtuConns \cap ClientConns = {}
ASSUME KindsAssumption  == Kinds \in [Conn -> SUBSET AllKinds]
ASSUME MaxFramesAssumption == MaxFrames \in [Conn -> Nat]
ASSUME PartsAssumption  == Parts \in [Conn -> Nat \ {0}]
ASSUME GuisesAssumption == Guises \in [Conn -> SUBSET AllKinds]

VARIABLES
    serving, \* the sides whose server listens
    link,    \* state of each connection: new, up, hungup (by the peer), closed
    net,     \* the parts of frames sent by the peer and not read yet
    sent,    \* frames sent so far on each connection (they are numbered)
    list,    \* m_rtu and m_client: `cell' is the storage, `size' its used part
    pc,      \* where the handler of each connection is
    msg,     \* buf: the parts the handler was called with
    sn,      \* rtu_sn
    i,       \* the loop index
    up,      \* the process runs
    got,     \* history: the messages each connection was sent, by their first part
    due,     \* history: clients registered for the message when it was read
    erased,  \* history: erasures while the handler scanned the list
    raced    \* history: messages whose handler another one overtook (see Erase)

vars == <<serving, link, net, sent, list, pc, msg, sn, i, up, got, due, erased, raced>>

Side(c) == IF c \in RtuConns THEN "rtu" ELSE "client"
Peer(c) == IF c \in RtuConns THEN "client" ELSE "rtu"

Frame == [kind : AllKinds, from : Conn, n : Nat, part : Nat]

Entry == [iop : Conn, sn : Sns]

Entries(l) == {l.cell[k] : k \in 1..l.size}

Init ==
    /\ serving = {}
    /\ link = [c \in Conn |-> "new"]
    /\ net = [c \in Conn |-> <<>>]
    /\ sent = [c \in Conn |-> 0]
    /\ list = [s \in {"rtu", "client"} |-> [cell |-> <<>>, size |-> 0]]
    /\ pc = [c \in Conn |-> "idle"]
    /\ msg = [c \in Conn |-> <<>>]
    /\ sn = [c \in Conn |-> StartSn]
    /\ i = [c \in Conn |-> 1]
    /\ up = TRUE
    /\ got = [c \in Conn |-> <<>>]
    /\ due = [c \in Conn |-> {}]
    /\ erased = [c \in Conn |-> 0]
    /\ raced = {}

-----------------------------------------------------------------------------
(* main() starts one thread for each side, which listens. *)
StartServer(s) ==
    /\ s \notin serving /\ serving' = serving \cup {s}
    /\ UNCHANGED <<link, net, sent, list, pc, msg, sn, i, up, got, due, erased, raced>>

(* Without a thread, or without the data base of the users, it exits. *)
StartFails ==
    /\ serving # {"rtu", "client"}
    /\ up' = FALSE
    /\ UNCHANGED <<serving, link, net, sent, list, pc, msg, sn, i, got, due, erased, raced>>

-----------------------------------------------------------------------------
(* The peers. *)

SamePeer(c) == {d \in Conn : d = c \/ (Side(d) = "rtu" /\ Side(c) = "rtu" /\ Sn[d] = Sn[c])}

(* An RTU connects again only after it gave its last connection up.         *)
Connect(c) ==
    /\ link[c] = "new" /\ Side(c) \in serving
    /\ \A d \in SamePeer(c) : link[d] # "up"
    /\ link' = [link EXCEPT ![c] = "up"]
    /\ UNCHANGED <<serving, net, sent, list, pc, msg, sn, i, up, got, due, erased, raced>>

(* A frame is known by its connection and its number on it. *)
Transmit(c, kind) ==
    /\ link[c] = "up"
    /\ sent[c] < MaxFrames[c]
    /\ sent' = [sent EXCEPT ![c] = @ + 1]
    /\ net' = [net EXCEPT ![c] = @ \o
                 [p \in 1..Parts[c] |-> [kind |-> kind, from |-> c, n |-> sent[c] + 1, part |-> p]]]
    /\ UNCHANGED <<serving, link, list, pc, msg, sn, i, up, got, due, erased, raced>>

HangUp(c) ==
    /\ c \in MayHangUp
    /\ link[c] = "up"
    /\ link' = [link EXCEPT ![c] = "hungup"]
    /\ UNCHANGED <<serving, net, sent, list, pc, msg, sn, i, up, got, due, erased, raced>>

(* libiop reads the end of the stream and closes.  trans.cpp sets no        *)
(* on_destroy callback: the lists keep the connection.                      *)
Close(c) ==
    /\ link[c] = "hungup"
    /\ pc[c] = "idle"
    /\ net[c] = <<>>
    /\ link' = [link EXCEPT ![c] = "closed"]
    /\ UNCHANGED <<serving, net, sent, list, pc, msg, sn, i, up, got, due, erased, raced>>

-----------------------------------------------------------------------------
(* The handlers rtu_process and client_process. *)

(* A message begins with a whole frame (protocol_parse returns `len',       *)
(* whatever has arrived).                                                   *)
Whole(m) == m[1].part = 1 /\ Len(m) >= Parts[m[1].from]

(* What a message is taken for: only its beginning is looked at.  A short   *)
(* frame followed by another is neither 6 bytes long nor has it a known     *)
(* type.  In the rest of a frame any byte stands where a type should be;    *)
(* behind the beginning of one, what the buffer held before (6 bytes of an  *)
(* I frame are no STARTDT).                                                 *)
TakenFor(m) ==
    LET first == m[1]
        one == Len(m) = Parts[first.from]
    IN CASE Whole(m) /\ (one \/ first.kind \notin {"short", "startdt"}) -> {first.kind}
         [] Whole(m) /\ ~one /\ first.kind \in {"short", "startdt"} -> {"data"}
         [] ~Whole(m) /\ first.part = 1 -> Guises[first.from] \ {"startdt"}
         [] first.part # 1 -> Guises[first.from]

(* The ASDU address that rtu_process reads: only a whole data frame has     *)
(* one, a login frame leaves it unset, and a short frame ends before it.    *)
Addresses(m) == IF Whole(m) /\ m[1].kind = "data" THEN {Sn[m[1].from]} ELSE Sns

(* One row for the user, with this password. *)
login(kind) == kind = "login"

(* An RTU is not asked for a password, and STARTDT registers clients only.  *)
Registers(c, kind) ==
    IF c \in RtuConns THEN kind \in {"login", "wrong"} ELSE login(kind) \/ kind = "startdt"

(* The number to register: in a part of a frame, what stands at its place.  *)
NumbersRead(c, m) ==
    IF Whole(m) THEN {IF m[1].kind = "startdt" THEN StartSn ELSE Sn[c]} ELSE Sns

AfterRegister(c) == IF c \in RtuConns THEN "scan" ELSE "lookup"

Subscribers(a) == {e.iop : e \in {f \in Entries(list["client"]) : f.sn = a}}

(* Mutant: the loop starts with the second element. *)
ReceiveFromOne(c, k) ==
    /\ pc[c] = "idle"
    /\ LET m == SubSeq(net[c], 1, k) IN
        /\ msg' = [msg EXCEPT ![c] = m]
        /\ \E a \in Addresses(m) :
            /\ sn' = [sn EXCEPT ![c] = a]
            /\ due' = [due EXCEPT ![c] = IF c \in RtuConns THEN Subscribers(a) ELSE {}]
        /\ \E kind \in TakenFor(m) :
            pc' = [pc EXCEPT ![c] = IF Registers(c, kind) THEN "register" ELSE AfterRegister(c)]
    /\ net' = [net EXCEPT ![c] = SubSeq(@, k + 1, Len(@))]
    /\ i' = [i EXCEPT ![c] = 2]
    /\ erased' = [erased EXCEPT ![c] = 0]
    /\ UNCHANGED <<serving, link, sent, list, up, got, raced>>

(* The handler is called with the first k parts: those that have arrived.   *)
Receive(c, k) ==
    /\ pc[c] = "idle"
    /\ LET m == SubSeq(net[c], 1, k) IN
        /\ msg' = [msg EXCEPT ![c] = m]
        /\ \E a \in Addresses(m) :
            /\ sn' = [sn EXCEPT ![c] = a]
            /\ due' = [due EXCEPT ![c] = IF c \in RtuConns THEN Subscribers(a) ELSE {}]
        /\ \E kind \in TakenFor(m) :
            pc' = [pc EXCEPT ![c] = IF Registers(c, kind) THEN "register" ELSE AfterRegister(c)]
    /\ net' = [net EXCEPT ![c] = SubSeq(@, k + 1, Len(@))]
    /\ i' = [i EXCEPT ![c] = 1]
    /\ erased' = [erased EXCEPT ![c] = 0]
    /\ UNCHANGED <<serving, link, sent, list, up, got, raced>>

(* vector::push_back *)
Pushed(l, e) ==
    [cell |-> IF l.size < Len(l.cell) THEN [l.cell EXCEPT ![l.size + 1] = e] ELSE Append(l.cell, e),
     size |-> l.size + 1]

Register(c) ==
    /\ pc[c] = "register"
    /\ \E number \in NumbersRead(c, msg[c]) :
        list' = [list EXCEPT ![Side(c)] = Pushed(@, [iop |-> c, sn |-> number])]
    /\ pc' = [pc EXCEPT ![c] = AfterRegister(c)]
    /\ UNCHANGED <<serving, link, net, sent, msg, sn, i, up, got, due, erased, raced>>

(* The push_back moves the vector that another thread is reading. *)
Crash(c) ==
    /\ pc[c] = "register"
    /\ \E d \in Conn \ {c} :
        \/ pc[d] = "register" /\ Side(d) = Side(c)
        \/ pc[d] = "lookup" /\ Side(d) = Side(c)
        \/ pc[d] \in {"scan", "send", "erase"} /\ Peer(d) = Side(c)
    /\ up' = FALSE
    /\ UNCHANGED <<serving, link, net, sent, list, pc, msg, sn, i, got, due, erased, raced>>

(* The handler returns: its variables, and the history of this call, end.   *)
Return(c) ==
    /\ pc' = [pc EXCEPT ![c] = "idle"]
    /\ msg' = [msg EXCEPT ![c] = <<>>]
    /\ sn' = [sn EXCEPT ![c] = StartSn]
    /\ i' = [i EXCEPT ![c] = 1]
    /\ due' = [due EXCEPT ![c] = {}]
    /\ erased' = [erased EXCEPT ![c] = 0]

(* client_process: the first entry of the client gives its serial number. *)
Lookup(c) ==
    /\ pc[c] = "lookup"
    /\ LET l == list["client"] IN
        \/ i[c] > l.size /\ Return(c)
        \/ /\ i[c] <= l.size /\ l.cell[i[c]].iop = c
           /\ sn' = [sn EXCEPT ![c] = l.cell[i[c]].sn]
           /\ i' = [i EXCEPT ![c] = 1]
           /\ pc' = [pc EXCEPT ![c] = "scan"]
           /\ UNCHANGED <<msg, due, erased>>
        \/ /\ i[c] <= l.size /\ l.cell[i[c]].iop # c
           /\ i' = [i EXCEPT ![c] = @ + 1]
           /\ UNCHANGED <<pc, msg, sn, due, erased>>
    /\ UNCHANGED <<serving, link, net, sent, list, up, got, raced>>

(* Mutant: the loop does not compare the serial numbers. *)
ScanAll(c) ==
    /\ pc[c] = "scan"
    /\ \/ i[c] > list[Peer(c)].size /\ Return(c)
       \/ /\ i[c] <= list[Peer(c)].size
          /\ pc' = [pc EXCEPT ![c] = "send"]
          /\ UNCHANGED <<msg, sn, i, due, erased>>
    /\ UNCHANGED <<serving, link, net, sent, list, up, got, raced>>

(* The loop over the other side's connections: one test of an element. *)
Scan(c) ==
    /\ pc[c] = "scan"
    /\ LET l == list[Peer(c)] IN
        \/ i[c] > l.size /\ Return(c)
        \/ /\ i[c] <= l.size /\ l.cell[i[c]].sn = sn[c]
           /\ pc' = [pc EXCEPT ![c] = "send"]
           /\ UNCHANGED <<msg, sn, i, due, erased>>
        \/ /\ i[c] <= l.size /\ l.cell[i[c]].sn # sn[c]
           /\ i' = [i EXCEPT ![c] = @ + 1]
           /\ UNCHANGED <<pc, msg, sn, due, erased>>
    /\ UNCHANGED <<serving, link, net, sent, list, up, got, raced>>

(* Mutant: a failed send is tried again for ever. *)
SendRetrying(c) ==
    /\ pc[c] = "send"
    /\ LET t == list[Peer(c)].cell[i[c]].iop IN
        /\ got' = [got EXCEPT ![t] = IF link[t] = "closed" THEN @ ELSE Append(@, msg[c][1])]
        /\ i' = [i EXCEPT ![c] = IF link[t] = "closed" THEN @ ELSE @ + 1]
        /\ pc' = [pc EXCEPT ![c] = "scan"]
    /\ UNCHANGED <<serving, link, net, sent, list, msg, sn, up, due, erased, raced>>

(* iop_buf_send reads the element again; it fails on a closed connection    *)
(* and may fail on one whose peer is gone.                                  *)
Send(c) ==
    /\ pc[c] = "send"
    /\ LET t == list[Peer(c)].cell[i[c]].iop IN
        \/ /\ link[t] # "closed"
           /\ got' = [got EXCEPT ![t] = Append(@, msg[c][1])]
           /\ i' = [i EXCEPT ![c] = @ + 1]
           /\ pc' = [pc EXCEPT ![c] = "scan"]
        \/ /\ link[t] # "up"
           /\ pc' = [pc EXCEPT ![c] = "erase"]
           /\ UNCHANGED <<got, i>>
    /\ UNCHANGED <<serving, link, net, sent, list, msg, sn, up, due, erased, raced>>

(* Mutant: erase() removes the entry after the one it has found. *)
WithoutNext(l, e) ==
    LET hits == {k \in 1..l.size : l.cell[k] = e} IN
    IF hits = {} THEN l
    ELSE LET h == Min(hits) IN
         [cell |-> [k \in 1..Len(l.cell) |->
                      IF h < k /\ k < l.size THEN l.cell[k + 1] ELSE l.cell[k]],
          size |-> l.size - 1]

(* iop_queue::erase removes the first entry with the given value, if any. *)
Without(l, e) ==
    LET hits == {k \in 1..l.size : l.cell[k] = e} IN
    IF hits = {} THEN l
    ELSE LET h == Min(hits) IN
         [cell |-> [k \in 1..Len(l.cell) |->
                      IF h <= k /\ k < l.size THEN l.cell[k + 1] ELSE l.cell[k]],
          size |-> l.size - 1]

(* The handlers that have tested an element and will read it again. *)
Overtaken(c) == {d \in Conn \ {c} : Peer(d) = Peer(c) /\ pc[d] \in {"send", "erase"}}

(* The element is read a third time to find the entry to erase. *)
Erase(c) ==
    /\ pc[c] = "erase"
    /\ LET l == list[Peer(c)] IN
       list' = [list EXCEPT ![Peer(c)] = Without(l, l.cell[i[c]])]
    /\ i' = [i EXCEPT ![c] = @ + 1]
    /\ erased' = [d \in Conn |->
                    IF Peer(d) = Peer(c) /\ pc[d] # "idle" THEN erased[d] + 1 ELSE erased[d]]
    /\ raced' = raced \cup {msg[d][1] : d \in Overtaken(c)}
    /\ pc' = [pc EXCEPT ![c] = "scan"]
    /\ UNCHANGED <<serving, link, net, sent, msg, sn, up, got, due>>

Environment(c) ==
    Connect(c) \/ HangUp(c) \/ Close(c) \/ \E kind \in Kinds[c] : Transmit(c, kind)

Process(c) == Register(c) \/ Lookup(c) \/ Scan(c) \/ Send(c) \/ Erase(c)

Next ==
    /\ up
    /\ \/ StartFails
       \/ \E s \in {"rtu", "client"} : StartServer(s)
       \/ \E c \in Conn :
            \/ Environment(c)
            \/ \E k \in 1..Len(net[c]) : Receive(c, k)
            \/ Crash(c)
            \/ Process(c)

(* The threads of the pool run: a handler that was called goes on.          *)
Fairness == \A c \in Conn : WF_vars(up /\ Process(c))

Spec == Init /\ [][Next]_vars /\ Fairness

-----------------------------------------------------------------------------
(* The handler of an RTU is at the end of its loop. *)
AtEnd(r) == pc[r] = "scan" /\ i[r] > list["client"].size

(* The clients that were registered for the message when the handler was    *)
(* called, are still connected and did not get it.                          *)
Missed(r) == {t \in due[r] : link[t] = "up" /\ msg[r][1] \notin ToSet(got[t])}

(* While a handler walks the list by index, every erasure, its own or that  *)
(* of another thread, makes it pass over at most one registered client.     *)
MissedAtMostErased ==
    \A r \in RtuConns : AtEnd(r) => Cardinality(Missed(r)) <= erased[r]

(* A connection loses its registration only when it is no longer up, or to  *)
(* a handler that was overtaken between its failed send and its erase().    *)
OnlyFailedErased ==
    [][\A s \in {"rtu", "client"} :
        \A e \in Entries(list[s]) \ Entries(list'[s]) :
            link[e.iop] # "up"
            \/ \E c \in Conn : pc[c] = "erase" /\ pc'[c] = "scan" /\ msg[c][1] \in raced]_vars

(* What an RTU sends goes to a client only while the client is registered   *)
(* for the number that rtu_process reads in it, which is the RTU's own if   *)
(* the message begins with a whole data frame; unless the handler was       *)
(* overtaken between the test of the element and its use.  (The parts of a  *)
(* frame that arrive on their own are read as they stand.)                  *)
OnlySubscribersServed ==
    [][\A t \in ClientConns :
        got'[t] # got[t]
            => LET f == Last(got'[t]) IN
               f \notin raced
                   => /\ f.from \in RtuConns
                      /\ [iop |-> t, sn |-> sn[f.from]] \in Entries(list["client"])
                      /\ sn[f.from] \in Addresses(msg[f.from])]_vars

(* Every call of a handler returns: the peers send finitely many frames     *)
(* (MaxFrames), so in the end no handler runs.                              *)
HandlerReturns == <>[](up => \A c \in Conn : pc[c] = "idle")
=============================================================================
