----------------------------- MODULE RemoteControl -----------------------------
(***************************************************************************)
(* Remote control through the IEC 104 slave as it runs in the field (the   *)
(* parts of iec104_slave.cpp under !defined(TEST), linked into collect,    *)
(* whose get_comno_slave_addr and get_ort3000_switch_attr they call).  An  *)
(* I frame carries set points (C_SE_NA), single commands (C_SC_NA) or      *)
(* double commands (C_DC_NA); on_read executes its objects one after the   *)
(* other, either on the outputs of the box (kaichu_value, fd_io) or with   *)
(* requests to a device on a serial line.  The line is shared with its     *)
(* collecting thread: OptSerial[com].mutex protects it and the device      *)
(* address in mb_param.slave.                                              *)
(*                                                                         *)
(* The event loop stands still while on_read controls, so the other        *)
(* callbacks of Iec104Slave only run between controls; what interleaves    *)
(* with a control is the collecting thread.  Requests are those of         *)
(* ModbusLink: answered, or not although the device may have obeyed.       *)
(*                                                                         *)
(* The loop of the tries uses the variable of the loop over the objects    *)
(* (lines 731, 964 and 1210): a frame of several objects skips some or     *)
(* runs past its end into what an older frame left in RecvBuf.             *)
(***************************************************************************)
EXTENDS Iec104Slave

CONSTANTS
    Own,       \* ids of the outputs of the box: 25 to 28
    Attr,      \* PCSET: id -> "switch", "pulse" or another TYPE
    DevOf,     \* the data base: id of a tag -> address of its device
    Devices,   \* the addresses the collecting thread of the line asks
    NoId,      \* an id the data base does not know
    Tries,     \* 5
    Stale      \* bound: objects found in RecvBuf behind the frame

ASSUME AttrAssumption  == Own \subseteq DOMAIN Attr /\ NoId \notin DOMAIN Attr \cup DOMAIN DevOf
ASSUME DevOfAssumption == DOMAIN DevOf \cap Own = {} /\ \A id \in DOMAIN DevOf : DevOf[id] \in Devices
ASSUME TriesAssumption == Tries \in Nat \ {0} /\ Stale \in Nat

VARIABLES
    rc,        \* the control under way: locals of on_read
    line,      \* who holds OptSerial[com].mutex: "slave", "collect" or "free"
    addr,      \* OptSerial[com].mb_param.slave
    out        \* the outputs that are open (the bits of kaichu_value)

rcVars == <<rc, line, addr, out>>
allVars == <<s, peer, rc, line, addr, out>>

(* i is the loop variable, item the object p_data points at, ret what        *)
(* ret_modbus holds ("junk": it has no initialiser).  coil and before are    *)
(* history: what the controlled point is known to be, and what out was.      *)
NoControl == [pc |-> "idle", kind |-> "none", n |-> 0, i |-> 0, item |-> 0, id |-> NoId,
              want |-> "none", ret |-> "junk", coil |-> "?", before |-> {}]

ControlInit ==
    /\ Init
    /\ rc = NoControl
    /\ line = "free"
    /\ addr \in Devices
    /\ out = Own

Idle == rc.pc = "idle"

-----------------------------------------------------------------------------
(* What the value of an object asks for.  A single command is bit 0, and no *)
(* when bit 1 is set alone; a double command is 1 or 2.                     *)
SingleWant(v) == CASE v \in {1, 3} -> "on" [] v = 0 -> "off" [] OTHER -> "neither"
DoubleWant(v) == CASE v = 2 -> "on" [] v = 1 -> "off" [] OTHER -> "neither"

Want(kind, v) ==
    CASE kind = "C_SE_NA" -> "value"
      [] kind = "C_SC_NA" -> SingleWant(v)
      [] kind = "C_DC_NA" -> DoubleWant(v)

Opposite(want) == IF want = "on" THEN "off" ELSE "on"

(* get_ort3000_switch_attr and get_comno_slave_addr: rows of the data base.  *)
SwitchAttr(id) == IF id \in DOMAIN Attr THEN Attr[id] ELSE "error"
Addressed(id)  == id \in DOMAIN DevOf

(* `return': the callback ends without its acknowledgement, and the peer is  *)
(* followed no further.                                                      *)
Return ==
    /\ rc' = NoControl
    /\ peer' = Missing
    /\ UNCHANGED s

-----------------------------------------------------------------------------
(* A command frame with cause 6 arrives.  (ReadCommand of Iec104Slave has    *)
(* the frames whose objects are all selections or cancellations.)            *)
ReadExecution(kind) ==
    /\ Idle
    /\ Reading
    /\ Do(Counted)
    /\ \E n \in 1..MaxItems :
        rc' = [NoControl EXCEPT !.pc = "object", !.kind = kind, !.n = n, !.item = 1]
    /\ UNCHANGED <<line, addr, out>>

ReadSetPoint == ReadExecution("C_SE_NA")
ReadSingle   == ReadExecution("C_SC_NA")
ReadDouble   == ReadExecution("C_DC_NA")

(* The object p_data points at selects: it is confirmed as it stands. *)
ObjectSelects ==
    /\ rc.pc = "object"
    /\ rc.item <= rc.n + Stale
    /\ rc' = [rc EXCEPT !.pc = "confirm", !.id = NoId]
    /\ UNCHANGED <<s, peer, line, addr, out>>

(* It executes: which point, and where it is.  A set point has no row in     *)
(* PCSET.  Behind the last stale object the ids mean nothing.                *)
ObjectExecutes ==
    /\ rc.pc = "object"
    /\ \E id \in DOMAIN Attr \cup DOMAIN DevOf \cup {NoId}, v \in 0..3 :
        /\ rc.item > rc.n + Stale => id = NoId
        /\ LET known == rc.kind = "C_SE_NA" \/ SwitchAttr(id) # "error"
               own   == rc.kind # "C_SE_NA" /\ id \in Own
               now   == [rc EXCEPT !.id = id, !.want = Want(rc.kind, v), !.coil = "?", !.before = out]
           IN  \/ /\ known /\ own
                  /\ rc' = [now EXCEPT !.pc = "own"]
                  /\ UNCHANGED <<s, peer>>
               \/ /\ known /\ ~own /\ Addressed(id)
                  /\ rc' = [now EXCEPT !.pc = "lock"]
                  /\ UNCHANGED <<s, peer>>
               \/ /\ ~known \/ (~own /\ ~Addressed(id))
                  /\ Return
    /\ UNCHANGED <<line, addr, out>>

(* What is left of a control that is not confirmed. *)
Failed(x) == [NoControl EXCEPT !.pc = "next", !.kind = x.kind, !.n = x.n, !.i = x.i,
                               !.item = x.item, !.ret = x.ret]

-----------------------------------------------------------------------------
(* The outputs of the box: `off' opens the relay (sets the bit), `on' closes *)
(* it, anything else writes kaichu_value as it is.                           *)

(* Mutant: the single command's test for `off' comes without its mask. *)
OwnSwitchClearsAll ==
    /\ rc.pc = "own"
    /\ SwitchAttr(rc.id) = "switch"
    /\ out' = CASE rc.want = "off" -> out \cup {rc.id}
                [] rc.want = "on"  -> {}
                [] OTHER           -> out
    /\ rc' = [rc EXCEPT !.pc = "confirm"]
    /\ UNCHANGED <<s, peer, line, addr>>

OwnSwitch ==
    /\ rc.pc = "own"
    /\ SwitchAttr(rc.id) = "switch"
    /\ out' = CASE rc.want = "off" -> out \cup {rc.id}
                [] rc.want = "on"  -> out \ {rc.id}
                [] OTHER           -> out
    /\ rc' = [rc EXCEPT !.pc = "confirm"]
    /\ UNCHANGED <<s, peer, line, addr>>

Toggled(id) == IF id \in out THEN out \ {id} ELSE out \cup {id}

(* A pulse toggles the output, whatever the command says, and toggles it     *)
(* back after the delay.                                                     *)
OwnPulse ==
    /\ rc.pc \in {"own", "pulse"}
    /\ SwitchAttr(rc.id) = "pulse"
    /\ out' = Toggled(rc.id)
    /\ rc' = [rc EXCEPT !.pc = IF @ = "own" THEN "pulse" ELSE "confirm"]
    /\ UNCHANGED <<s, peer, line, addr>>

(* Another type: nothing is done, and nothing confirmed. *)
OwnOther ==
    /\ rc.pc = "own"
    /\ SwitchAttr(rc.id) \notin {"switch", "pulse"}
    /\ rc' = Failed(rc)
    /\ UNCHANGED <<s, peer, line, addr, out>>

-----------------------------------------------------------------------------
(* A device on the line. *)

(* Mutant: the address is set before the line is taken. *)
LockAddressed ==
    /\ \/ /\ rc.pc = "lock" /\ rc.coil = "?"
          /\ addr' = DevOf[rc.id]
          /\ rc' = [rc EXCEPT !.coil = "addressed"]
          /\ UNCHANGED line
       \/ /\ rc.pc = "lock" /\ rc.coil = "addressed"
          /\ line = "free"
          /\ line' = "slave"
          /\ rc' = [rc EXCEPT !.pc = "operate", !.coil = "?"]
          /\ UNCHANGED addr
    /\ UNCHANGED <<s, peer, out>>

(* The line is taken, and then the address set. *)
Lock ==
    /\ rc.pc = "lock"
    /\ line = "free"
    /\ line' = "slave"
    /\ addr' = DevOf[rc.id]
    /\ rc' = [rc EXCEPT !.pc = "operate"]
    /\ UNCHANGED <<s, peer, out>>

(* Up to Tries requests: what they leave in i, ret_modbus and the point.     *)
(* Without an answer the device may have obeyed, or not.                     *)
Tried(x, want) ==
    {[x EXCEPT !.i = k, !.ret = "ok", !.coil = want] : k \in 0..(Tries - 1)}
        \cup {[x EXCEPT !.i = Tries, !.ret = "bad", !.coil = c] : c \in {want, x.coil}}

(* No request is sent; a value of an earlier object, or none, is taken for   *)
(* its result.                                                               *)
Untried(x) ==
    {y \in {[x EXCEPT !.i = 0, !.ret = "ok"], [x EXCEPT !.i = Tries, !.ret = "bad"]} :
        x.ret \in {"junk", y.ret}}

(* A pulse: two steps, each with its own tries; the second one's result      *)
(* stands, and the outer loop is left in its first turn.                     *)
Pulsed(x) ==
    IF x.want = "neither" THEN {[x EXCEPT !.i = 0]}
    ELSE {[y EXCEPT !.i = 0] :
            y \in UNION {Tried(z, Opposite(x.want)) : z \in Tried(x, x.want)}}

SwitchTried(x) == IF x.want = "neither" THEN Untried(x) ELSE Tried(x, x.want)

Outcome(x) ==
    IF x.kind = "C_SE_NA" THEN Tried(x, "value")
    ELSE CASE SwitchAttr(x.id) = "switch" -> SwitchTried(x)
           [] SwitchAttr(x.id) = "pulse"  -> Pulsed(x)
           [] OTHER                       -> {[x EXCEPT !.i = Tries]}

(* `if (ret_modbus > 0)'. *)
Verdicts(x) == IF x.ret = "junk" THEN {"ok", "bad"} ELSE {x.ret}

(* Mutant: the tries go on until the device answers. *)
OperateUntilAnswered ==
    /\ rc.pc = "operate"
    /\ \E x \in Outcome(rc) : \E verdict \in Verdicts(x) :
        /\ rc' = IF verdict = "ok" THEN [x EXCEPT !.pc = "confirm"] ELSE [rc EXCEPT !.i = 1 - @]
        /\ line' = IF verdict = "ok" THEN "free" ELSE line
    /\ UNCHANGED <<s, peer, addr, out>>

(* Mutant: a request that was sent counts as obeyed. *)
OperateSent ==
    /\ rc.pc = "operate"
    /\ \E x \in Outcome(rc) : rc' = [x EXCEPT !.pc = "confirm"]
    /\ line' = "free"
    /\ UNCHANGED <<s, peer, addr, out>>

(* The tries, and the line is given back: the collecting thread cannot touch *)
(* it meanwhile.                                                             *)
Operate ==
    /\ rc.pc = "operate"
    /\ \E x \in Outcome(rc) : \E verdict \in Verdicts(x) :
        rc' = IF verdict = "ok" THEN [x EXCEPT !.pc = "confirm"] ELSE Failed(x)
    /\ line' = "free"
    /\ UNCHANGED <<s, peer, addr, out>>

-----------------------------------------------------------------------------
(* The end of an object: i is counted up and compared with the number of     *)
(* objects, p_data moves on; after the last object the frame is              *)
(* acknowledged.                                                             *)
Ended(x) ==
    \/ /\ rc.i + 1 < rc.n
       /\ x.st.mem = "live"
       /\ Do(x)
       /\ rc' = [NoControl EXCEPT !.pc = "object", !.kind = rc.kind, !.n = rc.n, !.ret = rc.ret,
                                 !.i = rc.i + 1, !.item = rc.item + 1]
    \/ /\ rc.i + 1 >= rc.n \/ x.st.mem # "live"
       /\ \E o \in Outcomes : Do(Acknowledge(x, o))
       /\ rc' = NoControl

Confirm ==
    /\ rc.pc = "confirm"
    /\ \E o \in Outcomes : Ended(BuildI(Here, o))
    /\ UNCHANGED <<line, addr, out>>

NextObject ==
    /\ rc.pc = "next"
    /\ Ended(Here)
    /\ UNCHANGED <<line, addr, out>>

-----------------------------------------------------------------------------
(* The collecting thread of the line. *)

CollectTake ==
    /\ line = "free"
    /\ line' = "collect"
    /\ UNCHANGED <<s, peer, rc, addr, out>>

CollectSetAddress ==
    /\ line = "collect"
    /\ addr' \in Devices
    /\ UNCHANGED <<s, peer, rc, line, out>>

CollectGive ==
    /\ line = "collect"
    /\ line' = "free"
    /\ UNCHANGED <<s, peer, rc, addr, out>>

(* The other callbacks of the slave, between two controls. *)
Elsewhere ==
    /\ Idle
    /\ \/ Accept \/ ReadClosed \/ ReadIgnored \/ ReadStartDt \/ ReadTestAct
       \/ ReadReport \/ ReadCommand \/ OnTimerTframe
    /\ UNCHANGED rcVars

OnRead ==
    \/ ObjectSelects \/ ObjectExecutes
    \/ OwnSwitch \/ OwnPulse \/ OwnOther
    \/ Operate
    \/ Confirm \/ NextObject

ControlNext ==
    \/ Elsewhere
    \/ ReadSetPoint \/ ReadSingle \/ ReadDouble
    \/ OnRead \/ Lock
    \/ CollectTake \/ CollectSetAddress \/ CollectGive

(* The threads run; the collecting thread sleeps between two requests, so    *)
(* that the mutex comes round.                                               *)
ControlSpec ==
    /\ ControlInit /\ [][ControlNext]_allVars
    /\ WF_allVars(OnRead) /\ WF_allVars(CollectGive) /\ SF_allVars(Lock)

-----------------------------------------------------------------------------
(* The requests of a control go to the device of its point, although the     *)
(* collecting thread writes the address of its own device to the same place. *)
RightDevice == rc.pc = "operate" => line = "slave" /\ addr = DevOf[rc.id]

(* The definite commands: neither a value nor a TYPE without a meaning.      *)
Definite ==
    \/ rc.kind = "C_SE_NA"
    \/ rc.want # "neither" /\ SwitchAttr(rc.id) \in {"switch", "pulse"}

(* Where a command leaves its point: a pulse leaves it as it was before.     *)
Rest ==
    IF rc.kind # "C_SE_NA" /\ SwitchAttr(rc.id) = "pulse" THEN Opposite(rc.want) ELSE rc.want

OwnRest ==
    IF SwitchAttr(rc.id) = "pulse" THEN rc.before
    ELSE IF rc.want = "off" THEN rc.before \cup {rc.id} ELSE rc.before \ {rc.id}

(* "Execution confirmed" is only sent for a command that was carried out:    *)
(* the point, and no other output of the box, is where the command leaves    *)
(* it.  A selection confirms nothing.                                        *)
Executed == rc.pc = "confirm" /\ rc.id # NoId /\ Definite

AckMeansDone ==
    Executed => IF rc.kind # "C_SE_NA" /\ rc.id \in Own THEN out = OwnRest ELSE rc.coil = Rest

(* Up to the first command for an unknown point, at most MAX_W I frames wait *)
(* for their acknowledgement between two callbacks (`return' skips it, and   *)
(* further frames may be skipped until `w' wraps).                           *)
AckedBetweenControls == Idle => UnackedBound

(* A control ends: the loop serves its connections again, and the line is    *)
(* given back, also when the device never answers.                           *)
ControlEnds == ~Idle ~> (Idle /\ line # "slave")
=============================================================================
