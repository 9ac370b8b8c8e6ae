------------------------------ MODULE GsmDialler ------------------------------
(***************************************************************************)
(* gsm_online.cpp: the program that keeps the GSM link up.  Every ten      *)
(* seconds it looks up a name; when that fails it ends the pppd that runs, *)
(* starts another and reads its log for the address, up to five times.     *)
(*                                                                         *)
(* pppd and the modem are external.  A pppd dials for some seconds, then   *)
(* writes the address into the log and the link works, until it drops:     *)
(* pppd may notice and exit, or hang.  Time passes in seconds, in the      *)
(* program's waits only.  The shell that starts pppd in the background     *)
(* empties the log, possibly after the program looked into it.             *)
(***************************************************************************)
EXTENDS Integers, FiniteSets

CONSTANTS
    DialTimes,      \* the seconds a pppd may need
    MaxFaults       \* bound: how often a dial fails or a working link drops

ASSUME DialAssumption == DialTimes \subseteq Nat /\ MaxFaults \in Nat

VARIABLES
    at,         \* where the program is
    left,       \* seconds left in this wait
    dials,      \* dials of this gsm_connect(), the one under way counted (code: i)
    found,      \* `pidof' listed a process
    pppds,      \* the pppds that run
    shell,      \* the shell that will start pppd has not yet done so
    log,        \* an address is in the log
    faults

dialVars == <<at, left, dials, found, pppds, shell, log, faults>>

(* dial: the seconds to go; -1: connected; -2: hung.  id: which of two. *)
Pppd == [id : {1, 2}, dial : Nat \cup {-1, -2}, term : BOOLEAN]

Online == \E p \in pppds : p.dial = -1

Tries == 5
TestWait == 5
TermWait == 2
LogWait == 10

(* Mutant: the last lookup is given up as soon as the first. *)
LastWaitShort == TestWait

LastWait == 15
Pause == 10

DialInit ==
    /\ at = "test" /\ left = TestWait
    /\ dials = 0 /\ found = FALSE
    /\ pppds = {} /\ shell = FALSE /\ log \in BOOLEAN /\ faults = 0

-----------------------------------------------------------------------------
(* pppd *)

NewPppd(dial) ==
    LET id == CHOOSE n \in 1..2 : \A p \in pppds : p.id # n
    IN  pppds' = pppds \cup {[id |-> id, dial |-> dial, term |-> FALSE]}

(* The shell empties the log and becomes pppd; the dial may lead nowhere. *)
StartPppd ==
    /\ shell /\ shell' = FALSE
    /\ log' = FALSE
    /\ \/ \E d \in DialTimes : NewPppd(d) /\ UNCHANGED faults
       \/ NewPppd(-2) /\ faults < MaxFaults /\ faults' = faults + 1
    /\ UNCHANGED <<at, left, dials, found>>

Becomes(p, dial) == pppds' = (pppds \ {p}) \cup {[p EXCEPT !.dial = dial]}

PppdConnected ==
    /\ \E p \in pppds : p.dial = 0 /\ Becomes(p, -1)
    /\ log' = TRUE
    /\ UNCHANGED <<at, left, dials, found, shell, faults>>

Drop ==
    /\ faults < MaxFaults /\ faults' = faults + 1
    /\ \E p \in pppds : p.dial = -1 /\ (Becomes(p, -2) \/ pppds' = pppds \ {p})
    /\ UNCHANGED <<at, left, dials, found, shell, log>>

(* One that was asked to end does so, sooner or later. *)
Exits ==
    /\ \E p \in pppds : p.term /\ pppds' = pppds \ {p}
    /\ UNCHANGED <<at, left, dials, found, shell, log, faults>>

-----------------------------------------------------------------------------
(* The program *)

At(place) == at = place

(* A second passes in a wait; the shell does not take that long. *)
Tick ==
    /\ left > 0 /\ ~shell /\ \A p \in pppds : p.dial # 0
    /\ At("test") => ~Online
    /\ At("last") => ~Online
    /\ At("log") => ~log
    /\ left' = left - 1
    /\ pppds' = {[p EXCEPT !.dial = IF @ > 0 THEN @ - 1 ELSE @] : p \in pppds}
    /\ UNCHANGED <<at, dials, found, shell, log, faults>>

Goto(place, wait) == at' = place /\ left' = wait

(* is_online(), for 5 seconds at most. *)
is_online ==
    /\ At("test")
    /\ \/ Online /\ Goto("pause", Pause)
       \/ ~Online /\ left = 0 /\ Goto("dial", 0)
    /\ dials' = 0
    /\ UNCHANGED <<found, pppds, shell, log, faults>>

(* pidof, and killall if there is one. *)
Killall ==
    /\ At("dial") /\ dials < Tries
    /\ dials' = dials + 1
    /\ pppds' = {[p EXCEPT !.term = TRUE] : p \in pppds}
    /\ Goto("term", TermWait)
    /\ UNCHANGED <<found, shell, log, faults>>

(* Mutant: one request to end is held to be enough. *)
PidofNone ==
    /\ At("term") /\ left = 0
    /\ found' = FALSE
    /\ Goto("kill", 0)
    /\ UNCHANGED <<dials, pppds, shell, log, faults>>

Pidof ==
    /\ At("term") /\ left = 0
    /\ found' = (pppds # {})
    /\ Goto("kill", 0)
    /\ UNCHANGED <<dials, pppds, shell, log, faults>>

(* kill -9 for all that pidof listed. *)
Kill ==
    /\ At("kill")
    /\ pppds' = IF found THEN {} ELSE pppds
    /\ Goto("call", 0)
    /\ UNCHANGED <<dials, found, shell, log, faults>>

Call ==
    /\ At("call")
    /\ shell' = TRUE
    /\ Goto("log", LogWait)
    /\ UNCHANGED <<dials, found, pppds, log, faults>>

(* grep: an address, be it from the pppd before, ends the dialling ... *)
AddressFound ==
    /\ At("log") /\ left > 0 /\ log
    /\ Goto("last", LastWait)
    /\ UNCHANGED <<dials, found, pppds, shell, log, faults>>

(* ... and none in ten seconds means another dial. *)
NoAddress ==
    /\ At("log") /\ left = 0
    /\ Goto("dial", 0)
    /\ UNCHANGED <<dials, found, pppds, shell, log, faults>>

GivesUp ==
    /\ At("dial") /\ dials = Tries
    /\ Goto("last", LastWait)
    /\ UNCHANGED <<dials, found, pppds, shell, log, faults>>

(* The lookup behind `end', whatever it says, and main()'s sleep. *)
LastTest ==
    /\ At("last") /\ (Online \/ left = 0)
    /\ Goto("pause", Pause)
    /\ UNCHANGED <<dials, found, pppds, shell, log, faults>>

Again ==
    /\ At("pause") /\ left = 0
    /\ Goto("test", TestWait)
    /\ UNCHANGED <<dials, found, pppds, shell, log, faults>>

Program ==
    \/ Tick \/ is_online \/ Killall \/ Pidof \/ Kill \/ Call
    \/ AddressFound \/ NoAddress \/ GivesUp \/ LastTest \/ Again

DialNext == Program \/ StartPppd \/ PppdConnected \/ Drop \/ Exits

DialSpec ==
    /\ DialInit /\ [][DialNext]_dialVars
    /\ WF_dialVars(Program) /\ WF_dialVars(StartPppd) /\ WF_dialVars(PppdConnected)

-----------------------------------------------------------------------------
(* Two pppds never have the modem at once: none is started while another    *)
(* runs, also when a hung one does not end on request.                      *)
OnePppd == Cardinality(pppds) + (IF shell THEN 1 ELSE 0) <= 1

(* When the link no longer fails it comes up, and stays up: the program     *)
(* does not cut a link that works, and of a dial that takes longer than the *)
(* wait for its address the fifth is given the time, also when the address  *)
(* of the pppd before was taken for the new one's.                          *)
StaysOnline == <>[]Online
=============================================================================
