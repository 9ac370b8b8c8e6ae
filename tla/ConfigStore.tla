------------------------------ MODULE ConfigStore ------------------------------
(***************************************************************************)
(* What a configuration file promises: settings of which each has a value, *)
(* is absent, or cannot be read.  A program takes the value or a default,  *)
(* and may put the default in the place of an absent setting.  Nothing     *)
(* else changes, unless a fault (a crash, a full disk) meets a rewriting:  *)
(* then the file is empty.  A file with a torn line promises less: the     *)
(* first setting put into it may alter others.                             *)
(***************************************************************************)
EXTENDS Integers

CONSTANTS Settings, Absent, Unreadable, Default, NotLoaded

VARIABLES store,  \* the value of every setting
          loaded, \* what the program has taken
          whole,  \* no line of the file is torn
          faults  \* so far

vars == <<store, loaded, whole, faults>>

Value(s) == IF store[s] \in {Absent, Unreadable} THEN Default ELSE store[s]

Init ==
    /\ loaded = [s \in Settings |-> NotLoaded]
    /\ whole \in BOOLEAN
    /\ faults = 0

Load(s) ==
    /\ loaded' = [loaded EXCEPT ![s] = Value(s)]
    /\ UNCHANGED <<store, whole, faults>>

(* The rest of the file is as it was. *)
Put(s) ==
    /\ whole /\ store[s] = Absent
    /\ store' = [store EXCEPT ![s] = Default]
    /\ UNCHANGED <<loaded, whole, faults>>

PutTorn(s) ==
    /\ ~whole /\ store[s] = Absent
    /\ whole' \in BOOLEAN
    /\ UNCHANGED <<loaded, faults>>

Fault ==
    /\ faults' = faults + 1
    /\ UNCHANGED <<store, loaded, whole>>

Lose ==
    /\ faults > 0 \/ faults' > 0
    /\ faults' \in {faults, faults + 1}
    /\ store' = [s \in Settings |-> Absent]
    /\ loaded' \in {loaded, [s \in Settings |-> NotLoaded]}
    /\ whole' = TRUE

Start ==
    /\ loaded' = [s \in Settings |-> NotLoaded]
    /\ faults' \in {faults, faults + 1}
    /\ UNCHANGED <<store, whole>>

Next ==
    \/ \E s \in Settings : Load(s) \/ Put(s) \/ PutTorn(s)
    \/ Fault \/ Lose \/ Start

Spec == Init /\ [][Next]_vars
=============================================================================
