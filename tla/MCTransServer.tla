------------------------------ MODULE MCTransServer ------------------------------
(* Model-checking instance of TransServer. *)
EXTENDS TransServer

CONSTANTS r1, r2, c1, c2

TwoRtus == {r1, r2}
TwoClients == {c1, c2}

Serials == {1, 2}

(* r1 and r2 are two connections of RTU 1, which gives up the first before  *)
(* it makes the second; their handlers may run at the same time.  The users *)
(* of c1 and c2 watch RTU 2; the STARTDT of c1 registers it for RTU 1.      *)
Numbers == [c \in Conn |-> IF c \in ClientConns THEN 2 ELSE 1]

SomeKinds == [c \in Conn |-> CASE c = r1 -> {"login"}
                               [] c = r2 -> {"data"}
                               [] c = c1 -> {"startdt"}
                               [] c = c2 -> {"login", "wrong"}]

Leavers == {c1, r1}

FewFrames == [c \in Conn |-> 1]

(* TCP may cut the data frame of the RTU in two.                            *)
CutFrames == [c \in Conn |-> IF c = r2 THEN 2 ELSE 1]

(* The bytes of a part are never those of a login; any address stands there. *)
Looks == [c \in Conn |-> {"data"}]
=============================================================================
