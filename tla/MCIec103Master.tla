----------------------------- MODULE MCIec103Master -----------------------------
(* Model-checking instance of Iec103Master: lines without a device, with one, *)
(* with two, and with devices whose address equals a control byte.            *)
EXTENDS Iec103Master

SomeLines == {<<>>, <<8>>, <<1, 2>>}
(* A self-check report.                                                       *)
SomeAsdus == {<<1, 129, 1, 1, 128, 194, 2, 0>>}
=============================================================================
