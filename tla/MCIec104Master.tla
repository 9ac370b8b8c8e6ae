---------------------------- MODULE MCIec104Master ----------------------------
(* Model-checking instance of Iec104Master: one thread beside the event loop. *)
EXTENDS Iec104Master

CONSTANT u1

OneUploader == {u1}
MCOutcomes == {"ok", "fail", "pipe"}
=============================================================================
