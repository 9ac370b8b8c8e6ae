----------------------------- MODULE MCRealTagQueue -----------------------------
(* Model-checking instance of RealTagQueue. *)
EXTENDS RealTagQueue

CONSTANTS c1, c2, c3

ThreeThreads == {c1, c2, c3}
=============================================================================
