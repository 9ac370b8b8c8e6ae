----------------------------- MODULE MCGsmDialler -----------------------------
(* The dial takes no time, a while, almost as long as the program waits for *)
(* the address, or twice that.                                              *)
EXTENDS GsmDialler

SomeTimes == {0, 3, 9, 20}
=============================================================================
