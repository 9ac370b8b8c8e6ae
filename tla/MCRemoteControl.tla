---------------------------- MODULE MCRemoteControl ----------------------------
(* Model-checking instance of RemoteControl and Iec104Slave: write() may do   *)
(* anything ("again" has the effects of "short"); three outputs of the box,   *)
(* one of each type, and on the line two devices with a switch and a pulse    *)
(* (set points go to both); 5 has no device.                                  *)
EXTENDS RemoteControl, TLC

MCOutcomes == {"ok", "short", "error"}
MCOwn      == {25, 26, 27}
MCAttr     == 25 :> "switch" @@ 26 :> "pulse" @@ 27 :> "other" @@ 1 :> "switch" @@ 2 :> "pulse" @@ 5 :> "switch"
MCDevOf    == 1 :> 11 @@ 2 :> 12
=============================================================================
