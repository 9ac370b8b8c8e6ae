------------------------------ MODULE MCWcxClient ------------------------------
(* Model-checking instance of WcxClient; its bounds are in the cfg. *)
EXTENDS WcxClient
=============================================================================
