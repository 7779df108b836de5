-------------------------- MODULE MCRequestManager --------------------------
(* Small instances of RequestManager for TLC.                              *)
EXTENDS RequestManager

CONSTANTS c1, c2
=============================================================================
