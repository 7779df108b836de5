----------------------------- MODULE MCBrgenMain -----------------------------
(* A small instance of BrgenMain for TLC: one file, whose outputs all go to *)
(* one path, where a file of an earlier run is.                            *)
EXTENDS BrgenMain, TLC

CONSTANTS p1, f1, r1, r2, dir, base, cpp

SingleFile == f1 :> p1
OneDir == [g \in Gens |-> dir]
OneBase == [f \in Files |-> base]
OneSuffix == [g \in Gens |-> [k \in 1..MaxMsgs |-> cpp]]
OneReplyName == [f \in Files |-> [g \in Gens |-> [k \in 1..MaxMsgs |-> <<base, cpp>>]]]
OnePath == {<<dir, <<base, cpp>>>>}
=============================================================================
