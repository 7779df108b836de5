------------------------- MODULE MCGeneratorHandler -------------------------
(* A small instance of GeneratorHandler for TLC: one file.                 *)
EXTENDS GeneratorHandler, TLC

CONSTANTS p1, f1

SingleFile == f1 :> p1
=============================================================================
