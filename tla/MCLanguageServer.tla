-------------------------- MODULE MCLanguageServer --------------------------
(* The instance of LanguageServer for TLC: see the .cfg.                   *)
EXTENDS LanguageServer
=============================================================================
