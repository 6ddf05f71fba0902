------------------------------- MODULE MCCgi -------------------------------
(***************************************************************************)
(* Small instances of Cgi for TLC: no body, one the script reads in one    *)
(* piece or in several, one that fills the pipe.                           *)
(***************************************************************************)
EXTENDS Cgi

MCBodies == 0 .. PipeCap
MCNoBody == {0}
MCTimeouts == {1}
=============================================================================
