---------------------------- MODULE MCHardModule ----------------------------
(***************************************************************************)
(* An instance of HardModule for TLC.                                      *)
(***************************************************************************)
EXTENDS HardModule
==============================================================================
