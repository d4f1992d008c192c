----------------------------- MODULE MCModuleWeb -----------------------------
(***************************************************************************)
(* Instances of ModuleWeb for TLC.                                         *)
(***************************************************************************)
EXTENDS ModuleWeb
==============================================================================
