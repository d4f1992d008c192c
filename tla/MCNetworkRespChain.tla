-------------------------- MODULE MCNetworkRespChain --------------------------
(***************************************************************************)
(* An instance of NetworkRespChain for TLC: one level below Full of the    *)
(* kind "limited", one of the kind "none", and Full.                       *)
(***************************************************************************)
EXTENDS NetworkRespChain
==============================================================================
