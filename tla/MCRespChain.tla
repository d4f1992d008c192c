----------------------------- MODULE MCRespChain -----------------------------
(***************************************************************************)
(* An instance of RespChain for TLC.  Three elements, as the application   *)
(* wires them: experience plan, network, web.                              *)
(***************************************************************************)
EXTENDS RespChain
==============================================================================
