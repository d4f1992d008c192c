------------------------------- MODULE UnidStore -------------------------------
(***************************************************************************)
(* What the hardware module promises about the unid over restarts: an id   *)
(* is never made up.  A process works with an id that it found on disk or  *)
(* that the service gave it; what a restart may find was known to the      *)
(* process that wrote it, or is nothing, or a Fragment, which a reader     *)
(* cannot tell from an id.                                                 *)
(***************************************************************************)
CONSTANTS Id, NoId, Fragment

VARIABLES on,     \* the process runs
          mem,    \* the id the process works with
          disk,   \* the ids a restart may find
          known   \* the ids the process has found or been given

vars == <<on, mem, disk, known>>

Init == on = FALSE /\ mem = NoId /\ disk = {NoId} /\ known = {}

Hear(u) == on /\ known' = known \cup {u} /\ UNCHANGED <<on, mem, disk>>

Learn == on /\ mem' \in known /\ UNCHANGED <<on, disk, known>>

Store ==
    /\ on
    /\ disk' \in (SUBSET (known \cup {NoId, Fragment})) \ {{}}
    /\ UNCHANGED <<on, mem, known>>

Stop == on /\ on' = FALSE /\ mem' = NoId /\ known' = {} /\ UNCHANGED disk

Start ==
    /\ ~on /\ on' = TRUE
    /\ mem' \in disk
    /\ known' = {mem'}
    /\ UNCHANGED disk

Next == (\E u \in Id : Hear(u)) \/ Learn \/ Store \/ Stop \/ Start

Spec == Init /\ [][Next]_vars
================================================================================
