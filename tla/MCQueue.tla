------------------------------- MODULE MCQueue -------------------------------
(***************************************************************************)
(* Instances of Queue for TLC, with several readers and with one: the      *)
(* initial states choose which consumers call pop.  The threads are model  *)
(* values; no symmetry, because the run checks liveness.                   *)
(***************************************************************************)
EXTENDS Queue

CONSTANT TheReader   \* the one that calls pop when there is only one

VARIABLE readers     \* the consumers that call pop

MCInit == Init /\ readers \in {Consumers, {TheReader}}

MCNext ==
    /\ \/ \E p \in Producers : Push(p)
       \/ \E c \in readers : Pop(c) \/ SpuriousWake(c)
    /\ UNCHANGED readers

mcvars == <<vars, readers>>

MCFairness ==
    /\ \A p \in Producers : WF_mcvars((PushAppend(p) \/ PushNotify(p)) /\ UNCHANGED readers)
    /\ \A c \in Consumers : WF_mcvars(c \in readers /\ Pop(c) /\ UNCHANGED readers)

MCSpec == MCInit /\ [][MCNext]_mcvars /\ MCFairness

(***************************************************************************)
(* With one reader (each queue of the application is meant for one writer) *)
(* the queue is a FIFO channel: pop returns in the order of push.  With    *)
(* two, one pop may be overtaken between its unlock and its return, and    *)
(* the order of delivery says nothing: those behaviours map to silence.    *)
(***************************************************************************)
Single == readers = {TheReader}

TheElem == IF Taken(TheReader) THEN elem[TheReader] ELSE <<>>

F == INSTANCE Fifo
    WITH chan <- IF Single THEN TheElem \o queue_ ELSE <<>>,
         delivered <- IF Single THEN returned ELSE <<>>

ImplementsFifo == F!Spec
==============================================================================
