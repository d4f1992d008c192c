--------------------------------- MODULE Fifo ---------------------------------
(***************************************************************************)
(* What a queue promises to a single reader: the messages come out in the  *)
(* order in which they went in, each of them, once.                        *)
(***************************************************************************)
EXTENDS Sequences

CONSTANT Msg

VARIABLES chan, delivered

vars == <<chan, delivered>>

Init == chan = <<>> /\ delivered = <<>>

Send(m) ==
    /\ chan' = Append(chan, m)
    /\ UNCHANGED delivered

Receive ==
    /\ chan # <<>>
    /\ delivered' = Append(delivered, Head(chan))
    /\ chan' = Tail(chan)

Next == Receive \/ \E m \in Msg : Send(m)

SafeSpec == Init /\ [][Next]_vars

Spec == SafeSpec /\ WF_vars(Receive)
===============================================================================
