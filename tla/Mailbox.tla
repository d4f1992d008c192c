------------------------------- MODULE Mailbox -------------------------------
(***************************************************************************)
(* What a queue promises to several readers: a message that was sent is    *)
(* delivered to one reader, once, and nothing else is ever delivered.  The *)
(* order is left open.                                                     *)
(***************************************************************************)
CONSTANT Msg

VARIABLES sent, got

vars == <<sent, got>>

Init == sent = {} /\ got = {}

Send(m) ==
    /\ m \notin sent
    /\ sent' = sent \cup {m}
    /\ UNCHANGED got

Deliver(m) ==
    /\ m \in sent \ got
    /\ got' = got \cup {m}
    /\ UNCHANGED sent

Next == \E m \in Msg : Send(m) \/ Deliver(m)

SafeSpec == Init /\ [][Next]_vars

Spec == SafeSpec /\ \A m \in Msg : WF_vars(Deliver(m))
==============================================================================
