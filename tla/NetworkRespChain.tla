--------------------------- MODULE NetworkRespChain ---------------------------
(***************************************************************************)
(* NetworkRespChain::init (src/src/resp_chain.cc): the gate that follows   *)
(* the connectivity NetworkManager reports.  The init thread waits for the *)
(* service, connects a handler to PropertiesChanged, and then reads the    *)
(* Connectivity property once, with a call that blocks until the answer is *)
(* there.  The handler is for a dispatcher of the bus to run, in a thread  *)
(* of its own.  The code makes one (install_executor) and nothing runs it  *)
(* (Bus::run has no caller): Dispatch is a step that may be taken, so that *)
(* what is safe is safe with a dispatcher, and no fairness is given to it. *)
(*                                                                         *)
(* External: NetworkManager and the bus.  The signals NetworkManager sends *)
(* to this process arrive in the order they were sent.  set_block is one   *)
(* step here: only the dispatcher and the init thread call it, and         *)
(* RespChain models its mutex.                                             *)
(*                                                                         *)
(* The operators named Fault... are not part of the model: each is an      *)
(* action as a plausible bug would change it.                              *)
(***************************************************************************)
EXTENDS Naturals, Sequences

CONSTANTS Levels,      \* values of the Connectivity property
          Full,        \* the value 4, NM_CONNECTIVITY_FULL
          MaxChanges   \* bound: changes NetworkManager announces

ASSUME LevelsAssumption == Levels \subseteq Nat /\ Full \in Levels

ASSUME MaxChangesAssumption == MaxChanges \in Nat

VARIABLES service,        \* NetworkManager owns its name on the bus
          connectivity,   \* the value of its property
          changes,        \* number of changes announced
          bus,            \* signals on their way to this process
          answer,         \* the reply the init thread has got
          pc,             \* where the init thread is
          blocked_        \* the flag of this element of the chain

vars == <<service, connectivity, changes, bus, answer, pc, blocked_>>

Signal(v) == [kind |-> "connectivity", level |-> v]
OtherSignal == [kind |-> "other", level |-> Full]

Init ==
    /\ service \in BOOLEAN
    /\ connectivity \in Levels
    /\ changes = 0
    /\ bus = <<>>
    /\ answer = {}
    /\ pc = "wait"
    /\ blocked_ = TRUE

------------------------------------------------------------------------------
(* External: NetworkManager *)

ServiceAppears ==
    /\ ~service
    /\ service' = TRUE
    /\ UNCHANGED <<connectivity, changes, bus, answer, pc, blocked_>>

\* A signal reaches this process only after it has connected a handler.
Connected == pc \notin {"wait", "connect"}

Announce(m) == bus' = IF Connected THEN Append(bus, m) ELSE bus

ConnectivityChanges(v) ==
    /\ service
    /\ changes < MaxChanges
    /\ v # connectivity
    /\ connectivity' = v
    /\ changes' = changes + 1
    /\ Announce(Signal(v))
    /\ UNCHANGED <<service, answer, pc, blocked_>>

\* PropertiesChanged of properties other than Connectivity.
OtherChanges ==
    /\ service
    /\ changes < MaxChanges
    /\ changes' = changes + 1
    /\ Announce(OtherSignal)
    /\ UNCHANGED <<service, connectivity, answer, pc, blocked_>>

\* The property read of the init thread is answered.  get() blocks and takes
\* the reply itself; the signals that came before it stay queued.
AnswerGet ==
    /\ pc = "get"
    /\ answer' = {connectivity}
    /\ pc' = "answered"
    /\ UNCHANGED <<service, connectivity, changes, bus, blocked_>>

------------------------------------------------------------------------------
(* The dispatcher *)

\* Fault: the handler does not look which property has changed.
FaultAnyProperty ==
    /\ bus # <<>>
    /\ blocked_' = (Head(bus).kind = "other" \/ Head(bus).level # Full)
    /\ bus' = Tail(bus)
    /\ UNCHANGED <<service, connectivity, changes, answer, pc>>

\* The lambda connected to PropertiesChanged.
OnPropertiesChanged ==
    /\ bus # <<>>
    /\ blocked_' = IF Head(bus).kind = "other" THEN blocked_
                   ELSE Head(bus).level # Full
    /\ bus' = Tail(bus)
    /\ UNCHANGED <<service, connectivity, changes, answer, pc>>

------------------------------------------------------------------------------
(* The init thread *)

\* Fault: the name is looked up once, at the start.
FaultLookOnce ==
    /\ pc = "wait"
    /\ pc' = IF service THEN "connect" ELSE "sigwait"
    /\ UNCHANGED <<service, connectivity, changes, bus, answer, blocked_>>

\* DBusUtils::wait_system_dbus polls until the name has an owner.
WaitService ==
    /\ pc = "wait"
    /\ service
    /\ pc' = "connect"
    /\ UNCHANGED <<service, connectivity, changes, bus, answer, blocked_>>

\* Fault: the property is read first and the handler connected later.
FaultReadFirst ==
    /\ pc = "connect"
    /\ \/ answer = {} /\ answer' = {connectivity} /\ pc' = pc
       \/ answer # {} /\ answer' = answer /\ pc' = "answered"
    /\ UNCHANGED <<service, connectivity, changes, bus, blocked_>>

ConnectSignal ==
    /\ pc = "connect"
    /\ pc' = "get"
    /\ UNCHANGED <<service, connectivity, changes, bus, answer, blocked_>>

\* Fault: not online at the start means blocked.
FaultApplyBoth ==
    /\ pc = "answered"
    /\ \E v \in answer : blocked_' = (v # Full)
    /\ pc' = "sigwait"
    /\ UNCHANGED <<service, connectivity, changes, bus, answer>>

\* The reply is applied only when it says online; then the thread waits for
\* SIGINT.
ApplyAnswer ==
    /\ pc = "answered"
    /\ \E v \in answer : blocked_' = (blocked_ /\ v # Full)
    /\ pc' = "sigwait"
    /\ UNCHANGED <<service, connectivity, changes, bus, answer>>

------------------------------------------------------------------------------
Dispatch == OnPropertiesChanged

InitThread == WaitService \/ ConnectSignal \/ ApplyAnswer

NetworkManager ==
    \/ ServiceAppears
    \/ \E v \in Levels : ConnectivityChanges(v)
    \/ OtherChanges
    \/ AnswerGet

Next == NetworkManager \/ Dispatch \/ InitThread

Spec == Init /\ [][Next]_vars

(***************************************************************************)
(* The init thread runs, and NetworkManager answers the call that blocks   *)
(* it.  Nothing makes NetworkManager appear or change, and nothing makes   *)
(* the dispatcher run: no thread of the program does.                      *)
(***************************************************************************)
FairSpec ==
    /\ Spec
    /\ WF_vars(InitThread)
    /\ WF_vars(AnswerGet)

------------------------------------------------------------------------------
(* Properties *)

TypeOK ==
    /\ service \in BOOLEAN
    /\ connectivity \in Levels
    /\ changes \in 0..MaxChanges
    /\ bus \in Seq([kind : {"connectivity", "other"}, level : Levels])
    /\ answer \in SUBSET Levels
    /\ answer # {} => pc \in {"answered", "sigwait"}
    /\ pc \in {"wait", "connect", "get", "answered", "sigwait"}
    /\ blocked_ \in BOOLEAN

\* Everything NetworkManager has said has been acted upon.
Settled == pc = "sigwait" /\ bus = <<>>

Online == connectivity = Full

(***************************************************************************)
(* The gate is never stuck closed: once everything NetworkManager has said *)
(* is acted upon and it is online, the element is open, although a reply   *)
(* that is not "online" is ignored and the reply races with the signals.   *)
(***************************************************************************)
NeverStuckClosed == Settled /\ Online => ~blocked_

(***************************************************************************)
(* Whether NetworkManager starts before this program or after it: when the *)
(* property read says online, the gate opens, without any dispatcher       *)
(* (resp_chain.cc:39 waits for the name, 67-70 read and apply).            *)
(***************************************************************************)
OpensAtStart == <>service /\ [](answer \subseteq {Full}) => <>(~blocked_)

(***************************************************************************)
(* A wrong flag can only come from the start: once the flag is right with  *)
(* everything acted upon, it is right whenever everything is acted upon.   *)
(***************************************************************************)
Right == blocked_ <=> ~Online

OnceRightStaysRight == [](Settled /\ Right => [](Settled => Right))

(***************************************************************************)
(* "NetworkRespChain use to control write op according to network state"   *)
(* (resp_chain.h:18): once settled, the element is open only if            *)
(* NetworkManager is online.  A reply that says online, applied after the  *)
(* handler has seen a later signal that says offline, breaks it.           *)
(***************************************************************************)
ClosedWhenOffline == Settled /\ ~Online => blocked_

==============================================================================
