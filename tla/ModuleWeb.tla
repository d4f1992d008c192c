------------------------------ MODULE ModuleWeb ------------------------------
(***************************************************************************)
(* ModuleWeb::write (src/src/writer.cc): the loop of the web writer, the   *)
(* component where the response chain and a queue meet.  It extends        *)
(* RespChain (the gates of rule_) and instantiates Queue (the queue it     *)
(* pops from): the writer is the only caller of block() and the only       *)
(* consumer.                                                               *)
(*                                                                         *)
(* One turn of the loop asks rule_ if there is one, pops a message, blocks *)
(* its own element if the message carries the system information, and      *)
(* sends.  send() dereferences the null pointer that aes_encode returns    *)
(* (writer.cc:509-512, utils.cc:156-160): the process dies there, whatever *)
(* the message, so nothing after it in the loop is ever reached.           *)
(*                                                                         *)
(* rule_ is set or not when the loop starts: set_resp_chain() is called    *)
(* before, or never, as in the application (application.cc:67-80).  own is *)
(* the place of the writer's own element in the chain, 0 when it is not    *)
(* part of it; set_next_chain() fixes it before the loop starts.           *)
(*                                                                         *)
(* The operators named Fault... are not part of the model: each is an      *)
(* action as a plausible bug would change it.                              *)
(***************************************************************************)
EXTENDS RespChain, Sequences, FiniteSets

CONSTANTS Writer,       \* the one of Callers that runs write()
          WriterSets,   \* the one of Setters that stands for it in set_block()
          Producers,    \* the threads that push to the queue
          SystemInfo,   \* those whose messages have tid SystemInfoTid
          MaxPush,      \* bound: pushes of one producer
          Owns,         \* the places of the writer's own element to look at
          Rules         \* the states of rule_ to look at: set, or not

ASSUME WebAssumption ==
    /\ Writer \in Callers /\ WriterSets \in Setters
    /\ Owns \subseteq 0..N
    /\ Rules \subseteq BOOLEAN

ASSUME ProducersAssumption ==
    /\ IsFiniteSet(Producers) /\ SystemInfo \subseteq Producers
    /\ Writer \notin Producers /\ NoThread \notin Producers
    /\ MaxPush \in Nat

VARIABLES queue_, queueMutex, queuePc, pushed, elem, returned, \* the queue
          rule_,      \* set_resp_chain() has been called
          own,        \* the writer's own element of the chain, or 0
          stage,      \* where the writer is in its loop
          wasOpen     \* history: all gates were open together at some time

queueVars == <<queue_, queueMutex, queuePc, pushed, elem, returned>>
webVars == <<vars, queueVars, rule_, own, stage, wasOpen>>

Q == INSTANCE Queue
    WITH Consumers <- {Writer}, mutex_ <- queueMutex, pc <- queuePc

WebInit ==
    /\ Init /\ Q!Init
    /\ rule_ \in Rules
    /\ own \in Owns
    /\ stage = "gate"
    /\ wasOpen = FALSE

\* the elements set by other threads
Gates == Elements \ {own}

AllOpen == \A e \in Gates : ~blocked_[e]

------------------------------------------------------------------------------
(* One turn of the loop *)

\* if (rule_) rule_->block()
CallRule ==
    /\ stage = "gate"
    /\ rule_
    /\ BlockCall(Writer)
    /\ stage' = "block"
    /\ UNCHANGED queueVars

SkipRule ==
    /\ stage = "gate"
    /\ ~rule_
    /\ stage' = "pop"
    /\ UNCHANGED <<vars, queueVars>>

\* Fault: the writer does not wait for block() to return.
FaultInRule ==
    /\ stage = "block"
    /\ Block(Writer)
    /\ stage' = IF at'[Writer] = N THEN "pop" ELSE "block"
    /\ UNCHANGED queueVars

InRule ==
    /\ stage = "block"
    /\ Block(Writer)
    /\ stage' = IF pc'[Writer] = "idle" THEN "pop" ELSE "block"
    /\ UNCHANGED queueVars

\* auto req = que->pop()
InPop ==
    /\ stage = "pop"
    /\ Q!Pop(Writer)
    /\ stage' = IF queuePc[Writer] = "return" THEN "tid" ELSE "pop"
    /\ UNCHANGED vars

req == returned[Len(returned)]

HasSystemInfo == req[1] \in SystemInfo

\* set_tid_block(req->tid): nothing for the other kinds of message, and
\* nothing anybody can see when the writer is not part of the chain.
SkipTidBlock ==
    /\ stage = "tid"
    /\ ~HasSystemInfo \/ own = 0
    /\ stage' = "send"
    /\ UNCHANGED <<vars, queueVars>>

CallTidBlock ==
    /\ stage = "tid"
    /\ HasSystemInfo /\ own # 0
    /\ SetCall(WriterSets, own, TRUE)
    /\ stage' = "settid"
    /\ UNCHANGED queueVars

InTidBlock ==
    /\ stage = "settid"
    /\ SetBlock(WriterSets)
    /\ stage' = IF pc'[WriterSets] = "idle" THEN "send" ELSE "settid"
    /\ UNCHANGED queueVars

\* auto result = send(req): the null pointer is dereferenced.
Send ==
    /\ stage = "send"
    /\ stage' = "crashed"
    /\ UNCHANGED <<vars, queueVars>>

------------------------------------------------------------------------------
(* The other threads *)

\* the other threads that call set_block()
Others == Setters \ {WriterSets}

SetGate(s) ==
    /\ \/ SetBlock(s)
       \/ \E e \in Gates, b \in BOOLEAN : SetCall(s, e, b)
    /\ UNCHANGED <<queueVars, stage>>

PushMessage(p) ==
    /\ Q!Push(p)
    /\ UNCHANGED <<vars, stage>>

Wake ==
    \/ SpuriousWake(Writer) /\ UNCHANGED <<queueVars, stage>>
    \/ Q!SpuriousWake(Writer) /\ UNCHANGED <<vars, stage>>

------------------------------------------------------------------------------
Write ==
    \/ CallRule \/ SkipRule \/ InRule \/ InPop
    \/ SkipTidBlock \/ CallTidBlock \/ InTidBlock \/ Send

WebNext ==
    /\ stage # "crashed"
    /\ \/ Write
       \/ \E s \in Others : SetGate(s)
       \/ \E p \in Producers : PushMessage(p)
       \/ Wake
    /\ UNCHANGED <<rule_, own>>
    /\ wasOpen' = (wasOpen \/ AllOpen')

WebSpec == WebInit /\ [][WebNext]_webVars

(***************************************************************************)
(* The writer runs, a set_block or push that has begun goes on.            *)
(***************************************************************************)
WebFairSpec ==
    /\ WebSpec
    /\ WF_webVars(WebNext /\ Write)
    /\ \A s \in Others :
          WF_webVars(WebNext /\ SetBlock(s) /\ UNCHANGED <<queueVars, stage>>)
    /\ \A p \in Producers :
          WF_webVars(WebNext /\ queuePc[p] # "idle" /\ PushMessage(p))

------------------------------------------------------------------------------
(* Properties *)

(***************************************************************************)
(* The chain gates the writer at least once per message: the writer pops   *)
(* only after all the gates have been open at one and the same time.       *)
(***************************************************************************)
PopsOnlyAfterOpen == rule_ /\ stage \notin {"gate", "block"} => wasOpen

(***************************************************************************)
(* The writer holds only what its line of the loop is about: waiting for a *)
(* message keeps no gate locked, so Enable and the network can set theirs, *)
(* and waiting at a gate keeps no producer from the queue.                 *)
(***************************************************************************)
PopHoldsNoGate ==
    /\ stage # "block" =>
          at[Writer] = 0 /\ \A e \in Elements : mutex_[e] # Writer
    /\ stage # "pop" => queuePc[Writer] = "idle" /\ queueMutex # Writer

(***************************************************************************)
(* A queued message reaches send(): without a rule, as the application     *)
(* leaves it, whatever the gates say and the setters do; with one, if the  *)
(* chain holds only gates of others, they stay open in the end and nobody  *)
(* calls set_block any more.                                               *)
(***************************************************************************)
Calm == AllOpen /\ \A s \in Others : pc[s] = "idle"

ReachesSend ==
    /\ ~rule_ \/ (own = 0 /\ <>[]Calm)
    /\ <>(queue_ # <<>>)
    => <>(stage = "crashed")

(***************************************************************************)
(* In the chain the application wires, plan -> network -> web, the last    *)
(* element is the writer's own: it is blocked at the start and only the    *)
(* writer would clear it, after a send.  A writer with that chain as its   *)
(* rule never takes a message.                                             *)
(***************************************************************************)
NeverPops ==
    rule_ /\ own # 0 => stage \in {"gate", "block"} /\ returned = <<>>

(***************************************************************************)
(* "ExplanRespChain use to control write op according to experience plan   *)
(* enable state" (resp_chain.h:33), "NetworkRespChain use to control write *)
(* op according to network state" (resp_chain.h:18): data is sent only     *)
(* while the plan is enabled and the network is up.                        *)
(***************************************************************************)
SendsOnlyWhenOpen == stage = "send" => AllOpen

==============================================================================
