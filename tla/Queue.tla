-------------------------------- MODULE Queue --------------------------------
(***************************************************************************)
(* class Queue (src/src/writer.h, writer.cc): the unbounded message queue  *)
(* between the collector threads and the writer threads.  The mutex and    *)
(* the condition variable are modelled step by step, because push notifies *)
(* after it has released the mutex and wakes one thread only.              *)
(*                                                                         *)
(* Any number of threads may call push and pop.  A message is the pair     *)
(* <<producer, its how manieth push>>; MaxPush bounds the pushes of one    *)
(* producer.                                                               *)
(*                                                                         *)
(* The operators named Fault... are not part of the model: each is an      *)
(* action as a plausible bug would change it, and shows that a property    *)
(* would notice.                                                           *)
(***************************************************************************)
EXTENDS Naturals, Sequences, FiniteSets

CONSTANTS Producers,   \* threads that call push
          Consumers,   \* threads that call pop
          MaxPush,     \* bound: pushes of one producer
          NoThread     \* the owner of a free mutex

ASSUME ThreadsAssumption ==
    /\ Producers \cap Consumers = {}
    /\ NoThread \notin Producers \cup Consumers
    /\ IsFiniteSet(Producers) /\ IsFiniteSet(Consumers)

ASSUME MaxPushAssumption == MaxPush \in Nat

Threads == Producers \cup Consumers

Msg == Producers \X (1..MaxPush)

VARIABLES queue_,     \* the messages in the queue
          mutex_,     \* the thread that holds the mutex, or NoThread
          pc,         \* where each thread is in push or pop
          pushed,     \* number of messages each producer has put in
          elem,       \* <<m>> while pop is about to return m, else <<>>
          returned    \* history: the messages in the order pop returned them

vars == <<queue_, mutex_, pc, pushed, elem, returned>>

\* the threads that sleep on the condition variable empty_
Sleeping == {c \in Consumers : pc[c] = "sleep"}

Init ==
    /\ queue_ = <<>>
    /\ mutex_ = NoThread
    /\ pc = [t \in Threads |-> "idle"]
    /\ pushed = [p \in Producers |-> 0]
    /\ elem = [c \in Consumers |-> <<>>]
    /\ returned = <<>>

------------------------------------------------------------------------------
(* push *)

\* The call of push, up to the constructor of unique_lock.
PushLock(p) ==
    /\ pc[p] = "idle"
    /\ pushed[p] < MaxPush
    /\ mutex_ = NoThread
    /\ mutex_' = p
    /\ pc' = [pc EXCEPT ![p] = "append"]
    /\ UNCHANGED <<queue_, pushed, elem, returned>>

\* Fault: the notification is forgotten.
FaultAppendSilent(p) ==
    /\ pc[p] = "append"
    /\ queue_' = Append(queue_, <<p, pushed[p] + 1>>)
    /\ pushed' = [pushed EXCEPT ![p] = @ + 1]
    /\ mutex_' = NoThread
    /\ pc' = [pc EXCEPT ![p] = "idle"]
    /\ UNCHANGED <<elem, returned>>

\* queue_.push(msg), then the end of the block releases the mutex.
PushAppend(p) ==
    /\ pc[p] = "append"
    /\ queue_' = Append(queue_, <<p, pushed[p] + 1>>)
    /\ pushed' = [pushed EXCEPT ![p] = @ + 1]
    /\ mutex_' = NoThread
    /\ pc' = [pc EXCEPT ![p] = "notify"]
    /\ UNCHANGED <<elem, returned>>

\* Fault: notify only when the queue has just ceased to be empty.
FaultNotifyFirstOnly(p) ==
    /\ pc[p] = "notify"
    /\ \/ /\ Len(queue_) # 1 \/ Sleeping = {}
          /\ pc' = [pc EXCEPT ![p] = "idle"]
       \/ /\ Len(queue_) = 1
          /\ \E c \in Sleeping :
                pc' = [pc EXCEPT ![p] = "idle", ![c] = "woken"]
    /\ UNCHANGED <<queue_, mutex_, pushed, elem, returned>>

\* empty_.notify_one(): wakes one of the sleeping threads, any one.
PushNotify(p) ==
    /\ pc[p] = "notify"
    /\ \/ /\ Sleeping = {}
          /\ pc' = [pc EXCEPT ![p] = "idle"]
       \/ \E c \in Sleeping :
             pc' = [pc EXCEPT ![p] = "idle", ![c] = "woken"]
    /\ UNCHANGED <<queue_, mutex_, pushed, elem, returned>>

------------------------------------------------------------------------------
(* pop *)

\* The call of pop, or the return from a wait: take the mutex.
PopLock(c) ==
    /\ pc[c] \in {"idle", "woken"}
    /\ mutex_ = NoThread
    /\ mutex_' = c
    /\ pc' = [pc EXCEPT ![c] = "check"]
    /\ UNCHANGED <<queue_, pushed, elem, returned>>

\* The predicate of the wait is false: release the mutex and sleep, atomically.
PopSleep(c) ==
    /\ pc[c] = "check"
    /\ queue_ = <<>>
    /\ mutex_' = NoThread
    /\ pc' = [pc EXCEPT ![c] = "sleep"]
    /\ UNCHANGED <<queue_, pushed, elem, returned>>

\* Fault: the element is taken from the other end.
FaultFrontIsBack(c) ==
    /\ pc[c] = "check"
    /\ queue_ # <<>>
    /\ elem' = [elem EXCEPT ![c] = <<queue_[Len(queue_)]>>]
    /\ pc' = [pc EXCEPT ![c] = "pop"]
    /\ UNCHANGED <<queue_, mutex_, pushed, returned>>

\* The predicate holds: copy the front element ...
PopFront(c) ==
    /\ pc[c] = "check"
    /\ queue_ # <<>>
    /\ elem' = [elem EXCEPT ![c] = <<Head(queue_)>>]
    /\ pc' = [pc EXCEPT ![c] = "pop"]
    /\ UNCHANGED <<queue_, mutex_, pushed, returned>>

\* Fault: the element is returned and not dropped.
FaultTakeKeeps(c) ==
    /\ pc[c] = "pop"
    /\ mutex_' = NoThread
    /\ pc' = [pc EXCEPT ![c] = "return"]
    /\ UNCHANGED <<queue_, pushed, elem, returned>>

\* ... drop it from the queue and release the mutex.
PopTake(c) ==
    /\ pc[c] = "pop"
    /\ queue_' = Tail(queue_)
    /\ mutex_' = NoThread
    /\ pc' = [pc EXCEPT ![c] = "return"]
    /\ UNCHANGED <<pushed, elem, returned>>

\* The caller has the message; it may be overtaken between unlock and return.
PopReturn(c) ==
    /\ pc[c] = "return"
    /\ returned' = returned \o elem[c]
    /\ elem' = [elem EXCEPT ![c] = <<>>]
    /\ pc' = [pc EXCEPT ![c] = "idle"]
    /\ UNCHANGED <<queue_, mutex_, pushed>>

\* A condition variable may wake a thread without a notification.
SpuriousWake(c) ==
    /\ pc[c] = "sleep"
    /\ pc' = [pc EXCEPT ![c] = "woken"]
    /\ UNCHANGED <<queue_, mutex_, pushed, elem, returned>>

------------------------------------------------------------------------------
Push(p) == PushLock(p) \/ PushAppend(p) \/ PushNotify(p)

Pop(c) == PopLock(c) \/ PopSleep(c) \/ PopFront(c) \/ PopTake(c) \/ PopReturn(c)

Next ==
    \/ \E p \in Producers : Push(p)
    \/ \E c \in Consumers : Pop(c) \/ SpuriousWake(c)

Spec == Init /\ [][Next]_vars

(***************************************************************************)
(* A push that has begun runs to its end, and every consumer calls pop     *)
(* again and again: both writers pop in a while (true) loop.  Nothing      *)
(* makes a producer push, and nothing makes a spurious wake-up happen.     *)
(***************************************************************************)
Fairness ==
    /\ \A p \in Producers : WF_vars(PushAppend(p) \/ PushNotify(p))
    /\ \A c \in Consumers : WF_vars(Pop(c))

FairSpec == Spec /\ Fairness

------------------------------------------------------------------------------
(* Properties *)

ProducerPC == {"idle", "append", "notify"}
ConsumerPC == {"idle", "check", "sleep", "woken", "pop", "return"}

TypeOK ==
    /\ queue_ \in Seq(Msg)
    /\ mutex_ \in Threads \cup {NoThread}
    /\ pc \in [Threads -> ProducerPC \cup ConsumerPC]
    /\ \A p \in Producers : pc[p] \in ProducerPC
    /\ \A c \in Consumers : pc[c] \in ConsumerPC
    /\ pushed \in [Producers -> 0..MaxPush]
    /\ elem \in [Consumers -> Seq(Msg)]
    /\ returned \in Seq(Msg)

(***************************************************************************)
(* What makes the other invariants inductive: a thread inside a critical   *)
(* section holds the mutex, so that the element pop has copied is still    *)
(* the first of the queue when pop drops it.                               *)
(***************************************************************************)
MutexHeld ==
    \A t \in Threads : pc[t] \in {"append", "check", "pop"} <=> mutex_ = t

FrontHeld ==
    \A c \in Consumers :
        pc[c] = "pop" => queue_ # <<>> /\ elem[c] = <<Head(queue_)>>

\* the bound on the pushes is checked when push is called
PushBounded ==
    \A p \in Producers : pc[p] = "append" => pushed[p] < MaxPush

\* the pushes that have still to notify, and the pops that will look at the
\* queue before they sleep
Notifying == {p \in Producers : pc[p] = "notify"}
Looking   == {c \in Consumers : pc[c] \in {"check", "woken", "pop"}}

(***************************************************************************)
(* No lost wake-up.  notify_one is called after the mutex is released and  *)
(* wakes one thread, so the danger is that a consumer sleeps while a       *)
(* message lies in the queue and nobody is left to wake it.  While any     *)
(* consumer sleeps, every queued message has a notification still to come  *)
(* or a consumer on its way to the queue.                                  *)
(***************************************************************************)
WakeupCredit ==
    Sleeping # {} =>
        Len(queue_) <= Cardinality(Notifying) + Cardinality(Looking)

\* The messages push has put into the queue, and where they can be now.
Appended == {m \in Msg : m[2] <= pushed[m[1]]}

Messages(s) == {s[i] : i \in DOMAIN s}

Distinct(s) == \A i, j \in DOMAIN s : s[i] = s[j] => i = j

\* the messages taken from the queue that pop has not returned yet
Taken(c) == pc[c] = "return"

InHand == {elem[c][1] : c \in {d \in Consumers : Taken(d)}}

(***************************************************************************)
(* No message is lost or doubled by concurrent pushes and pops: what was   *)
(* pushed is in the queue, in the hands of one pop, or was returned, and   *)
(* in only one of these places.                                            *)
(***************************************************************************)
Conservation ==
    /\ Messages(queue_) \cup InHand \cup Messages(returned) = Appended
    /\ Messages(queue_) \cap (InHand \cup Messages(returned)) = {}
    /\ InHand \cap Messages(returned) = {}
    /\ Distinct(queue_) /\ Distinct(returned)
    /\ \A c, d \in Consumers : Taken(c) /\ Taken(d) /\ c # d => elem[c] # elem[d]

(***************************************************************************)
(* The queue implements the abstract mailbox, its fairness included: a     *)
(* message once pushed is returned by some pop, whatever the interleaving  *)
(* of locks, sleeps and wake-ups.                                          *)
(***************************************************************************)
MB == INSTANCE Mailbox WITH sent <- Appended, got <- Messages(returned)

ImplementsMailbox == MB!Spec

==============================================================================
