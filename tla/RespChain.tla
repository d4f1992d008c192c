------------------------------ MODULE RespChain ------------------------------
(***************************************************************************)
(* struct RespChainInterface (src/src/define.h, define.cc): the chain of   *)
(* gates a writer passes before it sends.  Each element has a flag, a      *)
(* mutex and a condition variable.  block() waits at an element until its  *)
(* flag is clear and then calls block() of the next element WHILE IT STILL *)
(* HOLDS the mutex of this one; the mutexes are released as the calls      *)
(* return.  set_block() changes a flag under the element's mutex.          *)
(*                                                                         *)
(* The elements are 1..N in the order of next_, which set_next_chain fixes *)
(* before any thread runs.  Any thread may call block() of the first       *)
(* element (Callers) or set_block() of any element (Setters).              *)
(*                                                                         *)
(* The operators named Fault... are not part of the model: each is an      *)
(* action as a plausible bug would change it, and shows that a property    *)
(* would notice.                                                           *)
(***************************************************************************)
EXTENDS Naturals

CONSTANTS N,         \* number of elements of the chain
          Callers,   \* threads that call block()
          Setters,   \* threads that call set_block()
          NoThread   \* the owner of a free mutex

ASSUME LengthAssumption == N \in Nat \ {0}

ASSUME ThreadsAssumption ==
    Callers \cap Setters = {} /\ NoThread \notin Callers \cup Setters

Threads == Callers \cup Setters
Elements == 1..N

VARIABLES blocked_,   \* the flag of each element
          mutex_,     \* the thread that holds the mutex of each element
          pc,         \* where each thread is in block() or set_block()
          at,         \* the element a caller has reached, 0 outside block()
          arg         \* the element and the flag a setter was called with

vars == <<blocked_, mutex_, pc, at, arg>>

\* Fault: the elements are open until somebody blocks them.
FaultInitOpen ==
    /\ blocked_ = [e \in Elements |-> FALSE]
    /\ mutex_ = [e \in Elements |-> NoThread]
    /\ pc = [t \in Threads |-> "idle"]
    /\ at = [c \in Callers |-> 0]
    /\ arg = [s \in Setters |-> [elem |-> 1, block |-> TRUE]]

Init ==
    /\ blocked_ = [e \in Elements |-> TRUE]
    /\ mutex_ = [e \in Elements |-> NoThread]
    /\ pc = [t \in Threads |-> "idle"]
    /\ at = [c \in Callers |-> 0]
    /\ arg = [s \in Setters |-> [elem |-> 1, block |-> TRUE]]

\* the callers that sleep on the condition variable nonblock_cond_ of e
Sleeping(e) == {c \in Callers : pc[c] = "sleep" /\ at[c] = e}

------------------------------------------------------------------------------
(* block() *)

BlockCall(c) ==
    /\ pc[c] = "idle"
    /\ pc' = [pc EXCEPT ![c] = "lock"]
    /\ at' = [at EXCEPT ![c] = 1]
    /\ UNCHANGED <<blocked_, mutex_, arg>>

\* unique_lock lock(mutex_), or the return from the wait.
BlockLock(c) ==
    /\ pc[c] = "lock"
    /\ mutex_[at[c]] = NoThread
    /\ mutex_' = [mutex_ EXCEPT ![at[c]] = c]
    /\ pc' = [pc EXCEPT ![c] = "check"]
    /\ UNCHANGED <<blocked_, at, arg>>

\* The flag is set: release the mutex of this element only, and sleep.
BlockSleep(c) ==
    /\ pc[c] = "check"
    /\ blocked_[at[c]]
    /\ mutex_' = [mutex_ EXCEPT ![at[c]] = NoThread]
    /\ pc' = [pc EXCEPT ![c] = "sleep"]
    /\ UNCHANGED <<blocked_, at, arg>>

\* Fault: the mutex is released before the next element is asked.
FaultNextUnlocked(c) ==
    /\ pc[c] = "check"
    /\ ~blocked_[at[c]]
    /\ at[c] < N
    /\ mutex_' = [mutex_ EXCEPT ![at[c]] = NoThread]
    /\ at' = [at EXCEPT ![c] = @ + 1]
    /\ pc' = [pc EXCEPT ![c] = "lock"]
    /\ UNCHANGED <<blocked_, arg>>

\* if (next_) next_->block(): go on, keeping the mutex.
BlockNext(c) ==
    /\ pc[c] = "check"
    /\ ~blocked_[at[c]]
    /\ at[c] < N
    /\ at' = [at EXCEPT ![c] = @ + 1]
    /\ pc' = [pc EXCEPT ![c] = "lock"]
    /\ UNCHANGED <<blocked_, mutex_, arg>>

\* The last element has no next_: block() begins to return.
BlockLast(c) ==
    /\ pc[c] = "check"
    /\ ~blocked_[at[c]]
    /\ at[c] = N
    /\ pc' = [pc EXCEPT ![c] = "unwind"]
    /\ UNCHANGED <<blocked_, mutex_, at, arg>>

\* One of the nested calls returns and its lock is destroyed.
Unwind(c) ==
    /\ pc[c] = "unwind"
    /\ mutex_' = [mutex_ EXCEPT ![at[c]] = NoThread]
    /\ at' = [at EXCEPT ![c] = @ - 1]
    /\ pc' = [pc EXCEPT ![c] = IF at[c] = 1 THEN "idle" ELSE "unwind"]
    /\ UNCHANGED <<blocked_, arg>>

\* A condition variable may wake a thread without a notification.
SpuriousWake(c) ==
    /\ pc[c] = "sleep"
    /\ pc' = [pc EXCEPT ![c] = "lock"]
    /\ UNCHANGED <<blocked_, mutex_, at, arg>>

------------------------------------------------------------------------------
(* set_block() *)

SetCall(s, e, b) ==
    /\ pc[s] = "idle"
    /\ pc' = [pc EXCEPT ![s] = "set"]
    /\ arg' = [arg EXCEPT ![s] = [elem |-> e, block |-> b]]
    /\ UNCHANGED <<blocked_, mutex_, at>>

SetLock(s) ==
    /\ pc[s] = "set"
    /\ mutex_[arg[s].elem] = NoThread
    /\ mutex_' = [mutex_ EXCEPT ![arg[s].elem] = s]
    /\ pc' = [pc EXCEPT ![s] = "store"]
    /\ UNCHANGED <<blocked_, at, arg>>

\* Fault: nobody is notified.
FaultStoreSilent(s) ==
    /\ pc[s] = "store"
    /\ blocked_' = [blocked_ EXCEPT ![arg[s].elem] = arg[s].block]
    /\ mutex_' = [mutex_ EXCEPT ![arg[s].elem] = NoThread]
    /\ pc' = [pc EXCEPT ![s] = "idle"]
    /\ UNCHANGED <<at, arg>>

\* Fault: the condition of the notification is inverted.
FaultStoreInverted(s) ==
    LET e == arg[s].elem
        b == arg[s].block IN
    /\ pc[s] = "store"
    /\ blocked_' = [blocked_ EXCEPT ![e] = b]
    /\ mutex_' = [mutex_ EXCEPT ![e] = NoThread]
    /\ \/ /\ ~b \/ Sleeping(e) = {}
          /\ pc' = [pc EXCEPT ![s] = "idle"]
       \/ /\ b
          /\ \E c \in Sleeping(e) :
                pc' = [pc EXCEPT ![s] = "idle", ![c] = "lock"]
    /\ UNCHANGED <<at, arg>>

\* Store the flag, wake one sleeper if the element is now open, unlock.
SetStore(s) ==
    LET e == arg[s].elem
        b == arg[s].block IN
    /\ pc[s] = "store"
    /\ blocked_' = [blocked_ EXCEPT ![e] = b]
    /\ mutex_' = [mutex_ EXCEPT ![e] = NoThread]
    /\ \/ /\ b \/ Sleeping(e) = {}
          /\ pc' = [pc EXCEPT ![s] = "idle"]
       \/ /\ ~b
          /\ \E c \in Sleeping(e) :
                pc' = [pc EXCEPT ![s] = "idle", ![c] = "lock"]
    /\ UNCHANGED <<at, arg>>

------------------------------------------------------------------------------
Block(c) ==
    BlockLock(c) \/ BlockSleep(c) \/ BlockNext(c) \/ BlockLast(c) \/ Unwind(c)

SetBlock(s) == SetLock(s) \/ SetStore(s)

Next ==
    \/ \E c \in Callers : BlockCall(c) \/ Block(c) \/ SpuriousWake(c)
    \/ \E s \in Setters :
          SetBlock(s) \/ \E e \in Elements, b \in BOOLEAN : SetCall(s, e, b)

Spec == Init /\ [][Next]_vars

(***************************************************************************)
(* Every call that has begun takes its steps when it can; nobody has to    *)
(* call, and the mutex promises no order among the threads that wait for   *)
(* it, so there is no strong fairness.                                     *)
(***************************************************************************)
Fairness ==
    /\ \A c \in Callers : WF_vars(Block(c))
    /\ \A s \in Setters : WF_vars(SetBlock(s))

FairSpec == Spec /\ Fairness

------------------------------------------------------------------------------
(* Properties *)

CallerPC == {"idle", "lock", "check", "sleep", "unwind"}
SetterPC == {"idle", "set", "store"}

TypeOK ==
    /\ blocked_ \in [Elements -> BOOLEAN]
    /\ mutex_ \in [Elements -> Threads \cup {NoThread}]
    /\ pc \in [Threads -> CallerPC \cup SetterPC]
    /\ \A c \in Callers : pc[c] \in CallerPC
    /\ \A s \in Setters : pc[s] \in SetterPC
    /\ at \in [Callers -> 0..N]
    /\ \A c \in Callers : at[c] = 0 <=> pc[c] = "idle"
    /\ arg \in [Setters -> [elem : Elements, block : BOOLEAN]]

\* the elements whose predicate a caller has found true and that it keeps locked
Passed(c) == {e \in Elements : e < at[c] \/ (e = at[c] /\ pc[c] = "unwind")}

\* the elements whose mutex a caller holds
Held(c) == {e \in Elements : e \in Passed(c) \/ (e = at[c] /\ pc[c] = "check")}

(***************************************************************************)
(* Every mutex is held by exactly the thread that is inside the critical   *)
(* section: a caller holds those of all the elements it has passed.        *)
(***************************************************************************)
MutexHeld ==
    /\ \A c \in Callers, e \in Elements : mutex_[e] = c <=> e \in Held(c)
    /\ \A s \in Setters, e \in Elements :
          mutex_[e] = s <=> pc[s] = "store" /\ arg[s].elem = e

(***************************************************************************)
(* An element stays open from the moment a caller passes it until the      *)
(* caller has unwound: set_block cannot close it behind the caller's back, *)
(* however long the caller sleeps further down.                            *)
(***************************************************************************)
PassedStayOpen == \A c \in Callers : \A e \in Passed(c) : ~blocked_[e]

(***************************************************************************)
(* "only all resp chain is nonblock can return here" (define.cc:23-24):    *)
(* when block() returns from its last element, all elements are open at    *)
(* that same moment, though they were looked at one after the other.       *)
(***************************************************************************)
ReturnsOnlyWhenOpen ==
    \A c \in Callers :
        pc[c] = "unwind" /\ at[c] = N => \A e \in Elements : ~blocked_[e]

(***************************************************************************)
(* No missed wake-up below the first element, though set_block wakes one   *)
(* thread only: a caller there holds the first mutex, so it is alone, and  *)
(* it sleeps only while its element is blocked.                            *)
(***************************************************************************)
NoMissedWakeup ==
    \A c \in Callers : pc[c] = "sleep" /\ at[c] > 1 => blocked_[at[c]]

(***************************************************************************)
(* With one caller (a writer has a chain of its own) block() returns       *)
(* infinitely often or is not being called, once all elements are open and *)
(* nobody calls set_block any more.                                        *)
(***************************************************************************)
Quiet == /\ \A e \in Elements : ~blocked_[e]
         /\ \A s \in Setters : pc[s] = "idle"

Alone(c) == \A d \in Callers \ {c} : pc[d] = "idle"

ReturnsWhenOpen ==
    \A c \in Callers : []Alone(c) /\ <>[]Quiet => []<>(pc[c] = "idle")

(***************************************************************************)
(* set_block() wakes one of those that sleep at the first element          *)
(* (define.cc:14), and the others sleep on; but the chain never leaves all *)
(* its callers asleep: once the elements are open for good, one that was   *)
(* woken gets through, though it may have slept further down as well.      *)
(***************************************************************************)
NotAllLeftAsleep == <>[]Quiet => []<>(\E c \in Callers : pc[c] # "sleep")

==============================================================================
