---------------------------- MODULE ModuleWebProofs ----------------------------
(***************************************************************************)
(* Proofs about RespChain, for any length of the chain and any sets of     *)
(* callers and setters; and, in the second part, about ModuleWeb, whose    *)
(* writer is one of the callers of that chain and the consumer of a queue. *)
(* What the chain and the queue promise to any client is proved of Spec    *)
(* here and of Queue in QueueProofs, and used for the writer by showing    *)
(* that each of its steps is a step of a client or none.                   *)
(***************************************************************************)
EXTENDS ModuleWeb, FiniteSetTheorems, TLAPS

\* The inductive part: types and the ownership of the mutexes.
LockInv == TypeOK /\ MutexHeld

LEMMA InitLockInv == Init => LockInv
BY LengthAssumption, ThreadsAssumption
   DEF Init, LockInv, TypeOK, MutexHeld, Held, Passed, Threads, Elements,
       CallerPC, SetterPC

LEMMA NextTypeOK == TypeOK /\ [Next]_vars => TypeOK'
<1> SUFFICES ASSUME TypeOK, [Next]_vars
             PROVE  TypeOK'
    OBVIOUS
<1> USE LengthAssumption, ThreadsAssumption
    DEF TypeOK, Threads, Elements, CallerPC, SetterPC
<1>1. ASSUME NEW c \in Callers, BlockCall(c)
      PROVE  TypeOK'
      BY <1>1 DEF BlockCall
<1>2. ASSUME NEW c \in Callers, BlockLock(c)
      PROVE  TypeOK'
      BY <1>2 DEF BlockLock
<1>3. ASSUME NEW c \in Callers, BlockSleep(c)
      PROVE  TypeOK'
      BY <1>3 DEF BlockSleep
<1>4. ASSUME NEW c \in Callers, BlockNext(c)
      PROVE  TypeOK'
      BY <1>4 DEF BlockNext
<1>5. ASSUME NEW c \in Callers, BlockLast(c)
      PROVE  TypeOK'
      BY <1>5 DEF BlockLast
<1>6. ASSUME NEW c \in Callers, Unwind(c)
      PROVE  TypeOK'
      BY <1>6 DEF Unwind
<1>7. ASSUME NEW c \in Callers, SpuriousWake(c)
      PROVE  TypeOK'
      BY <1>7 DEF SpuriousWake
<1>8. ASSUME NEW s \in Setters, NEW e \in Elements, NEW b \in BOOLEAN, SetCall(s, e, b)
      PROVE  TypeOK'
      BY <1>8 DEF SetCall
<1>9. ASSUME NEW s \in Setters, SetLock(s)
      PROVE  TypeOK'
      BY <1>9 DEF SetLock
<1>10. ASSUME NEW s \in Setters, SetStore(s)
       PROVE  TypeOK'
       BY <1>10 DEF SetStore, Sleeping
<1>11. CASE UNCHANGED vars
       BY <1>11 DEF vars
<1> HIDE DEF TypeOK
<1>12. QED
       BY <1>1, <1>2, <1>3, <1>4, <1>5, <1>6, <1>7, <1>8, <1>9, <1>10, <1>11
       DEF Next, Block, SetBlock

LEMMA NextMutexHeld == LockInv /\ [Next]_vars => MutexHeld'
<1> SUFFICES ASSUME LockInv, [Next]_vars
             PROVE  MutexHeld'
    OBVIOUS
<1> USE LengthAssumption, ThreadsAssumption
    DEF LockInv, TypeOK, Threads, Elements, CallerPC, SetterPC,
        MutexHeld, Held, Passed
<1>1. ASSUME NEW c \in Callers, BlockCall(c)
      PROVE  MutexHeld'
      BY <1>1 DEF BlockCall
<1>2. ASSUME NEW c \in Callers, BlockLock(c)
      PROVE  MutexHeld'
      BY <1>2 DEF BlockLock
<1>3. ASSUME NEW c \in Callers, BlockSleep(c)
      PROVE  MutexHeld'
      BY <1>3 DEF BlockSleep
<1>4. ASSUME NEW c \in Callers, BlockNext(c)
      PROVE  MutexHeld'
      BY <1>4 DEF BlockNext
<1>5. ASSUME NEW c \in Callers, BlockLast(c)
      PROVE  MutexHeld'
      BY <1>5 DEF BlockLast
<1>6. ASSUME NEW c \in Callers, Unwind(c)
      PROVE  MutexHeld'
      BY <1>6 DEF Unwind
<1>7. ASSUME NEW c \in Callers, SpuriousWake(c)
      PROVE  MutexHeld'
      BY <1>7 DEF SpuriousWake
<1>8. ASSUME NEW s \in Setters, NEW e \in Elements, NEW b \in BOOLEAN, SetCall(s, e, b)
      PROVE  MutexHeld'
      BY <1>8 DEF SetCall
<1>9. ASSUME NEW s \in Setters, SetLock(s)
      PROVE  MutexHeld'
      BY <1>9 DEF SetLock
<1>10. ASSUME NEW s \in Setters, SetStore(s)
       PROVE  MutexHeld'
       BY <1>10 DEF SetStore, Sleeping
<1>11. CASE UNCHANGED vars
       BY <1>11 DEF vars
<1>12. QED
       BY <1>1, <1>2, <1>3, <1>4, <1>5, <1>6, <1>7, <1>8, <1>9, <1>10, <1>11
       DEF Next, Block, SetBlock

LEMMA NextLockInv == LockInv /\ [Next]_vars => LockInv'
BY NextTypeOK, NextMutexHeld DEF LockInv

LEMMA InitPassedStayOpen == Init => PassedStayOpen
BY LengthAssumption DEF Init, PassedStayOpen, Passed, Elements, Threads

LEMMA NextPassedStayOpen ==
    LockInv /\ PassedStayOpen /\ [Next]_vars => PassedStayOpen'
<1> SUFFICES ASSUME LockInv, PassedStayOpen, [Next]_vars,
                    NEW c \in Callers, NEW e \in Passed(c)'
             PROVE  ~blocked_'[e]
    BY DEF PassedStayOpen
<1> USE LengthAssumption, ThreadsAssumption
    DEF LockInv, TypeOK, Threads, Elements, CallerPC, SetterPC, PassedStayOpen
<1>0. e \in Elements
      BY DEF Passed
<1>1. ASSUME NEW d \in Callers, Block(d) \/ BlockCall(d) \/ SpuriousWake(d)
      PROVE  ~blocked_'[e]
  <2>1. blocked_' = blocked_
        BY <1>1 DEF Block, BlockCall, BlockLock, BlockSleep, BlockNext,
                    BlockLast, Unwind, SpuriousWake
  <2>2. CASE e \in Passed(c)
        BY <2>1, <2>2
  <2>3. CASE e \notin Passed(c)
    <3>1. CASE BlockNext(d)
          BY <3>1, <1>0, <2>1, <2>3 DEF Passed, BlockNext
    <3>2. CASE BlockLast(d)
          BY <3>2, <1>0, <2>1, <2>3 DEF Passed, BlockLast
    <3>3. CASE BlockCall(d)
          BY <3>3, <1>0, <2>3 DEF Passed, BlockCall
    <3>4. CASE BlockLock(d) \/ BlockSleep(d) \/ SpuriousWake(d)
          BY <3>4, <1>0, <2>3 DEF Passed, BlockLock, BlockSleep, SpuriousWake
    <3>5. CASE Unwind(d)
          BY <3>5, <1>0, <2>3 DEF Passed, Unwind
    <3>6. QED
          BY <1>1, <3>1, <3>2, <3>3, <3>4, <3>5 DEF Block
  <2>4. QED
        BY <2>2, <2>3
<1>2. ASSUME NEW s \in Setters, SetStore(s)
      PROVE  ~blocked_'[e]
  <2>1. e \in Passed(c)
        BY <1>2 DEF SetStore, Sleeping, Passed
  <2>2. mutex_[e] = c /\ mutex_[arg[s].elem] = s
        BY <1>2, <2>1, <1>0 DEF MutexHeld, Held, SetStore
  <2>3. e # arg[s].elem
        BY <2>2
  <2>4. blocked_'[e] = blocked_[e]
        BY <1>2, <2>3 DEF SetStore
  <2>5. QED
        BY <2>1, <2>4
<1>3. ASSUME UNCHANGED <<blocked_, at>>, UNCHANGED pc[c]
      PROVE  ~blocked_'[e]
      BY <1>3 DEF Passed
<1>4. ASSUME NEW s \in Setters, NEW x \in Elements, NEW b \in BOOLEAN, SetCall(s, x, b)
      PROVE  ~blocked_'[e]
      BY <1>4, <1>3 DEF SetCall
<1>5. ASSUME NEW s \in Setters, SetLock(s)
      PROVE  ~blocked_'[e]
      BY <1>5, <1>3 DEF SetLock
<1>6. CASE UNCHANGED vars
      BY <1>6, <1>3 DEF vars
<1> HIDE DEF LockInv, TypeOK, PassedStayOpen, Elements
<1>7. QED
      BY <1>1, <1>2, <1>4, <1>5, <1>6 DEF Next, SetBlock

LEMMA InitNoMissedWakeup == Init => NoMissedWakeup
BY DEF Init, NoMissedWakeup, Threads

LEMMA NextNoMissedWakeup ==
    LockInv /\ NoMissedWakeup /\ [Next]_vars => NoMissedWakeup'
<1> SUFFICES ASSUME LockInv, NoMissedWakeup, [Next]_vars,
                    NEW c \in Callers, pc'[c] = "sleep", at'[c] > 1
             PROVE  blocked_'[at'[c]]
    BY DEF NoMissedWakeup
<1> USE LengthAssumption, ThreadsAssumption
    DEF LockInv, TypeOK, Threads, Elements, CallerPC, SetterPC
<1>1. ASSUME NEW d \in Callers, Block(d) \/ BlockCall(d) \/ SpuriousWake(d)
      PROVE  blocked_'[at'[c]]
      BY <1>1 DEF NoMissedWakeup, Block, BlockCall, BlockLock, BlockSleep,
                  BlockNext, BlockLast, Unwind, SpuriousWake
<1>2. ASSUME NEW s \in Setters, SetStore(s)
      PROVE  blocked_'[at'[c]]
  <2>1. pc[c] = "sleep" /\ at'[c] = at[c] /\ at[c] \in Elements /\ at[c] > 1
        BY <1>2 DEF SetStore, Sleeping
  <2>2. blocked_[at[c]]
        BY <2>1 DEF NoMissedWakeup
  <2>3. CASE arg[s].elem # at[c] \/ arg[s].block
        BY <1>2, <2>1, <2>2, <2>3 DEF SetStore
  <2>4. CASE arg[s].elem = at[c] /\ ~arg[s].block
    <3>1. c \in Sleeping(arg[s].elem)
          BY <2>1, <2>4 DEF Sleeping
    <3>2. PICK d \in Sleeping(arg[s].elem) :
             pc' = [pc EXCEPT ![s] = "idle", ![d] = "lock"]
          BY <1>2, <2>4, <3>1 DEF SetStore
    <3>3. 1 \in Held(c) /\ 1 \in Held(d)
          BY <2>1, <2>4, <3>2 DEF Sleeping, Held, Passed
    <3>4. d = c
          BY <3>2, <3>3 DEF MutexHeld, Sleeping
    <3>5. pc'[c] = "lock"
          BY <3>2, <3>4
    <3>6. QED
          BY <3>5
  <2>5. QED
        BY <2>3, <2>4
<1>3. ASSUME UNCHANGED <<blocked_, at>>, UNCHANGED pc[c]
      PROVE  blocked_'[at'[c]]
      BY <1>3 DEF NoMissedWakeup
<1>4. ASSUME NEW s \in Setters, NEW x \in Elements, NEW b \in BOOLEAN, SetCall(s, x, b)
      PROVE  blocked_'[at'[c]]
      BY <1>4, <1>3 DEF SetCall
<1>5. ASSUME NEW s \in Setters, SetLock(s)
      PROVE  blocked_'[at'[c]]
      BY <1>5, <1>3 DEF SetLock
<1>6. CASE UNCHANGED vars
      BY <1>6, <1>3 DEF vars
<1> HIDE DEF LockInv, TypeOK, Elements
<1>7. QED
      BY <1>1, <1>2, <1>4, <1>5, <1>6 DEF Next, SetBlock

(***************************************************************************)
(* Types, for every chain.                                                 *)
(***************************************************************************)
THEOREM TypeCorrect == Spec => []TypeOK
<1>1. Spec => []LockInv
      BY InitLockInv, NextLockInv, PTL DEF Spec
<1>2. LockInv => TypeOK
      BY DEF LockInv
<1>3. QED
      BY <1>1, <1>2, PTL

(***************************************************************************)
(* set_block() never closes an element behind a caller that has passed it  *)
(* and not yet unwound, for a chain of any length and any threads.         *)
(***************************************************************************)
THEOREM NeverClosedBehind == Spec => []PassedStayOpen
<1>1. Init => LockInv /\ PassedStayOpen
      BY InitLockInv, InitPassedStayOpen
<1>2. LockInv /\ PassedStayOpen /\ [Next]_vars => (LockInv /\ PassedStayOpen)'
      BY NextLockInv, NextPassedStayOpen
<1>3. QED
      BY <1>1, <1>2, PTL DEF Spec

(***************************************************************************)
(* block() returns only when all the elements of the chain are open at the *)
(* same time: what the comment in define.cc:23-24 says.                    *)
(***************************************************************************)
THEOREM GateIsOpen == Spec => []ReturnsOnlyWhenOpen
<1>1. PassedStayOpen => ReturnsOnlyWhenOpen
  <2> SUFFICES ASSUME PassedStayOpen, NEW c \in Callers,
                      pc[c] = "unwind", at[c] = N, NEW e \in Elements
               PROVE  ~blocked_[e]
      BY DEF ReturnsOnlyWhenOpen
  <2>1. e \in Passed(c)
        BY LengthAssumption DEF Passed, Elements
  <2>2. QED
        BY <2>1 DEF PassedStayOpen
<1>2. QED
      BY <1>1, NeverClosedBehind, PTL

(***************************************************************************)
(* Below the first element a caller sleeps only while its element is       *)
(* blocked, whatever the number of callers, though set_block notifies one. *)
(***************************************************************************)
THEOREM WakeupsBelowHead == Spec => []NoMissedWakeup
<1>1. Init => LockInv /\ NoMissedWakeup
      BY InitLockInv, InitNoMissedWakeup
<1>2. LockInv /\ NoMissedWakeup /\ [Next]_vars => (LockInv /\ NoMissedWakeup)'
      BY NextLockInv, NextNoMissedWakeup
<1>3. QED
      BY <1>1, <1>2, PTL DEF Spec

------------------------------------------------------------------------------
(* The web writer *)

\* What is proved of the queue, for a queue with this one consumer.
QP == INSTANCE QueueProofs
    WITH Consumers <- {Writer}, mutex_ <- queueMutex, pc <- queuePc

LEMMA QueueAssumptions == QP!ThreadsAssumption /\ QP!MaxPushAssumption
<1>1. IsFiniteSet({Writer}) /\ IsFiniteSet(Producers)
      BY FS_Singleton, ProducersAssumption
<1>2. Producers \cap {Writer} = {}
      BY ProducersAssumption
<1>3. NoThread \notin Producers \cup {Writer}
      BY WebAssumption, ThreadsAssumption, ProducersAssumption
<1>4. QP!ThreadsAssumption
      BY <1>1, <1>2, <1>3, Zenon DEF QP!ThreadsAssumption, QP!IsFiniteSet, IsFiniteSet
<1>5. QP!MaxPushAssumption
      BY ProducersAssumption DEF QP!MaxPushAssumption
<1>6. QED
      BY <1>4, <1>5

\* Where the writer is in its loop and where in the calls it makes; set_block
\* is called for an element of the chain.
StageInv ==
    /\ rule_ \in BOOLEAN /\ own \in 0..N
    /\ stage \in {"gate", "block", "pop", "tid", "settid", "send", "crashed"}
    /\ stage # "block" <=> pc[Writer] = "idle"
    /\ stage # "pop" => queuePc[Writer] = "idle"

\* A step of the web writer or around it is a step of the chain or none, and
\* a step of the queue or none.
LEMMA ChainStep == StageInv /\ [WebNext]_webVars => [Next]_vars
<1> SUFFICES ASSUME StageInv, [WebNext]_webVars
             PROVE  [Next]_vars
    OBVIOUS
<1>1. CASE UNCHANGED webVars
      BY <1>1 DEF webVars
<1>2. CASE CallTidBlock
  <2>1. own \in Elements /\ WriterSets \in Setters
        BY <1>2, WebAssumption, LengthAssumption DEF CallTidBlock, StageInv, Elements
  <2>2. QED
        BY <1>2, <2>1 DEF CallTidBlock, Next
<1>3. CASE Write /\ ~CallTidBlock
      BY <1>3, WebAssumption
      DEF Write, CallRule, SkipRule, InRule, InPop, SkipTidBlock, InTidBlock, Send, Next
<1>4. ASSUME NEW s \in Others, SetGate(s)
      PROVE  Next
      BY <1>4 DEF SetGate, Others, Gates, Next
<1>5. ASSUME NEW p \in Producers, PushMessage(p)
      PROVE  UNCHANGED vars
      BY <1>5 DEF PushMessage
<1>6. CASE Wake
      BY <1>6, WebAssumption DEF Wake, Next
<1>7. QED
      BY <1>1, <1>2, <1>3, <1>4, <1>5, <1>6 DEF WebNext

LEMMA SameQueue ==
    /\ Q!Init <=> QP!Init
    /\ \A p : Q!Push(p) <=> QP!Push(p)
    /\ \A c : Q!Pop(c) <=> QP!Pop(c)
    /\ \A c : Q!SpuriousWake(c) <=> QP!SpuriousWake(c)
<1>1. Q!Init <=> QP!Init
      BY Zenon DEF Q!Init, QP!Init, Q!Threads, QP!Threads
<1>2. ASSUME NEW p PROVE Q!Push(p) <=> QP!Push(p)
      BY Zenon DEF Q!Push, QP!Push, Q!PushLock, QP!PushLock, Q!PushAppend,
               QP!PushAppend, Q!PushNotify, QP!PushNotify, Q!Sleeping, QP!Sleeping
<1>3. ASSUME NEW c PROVE Q!Pop(c) <=> QP!Pop(c)
      BY Zenon DEF Q!Pop, QP!Pop, Q!PopLock, QP!PopLock, Q!PopSleep, QP!PopSleep,
               Q!PopFront, QP!PopFront, Q!PopTake, QP!PopTake, Q!PopReturn, QP!PopReturn
<1>4. ASSUME NEW c PROVE Q!SpuriousWake(c) <=> QP!SpuriousWake(c)
      BY Zenon DEF Q!SpuriousWake, QP!SpuriousWake
<1>5. QED
      BY <1>1, <1>2, <1>3, <1>4

LEMMA QueueStep == [WebNext]_webVars => [QP!Next]_QP!vars
<1> SUFFICES ASSUME [WebNext]_webVars
             PROVE  [QP!Next]_QP!vars
    OBVIOUS
<1>1. CASE UNCHANGED webVars
      BY <1>1 DEF webVars, QP!vars, queueVars
<1>2. CASE InPop
      BY <1>2, SameQueue DEF InPop, QP!Next
<1>3. CASE Write /\ ~InPop
      BY <1>3
      DEF QP!vars, queueVars, Write, CallRule, SkipRule, InRule, SkipTidBlock, CallTidBlock, InTidBlock, Send
<1>4. ASSUME NEW s \in Others, SetGate(s)
      PROVE  UNCHANGED QP!vars
      BY <1>4 DEF SetGate, QP!vars, queueVars
<1>5. ASSUME NEW p \in Producers, PushMessage(p)
      PROVE  QP!Next
      BY <1>5, SameQueue DEF PushMessage, QP!Next
<1>6. CASE Wake
      BY <1>6, SameQueue DEF Wake, QP!Next, QP!vars, queueVars
<1>7. QED
      BY <1>1, <1>2, <1>3, <1>4, <1>5, <1>6 DEF WebNext
\* The program counters are functions on the threads.
LEMMA QueuePcType ==
    ASSUME QP!LockInv
    PROVE  queuePc = [t \in Producers \cup {Writer} |-> queuePc[t]]
BY DEF QP!LockInv, QP!TypeOK, QP!Threads

\* The steps of the other threads that set gates.
LEMMA SetGateStage ==
    ASSUME LockInv, NEW s \in Setters, SetBlock(s)
    PROVE  /\ pc'[Writer] = "idle" <=> pc[Writer] = "idle"
           /\ pc'[Writer] = "unwind" <=> pc[Writer] = "unwind"
BY WebAssumption, ThreadsAssumption
   DEF SetBlock, SetLock, SetStore, Sleeping, LockInv, TypeOK, Threads

LEMMA SetCallStage ==
    ASSUME LockInv, NEW s \in Setters, NEW e, NEW b, SetCall(s, e, b)
    PROVE  pc'[Writer] = pc[Writer]
BY WebAssumption, ThreadsAssumption DEF SetCall, LockInv, TypeOK, Threads

LEMMA InitStageInv == WebInit => StageInv
BY WebAssumption, LengthAssumption
   DEF WebInit, StageInv, Init, Threads, Q!Init, Q!Threads

LEMMA NextStageInv ==
    LockInv /\ QP!LockInv /\ StageInv /\ [WebNext]_webVars => StageInv'
<1> SUFFICES ASSUME LockInv, QP!LockInv, StageInv, [WebNext]_webVars
             PROVE  StageInv'
    OBVIOUS
<1> USE WebAssumption DEF StageInv
<1>1. CASE UNCHANGED webVars
      BY <1>1 DEF webVars, vars, queueVars
<1>2. ASSUME WebNext, NEW p \in Producers, PushMessage(p)
      PROVE  StageInv'
  <2>1. queuePc'[Writer] = queuePc[Writer] \/ queuePc[Writer] = "sleep"
        BY <1>2, QueuePcType, ProducersAssumption
        DEF PushMessage, Q!Push, Q!PushLock, Q!PushAppend, Q!PushNotify, Q!Sleeping
  <2>2. QED
        BY <1>2, <2>1 DEF WebNext, PushMessage, vars
<1>3. ASSUME WebNext, NEW s \in Others, SetGate(s)
      PROVE  StageInv'
      BY <1>3, SetGateStage, SetCallStage DEF WebNext, SetGate, Others, queueVars
<1>4. ASSUME WebNext, Wake
      PROVE  StageInv'
      BY <1>4 DEF WebNext, Wake, SpuriousWake, Q!SpuriousWake, vars, queueVars,
                  LockInv, TypeOK, Threads
<1>5. ASSUME WebNext, Write
      PROVE  StageInv'
  <2>1. UNCHANGED <<rule_, own>>
        BY <1>5 DEF WebNext
  <2>2. CASE CallRule
        BY <2>1, <2>2 DEF CallRule, BlockCall, queueVars, LockInv, TypeOK, Threads
  <2>3. CASE SkipRule
        BY <2>1, <2>3 DEF SkipRule, vars, queueVars
  <2>4. CASE InRule
        BY <2>1, <2>4 DEF InRule, queueVars
  <2>5. CASE InPop
    <3>1. queuePc[Writer] = "return" => queuePc'[Writer] = "idle"
          BY <2>5, QueuePcType DEF InPop, Q!Pop, Q!PopLock, Q!PopSleep, Q!PopFront, Q!PopTake, Q!PopReturn
    <3>2. QED
          BY <2>1, <2>5, <3>1 DEF InPop, vars
  <2>6. CASE SkipTidBlock
        BY <2>1, <2>6 DEF SkipTidBlock, vars, queueVars
  <2>7. CASE CallTidBlock
        BY <2>1, <2>7, SetCallStage DEF CallTidBlock, queueVars
  <2>8. CASE InTidBlock
        BY <2>1, <2>8, SetGateStage DEF InTidBlock, queueVars
  <2>9. CASE Send
        BY <2>1, <2>9 DEF Send, vars, queueVars
  <2>10. QED
        BY <1>5, <2>2, <2>3, <2>4, <2>5, <2>6, <2>7, <2>8, <2>9 DEF Write
<1>6. QED
      BY <1>1, <1>2, <1>3, <1>4, <1>5 DEF WebNext

\* What the web writer inherits from the chain and the queue.
WebInv == LockInv /\ PassedStayOpen /\ QP!LockInv /\ StageInv

LEMMA InitWebInv == WebInit => WebInv
<1>1. WebInit => LockInv /\ PassedStayOpen /\ StageInv
      BY InitLockInv, InitPassedStayOpen, InitStageInv DEF WebInit
<1>2. WebInit => QP!LockInv
      BY QueueAssumptions, QP!InitLockInv, SameQueue DEF WebInit
<1>3. QED
      BY <1>1, <1>2 DEF WebInv

LEMMA NextWebInv == WebInv /\ [WebNext]_webVars => WebInv'
<1> SUFFICES ASSUME WebInv, [WebNext]_webVars
             PROVE  WebInv'
    OBVIOUS
<1>1. [Next]_vars /\ [QP!Next]_QP!vars
      BY ChainStep, QueueStep DEF WebInv
<1>2. LockInv' /\ PassedStayOpen'
      BY <1>1, NextLockInv, NextPassedStayOpen DEF WebInv
<1>3. QP!LockInv'
      BY <1>1, QueueAssumptions, QP!NextLockInv DEF WebInv
<1>4. StageInv'
      BY NextStageInv DEF WebInv
<1>5. QED
      BY <1>2, <1>3, <1>4 DEF WebInv

(***************************************************************************)
(* The web writer uses the chain and the queue as their clients may, so    *)
(* that what is proved of RespChain and Queue holds of the two in it.      *)
(***************************************************************************)
THEOREM WebIsAClient == WebSpec => Spec /\ QP!Spec
<1>1. WebInit => Init /\ QP!Init
      BY SameQueue DEF WebInit
<1>2. WebInv /\ [WebNext]_webVars => [Next]_vars /\ [QP!Next]_QP!vars
      BY ChainStep, QueueStep DEF WebInv
<1>3. QED
      BY <1>1, <1>2, InitWebInv, NextWebInv, PTL DEF WebSpec, Spec, QP!Spec

(***************************************************************************)
(* The web writer is the one reader of its queue: what collectors push is  *)
(* popped in the order of the pushes, and no message is lost or popped     *)
(* twice, whatever the gates do meanwhile (writer.cc, ModuleWeb::write).    *)
(***************************************************************************)
THEOREM PoppedInOrder == WebSpec => QP!FF!SafeSpec /\ []QP!Conservation
<1>1. QP!OnlyReader
      BY DEF QP!OnlyReader, QP!Reader
<1>2. QP!Spec => QP!FF!SafeSpec
      BY <1>1, QueueAssumptions, QP!SafeFifo
<1>3. QP!Spec => []QP!Conservation
      BY QueueAssumptions, QP!NothingLost
<1>4. QED
      BY <1>2, <1>3, WebIsAClient

THEOREM WebInvHolds == WebSpec => []WebInv
BY InitWebInv, NextWebInv, PTL DEF WebSpec

(***************************************************************************)
(* The writer holds a gate only while it asks the chain, and the queue     *)
(* only while it pops, for any chain and any other threads.                *)
(***************************************************************************)
THEOREM HoldsNoGate == WebSpec => []PopHoldsNoGate
<1>1. WebInv => PopHoldsNoGate
  <2> SUFFICES ASSUME WebInv
               PROVE  PopHoldsNoGate
      OBVIOUS
  <2>1. ASSUME stage # "block"
        PROVE  at[Writer] = 0 /\ \A e \in Elements : mutex_[e] # Writer
    <3>1. pc[Writer] = "idle" /\ at[Writer] = 0
          BY <2>1, WebAssumption DEF WebInv, StageInv, LockInv, TypeOK
    <3>2. Held(Writer) = {}
          BY <3>1 DEF Held, Passed, Elements
    <3>3. QED
          BY <3>1, <3>2, WebAssumption DEF WebInv, LockInv, MutexHeld
  <2>2. ASSUME stage # "pop"
        PROVE  queuePc[Writer] = "idle" /\ queueMutex # Writer
    <3>1. queuePc[Writer] = "idle"
          BY <2>2 DEF WebInv, StageInv
    <3>2. QED
          BY <3>1 DEF WebInv, QP!LockInv, QP!MutexHeld, QP!Threads
  <2>3. QED
        BY <2>1, <2>2 DEF PopHoldsNoGate
<1>2. QED
      BY <1>1, WebInvHolds, PTL

------------------------------------------------------------------------------
(* What the writer's chain does to its messages *)

\* The step with which block() begins to return: all the gates are open then.
LEMMA LastIsOpen ==
    ASSUME PassedStayOpen', LockInv, NEW c \in Callers, BlockLast(c)
    PROVE  \A e \in Elements : ~blocked_'[e]
<1> TAKE e \in Elements
<1>1. at'[c] = N /\ pc'[c] = "unwind"
      BY DEF BlockLast, LockInv, TypeOK, Threads
<1>2. e \in Passed(c)'
      BY <1>1, LengthAssumption DEF Passed, Elements
<1>3. QED
      BY <1>2 DEF PassedStayOpen

\* There is no other way to that point.
LEMMA UnwindsFromLast ==
    ASSUME WebInv, WebNext, pc'[Writer] = "unwind"
    PROVE  pc[Writer] = "unwind" \/ BlockLast(Writer)
<1> USE WebAssumption DEF WebInv
<1>1. CASE Write
  <2>1. CASE CallRule \/ SkipRule \/ InPop \/ SkipTidBlock \/ Send
        BY <2>1 DEF CallRule, SkipRule, InPop, SkipTidBlock, Send, BlockCall, vars,
                    LockInv, TypeOK, Threads
  <2>2. CASE CallTidBlock
        BY <2>2, SetCallStage DEF CallTidBlock
  <2>3. CASE InTidBlock
        BY <2>3, SetGateStage DEF InTidBlock
  <2>4. CASE InRule
        BY <2>4 DEF InRule, Block, BlockLock, BlockSleep, BlockNext, Unwind,
                    LockInv, TypeOK, Threads
  <2>5. QED
        BY <1>1, <2>1, <2>2, <2>3, <2>4 DEF Write
<1>2. ASSUME NEW s \in Others, SetGate(s)
      PROVE  pc[Writer] = "unwind"
      BY <1>2, SetGateStage, SetCallStage DEF SetGate, Others
<1>3. ASSUME NEW p \in Producers, PushMessage(p)
      PROVE  pc[Writer] = "unwind"
      BY <1>3 DEF PushMessage, vars
<1>4. CASE Wake
      BY <1>4 DEF Wake, SpuriousWake, vars, LockInv, TypeOK, Threads
<1>5. QED
      BY <1>1, <1>2, <1>3, <1>4 DEF WebNext

\* The writer comes out of the chain by unwinding only.
LEMMA LeavesByUnwind ==
    ASSUME WebInv, WebNext, stage = "block", stage' # "block"
    PROVE  pc[Writer] = "unwind"
<1>1. InRule
      BY DEF WebNext, Write, CallRule, SkipRule, InPop, SkipTidBlock, CallTidBlock,
             InTidBlock, Send, SetGate, PushMessage, Wake
<1>2. pc'[Writer] = "idle"
      BY <1>1 DEF InRule
<1>3. Writer \in DOMAIN pc
      BY WebAssumption DEF WebInv, LockInv, TypeOK, Threads
<1>4. QED
      BY <1>1, <1>2, <1>3
      DEF InRule, Block, BlockLock, BlockSleep, BlockNext, BlockLast, Unwind

\* A writer with a rule gets past "gate" by asking it.
LEMMA AsksRule ==
    ASSUME WebNext, rule_, stage \in {"gate", "block"}
    PROVE  stage' \in {"gate", "block"} \/ stage = "block"
BY DEF WebNext, Write, CallRule, SkipRule, InRule, InPop, SkipTidBlock, CallTidBlock,
       InTidBlock, Send, SetGate, PushMessage, Wake

\* wasOpen is set before the writer is out of the chain, and stays.
OpenInv ==
    /\ pc[Writer] = "unwind" => wasOpen
    /\ PopsOnlyAfterOpen

LEMMA NextOpenInv ==
    ASSUME WebInv, WebInv', OpenInv, [WebNext]_webVars
    PROVE  OpenInv'
<1>1. CASE UNCHANGED webVars
      BY <1>1 DEF webVars, vars, OpenInv, PopsOnlyAfterOpen
<1>2. CASE WebNext
  <2>1. wasOpen => wasOpen'
        BY <1>2 DEF WebNext
  <2>2. BlockLast(Writer) => wasOpen'
    <3> SUFFICES ASSUME BlockLast(Writer)
                 PROVE  wasOpen'
        OBVIOUS
    <3>1. \A e \in Elements : ~blocked_'[e]
          BY LastIsOpen, WebAssumption DEF WebInv
    <3>2. AllOpen'
          BY <3>1 DEF AllOpen, Gates, Elements
    <3>3. QED
          BY <1>2, <3>2 DEF WebNext
  <2>3. pc'[Writer] = "unwind" => wasOpen'
        BY <1>2, <2>1, <2>2, UnwindsFromLast DEF OpenInv
  <2>4. ASSUME rule_', stage' \notin {"gate", "block"}
        PROVE  wasOpen'
    <3>1. rule_
          BY <1>2, <2>4 DEF WebNext
    <3>2. CASE stage \in {"gate", "block"}
          BY <1>2, <2>1, <2>4, <3>1, <3>2, AsksRule, LeavesByUnwind DEF OpenInv
    <3>3. CASE stage \notin {"gate", "block"}
          BY <2>1, <3>1, <3>3 DEF OpenInv, PopsOnlyAfterOpen
    <3>4. QED
          BY <3>2, <3>3
  <2>5. QED
        BY <2>3, <2>4 DEF OpenInv, PopsOnlyAfterOpen
<1>3. QED
      BY <1>1, <1>2

(***************************************************************************)
(* The writer with a rule pops only after all the gates of the others have *)
(* been open at one moment, however the setters interleave with its walk   *)
(* along the chain, for a chain of any length.                             *)
(***************************************************************************)
THEOREM PopsAfterOpen == WebSpec => []PopsOnlyAfterOpen
<1>1. WebInit => OpenInv
      BY WebAssumption DEF WebInit, Init, OpenInv, PopsOnlyAfterOpen, Threads
<1>2. WebInv /\ WebInv' /\ OpenInv /\ [WebNext]_webVars => OpenInv'
      BY NextOpenInv
<1>3. OpenInv => PopsOnlyAfterOpen
      BY DEF OpenInv
<1>4. QED
      BY <1>1, <1>2, <1>3, WebInvHolds, PTL DEF WebSpec

\* A writer that is an element of its own rule is blocked by itself: nobody
\* is about to set its element, and it does not get to where it would.
OwnInv ==
    rule_ /\ own # 0 =>
        /\ stage \in {"gate", "block"}
        /\ pc[Writer] # "unwind"
        /\ returned = <<>>
        /\ blocked_[own]
        /\ \A s \in Setters : pc[s] # "idle" => arg[s].elem # own

LEMMA InitOwnInv == WebInit => OwnInv
<1> SUFFICES ASSUME WebInit, own # 0
             PROVE  OwnInv
    BY DEF OwnInv
<1>1. own \in Elements
      BY WebAssumption, LengthAssumption DEF WebInit, Elements
<1>2. QED
      BY <1>1, WebAssumption DEF WebInit, Init, Q!Init, OwnInv, Threads

\* The flag of the writer's own element, and those about to set one.
LEMMA OwnStaysBlocked ==
    ASSUME WebInv, OwnInv, WebNext, rule_, own # 0
    PROVE  /\ blocked_'[own]
           /\ \A s \in Setters : pc'[s] # "idle" => arg'[s].elem # own
<1> USE WebAssumption, ThreadsAssumption DEF WebInv
<1>1. stage \in {"gate", "block"} /\ blocked_[own]
      /\ \A s \in Setters : pc[s] # "idle" => arg[s].elem # own
      BY DEF OwnInv
<1>2. ASSUME UNCHANGED <<blocked_, arg>>, \A s \in Setters : pc'[s] = pc[s]
      PROVE  /\ blocked_'[own]
             /\ \A s \in Setters : pc'[s] # "idle" => arg'[s].elem # own
      BY <1>1, <1>2
<1>3. CASE Write
  <2>1. CallRule \/ InRule
        BY <1>1, <1>3
        DEF Write, SkipRule, InPop, SkipTidBlock, CallTidBlock, InTidBlock, Send
  <2>2. QED
        BY <1>2, <2>1
        DEF CallRule, InRule, BlockCall, Block, BlockLock, BlockSleep, BlockNext,
            BlockLast, Unwind, LockInv, TypeOK, Threads
<1>4. ASSUME NEW s \in Others, SetGate(s)
      PROVE  /\ blocked_'[own]
             /\ \A t \in Setters : pc'[t] # "idle" => arg'[t].elem # own
  <2>1. s \in Setters
        BY DEF Others
  <2>2. CASE SetLock(s)
        BY <1>1, <2>1, <2>2 DEF SetLock, LockInv, TypeOK, Threads
  <2>3. CASE SetStore(s)
        BY <1>1, <2>1, <2>3 DEF SetStore, Sleeping, LockInv, TypeOK, Threads
  <2>4. ASSUME NEW e \in Gates, NEW b \in BOOLEAN, SetCall(s, e, b)
        PROVE  /\ blocked_'[own]
               /\ \A t \in Setters : pc'[t] # "idle" => arg'[t].elem # own
        BY <1>1, <2>1, <2>4 DEF SetCall, Gates, LockInv, TypeOK, Threads
  <2>5. QED
        BY <1>4, <2>2, <2>3, <2>4 DEF SetGate, SetBlock
<1>5. ASSUME NEW p \in Producers, PushMessage(p)
      PROVE  UNCHANGED vars
      BY <1>5 DEF PushMessage
<1>6. CASE Wake
      BY <1>2, <1>6 DEF Wake, SpuriousWake, vars, LockInv, TypeOK, Threads
<1>7. QED
      BY <1>2, <1>3, <1>4, <1>5, <1>6 DEF WebNext, vars

LEMMA NextOwnInv ==
    ASSUME WebInv, WebInv', OwnInv, [WebNext]_webVars
    PROVE  OwnInv'
<1>1. CASE UNCHANGED webVars
      BY <1>1 DEF webVars, vars, queueVars, OwnInv
<1>2. CASE WebNext
  <2> SUFFICES ASSUME rule_', own' # 0
               PROVE  /\ stage' \in {"gate", "block"}
                      /\ pc'[Writer] # "unwind"
                      /\ returned' = <<>>
                      /\ blocked_'[own']
                      /\ \A s \in Setters : pc'[s] # "idle" => arg'[s].elem # own'
      BY DEF OwnInv
  <2>1. rule_ /\ own # 0 /\ own' = own
        BY <1>2 DEF WebNext
  <2>2. /\ stage \in {"gate", "block"} /\ pc[Writer] # "unwind" /\ returned = <<>>
        BY <2>1 DEF OwnInv
  <2>3. /\ blocked_'[own]
        /\ \A s \in Setters : pc'[s] # "idle" => arg'[s].elem # own
        BY <1>2, <2>1, OwnStaysBlocked
  <2>4. pc'[Writer] # "unwind"
    <3>1. own \in Elements
          BY <2>1, LengthAssumption DEF WebInv, StageInv, Elements
    <3>2. ~BlockLast(Writer)
          BY <2>3, <3>1, LastIsOpen, WebAssumption DEF WebInv
    <3>3. QED
          BY <1>2, <2>2, <3>2, UnwindsFromLast
  <2>5. stage' \in {"gate", "block"}
        BY <1>2, <2>1, <2>2, AsksRule, LeavesByUnwind
  <2>6. returned' = <<>>
        BY <1>2, <2>2
        DEF WebNext, Write, CallRule, SkipRule, InRule, InPop, SkipTidBlock,
            CallTidBlock, InTidBlock, Send, SetGate, PushMessage, Wake, queueVars,
            Q!Push, Q!PushLock, Q!PushAppend, Q!PushNotify, Q!SpuriousWake
  <2>7. QED
        BY <2>1, <2>3, <2>4, <2>5, <2>6
<1>3. QED
      BY <1>1, <1>2

(***************************************************************************)
(* A writer whose own element is part of its chain, as in the chain that   *)
(* Application::start() wires, never takes a message, whatever the others  *)
(* set and wherever in the chain the element is.                           *)
(***************************************************************************)
THEOREM OwnElementHolds == WebSpec => []NeverPops
<1>1. WebInv /\ WebInv' /\ OwnInv /\ [WebNext]_webVars => OwnInv'
      BY NextOwnInv
<1>2. OwnInv => NeverPops
      BY DEF OwnInv, NeverPops
<1>3. QED
      BY <1>1, <1>2, InitOwnInv, WebInvHolds, PTL DEF WebSpec
==============================================================================
