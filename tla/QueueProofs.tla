----------------------------- MODULE QueueProofs -----------------------------
(***************************************************************************)
(* Proofs about Queue for any finite sets of producers and consumers and   *)
(* any number of pushes.                                                   *)
(***************************************************************************)
EXTENDS Queue, FiniteSetTheorems, SequenceTheorems, TLAPS

\* The conjunction that is inductive.
LockInv == TypeOK /\ MutexHeld /\ FrontHeld /\ PushBounded

LEMMA InitLockInv == Init => LockInv
BY ThreadsAssumption, MaxPushAssumption
   DEF Init, LockInv, TypeOK, MutexHeld, FrontHeld, PushBounded,
       Threads,       ProducerPC, ConsumerPC

LEMMA NextLockInv == LockInv /\ [Next]_vars => LockInv'
<1> SUFFICES ASSUME LockInv, [Next]_vars
             PROVE  LockInv'
    OBVIOUS
<1> USE ThreadsAssumption, MaxPushAssumption
    DEF LockInv, TypeOK, MutexHeld, FrontHeld, PushBounded, Threads, ProducerPC, ConsumerPC
<1>1. ASSUME NEW p \in Producers, PushLock(p)
      PROVE  LockInv'
      BY <1>1 DEF PushLock
<1>2. ASSUME NEW p \in Producers, PushAppend(p)
      PROVE  LockInv'
  <2>1. <<p, pushed[p] + 1>> \in Msg
        BY <1>2 DEF PushAppend, Msg
  <2>2. QED
        BY <1>2, <2>1 DEF PushAppend
<1>3. ASSUME NEW p \in Producers, PushNotify(p)
      PROVE  LockInv'
      BY <1>3 DEF PushNotify, Sleeping
<1>4. ASSUME NEW c \in Consumers, PopLock(c)
      PROVE  LockInv'
      BY <1>4 DEF PopLock
<1>5. ASSUME NEW c \in Consumers, PopSleep(c)
      PROVE  LockInv'
      BY <1>5 DEF PopSleep
<1>6. ASSUME NEW c \in Consumers, PopFront(c)
      PROVE  LockInv'
      BY <1>6 DEF PopFront
<1>7. ASSUME NEW c \in Consumers, PopTake(c)
      PROVE  LockInv'
      BY <1>7 DEF PopTake
<1>8. ASSUME NEW c \in Consumers, PopReturn(c)
      PROVE  LockInv'
      BY <1>8 DEF PopReturn
<1>9. ASSUME NEW c \in Consumers, SpuriousWake(c)
      PROVE  LockInv'
      BY <1>9 DEF SpuriousWake
<1>10. CASE UNCHANGED vars
       BY <1>10 DEF vars
<1>11. QED
       BY <1>1, <1>2, <1>3, <1>4, <1>5, <1>6, <1>7, <1>8, <1>9, <1>10
       DEF Next, Push, Pop

------------------------------------------------------------------------------
(* No lost wake-up *)

LEMMA Finite ==
    ASSUME TypeOK
    PROVE  /\ IsFiniteSet(Notifying) /\ Cardinality(Notifying) \in Nat
           /\ IsFiniteSet(Looking)   /\ Cardinality(Looking) \in Nat
           /\ Len(queue_) \in Nat
BY ThreadsAssumption, FS_Subset, FS_CardinalityType
   DEF TypeOK, Notifying, Looking

LEMMA FinitePrime ==
    ASSUME TypeOK'
    PROVE  /\ Cardinality(Notifying') \in Nat
           /\ Cardinality(Looking') \in Nat
           /\ Len(queue_') \in Nat
BY ThreadsAssumption, FS_Subset, FS_CardinalityType
   DEF TypeOK, Notifying, Looking

\* One member more or less changes a cardinality by one.
LEMMA OneMore ==
    ASSUME NEW S, IsFiniteSet(S), NEW x, x \notin S
    PROVE  Cardinality(S \cup {x}) = Cardinality(S) + 1
BY FS_AddElement

LEMMA OneLess ==
    ASSUME NEW S, IsFiniteSet(S), NEW x, x \in S
    PROVE  Cardinality(S \ {x}) = Cardinality(S) - 1
BY FS_RemoveElement

LEMMA NotFewer ==
    ASSUME NEW S, IsFiniteSet(S), NEW x
    PROVE  Cardinality(S) <= Cardinality(S \cup {x})
<1>1. Cardinality(S) \in Nat
      BY FS_CardinalityType
<1>2. CASE x \in S
      BY <1>1, <1>2, FS_AddElement
<1>3. CASE x \notin S
      BY <1>1, <1>3, OneMore
<1>4. QED
      BY <1>2, <1>3

LEMMA InitWakeupCredit == Init => WakeupCredit
BY DEF Init, WakeupCredit, Sleeping, Threads

LEMMA NextWakeupCredit ==
    LockInv /\ LockInv' /\ WakeupCredit /\ [Next]_vars => WakeupCredit'
<1> SUFFICES ASSUME LockInv, LockInv', WakeupCredit, [Next]_vars,
                    Sleeping' # {}
             PROVE  Len(queue_') <= Cardinality(Notifying') + Cardinality(Looking')
    BY DEF WakeupCredit
<1>a. TypeOK /\ TypeOK'
      BY DEF LockInv
<1>b. /\ IsFiniteSet(Notifying) /\ Cardinality(Notifying) \in Nat
      /\ IsFiniteSet(Looking)   /\ Cardinality(Looking) \in Nat
      /\ Len(queue_) \in Nat
      /\ Cardinality(Notifying') \in Nat
      /\ Cardinality(Looking') \in Nat
      /\ Len(queue_') \in Nat
      BY <1>a, Finite, FinitePrime
<1>1. ASSUME NEW p \in Producers, PushLock(p)
      PROVE  WakeupCredit'
  <2>1. Sleeping' = Sleeping /\ Notifying' = Notifying /\ Looking' = Looking
        BY <1>1, <1>a, ThreadsAssumption
        DEF PushLock, Sleeping, Notifying, Looking, TypeOK, Threads
  <2>2. QED
        BY <1>1, <2>1 DEF PushLock, WakeupCredit
<1>2. ASSUME NEW p \in Producers, PushAppend(p)
      PROVE  WakeupCredit'
  <2>1. Sleeping' = Sleeping /\ Looking' = Looking
        BY <1>2, <1>a, ThreadsAssumption
        DEF PushAppend, Sleeping, Looking, TypeOK, Threads
  <2>2. p \notin Notifying /\ Notifying' = Notifying \cup {p}
        BY <1>2, <1>a, ThreadsAssumption
        DEF PushAppend, Notifying, TypeOK, Threads
  <2>3. Len(queue_') = Len(queue_) + 1
        BY <1>2, <1>a DEF PushAppend, TypeOK
  <2>4. Cardinality(Notifying') = Cardinality(Notifying) + 1
        BY <2>2, <1>b, OneMore
  <2>5. QED
        BY <2>1, <2>3, <2>4, <1>b DEF WakeupCredit
<1>3. ASSUME NEW p \in Producers, PushNotify(p)
      PROVE  WakeupCredit'
  <2>1. p \in Notifying /\ Notifying' = Notifying \ {p}
        BY <1>3, <1>a, ThreadsAssumption
        DEF PushNotify, Notifying, Sleeping, TypeOK, Threads
  <2>2. Cardinality(Notifying') = Cardinality(Notifying) - 1
        BY <2>1, <1>b, OneLess
  <2>3. CASE Sleeping = {}
    <3>1. Sleeping' = {}
          BY <1>3, <1>a, <2>3, ThreadsAssumption
          DEF PushNotify, Sleeping, TypeOK, Threads
    <3>2. QED
          BY <3>1
  <2>4. CASE Sleeping # {}
    <3>1. PICK c \in Sleeping : pc' = [pc EXCEPT ![p] = "idle", ![c] = "woken"]
          BY <1>3, <2>4 DEF PushNotify
    <3>2. c \notin Looking /\ Looking' = Looking \cup {c}
      <4>1. c \in Consumers /\ pc[c] = "sleep" /\ p \notin Consumers
            BY ThreadsAssumption DEF Sleeping
      <4>2. \A d \in Consumers : pc'[d] = IF d = c THEN "woken" ELSE pc[d]
            BY <3>1, <4>1, <1>a DEF TypeOK, Threads
      <4>3. QED
            BY <4>1, <4>2 DEF Looking
    <3>3. Cardinality(Looking') = Cardinality(Looking) + 1
          BY <3>2, <1>b, OneMore
    <3>4. Len(queue_') = Len(queue_)
          BY <1>3 DEF PushNotify
    <3>5. QED
          BY <2>2, <2>4, <3>3, <3>4, <1>b DEF WakeupCredit
  <2>5. QED
        BY <2>3, <2>4
<1>4. ASSUME NEW c \in Consumers, PopLock(c)
      PROVE  WakeupCredit'
  <2>1. Sleeping' = Sleeping /\ Notifying' = Notifying /\ queue_' = queue_
        BY <1>4, <1>a, ThreadsAssumption
        DEF PopLock, Sleeping, Notifying, TypeOK, Threads
  <2>2. Looking' = Looking \cup {c}
        BY <1>4, <1>a DEF PopLock, Looking, TypeOK, Threads
  <2>3. Cardinality(Looking) <= Cardinality(Looking')
        BY <2>2, <1>b, NotFewer
  <2>4. QED
        BY <2>1, <2>3, <1>b DEF WakeupCredit
<1>5. ASSUME NEW c \in Consumers, PopSleep(c)
      PROVE  WakeupCredit'
  <2>1. Len(queue_') = 0
        BY <1>5 DEF PopSleep
  <2>2. QED
        BY <2>1, <1>b DEF WakeupCredit
<1>6. ASSUME NEW c \in Consumers, PopFront(c)
      PROVE  WakeupCredit'
  <2>1. /\ Sleeping' = Sleeping /\ Notifying' = Notifying
        /\ Looking' = Looking /\ queue_' = queue_
        BY <1>6, <1>a, ThreadsAssumption
        DEF PopFront, Sleeping, Notifying, Looking, TypeOK, Threads
  <2>2. QED
        BY <2>1 DEF WakeupCredit
<1>7. ASSUME NEW c \in Consumers, PopTake(c)
      PROVE  WakeupCredit'
  <2>1. Sleeping' = Sleeping /\ Notifying' = Notifying
        BY <1>7, <1>a, ThreadsAssumption
        DEF PopTake, Sleeping, Notifying, TypeOK, Threads
  <2>2. c \in Looking /\ Looking' = Looking \ {c}
        BY <1>7, <1>a DEF PopTake, Looking, TypeOK, Threads
  <2>3. Cardinality(Looking') = Cardinality(Looking) - 1
        BY <2>2, <1>b, OneLess
  <2>4. Len(queue_') = Len(queue_) - 1
        BY <1>7, <1>a DEF PopTake, LockInv, FrontHeld, TypeOK
  <2>5. QED
        BY <2>1, <2>3, <2>4, <1>b DEF WakeupCredit
<1>8. ASSUME NEW c \in Consumers, PopReturn(c)
      PROVE  WakeupCredit'
  <2>1. /\ Sleeping' = Sleeping /\ Notifying' = Notifying
        /\ Looking' = Looking /\ queue_' = queue_
        BY <1>8, <1>a, ThreadsAssumption
        DEF PopReturn, Sleeping, Notifying, Looking, TypeOK, Threads
  <2>2. QED
        BY <2>1 DEF WakeupCredit
<1>9. ASSUME NEW c \in Consumers, SpuriousWake(c)
      PROVE  WakeupCredit'
  <2>1. Sleeping # {} /\ Notifying' = Notifying /\ queue_' = queue_
        BY <1>9, <1>a, ThreadsAssumption
        DEF SpuriousWake, Sleeping, Notifying, TypeOK, Threads
  <2>2. Looking' = Looking \cup {c}
        BY <1>9, <1>a DEF SpuriousWake, Looking, TypeOK, Threads
  <2>3. Cardinality(Looking) <= Cardinality(Looking')
        BY <2>2, <1>b, NotFewer
  <2>4. QED
        BY <2>1, <2>3, <1>b DEF WakeupCredit
<1>10. CASE UNCHANGED vars
       BY <1>10 DEF vars, WakeupCredit, Sleeping, Notifying, Looking
<1>11. QED
       BY <1>1, <1>2, <1>3, <1>4, <1>5, <1>6, <1>7, <1>8, <1>9, <1>10
       DEF Next, Push, Pop, WakeupCredit

(***************************************************************************)
(* The invariants that make pop safe, for any number of threads: types,    *)
(* the mutex, and the front element being the one pop has copied.          *)
(***************************************************************************)
THEOREM TypeCorrect == Spec => []TypeOK
<1>1. Spec => []LockInv
      BY InitLockInv, NextLockInv, PTL DEF Spec
<1>2. LockInv => TypeOK
      BY DEF LockInv
<1>3. QED
      BY <1>1, <1>2, PTL

(***************************************************************************)
(* Notifying one thread, after the mutex is released, loses no wake-up of  *)
(* pop: for any number of producers and consumers, while a consumer sleeps *)
(* every queued message has a notification or an awake consumer coming.    *)
(***************************************************************************)
THEOREM NoLostWakeup == Spec => []WakeupCredit
<1>1. Init => LockInv /\ WakeupCredit
      BY InitLockInv, InitWakeupCredit
<1>2. LockInv /\ WakeupCredit /\ [Next]_vars => (LockInv /\ WakeupCredit)'
      BY NextLockInv, NextWakeupCredit
<1>3. QED
      BY <1>1, <1>2, PTL DEF Spec

------------------------------------------------------------------------------
(* No message lost or doubled; the abstract mailbox *)

LEMMA AppendMessages ==
    ASSUME NEW S, NEW s \in Seq(S), NEW e \in S
    PROVE  /\ Messages(Append(s, e)) = Messages(s) \cup {e}
           /\ Distinct(s) /\ e \notin Messages(s) => Distinct(Append(s, e))
<1> DEFINE t == Append(s, e)
<1>1. /\ t \in Seq(S) /\ Len(t) = Len(s) + 1 /\ Len(s) \in Nat
      /\ DOMAIN t = 1..(Len(s) + 1) /\ DOMAIN s = 1..Len(s)
      /\ t[Len(s) + 1] = e
      /\ \A i \in 1..Len(s) : t[i] = s[i]
      OBVIOUS
<1>2. Messages(t) = Messages(s) \cup {e}
  <2>1. ASSUME NEW m \in Messages(t)
        PROVE  m \in Messages(s) \cup {e}
        BY <1>1 DEF Messages
  <2>2. ASSUME NEW m \in Messages(s)
        PROVE  m \in Messages(t)
        BY <1>1 DEF Messages
  <2>3. e \in Messages(t)
        BY <1>1 DEF Messages
  <2>4. QED
        BY <2>1, <2>2, <2>3
<1>3. Distinct(s) /\ e \notin Messages(s) => Distinct(t)
      BY <1>1 DEF Distinct, Messages
<1>4. QED
      BY <1>2, <1>3

LEMMA TailMessages ==
    ASSUME NEW S, NEW s \in Seq(S), s # <<>>, Distinct(s)
    PROVE  /\ Messages(Tail(s)) = Messages(s) \ {Head(s)}
           /\ Head(s) \in Messages(s)
           /\ Distinct(Tail(s))
<1> DEFINE t == Tail(s)
<1>1. /\ t \in Seq(S) /\ Len(t) = Len(s) - 1 /\ Len(s) \in Nat /\ Len(s) >= 1
      /\ DOMAIN t = 1..(Len(s) - 1) /\ DOMAIN s = 1..Len(s)
      /\ Head(s) = s[1]
      /\ \A i \in 1..(Len(s) - 1) : t[i] = s[i + 1]
      OBVIOUS
<1>2. Head(s) \in Messages(s)
      BY <1>1 DEF Messages
<1>3. ASSUME NEW m \in Messages(t)
      PROVE  m \in Messages(s) \ {Head(s)}
  <2>1. PICK i \in 1..(Len(s) - 1) : m = t[i]
        BY <1>1 DEF Messages
  <2>2. m = s[i + 1] /\ i + 1 \in DOMAIN s /\ 1 \in DOMAIN s /\ i + 1 # 1
        BY <1>1, <2>1
  <2>3. QED
        BY <1>1, <2>2 DEF Messages, Distinct
<1>4. ASSUME NEW m \in Messages(s) \ {Head(s)}
      PROVE  m \in Messages(t)
  <2>1. PICK i \in DOMAIN s : m = s[i]
        BY DEF Messages
  <2>2. i # 1
        BY <1>1, <2>1
  <2>3. i - 1 \in DOMAIN t /\ t[i - 1] = s[i]
        BY <1>1, <2>2
  <2>4. QED
        BY <2>1, <2>3 DEF Messages
<1>5. Distinct(t)
      BY <1>1 DEF Distinct
<1>6. QED
      BY <1>2, <1>3, <1>4, <1>5

\* A pop that has left the critical section holds one message.
ElemHeld == \A c \in Consumers : Taken(c) => elem[c] = <<elem[c][1]>> /\ elem[c][1] \in Msg

LEMMA NextElemHeld == LockInv /\ ElemHeld /\ [Next]_vars => ElemHeld'
<1> SUFFICES ASSUME LockInv, ElemHeld, [Next]_vars, NEW c \in Consumers, Taken(c)'
             PROVE  elem'[c] = <<elem'[c][1]>> /\ elem'[c][1] \in Msg
    BY DEF ElemHeld
<1> USE ThreadsAssumption DEF LockInv, TypeOK, Threads, Taken
<1>1. CASE pc[c] = "return" /\ elem'[c] = elem[c]
      BY <1>1 DEF ElemHeld
<1>2. CASE pc[c] = "pop" /\ elem'[c] = elem[c]
  <2>1. queue_ # <<>> /\ elem[c] = <<Head(queue_)>>
        BY <1>2 DEF FrontHeld
  <2>2. Head(queue_) \in Msg
        BY <2>1
  <2>3. QED
        BY <1>2, <2>1, <2>2
<1>3. (pc[c] = "return" \/ pc[c] = "pop") /\ elem'[c] = elem[c]
  <2>1. ASSUME NEW p \in Producers, Push(p)
        PROVE  pc[c] = "return" /\ elem'[c] = elem[c]
        BY <2>1 DEF Push, PushLock, PushAppend, PushNotify, Sleeping
  <2>2. ASSUME NEW d \in Consumers, Pop(d) \/ SpuriousWake(d)
        PROVE  (pc[c] = "return" \/ pc[c] = "pop") /\ elem'[c] = elem[c]
        BY <2>2 DEF Pop, PopLock, PopSleep, PopFront, PopTake, PopReturn, SpuriousWake
  <2>3. CASE UNCHANGED vars
        BY <2>3 DEF vars
  <2>4. QED
        BY <2>1, <2>2, <2>3 DEF Next
<1>4. QED
      BY <1>1, <1>2, <1>3

LEMMA InitConservation == Init => Conservation /\ ElemHeld
<1> SUFFICES ASSUME Init
             PROVE  Conservation /\ ElemHeld
    OBVIOUS
<1> USE DEF Init, Taken, Threads
<1>1. Messages(queue_) = {} /\ Messages(returned) = {}
      BY DEF Messages
<1>2. InHand = {}
      BY DEF InHand
<1>3. Appended = {}
      BY MaxPushAssumption DEF Appended, Msg
<1>4. Distinct(queue_) /\ Distinct(returned)
      BY DEF Distinct
<1>5. QED
      BY <1>1, <1>2, <1>3, <1>4 DEF Conservation, ElemHeld

LEMMA AppendFlow ==
    ASSUME LockInv, Conservation, NEW p \in Producers, PushAppend(p)
    PROVE  LET m == <<p, pushed[p] + 1>> IN
           /\ m \in Msg \ Appended
           /\ Appended' = Appended \cup {m}
           /\ Messages(queue_') = Messages(queue_) \cup {m}
           /\ Distinct(queue_')
           /\ InHand' = InHand
<1> DEFINE m == <<p, pushed[p] + 1>>
<1> USE DEF LockInv, TypeOK
<1>1. m \in Msg \ Appended
  <2>1. pushed[p] \in 0..MaxPush /\ pushed[p] < MaxPush
        BY DEF PushBounded, PushAppend
  <2>2. pushed[p] + 1 \in 1..MaxPush /\ ~(pushed[p] + 1 <= pushed[p])
        BY <2>1, MaxPushAssumption
  <2>3. QED
        BY <2>2 DEF Msg, Appended
<1>2. Appended' = Appended \cup {m}
  <2>1. pushed' = [pushed EXCEPT ![p] = pushed[p] + 1]
        BY DEF PushAppend
  <2>2. ASSUME NEW q \in Producers, NEW n \in 1..MaxPush
        PROVE  n <= pushed'[q] <=> n <= pushed[q] \/ <<q, n>> = m
        BY <2>1, MaxPushAssumption
  <2>3. QED
        BY <2>2, <1>1 DEF Appended, Msg
<1>3. m \notin Messages(queue_)
      BY <1>1 DEF Conservation
<1>4. queue_' = Append(queue_, m)
      BY DEF PushAppend
<1>5. Messages(queue_') = Messages(queue_) \cup {m} /\ Distinct(queue_')
      BY <1>1, <1>3, <1>4, AppendMessages DEF Conservation
<1>6. InHand' = InHand
  <2>1. \A c \in Consumers : Taken(c)' = Taken(c)
        BY ThreadsAssumption DEF PushAppend, Taken, Threads
  <2>2. QED
        BY <2>1 DEF InHand, PushAppend
<1>7. QED
      BY <1>1, <1>2, <1>5, <1>6

LEMMA TakeFlow ==
    ASSUME LockInv, Conservation, NEW c \in Consumers, PopTake(c)
    PROVE  LET m == Head(queue_) IN
           /\ elem[c] = <<m>> /\ m \in Messages(queue_)
           /\ Messages(queue_') = Messages(queue_) \ {m}
           /\ Distinct(queue_')
           /\ InHand' = InHand \cup {m}
<1> DEFINE m == Head(queue_)
<1> USE DEF LockInv, TypeOK
<1>1. queue_ # <<>> /\ elem[c] = <<m>>
      BY DEF PopTake, FrontHeld
<1>2. /\ m \in Messages(queue_)
      /\ Messages(queue_') = Messages(queue_) \ {m}
      /\ Distinct(queue_')
      BY <1>1, TailMessages DEF PopTake, Conservation
<1>3. {d \in Consumers : Taken(d)}' = {d \in Consumers : Taken(d)} \cup {c}
      BY DEF PopTake, Taken, Threads
<1>4. elem' = elem /\ elem[c][1] = m
      BY <1>1 DEF PopTake
<1>5. InHand' = InHand \cup {m}
      BY <1>3, <1>4 DEF InHand
<1>6. QED
      BY <1>1, <1>2, <1>5

LEMMA ReturnFlow ==
    ASSUME LockInv, Conservation, ElemHeld, NEW c \in Consumers, PopReturn(c)
    PROVE  LET m == elem[c][1] IN
           /\ m \in InHand /\ m \in Msg
           /\ InHand' = InHand \ {m}
           /\ Messages(returned') = Messages(returned) \cup {m}
           /\ Distinct(returned')
<1> DEFINE m == elem[c][1]
<1> USE DEF LockInv, TypeOK
<1>1. Taken(c) /\ elem[c] = <<m>> /\ m \in Msg
      BY DEF PopReturn, Taken, ElemHeld
<1>2. m \in InHand /\ m \notin Messages(returned)
      BY <1>1 DEF InHand, Conservation
<1>3. returned' = Append(returned, m)
  <2>1. returned' = returned \o <<m>>
        BY <1>1 DEF PopReturn
  <2>2. QED
        BY <1>1, <2>1, AppendIsConcat
<1>4. Messages(returned') = Messages(returned) \cup {m} /\ Distinct(returned')
      BY <1>1, <1>2, <1>3, AppendMessages DEF Conservation
<1>5. {d \in Consumers : Taken(d)}' = {d \in Consumers : Taken(d)} \ {c}
      BY DEF PopReturn, Taken, Threads
<1>6. \A d \in Consumers \ {c} : elem'[d] = elem[d]
      BY DEF PopReturn
<1>7. \A d \in Consumers \ {c} : Taken(d) => elem[d][1] # m
      BY <1>1 DEF Conservation, ElemHeld
<1>8. InHand' = InHand \ {m}
  <2>1. InHand' = {elem'[d][1] : d \in {d \in Consumers : Taken(d)} \ {c}}
        BY <1>5 DEF InHand
  <2>2. ASSUME NEW x \in InHand'
        PROVE  x \in InHand \ {m}
    <3>1. PICK d \in {d \in Consumers : Taken(d)} \ {c} : x = elem'[d][1]
          BY <2>1
    <3>2. elem'[d] = elem[d] /\ elem[d][1] # m /\ Taken(d)
          BY <3>1, <1>6, <1>7
    <3>3. QED
          BY <3>1, <3>2 DEF InHand
  <2>3. ASSUME NEW x \in InHand \ {m}
        PROVE  x \in InHand'
    <3>1. PICK d \in {d \in Consumers : Taken(d)} : x = elem[d][1]
          BY DEF InHand
    <3>2. d # c /\ elem'[d] = elem[d]
          BY <3>1, <1>6
    <3>3. QED
          BY <2>1, <3>1, <3>2
  <2>4. QED
        BY <2>2, <2>3
<1>9. QED
      BY <1>1, <1>2, <1>4, <1>8

LEMMA OtherFlow ==
    ASSUME LockInv, [Next]_vars,
           \A p \in Producers : ~PushAppend(p),
           \A c \in Consumers : ~PopTake(c) /\ ~PopReturn(c)
    PROVE  /\ UNCHANGED <<queue_, returned, pushed>>
           /\ \A c \in Consumers : Taken(c)' = Taken(c)
           /\ \A c \in Consumers : Taken(c) => elem'[c] = elem[c]
<1> USE ThreadsAssumption DEF LockInv, TypeOK, Threads, Taken
<1>1. ASSUME NEW p \in Producers, PushLock(p) \/ PushNotify(p)
      PROVE  /\ UNCHANGED <<queue_, returned, pushed, elem>>
             /\ \A c \in Consumers : Taken(c)' = Taken(c)
      BY <1>1 DEF PushLock, PushNotify, Sleeping
<1>2. ASSUME NEW d \in Consumers,
             PopLock(d) \/ PopSleep(d) \/ PopFront(d) \/ SpuriousWake(d)
      PROVE  /\ UNCHANGED <<queue_, returned, pushed>>
             /\ \A c \in Consumers : Taken(c)' = Taken(c)
             /\ \A c \in Consumers : Taken(c) => elem'[c] = elem[c]
      BY <1>2 DEF PopLock, PopSleep, PopFront, SpuriousWake
<1>3. CASE UNCHANGED vars
      BY <1>3 DEF vars
<1>4. QED
      BY <1>1, <1>2, <1>3 DEF Next, Push, Pop

\* The hands of two pops hold different messages.
HandsDiffer ==
    \A c, d \in Consumers : Taken(c) /\ Taken(d) /\ c # d => elem[c] # elem[d]

LEMMA NextConservation ==
    LockInv /\ Conservation /\ ElemHeld /\ [Next]_vars => Conservation'
<1> SUFFICES ASSUME LockInv, Conservation, ElemHeld, [Next]_vars
             PROVE  Conservation'
    OBVIOUS
<1>0. HandsDiffer
      BY DEF HandsDiffer, Conservation
<1>1. ASSUME NEW p \in Producers, PushAppend(p)
      PROVE  Conservation'
  <2>1. /\ UNCHANGED <<elem, returned>>
        /\ \A c \in Consumers : Taken(c)' = Taken(c)
        BY <1>1, ThreadsAssumption DEF PushAppend, LockInv, TypeOK, Threads, Taken
  <2>2. HandsDiffer'
        BY <1>0, <2>1 DEF HandsDiffer
  <2>3. Messages(returned') = Messages(returned) /\ Distinct(returned')
        BY <2>1 DEF Conservation
  <2>4. PICK m : /\ m \in Msg \ Appended
                 /\ Appended' = Appended \cup {m}
                 /\ Messages(queue_') = Messages(queue_) \cup {m}
                 /\ Distinct(queue_')
                 /\ InHand' = InHand
        BY <1>1, AppendFlow
  <2>5. QED
        BY <2>2, <2>3, <2>4 DEF Conservation, HandsDiffer
<1>2. ASSUME NEW c \in Consumers, PopTake(c)
      PROVE  Conservation'
  <2>1. /\ UNCHANGED <<elem, returned, pushed>>
        /\ \A d \in Consumers \ {c} : Taken(d)' = Taken(d)
        BY <1>2 DEF PopTake, LockInv, TypeOK, Threads, Taken
  <2>2. /\ Appended' = Appended
        /\ Messages(returned') = Messages(returned) /\ Distinct(returned')
        BY <2>1 DEF Appended, Conservation
  <2>3. \A d \in Consumers \ {c} : Taken(d) => elem[d] # elem[c]
    <3>1. \A d \in Consumers \ {c} : Taken(d) => elem[d][1] \in InHand
          BY DEF InHand
    <3>2. elem[c][1] \in Messages(queue_)
          BY <1>2, TakeFlow
    <3>3. QED
          BY <3>1, <3>2 DEF Conservation
  <2>4. HandsDiffer'
        BY <1>0, <2>1, <2>3 DEF HandsDiffer
  <2>5. PICK m : /\ m \in Messages(queue_)
                 /\ Messages(queue_') = Messages(queue_) \ {m}
                 /\ Distinct(queue_')
                 /\ InHand' = InHand \cup {m}
        BY <1>2, TakeFlow
  <2>6. QED
        BY <2>2, <2>4, <2>5 DEF Conservation, HandsDiffer
<1>3. ASSUME NEW c \in Consumers, PopReturn(c)
      PROVE  Conservation'
  <2>1. /\ UNCHANGED <<queue_, pushed>>
        /\ ~Taken(c)'
        /\ \A d \in Consumers \ {c} : Taken(d)' = Taken(d) /\ elem'[d] = elem[d]
        BY <1>3 DEF PopReturn, LockInv, TypeOK, Threads, Taken
  <2>2. /\ Appended' = Appended
        /\ Messages(queue_') = Messages(queue_) /\ Distinct(queue_')
        BY <2>1 DEF Appended, Conservation
  <2>3. HandsDiffer'
        BY <1>0, <2>1 DEF HandsDiffer
  <2>4. PICK m : /\ m \in InHand
                 /\ InHand' = InHand \ {m}
                 /\ Messages(returned') = Messages(returned) \cup {m}
                 /\ Distinct(returned')
        BY <1>3, ReturnFlow
  <2>5. QED
        BY <2>2, <2>3, <2>4 DEF Conservation, HandsDiffer
<1>4. CASE /\ \A p \in Producers : ~PushAppend(p)
           /\ \A c \in Consumers : ~PopTake(c) /\ ~PopReturn(c)
  <2>1. /\ UNCHANGED <<queue_, returned, pushed>>
        /\ \A c \in Consumers : Taken(c)' = Taken(c)
        /\ \A c \in Consumers : Taken(c) => elem'[c] = elem[c]
        BY <1>4, OtherFlow
  <2>2. {c \in Consumers : Taken(c)}' = {c \in Consumers : Taken(c)}
        BY <2>1
  <2>3. InHand' = InHand
        BY <2>1, <2>2 DEF InHand
  <2>4. /\ Appended' = Appended
        /\ Messages(queue_') = Messages(queue_) /\ Distinct(queue_')
        /\ Messages(returned') = Messages(returned) /\ Distinct(returned')
        BY <2>1 DEF Appended, Conservation
  <2>5. HandsDiffer'
        BY <1>0, <2>1 DEF HandsDiffer
  <2>6. QED
        BY <2>3, <2>4, <2>5 DEF Conservation, HandsDiffer
<1>5. QED
      BY <1>1, <1>2, <1>3, <1>4

(***************************************************************************)
(* No message is lost or handed to two callers, for any number of threads: *)
(* every message pushed is in the queue, in the hands of one pop, or has   *)
(* been returned by one.                                                   *)
(***************************************************************************)
THEOREM NothingLost == Spec => []Conservation
<1>1. Init => LockInv /\ Conservation /\ ElemHeld
      BY InitLockInv, InitConservation
<1>2. LockInv /\ Conservation /\ ElemHeld /\ [Next]_vars
         => (LockInv /\ Conservation /\ ElemHeld)'
      BY NextLockInv, NextConservation, NextElemHeld
<1>3. QED
      BY <1>1, <1>2, PTL DEF Spec

LEMMA InitMailbox == Init => MB!Init
BY InitConservation, MaxPushAssumption
   DEF Init, MB!Init, Appended, Msg, Messages

LEMMA NextMailbox ==
    LockInv /\ Conservation /\ ElemHeld /\ [Next]_vars => [MB!Next]_MB!vars
<1> SUFFICES ASSUME LockInv, Conservation, ElemHeld, [Next]_vars
             PROVE  [MB!Next]_MB!vars
    OBVIOUS
<1>1. ASSUME NEW p \in Producers, PushAppend(p)
      PROVE  MB!Next
  <2>1. returned' = returned
        BY <1>1 DEF PushAppend
  <2>2. PICK m \in Msg : m \notin Appended /\ Appended' = Appended \cup {m}
        BY <1>1, AppendFlow
  <2>3. MB!Send(m)
        BY <2>1, <2>2 DEF MB!Send
  <2>4. QED
        BY <2>2, <2>3 DEF MB!Next
<1>2. ASSUME NEW c \in Consumers, PopReturn(c)
      PROVE  MB!Next
  <2>1. Appended' = Appended
        BY <1>2 DEF PopReturn, Appended
  <2>2. PICK m \in Msg : /\ m \in InHand
                         /\ Messages(returned') = Messages(returned) \cup {m}
        BY <1>2, ReturnFlow
  <2>3. m \in Appended \ Messages(returned)
        BY <2>2 DEF Conservation
  <2>4. MB!Deliver(m)
        BY <2>1, <2>2, <2>3 DEF MB!Deliver
  <2>5. QED
        BY <2>4 DEF MB!Next
<1>3. ASSUME NEW c \in Consumers, PopTake(c)
      PROVE  UNCHANGED MB!vars
      BY <1>3 DEF PopTake, Appended, MB!vars
<1>4. CASE /\ \A p \in Producers : ~PushAppend(p)
           /\ \A c \in Consumers : ~PopTake(c) /\ ~PopReturn(c)
  <2>1. UNCHANGED <<returned, pushed>>
        BY <1>4, OtherFlow
  <2>2. QED
        BY <2>1 DEF Appended, MB!vars
<1>5. QED
      BY <1>1, <1>2, <1>3, <1>4

(***************************************************************************)
(* Every step of the queue is a Send, a Deliver or nothing to the mailbox: *)
(* each message is delivered at most once and none is made up.             *)
(***************************************************************************)
THEOREM SafeMailbox == Spec => MB!SafeSpec
<1>1. Init => LockInv /\ Conservation /\ ElemHeld
      BY InitLockInv, InitConservation
<1>2. LockInv /\ Conservation /\ ElemHeld /\ [Next]_vars
         => (LockInv /\ Conservation /\ ElemHeld)'
      BY NextLockInv, NextConservation, NextElemHeld
<1>3. QED
      BY <1>1, <1>2, InitMailbox, NextMailbox, PTL DEF Spec, MB!SafeSpec

------------------------------------------------------------------------------
(* One reader: a first-in-first-out channel *)

LEMMA AppendConcat ==
    ASSUME NEW S, NEW s \in Seq(S), NEW t \in Seq(S), NEW e \in S
    PROVE  s \o Append(t, e) = Append(s \o t, e)
<1>1. <<e>> \in Seq(S) /\ s \o t \in Seq(S)
      BY ConcatProperties
<1>2. Append(t, e) = t \o <<e>> /\ Append(s \o t, e) = (s \o t) \o <<e>>
      BY <1>1, AppendIsConcat
<1>3. QED
      BY <1>1, <1>2, ConcatAssociative

LEMMA ConsConcat ==
    ASSUME NEW S, NEW e \in S, NEW t \in Seq(S)
    PROVE  <<e>> \o t # <<>> /\ Head(<<e>> \o t) = e /\ Tail(<<e>> \o t) = t
<1> DEFINE u == <<e>> \o t
<1>1. <<e>> \in Seq(S) /\ Len(<<e>>) = 1 /\ <<e>>[1] = e /\ Len(t) \in Nat
      OBVIOUS
<1>2. /\ u \in Seq(S) /\ Len(u) = 1 + Len(t)
      /\ \A i \in 1..(1 + Len(t)) : u[i] = IF i <= 1 THEN <<e>>[i] ELSE t[i - 1]
      BY <1>1, ConcatProperties
<1> HIDE DEF u
<1>3. u # <<>> /\ u[1] = e
      BY <1>1, <1>2
<1>4. Head(u) = e /\ Tail(u) \in Seq(S) /\ Len(Tail(u)) = Len(t)
      BY <1>1, <1>2, <1>3, HeadTailProperties
<1>5. \A i \in 1..Len(t) : Tail(u)[i] = t[i]
  <2>1. \A i \in 1..Len(t) : Tail(u)[i] = u[i + 1] /\ u[i + 1] = t[i]
        BY <1>1, <1>2, <1>3, <1>4, HeadTailProperties
  <2>2. QED
        BY <2>1
<1>6. Tail(u) = t
      BY <1>4, <1>5, SeqEqual
<1>7. QED
      BY <1>3, <1>4, <1>6 DEF u

LEMMA ConsHeadTail ==
    ASSUME NEW S, NEW s \in Seq(S), s # <<>>
    PROVE  <<Head(s)>> \o Tail(s) = s
<1> DEFINE u == <<Head(s)>> \o Tail(s)
<1>1. /\ Head(s) \in S /\ Tail(s) \in Seq(S) /\ Len(Tail(s)) = Len(s) - 1
      /\ Head(s) = s[1] /\ Len(s) \in Nat \ {0}
      /\ \A i \in 1..Len(Tail(s)) : Tail(s)[i] = s[i + 1]
      BY HeadTailProperties, EmptySeq
<1>2. <<Head(s)>> \in Seq(S) /\ Len(<<Head(s)>>) = 1 /\ <<Head(s)>>[1] = s[1]
      BY <1>1
<1>3. /\ u \in Seq(S) /\ Len(u) = Len(s)
      /\ \A i \in 1..Len(s) : u[i] = IF i <= 1 THEN <<Head(s)>>[i] ELSE Tail(s)[i - 1]
      BY <1>1, <1>2, ConcatProperties
<1>4. ASSUME NEW i \in 1..Len(s)
      PROVE  u[i] = s[i]
  <2>1. CASE i = 1
        BY <1>2, <1>3, <2>1
  <2>2. CASE i # 1
    <3>1. i - 1 \in 1..Len(Tail(s)) /\ ~(i <= 1) /\ (i - 1) + 1 = i
          BY <1>1, <2>2
    <3>2. QED
          BY <1>1, <1>3, <3>1
  <2>3. QED
        BY <2>1, <2>2
<1>5. QED
      BY <1>3, <1>4, SeqEqual

\* The reader when there is only one, and the message it is about to return.
Reader == CHOOSE c \in Consumers : TRUE

ReaderHolds == IF Taken(Reader) THEN elem[Reader] ELSE <<>>

OnlyReader == Consumers = {Reader}

FF == INSTANCE Fifo WITH chan <- ReaderHolds \o queue_, delivered <- returned

FifoInv == LockInv /\ Conservation /\ ElemHeld

LEMMA HoldsAtMostOne ==
    ASSUME FifoInv, OnlyReader
    PROVE  /\ queue_ \in Seq(Msg) /\ ReaderHolds \in Seq(Msg)
           /\ Taken(Reader) =>
                 /\ elem[Reader][1] \in Msg
                 /\ ReaderHolds = <<elem[Reader][1]>>
<1>1. queue_ \in Seq(Msg) /\ Reader \in Consumers
      BY DEF FifoInv, LockInv, TypeOK, OnlyReader
<1>2. CASE Taken(Reader)
  <2>1. elem[Reader] = <<elem[Reader][1]>> /\ elem[Reader][1] \in Msg
        BY <1>1, <1>2 DEF FifoInv, ElemHeld
  <2>2. <<elem[Reader][1]>> \in Seq(Msg)
        BY <2>1
  <2>3. QED
        BY <1>1, <1>2, <2>1, <2>2 DEF ReaderHolds
<1>3. CASE ~Taken(Reader)
      BY <1>1, <1>3 DEF ReaderHolds
<1>4. QED
      BY <1>2, <1>3

LEMMA InitFifo == OnlyReader /\ Init => FF!Init
<1> SUFFICES ASSUME OnlyReader, Init
             PROVE  FF!Init
    OBVIOUS
<1>1. pc[Reader] = "idle"
      BY DEF Init, OnlyReader, Threads
<1>2. ReaderHolds = <<>> /\ queue_ = <<>> /\ returned = <<>>
      BY <1>1 DEF ReaderHolds, Taken, Init
<1>3. QED
      BY <1>2 DEF FF!Init

LEMMA NextFifo == FifoInv /\ OnlyReader /\ [Next]_vars => [FF!Next]_FF!vars
<1> SUFFICES ASSUME FifoInv, OnlyReader, [Next]_vars
             PROVE  [FF!Next]_FF!vars
    OBVIOUS
<1> DEFINE chan == ReaderHolds \o queue_
<1>0. /\ queue_ \in Seq(Msg) /\ ReaderHolds \in Seq(Msg)
      /\ Taken(Reader) => /\ elem[Reader][1] \in Msg
                          /\ ReaderHolds = <<elem[Reader][1]>>
      /\ Reader \in Consumers
      BY HoldsAtMostOne DEF OnlyReader
<1>1. ASSUME NEW p \in Producers, PushAppend(p)
      PROVE  FF!Next
  <2> DEFINE m == <<p, pushed[p] + 1>>
  <2>1. m \in Msg
        BY <1>1, AppendFlow DEF FifoInv
  <2>2. queue_' = Append(queue_, m) /\ UNCHANGED <<elem, returned>>
        BY <1>1 DEF PushAppend
  <2>3. Taken(Reader)' = Taken(Reader)
        BY <1>0, <1>1, ThreadsAssumption
        DEF PushAppend, Taken, FifoInv, LockInv, TypeOK, Threads
  <2>4. ReaderHolds' = ReaderHolds
        BY <2>2, <2>3 DEF ReaderHolds
  <2> HIDE DEF m
  <2>5. chan' = Append(chan, m)
        BY <1>0, <2>1, <2>2, <2>4, AppendConcat
  <2>6. FF!Send(m)
        BY <2>2, <2>5 DEF FF!Send
  <2>7. QED
        BY <2>1, <2>6 DEF FF!Next
<1>2. ASSUME NEW c \in Consumers, PopTake(c)
      PROVE  UNCHANGED FF!vars
  <2>1. c = Reader /\ ~Taken(Reader) /\ Taken(Reader)' /\ UNCHANGED <<elem, returned>>
        BY <1>2 DEF OnlyReader, PopTake, Taken, FifoInv, LockInv, TypeOK, Threads
  <2>2. queue_ # <<>> /\ elem[c] = <<Head(queue_)>> /\ queue_' = Tail(queue_)
        BY <1>2 DEF PopTake, FifoInv, LockInv, FrontHeld
  <2>3. ReaderHolds = <<>> /\ ReaderHolds' = <<Head(queue_)>>
        BY <2>1, <2>2 DEF ReaderHolds
  <2>4. chan' = queue_
        BY <1>0, <2>2, <2>3, ConsHeadTail
  <2>5. chan = queue_
        BY <1>0, <2>3, ConcatEmptySeq
  <2>6. QED
        BY <2>1, <2>4, <2>5 DEF FF!vars
<1>3. ASSUME NEW c \in Consumers, PopReturn(c)
      PROVE  FF!Next
  <2> DEFINE m == elem[Reader][1]
  <2>1. c = Reader /\ Taken(Reader) /\ ~Taken(Reader)' /\ queue_' = queue_
        BY <1>3 DEF OnlyReader, PopReturn, Taken, FifoInv, LockInv, TypeOK, Threads
  <2>2. m \in Msg /\ ReaderHolds = <<m>> /\ elem[c] = <<m>>
        BY <1>0, <2>1 DEF ReaderHolds
  <2>3. returned' = returned \o <<m>> /\ returned \in Seq(Msg)
        BY <1>3, <2>2 DEF PopReturn, FifoInv, LockInv, TypeOK
  <2>4. ReaderHolds' = <<>>
        BY <2>1 DEF ReaderHolds
  <2> HIDE DEF m
  <2>5. returned' = Append(returned, m)
        BY <2>2, <2>3, AppendIsConcat
  <2>6. chan # <<>> /\ Head(chan) = m /\ Tail(chan) = queue_
        BY <1>0, <2>2, ConsConcat
  <2>7. chan' = queue_
        BY <1>0, <2>1, <2>4, ConcatEmptySeq
  <2>8. FF!Receive
        BY <2>5, <2>6, <2>7 DEF FF!Receive
  <2>9. QED
        BY <2>8 DEF FF!Next
<1>4. CASE /\ \A p \in Producers : ~PushAppend(p)
           /\ \A c \in Consumers : ~PopTake(c) /\ ~PopReturn(c)
  <2>1. /\ UNCHANGED <<queue_, returned>>
        /\ Taken(Reader)' = Taken(Reader)
        /\ Taken(Reader) => elem'[Reader] = elem[Reader]
        BY <1>0, <1>4, OtherFlow DEF FifoInv
  <2>2. ReaderHolds' = ReaderHolds
        BY <2>1 DEF ReaderHolds
  <2>3. QED
        BY <2>1, <2>2 DEF FF!vars
<1>5. QED
      BY <1>1, <1>2, <1>3, <1>4

(***************************************************************************)
(* With one reader the queue is a first-in-first-out channel: pop returns  *)
(* the messages in the order in which push put them in, each once, for any *)
(* number of producers.                                                    *)
(***************************************************************************)
THEOREM SafeFifo == ASSUME OnlyReader PROVE Spec => FF!SafeSpec
<1>1. Init => FifoInv
      BY InitLockInv, InitConservation DEF FifoInv
<1>2. FifoInv /\ [Next]_vars => FifoInv'
      BY NextLockInv, NextConservation, NextElemHeld DEF FifoInv
<1>3. Init => FF!Init
      BY InitFifo
<1>4. FifoInv /\ [Next]_vars => [FF!Next]_FF!vars
      BY NextFifo
<1>5. QED
      BY <1>1, <1>2, <1>3, <1>4, PTL DEF Spec, FF!SafeSpec
==============================================================================
