------------------------ MODULE NetworkRespChainProofs ------------------------
(***************************************************************************)
(* Proofs about NetworkRespChain, for any levels and number of changes.    *)
(***************************************************************************)
EXTENDS NetworkRespChain, TLAPS

Messages == [kind : {"connectivity", "other"}, level : Levels]

NoSignal == \A i \in 1..Len(bus) : bus[i].kind # "connectivity"

(***************************************************************************)
(* The last signal on the bus speaks of the present: every change after    *)
(* the handler is connected is announced, in order.                        *)
(***************************************************************************)
LastIsNow ==
    \A i \in 1..Len(bus) :
        /\ bus[i].kind = "connectivity"
        /\ \A j \in 1..Len(bus) : j > i => bus[j].kind # "connectivity"
        => bus[i].level = connectivity

\* The property is read once, after the handler is connected.
OneReply ==
    /\ ~Connected => bus = <<>>
    /\ pc \notin {"answered", "sigwait"} => answer = {}
    /\ answer # {} => \E v \in Levels : answer = {v}

\* the init thread is going to open the element
WillOpen == pc = "get" \/ (pc = "answered" /\ answer = {Full})

(***************************************************************************)
(* Without a signal on its way, the element of an online process is open,  *)
(* or the property read is still going to open it.                         *)
(***************************************************************************)
OpenOrOpening == Connected /\ NoSignal /\ Online => ~blocked_ \/ WillOpen

Inv == TypeOK /\ LastIsNow /\ OneReply /\ OpenOrOpening

LEMMA InitInv == Init => Inv
<1> SUFFICES ASSUME Init
             PROVE  Inv
    OBVIOUS
<1>1. bus = <<>> /\ pc = "wait" /\ answer = {}
      BY DEF Init
<1>2. TypeOK
      BY LevelsAssumption, MaxChangesAssumption DEF Init, TypeOK
<1>3. LastIsNow /\ OneReply /\ OpenOrOpening
      BY <1>1 DEF LastIsNow, OneReply, OpenOrOpening, Connected
<1>4. QED
      BY <1>2, <1>3 DEF Inv

\* What the bus is after a message is sent, and after one is taken.
LEMMA AppendBus ==
    ASSUME NEW s \in Seq(Messages), NEW m \in Messages
    PROVE  /\ Append(s, m) \in Seq(Messages)
           /\ Len(Append(s, m)) = Len(s) + 1
           /\ \A i \in 1..Len(s) : Append(s, m)[i] = s[i]
           /\ Append(s, m)[Len(s) + 1] = m
OBVIOUS

LEMMA TailBus ==
    ASSUME NEW s \in Seq(Messages), s # <<>>
    PROVE  /\ Tail(s) \in Seq(Messages)
           /\ Head(s) = s[1] /\ Head(s) \in Messages
           /\ Len(s) \in Nat \ {0}
           /\ Len(Tail(s)) = Len(s) - 1
           /\ \A i \in 1..Len(Tail(s)) : Tail(s)[i] = s[i + 1]
           /\ \A i \in 1..Len(s) :
                 i # 1 => i - 1 \in 1..Len(Tail(s)) /\ Tail(s)[i - 1] = s[i]
<1>1. /\ Tail(s) \in Seq(Messages)
      /\ Head(s) = s[1] /\ Head(s) \in Messages
      /\ Len(s) \in Nat \ {0}
      /\ Len(Tail(s)) = Len(s) - 1
      /\ \A i \in 1..Len(Tail(s)) : Tail(s)[i] = s[i + 1]
      OBVIOUS
<1>2. ASSUME NEW i \in 1..Len(s), i # 1
      PROVE  i - 1 \in 1..Len(Tail(s)) /\ Tail(s)[i - 1] = s[i]
  <2>1. i - 1 \in 1..Len(Tail(s)) /\ (i - 1) + 1 = i
        BY <1>1, <1>2
  <2>2. QED
        BY <1>1, <2>1
<1>3. QED
      BY <1>1, <1>2

LEMMA ChangeInv ==
    ASSUME Inv, NEW v \in Levels, ConnectivityChanges(v)
    PROVE  Inv'
<1> USE DEF ConnectivityChanges, Announce
<1>1. Signal(v) \in Messages /\ Signal(v).kind = "connectivity" /\ Signal(v).level = v
      BY DEF Signal, Messages
<1>2. bus \in Seq(Messages)
      BY DEF Inv, TypeOK, Messages
<1>3. TypeOK'
  <2>1. bus' \in Seq(Messages)
        BY <1>1, <1>2, AppendBus
  <2>2. changes' \in 0..MaxChanges
        BY MaxChangesAssumption DEF Inv, TypeOK
  <2>3. QED
        BY <2>1, <2>2 DEF Inv, TypeOK, Messages
<1>4. CASE ~Connected
      BY <1>3, <1>4 DEF Inv, LastIsNow, OneReply, OpenOrOpening, Connected
<1>5. CASE Connected
  <2>1. bus' = Append(bus, Signal(v))
        BY <1>5
  <2>2. LastIsNow'
        BY <1>1, <1>2, <2>1, AppendBus DEF LastIsNow
  <2>3. OneReply'
        BY <1>1, <1>2, <1>5, <2>1, AppendBus DEF Inv, OneReply, Connected
  <2>4. ~NoSignal'
        BY <1>1, <1>2, <2>1, AppendBus DEF NoSignal
  <2>5. QED
        BY <1>3, <2>2, <2>3, <2>4 DEF Inv, OpenOrOpening
<1>6. QED
      BY <1>4, <1>5

\* A message that is no signal of connectivity is put on the bus.
LEMMA OtherInv == Inv /\ OtherChanges => Inv'
<1> SUFFICES ASSUME Inv, OtherChanges
             PROVE  Inv'
    OBVIOUS
<1> USE DEF OtherChanges, Announce
<1>1. OtherSignal \in Messages /\ OtherSignal.kind = "other"
      BY LevelsAssumption DEF OtherSignal, Messages
<1>2. bus \in Seq(Messages)
      BY DEF Inv, TypeOK, Messages
<1>3. TypeOK'
  <2>1. bus' \in Seq(Messages)
        BY <1>1, <1>2, AppendBus
  <2>2. changes' \in 0..MaxChanges
        BY MaxChangesAssumption DEF Inv, TypeOK
  <2>3. QED
        BY <2>1, <2>2 DEF Inv, TypeOK, Messages
<1>4. CASE ~Connected
      BY <1>3, <1>4 DEF Inv, LastIsNow, OneReply, OpenOrOpening, Connected
<1>5. CASE Connected
  <2>1. bus' = Append(bus, OtherSignal)
        BY <1>5
  <2>2. LastIsNow'
        BY <1>1, <1>2, <2>1, AppendBus DEF Inv, LastIsNow
  <2>3. OneReply'
        BY <1>1, <1>2, <1>5, <2>1, AppendBus DEF Inv, OneReply, Connected
  <2>4. NoSignal' => NoSignal
        BY <1>1, <1>2, <2>1, AppendBus DEF NoSignal
  <2>5. WillOpen => WillOpen'
        BY <1>1, <1>2, <2>1, AppendBus DEF WillOpen
  <2>6. OpenOrOpening'
        BY <1>5, <2>4, <2>5 DEF Inv, OpenOrOpening, Online, Connected
  <2>7. QED
        BY <1>3, <2>2, <2>3, <2>6 DEF Inv
<1>6. QED
      BY <1>4, <1>5

LEMMA AnswerInv == Inv /\ AnswerGet => Inv'
<1> SUFFICES ASSUME Inv, AnswerGet
             PROVE  Inv'
    OBVIOUS
<1>1. /\ pc = "get" /\ pc' = "answered" /\ answer' = {connectivity}
      /\ UNCHANGED <<service, connectivity, changes, bus, blocked_>>
      BY DEF AnswerGet
<1>2. TypeOK' /\ OneReply'
      BY <1>1 DEF Inv, TypeOK, OneReply, Connected
<1>3. LastIsNow'
      BY <1>1 DEF Inv, LastIsNow
<1>4. OpenOrOpening'
      BY <1>1 DEF OpenOrOpening, Online, WillOpen
<1>5. QED
      BY <1>2, <1>3, <1>4 DEF Inv

\* Taking a message from the bus leaves the last signal the last.
LEMMA TakeLast ==
    ASSUME Inv, bus # <<>>, bus' = Tail(bus), UNCHANGED connectivity
    PROVE  LastIsNow'
<1>1. bus \in Seq(Messages)
      BY DEF Inv, TypeOK, Messages
<1>2. /\ Len(bus) \in Nat \ {0} /\ Len(bus') = Len(bus) - 1
      /\ \A i \in 1..Len(bus') : bus'[i] = bus[i + 1]
      BY <1>1, TailBus
<1>3. \A j \in 1..Len(bus) : j # 1 => j - 1 \in 1..Len(bus') /\ bus'[j - 1] = bus[j]
      BY <1>1, TailBus
<1>4. SUFFICES ASSUME NEW i \in 1..Len(bus'), bus'[i].kind = "connectivity",
                      \A j \in 1..Len(bus') : j > i => bus'[j].kind # "connectivity"
               PROVE  bus'[i].level = connectivity
      BY DEF LastIsNow
<1>5. i + 1 \in 1..Len(bus) /\ bus[i + 1] = bus'[i]
      BY <1>2
<1>6. ASSUME NEW j \in 1..Len(bus), j > i + 1
      PROVE  bus[j].kind # "connectivity"
  <2>1. j - 1 \in 1..Len(bus') /\ bus'[j - 1] = bus[j] /\ j - 1 > i
        BY <1>2, <1>3, <1>6
  <2>2. QED
        BY <1>4, <2>1
<1>7. QED
      BY <1>4, <1>5, <1>6 DEF Inv, LastIsNow

LEMMA HandlerInv == Inv /\ OnPropertiesChanged => Inv'
<1> SUFFICES ASSUME Inv, OnPropertiesChanged
             PROVE  Inv'
    OBVIOUS
<1> DEFINE m == Head(bus)
<1>1. bus \in Seq(Messages) /\ bus # <<>> /\ bus' = Tail(bus)
      BY DEF OnPropertiesChanged, Inv, TypeOK, Messages
<1>2. /\ m = bus[1] /\ m.level \in Levels /\ m.kind \in {"connectivity", "other"}
      /\ Len(bus) \in Nat \ {0} /\ Len(bus') = Len(bus) - 1
      /\ \A i \in 1..Len(bus') : bus'[i] = bus[i + 1]
      /\ \A i \in 1..Len(bus) : i # 1 => i - 1 \in 1..Len(bus') /\ bus'[i - 1] = bus[i]
      /\ bus' \in Seq(Messages)
  <2>1. bus' = Tail(bus) /\ m \in Messages /\ m = bus[1]
        BY <1>1, TailBus
  <2>2. m.level \in Levels /\ m.kind \in {"connectivity", "other"}
        BY <2>1 DEF Messages
  <2>3. QED
        BY <1>1, <2>1, <2>2, TailBus DEF OnPropertiesChanged
<1>3. TypeOK'
      BY <1>2 DEF OnPropertiesChanged, Inv, TypeOK, Messages
<1>4. LastIsNow'
      BY <1>1, TakeLast DEF OnPropertiesChanged
<1>5. OneReply'
      BY <1>1, <1>2 DEF OnPropertiesChanged, Inv, OneReply, Connected
<1>6. WillOpen => WillOpen'
      BY <1>2 DEF OnPropertiesChanged, WillOpen
<1>7. OpenOrOpening'
  <2> SUFFICES ASSUME Connected', NoSignal', Online'
               PROVE  ~blocked_' \/ WillOpen'
      BY DEF OpenOrOpening
  <2>1. \A i \in 1..Len(bus) : i # 1 => bus[i].kind # "connectivity"
        BY <1>2 DEF NoSignal
  <2>2. CASE m.kind = "connectivity"
    <3>1. m.level = connectivity
      <4>1. 1 \in 1..Len(bus) /\ bus[1].kind = "connectivity"
            BY <1>2, <2>2
      <4>2. \A j \in 1..Len(bus) : j > 1 => bus[j].kind # "connectivity"
            BY <2>1
      <4>3. bus[1].level = connectivity
            BY <4>1, <4>2 DEF Inv, LastIsNow
      <4>4. QED
            BY <1>2, <4>3
    <3>2. QED
          BY <2>2, <3>1 DEF OnPropertiesChanged, Online
  <2>3. CASE m.kind = "other"
    <3>1. NoSignal
          BY <1>2, <2>1, <2>3 DEF NoSignal
    <3>2. QED
          BY <1>6, <2>3, <3>1 DEF OnPropertiesChanged, Inv, OpenOrOpening, Online, Connected
  <2>4. QED
        BY <1>2, <2>2, <2>3
<1>8. QED
      BY <1>3, <1>4, <1>5, <1>7 DEF Inv

LEMMA InitThreadInv == Inv /\ InitThread => Inv'
<1> SUFFICES ASSUME Inv, InitThread
             PROVE  Inv'
    OBVIOUS
<1>1. UNCHANGED <<service, connectivity, changes, bus, answer>>
      BY DEF InitThread, WaitService, ConnectSignal, ApplyAnswer
<1>2. LastIsNow' /\ NoSignal' = NoSignal
      BY <1>1 DEF Inv, LastIsNow, NoSignal
<1>3. CASE WaitService
  <2>1. TypeOK' /\ OneReply' /\ OpenOrOpening'
        BY <1>1, <1>2, <1>3
        DEF WaitService, Inv, TypeOK, OneReply, OpenOrOpening, Connected
  <2>2. QED
        BY <1>2, <2>1 DEF Inv
<1>4. CASE ConnectSignal
  <2>1. TypeOK' /\ OneReply' /\ OpenOrOpening'
        BY <1>1, <1>2, <1>4
        DEF ConnectSignal, Inv, TypeOK, OneReply, OpenOrOpening, Connected, WillOpen
  <2>2. QED
        BY <1>2, <2>1 DEF Inv
<1>5. CASE ApplyAnswer
  <2>1. PICK v \in answer : blocked_' = (blocked_ /\ v # Full)
        BY <1>5 DEF ApplyAnswer
  <2>2. pc = "answered" /\ pc' = "sigwait"
        BY <1>5 DEF ApplyAnswer
  <2>3. answer = {v}
        BY <2>1 DEF Inv, OneReply
  <2>4. TypeOK' /\ OneReply'
        BY <1>1, <1>2, <2>1, <2>2, <2>3 DEF Inv, TypeOK, OneReply, Connected
  <2>5. OpenOrOpening'
    <3> SUFFICES ASSUME NoSignal', Online'
                 PROVE  ~blocked_'
        BY DEF OpenOrOpening
    <3>1. ~blocked_ \/ WillOpen
          BY <1>1, <1>2, <2>2 DEF Inv, OpenOrOpening, Connected, Online
    <3>2. CASE WillOpen
      <4>1. answer = {Full}
            BY <2>2, <3>2 DEF WillOpen
      <4>2. v = Full
            BY <2>3, <4>1
      <4>3. QED
            BY <2>1, <4>2
    <3>3. QED
          BY <2>1, <3>1, <3>2
  <2>6. QED
        BY <1>2, <2>4, <2>5 DEF Inv
<1>6. QED
      BY <1>3, <1>4, <1>5 DEF InitThread

LEMMA NextInv == Inv /\ [Next]_vars => Inv'
<1> SUFFICES ASSUME Inv, [Next]_vars
             PROVE  Inv'
    OBVIOUS
<1>1. CASE ServiceAppears
      BY <1>1 DEF ServiceAppears, Inv, TypeOK, LastIsNow, OneReply, OpenOrOpening,
         NoSignal, WillOpen, Connected, Online
<1>2. CASE UNCHANGED vars
      BY <1>2 DEF vars, Inv, TypeOK, LastIsNow, OneReply, OpenOrOpening,
         NoSignal, WillOpen, Connected, Online
<1>3. QED
      BY <1>1, <1>2, ChangeInv, OtherInv, AnswerInv, HandlerInv,
         InitThreadInv DEF Next, NetworkManager, Dispatch

------------------------------------------------------------------------------
(***************************************************************************)
(* Type invariant of the network gate.                                     *)
(***************************************************************************)
THEOREM TypeCorrect == Spec => []TypeOK
<1>1. Inv => TypeOK
      BY DEF Inv
<1>2. QED
      BY <1>1, InitInv, NextInv, PTL DEF Spec

(***************************************************************************)
(* The gate is never stuck closed, for any levels and number of changes:   *)
(* the handler is connected before the property is read (resp_chain.cc:49  *)
(* and 67), so that whatever the reply misses comes as a signal.           *)
(***************************************************************************)
THEOREM NeverStuck == Spec => []NeverStuckClosed
<1>1. Inv => NeverStuckClosed
      BY DEF Inv, OpenOrOpening, NeverStuckClosed, Settled, Connected, NoSignal, WillOpen
<1>2. QED
      BY <1>1, InitInv, NextInv, PTL DEF Spec

------------------------------------------------------------------------------
(***************************************************************************)
(* What a settled and right flag keeps from then on: the property read is  *)
(* over, and without a signal on its way the flag is right.                *)
(***************************************************************************)
RightOrToldSo == pc = "sigwait" /\ (NoSignal => Right)

LEMMA HandlerKeepsRight ==
    ASSUME Inv, RightOrToldSo, OnPropertiesChanged
    PROVE  RightOrToldSo'
<1> DEFINE m == Head(bus)
<1>1. bus \in Seq(Messages) /\ bus # <<>> /\ bus' = Tail(bus)
      BY DEF OnPropertiesChanged, Inv, TypeOK, Messages
<1>2. /\ m = bus[1] /\ m.kind \in {"connectivity", "other"}
      /\ Len(bus) \in Nat \ {0}
      /\ \A i \in 1..Len(bus) : i # 1 => i - 1 \in 1..Len(bus') /\ bus'[i - 1] = bus[i]
      BY <1>1, TailBus DEF Messages
<1>3. pc' = "sigwait" /\ connectivity' = connectivity
      BY DEF OnPropertiesChanged, RightOrToldSo
<1>4. SUFFICES ASSUME NoSignal'
               PROVE  Right'
      BY <1>3 DEF RightOrToldSo
<1>5. \A i \in 1..Len(bus) : i # 1 => bus[i].kind # "connectivity"
      BY <1>2, <1>4 DEF NoSignal
<1>6. CASE m.kind = "connectivity"
  <2>1. 1 \in 1..Len(bus) /\ bus[1].kind = "connectivity"
        BY <1>2, <1>6
  <2>2. \A j \in 1..Len(bus) : j > 1 => bus[j].kind # "connectivity"
        BY <1>5
  <2>3. m.level = connectivity
        BY <1>2, <2>1, <2>2 DEF Inv, LastIsNow
  <2>4. blocked_' = (m.level # Full)
        BY <1>6 DEF OnPropertiesChanged
  <2>5. QED
        BY <1>3, <2>3, <2>4 DEF Right, Online
<1>7. CASE m.kind = "other"
  <2>1. NoSignal
        BY <1>2, <1>5, <1>7 DEF NoSignal
  <2>2. blocked_' = blocked_
        BY <1>7 DEF OnPropertiesChanged
  <2>3. QED
        BY <1>3, <2>1, <2>2 DEF RightOrToldSo, Right, Online
<1>8. QED
      BY <1>2, <1>6, <1>7

LEMMA StepKeepsRight == Inv /\ RightOrToldSo /\ [Next]_vars => RightOrToldSo'
<1> SUFFICES ASSUME Inv, RightOrToldSo, [Next]_vars
             PROVE  RightOrToldSo'
    OBVIOUS
<1>1. pc = "sigwait" /\ Connected /\ bus \in Seq(Messages)
      BY DEF RightOrToldSo, Connected, Inv, TypeOK, Messages
<1>2. ASSUME NEW v \in Levels, ConnectivityChanges(v)
      PROVE  RightOrToldSo'
  <2>1. Signal(v) \in Messages /\ Signal(v).kind = "connectivity"
        BY DEF Signal, Messages
  <2>2. bus' = Append(bus, Signal(v)) /\ pc' = "sigwait"
        BY <1>1, <1>2 DEF ConnectivityChanges, Announce
  <2>3. ~NoSignal'
        BY <1>1, <2>1, <2>2, AppendBus DEF NoSignal
  <2>4. QED
        BY <2>2, <2>3 DEF RightOrToldSo
<1>3. CASE OtherChanges
  <2>1. OtherSignal \in Messages
        BY LevelsAssumption DEF OtherSignal, Messages
  <2>2. bus' = Append(bus, OtherSignal) /\ UNCHANGED <<pc, blocked_, connectivity>>
        BY <1>1, <1>3 DEF OtherChanges, Announce
  <2>3. NoSignal' => NoSignal
        BY <1>1, <2>1, <2>2, AppendBus DEF NoSignal
  <2>4. QED
        BY <2>2, <2>3 DEF RightOrToldSo, Right, Online
<1>4. ~AnswerGet /\ ~WaitService /\ ~ConnectSignal /\ ~ApplyAnswer
      BY <1>1 DEF AnswerGet, WaitService, ConnectSignal, ApplyAnswer
<1>5. CASE ServiceAppears
      BY <1>5 DEF ServiceAppears, RightOrToldSo, NoSignal, Right, Online
<1>6. CASE UNCHANGED vars
      BY <1>6 DEF vars, RightOrToldSo, NoSignal, Right, Online
<1>7. QED
      BY <1>2, <1>3, <1>4, <1>5, <1>6, HandlerKeepsRight
      DEF Next, NetworkManager, Dispatch, InitThread

(***************************************************************************)
(* A wrong flag can only come from the start: once the flag agrees with    *)
(* NetworkManager and everything it said is acted upon, the handler of     *)
(* PropertiesChanged (resp_chain.cc:49) keeps the two together for good.   *)
(***************************************************************************)
THEOREM RightForGood == Spec => OnceRightStaysRight
<1>1. Settled /\ Right => RightOrToldSo
      BY DEF Settled, RightOrToldSo
<1>2. RightOrToldSo => (Settled => Right)
      BY DEF Settled, RightOrToldSo, NoSignal
<1>3. QED
      BY <1>1, <1>2, InitInv, NextInv, StepKeepsRight, PTL DEF Spec, OnceRightStaysRight
==============================================================================
