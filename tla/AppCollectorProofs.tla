--------------------------- MODULE AppCollectorProofs ---------------------------
(***************************************************************************)
(* Proofs about AppCollector, for any dock and any number of signals.      *)
(***************************************************************************)
EXTENDS AppCollector, TLAPS

Sent == [name : {"added", "removed", "opened", "closed"}, entry : Entries]

LEMMA NoneIsNoEntry == None \notin Entries
BY DockAssumption DEF None

\* What the dock sends, and what a handler takes, are signals.
LEMMA SignalType ==
    ASSUME signals \in Seq(Sent), NEW name \in {"added", "removed", "opened", "closed"},
           NEW e \in Entries, NEW b, Signal(name, e, b)
    PROVE  signals' \in Seq(Sent)
<1>1. [name |-> name, entry |-> e] \in Sent
      BY DEF Sent
<1>2. QED
      BY <1>1 DEF Signal

LEMMA ReceiveType ==
    ASSUME signals \in Seq(Sent), NEW name, Receive(name)
    PROVE  /\ Head(signals) \in Sent /\ Head(signals).entry \in Entries
           /\ signals' \in Seq(Sent)
<1>1. signals # <<>> /\ signals' = Tail(signals)
      BY DEF Receive
<1>2. Head(signals) \in Sent /\ signals' \in Seq(Sent)
      BY <1>1
<1>3. QED
      BY <1>2 DEF Sent

Service ==
    /\ dock \subseteq Entries /\ open \subseteq dock /\ late \subseteq Entries
    /\ signals \in Seq(Sent)

LEMMA DockTypes ==
    ASSUME TypeOK, Dock PROVE TypeOK'
<1>1. UNCHANGED <<alive, pc, added, removed, at, entry, monitored, apps_, keeps>>
      BY DEF Dock, collector, bus
<1>2. Service
      BY DEF TypeOK, Service, Sent
<1>3. Service'
  <2>1. PICK e \in Entries : EntryAdded(e) \/ EntryRemoved(e) \/ WindowsChanged(e)
        BY DEF Dock
  <2>2. CASE EntryAdded(e)
        BY <1>2, <2>2, SignalType DEF EntryAdded, Service
  <2>3. CASE EntryRemoved(e)
        BY <1>2, <2>3, SignalType DEF EntryRemoved, Service
  <2>4. CASE WindowsChanged(e)
        BY <1>2, <2>4, SignalType DEF WindowsChanged, Service
  <2>5. QED
        BY <2>1, <2>2, <2>3, <2>4
<1>4. QED
      BY <1>1, <1>3 DEF TypeOK, Service, Sent

\* what a handler may change
Handling ==
    /\ alive \in BOOLEAN
    /\ signals \in Seq(Sent)
    /\ at \in {"idle", "added", "monitored", "pop"}
    /\ entry \in Entries \cup {None} /\ (at = "idle" <=> entry = None)
    /\ monitored \subseteq Packaged /\ apps_ \subseteq Entries

LEMMA HandleTypes ==
    ASSUME Handling, Handle PROVE Handling'
<1> USE DEF Handling, Rest, Leave
<1>0. CASE Unheard
      BY <1>0 DEF Unheard, Keep
<1>1. CASE OnAdded
  <2>1. Head(signals).entry \in Entries /\ signals' \in Seq(Sent)
        BY <1>1, ReceiveType DEF OnAdded
  <2>2. QED
        BY <1>1, <2>1, NoneIsNoEntry DEF OnAdded
<1>2. CASE OnRemoved
      BY <1>2, ReceiveType DEF OnRemoved, Keep
<1>3. CASE Throw
      BY <1>3 DEF Throw
<1>4. CASE Monitor
      BY <1>4 DEF Monitor
<1>5. CASE ReadWindows
  <2>1. entry \in Entries
        BY <1>5 DEF ReadWindows
  <2>2. QED
        BY <1>5, <2>1, NoneIsNoEntry DEF ReadWindows, AddEntry
<1>6. CASE OnOpened
  <2>1. Head(signals).entry \in Entries /\ signals' \in Seq(Sent)
        BY <1>6, ReceiveType DEF OnOpened
  <2>2. QED
        BY <1>6, <2>1, NoneIsNoEntry DEF OnOpened, AddEntry
<1>7. CASE OnClosed
  <2>1. Head(signals).entry \in Entries /\ signals' \in Seq(Sent)
        BY <1>7, ReceiveType DEF OnClosed
  <2>2. QED
        BY <1>7, <2>1, NoneIsNoEntry DEF OnClosed
<1>8. CASE PopReq
      BY <1>8 DEF PopReq
<1>9. QED
      BY <1>0, <1>1, <1>2, <1>3, <1>4, <1>5, <1>6, <1>7, <1>8 DEF Handle

(***************************************************************************)
(* The state of the collector has its types: a handler that rests has no   *)
(* entry, and an entry that dpkg does not know is never monitored.         *)
(***************************************************************************)
THEOREM TypeCorrect == Spec => []TypeOK
<1>1. ASSUME Init PROVE TypeOK
  <2>1. Service
        BY <1>1 DEF Init, Service
  <2>2. QED
        BY <1>1, <2>1 DEF Init, TypeOK, Service, Sent
<1>2. ASSUME TypeOK, [Next]_vars PROVE TypeOK'
  <2>1. CASE Collect
        BY <1>2, <2>1 DEF Collect, ConnectAdded, ConnectRemoved, Return, TypeOK, service, bus
  <2>2. CASE Dock
        BY <1>2, <2>2, DockTypes
  <2>3. CASE Bus
    <3>1. Handling
          BY <1>2 DEF TypeOK, Handling, Sent
    <3>2. Handling'
          BY <2>3, <3>1, HandleTypes DEF Bus
    <3>3. UNCHANGED <<pc, added, removed, dock, open, late, keeps>>
          BY <2>3 DEF Bus, collector, service
    <3>4. QED
          BY <1>2, <3>2, <3>3 DEF TypeOK, Handling, Sent
  <2>4. CASE UNCHANGED vars
        BY <1>2, <2>4 DEF vars, TypeOK
  <2>5. QED
        BY <1>2, <2>1, <2>2, <2>3, <2>4 DEF Next
<1>3. QED
      BY <1>1, <1>2, PTL DEF Spec

------------------------------------------------------------------------------
(***************************************************************************)
(* No application stays known to be open in a process that runs: the       *)
(* message about the first one is written through a null pointer.          *)
(***************************************************************************)
THEOREM NothingIsKept == Spec => []NothingKept
<1>1. Init => NothingKept
      BY DEF Init, NothingKept
<1>2. ASSUME NothingKept, [Next]_vars PROVE NothingKept'
  <2>1. CASE Collect
        BY <1>2, <2>1 DEF NothingKept, Collect, ConnectAdded, ConnectRemoved, Return, bus
  <2>2. CASE Dock
        BY <1>2, <2>2 DEF NothingKept, Dock, bus
  <2>3. CASE Bus
    <3> USE <1>2 DEF NothingKept, Rest, Receive
    <3>0. CASE Unheard
          BY <3>0 DEF Unheard, Keep
    <3>1. CASE OnAdded
          BY <2>3, <3>1 DEF Bus, OnAdded
    <3>2. CASE OnRemoved
          BY <3>2 DEF OnRemoved, Keep
    <3>3. CASE Throw
          BY <2>3, <3>3 DEF Bus, Throw
    <3>4. CASE Monitor
          BY <3>4 DEF Monitor
    <3>5. CASE ReadWindows
          BY <3>5 DEF ReadWindows, AddEntry
    <3>6. CASE OnOpened
          BY <2>3, <3>6 DEF Bus, OnOpened, AddEntry
    <3>7. CASE OnClosed
          BY <2>3, <3>7 DEF Bus, OnClosed
    <3>8. CASE PopReq
          BY <3>8 DEF PopReq
    <3>9. QED
          BY <2>3, <3>0, <3>1, <3>2, <3>3, <3>4, <3>5, <3>6, <3>7, <3>8 DEF Bus, Handle
  <2>4. CASE UNCHANGED vars
        BY <1>2, <2>4 DEF vars, NothingKept
  <2>5. QED
        BY <1>2, <2>1, <2>2, <2>3, <2>4 DEF Next
<1>3. QED
      BY <1>1, <1>2, PTL DEF Spec

------------------------------------------------------------------------------
(* Which entries are monitored *)

\* An EntryAdded on its way, or in its handler, is about an entry that came
\* late.
LateInv ==
    /\ monitored \subseteq late
    /\ at \in {"added", "monitored"} => entry \in late
    /\ \A i \in 1..Len(signals) : signals[i].name = "added" => signals[i].entry \in late

LEMMA SignalKeepsLate ==
    ASSUME signals \in Seq(Sent), LateInv, UNCHANGED <<at, entry, monitored>>,
           NEW name, NEW e, NEW b, Signal(name, e, b), late \subseteq late',
           name = "added" /\ b => e \in late'
    PROVE  LateInv'
<1>1. CASE signals' = signals
      BY <1>1 DEF LateInv
<1>2. CASE b /\ signals' = Append(signals, [name |-> name, entry |-> e])
  <2>1. Len(signals') = Len(signals) + 1 /\ Len(signals) \in Nat
        BY <1>2
  <2>2. ASSUME NEW i \in 1..Len(signals'), signals'[i].name = "added"
        PROVE  signals'[i].entry \in late'
    <3>1. CASE i = Len(signals) + 1
          BY <1>2, <2>2, <3>1
    <3>2. CASE i \in 1..Len(signals)
          BY <1>2, <2>2, <3>2 DEF LateInv
    <3>3. QED
          BY <2>1, <2>2, <3>1, <3>2
  <2>3. QED
        BY <2>2 DEF LateInv
<1>3. QED
      BY <1>1, <1>2 DEF Signal

LEMMA TakeKeepsLate ==
    ASSUME signals \in Seq(Sent), signals # <<>>, signals' = Tail(signals),
           LateInv, late' = late
    PROVE  /\ \A i \in 1..Len(signals') :
                  signals'[i].name = "added" => signals'[i].entry \in late'
           /\ Head(signals).name = "added" => Head(signals).entry \in late
<1>1. Len(signals) \in Nat /\ Len(signals) >= 1 /\ Head(signals) = signals[1]
      OBVIOUS
<1>2. Len(signals') = Len(signals) - 1
      OBVIOUS
<1>3. \A i \in 1..Len(signals') : signals'[i] = signals[i + 1] /\ i + 1 \in 1..Len(signals)
      BY <1>1, <1>2
<1>4. Head(signals).name = "added" => Head(signals).entry \in late
      BY <1>1 DEF LateInv
<1>5. QED
      BY <1>3, <1>4 DEF LateInv

LEMMA HandleKeepsLate ==
    ASSUME signals \in Seq(Sent), LateInv, Handle, late' = late PROVE LateInv'
<1> USE DEF LateInv, Rest, Leave, Receive
<1>0. CASE Unheard
      BY <1>0, TakeKeepsLate DEF Unheard, Keep
<1>1. CASE OnAdded
      BY <1>1, TakeKeepsLate DEF OnAdded
<1>2. CASE OnRemoved
      BY <1>2, TakeKeepsLate DEF OnRemoved, Keep
<1>3. CASE Throw
      BY <1>3 DEF Throw
<1>4. CASE Monitor
      BY <1>4 DEF Monitor
<1>5. CASE ReadWindows
      BY <1>5 DEF ReadWindows, AddEntry
<1>6. CASE OnOpened
  <2>1. Receive("opened")
        BY <1>6 DEF OnOpened
  <2>2. monitored' = monitored /\ at' \in {"idle", "pop"}
        BY <1>6 DEF OnOpened, AddEntry
  <2>3. QED
        BY <2>1, <2>2, TakeKeepsLate
<1>7. CASE OnClosed
  <2>1. Receive("closed") /\ at = "idle"
        BY <1>7 DEF OnClosed, Receive
  <2>2. monitored' = monitored /\ at' \in {"idle", "pop"}
        BY <1>7 DEF OnClosed
  <2>3. QED
        BY <2>1, <2>2, TakeKeepsLate
<1>8. CASE PopReq
      BY <1>8 DEF PopReq
<1>9. QED
      BY <1>0, <1>1, <1>2, <1>3, <1>4, <1>5, <1>6, <1>7, <1>8 DEF Handle

(***************************************************************************)
(* Only an entry that the dock adds after the signal is connected is ever  *)
(* monitored: what collect() reads from the dock is lost, in every order   *)
(* of the three threads.                                                   *)
(***************************************************************************)
THEOREM OnlyLate == Spec => []OnlyLateMonitored
<1>1. Init => LateInv
      BY DEF Init, LateInv
<1>2. ASSUME TypeOK, LateInv, [Next]_vars PROVE LateInv'
  <2>0. signals \in Seq(Sent)
        BY <1>2 DEF TypeOK, Sent
  <2>1. CASE Collect
        BY <1>2, <2>1 DEF LateInv, Collect, ConnectAdded, ConnectRemoved, Return, bus, service
  <2>2. CASE Dock
    <3>1. PICK e \in Entries : EntryAdded(e) \/ EntryRemoved(e) \/ WindowsChanged(e)
          BY <2>2 DEF Dock
    <3>2. UNCHANGED <<at, entry, monitored>>
          BY <2>2 DEF Dock, bus
    <3>3. CASE EntryAdded(e)
          BY <1>2, <2>0, <3>2, <3>3, SignalKeepsLate DEF EntryAdded
    <3>4. CASE EntryRemoved(e)
          BY <1>2, <2>0, <3>2, <3>4, SignalKeepsLate DEF EntryRemoved
    <3>5. CASE WindowsChanged(e)
          BY <1>2, <2>0, <3>2, <3>5, SignalKeepsLate DEF WindowsChanged
    <3>6. QED
          BY <3>1, <3>3, <3>4, <3>5
  <2>3. CASE Bus
        BY <1>2, <2>0, <2>3, HandleKeepsLate DEF Bus, service
  <2>4. CASE UNCHANGED vars
        BY <1>2, <2>4 DEF vars, LateInv
  <2>5. QED
        BY <1>2, <2>1, <2>2, <2>3, <2>4 DEF Next
<1>3. LateInv => OnlyLateMonitored
      BY DEF LateInv, OnlyLateMonitored
<1>4. QED
      BY <1>1, <1>2, <1>3, TypeCorrect, PTL DEF Spec

------------------------------------------------------------------------------
(* Nothing is forgotten *)

\* A signal stays on its way when another is sent, or the first one taken.
LEMMA SendKeepsWay ==
    ASSUME signals \in Seq(Sent), NEW n, NEW f, NEW b \in BOOLEAN, Signal(n, f, b)
    PROVE  /\ \A m, e : OnItsWay(m, e) => OnItsWay(m, e)'
           /\ b => OnItsWay(n, f)'
<1>1. CASE signals' = signals /\ ~b
      BY <1>1 DEF OnItsWay
<1>2. CASE signals' = Append(signals, [name |-> n, entry |-> f])
  <2>1. /\ DOMAIN signals = 1..Len(signals) /\ Len(signals) \in Nat
        /\ DOMAIN signals' = 1..(Len(signals) + 1)
        /\ \A i \in 1..Len(signals) : signals'[i] = signals[i]
        /\ signals'[Len(signals) + 1] = [name |-> n, entry |-> f]
        BY <1>2
  <2>2. QED
        BY <2>1 DEF OnItsWay
<1>3. QED
      BY <1>1, <1>2 DEF Signal

LEMMA TakeKeepsWay ==
    ASSUME signals \in Seq(Sent), signals # <<>>, signals' = Tail(signals)
    PROVE  \A m, e : OnItsWay(m, e) /\ Head(signals) # [name |-> m, entry |-> e]
                     => OnItsWay(m, e)'
<1>1. /\ DOMAIN signals = 1..Len(signals) /\ Len(signals) \in Nat \ {0}
      /\ DOMAIN signals' = 1..(Len(signals) - 1) /\ Head(signals) = signals[1]
      /\ \A i \in 1..(Len(signals) - 1) : signals'[i] = signals[i + 1]
      OBVIOUS
<1>2. \A i \in 1..Len(signals) : i # 1 => i - 1 \in DOMAIN signals' /\ signals'[i - 1] = signals[i]
  <2>1. ASSUME NEW i \in 1..Len(signals), i # 1
        PROVE  i - 1 \in 1..(Len(signals) - 1) /\ (i - 1) + 1 = i
        BY <1>1, <2>1
  <2>2. QED
        BY <1>1, <2>1
<1>3. QED
      BY <1>1, <1>2 DEF OnItsWay

(***************************************************************************)
(* What keeps a late entry awaited: a connection that is kept is there     *)
(* since before the first late entry.                                      *)
(***************************************************************************)
AwaitInv == LateIsAwaited /\ (keeps /\ ~added => late = {})

LEMMA DockAwaits ==
    ASSUME TypeOK, AwaitInv, Dock PROVE AwaitInv'
<1>1. signals \in Seq(Sent) /\ added \in BOOLEAN
      BY DEF TypeOK, Sent
<1>2. UNCHANGED <<alive, keeps, added, at, entry, monitored>>
      BY DEF Dock, collector, bus
<1>3. PICK f \in Entries : EntryAdded(f) \/ EntryRemoved(f) \/ WindowsChanged(f)
      BY DEF Dock
<1>4. CASE EntryAdded(f)
  <2>1. /\ \A m, e : OnItsWay(m, e) => OnItsWay(m, e)'
        /\ added => OnItsWay("added", f)'
        BY <1>1, <1>4, SendKeepsWay DEF EntryAdded
  <2>2. /\ dock' = dock \cup {f}
        /\ late' = IF added THEN late \cup {f} ELSE late
        BY <1>4 DEF EntryAdded
  <2>3. ASSUME alive', keeps', NEW e \in Packaged \cap late' \cap dock'
        PROVE  e \in monitored' \/ OnItsWay("added", e)' \/ (at' = "added" /\ entry' = e)
    <3>1. added
          BY <1>2, <2>2, <2>3 DEF AwaitInv
    <3>2. CASE e = f
          BY <2>1, <3>1, <3>2
    <3>3. CASE e # f
          BY <1>2, <2>1, <2>2, <2>3, <3>3 DEF AwaitInv, LateIsAwaited
    <3>4. QED
          BY <3>2, <3>3
  <2>4. QED
        BY <1>2, <2>2, <2>3 DEF AwaitInv, LateIsAwaited
<1>5. CASE EntryRemoved(f) \/ WindowsChanged(f)
  <2>1. (\A m, e : OnItsWay(m, e) => OnItsWay(m, e)') /\ late' = late /\ dock' \subseteq dock
    <3>1. CASE EntryRemoved(f)
      <4>1. removed \in BOOLEAN /\ Signal("removed", f, removed)
            BY <3>1 DEF EntryRemoved, TypeOK
      <4>2. QED
            BY <1>1, <3>1, <4>1, SendKeepsWay DEF EntryRemoved
    <3>2. CASE WindowsChanged(f)
      <4>1. (f \in monitored) \in BOOLEAN
            OBVIOUS
      <4>2. Signal("opened", f, f \in monitored) \/ Signal("closed", f, f \in monitored)
            BY <3>2 DEF WindowsChanged
      <4>3. \A m, e : OnItsWay(m, e) => OnItsWay(m, e)'
            BY <1>1, <4>1, <4>2, SendKeepsWay
      <4>4. QED
            BY <3>2, <4>3 DEF WindowsChanged
    <3>3. QED
          BY <1>5, <3>1, <3>2
  <2>2. QED
        BY <1>2, <2>1 DEF AwaitInv, LateIsAwaited
<1>6. QED
      BY <1>3, <1>4, <1>5

LEMMA BusAwaits ==
    ASSUME TypeOK, AwaitInv, Bus PROVE AwaitInv'
<1>1. signals \in Seq(Sent)
      BY DEF TypeOK, Sent
<1>2. UNCHANGED <<added, dock, late, keeps>> /\ alive
      BY DEF Bus, collector, service
<1>3. SUFFICES ASSUME alive', keeps, NEW e \in Packaged \cap late \cap dock
               PROVE  e \in monitored' \/ OnItsWay("added", e)' \/ (at' = "added" /\ entry' = e)
      BY <1>2 DEF AwaitInv, LateIsAwaited
<1>4. e \in monitored \/ OnItsWay("added", e) \/ (at = "added" /\ entry = e)
      BY <1>2, <1>3 DEF AwaitInv, LateIsAwaited
<1>5. added
      BY <1>3 DEF AwaitInv
<1>6. CASE Unheard
  <2>1. signals # <<>> /\ signals' = Tail(signals) /\ Head(signals).name # "added" /\ at = "idle"
        BY <1>5, <1>6 DEF Unheard, Heard
  <2>2. OnItsWay("added", e) => OnItsWay("added", e)'
    <3>1. Head(signals) # [name |-> "added", entry |-> e]
          BY <2>1
    <3>2. QED
          BY <1>1, <2>1, <3>1, TakeKeepsWay
  <2>3. QED
        BY <1>4, <1>6, <2>1, <2>2 DEF Unheard, Keep
<1>7. CASE OnAdded
  <2>1. signals # <<>> /\ signals' = Tail(signals) /\ at = "idle"
        BY <1>7 DEF OnAdded, Receive
  <2>2. at' = "added" /\ entry' = Head(signals).entry /\ monitored' = monitored
        BY <1>3, <1>7 DEF OnAdded
  <2>3. OnItsWay("added", e) /\ Head(signals) # [name |-> "added", entry |-> e] => OnItsWay("added", e)'
        BY <1>1, <2>1, TakeKeepsWay
  <2>4. QED
        BY <1>4, <2>1, <2>2, <2>3
<1>8. CASE OnRemoved \/ OnOpened \/ OnClosed
  <2>1. signals # <<>> /\ signals' = Tail(signals) /\ Head(signals).name # "added" /\ at = "idle"
        BY <1>8 DEF OnRemoved, OnOpened, OnClosed, Receive
  <2>2. OnItsWay("added", e) => OnItsWay("added", e)'
    <3>1. Head(signals) # [name |-> "added", entry |-> e]
          BY <2>1
    <3>2. QED
          BY <1>1, <2>1, <3>1, TakeKeepsWay
  <2>3. monitored' = monitored
        BY <1>8 DEF OnRemoved, OnOpened, OnClosed, Keep
  <2>4. QED
        BY <1>4, <2>1, <2>2, <2>3
<1>9. CASE Throw
      BY <1>3, <1>4, <1>9 DEF Throw, Leave, OnItsWay
<1>10. CASE Monitor
      BY <1>3, <1>4, <1>10 DEF Monitor, OnItsWay
<1>11. CASE ReadWindows
      BY <1>3, <1>4, <1>11 DEF ReadWindows, Leave, OnItsWay
<1>12. CASE PopReq
      BY <1>3, <1>12 DEF PopReq
<1>13. QED
      BY <1>6, <1>7, <1>8, <1>9, <1>10, <1>11, <1>12 DEF Bus, Handle

(***************************************************************************)
(* No entry that the dock adds later is forgotten, in every order of the   *)
(* dock, the collector and the handlers, while the library keeps the       *)
(* connections.                                                            *)
(***************************************************************************)
THEOREM NoneForgotten == Spec => []LateIsAwaited
<1>1. Init => AwaitInv
      BY DEF Init, AwaitInv, LateIsAwaited
<1>2. ASSUME TypeOK, AwaitInv, [Next]_vars PROVE AwaitInv'
  <2>1. CASE Collect
    <3>1. UNCHANGED <<alive, dock, late, signals, keeps, at, entry, monitored>>
          BY <2>1 DEF Collect, ConnectAdded, ConnectRemoved, Return, service, bus
    <3>2. added /\ keeps => added'
          BY <2>1 DEF Collect, ConnectAdded, ConnectRemoved, Return
    <3>3. QED
          BY <1>2, <3>1, <3>2 DEF AwaitInv, LateIsAwaited, OnItsWay
  <2>2. CASE Dock
        BY <1>2, <2>2, DockAwaits
  <2>3. CASE Bus
        BY <1>2, <2>3, BusAwaits
  <2>4. CASE UNCHANGED vars
        BY <1>2, <2>4 DEF vars, AwaitInv, LateIsAwaited, OnItsWay
  <2>5. QED
        BY <1>2, <2>1, <2>2, <2>3, <2>4 DEF Next
<1>3. AwaitInv => LateIsAwaited
      BY DEF AwaitInv
<1>4. QED
      BY <1>1, <1>2, <1>3, TypeCorrect, PTL DEF Spec

------------------------------------------------------------------------------
LEMMA DockAnnounces ==
    ASSUME TypeOK, OpeningIsAwaited, Dock PROVE OpeningIsAwaited'
<1>1. signals \in Seq(Sent)
      BY DEF TypeOK, Sent
<1>2. UNCHANGED <<alive, at, entry, monitored>>
      BY DEF Dock, bus
<1>3. PICK f \in Entries : EntryAdded(f) \/ EntryRemoved(f) \/ WindowsChanged(f)
      BY DEF Dock
<1>4. SUFFICES ASSUME alive, NEW e \in monitored \cap open'
               PROVE  OnItsWay("opened", e)' \/ (at \in {"monitored", "pop"} /\ entry = e)
      BY <1>2 DEF OpeningIsAwaited
<1>5. CASE EntryAdded(f) \/ EntryRemoved(f)
  <2>1. e \in open
        BY <1>4, <1>5 DEF EntryAdded, EntryRemoved
  <2>2. \E n : \E b \in BOOLEAN : Signal(n, f, b)
        BY <1>5 DEF EntryAdded, EntryRemoved, TypeOK
  <2>3. OnItsWay("opened", e) => OnItsWay("opened", e)'
        BY <1>1, <2>2, SendKeepsWay
  <2>4. QED
        BY <1>4, <2>1, <2>3 DEF OpeningIsAwaited
<1>6. CASE WindowsChanged(f)
  <2>0. (f \in monitored) \in BOOLEAN
        OBVIOUS
  <2>1. CASE Signal("opened", f, f \in monitored) /\ open' = open \cup {f}
    <3>1. /\ OnItsWay("opened", e) => OnItsWay("opened", e)'
          /\ f \in monitored => OnItsWay("opened", f)'
          BY <1>1, <2>0, <2>1, SendKeepsWay
    <3>2. QED
          BY <1>4, <2>1, <3>1 DEF OpeningIsAwaited
  <2>2. CASE Signal("closed", f, f \in monitored) /\ open' = open \ {f}
    <3>1. OnItsWay("opened", e) => OnItsWay("opened", e)'
          BY <1>1, <2>0, <2>2, SendKeepsWay
    <3>2. QED
          BY <1>4, <2>2, <3>1 DEF OpeningIsAwaited
  <2>3. QED
        BY <1>6, <2>1, <2>2 DEF WindowsChanged
<1>7. QED
      BY <1>3, <1>5, <1>6

LEMMA BusAnnounces ==
    ASSUME TypeOK, NothingKept, OpeningIsAwaited, Bus PROVE OpeningIsAwaited'
<1>1. signals \in Seq(Sent) /\ open \subseteq dock
      BY DEF TypeOK, Sent
<1>2. open' = open /\ alive
      BY DEF Bus, service
<1>3. SUFFICES ASSUME alive', NEW e \in monitored' \cap open
               PROVE  OnItsWay("opened", e)' \/ (at' \in {"monitored", "pop"} /\ entry' = e)
      BY <1>2 DEF OpeningIsAwaited
<1>4. e \in monitored =>
          OnItsWay("opened", e) \/ (at \in {"monitored", "pop"} /\ entry = e)
      BY <1>2, <1>3 DEF OpeningIsAwaited
<1>5. CASE Unheard
  <2>1. /\ signals # <<>> /\ signals' = Tail(signals) /\ at = "idle" /\ ~Heard(Head(signals))
        /\ monitored' = monitored
        BY <1>5 DEF Unheard, Keep
  <2>2. Head(signals) # [name |-> "opened", entry |-> e]
        BY <1>3, <2>1 DEF Heard
  <2>3. OnItsWay("opened", e)
        BY <1>3, <1>4, <2>1
  <2>4. QED
        BY <1>1, <2>1, <2>2, <2>3, TakeKeepsWay
<1>6. CASE OnAdded \/ OnRemoved \/ OnClosed
  <2>1. /\ signals # <<>> /\ signals' = Tail(signals) /\ Head(signals).name # "opened"
        /\ at = "idle" /\ monitored' = monitored
        BY <1>6 DEF OnAdded, OnRemoved, OnClosed, Receive, Keep
  <2>2. OnItsWay("opened", e)
        BY <1>3, <1>4, <2>1
  <2>3. Head(signals) # [name |-> "opened", entry |-> e]
        BY <2>1
  <2>4. QED
        BY <1>1, <2>1, <2>2, <2>3, TakeKeepsWay
<1>7. CASE OnOpened
  <2>1. /\ signals # <<>> /\ signals' = Tail(signals) /\ at = "idle" /\ monitored' = monitored
        BY <1>7 DEF OnOpened, Receive
  <2>2. apps_ = {}
        BY <1>2, <2>1 DEF NothingKept
  <2>3. at' = "pop" /\ entry' = Head(signals).entry
        BY <1>7, <2>2 DEF OnOpened, AddEntry
  <2>4. OnItsWay("opened", e)
        BY <1>3, <1>4, <2>1
  <2>5. Head(signals) # [name |-> "opened", entry |-> e] => OnItsWay("opened", e)'
        BY <1>1, <2>1, <2>4, TakeKeepsWay
  <2>6. QED
        BY <2>3, <2>5
<1>8. CASE Throw
  <2>1. signals' = signals /\ entry \notin dock /\ e \in monitored
        BY <1>3, <1>8 DEF Throw, Leave
  <2>2. QED
        BY <1>1, <1>3, <1>4, <2>1 DEF OnItsWay
<1>9. CASE Monitor
      BY <1>3, <1>4, <1>9 DEF Monitor, OnItsWay
<1>10. CASE ReadWindows
  <2>1. apps_ = {} /\ signals' = signals /\ at = "monitored" /\ e \in monitored
        BY <1>2, <1>3, <1>10 DEF ReadWindows, NothingKept, Leave
  <2>2. entry \in open => at' = "pop" /\ entry' = entry
        BY <1>10, <2>1 DEF ReadWindows, AddEntry
  <2>3. QED
        BY <1>3, <1>4, <2>1, <2>2 DEF OnItsWay
<1>11. CASE PopReq
      BY <1>3, <1>11 DEF PopReq
<1>12. QED
      BY <1>5, <1>6, <1>7, <1>8, <1>9, <1>10, <1>11 DEF Bus, Handle

(***************************************************************************)
(* No opening of a monitored entry is missed, in every order of the dock   *)
(* and the handlers: the windows are read behind the connection.           *)
(***************************************************************************)
THEOREM NoOpeningMissed == Spec => []OpeningIsAwaited
<1>1. Init => OpeningIsAwaited
      BY DEF Init, OpeningIsAwaited
<1>2. ASSUME TypeOK, NothingKept, OpeningIsAwaited, [Next]_vars PROVE OpeningIsAwaited'
  <2>1. CASE Collect
        BY <1>2, <2>1 DEF Collect, ConnectAdded, ConnectRemoved, Return, service, bus,
           OpeningIsAwaited, OnItsWay
  <2>2. CASE Dock
        BY <1>2, <2>2, DockAnnounces
  <2>3. CASE Bus
        BY <1>2, <2>3, BusAnnounces
  <2>4. CASE UNCHANGED vars
        BY <1>2, <2>4 DEF vars, OpeningIsAwaited, OnItsWay
  <2>5. QED
        BY <1>2, <2>1, <2>2, <2>3, <2>4 DEF Next
<1>3. QED
      BY <1>1, <1>2, TypeCorrect, NothingIsKept, PTL DEF Spec
==============================================================================
